------------------------------- MODULE Trust -------------------------------
(***************************************************************************)
(* What auth and groups together promise, with no handler, no invitation   *)
(* and no request in sight: accounts and members come in one at a time and *)
(* somebody already inside vouches for each of them.  Only an account that *)
(* founds the system, and the owner of a group, come in without a voucher; *)
(* nobody is removed and no voucher is ever rewritten.                     *)
(***************************************************************************)
CONSTANTS User, Group, None

VARIABLES accounts, invitedBy, owner, members, sponsor

trustVars == <<accounts, invitedBy, owner, members, sponsor>>

Init ==
    /\ accounts = {}
    /\ invitedBy = [u \in User |-> None]
    /\ owner = [g \in Group |-> None]
    /\ members = [g \in Group |-> {}]
    /\ sponsor = [g \in Group |-> [u \in User |-> None]]

Enrol(u, by) ==
    /\ u \notin accounts
    /\ accounts' = accounts \cup {u}
    /\ invitedBy' = [invitedBy EXCEPT ![u] = by]
    /\ UNCHANGED <<owner, members, sponsor>>

(* An account without a voucher.                                           *)
Bootstrap(u) == Enrol(u, None)

(* An account with one: by is an account that is a member of some group.   *)
Register(u, by) ==
    /\ \E g \in Group : by \in members[g] \cap accounts
    /\ Enrol(u, by)

Found(u, g) ==
    /\ u \in accounts
    /\ owner[g] = None
    /\ owner' = [owner EXCEPT ![g] = u]
    /\ UNCHANGED <<accounts, invitedBy, members, sponsor>>

Enter(g, u, by) ==
    /\ u \in accounts \ members[g]
    /\ members' = [members EXCEPT ![g] = @ \cup {u}]
    /\ sponsor' = [sponsor EXCEPT ![g][u] = by]
    /\ UNCHANGED <<accounts, invitedBy, owner>>

(* The owner enters an empty group, everyone else a group that has its     *)
(* owner, vouched for by somebody inside.                                  *)
OwnerEnters(g) ==
    /\ owner[g] # None
    /\ members[g] = {}
    /\ Enter(g, owner[g], None)

Join(g, u, by) ==
    /\ owner[g] \in members[g]
    /\ by \in members[g]
    /\ Enter(g, u, by)

Next ==
    \/ \E u \in User : Bootstrap(u) \/ \E by \in User : Register(u, by)
    \/ \E u \in User, g \in Group : Found(u, g) \/ \E by \in User : Join(g, u, by)
    \/ \E g \in Group : OwnerEnters(g)

Spec == Init /\ [][Next]_trustVars
-----------------------------------------------------------------------------
(* Every account leads back to an account that needed no voucher: a set of *)
(* accounts that all have one contains one whose voucher is outside.       *)
AccountsRooted ==
    \A S \in SUBSET accounts :
        (S # {} /\ \A u \in S : invitedBy[u] # None)
            => \E u \in S : invitedBy[u] \in accounts \ S

(* Every member leads back to the owner of the group: a set of members     *)
(* without the owner contains one whose voucher is a member outside.       *)
MembersRooted ==
    \A g \in Group : \A S \in SUBSET (members[g] \ {owner[g]}) :
        S # {} => \E u \in S : sponsor[g][u] \in members[g] \ S
=============================================================================
