------------------------------- MODULE Circle -------------------------------
(***************************************************************************)
(* The invitation-only circle: the packages auth and groups serving        *)
(* requests at the same time on the same tables, with every repository     *)
(* call a point where requests interleave and where a request may end.     *)
(***************************************************************************)
EXTENDS AuthService, GroupService

CONSTANT Faults  \* whether repository calls may fail and requests be cut off

ASSUME FaultsAssumption == Faults \in BOOLEAN

(* A call returns an error, the client goes away and cancels the context,  *)
(* or the process dies.  What was written stays written.  A statement that *)
(* took effect although its caller saw an error is that statement's step   *)
(* followed by this one.                                                   *)
RequestFails(r) ==
    /\ Faults
    /\ req[r].pc # "idle"
    /\ Return(r)
    /\ UNCHANGED <<accountVars, groupVars, inviteVars>>

Init == TablesInit

Next == AuthNext \/ GroupNext \/ \E r \in Req : RequestFails(r)

Spec == Init /\ [][Next]_vars
-----------------------------------------------------------------------------
Quiet == \A r \in Req : req[r] = Idle

(* The tables that Trust speaks about are those of the handlers.           *)
Contract == INSTANCE Trust

NeedsInvite  == {"reg_invite", "reg_room", "reg_join", "reg_accept"} \cup AcceptPC
NeedsAccount == {"reg_join", "reg_accept", "reg_token", "reg_answer"}
                    \cup GroupPC \cup AcceptPC

AccountsType ==
    /\ accounts \subseteq User
    /\ invitedBy \in [User -> User \cup {None}]
    /\ verified \subseteq User
    /\ tokenRow \in [User -> {"none", "live", "expired"}]
    /\ mailed \subseteq User

GroupsType ==
    /\ owner \in [Group -> User \cup {None}]
    /\ members \in [Group -> SUBSET User]
    /\ sponsor \in [Group -> [User -> User \cup {None}]]

InvitesType ==
    /\ invites \in [Invite -> InviteRow]
    /\ joinedBy \in [Invite -> SUBSET User]

RequestsType == req \in [Req -> Request]

(* Every variable holds values of its column's type.                       *)
TypeOK == AccountsType /\ GroupsType /\ InvitesType /\ RequestsType

HandlerConsistent(r) == LET q == req[r] IN
    /\ q.pc # "idle" => q.user \in User
    /\ q.invite # None => Issued(q.invite)
    /\ q.pc \in NeedsInvite => q.invite # None
    /\ q.pc \in NeedsAccount => q.user \in accounts
    /\ q.pc \in AcceptPC => q.group = invites[q.invite].group
    /\ q.pc = "inv_insert" => q.group \in Group /\ q.user \in members[q.group]
    /\ q.pc = "own_join" => /\ q.group \in Group
                            /\ owner[q.group] = q.user
                            /\ members[q.group] = {}

OneFounder ==
    \A r, s \in Req :
        (At(r, "own_join") /\ At(s, "own_join") /\ req[r].group = req[s].group)
            => r = s

(* What a handler keeps in its locals still agrees with the tables when it *)
(* uses it, however many requests ran in between, and no two requests are  *)
(* about to enter the same group as its owner.                             *)
HandlersConsistent == (\A r \in Req : HandlerConsistent(r)) /\ OneFounder

(* The rows agree with each other: an invitation belongs to a group and was*)
(* written by a member of it, members and owners have accounts, and a group*)
(* with members has its owner among them.  The database's foreign keys do  *)
(* not say the second and the last of these; the handlers' checks do.      *)
TablesConsistent ==
    /\ \A i \in Invite : Issued(i) =>
        /\ invites[i].group \in Group
        /\ invites[i].inviter \in members[invites[i].group]
    /\ \A g \in Group :
        /\ members[g] \subseteq accounts
        /\ owner[g] # None => owner[g] \in accounts
        /\ members[g] # {} => owner[g] \in members[g]

(* The inductive invariant behind the properties below.                    *)
Consistent == TypeOK /\ HandlersConsistent /\ TablesConsistent

(* "ganze Einladungskette rueckverfolgbar" (SPEC.md:319): the chain of     *)
(* users.invited_by has no cycle and no dangling end and stops at a        *)
(* bootstrap account, however registrations, joins and failures interleave.*)
InvitationChainRooted == Contract!AccountsRooted

(* Along group_members.invited_by every member leads back to the owner, who*)
(* is a member.  So a group left without its owner's row (CreateGroup cut  *)
(* off half-way) stays empty, and only a member's invitation lets anyone   *)
(* into a group.                                                           *)
MembershipRooted == Contract!MembersRooted

(* Every step of the handlers, failing ones included, is a step of Trust   *)
(* or leaves its tables alone.                                             *)
KeepsTrust == Contract!Spec

(* Requests that have seen room in g and have not inserted the member yet. *)
Bound(r, g) == LET q == req[r] IN
    \/ /\ q.pc \in {"reg_email", "reg_user", "reg_join"}
       /\ q.invite # None
       /\ invites[q.invite].group = g
    \/ q.pc = "acc_join" /\ q.group = g

Heading(g) == {r \in Req : Bound(r, g)}

(* count-then-insert is not atomic, so the limit can be overshot, but only *)
(* by requests that counted before the group was full: all but one of the  *)
(* requests handled at the same time (groups.Service.AcceptInvite;         *)
(* HasCapacity and AddMember in auth.Service.Register).                    *)
OvershootBounded ==
    \A g \in Group :
        Cardinality(members[g]) <= MaxMembers + Cardinality(Req) - 1

(* The same, counting the requests on their way in.                        *)
RoomAccounted ==
    \A g \in Group : Cardinality(members[g]) + Cardinality(Heading(g))
                        <= MaxMembers + Cardinality(Req) - 1

(* The same of the first account, which needs no invitation: registrations *)
(* that overlap may all have found no user, but never more than requests   *)
(* are handled at the same time (auth.Service.Register).                   *)
BootstrapBounded ==
    Cardinality({u \in accounts : invitedBy[u] = None}) <= Cardinality(Req)

(* An invitation is marked accepted only after somebody has entered the    *)
(* group through it: a request cut off between the two writes must leave a *)
(* usable link rather than a used-up one nobody profited from.             *)
AcceptedMeansJoined ==
    \A i \in Invite : invites[i].status = "accepted" =>
        \E u \in joinedBy[i] : u \in members[invites[i].group]

(* Whoever was handed a verification token has used it or can still find   *)
(* its row (live or expired): the token is not taken away before the       *)
(* address is marked, so a failing VerifyEmail can be tried again.         *)
TokenNotLost ==
    \A u \in mailed : u \in verified \/ tokenRow[u] # "none"

(* "vermeidet 'Konto ohne Gruppe'" (auth/service.go:110): a registration   *)
(* cut off between CreateUser and AddMember does leave an invited account  *)
(* without a group, and its address is taken for ever, but nobody verifies *)
(* that address: whoever is verified has a group or needed no invitation.  *)
VerifiedHaveGroup ==
    \A u \in verified :
        invitedBy[u] = None \/ \E g \in Group : u \in members[g]
-----------------------------------------------------------------------------
(* What the documentation says without regard to concurrency and failures. *)

(* "Einladungen sind einmalig" (README.md:64): an invitation brings one    *)
(* person into the group.                                                  *)
SingleUse == \A i \in Invite : Cardinality(joinedBy[i]) <= 1

(* "max_members (Default 30) wird durchgesetzt" (CHANGELOG.md:25).         *)
LimitEnforced == \A g \in Group : Cardinality(members[g]) <= MaxMembers

(* "NULL nur beim allerersten Account" (SPEC.md:75, users.invited_by).     *)
OneBootstrap == Cardinality({u \in accounts : invitedBy[u] = None}) <= 1

(* "vermeidet 'Konto ohne Gruppe'" (auth/service.go:110): when nothing is  *)
(* in flight, every invited account is a member of a group.                *)
NoAccountWithoutGroup ==
    Quiet => \A u \in accounts :
                invitedBy[u] = None \/ \E g \in Group : u \in members[g]
=============================================================================
