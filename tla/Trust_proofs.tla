---------------------------- MODULE Trust_proofs ----------------------------
(***************************************************************************)
(* The chain of vouchers is rooted in every behaviour Trust allows.        *)
(***************************************************************************)
EXTENDS Trust, TLAPS

(* What rootedness needs to be inductive: members are accounts, and a      *)
(* group without owner is empty, so naming its owner disturbs no chain.    *)
TrustInv ==
    /\ accounts \subseteq User
    /\ invitedBy \in [User -> User \cup {None}]
    /\ owner \in [Group -> User \cup {None}]
    /\ members \in [Group -> SUBSET User]
    /\ sponsor \in [Group -> [User -> User \cup {None}]]
    /\ \A g \in Group : owner[g] = None => members[g] = {}

(* Trust's typing and its empty unowned groups are kept by every step.     *)
LEMMA TrustInvKept == TrustInv /\ [Next]_trustVars => TrustInv'
<1> SUFFICES ASSUME TrustInv, [Next]_trustVars PROVE TrustInv'
    OBVIOUS
<1> USE DEF TrustInv, Enrol, Enter
<1>1. ASSUME NEW u \in User, Bootstrap(u) PROVE TrustInv'
    BY <1>1 DEF Bootstrap
<1>2. ASSUME NEW u \in User, NEW by \in User, Register(u, by) PROVE TrustInv'
    BY <1>2 DEF Register
<1>3. ASSUME NEW u \in User, NEW g \in Group, Found(u, g) PROVE TrustInv'
    BY <1>3 DEF Found
<1>4. ASSUME NEW u \in User, NEW g \in Group, NEW by \in User, Join(g, u, by)
      PROVE  TrustInv'
    BY <1>4 DEF Join
<1>5. ASSUME NEW g \in Group, OwnerEnters(g) PROVE TrustInv'
    BY <1>5 DEF OwnerEnters
<1>6. CASE UNCHANGED trustVars
    BY <1>6 DEF trustVars
<1> QED BY <1>1, <1>2, <1>3, <1>4, <1>5, <1>6 DEF Next

(* One more account, vouched for from inside or by nobody, keeps the chain *)
(* of accounts rooted.                                                     *)
LEMMA EnrolKeepsRoots ==
    ASSUME TrustInv, AccountsRooted, NEW u \in User,
           NEW by \in accounts \cup {None}, Enrol(u, by)
    PROVE  AccountsRooted'
<1> SUFFICES ASSUME NEW S \in SUBSET accounts', S # {},
                    \A v \in S : invitedBy'[v] # None
             PROVE  \E v \in S : invitedBy'[v] \in accounts' \ S
    BY DEF AccountsRooted
<1> DEFINE T == S \ {u}
<1>1. T \in SUBSET accounts /\ \A v \in T : invitedBy'[v] = invitedBy[v]
    BY DEF Enrol, TrustInv
<1>2. CASE T = {}
    <2>1. S = {u} /\ by \in accounts /\ by # u
        BY <1>2 DEF Enrol, TrustInv
    <2> QED BY <2>1 DEF Enrol, TrustInv
<1>3. CASE T # {}
    <2>1. PICK v \in T : invitedBy[v] \in accounts \ T
        BY <1>1, <1>3 DEF AccountsRooted
    <2>2. invitedBy[v] # u
        BY <2>1 DEF Enrol
    <2> QED BY <1>1, <2>1, <2>2 DEF Enrol
<1> QED BY <1>2, <1>3

(* A newcomer vouched for by a member keeps the chain of members rooted.   *)
LEMMA JoinKeepsRoots ==
    ASSUME TrustInv, MembersRooted, NEW g \in Group, NEW u \in User, NEW by \in User,
           Join(g, u, by)
    PROVE  MembersRooted'
<1> SUFFICES ASSUME NEW h \in Group,
                    NEW S \in SUBSET (members'[h] \ {owner'[h]}), S # {}
             PROVE  \E v \in S : sponsor'[h][v] \in members'[h] \ S
    BY DEF MembersRooted
<1>1. CASE h # g
    BY <1>1 DEF MembersRooted, Join, Enter, TrustInv
<1>2. CASE h = g
    <2> DEFINE T == S \ {u}
    <2>1. T \in SUBSET (members[g] \ {owner[g]})
        BY <1>2 DEF Join, Enter, TrustInv
    <2>2. CASE T = {}
        <3>1. S = {u} /\ by \in members[g] /\ by # u
            BY <2>2 DEF Join, Enter
        <3> QED BY <1>2, <3>1 DEF Join, Enter, TrustInv
    <2>3. CASE T # {}
        <3>1. PICK v \in T : sponsor[g][v] \in members[g] \ T
            BY <2>1, <2>3 DEF MembersRooted
        <3>2. sponsor[g][v] # u
            BY <3>1 DEF Join, Enter
        <3>3. v \in User /\ v # u
            BY <2>1 DEF TrustInv
        <3> QED BY <1>2, <3>1, <3>2, <3>3 DEF Join, Enter, TrustInv
    <2> QED BY <2>2, <2>3
<1> QED BY <1>1, <1>2

(* The owner, alone in the group, is the root.                             *)
LEMMA OwnerKeepsRoots ==
    ASSUME TrustInv, MembersRooted, NEW g \in Group, OwnerEnters(g)
    PROVE  MembersRooted'
<1> SUFFICES ASSUME NEW h \in Group,
                    NEW S \in SUBSET (members'[h] \ {owner'[h]}), S # {}
             PROVE  \E v \in S : sponsor'[h][v] \in members'[h] \ S
    BY DEF MembersRooted
<1>1. CASE h # g
    BY <1>1 DEF MembersRooted, OwnerEnters, Enter, TrustInv
<1>2. CASE h = g
    BY <1>2 DEF OwnerEnters, Enter, TrustInv
<1> QED BY <1>1, <1>2

(* In every behaviour of Trust every account leads back to one that needed *)
(* no voucher, and every member to the owner of the group.                 *)
THEOREM TrustIsRooted == Spec => [](AccountsRooted /\ MembersRooted)
<1> DEFINE IInv == TrustInv /\ AccountsRooted /\ MembersRooted
<1>1. Init => IInv
    BY DEF Init, TrustInv, AccountsRooted, MembersRooted
<1>2. IInv /\ [Next]_trustVars => IInv'
    <2> SUFFICES ASSUME IInv, [Next]_trustVars PROVE IInv'
        OBVIOUS
    <2>1. TrustInv'
        BY TrustInvKept
    <2>2. AccountsRooted'
        <3>1. CASE \E u \in User : Bootstrap(u)
            BY <3>1, EnrolKeepsRoots DEF Bootstrap
        <3>2. CASE \E u, by \in User : Register(u, by)
            BY <3>2, EnrolKeepsRoots DEF Register
        <3>3. CASE UNCHANGED <<accounts, invitedBy>>
            BY <3>3 DEF AccountsRooted
        <3> QED BY <3>1, <3>2, <3>3 DEF Next, Found, Join, OwnerEnters, Enter, trustVars
    <2>3. MembersRooted'
        <3>1. CASE \E g \in Group, u, by \in User : Join(g, u, by)
            BY <3>1, JoinKeepsRoots
        <3>2. CASE \E g \in Group : OwnerEnters(g)
            BY <3>2, OwnerKeepsRoots
        <3>3. CASE \E u \in User, g \in Group : Found(u, g)
            BY <3>3 DEF Found, MembersRooted, TrustInv
        <3>4. CASE UNCHANGED <<owner, members, sponsor>>
            BY <3>4 DEF MembersRooted
        <3> QED BY <3>1, <3>2, <3>3, <3>4 DEF Next, Bootstrap, Register, Enrol, trustVars
    <2> QED BY <2>1, <2>2, <2>3
<1> QED BY <1>1, <1>2, PTL DEF Spec
=============================================================================
