------------------------- MODULE Circle_room_proofs -------------------------
(***************************************************************************)
(* How far concurrent requests can overshoot a group's limit.              *)
(***************************************************************************)
EXTENDS Circle_proofs, FiniteSetTheorems

(* Members, users and requests are finite sets.                            *)
LEMMA Finite ==
    ASSUME Consistent, NEW g \in Group
    PROVE  /\ IsFiniteSet(members[g]) /\ Cardinality(members[g]) \in Nat
           /\ IsFiniteSet(Heading(g)) /\ Cardinality(Heading(g)) \in Nat
           /\ IsFiniteSet(Req) /\ Cardinality(Req) \in Nat
           /\ Cardinality(Heading(g)) <= Cardinality(Req)
<1>1. members[g] \subseteq User /\ Heading(g) \subseteq Req
    BY DEF Consistent, TypeOK, GroupsType, Heading
<1> QED BY <1>1, TablesAssumption, FS_Subset, FS_CardinalityType

(* A request that did not move heads where it headed before.               *)
LEMMA BoundStays ==
    ASSUME Consistent, [Next]_vars, NEW g \in Group, NEW x \in Req,
           req'[x] = req[x], Bound(x, g)'
    PROVE  Bound(x, g)
<1>1. CASE req[x].invite # None
    <2> DEFINE i == req[x].invite
    <2>1. i \in Invite /\ Issued(i)
        BY <1>1, InviteFacts
    <2>2. invites'[i].group = invites[i].group
        BY <2>1, InvitesGrow
    <2> QED BY <2>2 DEF Bound
<1>2. CASE req[x].invite = None
    BY <1>2 DEF Bound
<1> QED BY <1>1, <1>2

(* Only the steps that saw room, in a state where there was room and       *)
(* without touching the members, put a request on its way into a group.    *)
LEMMA HeadingFrame ==
    ASSUME Consistent, [Next]_vars, NEW g \in Group, NEW x \in Req,
           Bound(x, g)', ~Bound(x, g)
    PROVE  HasCapacity(g) /\ members' = members
<1>0. req'[x] # req[x] /\ RequestsType
    BY BoundStays DEF Consistent, TypeOK
<1>1. ASSUME NEW r \in Req, NEW u \in User, RegisterCount(r, u)
      PROVE  FALSE
    BY <1>0, <1>1 DEF RegisterCount, Stored, Begin, Bound, RequestsType
<1>2. ASSUME NEW r \in Req, RegisterInvite(r)
      PROVE  FALSE
    BY <1>0, <1>2, GotoSlot, ReturnSlot DEF RegisterInvite, Bound, Idle, At, inviteVars
<1>3. ASSUME NEW r \in Req, RegisterRoom(r)
      PROVE  HasCapacity(g) /\ members' = members
    <2>1. HasCapacity(invites[req[r].invite].group) /\ Goto(r, "reg_email")
        BY <1>0, <1>3, ReturnSlot DEF RegisterRoom, Bound, Idle
    <2>2. x = r /\ req'[x].pc = "reg_email" /\ req'[x].invite = req[r].invite
        BY <1>0, <2>1, GotoSlot
    <2>3. invites[req[r].invite].group = g
        BY <1>3, <2>2 DEF Bound, RegisterRoom, inviteVars
    <2> QED BY <1>3, <2>1, <2>3 DEF RegisterRoom, groupVars
<1>4. ASSUME NEW r \in Req, RegisterEmail(r)
      PROVE  FALSE
    BY <1>0, <1>4, GotoSlot, ReturnSlot DEF RegisterEmail, Bound, Idle, At, inviteVars
<1>5. ASSUME NEW r \in Req, RegisterUser(r)
      PROVE  FALSE
    BY <1>0, <1>5, GotoSlot, ReturnSlot DEF RegisterUser, Bound, Idle, At, inviteVars
<1>6. ASSUME NEW r \in Req, RegisterJoin(r)
      PROVE  FALSE
    BY <1>0, <1>6, GotoSlot, ReturnSlot DEF RegisterJoin, Bound, Idle, At, inviteVars
<1>7. ASSUME NEW r \in Req, RegisterAccept(r)
      PROVE  FALSE
    BY <1>0, <1>7, GotoSlot, ReturnSlot DEF RegisterAccept, Bound, Idle, At, inviteVars
<1>8. ASSUME NEW r \in Req, RegisterToken(r)
      PROVE  FALSE
    BY <1>0, <1>8, GotoSlot, ReturnSlot DEF RegisterToken, Bound, Idle, At, inviteVars
<1>9. ASSUME NEW r \in Req, RegisterAnswer(r)
      PROVE  FALSE
    BY <1>0, <1>9, GotoSlot, ReturnSlot DEF RegisterAnswer, Bound, Idle, At, inviteVars
<1>10. ASSUME NEW r \in Req, NEW u \in User, VerifyRead(r, u)
      PROVE  FALSE
    BY <1>0, <1>10 DEF VerifyRead, Begin, Bound, RequestsType
<1>11. ASSUME NEW r \in Req, VerifyMark(r)
      PROVE  FALSE
    BY <1>0, <1>11, GotoSlot, ReturnSlot DEF VerifyMark, Bound, Idle, At, inviteVars
<1>12. ASSUME NEW r \in Req, VerifyDelete(r)
      PROVE  FALSE
    BY <1>0, <1>12, GotoSlot, ReturnSlot DEF VerifyDelete, Bound, Idle, At, inviteVars
<1>13. ASSUME NEW u \in User, TokenExpires(u)
      PROVE  FALSE
    BY <1>0, <1>13 DEF TokenExpires
<1>14. ASSUME NEW r \in Req, NEW u \in User, NEW h \in Group, GroupInsert(r, u, h)
      PROVE  FALSE
    BY <1>0, <1>14 DEF GroupInsert, Begin, Bound, RequestsType
<1>15. ASSUME NEW r \in Req, GroupOwnerJoin(r)
      PROVE  FALSE
    BY <1>0, <1>15, GotoSlot, ReturnSlot DEF GroupOwnerJoin, Bound, Idle, At, inviteVars
<1>16. ASSUME NEW r \in Req, NEW u \in User, NEW h \in Group, NEW e \in Addresses, InviteRole(r, u, h, e)
      PROVE  FALSE
    BY <1>0, <1>16 DEF InviteRole, Begin, Bound, RequestsType
<1>17. ASSUME NEW r \in Req, NEW i \in Invite, InviteInsert(r, i)
      PROVE  FALSE
    BY <1>0, <1>17, GotoSlot, ReturnSlot DEF InviteInsert, Bound, Idle, At, inviteVars
<1>18. ASSUME NEW r \in Req, NEW u \in User, NEW i \in Invite, AcceptRead(r, u, i)
      PROVE  FALSE
    BY <1>0, <1>18 DEF AcceptRead, Begin, Bound, RequestsType
<1>19. ASSUME NEW r \in Req, AcceptRole(r)
      PROVE  FALSE
    BY <1>0, <1>19, GotoSlot, ReturnSlot DEF AcceptRole, Bound, Idle, At, inviteVars
<1>20. ASSUME NEW r \in Req, AcceptRoom(r)
      PROVE  HasCapacity(g) /\ members' = members
    <2>1. HasCapacity(req[r].group) /\ Goto(r, "acc_join")
        BY <1>0, <1>20, ReturnSlot DEF AcceptRoom, Bound, Idle
    <2>2. x = r /\ req'[x].pc = "acc_join" /\ req'[x].group = req[r].group
        BY <1>0, <2>1, GotoSlot
    <2>3. req[r].group = g
        BY <2>2 DEF Bound
    <2> QED BY <1>20, <2>1, <2>3 DEF AcceptRoom, groupVars
<1>21. ASSUME NEW r \in Req, AcceptJoin(r)
      PROVE  FALSE
    BY <1>0, <1>21, GotoSlot, ReturnSlot DEF AcceptJoin, Bound, Idle, At, inviteVars
<1>22. ASSUME NEW r \in Req, AcceptMark(r)
      PROVE  FALSE
    BY <1>0, <1>22, GotoSlot, ReturnSlot DEF AcceptMark, Bound, Idle, At, inviteVars
<1>23. ASSUME NEW i \in Invite, InviteExpires(i)
      PROVE  FALSE
    BY <1>0, <1>23 DEF InviteExpires
<1>24. ASSUME NEW r \in Req, RequestFails(r)
      PROVE  FALSE
    BY <1>0, <1>24, GotoSlot, ReturnSlot DEF RequestFails, Bound, Idle, At, inviteVars
<1>25. CASE UNCHANGED vars
    BY <1>0, <1>25 DEF vars
<1> QED
    BY <1>1, <1>2, <1>3, <1>4, <1>5, <1>6, <1>7, <1>8, <1>9, <1>10, <1>11, <1>12, <1>13, <1>14, <1>15, <1>16, <1>17, <1>18, <1>19, <1>20, <1>21, <1>22, <1>23, <1>24, <1>25
    DEF Next, AuthNext, GroupNext, Register, VerifyEmail,
        CreateGroup, CreateInvite, AcceptInvite

(* A request that inserts a member was on its way in and no longer is.     *)
LEMMA JoinLeavesHeading ==
    ASSUME Consistent, [Next]_vars, NEW r \in Req, RegisterJoin(r) \/ AcceptJoin(r),
           ~UNCHANGED groupVars
    PROVE  /\ LET g == invites[req[r].invite].group
              IN  /\ g \in Group
                  /\ r \in Heading(g)
                  /\ members' = [members EXCEPT ![g] = @ \cup {req[r].user}]
           /\ \A g \in Group : r \notin Heading(g)'
<1>1. /\ req[r].invite # None
      /\ invites[req[r].invite].group \in Group
      /\ AcceptJoin(r) => req[r].group = invites[req[r].invite].group
      /\ RequestsType
    BY JoinFacts, InviteFacts DEF Consistent, TypeOK
<1>2. req'[r].pc \in {"reg_accept", "acc_mark"}
    BY <1>1, GotoSlot DEF RegisterJoin, AcceptJoin
<1>3. \A g : ~Bound(r, g)'
    BY <1>2 DEF Bound
<1> QED BY <1>1, <1>3 DEF RegisterJoin, AcceptJoin, InsertMember, Heading, Bound, At

(* The owner is on nobody's way in when he enters his empty group.         *)
LEMMA OwnerNotHeading ==
    ASSUME Consistent, [Next]_vars, NEW r \in Req, GroupOwnerJoin(r), NEW g \in Group
    PROVE  r \notin Heading(g)'
<1>1. req'[r] = Idle
    BY ReturnSlot DEF GroupOwnerJoin, Consistent, TypeOK
<1> QED BY <1>1 DEF Heading, Bound, Idle

(* Every step keeps the room accounted for: seeing room costs a place in   *)
(* Req, and entering gives the place back.                                 *)
LEMMA RoomStep ==
    ASSUME Consistent, Consistent', RoomAccounted, [Next]_vars
    PROVE  RoomAccounted'
<1> SUFFICES ASSUME NEW g \in Group
             PROVE  Cardinality(members'[g]) + Cardinality(Heading(g)')
                        <= MaxMembers + Cardinality(Req) - 1
    BY DEF RoomAccounted
<1> DEFINE M == Cardinality(members[g])
           H == Cardinality(Heading(g))
           N == Cardinality(Req)
<1>1. M \in Nat /\ H \in Nat /\ N \in Nat /\ MaxMembers \in Nat \ {0}
    BY Finite, TablesAssumption
<1>2. M + H <= MaxMembers + N - 1
    BY DEF RoomAccounted
<1>3. /\ IsFiniteSet(members[g]) /\ IsFiniteSet(Heading(g)) /\ IsFiniteSet(Req)
      /\ Cardinality(members'[g]) \in Nat /\ Cardinality(Heading(g)') \in Nat
      /\ Heading(g)' \subseteq Req
      /\ Cardinality(Heading(g)') <= N
    <2>1. members'[g] \subseteq User /\ Heading(g)' \subseteq Req
        BY DEF Consistent, TypeOK, GroupsType, Heading
    <2> QED BY <2>1, Finite, TablesAssumption, FS_Subset, FS_CardinalityType
<1>4. CASE \E x \in Req : Bound(x, g)' /\ ~Bound(x, g)
    <2>1. M < MaxMembers /\ members'[g] = members[g]
        BY <1>4, HeadingFrame DEF HasCapacity, CountMembers
    <2> QED BY <1>1, <1>3, <2>1
<1>5. CASE Heading(g)' \subseteq Heading(g)
    <2>1. Cardinality(Heading(g)') <= H
        BY <1>3, <1>5, FS_Subset
    <2>2. CASE members'[g] = members[g]
        BY <1>1, <1>2, <1>3, <2>1, <2>2
    <2>3. ASSUME NEW r \in Req, RegisterJoin(r) \/ AcceptJoin(r), members'[g] # members[g]
          PROVE  Cardinality(members'[g]) + Cardinality(Heading(g)')
                    <= MaxMembers + N - 1
        <3>1. /\ members'[g] = members[g] \cup {req[r].user}
              /\ r \in Heading(g) /\ r \notin Heading(g)'
            <4> DEFINE h == invites[req[r].invite].group
            <4>1. ~UNCHANGED groupVars
                BY <2>3 DEF groupVars
            <4>2. /\ h \in Group /\ r \in Heading(h) /\ r \notin Heading(g)'
                  /\ members' = [members EXCEPT ![h] = @ \cup {req[r].user}]
                BY <2>3, <4>1, JoinLeavesHeading
            <4>3. h = g
                BY <2>3, <4>2 DEF Consistent, TypeOK, GroupsType
            <4> QED BY <4>2, <4>3 DEF Consistent, TypeOK, GroupsType
        <3>2. Cardinality(members'[g]) <= M + 1
            <4> DEFINE u == req[r].user
            <4>1. Cardinality(members[g] \cup {u}) = IF u \in members[g] THEN M ELSE M + 1
                <5> HIDE DEF u
                <5> QED BY <1>3, FS_AddElement
            <4> QED BY <1>1, <3>1, <4>1
        <3>3. /\ Heading(g)' \subseteq Heading(g) \ {r}
              /\ IsFiniteSet(Heading(g) \ {r})
              /\ Cardinality(Heading(g) \ {r}) = H - 1
            BY <1>3, <1>5, <3>1, FS_RemoveElement
        <3>4. Cardinality(Heading(g)') <= H - 1
            BY <3>3, FS_Subset
        <3> QED BY <1>1, <1>2, <1>3, <3>2, <3>4
    <2>4. ASSUME NEW r \in Req, GroupOwnerJoin(r), members'[g] # members[g]
          PROVE  Cardinality(members'[g]) + Cardinality(Heading(g)')
                    <= MaxMembers + N - 1
        <3>1. members'[g] = {req[r].user}
            BY <2>4, OwnerFacts
            DEF GroupOwnerJoin, InsertMember, Consistent, TypeOK, GroupsType
        <3>2. Cardinality(members'[g]) = 1
            BY <3>1, FS_Singleton
        <3>3. /\ Heading(g)' \subseteq Req \ {r}
              /\ IsFiniteSet(Req \ {r})
              /\ Cardinality(Req \ {r}) = N - 1
            BY <1>3, <2>4, OwnerNotHeading, FS_RemoveElement
        <3>4. Cardinality(Heading(g)') <= N - 1
            BY <3>3, FS_Subset
        <3> QED BY <1>1, <1>3, <3>2, <3>4
    <2>5. ASSUME NEW r \in Req, NEW u \in User, NEW h \in Group, GroupInsert(r, u, h)
          PROVE  members'[g] = members[g]
        BY <2>5 DEF GroupInsert, InsertGroup
    <2> QED BY <2>2, <2>3, <2>4, <2>5, GroupFrame DEF groupVars
<1>6. Heading(g)' \subseteq Heading(g) \/ \E x \in Req : Bound(x, g)' /\ ~Bound(x, g)
    BY DEF Heading
<1> QED BY <1>4, <1>5, <1>6

(* Whatever runs at the same time, a group never has more members than its *)
(* limit plus all but one of the requests handled at the same time.        *)
THEOREM OvershootIsBounded == Spec => []OvershootBounded
<1>1. Init => RoomAccounted
    <2> SUFFICES ASSUME Init, NEW g \in Group
                 PROVE  Cardinality(members[g]) + Cardinality(Heading(g))
                            <= MaxMembers + Cardinality(Req) - 1
        BY DEF RoomAccounted
    <2>1. members[g] = {} /\ Heading(g) = {}
        BY DEF Init, TablesInit, Heading, Bound, Idle
    <2>2. Cardinality(Req) \in Nat /\ MaxMembers \in Nat \ {0}
        BY TablesAssumption, FS_CardinalityType
    <2> QED BY <2>1, <2>2, FS_EmptySet
<1>2. Consistent /\ Consistent' /\ RoomAccounted /\ [Next]_vars => RoomAccounted'
    BY RoomStep
<1>3. Consistent /\ RoomAccounted => OvershootBounded
    <2> SUFFICES ASSUME Consistent, RoomAccounted, NEW g \in Group
                 PROVE  Cardinality(members[g]) <= MaxMembers + Cardinality(Req) - 1
        BY DEF OvershootBounded
    <2>1. /\ Cardinality(members[g]) \in Nat /\ Cardinality(Heading(g)) \in Nat
          /\ Cardinality(Req) \in Nat /\ MaxMembers \in Nat
        BY Finite, TablesAssumption
    <2> QED BY <2>1 DEF RoomAccounted
<1> QED BY <1>1, <1>2, <1>3, CircleIsConsistent, PTL DEF Spec
=============================================================================
