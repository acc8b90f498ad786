----------------------- MODULE Circle_history_proofs -----------------------
(***************************************************************************)
(* Two properties about what earlier steps of a request have left behind   *)
(* when a later one relies on it: an accepted invitation has let somebody  *)
(* in, and a verification token is not lost.                               *)
(***************************************************************************)
EXTENDS Circle_proofs

(* A request about to do what only the step before it may lead to.         *)
Arrived(x) == req[x].pc \in {"reg_accept", "acc_mark", "reg_answer", "ver_delete"}

(* Whoever entered through an invitation is in its group, and a request    *)
(* about to mark the invitation has entered through it.                    *)
JoinsKept ==
    /\ \A i \in Invite : joinedBy[i] # {} =>
          Issued(i) /\ joinedBy[i] \subseteq members[invites[i].group]
    /\ \A i \in Invite : invites[i].status = "accepted" => joinedBy[i] # {}
    /\ \A r \in Req : req[r].pc \in {"reg_accept", "acc_mark"} =>
          req[r].user \in joinedBy[req[r].invite]

(* The account whose token u was or is about to be handed.                 *)
TokenKept(u) == u \in verified \/ tokenRow[u] # "none"

(* A token that is about to be answered is in the table, and one that is   *)
(* about to be deleted has done its work.                                  *)
TokensKept ==
    /\ \A u \in mailed : TokenKept(u)
    /\ \A r \in Req : At(r, "reg_answer") => TokenKept(req[r].user)
    /\ \A r \in Req : At(r, "ver_delete") => req[r].user \in verified
-----------------------------------------------------------------------------
(* Only four steps make a request one that has Arrived.                    *)
LEMMA ArrivedFrame ==
    ASSUME RequestsType, [Next]_vars, NEW x \in Req, Arrived(x)', req'[x] # req[x]
    PROVE  RegisterJoin(x) \/ AcceptJoin(x) \/ RegisterToken(x) \/ VerifyMark(x)
<1>0. RequestsType /\ req'[x] # req[x]
    OBVIOUS
<1> USE DEF Arrived
<1>1. ASSUME NEW r \in Req, NEW u \in User, RegisterCount(r, u)
      PROVE  ~Arrived(x)'
    BY <1>0, <1>1 DEF RegisterCount, Stored, Begin, RequestsType
<1>2. ASSUME NEW r \in Req, RegisterInvite(r)
      PROVE  ~Arrived(x)'
    BY <1>0, <1>2, GotoSlot, ReturnSlot DEF RegisterInvite, Idle
<1>3. ASSUME NEW r \in Req, RegisterRoom(r)
      PROVE  ~Arrived(x)'
    BY <1>0, <1>3, GotoSlot, ReturnSlot DEF RegisterRoom, Idle
<1>4. ASSUME NEW r \in Req, RegisterEmail(r)
      PROVE  ~Arrived(x)'
    BY <1>0, <1>4, GotoSlot, ReturnSlot DEF RegisterEmail, Idle
<1>5. ASSUME NEW r \in Req, RegisterUser(r)
      PROVE  ~Arrived(x)'
    BY <1>0, <1>5, GotoSlot, ReturnSlot DEF RegisterUser, Idle
<1>6. ASSUME NEW r \in Req, RegisterAccept(r)
      PROVE  ~Arrived(x)'
    BY <1>0, <1>6, GotoSlot, ReturnSlot DEF RegisterAccept, Idle
<1>7. ASSUME NEW r \in Req, RegisterAnswer(r)
      PROVE  ~Arrived(x)'
    BY <1>0, <1>7, GotoSlot, ReturnSlot DEF RegisterAnswer, Idle
<1>8. ASSUME NEW r \in Req, NEW u \in User, VerifyRead(r, u)
      PROVE  ~Arrived(x)'
    BY <1>0, <1>8 DEF VerifyRead, Begin, RequestsType
<1>9. ASSUME NEW r \in Req, VerifyDelete(r)
      PROVE  ~Arrived(x)'
    BY <1>0, <1>9, GotoSlot, ReturnSlot DEF VerifyDelete, Idle
<1>10. ASSUME NEW u \in User, TokenExpires(u)
      PROVE  ~Arrived(x)'
    BY <1>0, <1>10 DEF TokenExpires
<1>11. ASSUME NEW r \in Req, NEW u \in User, NEW g \in Group, GroupInsert(r, u, g)
      PROVE  ~Arrived(x)'
    BY <1>0, <1>11 DEF GroupInsert, Begin, RequestsType
<1>12. ASSUME NEW r \in Req, GroupOwnerJoin(r)
      PROVE  ~Arrived(x)'
    BY <1>0, <1>12, GotoSlot, ReturnSlot DEF GroupOwnerJoin, Idle
<1>13. ASSUME NEW r \in Req, NEW u \in User, NEW g \in Group, NEW e \in Addresses,
             InviteRole(r, u, g, e)
      PROVE  ~Arrived(x)'
    BY <1>0, <1>13 DEF InviteRole, Begin, RequestsType
<1>14. ASSUME NEW r \in Req, NEW i \in Invite, InviteInsert(r, i)
      PROVE  ~Arrived(x)'
    BY <1>0, <1>14, GotoSlot, ReturnSlot DEF InviteInsert, Idle
<1>15. ASSUME NEW r \in Req, NEW u \in User, NEW i \in Invite, AcceptRead(r, u, i)
      PROVE  ~Arrived(x)'
    BY <1>0, <1>15 DEF AcceptRead, Begin, RequestsType
<1>16. ASSUME NEW r \in Req, AcceptRole(r)
      PROVE  ~Arrived(x)'
    BY <1>0, <1>16, GotoSlot, ReturnSlot DEF AcceptRole, Idle
<1>17. ASSUME NEW r \in Req, AcceptRoom(r)
      PROVE  ~Arrived(x)'
    BY <1>0, <1>17, GotoSlot, ReturnSlot DEF AcceptRoom, Idle
<1>18. ASSUME NEW r \in Req, AcceptMark(r)
      PROVE  ~Arrived(x)'
    BY <1>0, <1>18, GotoSlot, ReturnSlot DEF AcceptMark, Idle
<1>19. ASSUME NEW i \in Invite, InviteExpires(i)
      PROVE  ~Arrived(x)'
    BY <1>0, <1>19 DEF InviteExpires
<1>20. ASSUME NEW r \in Req, RequestFails(r)
      PROVE  ~Arrived(x)'
    BY <1>0, <1>20, GotoSlot, ReturnSlot DEF RequestFails, Idle
<1>21. ASSUME NEW r \in Req, RegisterJoin(r)
      PROVE  x = r
    BY <1>0, <1>21, GotoSlot, ReturnSlot DEF RegisterJoin, Idle
<1>22. ASSUME NEW r \in Req, AcceptJoin(r)
      PROVE  x = r
    BY <1>0, <1>22, GotoSlot, ReturnSlot DEF AcceptJoin, Idle
<1>23. ASSUME NEW r \in Req, RegisterToken(r)
      PROVE  x = r
    BY <1>0, <1>23, GotoSlot, ReturnSlot DEF RegisterToken, Idle
<1>24. ASSUME NEW r \in Req, VerifyMark(r)
      PROVE  x = r
    BY <1>0, <1>24, GotoSlot, ReturnSlot DEF VerifyMark, Idle
<1>25. CASE UNCHANGED vars
    BY <1>0, <1>25 DEF vars
<1> QED BY <1>0, <1>1, <1>2, <1>3, <1>4, <1>5, <1>6, <1>7, <1>8, <1>9, <1>10, <1>11, <1>12, <1>13, <1>14, <1>15, <1>16, <1>17, <1>18, <1>19, <1>20, <1>21, <1>22, <1>23, <1>24, <1>25 DEF Next, AuthNext, GroupNext, Register, VerifyEmail,
        CreateGroup, CreateInvite, AcceptInvite

(* A member row inserted on an invitation is noted, and nothing else       *)
(* touches the history of joins.                                           *)
LEMMA JoinedFrame ==
    ASSUME Consistent, [Next]_vars
    PROVE  \/ UNCHANGED joinedBy
           \/ \E r \in Req :
                LET i == req[r].invite
                IN  /\ RegisterJoin(r) \/ AcceptJoin(r)
                    /\ i \in Invite /\ Issued(i)
                    /\ invites' = invites
                    /\ joinedBy' = [joinedBy EXCEPT ![i] = @ \cup {req[r].user}]
                    /\ req[r].user \in members'[invites[i].group]
<1>1. ASSUME NEW r \in Req, RegisterJoin(r) \/ AcceptJoin(r)
      PROVE  \/ UNCHANGED joinedBy
             \/ LET i == req[r].invite
                IN  /\ i \in Invite /\ Issued(i)
                    /\ invites' = invites
                    /\ joinedBy' = [joinedBy EXCEPT ![i] = @ \cup {req[r].user}]
                    /\ req[r].user \in members'[invites[i].group]
    <2> DEFINE i == req[r].invite
    <2>1. i \in Invite /\ Issued(i) /\ invites[i].group \in Group
        BY <1>1, JoinFacts, InviteFacts
    <2>2. AcceptJoin(r) => req[r].group = invites[i].group
        BY <1>1, JoinFacts
    <2>3. ASSUME NEW g \in Group, NEW u, NEW by, InsertMember(g, u, by)
          PROVE  u \in members'[g]
        BY <2>3 DEF InsertMember, Consistent, TypeOK, GroupsType
    <2>4. CASE RegisterJoin(r)
        BY <2>1, <2>3, <2>4 DEF RegisterJoin, NoteJoin, inviteVars
    <2>5. CASE AcceptJoin(r)
        BY <2>1, <2>2, <2>3, <2>5 DEF AcceptJoin, NoteJoin, inviteVars
    <2> QED BY <1>1, <2>4, <2>5
<1> QED BY <1>1, InviteFrame
    DEF inviteVars, RegisterAccept, AcceptMark, AcceptInvitation, InviteInsert,
        InsertInvite, InviteExpires

(* The history of joins stays what JoinsKept says in every step.           *)
LEMMA JoinsStep ==
    ASSUME Consistent, JoinsKept, [Next]_vars
    PROVE  JoinsKept'
<1>0. /\ RequestsType
      /\ joinedBy \in [Invite -> SUBSET User]
      /\ invites \in [Invite -> InviteRow]
    BY DEF Consistent, TypeOK, InvitesType
<1>1. \A i \in Invite : joinedBy[i] \subseteq joinedBy'[i]
    BY <1>0, JoinedFrame
<1>2. ASSUME NEW i \in Invite, NEW u \in joinedBy'[i]
      PROVE  Issued(i)' /\ u \in members'[invites'[i].group]
    <2>1. Issued(i) /\ u \in members'[invites[i].group]
        <3>1. CASE u \in joinedBy[i]
            <4>1. /\ Issued(i) /\ u \in members[invites[i].group]
                  /\ invites[i].group \in Group
                BY <3>1 DEF JoinsKept, Consistent, TablesConsistent
            <4> QED BY <4>1, GroupsGrow
        <3>2. CASE u \notin joinedBy[i]
            BY <1>0, <1>2, <3>2, JoinedFrame
        <3> QED BY <3>1, <3>2
    <2> QED BY <2>1, InvitesGrow
<1>3. ASSUME NEW i \in Invite, invites'[i].status = "accepted"
      PROVE  joinedBy'[i] # {}
    <2>1. CASE invites[i].status = "accepted"
        BY <1>1, <2>1 DEF JoinsKept
    <2>2. ASSUME NEW r \in Req, RegisterAccept(r) \/ AcceptMark(r), i # req[r].invite
          PROVE  invites'[i] = invites[i]
        BY <1>0, <2>2 DEF RegisterAccept, AcceptMark, AcceptInvitation
    <2>3. ASSUME NEW r \in Req, RegisterAccept(r) \/ AcceptMark(r), i = req[r].invite
          PROVE  joinedBy[i] # {}
        BY <2>3 DEF RegisterAccept, AcceptMark, At, JoinsKept
    <2>4. ASSUME NEW r \in Req, NEW j \in Invite, InviteInsert(r, j)
          PROVE  invites'[i].status # "accepted" \/ invites'[i] = invites[i]
        BY <1>0, <2>4 DEF InviteInsert, InsertInvite
    <2>5. ASSUME NEW j \in Invite, InviteExpires(j)
          PROVE  invites'[i].status = invites[i].status
        BY <1>0, <2>5 DEF InviteExpires, InviteRow
    <2>6. ASSUME NEW r \in Req, RegisterJoin(r) \/ AcceptJoin(r)
          PROVE  invites' = invites
        BY <2>6 DEF RegisterJoin, AcceptJoin, NoteJoin, inviteVars
    <2> QED BY <1>1, <1>3, <2>1, <2>2, <2>3, <2>4, <2>5, <2>6, InviteFrame DEF inviteVars
<1>4. ASSUME NEW r \in Req, req'[r].pc \in {"reg_accept", "acc_mark"}
      PROVE  req'[r].user \in joinedBy'[req'[r].invite]
    <2>1. CASE req'[r] = req[r]
        <3>1. req[r].invite \in Invite
            BY <1>4, <2>1, InviteFacts DEF Consistent, HandlersConsistent,
               HandlerConsistent, NeedsInvite, AcceptPC
        <3> QED BY <1>1, <1>4, <2>1, <3>1 DEF JoinsKept
    <2>2. CASE req'[r] # req[r]
        <3>1. RegisterJoin(r) \/ AcceptJoin(r)
            BY <1>0, <1>4, <2>2, ArrivedFrame, GotoSlot
            DEF Arrived, RegisterToken, VerifyMark
        <3>2. /\ req'[r].user = req[r].user /\ req'[r].invite = req[r].invite
              /\ req[r].invite \in Invite
              /\ joinedBy' = [joinedBy EXCEPT ![req[r].invite] = @ \cup {req[r].user}]
            <4>1. /\ NoteJoin(req[r].invite, req[r].user)
                  /\ Goto(r, "reg_accept") \/ Goto(r, "acc_mark")
                <5>1. ~Return(r)
                    BY <1>0, <1>4, ReturnSlot DEF Idle
                <5>2. CASE RegisterJoin(r)
                    BY <5>1, <5>2 DEF RegisterJoin
                <5>3. CASE AcceptJoin(r)
                    BY <5>1, <5>3 DEF AcceptJoin
                <5> QED BY <3>1, <5>2, <5>3
            <4>2. req'[r].user = req[r].user /\ req'[r].invite = req[r].invite
                BY <1>0, <4>1, GotoSlot
            <4>3. req[r].invite \in Invite
                BY <3>1, JoinFacts, InviteFacts
            <4> QED BY <4>1, <4>2, <4>3 DEF NoteJoin
        <3> QED BY <1>0, <3>2
    <2> QED BY <2>1, <2>2
<1> QED BY <1>2, <1>3, <1>4, <1>0 DEF JoinsKept

(* Tokens stay what TokensKept says in every step.                         *)
LEMMA TokensStep ==
    ASSUME Consistent, TokensKept, [Next]_vars
    PROVE  TokensKept'
<1>0. RequestsType /\ AccountsType
    BY DEF Consistent, TypeOK
<1>1. ASSUME NEW u \in User, TokenKept(u)
      PROVE  TokenKept(u)'
    <2> USE DEF TokenKept
    <2>1. CASE UNCHANGED accountVars
        BY <1>1, <2>1 DEF accountVars
    <2>2. ASSUME NEW r \in Req, RegisterUser(r) PROVE TokenKept(u)'
        BY <1>1, <2>2 DEF RegisterUser, InsertUser, accountVars
    <2>3. ASSUME NEW r \in Req, RegisterToken(r) PROVE TokenKept(u)'
        BY <1>0, <1>1, <2>3 DEF RegisterToken, CreateEmailVerification, AccountsType
    <2>4. ASSUME NEW r \in Req, RegisterAnswer(r) PROVE TokenKept(u)'
        BY <1>1, <2>4 DEF RegisterAnswer
    <2>5. ASSUME NEW r \in Req, VerifyMark(r) PROVE TokenKept(u)'
        BY <1>1, <2>5 DEF VerifyMark, MarkEmailVerified
    <2>6. ASSUME NEW r \in Req, VerifyDelete(r) PROVE TokenKept(u)'
        BY <1>0, <1>1, <2>6
        DEF VerifyDelete, DeleteEmailVerification, AccountsType, TokensKept
    <2>7. ASSUME NEW v \in User, TokenExpires(v) PROVE TokenKept(u)'
        BY <1>0, <1>1, <2>7 DEF TokenExpires, AccountsType
    <2> QED BY <2>1, <2>2, <2>3, <2>4, <2>5, <2>6, <2>7, AccountFrame
<1>2. verified \subseteq verified'
    BY AccountFrame DEF accountVars, RegisterUser, InsertUser, RegisterToken,
       CreateEmailVerification, RegisterAnswer, VerifyMark, MarkEmailVerified,
       VerifyDelete, DeleteEmailVerification, TokenExpires
<1>3. ASSUME NEW u \in mailed' PROVE TokenKept(u)'
    <2>1. \/ u \in mailed
          \/ \E r \in Req : At(r, "reg_answer") /\ u = req[r].user
        BY <1>3, AccountFrame DEF accountVars, RegisterUser, InsertUser, RegisterToken,
           CreateEmailVerification, RegisterAnswer, VerifyMark, MarkEmailVerified,
           VerifyDelete, DeleteEmailVerification, TokenExpires
    <2>2. u \in User /\ TokenKept(u)
        BY <1>0, <2>1 DEF AccountsType, TokensKept, At, Consistent, HandlersConsistent,
           HandlerConsistent
    <2> QED BY <1>1, <2>2
<1>4. ASSUME NEW r \in Req, At(r, "reg_answer")' PROVE TokenKept(req[r].user)'
    <2>1. CASE req'[r] = req[r]
        <3>1. req[r].user \in User /\ TokenKept(req[r].user)
            BY <1>4, <2>1 DEF TokensKept, At, Consistent, HandlersConsistent, HandlerConsistent
        <3> QED BY <1>1, <2>1, <3>1 DEF TokenKept
    <2>2. CASE req'[r] # req[r]
        <3>1. RegisterToken(r)
            BY <1>0, <1>4, <2>2, ArrivedFrame, GotoSlot, ReturnSlot
            DEF Arrived, At, RegisterJoin, AcceptJoin, VerifyMark, Idle
        <3>2. req'[r].user = req[r].user /\ req[r].user \in User
            BY <1>0, <3>1, GotoSlot
            DEF RegisterToken, At, Consistent, HandlersConsistent, HandlerConsistent
        <3> QED BY <1>0, <3>1, <3>2
            DEF RegisterToken, CreateEmailVerification, TokenKept, AccountsType
    <2> QED BY <2>1, <2>2
<1>5. ASSUME NEW r \in Req, At(r, "ver_delete")' PROVE req'[r].user \in verified'
    <2>1. CASE req'[r] = req[r]
        BY <1>2, <1>5, <2>1 DEF TokensKept, At
    <2>2. CASE req'[r] # req[r]
        <3>1. VerifyMark(r)
            BY <1>0, <1>5, <2>2, ArrivedFrame, GotoSlot, ReturnSlot
            DEF Arrived, At, RegisterJoin, AcceptJoin, RegisterToken, Idle
        <3> QED BY <1>0, <3>1, GotoSlot DEF VerifyMark, MarkEmailVerified
    <2> QED BY <2>1, <2>2
<1> QED BY <1>3, <1>4, <1>5 DEF TokensKept, TokenKept
-----------------------------------------------------------------------------
(* An invitation that is marked accepted has let somebody in who is in the *)
(* group: wherever Register and AcceptInvite are cut off, they leave no    *)
(* used-up link behind that nobody profited from.                          *)
THEOREM AcceptedHasJoined == Spec => []AcceptedMeansJoined
<1>1. Init => JoinsKept
    BY DEF Init, TablesInit, JoinsKept, NoRow, Idle
<1>2. Consistent /\ JoinsKept /\ [Next]_vars => JoinsKept'
    BY JoinsStep
<1>3. JoinsKept => AcceptedMeansJoined
    BY DEF JoinsKept, AcceptedMeansJoined
<1> QED BY <1>1, <1>2, <1>3, CircleIsConsistent, PTL DEF Spec

(* Whoever was handed a token is verified or can still use it, or its row  *)
(* has expired: VerifyEmail never takes it away before marking the account.*)
THEOREM TokenIsKept == Spec => []TokenNotLost
<1>1. Init => TokensKept
    BY DEF Init, TablesInit, TokensKept, At, Idle
<1>2. Consistent /\ TokensKept /\ [Next]_vars => TokensKept'
    BY TokensStep
<1>3. TokensKept => TokenNotLost
    BY DEF TokensKept, TokenKept, TokenNotLost
<1> QED BY <1>1, <1>2, <1>3, CircleIsConsistent, PTL DEF Spec
=============================================================================
