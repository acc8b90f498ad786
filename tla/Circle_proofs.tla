--------------------------- MODULE Circle_proofs ---------------------------
(***************************************************************************)
(* Proofs about Circle.  The inductive invariant is Consistent: the types, *)
(* the locals of every handler agreeing with the tables, and the tables    *)
(* agreeing with each other.  Each of its parts needs the others, so one   *)
(* step lemma per part assumes all of them.  From it every step of Circle  *)
(* is a step of Trust, and what is proved of Trust carries over.           *)
(***************************************************************************)
EXTENDS Circle, TLAPS

(* What the three moves of a handler do to the type of its slot.           *)
LEMMA BeginType ==
    ASSUME RequestsType, NEW r \in Req, NEW pc \in PC, NEW u \in User,
           NEW i \in Invite \cup {None}, NEW g \in Group \cup {None},
           NEW e \in User \cup {None}, Begin(r, pc, u, i, g, e)
    PROVE  RequestsType'
BY DEF RequestsType, Request, Begin

(* Moving to the next statement keeps the slots typed.                     *)
LEMMA GotoType ==
    ASSUME RequestsType, NEW r \in Req, NEW pc \in PC, Goto(r, pc)
    PROVE  RequestsType'
BY DEF RequestsType, Request, Goto

(* So does answering the request.                                          *)
LEMMA ReturnType ==
    ASSUME RequestsType, NEW r \in Req, Return(r)
    PROVE  RequestsType'
BY DEF RequestsType, Request, Return, Idle, PC

(* The columns of a slot and of an invitation, one by one.                 *)
LEMMA RequestTypes ==
    ASSUME RequestsType, NEW r \in Req
    PROVE  /\ req[r].pc \in PC
           /\ req[r].user \in User \cup {None}
           /\ req[r].invite \in Invite \cup {None}
           /\ req[r].group \in Group \cup {None}
           /\ req[r].email \in User \cup {None}
BY DEF RequestsType, Request

(* The columns of an invitation that the handlers read.                    *)
LEMMA RowTypes ==
    ASSUME InvitesType, NEW i \in Invite
    PROVE  /\ invites[i].status \in {"none", "pending", "accepted"}
           /\ invites[i].group \in Group \cup {None}
           /\ invites[i].inviter \in User \cup {None}
BY DEF InvitesType, InviteRow

(* The inserts and the update keep the types of their tables.              *)
LEMMA InsertMemberType ==
    ASSUME GroupsType, NEW g \in Group, NEW u \in User, NEW by \in User \cup {None},
           InsertMember(g, u, by)
    PROVE  GroupsType'
BY DEF GroupsType, InsertMember

(* A new invitation is a well-typed row.                                   *)
LEMMA InsertInviteType ==
    ASSUME InvitesType, NEW i \in Invite, NEW g \in Group, NEW u \in User,
           NEW e \in User \cup {None}, InsertInvite(i, g, u, e)
    PROVE  InvitesType'
BY DEF InvitesType, InviteRow, InsertInvite

(* An accepted invitation is a well-typed row.                             *)
LEMMA AcceptInvitationType ==
    ASSUME InvitesType, NEW i \in Invite, AcceptInvitation(i)
    PROVE  InvitesType'
BY DEF InvitesType, InviteRow, AcceptInvitation
-----------------------------------------------------------------------------
(* Which actions write which tables: users and email_verifications.        *)
LEMMA AccountFrame ==
    ASSUME [Next]_vars
    PROVE  \/ UNCHANGED accountVars
           \/ \E r \in Req : \/ RegisterUser(r) \/ RegisterToken(r) \/ RegisterAnswer(r)
                             \/ VerifyMark(r) \/ VerifyDelete(r)
           \/ \E u \in User : TokenExpires(u)
BY DEF Next, AuthNext, GroupNext, Register, VerifyEmail,
       CreateGroup, CreateInvite, AcceptInvite, vars, RegisterCount, RegisterInvite, RegisterRoom,
       RegisterEmail, RegisterJoin, RegisterAccept, VerifyRead, GroupInsert,
       GroupOwnerJoin, InviteRole, InviteInsert, AcceptRead, AcceptRole, AcceptRoom,
       AcceptJoin, AcceptMark, InviteExpires, RequestFails

(* Which actions write groups and group_members.                           *)
LEMMA GroupFrame ==
    ASSUME [Next]_vars
    PROVE  \/ UNCHANGED groupVars
           \/ \E r \in Req : RegisterJoin(r) \/ AcceptJoin(r) \/ GroupOwnerJoin(r)
           \/ \E r \in Req, u \in User, g \in Group : GroupInsert(r, u, g)
BY DEF Next, AuthNext, GroupNext, Register, VerifyEmail,
       CreateGroup, CreateInvite, AcceptInvite, vars, RegisterCount, RegisterInvite, RegisterRoom,
       RegisterEmail, RegisterUser, RegisterAccept, RegisterToken, RegisterAnswer,
       VerifyRead, VerifyMark, VerifyDelete, TokenExpires, InviteRole, InviteInsert,
       AcceptRead, AcceptRole, AcceptRoom, AcceptMark, InviteExpires, RequestFails

(* Which actions write invitations and the history of joins.               *)
LEMMA InviteFrame ==
    ASSUME [Next]_vars
    PROVE  \/ UNCHANGED inviteVars
           \/ \E r \in Req : \/ RegisterJoin(r) \/ AcceptJoin(r)
                             \/ RegisterAccept(r) \/ AcceptMark(r)
                             \/ \E i \in Invite : InviteInsert(r, i)
           \/ \E i \in Invite : InviteExpires(i)
BY DEF Next, AuthNext, GroupNext, Register, VerifyEmail,
       CreateGroup, CreateInvite, AcceptInvite, vars, RegisterCount, RegisterInvite, RegisterRoom,
       RegisterEmail, RegisterUser, RegisterToken, RegisterAnswer, VerifyRead,
       VerifyMark, VerifyDelete, TokenExpires, GroupInsert, GroupOwnerJoin, InviteRole,
       AcceptRead, AcceptRole, AcceptRoom, RequestFails
-----------------------------------------------------------------------------
(* Every step stores values of the columns' types: users and tokens.       *)
LEMMA AccountsTypeStep ==
    ASSUME TypeOK, HandlersConsistent, TablesConsistent, [Next]_vars
    PROVE  AccountsType'
<1> USE DEF TypeOK, AccountsType
<1>1. CASE UNCHANGED accountVars
    BY <1>1 DEF accountVars
<1>2. ASSUME NEW r \in Req, RegisterUser(r) PROVE AccountsType'
    <2>1. req[r].user \in User /\ Inviter(req[r].invite) \in User \cup {None}
        BY <1>2, RequestTypes, RowTypes
        DEF RegisterUser, At, HandlersConsistent, HandlerConsistent, Issued, Inviter
    <2> QED BY <1>2, <2>1 DEF RegisterUser, InsertUser, accountVars
<1>3. ASSUME NEW r \in Req, RegisterToken(r) PROVE AccountsType'
    BY <1>3 DEF RegisterToken, CreateEmailVerification, HandlersConsistent, HandlerConsistent, At
<1>4. ASSUME NEW r \in Req, RegisterAnswer(r) PROVE AccountsType'
    BY <1>4 DEF RegisterAnswer, HandlersConsistent, HandlerConsistent, At
<1>5. ASSUME NEW r \in Req, VerifyMark(r) PROVE AccountsType'
    BY <1>5 DEF VerifyMark, MarkEmailVerified, HandlersConsistent, HandlerConsistent, At
<1>6. ASSUME NEW r \in Req, VerifyDelete(r) PROVE AccountsType'
    BY <1>6 DEF VerifyDelete, DeleteEmailVerification, HandlersConsistent, HandlerConsistent, At
<1>7. ASSUME NEW u \in User, TokenExpires(u) PROVE AccountsType'
    BY <1>7 DEF TokenExpires
<1> QED BY <1>1, <1>2, <1>3, <1>4, <1>5, <1>6, <1>7, AccountFrame

(* The same for groups and group_members.                                  *)
LEMMA GroupsTypeStep ==
    ASSUME TypeOK, HandlersConsistent, TablesConsistent, [Next]_vars
    PROVE  GroupsType'
<1> USE DEF TypeOK, GroupsType
<1>1. CASE UNCHANGED groupVars
    BY <1>1 DEF groupVars
<1>2. ASSUME NEW r \in Req, RegisterJoin(r) PROVE GroupsType'
    <2>1. /\ req[r].user \in User
          /\ invites[req[r].invite].group \in Group
          /\ invites[req[r].invite].inviter \in User \cup {None}
        BY <1>2, RequestTypes, RowTypes
        DEF RegisterJoin, At, HandlersConsistent, HandlerConsistent, TablesConsistent, Issued, NeedsInvite
    <2> QED BY <1>2, <2>1, InsertMemberType DEF RegisterJoin, groupVars
<1>3. ASSUME NEW r \in Req, AcceptJoin(r) PROVE GroupsType'
    <2>1. /\ req[r].user \in User
          /\ req[r].group \in Group
          /\ invites[req[r].invite].inviter \in User \cup {None}
        BY <1>3, RequestTypes, RowTypes
        DEF AcceptJoin, At, HandlersConsistent, HandlerConsistent, TablesConsistent, Issued, NeedsInvite,
            AcceptPC
    <2> QED BY <1>3, <2>1, InsertMemberType DEF AcceptJoin, groupVars
<1>4. ASSUME NEW r \in Req, GroupOwnerJoin(r) PROVE GroupsType'
    <2>1. req[r].user \in User /\ req[r].group \in Group
        BY <1>4 DEF GroupOwnerJoin, At, HandlersConsistent, HandlerConsistent
    <2> QED BY <1>4, <2>1, InsertMemberType DEF GroupOwnerJoin
<1>5. ASSUME NEW r \in Req, NEW u \in User, NEW g \in Group, GroupInsert(r, u, g)
      PROVE  GroupsType'
    BY <1>5 DEF GroupInsert, InsertGroup
<1> QED BY <1>1, <1>2, <1>3, <1>4, <1>5, GroupFrame

(* The same for invitations.                                               *)
LEMMA InvitesTypeStep ==
    ASSUME TypeOK, HandlersConsistent, TablesConsistent, [Next]_vars
    PROVE  InvitesType'
<1> USE DEF TypeOK
<1>1. CASE UNCHANGED inviteVars
    BY <1>1 DEF inviteVars, InvitesType
<1>2. ASSUME NEW r \in Req, RegisterJoin(r) \/ AcceptJoin(r) PROVE InvitesType'
    <2>1. req[r].user \in User
        BY <1>2 DEF RegisterJoin, AcceptJoin, At, HandlersConsistent, HandlerConsistent
    <2> QED BY <1>2, <2>1 DEF RegisterJoin, AcceptJoin, NoteJoin, inviteVars, InvitesType
<1>3. ASSUME NEW r \in Req, RegisterAccept(r) \/ AcceptMark(r) PROVE InvitesType'
    <2>1. req[r].invite \in Invite
        BY <1>3, RequestTypes
        DEF RegisterAccept, AcceptMark, At, HandlersConsistent, HandlerConsistent, NeedsInvite, AcceptPC
    <2> QED BY <1>3, <2>1, AcceptInvitationType DEF RegisterAccept, AcceptMark
<1>4. ASSUME NEW r \in Req, NEW i \in Invite, InviteInsert(r, i) PROVE InvitesType'
    <2>1. /\ req[r].group \in Group
          /\ req[r].user \in User
          /\ req[r].email \in User \cup {None}
        BY <1>4, RequestTypes DEF InviteInsert, At, HandlersConsistent, HandlerConsistent
    <2> QED BY <1>4, <2>1, InsertInviteType DEF InviteInsert
<1>5. ASSUME NEW i \in Invite, InviteExpires(i) PROVE InvitesType'
    BY <1>5 DEF InviteExpires, InvitesType, InviteRow
<1> QED BY <1>1, <1>2, <1>3, <1>4, <1>5, InviteFrame

(* The same for the locals of the handlers.                                *)
LEMMA RequestsTypeStep ==
    ASSUME TypeOK, HandlersConsistent, TablesConsistent, [Next]_vars
    PROVE  RequestsType'
<1> USE TablesAssumption, GroupAssumption, BeginType, GotoType, ReturnType
    DEF TypeOK, PC, RegisterPC, VerifyPC, GroupPC, AcceptPC
<1>1. ASSUME NEW r \in Req, NEW u \in User, RegisterCount(r, u)
      PROVE  RequestsType'
    BY <1>1 DEF RegisterCount, Stored
<1>2. ASSUME NEW r \in Req, RegisterInvite(r)
      PROVE  RequestsType'
    BY <1>2 DEF RegisterInvite
<1>3. ASSUME NEW r \in Req, RegisterRoom(r)
      PROVE  RequestsType'
    BY <1>3 DEF RegisterRoom
<1>4. ASSUME NEW r \in Req, RegisterEmail(r)
      PROVE  RequestsType'
    BY <1>4 DEF RegisterEmail
<1>5. ASSUME NEW r \in Req, RegisterUser(r)
      PROVE  RequestsType'
    BY <1>5 DEF RegisterUser
<1>6. ASSUME NEW r \in Req, RegisterJoin(r)
      PROVE  RequestsType'
    BY <1>6 DEF RegisterJoin
<1>7. ASSUME NEW r \in Req, RegisterAccept(r)
      PROVE  RequestsType'
    BY <1>7 DEF RegisterAccept
<1>8. ASSUME NEW r \in Req, RegisterToken(r)
      PROVE  RequestsType'
    BY <1>8 DEF RegisterToken
<1>9. ASSUME NEW r \in Req, RegisterAnswer(r)
      PROVE  RequestsType'
    BY <1>9 DEF RegisterAnswer
<1>10. ASSUME NEW r \in Req, NEW u \in User, VerifyRead(r, u)
      PROVE  RequestsType'
    BY <1>10 DEF VerifyRead
<1>11. ASSUME NEW r \in Req, VerifyMark(r)
      PROVE  RequestsType'
    BY <1>11 DEF VerifyMark
<1>12. ASSUME NEW r \in Req, VerifyDelete(r)
      PROVE  RequestsType'
    BY <1>12 DEF VerifyDelete
<1>13. ASSUME NEW u \in User, TokenExpires(u)
      PROVE  RequestsType'
    BY <1>13 DEF TokenExpires, RequestsType
<1>14. ASSUME NEW r \in Req, NEW u \in User, NEW g \in Group, GroupInsert(r, u, g)
      PROVE  RequestsType'
    BY <1>14 DEF GroupInsert
<1>15. ASSUME NEW r \in Req, GroupOwnerJoin(r)
      PROVE  RequestsType'
    BY <1>15 DEF GroupOwnerJoin
<1>16. ASSUME NEW r \in Req, NEW u \in User, NEW g \in Group, NEW e \in Addresses, InviteRole(r, u, g, e)
      PROVE  RequestsType'
    BY <1>16 DEF InviteRole
<1>17. ASSUME NEW r \in Req, NEW i \in Invite, InviteInsert(r, i)
      PROVE  RequestsType'
    BY <1>17 DEF InviteInsert
<1>18. ASSUME NEW r \in Req, NEW u \in User, NEW i \in Invite, AcceptRead(r, u, i)
      PROVE  RequestsType'
    BY <1>18, RowTypes DEF AcceptRead
<1>19. ASSUME NEW r \in Req, AcceptRole(r)
      PROVE  RequestsType'
    BY <1>19 DEF AcceptRole
<1>20. ASSUME NEW r \in Req, AcceptRoom(r)
      PROVE  RequestsType'
    BY <1>20 DEF AcceptRoom
<1>21. ASSUME NEW r \in Req, AcceptJoin(r)
      PROVE  RequestsType'
    BY <1>21 DEF AcceptJoin
<1>22. ASSUME NEW r \in Req, AcceptMark(r)
      PROVE  RequestsType'
    BY <1>22 DEF AcceptMark
<1>23. ASSUME NEW i \in Invite, InviteExpires(i)
      PROVE  RequestsType'
    BY <1>23 DEF InviteExpires, RequestsType
<1>24. ASSUME NEW r \in Req, RequestFails(r)
      PROVE  RequestsType'
    BY <1>24 DEF RequestFails
<1>25. CASE UNCHANGED vars
    BY <1>25 DEF vars, RequestsType
<1> QED
    BY <1>1, <1>2, <1>3, <1>4, <1>5, <1>6, <1>7, <1>8, <1>9, <1>10, <1>11, <1>12, <1>13, <1>14, <1>15, <1>16, <1>17, <1>18, <1>19, <1>20, <1>21, <1>22, <1>23, <1>24, <1>25
    DEF Next, AuthNext, GroupNext, Register, VerifyEmail,
        CreateGroup, CreateInvite, AcceptInvite
-----------------------------------------------------------------------------
(* What the invariant says of an invitation a handler holds.               *)
LEMMA InviteFacts ==
    ASSUME Consistent, NEW r \in Req, req[r].invite # None
    PROVE  LET i == req[r].invite
               g == invites[i].group
           IN  /\ i \in Invite /\ Issued(i)
               /\ g \in Group
               /\ invites[i].inviter \in members[g]
               /\ invites[i].inviter \in accounts \cap User
               /\ owner[g] \in members[g]
BY DEF Consistent, TypeOK, AccountsType, GroupsType, HandlersConsistent,
       HandlerConsistent, TablesConsistent, Issued

(* What it says of a request about to insert its member row.               *)
LEMMA JoinFacts ==
    ASSUME Consistent, NEW r \in Req, RegisterJoin(r) \/ AcceptJoin(r)
    PROVE  /\ req[r].invite # None
           /\ req[r].user \in accounts \cap User
           /\ AcceptJoin(r) => req[r].group = invites[req[r].invite].group
BY DEF Consistent, TypeOK, AccountsType, HandlersConsistent, HandlerConsistent,
       RegisterJoin, AcceptJoin, At, NeedsInvite, NeedsAccount, AcceptPC

(* What it says of a request about to insert the owner's row.              *)
LEMMA OwnerFacts ==
    ASSUME Consistent, NEW r \in Req, At(r, "own_join")
    PROVE  /\ req[r].group \in Group
           /\ req[r].user \in accounts \cap User
           /\ owner[req[r].group] = req[r].user
           /\ members[req[r].group] = {}
BY DEF Consistent, TypeOK, AccountsType, HandlersConsistent, HandlerConsistent,
       At, NeedsAccount, GroupPC

(* Rows are added and completed, never taken away.                         *)
LEMMA AccountsGrow ==
    ASSUME Consistent, [Next]_vars
    PROVE  accounts \subseteq accounts'
BY AccountFrame DEF accountVars, RegisterUser, InsertUser, RegisterToken,
       CreateEmailVerification, RegisterAnswer, VerifyMark, MarkEmailVerified,
       VerifyDelete, DeleteEmailVerification, TokenExpires

(* Groups keep their owner once they have one, and their members.          *)
LEMMA GroupsGrow ==
    ASSUME Consistent, [Next]_vars, NEW g \in Group
    PROVE  /\ members[g] \subseteq members'[g]
           /\ owner[g] # None => owner'[g] = owner[g]
<1> USE DEF Consistent, TypeOK, GroupsType
<1>1. CASE UNCHANGED groupVars
    BY <1>1 DEF groupVars
<1>2. ASSUME NEW r \in Req, RegisterJoin(r) \/ AcceptJoin(r) \/ GroupOwnerJoin(r)
      PROVE  /\ members[g] \subseteq members'[g]
             /\ owner' = owner
    <2>1. CASE UNCHANGED groupVars
        BY <2>1 DEF groupVars
    <2>2. ASSUME NEW h, NEW u, NEW by, InsertMember(h, u, by)
          PROVE  members[g] \subseteq members'[g] /\ owner' = owner
        BY <2>2 DEF InsertMember
    <2>3. CASE RegisterJoin(r)
        BY <2>1, <2>2, <2>3 DEF RegisterJoin
    <2>4. CASE AcceptJoin(r)
        BY <2>1, <2>2, <2>4 DEF AcceptJoin
    <2>5. CASE GroupOwnerJoin(r)
        BY <2>2, <2>5 DEF GroupOwnerJoin
    <2> QED BY <1>2, <2>3, <2>4, <2>5
<1>3. ASSUME NEW r \in Req, NEW u \in User, NEW h \in Group, GroupInsert(r, u, h)
      PROVE  /\ members' = members
             /\ owner[g] # None => owner'[g] = owner[g]
    BY <1>3 DEF GroupInsert, InsertGroup
<1> QED BY <1>1, <1>2, <1>3, GroupFrame

(* Invitations are issued once and keep group, inviter and address.        *)
LEMMA InvitesGrow ==
    ASSUME Consistent, [Next]_vars, NEW i \in Invite, Issued(i)
    PROVE  /\ Issued(i)'
           /\ invites'[i].group = invites[i].group
           /\ invites'[i].inviter = invites[i].inviter
<1> USE DEF Consistent, TypeOK, InvitesType, InviteRow, Issued
<1>1. CASE UNCHANGED inviteVars
    BY <1>1 DEF inviteVars
<1>2. ASSUME NEW r \in Req, RegisterJoin(r) \/ AcceptJoin(r) PROVE invites' = invites
    BY <1>2 DEF RegisterJoin, AcceptJoin, NoteJoin, inviteVars
<1>3. ASSUME NEW r \in Req, RegisterAccept(r) \/ AcceptMark(r)
      PROVE  /\ Issued(i)'
             /\ invites'[i].group = invites[i].group
             /\ invites'[i].inviter = invites[i].inviter
    BY <1>3 DEF RegisterAccept, AcceptMark, AcceptInvitation
<1>4. ASSUME NEW r \in Req, NEW j \in Invite, InviteInsert(r, j)
      PROVE  invites'[i] = invites[i]
    BY <1>4 DEF InviteInsert, InsertInvite
<1>5. ASSUME NEW j \in Invite, InviteExpires(j)
      PROVE  /\ Issued(i)'
             /\ invites'[i].group = invites[i].group
             /\ invites'[i].inviter = invites[i].inviter
    BY <1>5 DEF InviteExpires
<1> QED BY <1>1, <1>2, <1>3, <1>4, <1>5, InviteFrame

(* A group whose owner has not entered yet stays empty until he does: an   *)
(* invitation into it would have been written by a member.                 *)
LEMMA EmptyStays ==
    ASSUME Consistent, [Next]_vars, NEW s \in Req, At(s, "own_join"), req'[s] = req[s]
    PROVE  members'[req[s].group] = {}
<1> DEFINE h == req[s].group
<1>0. h \in Group /\ members[h] = {}
    BY OwnerFacts
<1>1. CASE UNCHANGED groupVars
    BY <1>0, <1>1 DEF groupVars
<1>2. ASSUME NEW r \in Req, RegisterJoin(r) \/ AcceptJoin(r) PROVE members'[h] = {}
    <2>1. invites[req[r].invite].group # h
        BY <1>0, <1>2, InviteFacts, JoinFacts
    <2> QED BY <1>0, <1>2, <2>1, JoinFacts
        DEF RegisterJoin, AcceptJoin, InsertMember, groupVars, Consistent, TypeOK, GroupsType
<1>3. ASSUME NEW r \in Req, GroupOwnerJoin(r) PROVE members'[h] = {}
    <2>1. r # s
        BY <1>3 DEF GroupOwnerJoin, Return, Idle, At, Consistent, TypeOK, RequestsType
    <2>2. req[r].group # h
        BY <1>3, <2>1 DEF GroupOwnerJoin, Consistent, HandlersConsistent, OneFounder
    <2> QED BY <1>0, <1>3, <2>2
        DEF GroupOwnerJoin, InsertMember, Consistent, TypeOK, GroupsType
<1>4. ASSUME NEW r \in Req, NEW u \in User, NEW g \in Group, GroupInsert(r, u, g)
      PROVE  members'[h] = {}
    BY <1>0, <1>4 DEF GroupInsert, InsertGroup
<1> QED BY <1>1, <1>2, <1>3, <1>4, GroupFrame

(* A handler that does not move stays consistent.                          *)
LEMMA OthersConsistent ==
    ASSUME Consistent, [Next]_vars, NEW s \in Req, req'[s] = req[s]
    PROVE  HandlerConsistent(s)'
<1>1. HandlerConsistent(s) /\ req[s].invite \in Invite \cup {None}
    BY RequestTypes DEF Consistent, TypeOK, HandlersConsistent
<1>2. req[s].invite # None =>
        /\ Issued(req[s].invite)'
        /\ invites'[req[s].invite].group = invites[req[s].invite].group
    BY <1>1, InvitesGrow DEF HandlerConsistent
<1>3. req[s].user \in accounts => req[s].user \in accounts'
    BY AccountsGrow
<1>4. req[s].pc = "inv_insert" => req[s].user \in members'[req[s].group]
    BY <1>1, GroupsGrow DEF HandlerConsistent
<1>5. req[s].pc = "own_join" => /\ owner'[req[s].group] = req[s].user
                               /\ members'[req[s].group] = {}
    BY <1>1, EmptyStays, OwnerFacts, GroupsGrow, TablesAssumption DEF At
<1>6. req[s].pc \in AcceptPC => req[s].invite # None
    BY <1>1 DEF HandlerConsistent, NeedsInvite
<1> QED BY <1>1, <1>2, <1>3, <1>4, <1>5, <1>6 DEF HandlerConsistent
-----------------------------------------------------------------------------
(* How a request's slot changes.                                           *)
LEMMA BeginSlot ==
    ASSUME RequestsType, NEW r \in Req, NEW pc, NEW u, NEW i, NEW g, NEW e,
           Begin(r, pc, u, i, g, e)
    PROVE  /\ req'[r] = [pc |-> pc, user |-> u, invite |-> i, group |-> g, email |-> e]
           /\ \A s \in Req \ {r} : req'[s] = req[s]
BY DEF RequestsType, Begin

(* Goto changes the program counter of one slot.                           *)
LEMMA GotoSlot ==
    ASSUME RequestsType, NEW r \in Req, NEW pc, Goto(r, pc)
    PROVE  /\ req'[r].pc = pc
           /\ req'[r].user = req[r].user
           /\ req'[r].invite = req[r].invite
           /\ req'[r].group = req[r].group
           /\ \A s \in Req \ {r} : req'[s] = req[s]
BY DEF RequestsType, Request, Goto

(* Return empties one slot.                                                *)
LEMMA ReturnSlot ==
    ASSUME RequestsType, NEW r \in Req, Return(r)
    PROVE  /\ req'[r] = Idle
           /\ \A s \in Req \ {r} : req'[s] = req[s]
BY DEF RequestsType, Return

(* An answered request holds nothing that could be stale.                  *)
LEMMA ReturnConsistent ==
    ASSUME RequestsType, NEW r \in Req, Return(r)
    PROVE  HandlerConsistent(r)'
BY ReturnSlot DEF HandlerConsistent, Idle, NeedsInvite, NeedsAccount, GroupPC, AcceptPC

(* If one request moves and stays consistent, all are consistent.          *)
LEMMA OneMoves ==
    ASSUME Consistent, [Next]_vars, NEW r \in Req, HandlerConsistent(r)',
           \A s \in Req \ {r} : req'[s] = req[s]
    PROVE  \A s \in Req : HandlerConsistent(s)'
BY OthersConsistent

(* Answering a request keeps every handler consistent.                     *)
LEMMA ReturnKeeps ==
    ASSUME Consistent, [Next]_vars, NEW r \in Req, Return(r)
    PROVE  \A s \in Req : HandlerConsistent(s)'
BY ReturnConsistent, ReturnSlot, OneMoves DEF Consistent, TypeOK

(* A handler that moves on keeps the locals the next statement needs; only *)
(* the steps that create an account or start to own a group change what is *)
(* asked of them.                                                          *)
LEMMA GotoKeeps ==
    ASSUME Consistent, [Next]_vars, NEW r \in Req, NEW pc, Goto(r, pc), req[r].pc # "idle",
           pc \notin GroupPC,
           pc \in NeedsInvite => req[r].invite # None,
           pc \in NeedsAccount => req[r].user \in accounts',
           pc \in AcceptPC => req[r].pc \in AcceptPC
    PROVE  \A s \in Req : HandlerConsistent(s)'
<1>1. HandlerConsistent(r) /\ req[r].invite \in Invite \cup {None} /\ RequestsType
    BY RequestTypes DEF Consistent, TypeOK, HandlersConsistent
<1>2. req[r].invite # None =>
        /\ Issued(req[r].invite)'
        /\ invites'[req[r].invite].group = invites[req[r].invite].group
    <2> SUFFICES ASSUME req[r].invite # None
                 PROVE  /\ Issued(req[r].invite)'
                        /\ invites'[req[r].invite].group = invites[req[r].invite].group
        OBVIOUS
    <2> DEFINE i == req[r].invite
    <2>1. i \in Invite /\ Issued(i)
        BY InviteFacts
    <2> QED BY <1>1, <2>1, InvitesGrow, GotoSlot DEF Issued
<1>3. pc \in AcceptPC => req[r].invite # None
    BY DEF NeedsInvite
<1>4. HandlerConsistent(r)'
    BY <1>1, <1>2, <1>3, GotoSlot DEF HandlerConsistent, GroupPC
<1> QED BY <1>1, <1>4, GotoSlot, OneMoves

(* A call begins with locals that were just read from the tables.          *)
LEMMA BeginKeeps ==
    ASSUME Consistent, [Next]_vars, NEW r \in Req, NEW pc, NEW u \in User,
           NEW i \in Invite \cup {None}, NEW g, NEW e, Begin(r, pc, u, i, g, e),
           i # None => Issued(i),
           pc \in NeedsInvite => i # None,
           pc \in NeedsAccount => u \in accounts',
           pc \in AcceptPC => i # None /\ g = invites[i].group,
           pc = "inv_insert" => g \in Group /\ u \in members'[g],
           pc = "own_join" => g \in Group /\ owner'[g] = u /\ members'[g] = {}
    PROVE  \A s \in Req : HandlerConsistent(s)'
<1>1. RequestsType
    BY DEF Consistent, TypeOK
<1>2. i # None => Issued(i)' /\ invites'[i].group = invites[i].group
    <2> SUFFICES ASSUME i # None
                 PROVE  Issued(i)' /\ invites'[i].group = invites[i].group
        OBVIOUS
    <2>1. i \in Invite /\ Issued(i)
        OBVIOUS
    <2> QED BY <2>1, InvitesGrow
<1>3. /\ req'[r].pc = pc /\ req'[r].user = u /\ req'[r].invite = i /\ req'[r].group = g
    BY <1>1 DEF Begin, RequestsType
<1>4. pc \in AcceptPC => i # None
    BY DEF NeedsInvite
<1>5. HandlerConsistent(r)'
    BY <1>2, <1>3, <1>4 DEF HandlerConsistent, Issued
<1> QED BY <1>1, <1>5, BeginSlot, OneMoves

(* Every step leaves every handler consistent with the tables.             *)
LEMMA HandlersStep ==
    ASSUME Consistent, [Next]_vars
    PROVE  \A s \in Req : HandlerConsistent(s)'
<1> USE DEF At, NeedsInvite, NeedsAccount, PC, RegisterPC, VerifyPC, GroupPC, AcceptPC
<1>0. /\ RequestsType
      /\ \A s \in Req : HandlerConsistent(s)
      /\ accounts \subseteq accounts'
    BY AccountsGrow DEF Consistent, TypeOK, HandlersConsistent
<1>1. ASSUME NEW r \in Req, NEW u \in User, RegisterCount(r, u)
      PROVE  \A s \in Req : HandlerConsistent(s)'
    BY <1>0, <1>1, BeginKeeps, TablesAssumption
    DEF RegisterCount, Stored, Issued
<1>2. ASSUME NEW r \in Req, RegisterInvite(r)
      PROVE  \A s \in Req : HandlerConsistent(s)'
    BY <1>0, <1>2, GotoKeeps, ReturnKeeps DEF RegisterInvite, HandlerConsistent
<1>3. ASSUME NEW r \in Req, RegisterRoom(r)
      PROVE  \A s \in Req : HandlerConsistent(s)'
    BY <1>0, <1>3, GotoKeeps, ReturnKeeps DEF RegisterRoom, HandlerConsistent
<1>4. ASSUME NEW r \in Req, RegisterEmail(r)
      PROVE  \A s \in Req : HandlerConsistent(s)'
    BY <1>0, <1>4, GotoKeeps, ReturnKeeps DEF RegisterEmail, HandlerConsistent
<1>5. ASSUME NEW r \in Req, RegisterUser(r)
      PROVE  \A s \in Req : HandlerConsistent(s)'
    BY <1>0, <1>5, GotoKeeps, ReturnKeeps DEF RegisterUser, HandlerConsistent, InsertUser
<1>6. ASSUME NEW r \in Req, RegisterJoin(r)
      PROVE  \A s \in Req : HandlerConsistent(s)'
    BY <1>0, <1>6, GotoKeeps, ReturnKeeps DEF RegisterJoin, HandlerConsistent
<1>7. ASSUME NEW r \in Req, RegisterAccept(r)
      PROVE  \A s \in Req : HandlerConsistent(s)'
    BY <1>0, <1>7, GotoKeeps, ReturnKeeps DEF RegisterAccept, HandlerConsistent
<1>8. ASSUME NEW r \in Req, RegisterToken(r)
      PROVE  \A s \in Req : HandlerConsistent(s)'
    BY <1>0, <1>8, GotoKeeps, ReturnKeeps DEF RegisterToken, HandlerConsistent
<1>9. ASSUME NEW r \in Req, RegisterAnswer(r)
      PROVE  \A s \in Req : HandlerConsistent(s)'
    BY <1>0, <1>9, GotoKeeps, ReturnKeeps DEF RegisterAnswer, HandlerConsistent
<1>10. ASSUME NEW r \in Req, NEW u \in User, VerifyRead(r, u)
      PROVE  \A s \in Req : HandlerConsistent(s)'
    BY <1>0, <1>10, BeginKeeps, TablesAssumption
    DEF VerifyRead
<1>11. ASSUME NEW r \in Req, VerifyMark(r)
      PROVE  \A s \in Req : HandlerConsistent(s)'
    BY <1>0, <1>11, GotoKeeps, ReturnKeeps DEF VerifyMark, HandlerConsistent
<1>12. ASSUME NEW r \in Req, VerifyDelete(r)
      PROVE  \A s \in Req : HandlerConsistent(s)'
    BY <1>0, <1>12, GotoKeeps, ReturnKeeps DEF VerifyDelete, HandlerConsistent
<1>13. ASSUME NEW u \in User, TokenExpires(u)
      PROVE  \A s \in Req : HandlerConsistent(s)'
    BY <1>0, <1>13, OthersConsistent DEF TokenExpires
<1>14. ASSUME NEW r \in Req, NEW u \in User, NEW g \in Group, GroupInsert(r, u, g)
      PROVE  \A s \in Req : HandlerConsistent(s)'
    <2>1. owner'[g] = u /\ members'[g] = {}
        BY <1>14, TablesAssumption
        DEF GroupInsert, InsertGroup, Consistent, TypeOK, GroupsType, TablesConsistent
    <2> QED BY <1>0, <1>14, <2>1, BeginKeeps DEF GroupInsert, LoggedIn
<1>15. ASSUME NEW r \in Req, GroupOwnerJoin(r)
      PROVE  \A s \in Req : HandlerConsistent(s)'
    BY <1>0, <1>15, GotoKeeps, ReturnKeeps DEF GroupOwnerJoin, HandlerConsistent
<1>16. ASSUME NEW r \in Req, NEW u \in User, NEW g \in Group, NEW e \in Addresses, InviteRole(r, u, g, e)
      PROVE  \A s \in Req : HandlerConsistent(s)'
    BY <1>0, <1>16, BeginKeeps, TablesAssumption
    DEF InviteRole, HasRole, LoggedIn, groupVars
<1>17. ASSUME NEW r \in Req, NEW i \in Invite, InviteInsert(r, i)
      PROVE  \A s \in Req : HandlerConsistent(s)'
    BY <1>0, <1>17, GotoKeeps, ReturnKeeps DEF InviteInsert, HandlerConsistent
<1>18. ASSUME NEW r \in Req, NEW u \in User, NEW i \in Invite, AcceptRead(r, u, i)
      PROVE  \A s \in Req : HandlerConsistent(s)'
    BY <1>0, <1>18, BeginKeeps, TablesAssumption
    DEF AcceptRead, LoggedIn
<1>19. ASSUME NEW r \in Req, AcceptRole(r)
      PROVE  \A s \in Req : HandlerConsistent(s)'
    BY <1>0, <1>19, GotoKeeps, ReturnKeeps DEF AcceptRole, HandlerConsistent
<1>20. ASSUME NEW r \in Req, AcceptRoom(r)
      PROVE  \A s \in Req : HandlerConsistent(s)'
    BY <1>0, <1>20, GotoKeeps, ReturnKeeps DEF AcceptRoom, HandlerConsistent
<1>21. ASSUME NEW r \in Req, AcceptJoin(r)
      PROVE  \A s \in Req : HandlerConsistent(s)'
    BY <1>0, <1>21, GotoKeeps, ReturnKeeps DEF AcceptJoin, HandlerConsistent
<1>22. ASSUME NEW r \in Req, AcceptMark(r)
      PROVE  \A s \in Req : HandlerConsistent(s)'
    BY <1>0, <1>22, GotoKeeps, ReturnKeeps DEF AcceptMark, HandlerConsistent
<1>23. ASSUME NEW i \in Invite, InviteExpires(i)
      PROVE  \A s \in Req : HandlerConsistent(s)'
    BY <1>0, <1>23, OthersConsistent DEF InviteExpires
<1>24. ASSUME NEW r \in Req, RequestFails(r)
      PROVE  \A s \in Req : HandlerConsistent(s)'
    BY <1>0, <1>24, GotoKeeps, ReturnKeeps DEF RequestFails, HandlerConsistent
<1>25. CASE UNCHANGED vars
    BY <1>0, <1>25, OthersConsistent DEF vars
<1> QED
    BY <1>1, <1>2, <1>3, <1>4, <1>5, <1>6, <1>7, <1>8, <1>9, <1>10, <1>11, <1>12, <1>13, <1>14, <1>15, <1>16, <1>17, <1>18, <1>19, <1>20, <1>21, <1>22, <1>23, <1>24, <1>25
    DEF Next, AuthNext, GroupNext, Register, VerifyEmail,
        CreateGroup, CreateInvite, AcceptInvite

(* Only CreateGroup makes a handler one that is about to enter as owner.   *)
LEMMA FounderFrame ==
    ASSUME RequestsType, [Next]_vars, NEW x \in Req, At(x, "own_join")'
    PROVE  \/ req'[x] = req[x]
           \/ \E u \in User, g \in Group : GroupInsert(x, u, g)
<1> USE DEF At, Idle
<1>1. ASSUME NEW r \in Req, NEW u \in User, RegisterCount(r, u)
      PROVE  req'[x] = req[x]
    BY <1>1 DEF RegisterCount, Stored, Begin, RequestsType
<1>2. ASSUME NEW r \in Req, RegisterInvite(r)
      PROVE  req'[x] = req[x]
    BY <1>2, GotoSlot, ReturnSlot DEF RegisterInvite
<1>3. ASSUME NEW r \in Req, RegisterRoom(r)
      PROVE  req'[x] = req[x]
    BY <1>3, GotoSlot, ReturnSlot DEF RegisterRoom
<1>4. ASSUME NEW r \in Req, RegisterEmail(r)
      PROVE  req'[x] = req[x]
    BY <1>4, GotoSlot, ReturnSlot DEF RegisterEmail
<1>5. ASSUME NEW r \in Req, RegisterUser(r)
      PROVE  req'[x] = req[x]
    BY <1>5, GotoSlot, ReturnSlot DEF RegisterUser
<1>6. ASSUME NEW r \in Req, RegisterJoin(r)
      PROVE  req'[x] = req[x]
    BY <1>6, GotoSlot, ReturnSlot DEF RegisterJoin
<1>7. ASSUME NEW r \in Req, RegisterAccept(r)
      PROVE  req'[x] = req[x]
    BY <1>7, GotoSlot, ReturnSlot DEF RegisterAccept
<1>8. ASSUME NEW r \in Req, RegisterToken(r)
      PROVE  req'[x] = req[x]
    BY <1>8, GotoSlot, ReturnSlot DEF RegisterToken
<1>9. ASSUME NEW r \in Req, RegisterAnswer(r)
      PROVE  req'[x] = req[x]
    BY <1>9, GotoSlot, ReturnSlot DEF RegisterAnswer
<1>10. ASSUME NEW r \in Req, NEW u \in User, VerifyRead(r, u)
      PROVE  req'[x] = req[x]
    BY <1>10 DEF VerifyRead, Begin, RequestsType
<1>11. ASSUME NEW r \in Req, VerifyMark(r)
      PROVE  req'[x] = req[x]
    BY <1>11, GotoSlot, ReturnSlot DEF VerifyMark
<1>12. ASSUME NEW r \in Req, VerifyDelete(r)
      PROVE  req'[x] = req[x]
    BY <1>12, GotoSlot, ReturnSlot DEF VerifyDelete
<1>13. ASSUME NEW u \in User, TokenExpires(u)
      PROVE  req'[x] = req[x]
    BY <1>13 DEF TokenExpires
<1>14. ASSUME NEW r \in Req, NEW u \in User, NEW g \in Group, GroupInsert(r, u, g)
      PROVE  req'[x] = req[x] \/ x = r
    BY <1>14 DEF GroupInsert, Begin, RequestsType
<1>15. ASSUME NEW r \in Req, GroupOwnerJoin(r)
      PROVE  req'[x] = req[x]
    BY <1>15, GotoSlot, ReturnSlot DEF GroupOwnerJoin
<1>16. ASSUME NEW r \in Req, NEW u \in User, NEW g \in Group, NEW e \in Addresses, InviteRole(r, u, g, e)
      PROVE  req'[x] = req[x]
    BY <1>16 DEF InviteRole, Begin, RequestsType
<1>17. ASSUME NEW r \in Req, NEW i \in Invite, InviteInsert(r, i)
      PROVE  req'[x] = req[x]
    BY <1>17, GotoSlot, ReturnSlot DEF InviteInsert
<1>18. ASSUME NEW r \in Req, NEW u \in User, NEW i \in Invite, AcceptRead(r, u, i)
      PROVE  req'[x] = req[x]
    BY <1>18 DEF AcceptRead, Begin, RequestsType
<1>19. ASSUME NEW r \in Req, AcceptRole(r)
      PROVE  req'[x] = req[x]
    BY <1>19, GotoSlot, ReturnSlot DEF AcceptRole
<1>20. ASSUME NEW r \in Req, AcceptRoom(r)
      PROVE  req'[x] = req[x]
    BY <1>20, GotoSlot, ReturnSlot DEF AcceptRoom
<1>21. ASSUME NEW r \in Req, AcceptJoin(r)
      PROVE  req'[x] = req[x]
    BY <1>21, GotoSlot, ReturnSlot DEF AcceptJoin
<1>22. ASSUME NEW r \in Req, AcceptMark(r)
      PROVE  req'[x] = req[x]
    BY <1>22, GotoSlot, ReturnSlot DEF AcceptMark
<1>23. ASSUME NEW i \in Invite, InviteExpires(i)
      PROVE  req'[x] = req[x]
    BY <1>23 DEF InviteExpires
<1>24. ASSUME NEW r \in Req, RequestFails(r)
      PROVE  req'[x] = req[x]
    BY <1>24, GotoSlot, ReturnSlot DEF RequestFails
<1>25. CASE UNCHANGED vars
    BY <1>25 DEF vars
<1> QED
    BY <1>1, <1>2, <1>3, <1>4, <1>5, <1>6, <1>7, <1>8, <1>9, <1>10, <1>11, <1>12, <1>13, <1>14, <1>15, <1>16, <1>17, <1>18, <1>19, <1>20, <1>21, <1>22, <1>23, <1>24, <1>25
    DEF Next, AuthNext, GroupNext, Register, VerifyEmail,
        CreateGroup, CreateInvite, AcceptInvite

(* Founding a group takes an id no row has: no two founders meet.          *)
LEMMA OneFounderStep ==
    ASSUME Consistent, [Next]_vars
    PROVE  OneFounder'
<1>0. RequestsType
    BY DEF Consistent, TypeOK
<1>1. ASSUME NEW x \in Req, NEW y \in Req, x # y, At(x, "own_join")', At(y, "own_join")',
             req'[x].group = req'[y].group,
             NEW u \in User, NEW g \in Group, GroupInsert(x, u, g)
      PROVE  FALSE
    <2>1. req'[x].group = g /\ req'[y] = req[y]
        BY <1>0, <1>1 DEF GroupInsert, Begin, RequestsType
    <2>2. req[y].pc = "own_join" /\ req[y].group = g
        BY <1>1, <2>1 DEF At
    <2>3. owner[g] = req[y].user /\ req[y].user \in User
        BY <2>2, OwnerFacts DEF At
    <2> QED BY <1>1, <2>3, TablesAssumption DEF GroupInsert
<1>2. ASSUME NEW x \in Req, NEW y \in Req, At(x, "own_join")', At(y, "own_join")',
             req'[x].group = req'[y].group, req'[x] = req[x], req'[y] = req[y]
      PROVE  x = y
    BY <1>2 DEF At, Consistent, HandlersConsistent, OneFounder
<1> QED BY <1>0, <1>1, <1>2, FounderFrame DEF OneFounder

(* The rows keep agreeing with each other.                                 *)
LEMMA TablesStep ==
    ASSUME Consistent, [Next]_vars
    PROVE  TablesConsistent'
<1>1. ASSUME NEW i \in Invite, Issued(i)'
      PROVE  /\ invites'[i].group \in Group
             /\ invites'[i].inviter \in members'[invites'[i].group]
    <2>1. CASE Issued(i)
        BY <2>1, InvitesGrow, GroupsGrow DEF Consistent, TablesConsistent
    <2>2. ASSUME ~Issued(i), NEW r \in Req, NEW j \in Invite, InviteInsert(r, j)
          PROVE  /\ invites'[i].group \in Group
                 /\ invites'[i].inviter \in members'[invites'[i].group]
        BY <1>1, <2>2 DEF InviteInsert, InsertInvite, Issued, groupVars, At, Consistent,
                          TypeOK, InvitesType, HandlersConsistent, HandlerConsistent
    <2>3. ASSUME ~Issued(i), NEW r \in Req, RegisterAccept(r) \/ AcceptMark(r)
          PROVE  FALSE
        <3>1. Issued(req[r].invite)
            BY <2>3, InviteFacts DEF RegisterAccept, AcceptMark, At, Consistent,
               HandlersConsistent, HandlerConsistent, NeedsInvite, AcceptPC
        <3> QED BY <1>1, <2>3, <3>1 DEF RegisterAccept, AcceptMark, AcceptInvitation,
                Issued, Consistent, TypeOK, InvitesType
    <2>4. ASSUME ~Issued(i),
                 \/ UNCHANGED invites
                 \/ \E j \in Invite : InviteExpires(j)
          PROVE  FALSE
        BY <1>1, <2>4 DEF Issued, InviteExpires, Usable, Consistent, TypeOK, InvitesType
    <2> QED BY <2>1, <2>2, <2>3, <2>4, InviteFrame
        DEF inviteVars, RegisterJoin, AcceptJoin, NoteJoin
<1>2. ASSUME NEW g \in Group
      PROVE  /\ members'[g] \subseteq accounts'
             /\ owner'[g] # None => owner'[g] \in accounts'
             /\ members'[g] # {} => owner'[g] \in members'[g]
    <2>0. /\ accounts \subseteq accounts'
          /\ members[g] \subseteq accounts
          /\ owner[g] # None => owner[g] \in accounts
          /\ members[g] # {} => owner[g] \in members[g]
          /\ None \notin accounts
          /\ GroupsType
        BY AccountsGrow, TablesAssumption
        DEF Consistent, TablesConsistent, TypeOK, AccountsType
    <2>1. CASE UNCHANGED groupVars
        BY <2>0, <2>1 DEF groupVars
    <2>2. ASSUME NEW r \in Req, RegisterJoin(r) \/ AcceptJoin(r)
          PROVE  /\ members'[g] \subseteq members[g] \cup {req[r].user}
                 /\ members'[g] # {} => members[g] # {}
                 /\ members[g] \subseteq members'[g]
                 /\ owner' = owner
                 /\ req[r].user \in accounts
        <3> DEFINE h == invites[req[r].invite].group
        <3>1. /\ h \in Group /\ members[h] # {}
              /\ req[r].user \in accounts
            BY <2>2, JoinFacts, InviteFacts
        <3>2. CASE UNCHANGED groupVars
            BY <2>0, <3>1, <3>2 DEF groupVars
        <3>3. CASE InsertMember(h, req[r].user, invites[req[r].invite].inviter)
            BY <2>0, <3>1, <3>3 DEF InsertMember, GroupsType
        <3> QED BY <2>2, <3>2, <3>3, JoinFacts DEF RegisterJoin, AcceptJoin
    <2>3. ASSUME NEW r \in Req, GroupOwnerJoin(r)
          PROVE  /\ members'[g] = members[g] \/ (members'[g] = {owner[g]} /\ owner[g] \in accounts)
                 /\ owner' = owner
        BY <2>0, <2>3, OwnerFacts DEF GroupOwnerJoin, InsertMember, GroupsType
    <2>4. ASSUME NEW r \in Req, NEW u \in User, NEW h \in Group, GroupInsert(r, u, h)
          PROVE  /\ members' = members
                 /\ owner'[g] = owner[g] \/ (owner[g] = None /\ owner'[g] \in accounts)
        BY <2>0, <2>4 DEF GroupInsert, InsertGroup, LoggedIn, GroupsType
    <2> QED BY <2>0, <2>1, <2>2, <2>3, <2>4, GroupFrame
<1> QED BY <1>1, <1>2 DEF TablesConsistent
-----------------------------------------------------------------------------
(* Every reachable state is well typed, every request holds locals that    *)
(* agree with the tables, and the rows agree with each other, for any      *)
(* number of users, groups, invitations and concurrent requests, and       *)
(* wherever requests fail.                                                 *)
THEOREM CircleIsConsistent == Spec => []Consistent
<1>1. Init => Consistent
    BY TablesAssumption
    DEF Init, TablesInit, Consistent, TypeOK, AccountsType, GroupsType, InvitesType,
        RequestsType, Request, PC, InviteRow, NoRow, Idle, HandlersConsistent,
        HandlerConsistent, OneFounder, TablesConsistent, Issued, At, NeedsInvite,
        NeedsAccount, GroupPC, AcceptPC
<1>2. Consistent /\ [Next]_vars => Consistent'
    <2> SUFFICES ASSUME Consistent, [Next]_vars PROVE Consistent'
        OBVIOUS
    <2>1. TypeOK'
        BY AccountsTypeStep, GroupsTypeStep, InvitesTypeStep, RequestsTypeStep
        DEF Consistent, TypeOK
    <2>2. HandlersConsistent'
        BY HandlersStep, OneFounderStep DEF HandlersConsistent
    <2> QED BY <2>1, <2>2, TablesStep DEF Consistent
<1> QED BY <1>1, <1>2, PTL DEF Spec

(* Every reachable state is well typed.                                    *)
COROLLARY TypeCorrect == Spec => []TypeOK
<1>1. Consistent => TypeOK
    BY DEF Consistent
<1> QED BY <1>1, CircleIsConsistent, PTL

(* What a handler keeps in its locals agrees with the tables when it is    *)
(* used, for any number of requests.                                       *)
COROLLARY LocalsAgree == Spec => []HandlersConsistent
<1>1. Consistent => HandlersConsistent
    BY DEF Consistent
<1> QED BY <1>1, CircleIsConsistent, PTL

(* The rows agree with each other beyond what foreign keys say.            *)
COROLLARY RowsAgree == Spec => []TablesConsistent
<1>1. Consistent => TablesConsistent
    BY DEF Consistent
<1> QED BY <1>1, CircleIsConsistent, PTL
-----------------------------------------------------------------------------
(* A member row is inserted by the rules of Trust: the owner's into the    *)
(* empty group, anyone else's on the word of a member.                     *)
LEMMA JoinIsTrusted ==
    ASSUME Consistent, NEW r \in Req, RegisterJoin(r) \/ AcceptJoin(r)
    PROVE  Contract!Next \/ UNCHANGED Contract!trustVars
<1> DEFINE i == req[r].invite
           g == invites[i].group
           u == req[r].user
<1>1. /\ g \in Group /\ owner[g] \in members[g]
      /\ invites[i].inviter \in members[g] /\ invites[i].inviter \in User
      /\ u \in accounts /\ u \in User
      /\ UNCHANGED accountVars
    BY JoinFacts, InviteFacts DEF RegisterJoin, AcceptJoin
<1>2. CASE UNCHANGED groupVars
    BY <1>1, <1>2 DEF groupVars, accountVars, Contract!trustVars
<1>3. CASE u \notin members[g] /\ InsertMember(g, u, invites[i].inviter)
    <2>1. Contract!Join(g, u, invites[i].inviter)
        BY <1>1, <1>3 DEF Contract!Join, Contract!Enter, InsertMember, accountVars
    <2> QED BY <1>1, <2>1 DEF Contract!Next
<1> QED BY <1>2, <1>3, JoinFacts DEF RegisterJoin, AcceptJoin

(* The owner enters an empty group of his own.                             *)
LEMMA OwnerJoinIsTrusted ==
    ASSUME Consistent, NEW r \in Req, GroupOwnerJoin(r)
    PROVE  Contract!Next
<1> DEFINE g == req[r].group
<1>1. /\ g \in Group /\ members[g] = {}
      /\ owner[g] = req[r].user /\ owner[g] \in accounts /\ owner[g] \in User
    BY OwnerFacts DEF GroupOwnerJoin
<1>2. Contract!OwnerEnters(g)
    BY <1>1, TablesAssumption
    DEF GroupOwnerJoin, InsertMember, accountVars, Contract!OwnerEnters, Contract!Enter
<1> QED BY <1>1, <1>2 DEF Contract!Next

(* An account is opened without a voucher or on the word of a member.      *)
LEMMA RegisterIsTrusted ==
    ASSUME Consistent, NEW r \in Req, RegisterUser(r)
    PROVE  Contract!Next \/ UNCHANGED Contract!trustVars
<1> DEFINE i == req[r].invite
           u == req[r].user
<1>1. u \in User /\ UNCHANGED groupVars
    BY DEF RegisterUser, At, Consistent, HandlersConsistent, HandlerConsistent
<1>2. CASE UNCHANGED accountVars
    BY <1>1, <1>2 DEF groupVars, accountVars, Contract!trustVars
<1>3. CASE u \notin accounts /\ InsertUser(u, Inviter(i)) /\ i = None
    <2>1. Contract!Bootstrap(u)
        BY <1>1, <1>3 DEF Contract!Bootstrap, Contract!Enrol, InsertUser, groupVars, Inviter
    <2> QED BY <1>1, <2>1 DEF Contract!Next
<1>4. CASE u \notin accounts /\ InsertUser(u, Inviter(i)) /\ i # None
    <2>1. /\ invites[i].group \in Group
          /\ invites[i].inviter \in members[invites[i].group]
          /\ invites[i].inviter \in accounts \cap User
        BY <1>4, InviteFacts
    <2>2. Contract!Register(u, invites[i].inviter)
        BY <1>1, <1>4, <2>1
        DEF Contract!Register, Contract!Enrol, InsertUser, groupVars, Inviter
    <2> QED BY <1>1, <2>1, <2>2 DEF Contract!Next
<1> QED BY <1>2, <1>3, <1>4 DEF RegisterUser

(* Every step of the handlers is a step of Trust or a stutter of it.       *)
LEMMA TrustStep ==
    ASSUME Consistent, [Next]_vars
    PROVE  [Contract!Next]_(Contract!trustVars)
<1>1. CASE UNCHANGED accountVars /\ UNCHANGED groupVars
    BY <1>1 DEF accountVars, groupVars, Contract!trustVars
<1>2. ASSUME NEW r \in Req, RegisterJoin(r) \/ AcceptJoin(r)
      PROVE  [Contract!Next]_(Contract!trustVars)
    BY <1>2, JoinIsTrusted
<1>3. ASSUME NEW r \in Req, GroupOwnerJoin(r)
      PROVE  [Contract!Next]_(Contract!trustVars)
    BY <1>3, OwnerJoinIsTrusted
<1>4. ASSUME NEW r \in Req, RegisterUser(r)
      PROVE  [Contract!Next]_(Contract!trustVars)
    BY <1>4, RegisterIsTrusted
<1>5. ASSUME NEW r \in Req, NEW u \in User, NEW g \in Group, GroupInsert(r, u, g)
      PROVE  [Contract!Next]_(Contract!trustVars)
    <2>1. Contract!Found(u, g)
        BY <1>5 DEF GroupInsert, LoggedIn, InsertGroup, accountVars, Contract!Found
    <2> QED BY <2>1 DEF Contract!Next
<1>6. CASE UNCHANGED <<accounts, invitedBy>> /\ UNCHANGED groupVars
    BY <1>6 DEF groupVars, Contract!trustVars
<1>7. ASSUME \/ \E r \in Req : \/ RegisterToken(r) \/ RegisterAnswer(r)
                              \/ VerifyMark(r) \/ VerifyDelete(r)
             \/ \E u \in User : TokenExpires(u)
      PROVE  UNCHANGED <<accounts, invitedBy>> /\ UNCHANGED groupVars
    BY <1>7 DEF RegisterToken, CreateEmailVerification, RegisterAnswer, VerifyMark,
        MarkEmailVerified, VerifyDelete, DeleteEmailVerification, TokenExpires, groupVars
<1> QED BY <1>1, <1>2, <1>3, <1>4, <1>5, <1>6, <1>7, AccountFrame, GroupFrame

(* The handlers, interleaved at every repository call and cut off anywhere,*)
(* implement Trust: somebody inside vouches for whoever comes in.          *)
THEOREM CircleImplementsTrust == Spec => KeepsTrust
<1>1. Init => Contract!Init
    BY DEF Init, TablesInit, Contract!Init
<1>2. Consistent /\ [Next]_vars => [Contract!Next]_(Contract!trustVars)
    BY TrustStep
<1> QED BY <1>1, <1>2, CircleIsConsistent, PTL DEF Spec, KeepsTrust, Contract!Spec

Proved == INSTANCE Trust_proofs

(* Trust as Circle instantiates it is Trust as its theorems speak of it.   *)
LEMMA SameTrust == KeepsTrust => Proved!Spec
<1>1. Contract!Init => Proved!Init
    BY DEF Contract!Init, Proved!Init
<1>2. [Contract!Next]_(Contract!trustVars) => [Proved!Next]_(Proved!trustVars)
    BY DEF Contract!Next, Contract!Bootstrap, Contract!Register, Contract!Enrol,
           Contract!Found, Contract!Join, Contract!OwnerEnters, Contract!Enter,
           Contract!trustVars,
           Proved!Next, Proved!Bootstrap, Proved!Register, Proved!Enrol,
           Proved!Found, Proved!Join, Proved!OwnerEnters, Proved!Enter, Proved!trustVars
<1> QED BY <1>1, <1>2, PTL DEF KeepsTrust, Contract!Spec, Proved!Spec

(* users.invited_by leads every account back to one that needed no         *)
(* invitation, whatever runs at the same time and wherever it fails.       *)
THEOREM ChainIsRooted == Spec => []InvitationChainRooted
<1>1. Proved!AccountsRooted => InvitationChainRooted
    BY DEF InvitationChainRooted, Contract!AccountsRooted, Proved!AccountsRooted
<1> QED BY <1>1, CircleImplementsTrust, SameTrust, Proved!TrustIsRooted, PTL

(* group_members.invited_by leads every member back to the owner, who is   *)
(* one of the members.                                                     *)
THEOREM MembershipIsRooted == Spec => []MembershipRooted
<1>1. Proved!MembersRooted => MembershipRooted
    BY DEF MembershipRooted, Contract!MembersRooted, Proved!MembersRooted
<1> QED BY <1>1, CircleImplementsTrust, SameTrust, Proved!TrustIsRooted, PTL
=============================================================================
