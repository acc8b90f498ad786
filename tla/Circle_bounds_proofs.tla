------------------------ MODULE Circle_bounds_proofs ------------------------
(***************************************************************************)
(* What becomes of the promises "one bootstrap account", "an invitation is *)
(* used once" and "no account without a group" when requests overlap: the  *)
(* number of overlapping requests bounds how far the first two are missed, *)
(* and the third holds unless a request is cut off.                        *)
(***************************************************************************)
EXTENDS Circle_room_proofs, Circle_history_proofs
-----------------------------------------------------------------------------
(* A slot changes only by an action of its own.                            *)
LEMMA OwnStep ==
    ASSUME RequestsType, [Next]_vars, NEW x \in Req, req'[x] # req[x]
    PROVE  \/ Register(x) \/ VerifyEmail(x)
           \/ CreateGroup(x) \/ CreateInvite(x) \/ AcceptInvite(x)
           \/ RequestFails(x)
<1> DEFINE Else(r) == r # x => req'[x] = req[x]
<1>1. ASSUME NEW r \in Req, NEW pc, Goto(r, pc) PROVE Else(r)
    BY <1>1, GotoSlot
<1>2. ASSUME NEW r \in Req, Return(r) PROVE Else(r)
    BY <1>2, ReturnSlot
<1>3. ASSUME NEW r \in Req, NEW pc, NEW u, NEW i, NEW g, NEW e, Begin(r, pc, u, i, g, e)
      PROVE  Else(r)
    BY <1>3, BeginSlot
<1> HIDE DEF Else
<1>4. ASSUME NEW r \in Req, Register(r) PROVE Else(r)
    BY <1>1, <1>2, <1>3, <1>4
    DEF Register, RegisterCount, RegisterInvite, RegisterRoom, RegisterEmail, RegisterUser,
        RegisterJoin, RegisterAccept, RegisterToken, RegisterAnswer
<1>5. ASSUME NEW r \in Req, VerifyEmail(r) PROVE Else(r)
    BY <1>1, <1>2, <1>3, <1>5 DEF VerifyEmail, VerifyRead, VerifyMark, VerifyDelete
<1>6. ASSUME NEW r \in Req, CreateGroup(r) \/ CreateInvite(r) PROVE Else(r)
    BY <1>1, <1>2, <1>3, <1>6
    DEF CreateGroup, CreateInvite, GroupInsert, GroupOwnerJoin, InviteRole, InviteInsert
<1>7. ASSUME NEW r \in Req, AcceptInvite(r) PROVE Else(r)
    BY <1>1, <1>2, <1>3, <1>7
    DEF AcceptInvite, AcceptRead, AcceptRole, AcceptRoom, AcceptJoin, AcceptMark
<1>8. ASSUME NEW r \in Req, RequestFails(r) PROVE Else(r)
    BY <1>2, <1>8 DEF RequestFails
<1>9. ASSUME \/ UNCHANGED vars
             \/ \E u \in User : TokenExpires(u)
             \/ \E i \in Invite : InviteExpires(i)
      PROVE  req' = req
    BY <1>9 DEF vars, TokenExpires, InviteExpires
<1> QED
    BY <1>4, <1>5, <1>6, <1>7, <1>8, <1>9 DEF Next, AuthNext, GroupNext, Else
-----------------------------------------------------------------------------
(* Accounts that nobody invited, and the requests about to create one.     *)
Bootstrap == {u \in accounts : invitedBy[u] = None}

Founding(r) == req[r].pc \in {"reg_email", "reg_user"} /\ req[r].invite = None

Founders == {r \in Req : Founding(r)}

BootstrapAccounted == Cardinality(Bootstrap) + Cardinality(Founders) <= Cardinality(Req)

(* A request becomes one without an invitation only while there is no user.*)
LEMMA FoundersBegin ==
    ASSUME Consistent, [Next]_vars, NEW x \in Req, Founding(x)', ~Founding(x)
    PROVE  accounts = {} /\ UNCHANGED accountVars
<1>0. RequestsType /\ HandlerConsistent(x)
    BY DEF Consistent, TypeOK, HandlersConsistent
<1>1. req'[x] # req[x]
    BY DEF Founding
<1>2. ~Return(x)
    BY <1>0, ReturnSlot DEF Founding, Idle
<1>3. ASSUME NEW pc, Goto(x, pc)
      PROVE  pc \in {"reg_email", "reg_user"} /\ req[x].invite = None
    BY <1>0, <1>3, GotoSlot DEF Founding
<1>4. ASSUME NEW pc, NEW u, NEW i, NEW g, NEW e, Begin(x, pc, u, i, g, e)
      PROVE  pc \in {"reg_email", "reg_user"} /\ i = None
  <2>1. req'[x] = [pc |-> pc, user |-> u, invite |-> i, group |-> g, email |-> e]
      BY <1>0, <1>4, BeginSlot
  <2>2. req'[x].pc = pc /\ req'[x].invite = i
      BY <2>1
  <2> QED
      BY <2>2 DEF Founding
<1>5. CASE Register(x)
  <2>1. ASSUME NEW u \in User, RegisterCount(x, u)
        PROVE  accounts = {} /\ UNCHANGED accountVars
      BY <1>4, <2>1, TablesAssumption DEF RegisterCount, NoUsers, Stored
  <2>2. ~RegisterInvite(x)
      BY <1>2, <1>3 DEF RegisterInvite
  <2>3. ~RegisterRoom(x)
      BY <1>0, <1>2, <1>3 DEF RegisterRoom, HandlerConsistent, NeedsInvite, At
  <2>4. ~RegisterEmail(x)
      BY <1>2, <1>3 DEF RegisterEmail, Founding, At
  <2>5. ~ (\/ RegisterUser(x) \/ RegisterJoin(x) \/ RegisterAccept(x)
           \/ RegisterToken(x) \/ RegisterAnswer(x))
      BY <1>2, <1>3 DEF RegisterUser, RegisterJoin, RegisterAccept, RegisterToken, RegisterAnswer
  <2> QED
      BY <1>5, <2>1, <2>2, <2>3, <2>4, <2>5 DEF Register
<1>6. ~VerifyEmail(x)
    BY <1>2, <1>3, <1>4 DEF VerifyEmail, VerifyRead, VerifyMark, VerifyDelete
<1>7. ~ (CreateGroup(x) \/ CreateInvite(x))
    BY <1>2, <1>3, <1>4
    DEF CreateGroup, CreateInvite, GroupInsert, GroupOwnerJoin, InviteRole, InviteInsert
<1>8. ~AcceptInvite(x)
    BY <1>2, <1>3, <1>4
    DEF AcceptInvite, AcceptRead, AcceptRole, AcceptRoom, AcceptJoin, AcceptMark
<1>9. ~RequestFails(x)
    BY <1>2 DEF RequestFails
<1> QED
    BY <1>0, <1>1, <1>5, <1>6, <1>7, <1>8, <1>9, OwnStep

(* The columns of users and of its verifications that a step changes.      *)
LEMMA UsersStep ==
    ASSUME [Next]_vars
    PROVE  \/ UNCHANGED <<accounts, invitedBy>>
           \/ \E r \in Req : \/ RegisterUser(r) /\ req[r].user \notin accounts
                                /\ InsertUser(req[r].user, Inviter(req[r].invite))
<1>1. ASSUME NEW r \in Req, RegisterUser(r)
      PROVE  \/ UNCHANGED <<accounts, invitedBy>>
             \/ /\ req[r].user \notin accounts
                /\ InsertUser(req[r].user, Inviter(req[r].invite))
    BY <1>1 DEF RegisterUser, accountVars
<1>2. ASSUME NEW r \in Req, \/ RegisterToken(r) \/ RegisterAnswer(r)
                            \/ VerifyMark(r) \/ VerifyDelete(r)
      PROVE  UNCHANGED <<accounts, invitedBy>>
    BY <1>2 DEF RegisterToken, RegisterAnswer, VerifyMark, VerifyDelete,
       CreateEmailVerification, MarkEmailVerified, DeleteEmailVerification
<1>3. ASSUME NEW u \in User, TokenExpires(u) PROVE UNCHANGED <<accounts, invitedBy>>
    BY <1>3 DEF TokenExpires
<1> QED
    BY <1>1, <1>2, <1>3, AccountFrame DEF accountVars

LEMMA FoundersFinite ==
    ASSUME Consistent
    PROVE  /\ IsFiniteSet(Bootstrap) /\ Cardinality(Bootstrap) \in Nat
           /\ IsFiniteSet(Founders) /\ Cardinality(Founders) \in Nat
           /\ IsFiniteSet(Req) /\ Cardinality(Req) \in Nat
           /\ \A S \in SUBSET Founders : IsFiniteSet(S) /\ Cardinality(S) <= Cardinality(Founders)
                                                        /\ Cardinality(S) \in Nat
           /\ \A S \in SUBSET Req : IsFiniteSet(S) /\ Cardinality(S) <= Cardinality(Req)
                                                   /\ Cardinality(S) \in Nat
<1>1. Bootstrap \subseteq User /\ Founders \subseteq Req
    BY DEF Consistent, TypeOK, AccountsType, Bootstrap, Founders
<1> QED
    BY <1>1, TablesAssumption, FS_Subset, FS_CardinalityType

(* A bootstrap account is one more, a founding request one less.           *)
LEMMA BootstrapStep ==
    ASSUME Consistent, Consistent', BootstrapAccounted, [Next]_vars
    PROVE  BootstrapAccounted'
<1>0. RequestsType /\ AccountsType
    BY DEF Consistent, TypeOK
<1>1. CASE Bootstrap' = Bootstrap
  <2>1. CASE Founders' \subseteq Founders
    <3>1. /\ Cardinality(Founders') <= Cardinality(Founders)
          /\ Cardinality(Founders') \in Nat
        BY <2>1, FoundersFinite
    <3>2. /\ Cardinality(Bootstrap) \in Nat /\ Cardinality(Founders) \in Nat
          /\ Cardinality(Req) \in Nat
        BY FoundersFinite
    <3> QED
        BY <1>1, <3>1, <3>2 DEF BootstrapAccounted
  <2>2. CASE ~(Founders' \subseteq Founders)
    <3>1. accounts = {}
        BY <2>2, FoundersBegin DEF Founders
    <3>2. Bootstrap' = {}
        BY <1>1, <3>1 DEF Bootstrap
    <3>3. Founders' \subseteq Req
        BY DEF Founders
    <3> QED
        BY <3>2, <3>3, FoundersFinite, FS_EmptySet DEF BootstrapAccounted
  <2> QED
      BY <2>1, <2>2
<1>2. CASE Bootstrap' # Bootstrap
  <2>1. PICK r \in Req : /\ RegisterUser(r) /\ req[r].user \notin accounts
                         /\ InsertUser(req[r].user, Inviter(req[r].invite))
      BY <1>2, UsersStep DEF Bootstrap
  <2> DEFINE u == req[r].user
  <2>2. u \in User /\ HandlerConsistent(r) /\ req[r].pc = "reg_user"
      BY <2>1 DEF Consistent, HandlersConsistent, HandlerConsistent, RegisterUser, At
  <2>3. /\ accounts' = accounts \cup {u}
        /\ invitedBy' = [invitedBy EXCEPT ![u] = Inviter(req[r].invite)]
      BY <2>1 DEF InsertUser
  <2>4. Inviter(req[r].invite) = None
    <3>1. CASE Inviter(req[r].invite) # None
      <4>1. invitedBy'[u] # None
          BY <1>0, <2>2, <2>3, <3>1 DEF AccountsType
      <4>2. \A v \in accounts : invitedBy'[v] = invitedBy[v]
          BY <1>0, <2>1, <2>3 DEF AccountsType
      <4> HIDE DEF u
      <4> QED
          BY <1>2, <2>1, <2>3, <4>1, <4>2 DEF Bootstrap
    <3> QED
        BY <3>1
  <2>5. req[r].invite = None
    <3>1. CASE req[r].invite # None
        BY <2>4, <3>1, InviteFacts, TablesAssumption DEF Inviter
    <3> QED
        BY <3>1
  <2>6. r \in Founders
      BY <2>2, <2>5 DEF Founders, Founding
  <2>7. Bootstrap' = Bootstrap \cup {u}
    <3>1. invitedBy'[u] = None /\ \A v \in accounts : invitedBy'[v] = invitedBy[v]
        BY <1>0, <2>1, <2>2, <2>3, <2>4 DEF AccountsType
    <3> HIDE DEF u
    <3> QED
        BY <2>3, <3>1 DEF Bootstrap
  <2>8. Founders' \subseteq Founders \ {r}
    <3>1. ~Founding(r)'
      <4>1. Goto(r, "reg_token")
          BY <2>1, <2>5 DEF RegisterUser, accountVars, InsertUser
      <4> QED
          BY <1>0, <4>1, GotoSlot DEF Founding
    <3>2. \A x \in Req : Founding(x)' => Founding(x)
        BY <2>1, <2>3, FoundersBegin DEF accountVars
    <3> QED
        BY <3>1, <3>2 DEF Founders
  <2>9. Cardinality(Bootstrap') <= Cardinality(Bootstrap) + 1
    <3> HIDE DEF u
    <3>1. IsFiniteSet(Bootstrap) /\ Cardinality(Bootstrap) \in Nat
        BY FoundersFinite
    <3>2. Cardinality(Bootstrap \cup {u}) \in {Cardinality(Bootstrap), Cardinality(Bootstrap) + 1}
        BY <3>1, FS_AddElement
    <3> QED
        BY <2>7, <3>1, <3>2
  <2>10. Cardinality(Founders') <= Cardinality(Founders) - 1
    <3>1. IsFiniteSet(Founders \ {r}) /\ Cardinality(Founders \ {r}) = Cardinality(Founders) - 1
        BY <2>6, FoundersFinite, FS_RemoveElement
    <3> QED
        BY <2>8, <3>1, FS_Subset
  <2>11. /\ Cardinality(Bootstrap') \in Nat /\ Cardinality(Founders') \in Nat
         /\ Cardinality(Bootstrap) \in Nat /\ Cardinality(Founders) \in Nat
         /\ Cardinality(Req) \in Nat
    <3>1. Founders' \in SUBSET Founders
        BY <2>8
    <3>2. IsFiniteSet(Bootstrap')
        BY <2>7, FoundersFinite, FS_AddElement
    <3> QED
        BY <3>1, <3>2, FoundersFinite, FS_CardinalityType
  <2> QED
      BY <2>9, <2>10, <2>11 DEF BootstrapAccounted
<1> QED
    BY <1>1, <1>2
-----------------------------------------------------------------------------
(* Requests that have found invitation i usable and have not inserted a    *)
(* member row yet, and those that have and are about to mark i.            *)
InUse(r, i) ==
    /\ req[r].pc \in {"reg_room", "reg_email", "reg_user", "reg_join",
                      "acc_role", "acc_room", "acc_join"}
    /\ req[r].invite = i

Marks(r, i) == req[r].pc \in {"reg_accept", "acc_mark"} /\ req[r].invite = i

Entering(i) == {r \in Req : InUse(r, i)}
Marking(i) == {r \in Req : Marks(r, i)}

(* While i is not marked, whoever entered through it is about to mark it.  *)
JoinersMark ==
    \A i \in Invite : invites[i].status = "pending" =>
        \A u \in joinedBy[i] : \E r \in Marking(i) : req[r].user = u

UseAccounted ==
    \A i \in Invite :
        Cardinality(joinedBy[i]) + Cardinality(Entering(i)) <= Cardinality(Req)

(* A request starts using an invitation only while it is usable.           *)
LEMMA EnteringBegins ==
    ASSUME Consistent, [Next]_vars, NEW x \in Req, NEW i \in Invite,
           InUse(x, i)', ~InUse(x, i)
    PROVE  Usable(i) /\ UNCHANGED inviteVars
<1>0. RequestsType /\ i # None
    BY TablesAssumption DEF Consistent, TypeOK
<1>1. req'[x] # req[x]
    BY DEF InUse
<1>2. ~Return(x)
    BY <1>0, ReturnSlot DEF InUse, Idle
<1>3. ASSUME NEW pc, Goto(x, pc)
      PROVE  /\ pc \in {"reg_room", "reg_email", "reg_user", "reg_join",
                        "acc_role", "acc_room", "acc_join"}
             /\ req[x].invite = i
             /\ req[x].pc \notin {"reg_room", "reg_email", "reg_user", "reg_join",
                                  "acc_role", "acc_room", "acc_join"}
    BY <1>0, <1>3, GotoSlot DEF InUse
<1>4. ASSUME NEW pc, NEW u, NEW j, NEW g, NEW e, Begin(x, pc, u, j, g, e)
      PROVE  /\ pc \in {"reg_room", "reg_email", "reg_user", "reg_join",
                        "acc_role", "acc_room", "acc_join"}
             /\ j = i
  <2>1. req'[x] = [pc |-> pc, user |-> u, invite |-> j, group |-> g, email |-> e]
      BY <1>0, <1>4, BeginSlot
  <2>2. req'[x].pc = pc /\ req'[x].invite = j
      BY <2>1
  <2> QED
      BY <2>2 DEF InUse
<1>5. CASE Register(x)
  <2>1. ASSUME NEW u \in User PROVE ~RegisterCount(x, u)
      BY <1>0, <1>4 DEF RegisterCount
  <2>2. CASE RegisterInvite(x)
      BY <1>2, <1>3, <2>2 DEF RegisterInvite, UsableFor
  <2>3. ~RegisterRoom(x)
      BY <1>2, <1>3 DEF RegisterRoom, At
  <2>4. ~RegisterEmail(x)
      BY <1>2, <1>3 DEF RegisterEmail, At
  <2>5. ~ (\/ RegisterUser(x) \/ RegisterJoin(x) \/ RegisterAccept(x)
           \/ RegisterToken(x) \/ RegisterAnswer(x))
      BY <1>2, <1>3 DEF RegisterUser, RegisterJoin, RegisterAccept, RegisterToken,
                        RegisterAnswer, At
  <2> QED
      BY <1>5, <2>1, <2>2, <2>3, <2>4, <2>5 DEF Register
<1>6. ~VerifyEmail(x)
    BY <1>2, <1>3, <1>4 DEF VerifyEmail, VerifyRead, VerifyMark, VerifyDelete
<1>7. ~ (CreateGroup(x) \/ CreateInvite(x))
    BY <1>2, <1>3, <1>4
    DEF CreateGroup, CreateInvite, GroupInsert, GroupOwnerJoin, InviteRole, InviteInsert
<1>8. CASE AcceptInvite(x)
  <2>1. ASSUME NEW u \in User, NEW j \in Invite, AcceptRead(x, u, j)
        PROVE  Usable(i) /\ UNCHANGED inviteVars
      BY <1>4, <2>1 DEF AcceptRead
  <2>2. ~ (AcceptRole(x) \/ AcceptRoom(x) \/ AcceptJoin(x) \/ AcceptMark(x))
      BY <1>2, <1>3 DEF AcceptRole, AcceptRoom, AcceptJoin, AcceptMark, At
  <2> QED
      BY <1>8, <2>1, <2>2 DEF AcceptInvite
<1>9. ~RequestFails(x)
    BY <1>2 DEF RequestFails
<1> QED
    BY <1>0, <1>1, <1>5, <1>6, <1>7, <1>8, <1>9, OwnStep

(* Without failures, a request about to mark an invitation marks it.       *)
LEMMA MarkingGoesOn ==
    ASSUME ~Faults, RequestsType, [Next]_vars, NEW x \in Req, NEW i, Marks(x, i)
    PROVE  \/ req'[x] = req[x]
           \/ RegisterAccept(x) \/ AcceptMark(x)
<1> SUFFICES ASSUME req'[x] # req[x] PROVE RegisterAccept(x) \/ AcceptMark(x)
    OBVIOUS
<1>1. req[x].pc \in {"reg_accept", "acc_mark"} /\ req[x] # Idle
    BY DEF Marks, Idle
<1>2. Register(x) => RegisterAccept(x)
    BY <1>1 DEF Register, RegisterCount, RegisterInvite, RegisterRoom, RegisterEmail,
                RegisterUser, RegisterJoin, RegisterToken, RegisterAnswer, Begin, At
<1>3. ~VerifyEmail(x)
    BY <1>1 DEF VerifyEmail, VerifyRead, VerifyMark, VerifyDelete, Begin, At
<1>4. ~ (CreateGroup(x) \/ CreateInvite(x))
    BY <1>1 DEF CreateGroup, CreateInvite, GroupInsert, GroupOwnerJoin, InviteRole,
                InviteInsert, Begin, At
<1>5. AcceptInvite(x) => AcceptMark(x)
    BY <1>1 DEF AcceptInvite, AcceptRead, AcceptRole, AcceptRoom, AcceptJoin, Begin, At
<1> QED
    BY <1>2, <1>3, <1>4, <1>5, OwnStep DEF RequestFails

(* A step that changes who entered through i is one request's join, and    *)
(* the request goes on to mark i.                                          *)
LEMMA JoinMoves ==
    ASSUME Consistent, [Next]_vars, NEW i \in Invite, joinedBy'[i] # joinedBy[i]
    PROVE  \E r \in Req :
              /\ InUse(r, i) /\ Marks(r, i)'
              /\ req'[r].user = req[r].user
              /\ joinedBy'[i] = joinedBy[i] \cup {req[r].user}
              /\ invites' = invites
              /\ \A s \in Req \ {r} : req'[s] = req[s]
<1>0. RequestsType /\ joinedBy \in [Invite -> SUBSET User]
    BY DEF Consistent, TypeOK, InvitesType
<1>1. PICK r \in Req : RegisterJoin(r) \/ AcceptJoin(r)
    BY JoinedFrame
<1>2. /\ NoteJoin(req[r].invite, req[r].user)
      /\ Goto(r, "reg_accept") \/ Goto(r, "acc_mark")
      /\ req[r].pc \in {"reg_join", "acc_join"}
    BY <1>1 DEF RegisterJoin, AcceptJoin, inviteVars, At
<1>3. req[r].invite = i
    BY <1>0, <1>2 DEF NoteJoin
<1>4. /\ req'[r].pc \in {"reg_accept", "acc_mark"}
      /\ req'[r].user = req[r].user
      /\ req'[r].invite = req[r].invite
      /\ \A s \in Req \ {r} : req'[s] = req[s]
    BY <1>0, <1>2, GotoSlot
<1> QED
    BY <1>0, <1>2, <1>3, <1>4 DEF NoteJoin, InUse, Marks

LEMMA JoinersMarkStep ==
    ASSUME ~Faults, Consistent, JoinsKept, JoinersMark, [Next]_vars
    PROVE  JoinersMark'
<1>0. RequestsType /\ invites \in [Invite -> InviteRow]
    BY DEF Consistent, TypeOK, InvitesType
<1> SUFFICES ASSUME NEW i \in Invite, invites'[i].status = "pending",
                    NEW u \in joinedBy'[i]
             PROVE  \E r \in Req : Marks(r, i)' /\ req'[r].user = u
    BY DEF JoinersMark, Marking
<1>1. ASSUME invites[i].status = "pending", u \in joinedBy[i]
      PROVE  \E r \in Req : Marks(r, i)' /\ req'[r].user = u
  <2>1. PICK r \in Req : Marks(r, i) /\ req[r].user = u
      BY <1>1 DEF JoinersMark, Marking
  <2>2. ~(RegisterAccept(r) \/ AcceptMark(r))
      BY <1>0, <2>1 DEF RegisterAccept, AcceptMark, AcceptInvitation, Marks, InviteRow
  <2>3. req'[r] = req[r]
      BY <1>0, <2>1, <2>2, MarkingGoesOn
  <2> QED
      BY <2>1, <2>3 DEF Marks
<1>2. ASSUME u \notin joinedBy[i]
      PROVE  \E r \in Req : Marks(r, i)' /\ req'[r].user = u
    BY <1>2, JoinMoves
<1>3. ASSUME invites[i].status # "pending", joinedBy'[i] = joinedBy[i]
      PROVE  joinedBy[i] = {}
  <2>1. CASE UNCHANGED inviteVars \/ \E r \in Req : RegisterJoin(r) \/ AcceptJoin(r)
      BY <1>3, <2>1 DEF inviteVars, RegisterJoin, AcceptJoin, NoteJoin
  <2>2. ASSUME NEW r \in Req, RegisterAccept(r) \/ AcceptMark(r) PROVE FALSE
      BY <1>0, <1>3, <2>2 DEF RegisterAccept, AcceptMark, AcceptInvitation, InviteRow
  <2>3. ASSUME NEW r \in Req, NEW j \in Invite, InviteInsert(r, j) PROVE joinedBy[i] = {}
      BY <1>0, <1>3, <2>3 DEF InviteInsert, InsertInvite, JoinsKept
  <2>4. ASSUME NEW j \in Invite, InviteExpires(j) PROVE FALSE
      BY <1>0, <1>3, <2>4 DEF InviteExpires, InviteRow
  <2> QED
      BY <2>1, <2>2, <2>3, <2>4, InviteFrame
<1>4. joinedBy'[i] # joinedBy[i] => invites' = invites
    BY JoinMoves
<1> QED
    BY <1>1, <1>2, <1>3, <1>4

(* People named by some requests and other requests: no more than requests.*)
LEMMA NamedAndOthers ==
    ASSUME NEW f, NEW M \in SUBSET Req, NEW E \in SUBSET Req, M \cap E = {},
           NEW J, \A u \in J : \E r \in M : f[r] = u
    PROVE  Cardinality(J) + Cardinality(E) <= Cardinality(Req)
<1>1. /\ IsFiniteSet(Req) /\ Cardinality(Req) \in Nat
      /\ \A S \in SUBSET Req : IsFiniteSet(S) /\ Cardinality(S) \in Nat
                                              /\ Cardinality(S) <= Cardinality(Req)
    BY TablesAssumption, FS_Subset, FS_CardinalityType
<1> DEFINE h == [r \in M |-> f[r]]
           T == {f[r] : r \in M}
<1>2. h \in Surjection(M, T)
    BY DEF Surjection
<1>3. IsFiniteSet(T) /\ Cardinality(T) <= Cardinality(M)
    BY <1>1, <1>2, FS_Surjection
<1>4. J \subseteq T
    OBVIOUS
<1>5. /\ IsFiniteSet(J) /\ Cardinality(J) <= Cardinality(T)
      /\ Cardinality(J) \in Nat /\ Cardinality(T) \in Nat
    BY <1>3, <1>4, FS_Subset, FS_CardinalityType
<1>6. Cardinality(M \cup E) = Cardinality(M) + Cardinality(E)
  <2>1. Cardinality(M \cap E) = 0
      BY FS_EmptySet
  <2>2. /\ Cardinality(M) \in Nat /\ IsFiniteSet(M)
        /\ Cardinality(E) \in Nat /\ IsFiniteSet(E)
      BY <1>1
  <2>3. Cardinality(M \cup E) = Cardinality(M) + Cardinality(E) - Cardinality(M \cap E)
      BY <2>2, FS_Union, Zenon
  <2> QED
      BY <2>1, <2>2, <2>3
<1>7. Cardinality(M \cup E) <= Cardinality(Req)
    BY <1>1
<1> QED
    BY <1>1, <1>3, <1>5, <1>6, <1>7

LEMMA UseAccountedStep ==
    ASSUME ~Faults, Consistent, Consistent', JoinsKept, JoinersMark, UseAccounted, [Next]_vars
    PROVE  UseAccounted'
<1> SUFFICES ASSUME NEW i \in Invite
             PROVE  Cardinality(joinedBy'[i]) + Cardinality(Entering(i)') <= Cardinality(Req)
    BY DEF UseAccounted
<1>0. /\ RequestsType
      /\ joinedBy \in [Invite -> SUBSET User]
      /\ invites \in [Invite -> InviteRow]
      /\ IsFiniteSet(Req) /\ IsFiniteSet(User) /\ Cardinality(Req) \in Nat
      /\ Entering(i) \subseteq Req
    BY TablesAssumption, FS_CardinalityType
    DEF Consistent, TypeOK, InvitesType, Entering
<1>1. /\ IsFiniteSet(joinedBy[i]) /\ Cardinality(joinedBy[i]) \in Nat
      /\ IsFiniteSet(Entering(i)) /\ Cardinality(Entering(i)) \in Nat
    BY <1>0, FS_Subset, FS_CardinalityType
<1>2. Cardinality(joinedBy[i]) + Cardinality(Entering(i)) <= Cardinality(Req)
    BY DEF UseAccounted
<1>3. CASE joinedBy'[i] # joinedBy[i]
  <2>1. PICK r \in Req :
              /\ InUse(r, i) /\ Marks(r, i)'
              /\ joinedBy'[i] = joinedBy[i] \cup {req[r].user}
              /\ \A s \in Req \ {r} : req'[s] = req[s]
      BY <1>3, JoinMoves
  <2>2. Entering(i)' \subseteq Entering(i) \ {r} /\ r \in Entering(i)
      BY <2>1 DEF Entering, InUse, Marks
  <2> DEFINE u == req[r].user
  <2>3. joinedBy'[i] = joinedBy[i] \cup {u}
      BY <2>1
  <2> HIDE DEF u
  <2>4. Cardinality(joinedBy[i] \cup {u}) \in {Cardinality(joinedBy[i]), Cardinality(joinedBy[i]) + 1}
      BY <1>1, FS_AddElement
  <2>5. IsFiniteSet(Entering(i) \ {r}) /\ Cardinality(Entering(i) \ {r}) = Cardinality(Entering(i)) - 1
      BY <1>1, <2>2, FS_RemoveElement
  <2>6. /\ Cardinality(Entering(i)') <= Cardinality(Entering(i)) - 1
        /\ Cardinality(Entering(i)') \in Nat
      BY <2>2, <2>5, FS_Subset, FS_CardinalityType
  <2> QED
      BY <1>0, <1>1, <1>2, <2>3, <2>4, <2>6
<1>4. CASE joinedBy'[i] = joinedBy[i]
  <2>1. CASE Entering(i)' \subseteq Entering(i)
    <3>1. /\ Cardinality(Entering(i)') <= Cardinality(Entering(i))
          /\ Cardinality(Entering(i)') \in Nat
        BY <1>1, <2>1, FS_Subset, FS_CardinalityType
    <3> QED
        BY <1>0, <1>1, <1>2, <1>4, <3>1
  <2>2. CASE ~(Entering(i)' \subseteq Entering(i))
    <3>1. Usable(i) /\ UNCHANGED inviteVars
        BY <2>2, EnteringBegins DEF Entering
    <3>2. \A u \in joinedBy[i] : \E r \in Marking(i) : req[r].user = u
        BY <3>1 DEF JoinersMark, Usable
    <3>3. Marking(i) \cap Entering(i)' = {}
      <4> SUFFICES ASSUME NEW r \in Req, Marks(r, i), InUse(r, i)' PROVE FALSE
          BY DEF Marking, Entering
      <4>1. RegisterAccept(r) \/ AcceptMark(r)
          BY <1>0, MarkingGoesOn DEF Marks, InUse
      <4> QED
          BY <1>0, <3>1, <4>1
          DEF RegisterAccept, AcceptMark, AcceptInvitation, Marks, InviteRow, Usable, inviteVars
    <3> DEFINE f == [r \in Req |-> req[r].user]
    <3>4. Marking(i) \in SUBSET Req /\ Entering(i)' \in SUBSET Req
        BY DEF Marking, Entering
    <3>5. \A u \in joinedBy[i] : \E r \in Marking(i) : f[r] = u
        BY <3>2, <3>4
    <3> HIDE DEF f
    <3>6. Cardinality(joinedBy[i]) + Cardinality(Entering(i)') <= Cardinality(Req)
        BY <3>3, <3>4, <3>5, NamedAndOthers
    <3> QED
        BY <1>4, <3>6
  <2> QED
      BY <2>1, <2>2
<1> QED
    BY <1>3, <1>4
-----------------------------------------------------------------------------
(* Whoever was invited has a group, or the request that created the        *)
(* account is about to add it to one.                                      *)
Homed(u) ==
    \/ invitedBy[u] = None
    \/ \E g \in Group : u \in members[g]
    \/ \E r \in Req : At(r, "reg_join") /\ req[r].user = u

AccountsHomed == \A u \in accounts : Homed(u)

(* Without failures, a request about to join its group does.               *)
LEMMA JoiningGoesOn ==
    ASSUME ~Faults, RequestsType, [Next]_vars, NEW x \in Req, At(x, "reg_join")
    PROVE  req'[x] = req[x] \/ RegisterJoin(x)
<1> SUFFICES ASSUME req'[x] # req[x] PROVE RegisterJoin(x)
    OBVIOUS
<1>1. req[x].pc = "reg_join" /\ req[x] # Idle
    BY DEF At, Idle
<1>2. Register(x) => RegisterJoin(x)
    BY <1>1 DEF Register, RegisterCount, RegisterInvite, RegisterRoom, RegisterEmail,
                RegisterUser, RegisterAccept, RegisterToken, RegisterAnswer, Begin, At
<1>3. ~VerifyEmail(x)
    BY <1>1 DEF VerifyEmail, VerifyRead, VerifyMark, VerifyDelete, Begin, At
<1>4. ~ (CreateGroup(x) \/ CreateInvite(x))
    BY <1>1 DEF CreateGroup, CreateInvite, GroupInsert, GroupOwnerJoin, InviteRole,
                InviteInsert, Begin, At
<1>5. ~AcceptInvite(x)
    BY <1>1 DEF AcceptInvite, AcceptRead, AcceptRole, AcceptRoom, AcceptJoin, AcceptMark,
                Begin, At
<1> QED
    BY <1>2, <1>3, <1>4, <1>5, OwnStep DEF RequestFails

LEMMA HomedStep ==
    ASSUME ~Faults, Consistent, AccountsHomed, [Next]_vars
    PROVE  AccountsHomed'
<1>0. RequestsType /\ AccountsType /\ GroupsType
    BY DEF Consistent, TypeOK
<1> SUFFICES ASSUME NEW u \in accounts' PROVE Homed(u)'
    BY DEF AccountsHomed
<1>1. CASE u \in accounts
  <2>0. invitedBy'[u] = invitedBy[u]
      BY <1>0, <1>1, UsersStep DEF InsertUser, AccountsType
  <2>1. CASE invitedBy[u] = None
      BY <2>0, <2>1 DEF Homed
  <2>2. ASSUME NEW g \in Group, u \in members[g] PROVE Homed(u)'
      BY <2>2, GroupsGrow DEF Homed
  <2>3. ASSUME NEW r \in Req, At(r, "reg_join"), req[r].user = u PROVE Homed(u)'
    <3>1. CASE req'[r] = req[r]
        BY <2>3, <3>1 DEF Homed, At
    <3>2. CASE RegisterJoin(r)
      <4>1. invites[req[r].invite].group \in Group
          BY <3>2, JoinFacts, InviteFacts
      <4>2. u \in members'[invites[req[r].invite].group]
          BY <1>0, <2>3, <3>2, <4>1 DEF RegisterJoin, InsertMember, GroupsType, groupVars
      <4> QED
          BY <4>1, <4>2 DEF Homed
    <3> QED
        BY <1>0, <2>3, <3>1, <3>2, JoiningGoesOn
  <2> QED
      BY <1>1, <2>1, <2>2, <2>3 DEF AccountsHomed, Homed
<1>2. CASE u \notin accounts
  <2>1. PICK r \in Req : /\ RegisterUser(r) /\ req[r].user \notin accounts
                         /\ InsertUser(req[r].user, Inviter(req[r].invite))
      BY <1>2, UsersStep
  <2>2. u = req[r].user /\ u \in User
      BY <1>0, <1>2, <2>1 DEF InsertUser, Consistent, HandlersConsistent, HandlerConsistent,
                              RegisterUser, At
  <2>3. CASE req[r].invite = None
      BY <1>0, <2>1, <2>2, <2>3 DEF InsertUser, Inviter, AccountsType, Homed
  <2>4. CASE req[r].invite # None
    <3>1. Goto(r, "reg_join")
        BY <2>1, <2>4 DEF RegisterUser
    <3> QED
        BY <1>0, <2>2, <3>1, GotoSlot DEF Homed, At
  <2> QED
      BY <2>3, <2>4
<1> QED
    BY <1>1, <1>2
-----------------------------------------------------------------------------
(* An account that nobody invited, or that is in a group.                  *)
Grouped(u) ==
    /\ u \in accounts
    /\ invitedBy[u] = None \/ \E g \in Group : u \in members[g]

(* Where a request is that has AddMember, or the first account, behind it, *)
(* or has found a verification token.                                      *)
PastJoin == {"reg_accept", "reg_token", "reg_answer", "ver_mark", "ver_delete"}

TokensGrouped ==
    /\ \A u \in User : tokenRow[u] # "none" \/ u \in verified => Grouped(u)
    /\ \A r \in Req : req[r].pc \in PastJoin => Grouped(req[r].user)

(* Nobody loses a group or gets another inviter.                           *)
LEMMA GroupedStays ==
    ASSUME Consistent, [Next]_vars, NEW u, Grouped(u)
    PROVE  Grouped(u)'
<1>0. AccountsType /\ u \in accounts /\ u \in User
    BY DEF Consistent, TypeOK, AccountsType, Grouped
<1>1. u \in accounts' /\ invitedBy'[u] = invitedBy[u]
    BY <1>0, UsersStep DEF InsertUser, AccountsType
<1>2. \A g \in Group : u \in members[g] => u \in members'[g]
    BY GroupsGrow
<1> QED
    BY <1>1, <1>2 DEF Grouped

(* A request gets past AddMember with a group, however it overlaps with    *)
(* others and wherever they are cut off.                                   *)
LEMMA PastJoinStep ==
    ASSUME Consistent, TokensGrouped, [Next]_vars, NEW x \in Req,
           req'[x].pc \in PastJoin, req'[x] # req[x]
    PROVE  Grouped(req[x].user)'
<1>0. RequestsType /\ AccountsType /\ GroupsType
    BY DEF Consistent, TypeOK
<1>1. ~Return(x)
    BY <1>0, ReturnSlot DEF Idle, PastJoin
<1>11. ASSUME NEW pc, NEW u, NEW i, NEW g, NEW e, Begin(x, pc, u, i, g, e)
      PROVE  pc \in PastJoin /\ req'[x].user = u
  <2>1. req'[x] = [pc |-> pc, user |-> u, invite |-> i, group |-> g, email |-> e]
      BY <1>0, <1>11 DEF Begin, RequestsType
  <2> QED
      BY <2>1
<1>2. CASE req[x].pc \in PastJoin /\ req'[x].user = req[x].user
    BY <1>2, GroupedStays DEF TokensGrouped
<1>3. CASE RegisterUser(x)
  <2>1. /\ req[x].user \notin accounts
        /\ InsertUser(req[x].user, Inviter(req[x].invite))
        /\ Goto(x, IF req[x].invite = None THEN "reg_token" ELSE "reg_join")
      BY <1>1, <1>3 DEF RegisterUser
  <2>2. req'[x].user = req[x].user /\ req[x].invite = None
      BY <1>0, <2>1, GotoSlot DEF PastJoin
  <2>3. req[x].user \in User
      BY <1>3 DEF RegisterUser, At, Consistent, HandlersConsistent, HandlerConsistent
  <2> QED
      BY <1>0, <2>1, <2>2, <2>3 DEF InsertUser, Inviter, AccountsType, Grouped
<1>4. CASE RegisterJoin(x)
  <2> DEFINE i == req[x].invite
             g == invites[i].group
  <2>1. /\ req[x].user \notin members[g]
        /\ InsertMember(g, req[x].user, invites[i].inviter)
        /\ Goto(x, "reg_accept")
        /\ accounts' = accounts
      BY <1>1, <1>4 DEF RegisterJoin, accountVars
  <2>2. g \in Group /\ req[x].user \in accounts
      BY <1>4, JoinFacts, InviteFacts
  <2>3. req'[x].user = req[x].user
      BY <1>0, <2>1, GotoSlot
  <2>4. req[x].user \in members'[g]
      BY <1>0, <2>1, <2>2 DEF InsertMember, GroupsType
  <2> QED
      BY <2>1, <2>2, <2>3, <2>4 DEF Grouped
<1>5. CASE \E u \in User : VerifyRead(x, u)
  <2>1. PICK u \in User : VerifyRead(x, u)
      BY <1>5
  <2>2. tokenRow[u] # "none" /\ req'[x].user = u
      BY <1>11, <2>1 DEF VerifyRead, TokenStored
  <2> QED
      BY <2>2, GroupedStays DEF TokensGrouped
<1>6. CASE Register(x)
  <2>1. ASSUME NEW u \in User, RegisterCount(x, u) PROVE FALSE
      BY <1>11, <2>1 DEF RegisterCount, PastJoin
  <2>2. ASSUME RegisterInvite(x) \/ RegisterRoom(x) \/ RegisterEmail(x) PROVE FALSE
      BY <1>0, <1>1, <2>2, GotoSlot
      DEF RegisterInvite, RegisterRoom, RegisterEmail, PastJoin
  <2>3. CASE RegisterAccept(x) \/ RegisterToken(x)
    <3>1. req[x].pc \in PastJoin /\ req'[x].user = req[x].user
        BY <1>0, <2>3, GotoSlot DEF RegisterAccept, RegisterToken, At, PastJoin
    <3> QED
        BY <1>2, <3>1
  <2>4. ~RegisterAnswer(x)
      BY <1>1 DEF RegisterAnswer
  <2> QED
      BY <1>3, <1>4, <1>6, <2>1, <2>2, <2>3, <2>4 DEF Register
<1>7. CASE VerifyEmail(x)
  <2>1. CASE VerifyMark(x)
    <3>1. req[x].pc \in PastJoin /\ req'[x].user = req[x].user
        BY <1>0, <2>1, GotoSlot DEF VerifyMark, At, PastJoin
    <3> QED
        BY <1>2, <3>1
  <2>2. ~VerifyDelete(x)
      BY <1>1 DEF VerifyDelete
  <2> QED
      BY <1>5, <1>7, <2>1, <2>2 DEF VerifyEmail
<1>8. ~(CreateGroup(x) \/ CreateInvite(x))
    BY <1>11, <1>1
    DEF CreateGroup, CreateInvite, GroupInsert, GroupOwnerJoin, InviteRole, InviteInsert,
        PastJoin
<1>9. ~AcceptInvite(x)
    BY <1>0, <1>11, <1>1, GotoSlot
    DEF AcceptInvite, AcceptRead, AcceptRole, AcceptRoom, AcceptJoin, AcceptMark, PastJoin
<1>10. ~RequestFails(x)
    BY <1>1 DEF RequestFails
<1> QED
    BY <1>0, <1>6, <1>7, <1>8, <1>9, <1>10, OwnStep

(* A token row, and a verification, is written only by such a request.     *)
LEMMA TokensGroupedStep ==
    ASSUME Consistent, TokensGrouped, [Next]_vars
    PROVE  TokensGrouped'
<1>0. AccountsType
    BY DEF Consistent, TypeOK
<1>1. ASSUME NEW u \in User, tokenRow'[u] # "none" \/ u \in verified'
      PROVE  Grouped(u)
  <2>1. \/ tokenRow[u] # "none" \/ u \in verified
        \/ \E r \in Req : req[r].user = u /\ req[r].pc \in PastJoin
    <3>1. CASE UNCHANGED accountVars
        BY <1>1, <3>1 DEF accountVars
    <3>2. ASSUME NEW r \in Req, RegisterUser(r) \/ RegisterAnswer(r)
          PROVE  UNCHANGED <<tokenRow, verified>>
        BY <3>2 DEF RegisterUser, InsertUser, RegisterAnswer, accountVars
    <3>3. ASSUME NEW r \in Req, RegisterToken(r), req[r].user # u
          PROVE  tokenRow'[u] = tokenRow[u] /\ verified' = verified
        BY <1>0, <3>3 DEF RegisterToken, CreateEmailVerification, AccountsType
    <3>4. ASSUME NEW r \in Req, VerifyMark(r), req[r].user # u
          PROVE  tokenRow' = tokenRow /\ (u \in verified' => u \in verified)
        BY <3>4 DEF VerifyMark, MarkEmailVerified
    <3>5. ASSUME NEW r \in Req, VerifyDelete(r)
          PROVE  (tokenRow'[u] # "none" => tokenRow[u] # "none") /\ verified' = verified
        BY <1>0, <3>5 DEF VerifyDelete, DeleteEmailVerification, AccountsType
    <3>6. ASSUME NEW v \in User, TokenExpires(v)
          PROVE  (tokenRow'[u] # "none" => tokenRow[u] # "none") /\ verified' = verified
        BY <1>0, <3>6 DEF TokenExpires, AccountsType
    <3>7. ASSUME NEW r \in Req, RegisterToken(r) \/ VerifyMark(r)
          PROVE  req[r].pc \in PastJoin
        BY <3>7 DEF RegisterToken, VerifyMark, At, PastJoin
    <3> QED
        BY <1>1, <3>1, <3>2, <3>3, <3>4, <3>5, <3>6, <3>7, AccountFrame
  <2> QED
      BY <2>1 DEF TokensGrouped
<1>2. ASSUME NEW r \in Req, req'[r].pc \in PastJoin PROVE Grouped(req[r].user)'
  <2>1. CASE req'[r] = req[r]
      BY <1>2, <2>1, GroupedStays DEF TokensGrouped
  <2>2. CASE req'[r] # req[r]
      BY <1>2, <2>2, PastJoinStep
  <2> QED
      BY <2>1, <2>2
<1>3. ASSUME NEW u \in User, tokenRow'[u] # "none" \/ u \in verified'
      PROVE  Grouped(u)'
    BY <1>1, <1>3, GroupedStays
<1> QED
    BY <1>2, <1>3 DEF TokensGrouped, Grouped
-----------------------------------------------------------------------------
(* However many requests overlap and wherever they fail, no more accounts  *)
(* exist without an inviter than requests are handled at the same time.    *)
THEOREM BootstrapIsBounded == Spec => []BootstrapBounded
<1>1. Init => BootstrapAccounted
  <2> SUFFICES ASSUME Init PROVE BootstrapAccounted
      OBVIOUS
  <2>1. Bootstrap = {} /\ Founders = {}
      BY DEF Init, TablesInit, Bootstrap, Founders, Founding, Idle
  <2>2. Cardinality(Req) \in Nat
      BY TablesAssumption, FS_CardinalityType
  <2> QED
      BY <2>1, <2>2, FS_EmptySet DEF BootstrapAccounted
<1>2. Consistent /\ Consistent' /\ BootstrapAccounted /\ [Next]_vars => BootstrapAccounted'
    BY BootstrapStep
<1>3. Consistent /\ BootstrapAccounted => BootstrapBounded
  <2> SUFFICES ASSUME Consistent, BootstrapAccounted PROVE BootstrapBounded
      OBVIOUS
  <2>1. /\ Cardinality(Bootstrap) \in Nat /\ Cardinality(Founders) \in Nat
        /\ Cardinality(Req) \in Nat
      BY FoundersFinite
  <2> QED
      BY <2>1 DEF BootstrapAccounted, BootstrapBounded, Bootstrap
<1> QED
    BY <1>1, <1>2, <1>3, CircleIsConsistent, PTL DEF Spec

(* An invitation lets in no more people than requests are handled at the   *)
(* same time.                                                              *)
UseBounded == \A i \in Invite : Cardinality(joinedBy[i]) <= Cardinality(Req)

(* While no request is cut off, an invitation is used again only by        *)
(* requests that overlap with the first one.                               *)
THEOREM UseIsBounded == ASSUME ~Faults PROVE Spec => []UseBounded
<1> DEFINE I == Consistent /\ JoinsKept /\ JoinersMark /\ UseAccounted
<1>1. Init => JoinsKept /\ JoinersMark /\ UseAccounted
  <2> SUFFICES ASSUME Init PROVE JoinsKept /\ JoinersMark /\ UseAccounted
      OBVIOUS
  <2>1. JoinsKept /\ JoinersMark
      BY DEF Init, TablesInit, JoinsKept, JoinersMark, NoRow, Idle
  <2>2. \A i \in Invite : joinedBy[i] = {} /\ Entering(i) = {}
      BY DEF Init, TablesInit, Entering, InUse, Idle
  <2>3. Cardinality(Req) \in Nat
      BY TablesAssumption, FS_CardinalityType
  <2> QED
      BY <2>1, <2>2, <2>3, FS_EmptySet DEF UseAccounted
<1>2. JoinsKept /\ Consistent /\ [Next]_vars => JoinsKept'
    BY JoinsStep
<1>3. Consistent /\ JoinsKept /\ JoinersMark /\ [Next]_vars => JoinersMark'
    BY JoinersMarkStep
<1>4. Consistent /\ Consistent' /\ JoinsKept /\ JoinersMark /\ UseAccounted /\ [Next]_vars
          => UseAccounted'
    BY UseAccountedStep
<1>5. Consistent /\ UseAccounted => UseBounded
  <2> SUFFICES ASSUME Consistent, UseAccounted, NEW i \in Invite
               PROVE  Cardinality(joinedBy[i]) <= Cardinality(Req)
      BY DEF UseBounded
  <2>1. joinedBy[i] \subseteq User /\ Entering(i) \subseteq Req
      BY DEF Consistent, TypeOK, InvitesType, Entering
  <2>2. /\ Cardinality(joinedBy[i]) \in Nat /\ Cardinality(Entering(i)) \in Nat
        /\ Cardinality(Req) \in Nat
      BY <2>1, TablesAssumption, FS_Subset, FS_CardinalityType
  <2> QED
      BY <2>2 DEF UseAccounted
<1> QED
    BY <1>1, <1>2, <1>3, <1>4, <1>5, CircleIsConsistent, PTL DEF Spec

(* "vermeidet 'Konto ohne Gruppe'": while no request is cut off, every     *)
(* invited account has a group as soon as nothing is in flight, however    *)
(* many registrations and joins overlap.                                   *)
THEOREM AccountsHaveGroups == ASSUME ~Faults PROVE Spec => []NoAccountWithoutGroup
<1>1. Init => AccountsHomed
    BY DEF Init, TablesInit, AccountsHomed
<1>2. Consistent /\ AccountsHomed /\ [Next]_vars => AccountsHomed'
    BY HomedStep
<1>3. AccountsHomed => NoAccountWithoutGroup
  <2>1. Quiet => \A r \in Req : ~At(r, "reg_join")
      BY DEF Quiet, At, Idle
  <2> QED
      BY <2>1 DEF AccountsHomed, Homed, NoAccountWithoutGroup
<1> QED
    BY <1>1, <1>2, <1>3, CircleIsConsistent, PTL DEF Spec

(* Wherever registrations are cut off and however they overlap with other  *)
(* ways into a group, no invited account without a group is ever verified. *)
THEOREM VerifiedAreGrouped == Spec => []VerifiedHaveGroup
<1>1. Init => TokensGrouped
    BY DEF Init, TablesInit, TokensGrouped, PastJoin, Idle
<1>2. Consistent /\ TokensGrouped /\ [Next]_vars => TokensGrouped'
    BY TokensGroupedStep
<1>3. Consistent /\ TokensGrouped => VerifiedHaveGroup
    BY DEF TokensGrouped, Grouped, VerifiedHaveGroup, Consistent, TypeOK, AccountsType
<1> QED
    BY <1>1, <1>2, <1>3, CircleIsConsistent, PTL DEF Spec
=============================================================================
