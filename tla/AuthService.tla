---------------------------- MODULE AuthService ----------------------------
(***************************************************************************)
(* auth.Service: Register and VerifyEmail, one action per repository call. *)
(* A request may be overtaken by any other request between two calls.      *)
(* What is read at one step and used at a later one (the invitation, the   *)
(* room in the group, the free address) may be stale by then.              *)
(***************************************************************************)
EXTENDS Tables

(* What the reads of auth.PgRepository answer: CountUsers, the rows that   *)
(* GetInvitationByToken finds for some token, and whether a handed out     *)
(* token still has the row GetEmailVerificationByToken looks for.          *)
NoUsers == accounts = {}

Stored == {i \in Invite : Issued(i)}

TokenStored(u) == u \in mailed /\ tokenRow[u] # "none"

(* Faulty variant: the number of users is not looked at.                   *)
RegisterCountIgnored(r, u) ==
    /\ \/ Begin(r, "reg_email", u, None, None, None)
       \/ \E i \in Stored : Begin(r, "reg_invite", u, i, None, None)
    /\ UNCHANGED <<accountVars, groupVars, inviteVars>>

(* CountUsers.  With no user at all the first account needs no invitation; *)
(* every other registration must bring one.  Input that fails validation,  *)
(* a missing token and an unknown token are answered without any change,   *)
(* so no step is needed for them.                                          *)
RegisterCount(r, u) ==
    /\ \/ /\ NoUsers
          /\ Begin(r, "reg_email", u, None, None, None)
       \/ /\ ~NoUsers
          /\ \E i \in Stored : Begin(r, "reg_invite", u, i, None, None)
    /\ UNCHANGED <<accountVars, groupVars, inviteVars>>

(* auth.Service.invitationUsable: the address restriction counts here.     *)
UsableFor(i, u) == Usable(i) /\ invites[i].email \in {None, u}

(* GetInvitationByToken.  The row is kept in the handler and not read      *)
(* again; its group, inviter and address never change.                     *)
RegisterInvite(r) ==
    /\ At(r, "reg_invite")
    /\ IF UsableFor(req[r].invite, req[r].user)
       THEN Goto(r, "reg_room")
       ELSE Return(r)                                   \* ErrInviteInvalid
    /\ UNCHANGED <<accountVars, groupVars, inviteVars>>

(* Faulty variant: the member row is inserted before the account exists.   *)
RegisterRoomThenJoin(r) ==
    /\ At(r, "reg_room")
    /\ IF HasCapacity(invites[req[r].invite].group)
       THEN Goto(r, "reg_join")
       ELSE Return(r)
    /\ UNCHANGED <<accountVars, groupVars, inviteVars>>

(* joiner.HasCapacity: GetGroup (immutable columns) and CountMembers.      *)
RegisterRoom(r) ==
    /\ At(r, "reg_room")
    /\ IF HasCapacity(invites[req[r].invite].group)
       THEN Goto(r, "reg_email")
       ELSE Return(r)                                   \* ErrGroupFull
    /\ UNCHANGED <<accountVars, groupVars, inviteVars>>

(* GetUserByEmail *)
RegisterEmail(r) ==
    /\ At(r, "reg_email")
    /\ IF req[r].user \notin accounts
       THEN Goto(r, "reg_user")
       ELSE Return(r)                                   \* ErrEmailTaken
    /\ UNCHANGED <<accountVars, groupVars, inviteVars>>

(* Faulty variant: the wrong column of the invitation.                     *)
InviterIsGroup(i) == IF i = None THEN None ELSE invites[i].group

Inviter(i) == IF i = None THEN None ELSE invites[i].inviter

(* Faulty variant: the insert overwrites an existing row.                  *)
RegisterUserUpsert(r) ==
    LET u == req[r].user
        i == req[r].invite
    IN  /\ At(r, "reg_user")
        /\ InsertUser(u, Inviter(i))
        /\ Goto(r, IF i = None THEN "reg_token" ELSE "reg_join")
        /\ UNCHANGED <<groupVars, inviteVars>>

(* CreateUser.  users.email is UNIQUE: the loser of a race gets an error.  *)
RegisterUser(r) ==
    LET u == req[r].user
        i == req[r].invite
    IN  /\ At(r, "reg_user")
        /\ \/ /\ u \in accounts
              /\ Return(r)
              /\ UNCHANGED accountVars
           \/ /\ u \notin accounts
              /\ InsertUser(u, Inviter(i))
              /\ Goto(r, IF i = None THEN "reg_token" ELSE "reg_join")
        /\ UNCHANGED <<groupVars, inviteVars>>

(* Faulty variant: a registration goes on when AddMember has failed.       *)
RegisterJoinAnyway(r) ==
    LET u == req[r].user
        i == req[r].invite
        g == invites[i].group
    IN  /\ At(r, "reg_join")
        /\ \/ /\ u \notin members[g]
              /\ InsertMember(g, u, invites[i].inviter)
              /\ NoteJoin(i, u)
              /\ Goto(r, "reg_accept")
           \/ /\ Goto(r, "reg_token")
              /\ UNCHANGED <<groupVars, inviteVars>>
        /\ UNCHANGED accountVars

(* joiner.AddMember.  The primary key (group, user) makes it fail when the *)
(* new account has already joined with a request of its own.               *)
RegisterJoin(r) ==
    LET u == req[r].user
        i == req[r].invite
        g == invites[i].group
    IN  /\ At(r, "reg_join")
        /\ \/ /\ u \in members[g]
              /\ Return(r)
              /\ UNCHANGED <<groupVars, inviteVars>>
           \/ /\ u \notin members[g]
              /\ InsertMember(g, u, invites[i].inviter)
              /\ NoteJoin(i, u)
              /\ Goto(r, "reg_accept")
        /\ UNCHANGED accountVars

RegisterAccept(r) ==
    /\ At(r, "reg_accept")
    /\ AcceptInvitation(req[r].invite)
    /\ Goto(r, "reg_token")
    /\ UNCHANGED <<accountVars, groupVars>>

RegisterToken(r) ==
    /\ At(r, "reg_token")
    /\ CreateEmailVerification(req[r].user)
    /\ Goto(r, "reg_answer")
    /\ UNCHANGED <<groupVars, inviteVars>>

(* 201 with the raw token.  The table keeps only its hash: whoever does    *)
(* not get this answer never learns the token.                             *)
RegisterAnswer(r) ==
    /\ At(r, "reg_answer")
    /\ mailed' = mailed \cup {req[r].user}
    /\ Return(r)
    /\ UNCHANGED <<accounts, invitedBy, verified, tokenRow, groupVars, inviteVars>>
-----------------------------------------------------------------------------
(* Faulty variant: the token is deleted before the address is marked.      *)
VerifyReadDeletes(r, u) ==
    /\ TokenStored(u)
    /\ tokenRow[u] # "expired"
    /\ Begin(r, "ver_mark", u, None, None, None)
    /\ DeleteEmailVerification(u)
    /\ UNCHANGED <<groupVars, inviteVars>>

(* VerifyEmail with the token u was handed.  An unknown or expired token   *)
(* is answered with ErrTokenInvalid and changes nothing.                   *)
VerifyRead(r, u) ==
    /\ TokenStored(u)
    /\ tokenRow[u] # "expired"
    /\ Begin(r, "ver_mark", u, None, None, None)
    /\ UNCHANGED <<accountVars, groupVars, inviteVars>>

VerifyMark(r) ==
    /\ At(r, "ver_mark")
    /\ MarkEmailVerified(req[r].user)
    /\ Goto(r, "ver_delete")
    /\ UNCHANGED <<groupVars, inviteVars>>

VerifyDelete(r) ==
    /\ At(r, "ver_delete")
    /\ DeleteEmailVerification(req[r].user)
    /\ Return(r)
    /\ UNCHANGED <<groupVars, inviteVars>>

(* emailVerificationTTL has passed since the row was written.              *)
TokenExpires(u) ==
    /\ tokenRow[u] = "live"
    /\ tokenRow' = [tokenRow EXCEPT ![u] = "expired"]
    /\ UNCHANGED <<accounts, invitedBy, verified, mailed, groupVars, inviteVars, req>>

(* POST /v1/auth/register and POST /v1/auth/verify-email                   *)
Register(r) ==
    \/ \E u \in User : RegisterCount(r, u)
    \/ RegisterInvite(r) \/ RegisterRoom(r) \/ RegisterEmail(r)
    \/ RegisterUser(r) \/ RegisterJoin(r) \/ RegisterAccept(r)
    \/ RegisterToken(r) \/ RegisterAnswer(r)

VerifyEmail(r) ==
    \/ \E u \in User : VerifyRead(r, u)
    \/ VerifyMark(r) \/ VerifyDelete(r)

AuthNext ==
    \/ \E r \in Req : Register(r) \/ VerifyEmail(r)
    \/ \E u \in User : TokenExpires(u)
=============================================================================
