---------------------------- MODULE GroupService ----------------------------
(***************************************************************************)
(* groups.Service: CreateGroup, CreateInvite and AcceptInvite, one action  *)
(* per repository call.  The routes are behind RequireAuth, so the caller  *)
(* is a logged-in account.                                                 *)
(***************************************************************************)
EXTENDS Tables

CONSTANT Addresses  \* what an invitation may be restricted to; None: to nobody

ASSUME GroupAssumption == Addresses \subseteq User \cup {None}

(* CreateGroup: the group row first, the owner's member row second.        *)
GroupInsert(r, u, g) ==
    /\ LoggedIn(u)
    /\ owner[g] = None
    /\ InsertGroup(g, u)
    /\ Begin(r, "own_join", u, None, g, None)
    /\ UNCHANGED <<accountVars, inviteVars>>

GroupOwnerJoin(r) ==
    /\ At(r, "own_join")
    /\ InsertMember(req[r].group, req[r].user, None)
    /\ Return(r)
    /\ UNCHANGED <<accountVars, inviteVars>>
-----------------------------------------------------------------------------
(* Bound: no more invitations are begun than ids are left.                 *)
IdsLeft == Cardinality({r \in Req : At(r, "inv_insert")})
             < Cardinality({i \in Invite : ~Issued(i)})

(* Faulty variant: anybody logged in may invite into any group.            *)
InviteRoleUnchecked(r, u, g, e) ==
    /\ IdsLeft
    /\ LoggedIn(u)
    /\ owner[g] # None
    /\ Begin(r, "inv_insert", u, None, g, e)
    /\ UNCHANGED <<accountVars, groupVars, inviteVars>>

(* CreateInvite: only a member passes the MemberRole test; anyone else is  *)
(* answered with ErrNotMember and changes nothing.                         *)
InviteRole(r, u, g, e) ==
    /\ IdsLeft
    /\ LoggedIn(u)
    /\ HasRole(g, u)
    /\ Begin(r, "inv_insert", u, None, g, e)
    /\ UNCHANGED <<accountVars, groupVars, inviteVars>>

(* CreateInvitation with a fresh token, which only this answer carries: an *)
(* insert whose answer is lost leaves a row nobody can use, like no row.   *)
InviteInsert(r, i) ==
    /\ At(r, "inv_insert")
    /\ ~Issued(i)
    /\ InsertInvite(i, req[r].group, req[r].user, req[r].email)
    /\ Return(r)
    /\ UNCHANGED <<accountVars, groupVars>>
-----------------------------------------------------------------------------
(* AcceptInvite by a logged-in account.  Its invitationUsable looks at     *)
(* status and deadline only, not at the address of the invitation.         *)
AcceptRead(r, u, i) ==
    /\ LoggedIn(u)
    /\ Issued(i)
    /\ Usable(i)
    /\ Begin(r, "acc_role", u, i, invites[i].group, None)
    /\ UNCHANGED <<accountVars, groupVars, inviteVars>>

(* MemberRole *)
AcceptRole(r) ==
    /\ At(r, "acc_role")
    /\ IF HasRole(req[r].group, req[r].user)
       THEN Return(r)                                   \* ErrAlreadyMember
       ELSE Goto(r, "acc_room")
    /\ UNCHANGED <<accountVars, groupVars, inviteVars>>

(* Faulty variant: the invitation is marked before the member is added.    *)
AcceptRoomMarks(r) ==
    /\ At(r, "acc_room")
    /\ \/ /\ HasCapacity(req[r].group)
          /\ AcceptInvitation(req[r].invite)
          /\ Goto(r, "acc_join")
       \/ /\ ~HasCapacity(req[r].group)
          /\ Return(r)
          /\ UNCHANGED inviteVars
    /\ UNCHANGED <<accountVars, groupVars>>

(* GetGroup (immutable columns) and CountMembers *)
AcceptRoom(r) ==
    /\ At(r, "acc_room")
    /\ IF HasCapacity(req[r].group)
       THEN Goto(r, "acc_join")
       ELSE Return(r)                                   \* ErrGroupFull
    /\ UNCHANGED <<accountVars, groupVars, inviteVars>>

(* Faulty variant: the member itself is stored as its inviter.             *)
AcceptJoinSelf(r) ==
    LET u == req[r].user
        g == req[r].group
        i == req[r].invite
    IN  /\ At(r, "acc_join")
        /\ u \notin members[g]
        /\ InsertMember(g, u, u)
        /\ NoteJoin(i, u)
        /\ Goto(r, "acc_mark")
        /\ UNCHANGED accountVars

(* AddMember; a second insert of the same member violates the primary key. *)
AcceptJoin(r) ==
    LET u == req[r].user
        g == req[r].group
        i == req[r].invite
    IN  /\ At(r, "acc_join")
        /\ \/ /\ u \in members[g]
              /\ Return(r)
              /\ UNCHANGED <<groupVars, inviteVars>>
           \/ /\ u \notin members[g]
              /\ InsertMember(g, u, invites[i].inviter)
              /\ NoteJoin(i, u)
              /\ Goto(r, "acc_mark")
        /\ UNCHANGED accountVars

AcceptMark(r) ==
    /\ At(r, "acc_mark")
    /\ AcceptInvitation(req[r].invite)
    /\ Return(r)
    /\ UNCHANGED <<accountVars, groupVars>>

(* The seven days of inviteTTL are over.                                   *)
InviteExpires(i) ==
    /\ Usable(i)
    /\ invites' = [invites EXCEPT ![i].expired = TRUE]
    /\ UNCHANGED <<accountVars, groupVars, joinedBy, req>>

(* POST /v1/groups, POST /v1/groups/:id/invite and                         *)
(* POST /v1/invitations/:token/accept, by any account, for any group, and  *)
(* with any token that was issued.                                         *)
CreateGroup(r) ==
    \/ \E u \in User, g \in Group : GroupInsert(r, u, g)
    \/ GroupOwnerJoin(r)

CreateInvite(r) ==
    \/ \E u \in User, g \in Group, e \in Addresses : InviteRole(r, u, g, e)
    \/ \E i \in Invite : InviteInsert(r, i)

AcceptInvite(r) ==
    \/ \E u \in User, i \in Invite : AcceptRead(r, u, i)
    \/ AcceptRole(r) \/ AcceptRoom(r) \/ AcceptJoin(r) \/ AcceptMark(r)

GroupNext ==
    \/ \E r \in Req : CreateGroup(r) \/ CreateInvite(r) \/ AcceptInvite(r)
    \/ \E i \in Invite : InviteExpires(i)
=============================================================================
