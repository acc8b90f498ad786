------------------------------- MODULE Tables -------------------------------
(***************************************************************************)
(* The PostgreSQL tables behind the packages auth and groups, and the      *)
(* statements of their two repositories.  The repositories open no         *)
(* transaction: every call is one statement that commits on its own, so    *)
(* here every statement is atomic and handlers interleave between them.    *)
(*                                                                         *)
(* A person is named by the normalised e-mail address: users.email is      *)
(* UNIQUE, so an address has at most one account and can stand for it.     *)
(* Hashes, names, passwords and timestamps are left out; that a deadline   *)
(* has passed is one bit of the row.                                       *)
(***************************************************************************)
EXTENDS Naturals, FiniteSets

CONSTANTS
    User,        \* e-mail addresses that may register
    Group,       \* group ids the sequence may hand out
    Invite,      \* invitation ids the sequence may hand out
    Req,         \* slots for HTTP requests being handled at the same time
    MaxMembers,  \* groups.max_members (30 in the program)
    RequireEmailVerification,  \* config.RequireEmailVerification
    None         \* SQL NULL, Go nil

ASSUME TablesAssumption ==
    /\ IsFiniteSet(User)
    /\ IsFiniteSet(Req)
    /\ None \notin User \cup Group \cup Invite
    /\ MaxMembers \in Nat \ {0}
    /\ RequireEmailVerification \in BOOLEAN

VARIABLES
    accounts,   \* addresses with a row in users
    invitedBy,  \* users.invited_by
    verified,   \* addresses whose users.email_verified_at is set
    tokenRow,   \* the row of email_verifications an account has, if any
    mailed,     \* addresses that were handed their verification token
    owner,      \* groups.owner_id, None while the group has no row
    members,    \* group_members.user_id, per group
    sponsor,    \* group_members.invited_by, None for the owner's row
    invites,    \* the invitations table
    joinedBy,   \* history: whose member row was inserted on an invitation
    req         \* the requests being handled: program counter and locals

accountVars == <<accounts, invitedBy, verified, tokenRow, mailed>>
groupVars   == <<owner, members, sponsor>>
inviteVars  == <<invites, joinedBy>>
vars        == <<accountVars, groupVars, inviteVars, req>>
-----------------------------------------------------------------------------
NoRow == [status |-> "none", expired |-> FALSE,
          group |-> None, inviter |-> None, email |-> None]

InviteRow == [status  : {"none", "pending", "accepted"},
              expired : BOOLEAN,
              group   : Group \cup {None},
              inviter : User \cup {None},
              email   : User \cup {None}]

Issued(i) == i \in Invite /\ invites[i].status # "none"

(* The WHERE-free part of both invitationUsable functions.                 *)
Usable(i) == invites[i].status = "pending" /\ ~invites[i].expired

CountMembers(g) == Cardinality(members[g])

(* MemberRole finds a row.  The role itself is not looked at.              *)
HasRole(g, u) == u \in members[g]

(* Faulty variant: off by one.                                             *)
HasCapacityOffByOne(g) == CountMembers(g) <= MaxMembers

(* groups.Service.HasCapacity; AcceptInvite spells the same test out.      *)
HasCapacity(g) == CountMembers(g) < MaxMembers

(* Login answers with a JWT: nothing in the program ever changes           *)
(* users.status or removes an account or a verification, so who once could *)
(* log in can log in for ever, and a session is this predicate.            *)
LoggedIn(u) == u \in accounts /\ (RequireEmailVerification => u \in verified)
-----------------------------------------------------------------------------
(* auth.PgRepository *)

(* Faulty variant: the new account itself is stored as its inviter.        *)
InsertUserSelf(u, by) ==
    /\ accounts' = accounts \cup {u}
    /\ invitedBy' = [invitedBy EXCEPT ![u] = IF by = None THEN None ELSE u]
    /\ UNCHANGED <<verified, tokenRow, mailed>>

InsertUser(u, by) ==
    /\ accounts' = accounts \cup {u}
    /\ invitedBy' = [invitedBy EXCEPT ![u] = by]
    /\ UNCHANGED <<verified, tokenRow, mailed>>

CreateEmailVerification(u) ==
    /\ tokenRow' = [tokenRow EXCEPT ![u] = "live"]
    /\ UNCHANGED <<accounts, invitedBy, verified, mailed>>

MarkEmailVerified(u) ==
    /\ verified' = verified \cup {u}
    /\ UNCHANGED <<accounts, invitedBy, tokenRow, mailed>>

DeleteEmailVerification(u) ==
    /\ tokenRow' = [tokenRow EXCEPT ![u] = "none"]
    /\ UNCHANGED <<accounts, invitedBy, verified, mailed>>

(* groups.PgRepository *)

InsertGroup(g, u) ==
    /\ owner' = [owner EXCEPT ![g] = u]
    /\ UNCHANGED <<members, sponsor>>

InsertMember(g, u, by) ==
    /\ members' = [members EXCEPT ![g] = @ \cup {u}]
    /\ sponsor' = [sponsor EXCEPT ![g][u] = by]
    /\ UNCHANGED owner

InsertInvite(i, g, u, e) ==
    /\ invites' = [invites EXCEPT ![i] = [status |-> "pending", expired |-> FALSE,
                                          group |-> g, inviter |-> u, email |-> e]]
    /\ UNCHANGED joinedBy

(* The same unconditional UPDATE in both repositories.                     *)
AcceptInvitation(i) ==
    /\ invites' = [invites EXCEPT ![i].status = "accepted"]
    /\ UNCHANGED joinedBy

(* History: u became a member of the invitation's group through i.         *)
NoteJoin(i, u) ==
    /\ joinedBy' = [joinedBy EXCEPT ![i] = @ \cup {u}]
    /\ UNCHANGED invites
-----------------------------------------------------------------------------
(* A handler's program counter names the statement it runs next.           *)

RegisterPC == {"reg_invite", "reg_room", "reg_email", "reg_user", "reg_join",
               "reg_accept", "reg_token", "reg_answer"}
VerifyPC   == {"ver_mark", "ver_delete"}
GroupPC    == {"own_join", "inv_insert"}
AcceptPC   == {"acc_role", "acc_room", "acc_join", "acc_mark"}
PC == {"idle"} \cup RegisterPC \cup VerifyPC \cup GroupPC \cup AcceptPC

Idle == [pc |-> "idle", user |-> None, invite |-> None, group |-> None,
         email |-> None]

Request == [pc     : PC,
            user   : User \cup {None},
            invite : Invite \cup {None},
            group  : Group \cup {None},
            email  : User \cup {None}]

(* The route was called: the slot holds the handler's locals.              *)
Begin(r, pc, u, i, g, e) ==
    /\ req[r] = Idle
    /\ req' = [req EXCEPT ![r] = [pc |-> pc, user |-> u, invite |-> i,
                                  group |-> g, email |-> e]]

Goto(r, pc) == req' = [req EXCEPT ![r].pc = pc]

(* The handler returns, with a result or with an error.                    *)
Return(r) == req' = [req EXCEPT ![r] = Idle]

At(r, pc) == req[r].pc = pc

TablesInit ==
    /\ accounts = {}
    /\ invitedBy = [u \in User |-> None]
    /\ verified = {}
    /\ tokenRow = [u \in User |-> "none"]
    /\ mailed = {}
    /\ owner = [g \in Group |-> None]
    /\ members = [g \in Group |-> {}]
    /\ sponsor = [g \in Group |-> [u \in User |-> None]]
    /\ invites = [i \in Invite |-> NoRow]
    /\ joinedBy = [i \in Invite |-> {}]
    /\ req = [r \in Req |-> Idle]
=============================================================================
