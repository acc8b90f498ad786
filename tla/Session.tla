------------------------------- MODULE Session -------------------------------
(***************************************************************************)
(* Sessions: Login issues a JWT, RequireAuth accepts it until it expires   *)
(* and does not look at the account again.  Whether an account may log in  *)
(* (its status, and its verification where that is required) changes from  *)
(* outside: VerifyEmail, or an administrator who suspends it or lets it in *)
(* again.                                                                  *)
(***************************************************************************)
EXTENDS Requests

CONSTANT TTL  \* JWTManager.ttl

ASSUME SessionAssumption == TTL \in Nat

VARIABLES
    usable,  \* accounts whose row Login accepts
    left,    \* time until the newest token of an account expires, 0: none
    barred   \* history: time since an account was usable, TTL if longer

sessionVars == <<usable, left, barred>>

SessionInit ==
    /\ usable \in SUBSET User
    /\ left = [u \in User |-> 0]
    /\ barred = [u \in User |-> IF u \in usable THEN 0 ELSE TTL]

(* users.status becomes 'active', or the address is verified.              *)
Admit(u) ==
    /\ u \notin usable
    /\ usable' = usable \cup {u}
    /\ barred' = [barred EXCEPT ![u] = 0]
    /\ UNCHANGED <<left, req>>

(* users.status becomes 'suspended' or 'banned'.                           *)
Suspend(u) ==
    /\ u \in usable
    /\ usable' = usable \ {u}
    /\ UNCHANGED <<left, barred, req>>
-----------------------------------------------------------------------------
(* JWTManager.Parse of the newest token of u.  Older ones expire earlier.  *)
Parse(u) == left[u] > 0

RequireAuth(r) ==
    /\ At(r, "auth")
    /\ IF Parse(req[r].user) THEN Forward(r) ELSE Abort(r)      \* 401
    /\ UNCHANGED sessionVars

(* Login's GetUserByEmail: the row is kept and not read again.             *)
GetUserByEmail(r) ==
    /\ At(r, "query")
    /\ req[r].route = "login"
    /\ req' = [req EXCEPT ![r] =
          [Advanced(@) EXCEPT !.usable = req[r].user \in usable]]
    /\ UNCHANGED sessionVars

(* Faulty variant: users.status is not looked at.                          *)
LoginAnyStatus(r) ==
    /\ At(r, "issue")
    /\ \/ left' = [left EXCEPT ![req[r].user] = TTL]
       \/ UNCHANGED left
    /\ Forward(r)
    /\ UNCHANGED <<usable, barred>>

(* The rest of Login: the password, the status and the verification of the *)
(* row that was read, then Issue.  A wrong password is the second case.    *)
Login(r) ==
    /\ At(r, "issue")
    /\ \/ /\ req[r].usable
          /\ left' = [left EXCEPT ![req[r].user] = TTL]
       \/ UNCHANGED left
    /\ Forward(r)
    /\ UNCHANGED <<usable, barred>>

SessionTick ==
    /\ left' = [u \in User |-> IF left[u] > 0 THEN left[u] - 1 ELSE 0]
    /\ barred' = [u \in User |->
          IF u \in usable \/ barred[u] = TTL THEN barred[u] ELSE barred[u] + 1]
    /\ UNCHANGED usable
-----------------------------------------------------------------------------
SessionType ==
    /\ usable \subseteq User
    /\ left \in [User -> 0..TTL]
    /\ barred \in [User -> 0..TTL]

(* A suspension locks an account out for good once a token lifetime has    *)
(* passed, although RequireAuth never looks at the account and Login       *)
(* decides on a row it has read before: whoever passes RequireAuth was     *)
(* usable less than TTL ago.                                               *)
SuspensionBites == [][
    \A r \in Req : (At(r, "auth") /\ req'[r].at > req[r].at)
        => barred[req[r].user] < TTL
    ]_<<req, sessionVars>>
=============================================================================
