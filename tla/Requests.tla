------------------------------ MODULE Requests ------------------------------
(***************************************************************************)
(* Requests on their way through the router: the chain of middlewares and  *)
(* handlers that httpx.NewRouter puts behind a route, and the places where *)
(* a handler waits.                                                        *)
(***************************************************************************)
EXTENDS Integers, Sequences, FiniteSets

CONSTANTS
    Addr,  \* client addresses
    User,  \* accounts
    Req,   \* slots for requests being handled at the same time
    None   \* Go nil

ASSUME RequestsAssumption ==
    /\ IsFiniteSet(Req)
    /\ None \notin Addr \cup User \cup Req

VARIABLE req   \* per slot: route, place in its chain, and locals

(* login: POST /auth/*, limited and open; read: the GET routes, with a     *)
(* token; write: the other routes, with a token, then limited.  "lock",    *)
(* "lookup" and "allow" are the limiter, "body" is ShouldBindJSON, "conn"  *)
(* and "query" are one statement.  Handlers of all three kinds may have    *)
(* several statements (Register and VerifyEmail, Feed and GetGroup, most   *)
(* writes): the second one of write, which asks for a connection again,    *)
(* stands for all that follow the first, in each kind.                     *)
Chain ==
    [login |-> <<"lock", "lookup", "allow", "body", "conn", "query", "issue">>,
     read  |-> <<"auth", "conn", "query">>,
     write |-> <<"auth", "lock", "lookup", "allow", "body",
                 "conn", "query", "conn", "query">>]

Route == DOMAIN Chain

(* lim: the limiter limiterFor has returned; usable: what Login has read.  *)
Idle == [route |-> None, at |-> 0, addr |-> None, user |-> None,
         lim |-> None, usable |-> FALSE]

Busy == {r \in Req : req[r] # Idle}

At(r, place) == r \in Busy /\ Chain[req[r].route][req[r].at] = place

(* Places a request leaves without waiting for a client, the database or a *)
(* clock.                                                                  *)
Prompt == {"auth", "lock", "lookup", "allow", "issue"}

(* The request after c.Next(), or after the answer of the last handler.    *)
Advanced(q) == IF q.at = Len(Chain[q.route]) THEN Idle ELSE [q EXCEPT !.at = @ + 1]

Forward(r) == req' = [req EXCEPT ![r] = Advanced(@)]

(* AbortWithStatusJSON, an error answer, or a panic that Recovery turns    *)
(* into an answer.                                                         *)
Abort(r) == req' = [req EXCEPT ![r] = Idle]
=============================================================================
