----------------------------- MODULE RateLimiter -----------------------------
(***************************************************************************)
(* middleware.RateLimiter: a map from addresses to visitors behind a       *)
(* mutex.  A limiter (golang.org/x/time/rate) is made when its address is  *)
(* seen first, is used outside the mutex, and is dropped by a clean-up     *)
(* goroutine when its address has been idle.  One instance serves all      *)
(* limited routes.                                                         *)
(*                                                                         *)
(* The unit of time is the interval in which a limiter gains a token.      *)
(***************************************************************************)
EXTENDS Requests

CONSTANTS
    IdleAfter,  \* cleanup drops visitors idle for longer (10 minutes)
    MaxBurst    \* bound: the largest burst of the configurations

(* Limiters of one address that may be referred to at the same time: that  *)
(* of the map and those that requests still hold.                          *)
Gen == 0..Cardinality(Req)

ASSUME RateLimiterAssumption ==
    /\ MaxBurst \in Nat \ {0}
    /\ IdleAfter \in Nat
    /\ MaxBurst <= IdleAfter
    /\ None \notin Gen

VARIABLES
    perMin,    \* RateLimiter.perMin
    mu,        \* the request that holds the mutex, or None
    visitors,  \* visitors: the limiter of an address and how long ago it was seen
    tokens,    \* whole tokens of each limiter; limiters not in use are full
    now        \* history: changes when time passes

limiterVars == <<perMin, mu, visitors, tokens, now>>

NoVisitor == [lim |-> None, age |-> 0]

BurstOf(n) == IF n \div 4 < 1 THEN 1 ELSE n \div 4

LimiterInit(n) ==
    /\ perMin = n
    /\ mu = None
    /\ visitors = [a \in Addr |-> NoVisitor]
    /\ tokens = [a \in Addr |-> [g \in Gen |-> BurstOf(n)]]
    /\ now = 0

(* The state of NewRateLimiter(n) in a new process.                        *)
NewRateLimiter(n) ==
    /\ perMin' = n
    /\ mu' = None
    /\ visitors' = [a \in Addr |-> NoVisitor]
    /\ tokens' = [a \in Addr |-> [g \in Gen |-> BurstOf(n)]]
    /\ UNCHANGED now
-----------------------------------------------------------------------------
Lock(r) ==
    /\ At(r, "lock")
    /\ mu = None
    /\ mu' = r
    /\ Forward(r)
    /\ UNCHANGED <<perMin, visitors, tokens, now>>

(* A limiter no request holds any more.                                    *)
Unused(a) ==
    CHOOSE g \in Gen : \A r \in Req : ~(req[r].addr = a /\ req[r].lim = g)

Hand(r, g) == req' = [req EXCEPT ![r] = [Advanced(@) EXCEPT !.lim = g]]

Known(r) == LET a == req[r].addr IN
    /\ visitors[a] # NoVisitor
    /\ visitors' = [visitors EXCEPT ![a].age = 0]
    /\ Hand(r, visitors[a].lim)
    /\ UNCHANGED tokens

(* The interval is a minute divided by perMin.                             *)
DivisionPanics(r) ==
    /\ visitors[req[r].addr] = NoVisitor
    /\ perMin = 0
    /\ Abort(r)
    /\ UNCHANGED <<visitors, tokens>>

Make(r, burst) == LET a == req[r].addr
                      g == Unused(a) IN
    /\ visitors[a] = NoVisitor
    /\ perMin # 0
    /\ visitors' = [visitors EXCEPT ![a] = [lim |-> g, age |-> 0]]
    /\ tokens' = [tokens EXCEPT ![a][g] = burst]
    /\ Hand(r, g)

(* Faulty variants: the mutex is not released by a deferred call; a bucket *)
(* holds the requests of a whole minute.                                   *)
limiterForNoDefer(r) ==
    /\ At(r, "lookup")
    /\ \/ (Known(r) \/ Make(r, BurstOf(perMin))) /\ mu' = None
       \/ DivisionPanics(r) /\ UNCHANGED mu
    /\ UNCHANGED <<perMin, now>>

limiterForMinute(r) ==
    /\ At(r, "lookup")
    /\ Known(r) \/ DivisionPanics(r) \/ Make(r, perMin)
    /\ mu' = None
    /\ UNCHANGED <<perMin, now>>

(* The rest of limiterFor.  After a panic the deferred Unlock runs and     *)
(* Recovery answers.                                                       *)
limiterFor(r) ==
    /\ At(r, "lookup")
    /\ Known(r) \/ DivisionPanics(r) \/ Make(r, BurstOf(perMin))
    /\ mu' = None
    /\ UNCHANGED <<perMin, now>>

(* rate.Limiter.Allow on the limiter the request holds.  rate.Every of a   *)
(* negative interval is Inf, which allows everything.                      *)
Allow(r) ==
    LET a == req[r].addr
        g == req[r].lim
    IN  /\ At(r, "allow")
        /\ \/ /\ perMin < 0
              /\ req' = [req EXCEPT ![r] = [Advanced(@) EXCEPT !.lim = None]]
              /\ UNCHANGED tokens
           \/ /\ perMin >= 0
              /\ tokens[a][g] > 0
              /\ tokens' = [tokens EXCEPT ![a][g] = @ - 1]
              /\ req' = [req EXCEPT ![r] = [Advanced(@) EXCEPT !.lim = None]]
           \/ /\ perMin >= 0
              /\ tokens[a][g] = 0
              /\ Abort(r)                               \* 429
              /\ UNCHANGED tokens
        /\ UNCHANGED <<perMin, mu, visitors, now>>

(* Faulty variant: idle for a moment is idle for too long.                 *)
IdleAtAll(a) == visitors[a].age > 0

IdleTooLong(a) == visitors[a].age > IdleAfter

(* One round of cleanup, all of it under the mutex.  Its three minutes of  *)
(* sleep are left open: a round may come at any time.                      *)
Sweep ==
    /\ mu = None
    /\ \E a \in Addr : IdleTooLong(a)
    /\ visitors' = [a \in Addr |-> IF IdleTooLong(a) THEN NoVisitor ELSE visitors[a]]
    /\ UNCHANGED <<perMin, mu, tokens, now, req>>

(* One unit of time: limiters gain a token, visitors grow older.           *)
LimiterTick ==
    /\ tokens' = [a \in Addr |-> [g \in Gen |->
          IF tokens[a][g] < BurstOf(perMin) THEN tokens[a][g] + 1 ELSE tokens[a][g]]]
    /\ visitors' = [a \in Addr |->
          IF visitors[a] = NoVisitor \/ IdleTooLong(a) THEN visitors[a]
          ELSE [visitors[a] EXCEPT !.age = @ + 1]]
    /\ now' = 1 - now
    /\ UNCHANGED <<perMin, mu>>
-----------------------------------------------------------------------------
LimiterType ==
    /\ perMin \in Int
    /\ BurstOf(perMin) <= MaxBurst
    /\ mu \in Req \cup {None}
    /\ visitors \in [Addr -> [lim : Gen \cup {None}, age : 0..(IdleAfter + 1)]]
    /\ tokens \in [Addr -> [Gen -> 0..BurstOf(perMin)]]
    /\ now \in 0..1

(* The bucket of an address: that of its visitor, or a full one.           *)
TokensOf(a) ==
    IF visitors[a] = NoVisitor THEN BurstOf(perMin) ELSE tokens[a][visitors[a].lim]

(* The limiter has let the request in and it is still being handled.       *)
LetIn(r) == r \in Busy /\ \E k \in 1..(req[r].at - 1) :
                Chain[req[r].route][k] = "allow"
=============================================================================
