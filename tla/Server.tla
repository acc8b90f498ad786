------------------------------- MODULE Server -------------------------------
(***************************************************************************)
(* The server process: main from config.Load to the end of the process,    *)
(* and the requests it serves, each going through its chain of rate        *)
(* limiter, RequireAuth and handler, on one pool of database connections.  *)
(* Buckets live as long as the process; tokens and accounts outlive it.    *)
(***************************************************************************)
EXTENDS RateLimiter, Session

CONSTANTS
    Environment,       \* what the environment may hold when a process starts
    DefaultPerMinute,  \* default of RATE_LIMIT_PER_MINUTE (20)
    MaxConns,          \* connections of the pool (10)
    Drain              \* time Shutdown is given (10 seconds)

ASSUME ServerAssumption ==
    /\ Environment \subseteq [secret : Nat, rateLimit : Int \cup {None}]
    /\ None \notin Int
    /\ DefaultPerMinute \in Int
    /\ MaxConns \in Nat \ {0}
    /\ Drain \in Nat

VARIABLES
    main,     \* where main is
    drainFor  \* time left to Shutdown

serverVars == <<main, drainFor>>
vars == <<req, limiterVars, sessionVars, serverVars>>

Serving == main \in {"serve", "signal"}

(* getInt: a variable that is unset or no number (None) gives the default; *)
(* every number is taken, also 0 and negative ones.                        *)
getInt(v, def) == IF v = None THEN def ELSE v

(* config.Load refuses a secret of less than 16 characters.                *)
ValidSecret(e) == e.secret >= 16

RateLimitPerMinute(e) == getInt(e.rateLimit, DefaultPerMinute)

ASSUME BurstAssumption ==
    /\ BurstOf(DefaultPerMinute) <= MaxBurst
    /\ \A e \in Environment : BurstOf(RateLimitPerMinute(e)) <= MaxBurst

(* A connection of the pool is free.                                       *)
ConnFree == Cardinality({r \in Req : At(r, "query")}) < MaxConns

Init ==
    /\ req = [r \in Req |-> Idle]
    /\ LimiterInit(DefaultPerMinute)
    /\ SessionInit
    /\ main = "down"
    /\ drainFor = 0
-----------------------------------------------------------------------------
(* main: Load, Connect, NewRouter, ListenAndServe.  Where one of the first *)
(* three fails, log.Fatalf leaves everything as it was.                    *)
Start(e) ==
    /\ main = "down"
    /\ ValidSecret(e)
    /\ NewRateLimiter(RateLimitPerMinute(e))
    /\ main' = "serve"
    /\ UNCHANGED <<req, sessionVars, drainFor>>

(* SIGINT or SIGTERM: ctx is done.                                         *)
Signal ==
    /\ main = "serve"
    /\ main' = "signal"
    /\ UNCHANGED <<req, limiterVars, sessionVars, drainFor>>

(* srv.Shutdown: no new requests; its context ends after Drain.            *)
Shutdown ==
    /\ main = "signal"
    /\ main' = "drain"
    /\ drainFor' = Drain
    /\ UNCHANGED <<req, limiterVars, sessionVars>>

(* Faulty variant: Shutdown is given a context without a deadline.         *)
DrainedNoDeadline ==
    /\ main = "drain"
    /\ Busy = {}
    /\ main' = "close"
    /\ UNCHANGED <<req, limiterVars, sessionVars, drainFor>>

(* Shutdown returns, without or with an error, and the deferred pool.Close *)
(* begins: no connection is handed out any more.                           *)
Drained ==
    /\ main = "drain"
    /\ Busy = {} \/ drainFor = 0
    /\ main' = "close"
    /\ UNCHANGED <<req, limiterVars, sessionVars, drainFor>>

(* The process is gone, and with it its requests and buckets.              *)
Gone ==
    /\ main' = "down"
    /\ drainFor' = 0
    /\ req' = [r \in Req |-> Idle]
    /\ NewRateLimiter(perMin)
    /\ UNCHANGED sessionVars

(* pool.Close has got all connections back, and main returns.              *)
Exit ==
    /\ main = "close"
    /\ \A r \in Req : ~At(r, "query")
    /\ Gone

(* A crash, or log.Fatalf because ListenAndServe has failed.               *)
Crash ==
    /\ main # "down"
    /\ Gone
-----------------------------------------------------------------------------
(* A client of address a calls a route: as account u with its newest       *)
(* token, or to log in as u.                                               *)
Begin(r, route, a, u) ==
    /\ Serving
    /\ req[r] = Idle
    /\ req' = [req EXCEPT ![r] = [route |-> route, at |-> 1, addr |-> a, user |-> u,
                                  lim |-> None, usable |-> FALSE]]
    /\ UNCHANGED <<limiterVars, sessionVars, serverVars>>

(* ShouldBindJSON returns when the client has sent its body.  The server   *)
(* sets no deadline for that.                                              *)
Body(r) ==
    /\ At(r, "body")
    /\ Forward(r)
    /\ UNCHANGED <<limiterVars, sessionVars, serverVars>>

(* The pool hands out a connection, or an error once it is closed.         *)
Acquire(r) ==
    /\ At(r, "conn")
    /\ IF main = "close"
       THEN Abort(r)
       ELSE ConnFree /\ Forward(r)
    /\ UNCHANGED <<limiterVars, sessionVars, serverVars>>

(* A statement ends and its connection is given back.                      *)
Query(r) ==
    /\ \/ GetUserByEmail(r)
       \/ /\ At(r, "query")
          /\ req[r].route # "login"
          /\ Forward(r)
          /\ UNCHANGED sessionVars
    /\ UNCHANGED <<limiterVars, serverVars>>

(* Where a handler waits, its client may go away, its body may be no JSON, *)
(* and the database may fail: the handler answers with an error.           *)
Fails(r) ==
    /\ At(r, "body") \/ At(r, "conn") \/ At(r, "query")
    /\ Abort(r)
    /\ UNCHANGED <<limiterVars, sessionVars, serverVars>>

Limit(r) ==
    /\ Lock(r) \/ limiterFor(r) \/ Allow(r)
    /\ UNCHANGED <<sessionVars, serverVars>>

Authenticate(r) ==
    /\ RequireAuth(r) \/ Login(r)
    /\ UNCHANGED <<limiterVars, serverVars>>

(* Time passes only while every request waits: what is done in memory      *)
(* takes no time against seconds, minutes and hours.                       *)
Tick ==
    /\ main # "down"
    /\ \A r \in Req, p \in Prompt : ~At(r, p)
    /\ LimiterTick
    /\ SessionTick
    /\ drainFor' = IF drainFor > 0 THEN drainFor - 1 ELSE 0
    /\ UNCHANGED <<req, main>>

Handle(r) ==
    \/ Limit(r) \/ Authenticate(r)
    \/ Body(r) \/ Acquire(r) \/ Query(r) \/ Fails(r)

Next ==
    \/ \E e \in Environment : Start(e)
    \/ Signal \/ Shutdown \/ Drained \/ Exit \/ Crash
    \/ \E r \in Req :
          \/ \E route \in Route, a \in Addr, u \in User : Begin(r, route, a, u)
          \/ Handle(r)
    \/ Sweep /\ UNCHANGED <<sessionVars, serverVars>>
    \/ \E u \in User : (Admit(u) \/ Suspend(u)) /\ UNCHANGED <<limiterVars, serverVars>>
    \/ Tick

Spec == Init /\ [][Next]_vars

(* The runtime schedules main and the handlers, a mutex and the pool serve *)
(* those who wait in turn, statements end, and time passes.  Nothing is    *)
(* assumed of clients: neither that they send their bodies nor that they   *)
(* go away.                                                                *)
Fairness ==
    /\ WF_vars(Shutdown) /\ WF_vars(Drained) /\ WF_vars(Exit) /\ WF_vars(Tick)
    /\ \A r \in Req :
          /\ SF_vars(Limit(r)) /\ SF_vars(Acquire(r))
          /\ WF_vars(Authenticate(r)) /\ WF_vars(Query(r))

FairSpec == Spec /\ Fairness
-----------------------------------------------------------------------------
Request ==
    [route : Route, at : 1..9, addr : Addr, user : User,
     lim : Gen \cup {None}, usable : BOOLEAN]

TypeOK ==
    /\ req \in [Req -> Request \cup {Idle}]
    /\ \A r \in Busy : req[r].at <= Len(Chain[req[r].route])
    /\ LimiterType
    /\ SessionType
    /\ main \in {"down", "serve", "signal", "drain", "close"}
    /\ drainFor \in 0..Drain

Promised == INSTANCE Bucket WITH
    up     <- main # "down",
    tokens <- [a \in Addr |-> TokensOf(a)],
    inside <- [r \in Req |-> IF LetIn(r) THEN req[r].addr ELSE None]

(* Limiters made late and dropped early, used outside the mutex and shared *)
(* by all limited routes still amount to one bucket per address: while the *)
(* process lives a client wins no token by going idle or by requests that  *)
(* overlap, only by the passing of time, and never one of another address. *)
LimiterIsBucket == Promised!Spec

(* main returns after a signal although a client may never send its body   *)
(* and the server sets no deadline for that.                               *)
MainReturns == main = "signal" ~> main = "down"

InServer(r) == r \in Busy /\ ~At(r, "body")

(* No request stays in the server for ever, neither behind the limiter's   *)
(* mutex (also when limiterFor panics because the limit is 0) nor for want *)
(* of a connection: it is answered or waits for its client.                *)
Answered == \A r \in Req : InServer(r) ~> ~InServer(r)
=============================================================================
