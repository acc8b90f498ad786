------------------------------- MODULE Bucket -------------------------------
(***************************************************************************)
(* What the rate limiter promises: every address has one token bucket for  *)
(* as long as the process lives.  A request that is let in takes a token   *)
(* of its own address.  Nothing but the passing of time gives a token      *)
(* back, one per unit and never beyond the burst, and nothing but a new    *)
(* process fills a bucket.                                                 *)
(***************************************************************************)
EXTENDS Integers

CONSTANTS Addr, Req, None

VARIABLES up,      \* the process lives
          now,     \* changes with every unit of time
          perMin,  \* requests per minute; negative: no limit
          tokens,  \* tokens left, per address
          inside   \* the address of each request that was let in, or None

bucketVars == <<up, now, perMin, tokens, inside>>

BurstOf(n) == IF n \div 4 < 1 THEN 1 ELSE n \div 4

Full(n) == [a \in Addr |-> BurstOf(n)]

Init ==
    /\ up = FALSE
    /\ now = 0
    /\ perMin \in Int
    /\ tokens = Full(perMin)
    /\ inside = [r \in Req |-> None]

Enter(r, a) ==
    /\ up
    /\ inside[r] = None
    /\ perMin # 0
    /\ IF perMin < 0
       THEN UNCHANGED tokens
       ELSE /\ tokens[a] > 0
            /\ tokens' = [tokens EXCEPT ![a] = @ - 1]
    /\ inside' = [inside EXCEPT ![r] = a]
    /\ UNCHANGED <<up, now, perMin>>

Leave(r) ==
    /\ inside' = [inside EXCEPT ![r] = None]
    /\ UNCHANGED <<up, now, perMin, tokens>>

(* A unit of time passes.                                                  *)
Refill ==
    /\ up
    /\ now' = 1 - now
    /\ tokens' = [a \in Addr |->
          IF tokens[a] < BurstOf(perMin) THEN tokens[a] + 1 ELSE tokens[a]]
    /\ UNCHANGED <<up, perMin, inside>>

(* A process begins with full buckets and a limit of its own.              *)
Boot ==
    /\ ~up
    /\ up' = TRUE
    /\ perMin' \in Int
    /\ tokens' = Full(perMin')
    /\ UNCHANGED <<now, inside>>

(* The process ends, and with it its buckets and requests.                 *)
Die ==
    /\ up
    /\ up' = FALSE
    /\ tokens' = Full(perMin)
    /\ inside' = [r \in Req |-> None]
    /\ UNCHANGED <<now, perMin>>

Next ==
    \/ \E r \in Req : Leave(r) \/ \E a \in Addr : Enter(r, a)
    \/ Refill
    \/ Boot \/ Die

Spec == Init /\ [][Next]_bucketVars
=============================================================================
