------------------------------ MODULE MCServer ------------------------------
(* Server in an environment that limits to 8 requests a minute (a burst of *)
(* 2, a token every 7.5 seconds), to none, or not at all.                  *)
EXTENDS Server, TLC

MCEnvironment ==
    {[secret |-> 16, rateLimit |-> None],
     [secret |-> 16, rateLimit |-> 0],
     [secret |-> 16, rateLimit |-> -1],
     [secret |-> 15, rateLimit |-> None]}

(* For runs that check no liveness.                                        *)
Symmetric == Permutations(Addr) \cup Permutations(Req)
=============================================================================
