------------------------------ MODULE Verdict ------------------------------
(***************************************************************************)
(* What moderation promises an author and the readers: a post waits unseen *)
(* until it is decided, it is decided once, and the decision stands.       *)
(***************************************************************************)
CONSTANTS Post, None

VARIABLES status,   \* what the feed and the moderators see
          decided   \* posts that are no longer waiting for Fidolin

verdictVars == <<status, decided>>

Init ==
    /\ status = [p \in Post |-> None]
    /\ decided = {}

Submit(p) ==
    /\ status[p] = None
    /\ status' = [status EXCEPT ![p] = "pending_review"]
    /\ UNCHANGED decided

Decide(p) ==
    /\ status[p] = "pending_review"
    /\ p \notin decided
    /\ \E s \in {"visible", "pending_review", "blocked"} :
          status' = [status EXCEPT ![p] = s]
    /\ decided' = decided \cup {p}

Next == \E p \in Post : Submit(p) \/ Decide(p)

Spec == Init /\ [][Next]_verdictVars
=============================================================================
