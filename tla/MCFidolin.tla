----------------------------- MODULE MCFidolin -----------------------------
(* Fidolin with two posts; scores and thresholds are thousandths.          *)
EXTENDS Fidolin, TLC

MCPost     == 1..2
MCDefaults == [auto |-> 850, handoff |-> 600]
MCStrict   == [auto |-> 850, handoff |-> 300]

OnlyDefaults == {MCDefaults}
TwoRows      == {MCDefaults, MCStrict}
OnlyStrict   == {MCStrict}

OneListed == Heuristic({1})

(* An analyzer that repeats itself: one post is harmless, and analysing    *)
(* the other one always fails.                                             *)
Repeatable == (1 :> {50}) @@ (2 :> {None})

(* Any analyzer behind the interface: harmless, just below a threshold of  *)
(* the Defaults and stored as equal to it, bad, or an error.               *)
AnyAnalyzer == [p \in MCPost |-> {50, 596, 950, None}]

Symmetric == Permutations(Instance) \cup Permutations(Worker)
=============================================================================
