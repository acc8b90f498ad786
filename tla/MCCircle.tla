------------------------------ MODULE MCCircle ------------------------------
(* Circle on small sets of model values.                                   *)
EXTENDS Circle, TLC

(* All people an invitation cannot be bound to are alike.                  *)
Symmetric == Permutations(User \ Addresses) \cup Permutations(Group)
                \cup Permutations(Invite) \cup Permutations(Req)
=============================================================================
