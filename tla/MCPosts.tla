------------------------------ MODULE MCPosts ------------------------------
(* Symmetry for runs of Posts that check no liveness.                      *)
EXTENDS Posts, TLC

Symmetric ==
    Permutations(User) \cup Permutations(Group) \cup Permutations(Req)
        \cup Permutations(Meant) \cup Permutations(Kind)

(* limit=0 and limit=3 fall back to the default; before=-1 to the start.   *)
MCLimits  == {0, 1, 3}
MCCursors == {-1, 3}
=============================================================================
