-------------------------- MODULE MCSnapshotStore --------------------------
(* SnapshotStore under an arbitrary caller: two trees, one ordinary rule and *)
(* one rule of scope "baseline", two run rows, one clock step of grace.      *)
EXTENDS SnapshotStore, TLC

CONSTANTS v1, t1, t2, s1, s2

MCPolicies == {{}, {s1}, {s1, s2}}

TreeSymmetry == Permutations(Trees)

=============================================================================
