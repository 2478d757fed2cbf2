------------------------- MODULE MCScanInvocation -------------------------
(* ScanInvocation on a tree of two build variants, and on an unsplit tree    *)
(* (vw).  The rule s hides a finding of t1; p and q name one baseline.       *)
EXTENDS ScanInvocation, TLC

CONSTANTS va, vb, vw, t1, t2, s, p, q, scan1, scan2

Part(tree, rules) == [tree |-> tree, rules |-> rules]

MCPolicies == {{s}, {s, p}, {s, q}}
MCMatches == {<<t1, s>>, <<t2, p>>, <<t2, q>>}
MCPlans ==
    { va :> Part(t1, {s}) @@ vb :> Part(t2, {s, p}),
      va :> Part(t2, {s}) @@ vb :> Part(t2, {s, q}),
      vw :> Part(t1, {s}) }

ProcSymmetry == Permutations(Procs)

=============================================================================
