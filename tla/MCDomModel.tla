----------------------------- MODULE MCDomModel -----------------------------
(* Model checking of DomModel on a parent with at most four children.       *)
EXTENDS DomModel, TLC

CONSTANTS n1, n2, n3, n4, n5, h1, h2

MCNode   == {n1, n2, n3, n4, n5}
MCHolder == {h1, h2}

(* Nodes and holders are interchangeable.                                   *)
MCSymmetry == Permutations(MCNode) \cup Permutations(MCHolder)

=============================================================================
