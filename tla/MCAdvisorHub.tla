----------------------------- MODULE MCAdvisorHub -----------------------------
(* AdvisorHub with two runs that may overlap, over two weeks.                *)
EXTENDS AdvisorHub, TLC

CONSTANTS p1, p2

MCProcs == {p1, p2}

Interchangeable == Permutations(MCProcs)

=============================================================================
