--------------------------------- MODULE MCDesk ---------------------------------
(* Two commands at a time on a machine: threads with a reply, an account that   *)
(* has one page more than the cap, pushes of one to three chunks.               *)
EXTENDS Desk, TLC

CONSTANTS p1, p2

MCProcs == {p1, p2}
MCComments ==
  {[kind |-> "review", id |-> 1, parent |-> 0], [kind |-> "review", id |-> 2, parent |-> 1],
   [kind |-> "question", id |-> 1, parent |-> 0]}
MCSymmetry == Permutations(MCProcs)

=============================================================================
