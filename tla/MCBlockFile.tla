---------------------------- MODULE MCBlockFile ----------------------------
(* Model checking BlockFile: what the stack may hold, a number before the  *)
(* file, a block, and numbers past the end and out of reach.               *)
EXTENDS BlockFile

MCLeftovers == {-3, 2, N + 1, Reach + 1}
=============================================================================
