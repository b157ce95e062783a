---------------------------- MODULE MCDominators ----------------------------
(***************************************************************************)
(* Dominators on every flow graph of four blocks in which nothing branches *)
(* to the entry block, unreachable blocks and irreducible loops included.  *)
(***************************************************************************)
EXTENDS Dominators

MCGraphs == [0..3 -> SUBSET (1..3)]
============================================================================
