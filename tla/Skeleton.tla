------------------------------ MODULE Skeleton ------------------------------
(***************************************************************************)
(* What the control-flow constructor hands to the function generator: for  *)
(* every block its terminator, an opcode and a function from slots to      *)
(* targets, and the blocks that have a condition parameter.                *)
(***************************************************************************)
EXTENDS Integers, FiniteSets

Entry == 0

Dest(t) == {t.dest[i] : i \in DOMAIN t.dest}

(***************************************************************************)
(* What the generator relies on and does not check: module ControlFlow     *)
(* keeps it, module FunctionGenerator assumes it.                          *)
(***************************************************************************)
WellBuilt(s) ==
  LET Blocks == DOMAIN s.term
  IN  /\ Blocks \subseteq Nat /\ IsFiniteSet(Blocks)
      /\ Entry \in Blocks /\ Cardinality(Blocks) > 1
      /\ s.params \subseteq Blocks
      /\ \A b \in Blocks :
           LET t == s.term[b]
           IN  /\ DOMAIN t.dest \subseteq Nat
               /\ Dest(t) \subseteq Blocks \ {Entry, b}
               /\ \A i, j \in DOMAIN t.dest : t.dest[i] = t.dest[j] => i = j
               /\ t.op = "none" <=> DOMAIN t.dest = {}
               /\ t.op = "jump" => DOMAIN t.dest = {0}
               /\ t.op = "brif" => DOMAIN t.dest = {0, 1}
               /\ t.op \in {"none", "jump", "brif", "br_table"}
               /\ b \in s.params => t.op \in {"brif", "br_table"}
      /\ s.term[Entry].op = "jump"
      /\ \E e \in Blocks : \A b \in Blocks : s.term[b].op = "none" <=> b = e
      /\ \A S \in SUBSET Blocks :
           Entry \in S /\ (\A b \in S : Dest(s.term[b]) \subseteq S) => S = Blocks
=============================================================================
