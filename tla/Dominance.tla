----------------------------- MODULE Dominance -----------------------------
(***************************************************************************)
(* Flow graphs and what it means for a block to dominate another: the      *)
(* notions that compute_dominators is about, apart from how it computes.   *)
(***************************************************************************)
EXTENDS Naturals, FiniteSets

CONSTANTS
  Nodes,      \* the blocks of func.layout
  StartNode,  \* func.layout.entry_block()
  Graphs      \* the flow graphs considered: the successors of every block

\* A block is its number, and the function has an entry block.
ASSUME GraphAssumption ==
  /\ Nodes \subseteq Nat /\ IsFiniteSet(Nodes)
  /\ StartNode \in Nodes
  /\ Graphs \subseteq [Nodes -> SUBSET Nodes]

VARIABLE succ  \* cfg, the flow graph of the function; never changes

\* The blocks that can be reached from the entry block: they are in every set
\* that holds it and the successors of its members.
Reachable ==
  {n \in Nodes : \A S \in SUBSET Nodes :
     StartNode \in S /\ (\A b \in S : succ[b] \subseteq S) => n \in S}

\* d dominates n when no path from the entry block to n avoids d: some set of
\* blocks without d and n holds everything that can be reached without d.
Avoiding(d, S) ==
  /\ StartNode # d => StartNode \in S
  /\ \A b \in S : succ[b] \ {d} \subseteq S

Dominates(d, n) ==
  \E S \in SUBSET (Nodes \ {d}) : n \notin S /\ Avoiding(d, S)
============================================================================
