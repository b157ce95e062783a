--------------------------- MODULE DominatorSpec ---------------------------
(***************************************************************************)
(* What compute_dominators promises its callers, function_generator and    *)
(* insert_function_invocation: given a flow graph it returns, in one step  *)
(* and certainly, the dominators of every block that can be reached.       *)
(***************************************************************************)
EXTENDS Dominance

VARIABLE answer  \* the table returned, without a block before that

NoAnswer == [n \in {} |-> {}]

Init ==
  /\ succ \in Graphs
  /\ answer = NoAnswer

Return ==
  /\ answer = NoAnswer
  /\ answer' = [n \in Reachable |-> {d \in Nodes : Dominates(d, n)}]
  /\ UNCHANGED succ

Spec == Init /\ [][Return]_<<succ, answer>> /\ WF_<<succ, answer>>(Return)
============================================================================
