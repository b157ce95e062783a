----------------------------- MODULE Dominators -----------------------------
(***************************************************************************)
(* The dominator sets of a function's blocks                               *)
(* (crates/function-generator/src/dominator_tree.rs).                      *)
(*                                                                         *)
(* compute_dominators starts from "every block dominates every block",     *)
(* lists the blocks in reverse postorder of a depth-first search from the  *)
(* entry block, and passes over that list until a whole pass changes no    *)
(* set.  The function generator lets a block use the values of the blocks  *)
(* in its set, so a block too many in a set breaks SSA dominance of the    *)
(* generated function.                                                     *)
(*                                                                         *)
(* The recursion of dfs is an explicit stack: one frame per active call,   *)
(* with the successors its loop has not reached yet.                       *)
(***************************************************************************)
EXTENDS Dominance, Integers, Sequences

VARIABLES
  visited,     \* the blocks dfs has entered
  stack,       \* the active calls of dfs, innermost last
  postorder,   \* the blocks dfs has left, in this order
  order,       \* reverse_postorder
  dominators,  \* the candidate dominators of every block
  pos,         \* position in order of the for loop
  changed,     \* a set has changed in this pass
  passes,      \* passes begun, counted up to PassBound (history variable)
  pc           \* "init", "dfs", "iterate" or "done"

vars == <<succ, visited, stack, postorder, order, dominators, pos, changed,
          passes, pc>>

----------------------------------------------------------------------------
\* Three passes are told apart from more by no property.
PassBound == 3

Pred(n) == {p \in Nodes : n \in succ[p]}

\* Broken variant of Frame: dfs descends into the first successor only.
FrameFirstOnly(n) == [node |-> n, todo |-> {m \in succ[n] : \A k \in succ[n] : m <= k}]

\* A call of dfs on n that gets past the test of visited.
Frame(n) == [node |-> n, todo |-> succ[n]]

Top == stack[Len(stack)]
Pop == SubSeq(stack, 1, Len(stack) - 1)

\* cfg.succ_iter lists the successors by their numbers.
First(S) == CHOOSE n \in S : \A m \in S : n <= m

\* Broken variant of Reversed: the list stays in postorder.
NotReversed(s) == s

Reversed(s) == [i \in 1 .. Len(s) |-> s[Len(s) + 1 - i]]

Init ==
  /\ succ \in Graphs
  /\ visited = {}
  /\ stack = <<>>
  /\ postorder = <<>>
  /\ order = <<>>
  /\ dominators = [n \in {} |-> {}]
  /\ pos = 1
  /\ changed = TRUE
  /\ passes = 0
  /\ pc = "init"

\* The start of compute_dominators, up to the first call of dfs.
InitDominators ==
  /\ pc = "init"
  /\ dominators' = [n \in Nodes |-> IF n = StartNode THEN {StartNode} ELSE Nodes]
  /\ visited' = {StartNode}
  /\ stack' = <<Frame(StartNode)>>
  /\ pc' = "dfs"
  /\ UNCHANGED <<succ, postorder, order, pos, changed, passes>>

\* The innermost call goes on to its next successor and calls dfs on it.
DfsCall ==
  /\ pc = "dfs"
  /\ Top.todo # {}
  /\ LET n == First(Top.todo)
         rest == Append(Pop, [Top EXCEPT !.todo = @ \ {n}])
     IN  /\ visited' = visited \cup {n}
         /\ stack' = IF n \in visited THEN rest ELSE Append(rest, Frame(n))
  /\ UNCHANGED <<succ, postorder, order, dominators, pos, changed, passes, pc>>

\* The innermost call has no successor left, pushes its block and returns.
\* When it is the outermost one, the list is reversed and the first pass begins.
DfsReturn ==
  /\ pc = "dfs"
  /\ Top.todo = {}
  /\ postorder' = Append(postorder, Top.node)
  /\ stack' = Pop
  /\ IF Pop = <<>>
     THEN /\ order' = Reversed(postorder')
          /\ pc' = "iterate"
          /\ pos' = 1
          /\ changed' = FALSE
          /\ passes' = 1
     ELSE UNCHANGED <<order, pc, pos, changed, passes>>
  /\ UNCHANGED <<succ, visited, dominators>>

\* Broken variants of NewDom: the block itself is not inserted; the sets of
\* the predecessors are united instead of intersected.
NewDomWithoutSelf(n) ==
  {d \in Nodes : \A p \in Pred(n) : d \in dominators[p]}

NewDomUnion(n) ==
  {n} \cup {d \in Nodes : \E p \in Pred(n) : d \in dominators[p]}

\* new_dom
NewDom(n) ==
  {n} \cup {d \in Nodes : \A p \in Pred(n) : d \in dominators[p]}

\* Broken variant of UpdateNode: every assignment counts as a change.
UpdateAlwaysChanges ==
  /\ pc = "iterate"
  /\ pos <= Len(order)
  /\ LET n == order[pos]
     IN  IF n = StartNode
         THEN UNCHANGED <<dominators, changed>>
         ELSE /\ dominators' = [dominators EXCEPT ![n] = NewDom(n)]
              /\ changed' = TRUE
  /\ pos' = pos + 1
  /\ UNCHANGED <<succ, visited, stack, postorder, order, passes, pc>>

\* The body of the for loop.
UpdateNode ==
  /\ pc = "iterate"
  /\ pos <= Len(order)
  /\ LET n == order[pos]
     IN  IF n = StartNode
         THEN UNCHANGED <<dominators, changed>>
         ELSE /\ dominators' = [dominators EXCEPT ![n] = NewDom(n)]
              /\ changed' = (changed \/ dominators[n] # NewDom(n))
  /\ pos' = pos + 1
  /\ UNCHANGED <<succ, visited, stack, postorder, order, passes, pc>>

\* Broken variant of EndPass: one pass and no more.
EndPassOnce ==
  /\ pc = "iterate"
  /\ pos > Len(order)
  /\ pc' = "done"
  /\ UNCHANGED <<succ, visited, stack, postorder, order, dominators, pos, changed, passes>>

\* The end of a pass: the test of the while loop.
EndPass ==
  /\ pc = "iterate"
  /\ pos > Len(order)
  /\ IF changed
     THEN /\ pos' = 1
          /\ changed' = FALSE
          /\ passes' = IF passes < PassBound THEN passes + 1 ELSE passes
          /\ UNCHANGED pc
     ELSE /\ pc' = "done"
          /\ UNCHANGED <<pos, changed, passes>>
  /\ UNCHANGED <<succ, visited, stack, postorder, order, dominators>>

\* compute_dominators has returned.
Returned ==
  /\ pc = "done"
  /\ UNCHANGED vars

Step == InitDominators \/ DfsCall \/ DfsReturn \/ UpdateNode \/ EndPass

Next == Step \/ Returned

\* The computation is sequential: it takes a step whenever it can.
Spec == Init /\ [][Next]_vars /\ WF_vars(Step)

----------------------------------------------------------------------------
Elements(s) == {s[i] : i \in 1 .. Len(s)}

\* The variables have their types, the blocks of the stack and of postorder
\* have been visited, and the table has a set for every block.
TypeOK ==
  /\ succ \in [Nodes -> SUBSET Nodes]
  /\ visited \subseteq Nodes
  /\ stack \in Seq([node : Nodes, todo : SUBSET Nodes])
  /\ postorder \in Seq(Nodes)
  /\ order \in Seq(Nodes)
  /\ pc # "init" => dominators \in [Nodes -> SUBSET Nodes]
  /\ pos \in 1 .. (Len(order) + 1)
  /\ changed \in BOOLEAN
  /\ passes \in 0 .. PassBound
  /\ pc \in {"init", "dfs", "iterate", "done"}
  /\ (pc = "dfs") <=> (stack # <<>>)

\* At no moment has a block lost one of its dominators: the sets only ever
\* come down to the right ones from above.
NoDominatorLost ==
  pc # "init" => \A d, n \in Nodes : Dominates(d, n) => d \in dominators[n]

\* When compute_dominators returns, the set of every block that can be
\* reached from the entry block is exactly the set of its dominators.
Exact ==
  pc = "done" => \A n \in visited : dominators[n] = {d \in Nodes : Dominates(d, n)}

\* The list the passes go over holds every block that can be reached from the
\* entry block, each once.
OrderIsReachable ==
  pc \in {"iterate", "done"} =>
    /\ \A i, j \in 1 .. Len(order) : order[i] = order[j] => i = j
    /\ StartNode \in Elements(order)
    /\ \A n \in Elements(order) : succ[n] \subseteq Elements(order)
    /\ \A S \in SUBSET Nodes :
         StartNode \in S /\ (\A b \in S : succ[b] \subseteq S) => Elements(order) \subseteq S

\* Every edge to a block that dfs leaves no earlier than its source is the back
\* edge of a natural loop.
Reducible ==
  \A i, j \in 1 .. Len(postorder) :
    i <= j /\ postorder[j] \in succ[postorder[i]]
      => Dominates(postorder[j], postorder[i])

\* Reverse postorder is the right order: in a reducible graph, which is what
\* structured control flow gives, one pass finds the sets and a second one
\* only confirms them.
ReducibleTwoPasses ==
  pc = "done" /\ Reducible => passes <= 2

\* A set never grows.
SetsOnlyShrink ==
  [][pc = "iterate" => \A n \in Nodes : dominators'[n] \subseteq dominators[n]]_vars

\* The table the callers get.
Answer == IF pc = "done" THEN [n \in visited |-> dominators[n]] ELSE [n \in {} |-> {}]

Promise == INSTANCE DominatorSpec WITH answer <- Answer

\* compute_dominators does what its callers rely on: seen from outside, where only
\* the table that is returned counts, it gives the dominators of the blocks that
\* can be reached, in one step and certainly.
KeepsPromise == Promise!Spec

\* The while loop ends, whatever the graph.
Termination == <>(pc = "done")

----------------------------------------------------------------------------
(***************************************************************************)
(* The inductive invariant.                                                *)
(***************************************************************************)

\* The search: a visited block is on the stack or in postorder, not in both,
\* and once; what a call has dealt with has been visited; and nothing is
\* visited that cannot be reached.
DfsInv ==
  /\ \A i \in 1 .. Len(stack) :
       /\ stack[i].node \in visited \ Elements(postorder)
       /\ stack[i].todo \subseteq succ[stack[i].node]
       /\ succ[stack[i].node] \ stack[i].todo \subseteq visited
  /\ \A i, j \in 1 .. Len(stack) : stack[i].node = stack[j].node => i = j
  /\ \A i, j \in 1 .. Len(postorder) : postorder[i] = postorder[j] => i = j
  /\ \A n \in Elements(postorder) : n \in visited /\ succ[n] \subseteq visited
  /\ \A n \in visited \ Elements(postorder) :
       \E i \in 1 .. Len(stack) : stack[i].node = n
  /\ IF pc = "init" THEN visited = {} ELSE StartNode \in visited
  /\ \A S \in SUBSET Nodes :
       StartNode \in S /\ (\A b \in S : succ[b] \subseteq S) => visited \subseteq S

\* The list holds the visited blocks, each once.
OrderInv ==
  pc \in {"iterate", "done"} =>
    /\ Elements(order) = visited
    /\ \A i, j \in 1 .. Len(order) : order[i] = order[j] => i = j
    /\ \A n \in visited : succ[n] \subseteq visited

\* The table: a block out of reach keeps all blocks, a set is never below
\* what its predecessors allow, and where the pass has changed nothing so far
\* it is exactly that.
TableInv ==
  pc # "init" =>
    /\ dominators[StartNode] = {StartNode}
    /\ \A n \in Nodes \ visited : n # StartNode => dominators[n] = Nodes
    /\ \A n \in Nodes \ {StartNode} : NewDom(n) \subseteq dominators[n]
    /\ pc = "iterate" /\ ~changed =>
         \A i \in 1 .. (pos - 1) :
           order[i] # StartNode => dominators[order[i]] = NewDom(order[i])
    /\ pc = "done" =>
         \A n \in visited \ {StartNode} : dominators[n] = NewDom(n)

\* What every step of compute_dominators keeps.  The properties Exact and
\* OrderIsReachable follow from it.
DInv == TypeOK /\ DfsInv /\ OrderInv /\ TableInv /\ NoDominatorLost

\* The passes: the list is that of the search, and in a reducible graph the sets
\* behind the position of the first pass are final already, so that no later pass
\* finds anything to change.
PassInv ==
  /\ pc \in {"init", "dfs"} => passes = 0
  /\ pc \in {"iterate", "done"} => order = Reversed(postorder) /\ passes >= 1
  /\ Reducible =>
       /\ passes <= 2
       /\ pc = "iterate" /\ passes = 1 =>
            \A n \in {order[i] : i \in 1 .. (pos - 1)} :
              dominators[n] = {d \in Nodes : Dominates(d, n)}
       /\ pc = "iterate" /\ passes = 2 =>
            /\ ~changed
            /\ \A n \in visited : dominators[n] = {d \in Nodes : Dominates(d, n)}

\* The whole invariant: ReducibleTwoPasses follows from it.
IInv == DInv /\ PassInv
============================================================================
