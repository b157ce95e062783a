----------------------------- MODULE CallGraph -----------------------------
(***************************************************************************)
(* One generated program: its call graph (crates/cg-constructor) and the   *)
(* order in which generate_ir of src/bin/ir_generator.rs generates, links  *)
(* and writes its functions; generate_ir_intersection does the same.       *)
(*                                                                         *)
(* The call graph is a tree.  generate_ir generates the body of the root   *)
(* first, copies the whole tree into a list in post-order, and then goes   *)
(* over the list: each function but the root is generated, gets its calls, *)
(* and is written.  The root gets its calls and is written last.  The      *)
(* bodies themselves are the matter of module FunctionGenerator.           *)
(*                                                                         *)
(* A node of the tree is its position in the sequence of the nodes made;   *)
(* the name is what functions are called and looked up by.                 *)
(***************************************************************************)
EXTENDS Integers, Sequences, FiniteSets

CONSTANTS
  MaxDepth,    \* max_depth of generate_function_call_graph, 4
  Fanouts,     \* the numbers of children drawn, 1..2
  Signatures   \* the signatures drawn

\* Node 1 is the root; num_children is at least one.
ASSUME CallGraphAssumption ==
  /\ MaxDepth \in Nat
  /\ Fanouts \subseteq Nat \ {0}
  /\ Signatures # {}

VARIABLES
  nodes,    \* the nodes made so far: name, signature and children
  frames,   \* the active calls of generate_function_tree, innermost last, with
            \* the number of children still to make
  walk,     \* the active calls of cg_post_order_traversal, innermost last, with
            \* the position of the next child
  post,     \* func_node_post_order
  pos,      \* the position in post of the loop over it
  maps,     \* func_dominator_ref_map_vec, of which the names matter
  written,  \* clif_output: name, signature and calls of every function
  pc        \* "tree", "root", "walk", "emit" or "done"

vars == <<nodes, frames, walk, post, pos, maps, written, pc>>

----------------------------------------------------------------------------
Root == 1
Main == 0     \* the name of the root, testcase("main")

Node(name, sig) == [name |-> name, sig |-> sig, children |-> <<>>]

\* The calls of generate_function_tree on a node at depth d: how many children
\* it may make.
ToMake(d) == IF d < MaxDepth THEN Fanouts ELSE {0}

Init ==
  /\ nodes = <<Node(Main, "none")>>
  /\ \E k \in ToMake(0) : frames = <<[node |-> Root, left |-> k]>>
  /\ walk = <<>> /\ post = <<>> /\ maps = <<>> /\ written = <<>>
  /\ pos = 1
  /\ pc = "tree"

Top == frames[Len(frames)]
Below == SubSeq(frames, 1, Len(frames) - 1)

\* func_id, shared by all the calls.
NewName == Len(nodes)

\* The innermost call makes one more node and calls itself on it.
AddChild ==
  /\ pc = "tree"
  /\ Top.left > 0
  /\ \E s \in Signatures, k \in ToMake(Len(frames)) :
       /\ nodes' = Append(nodes, Node(NewName, s))
       /\ frames' = Append([frames EXCEPT ![Len(frames)].left = @ - 1],
                           [node |-> Len(nodes) + 1, left |-> k])
  /\ UNCHANGED <<walk, post, pos, maps, written, pc>>

\* The innermost call returns, and its node becomes a child of the caller's.
EndChildren ==
  /\ pc = "tree"
  /\ Top.left = 0
  /\ frames' = Below
  /\ IF Below = <<>>
     THEN pc' = "root" /\ UNCHANGED nodes
     ELSE /\ nodes' = [nodes EXCEPT ![frames[Len(frames) - 1].node].children =
                          Append(@, Top.node)]
          /\ UNCHANGED pc
  /\ UNCHANGED <<walk, post, pos, maps, written>>

\* The signatures a function may have after function_generator: the root, and
\* only the root, gets a new one.
GeneratedSignature(n) == IF n = Root THEN Signatures ELSE {nodes[n].sig}

\* The root is generated, and the traversal of the tree begins.
GenerateRoot ==
  /\ pc = "root"
  /\ \E s \in GeneratedSignature(Root) : nodes' = [nodes EXCEPT ![Root].sig = s]
  /\ maps' = <<nodes[Root].name>>
  /\ walk' = <<[node |-> Root, next |-> 1]>>
  /\ pc' = "walk"
  /\ UNCHANGED <<frames, post, pos, written>>

Here == walk[Len(walk)]

\* The innermost call goes on to its next child.
Descend ==
  /\ Here.next <= Len(nodes[Here.node].children)
  /\ walk' = Append([walk EXCEPT ![Len(walk)].next = @ + 1],
                    [node |-> nodes[Here.node].children[Here.next], next |-> 1])

\* The innermost call returns.
Ascend ==
  /\ Here.next > Len(nodes[Here.node].children)
  /\ walk' = SubSeq(walk, 1, Len(walk) - 1)

\* Broken variant of Traverse: a node is pushed before its children.
TraversePreOrder ==
  /\ pc = "walk"
  /\ \/ walk = <<>> /\ pc' = "emit" /\ UNCHANGED <<walk, post>>
     \/ /\ walk # <<>> /\ UNCHANGED pc
        /\ post' = IF Here.next = 1 THEN Append(post, Here.node) ELSE post
        /\ Descend \/ Ascend
  /\ UNCHANGED <<nodes, frames, pos, maps, written>>

\* cg_post_order_traversal: a node is pushed after its children.
Traverse ==
  /\ pc = "walk"
  /\ \/ walk = <<>> /\ pc' = "emit" /\ UNCHANGED <<walk, post>>
     \/ walk # <<>> /\ Descend /\ UNCHANGED <<post, pc>>
     \/ walk # <<>> /\ Ascend /\ post' = Append(post, Here.node) /\ UNCHANGED pc
  /\ UNCHANGED <<nodes, frames, pos, maps, written>>

\* Broken variant of Calls: the name of the entry is not compared.
CallsPerEntry(n, M) ==
  LET cs == nodes[n].children
  IN  [c \in DOMAIN cs |->
         [name |-> nodes[cs[c]].name, sig |-> nodes[cs[c]].sig, times |-> Len(M)]]

\* insert_function_invocation on node n: a call of every child, declared with
\* the signature the copy of the child in the tree has, once for every entry of
\* M with the name of n.
Calls(n, M) ==
  LET cs == nodes[n].children
  IN  [c \in DOMAIN cs |->
         [name |-> nodes[cs[c]].name, sig |-> nodes[cs[c]].sig,
          times |-> Cardinality({i \in DOMAIN M : M[i] = nodes[n].name})]]

\* One iteration of the loop: a function is generated, linked and written.
Emit ==
  /\ pc = "emit"
  /\ pos < Len(post)
  /\ LET n == post[pos]
     IN  \E s \in GeneratedSignature(n) :
           /\ maps' = Append(maps, nodes[n].name)
           /\ written' = Append(written, [name |-> nodes[n].name, sig |-> s,
                                          calls |-> Calls(n, maps')])
  /\ pos' = pos + 1
  /\ UNCHANGED <<nodes, frames, walk, post, pc>>

\* The root, generated before, is linked and written.
EmitRoot ==
  /\ pc = "emit"
  /\ pos = Len(post)
  /\ written' = Append(written, [name |-> Main, sig |-> nodes[Root].sig,
                                 calls |-> Calls(Root, maps)])
  /\ pc' = "done"
  /\ UNCHANGED <<nodes, frames, walk, post, pos, maps>>

Done ==
  /\ pc = "done"
  /\ UNCHANGED vars

Next ==
  AddChild \/ EndChildren \/ GenerateRoot \/ Traverse \/ Emit \/ EmitRoot \/ Done

Spec == Init /\ [][Next]_vars

----------------------------------------------------------------------------
\* A function is written after the functions it calls, and each call is
\* declared with the name of exactly one of them and with the signature it was
\* written with, although the caller holds copies made before the callees were
\* generated.
CalleesWrittenFirst ==
  \A i \in DOMAIN written : \A c \in DOMAIN written[i].calls :
    LET call == written[i].calls[c]
    IN  \E j \in 1 .. (i - 1) :
          /\ {w \in DOMAIN written : written[w].name = call.name} = {j}
          /\ written[j].sig = call.sig

\* The places where the function with this name is called.
Sites(name) ==
  {s \in UNION {{i} \X DOMAIN written[i].calls : i \in DOMAIN written} :
     written[s[1]].calls[s[2]].name = name}

\* In a finished program main comes last, and every other function is called
\* from exactly one place, so that main reaches all of them and none is
\* recursive.
CalledOnce ==
  pc = "done" =>
    /\ {written[i].name : i \in DOMAIN written} = {nodes[n].name : n \in DOMAIN nodes}
    /\ written[Len(written)].name = Main
    /\ \A i \in DOMAIN written : written[i].name # Main =>
         \E s \in Sites(written[i].name) :
           Sites(written[i].name) = {s} /\ written[s[1]].calls[s[2]].times = 1

----------------------------------------------------------------------------
\* The nodes, and the active calls of the two recursions.
Nodes == [name : Nat, sig : Signatures \cup {"none"}, children : Seq(Nat)]
Frames == [node : DOMAIN nodes, left : Nat]
Steps == [node : DOMAIN nodes, next : Nat \ {0}]

\* The variables have their types, and a name tells the node.
TypeOK ==
  /\ nodes \in Seq(Nodes)
  /\ nodes # <<>> /\ \A n \in DOMAIN nodes : nodes[n].name = n - 1
  /\ frames \in Seq(Frames)
  /\ walk \in Seq(Steps)
  /\ post \in Seq(DOMAIN nodes)
  /\ pos \in Nat \ {0}
  /\ maps \in Seq(Nat)
  /\ pc \in {"tree", "root", "walk", "emit", "done"}

\* The positions of the children of a node, and the child at one of them.
Kids(n) == DOMAIN nodes[n].children
Kid(n, i) == nodes[n].children[i]

\* The nodes are a tree, but for those whose calls are active.
Tree ==
  /\ \A n \in DOMAIN nodes : \A i \in Kids(n) : Kid(n, i) \in DOMAIN nodes /\ n < Kid(n, i)
  /\ \A n, m \in DOMAIN nodes : \A i \in Kids(n), j \in Kids(m) :
       Kid(n, i) = Kid(m, j) => n = m /\ i = j
  /\ \A c \in DOMAIN nodes \ {Root} :
       \/ \E n \in DOMAIN nodes : \E i \in Kids(n) : c = Kid(n, i)
       \/ \E k \in DOMAIN frames : c = frames[k].node
  /\ \A k \in DOMAIN frames : \A n \in DOMAIN nodes : \A i \in Kids(n) :
       Kid(n, i) # frames[k].node
  /\ \A k, l \in DOMAIN frames : k < l => frames[k].node < frames[l].node
  /\ frames # <<>> => frames[1].node = Root
  /\ (pc = "tree") <=> (frames # <<>>)

Posted == {post[p] : p \in DOMAIN post}
Visited == Posted \cup {walk[k].node : k \in DOMAIN walk}

\* The traversal has come to the children of the nodes it has pushed, and to those
\* before the next one of its active calls, and to no other.
Walked ==
  /\ pc \in {"tree", "root"} => post = <<>> /\ walk = <<>> /\ written = <<>> /\ pos = 1
  /\ pc \in {"emit", "done"} => walk = <<>>
  /\ \A n \in DOMAIN nodes : \A i \in Kids(n) :
       Kid(n, i) \in Visited <=>
         n \in Posted \/ \E k \in DOMAIN walk : walk[k].node = n /\ i < walk[k].next
  /\ \A k, l \in DOMAIN walk : k < l => walk[k].node < walk[l].node
  /\ \A p, q \in DOMAIN post : post[p] = post[q] => p = q
  /\ \A k \in DOMAIN walk : walk[k].node \notin Posted
  /\ walk # <<>> => walk[1].node = Root
  /\ pc \in {"walk", "emit", "done"} /\ walk = <<>> =>
       post # <<>> /\ post[Len(post)] = Root
  /\ \A p \in DOMAIN post : \A i \in Kids(post[p]) :
       \E q \in 1 .. (p - 1) : post[q] = Kid(post[p], i)
  /\ pc \in {"emit", "done"} => Posted = DOMAIN nodes

\* What is to be written of a node: one call per child.
Function(n) ==
  [name |-> n - 1, sig |-> nodes[n].sig,
   calls |-> [k \in Kids(n) |->
                [name |-> Kid(n, k) - 1, sig |-> nodes[Kid(n, k)].sig, times |-> 1]]]

\* The functions are written in the order of the list.
Emitted ==
  /\ pc = "emit" => Len(written) = pos - 1 /\ pos <= Len(post)
  /\ pc = "done" => Len(written) = Len(post)
  /\ pc \in {"walk", "emit"} => Len(maps) = pos /\ maps[1] = Main
  /\ pc = "walk" => pos = 1 /\ written = <<>>
  /\ pc = "emit" => \A i \in 1 .. (pos - 1) : maps[i + 1] = post[i] - 1
  /\ written \in Seq({Function(n) : n \in DOMAIN nodes})
  /\ \A i \in DOMAIN written : i \in DOMAIN post /\ written[i] = Function(post[i])

\* The inductive invariant behind CalleesWrittenFirst and CalledOnce.
IInv == TypeOK /\ Tree /\ Walked /\ Emitted
============================================================================
