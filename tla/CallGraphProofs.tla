-------------------------- MODULE CallGraphProofs --------------------------
(***************************************************************************)
(* Proofs about module CallGraph, for any depth, any numbers of children   *)
(* and any signatures: a program is written with every callee before its   *)
(* caller, and calls each function but main once.                          *)
(***************************************************************************)
EXTENDS CallGraph, FiniteSetTheorems, TLAPS

\* A nonempty set of naturals has a least element: < is well founded on Nat.
LEMMA NatMin ==
  ASSUME NEW T \in SUBSET Nat, T # {}
  PROVE  \E x \in T : \A y \in T : x <= y
<1> DEFINE R == {p \in Nat \X Nat : p[1] < p[2]}
<1>1. IsWellFoundedOn(R, Nat)
  BY NatLessThanWellFounded DEF OpToRel
<1>2. PICK x \in T : \A y \in T : ~(<<y, x>> \in R)
  <2> HIDE DEF R
  <2> QED BY <1>1, WFMin
<1>3. \A y \in T : y \in Nat /\ x \in Nat /\ ~(y < x)
  BY <1>2
<1> QED
  BY <1>3

\* The positions of a sequence, and its elements.
LEMMA SeqFacts ==
  ASSUME NEW S, NEW s \in Seq(S)
  PROVE  /\ Len(s) \in Nat /\ DOMAIN s = 1 .. Len(s)
         /\ \A i \in 1 .. Len(s) : s[i] \in S
         /\ s # <<>> => Len(s) \in Nat \ {0} /\ Len(s) \in 1 .. Len(s) /\ 1 \in 1 .. Len(s)
         /\ Len(s) # 0 => s # <<>>
<1>1. Len(s) \in Nat /\ DOMAIN s = 1 .. Len(s)
  OBVIOUS
<1>2. \A i \in 1 .. Len(s) : s[i] \in S
  OBVIOUS
<1>3. (s = <<>>) <=> (Len(s) = 0)
  OBVIOUS
<1> QED
  BY <1>1, <1>2, <1>3

\* What is left of a stack when its last element is taken away.
LEMMA Pop ==
  ASSUME NEW S, NEW s \in Seq(S), NEW n \in Nat, Len(s) = n + 1,
         NEW t, t = SubSeq(s, 1, n)
  PROVE  /\ t \in Seq(S) /\ Len(t) = n /\ DOMAIN t = 1 .. n
         /\ \A i \in 1 .. n : t[i] = s[i]
         /\ (t = <<>>) <=> (n = 0)
<1>1. \A i \in 1 .. n : s[i] \in S
  BY SeqFacts
<1>2. t \in Seq(S)
  BY <1>1
<1>4. Len(t) = n
  OBVIOUS
<1>5. \A i \in 1 .. n : t[i] = s[i]
  BY <1>1
<1>6. (t = <<>>) <=> (n = 0)
  BY <1>2, <1>4
<1> QED
  BY <1>2, <1>4, <1>5, <1>6, SeqFacts

\* The same, with the last position named.
LEMMA PopLast ==
  ASSUME NEW S, NEW s \in Seq(S), s # <<>>, NEW t, t = SubSeq(s, 1, Len(s) - 1)
  PROVE  /\ t \in Seq(S) /\ DOMAIN t = DOMAIN s \ {Len(s)}
         /\ \A k \in DOMAIN s \ {Len(s)} : t[k] = s[k]
         /\ (t = <<>>) <=> (Len(s) = 1)
<1>1. Len(s) \in Nat \ {0} /\ DOMAIN s = 1 .. Len(s)
  BY SeqFacts
<1> DEFINE n == Len(s) - 1
<1>2. n \in Nat /\ Len(s) = n + 1 /\ t = SubSeq(s, 1, n)
  BY <1>1
<1> HIDE DEF n
<1>3. t \in Seq(S) /\ DOMAIN t = 1 .. n /\ (\A i \in 1 .. n : t[i] = s[i])
      /\ ((t = <<>>) <=> (n = 0))
  BY <1>2, Pop
<1> QED
  BY <1>1, <1>2, <1>3

\* What is in a stack when an element is added.
LEMMA Push ==
  ASSUME NEW S, NEW s \in Seq(S), NEW e \in S, NEW t, t = Append(s, e)
  PROVE  /\ t \in Seq(S) /\ t # <<>>
         /\ Len(t) = Len(s) + 1 /\ Len(s) \in Nat
         /\ DOMAIN t = 1 .. (Len(s) + 1) /\ DOMAIN s = 1 .. Len(s)
         /\ \A i \in 1 .. Len(s) : t[i] = s[i]
         /\ t[Len(s) + 1] = e
OBVIOUS

\* What is in a stack when an element is changed.
LEMMA Change ==
  ASSUME NEW S, NEW T, NEW s \in Seq(S), NEW k \in 1 .. Len(s), NEW e \in T,
         S \subseteq T, NEW t, t = [s EXCEPT ![k] = e]
  PROVE  /\ t \in Seq(T) /\ Len(t) = Len(s) /\ DOMAIN t = 1 .. Len(s)
         /\ t[k] = e /\ \A i \in 1 .. Len(s) : i # k => t[i] = s[i]
<1>1. Len(s) \in Nat /\ DOMAIN s = 1 .. Len(s) /\ \A i \in 1 .. Len(s) : s[i] \in S
  BY SeqFacts
<1>2. /\ t = [i \in 1 .. Len(s) |-> IF i = k THEN e ELSE s[i]]
      /\ DOMAIN t = 1 .. Len(s)
  BY <1>1
<1>3. t \in [1 .. Len(s) -> T]
  BY <1>1, <1>2
<1>4. t \in Seq(T) /\ Len(t) = Len(s)
  BY <1>1, <1>3
<1> QED
  BY <1>2, <1>4

\* A node, as generate_function_tree makes it.
LEMMA NodeType ==
  ASSUME NEW name \in Nat, NEW sig \in Signatures \cup {"none"}
  PROVE  /\ Node(name, sig) \in Nodes
         /\ Node(name, sig) = [name |-> name, sig |-> sig, children |-> <<>>]
BY DEF Node, Nodes

\* Initially there is the root, whose call is active.
LEMMA InitInv ==
  ASSUME Init
  PROVE  IInv
<1>1. PICK k \in ToMake(0) : frames = <<[node |-> Root, left |-> k]>>
  BY DEF Init
<1>2. k \in Nat
  BY CallGraphAssumption DEF ToMake
<1>3. /\ nodes = <<Node(Main, "none")>> /\ DOMAIN nodes = {1} /\ nodes[1] = Node(Main, "none")
      /\ Kids(1) = {} /\ nodes[1].name = 0
  BY DEF Init, Node, Kids, Main
<1>4. TypeOK
  <2>1. nodes \in Seq(Nodes) /\ nodes # <<>>
    BY <1>3, NodeType DEF Main
  <2>2. frames \in Seq(Frames)
    BY <1>1, <1>2, <1>3 DEF Root, Frames
  <2> QED
    BY <1>3, <2>1, <2>2 DEF Init, TypeOK
<1>5. Tree
  <2>1. DOMAIN frames = {1} /\ frames[1].node = 1 /\ frames # <<>>
    BY <1>1 DEF Root
  <2> QED
    BY <1>3, <2>1 DEF Tree, Init, Root
<1>6. Walked
  BY <1>3 DEF Walked, Init
<1>7. Emitted
  BY DEF Emitted, Init
<1> QED
  BY <1>4, <1>5, <1>6, <1>7 DEF IInv

\* The active calls of generate_function_tree, and the nodes.
LEMMA TopFacts ==
  ASSUME IInv, pc = "tree"
  PROVE  /\ Len(frames) \in Nat \ {0} /\ DOMAIN frames = 1 .. Len(frames)
         /\ \A k \in DOMAIN frames : frames[k] \in Frames
         /\ Top.node \in DOMAIN nodes /\ Top.left \in Nat
         /\ Top = [node |-> Top.node, left |-> Top.left]
         /\ walk = <<>> /\ post = <<>> /\ written = <<>> /\ pos = 1
<1>1. frames # <<>> /\ frames \in Seq(Frames)
  BY DEF IInv, Tree, TypeOK
<1>2. /\ Len(frames) \in Nat \ {0} /\ DOMAIN frames = 1 .. Len(frames)
      /\ \A k \in DOMAIN frames : frames[k] \in Frames
  BY <1>1, SeqFacts
<1>3. Top \in Frames
  BY <1>2 DEF Top
<1>4. /\ Top.node \in DOMAIN nodes /\ Top.left \in Nat
      /\ Top = [node |-> Top.node, left |-> Top.left]
  BY <1>3 DEF Frames
<1> QED
  BY <1>2, <1>4 DEF IInv, Walked

\* The nodes are numbered from 1, the root.
LEMMA NodeFacts ==
  ASSUME IInv
  PROVE  /\ Len(nodes) \in Nat \ {0} /\ DOMAIN nodes = 1 .. Len(nodes)
         /\ Root \in DOMAIN nodes /\ DOMAIN nodes \subseteq Nat
         /\ \A n \in DOMAIN nodes : nodes[n] \in Nodes /\ n <= Len(nodes)
<1>1. nodes # <<>> /\ nodes \in Seq(Nodes)
  BY DEF IInv, TypeOK
<1> QED
  BY <1>1, SeqFacts DEF Root

\* generate_function_tree makes a node and calls itself on it.
LEMMA AddChildInv ==
  ASSUME IInv, AddChild
  PROVE  IInv'
<1> DEFINE N == Len(nodes)
           F == Len(frames)
           D == DOMAIN nodes
           new == N + 1
<1>0. pc = "tree"
  BY DEF AddChild
<1>1. PICK sg \in Signatures, k \in ToMake(F) :
        /\ nodes' = Append(nodes, Node(NewName, sg))
        /\ frames' = Append([frames EXCEPT ![F].left = @ - 1], [node |-> new, left |-> k])
  BY DEF AddChild
<1>2. k \in Nat
  BY CallGraphAssumption DEF ToMake
<1>3. UNCHANGED <<walk, post, pos, maps, written, pc>>
  BY DEF AddChild
<1>4. walk = <<>> /\ post = <<>> /\ written = <<>> /\ pos = 1
  BY <1>0, TopFacts
<1>5. /\ nodes' \in Seq(Nodes) /\ nodes' # <<>> /\ DOMAIN nodes' = D \cup {new}
      /\ \A n \in D : nodes'[n] = nodes[n]
      /\ nodes'[new] = [name |-> N, sig |-> sg, children |-> <<>>]
      /\ N \in Nat /\ \A n \in D : n \in Nat /\ n < new
  <2>1. N \in Nat /\ DOMAIN nodes = 1 .. N /\ nodes \in Seq(Nodes)
    BY NodeFacts DEF IInv, TypeOK
  <2>2. /\ Node(NewName, sg) \in Nodes
        /\ Node(NewName, sg) = [name |-> N, sig |-> sg, children |-> <<>>]
    BY <2>1, NodeType DEF NewName
  <2>3. /\ nodes' \in Seq(Nodes) /\ nodes' # <<>>
        /\ DOMAIN nodes' = 1 .. (N + 1)
        /\ \A n \in 1 .. N : nodes'[n] = nodes[n]
        /\ nodes'[N + 1] = Node(NewName, sg)
    BY <1>1, <2>1, <2>2, Push
  <2> QED
    BY <2>1, <2>2, <2>3
<1> DEFINE E == DOMAIN frames
<1>6. /\ frames' \in Seq(Frames') /\ frames' # <<>> /\ DOMAIN frames' = E \cup {F + 1}
      /\ \A i \in E : frames'[i].node = frames[i].node
      /\ frames'[F + 1].node = new
      /\ F \in Nat /\ \A i \in E : i \in Nat /\ i < F + 1
  <2> DEFINE fr == [frames EXCEPT ![F].left = @ - 1]
             e == [node |-> Top.node, left |-> Top.left - 1]
  <2>1. /\ F \in Nat \ {0} /\ E = 1 .. F /\ frames \in Seq(Frames)
        /\ Top.left - 1 \in Nat /\ Top.node \in D /\ Top = [node |-> Top.node, left |-> Top.left]
    <3>1. /\ F \in Nat \ {0} /\ E = 1 .. F
          /\ Top.left \in Nat /\ Top.node \in D /\ Top = [node |-> Top.node, left |-> Top.left]
      BY <1>0, TopFacts
    <3>2. frames \in Seq(Frames)
      BY DEF IInv, TypeOK
    <3>3. Top.left > 0
      BY DEF AddChild
    <3> QED
      BY <3>1, <3>2, <3>3
  <2>2. fr = [frames EXCEPT ![F] = e]
    <3>1. [Top EXCEPT !.left = Top.left - 1] = e
      BY <2>1
    <3> QED
      BY <3>1 DEF Top
  <2>3. Frames \subseteq Frames' /\ e \in Frames' /\ [node |-> new, left |-> k] \in Frames'
    BY <1>2, <1>5, <2>1 DEF Frames
  <2> HIDE DEF fr, e
  <2>4. /\ fr \in Seq(Frames') /\ Len(fr) = F
        /\ fr[F] = e /\ \A i \in 1 .. F : i # F => fr[i] = frames[i]
    BY <2>1, <2>2, <2>3, Change
  <2>5. \A i \in E : fr[i].node = frames[i].node
    <3> TAKE i \in E
    <3>1. CASE i = F
      BY <2>4, <3>1 DEF e, Top
    <3>2. CASE i # F
      BY <2>1, <2>4, <3>2
    <3> QED
      BY <3>1, <3>2
  <2>6. frames' = Append(fr, [node |-> new, left |-> k])
    BY <1>1 DEF fr
  <2> DEFINE e2 == [node |-> new, left |-> k]
  <2>7. e2.node = new
    OBVIOUS
  <2> HIDE DEF e2
  <2>8. /\ frames' \in Seq(Frames') /\ frames' # <<>> /\ DOMAIN frames' = 1 .. (F + 1)
        /\ \A i \in 1 .. F : frames'[i] = fr[i]
        /\ frames'[F + 1] = e2
    BY <2>3, <2>4, <2>6, Push DEF e2
  <2> QED
    BY <2>1, <2>5, <2>7, <2>8
<1>7. /\ \A n \in D : Kids(n)' = Kids(n) /\ \A i \in Kids(n) : Kid(n, i)' = Kid(n, i)
      /\ \A n \in {new} : Kids(n)' = {}
  <2>1. nodes'[new].children = <<>>
    BY <1>5
  <2> QED
    BY <1>5, <2>1 DEF Kids, Kid
<1>8. TypeOK'
  <2>1. \A n \in DOMAIN nodes' : nodes'[n].name = n - 1
    <3>1. nodes'[new].name = new - 1
      BY <1>5
    <3>2. \A n \in D : nodes[n].name = n - 1
      BY DEF IInv, TypeOK
    <3> QED
      BY <1>5, <3>1, <3>2
  <2>2. walk' \in Seq(Steps') /\ post' \in Seq(DOMAIN nodes')
    BY <1>3, <1>4
  <2> QED
    BY <1>3, <1>5, <1>6, <2>1, <2>2 DEF IInv, TypeOK, Nodes
<1> HIDE DEF N, F, D, new, E
<1>9. Tree /\ \A i \in E : frames[i].node \in D
  <2>1. \A i \in E : frames[i] \in Frames
    BY <1>0, TopFacts DEF E
  <2> QED
    BY <2>1 DEF IInv, Frames, D
<1>10. Tree'
  <2>1. \A n \in DOMAIN nodes' : \A i \in Kids(n)' : Kid(n, i)' \in DOMAIN nodes' /\ n < Kid(n, i)'
    BY <1>5, <1>7, <1>9 DEF Tree, D
  <2>2. \A n, m \in DOMAIN nodes' : \A i \in Kids(n)', j \in Kids(m)' :
          Kid(n, i)' = Kid(m, j)' => n = m /\ i = j
    BY <1>5, <1>7, <1>9 DEF Tree, D
  <2>3. ASSUME NEW c \in DOMAIN nodes' \ {Root}
        PROVE  \/ \E n \in DOMAIN nodes' : \E i \in Kids(n)' : c = Kid(n, i)'
               \/ \E l \in DOMAIN frames' : c = frames'[l].node
    <3>1. CASE c = new
      BY <1>6, <3>1
    <3>2. CASE c # new
      <4>1. c \in D \ {Root}
        BY <1>5, <3>2
      <4>2. CASE \E n \in D : \E i \in Kids(n) : c = Kid(n, i)
        BY <1>5, <1>7, <4>2
      <4>3. CASE \E l \in E : c = frames[l].node
        BY <1>6, <4>3
      <4> QED
        BY <1>9, <4>1, <4>2, <4>3 DEF Tree, D, E
    <3> QED
      BY <3>1, <3>2
  <2>4. ASSUME NEW l \in DOMAIN frames', NEW n \in DOMAIN nodes', NEW i \in Kids(n)'
        PROVE  Kid(n, i)' # frames'[l].node
    <3>1. n \in D /\ i \in Kids(n) /\ Kid(n, i)' = Kid(n, i)
      BY <1>5, <1>7
    <3>2. Kid(n, i) \in D
      BY <1>9, <3>1 DEF Tree, D
    <3>3. CASE l = F + 1
      BY <1>5, <1>6, <3>1, <3>2, <3>3
    <3>4. CASE l \in E
      BY <1>6, <1>9, <3>1, <3>4 DEF Tree, D, E
    <3> QED
      BY <1>6, <3>3, <3>4
  <2>5. ASSUME NEW l \in DOMAIN frames', NEW m \in DOMAIN frames', l < m
        PROVE  frames'[l].node < frames'[m].node
    <3>1. l \in E
      BY <1>6, <2>5
    <3>2. CASE m \in E
      BY <1>6, <1>9, <2>5, <3>1, <3>2 DEF Tree, E
    <3>3. CASE m = F + 1
      BY <1>5, <1>6, <1>9, <3>1, <3>3
    <3> QED
      BY <1>6, <3>2, <3>3
  <2>6. frames'[1].node = Root
    <3>1. 1 \in E /\ frames[1].node = Root
      BY <1>0, <1>9, TopFacts DEF Tree, E
    <3> QED
      BY <1>6, <3>1
  <2> QED
    BY <1>0, <1>3, <1>6, <2>1, <2>2, <2>3, <2>4, <2>5, <2>6 DEF Tree
<1>11. Walked'
  <2>1. Posted' = {} /\ Visited' = {}
    BY <1>3, <1>4 DEF Posted, Visited
  <2> QED
    BY <1>0, <1>3, <1>4, <2>1 DEF Walked
<1>12. Emitted'
  BY <1>0, <1>3, <1>4 DEF Emitted
<1> QED
  BY <1>8, <1>10, <1>11, <1>12 DEF IInv

\* The outermost call of generate_function_tree returns: the tree is complete.
LEMMA EndTreeInv ==
  ASSUME IInv, EndChildren, Below = <<>>
  PROVE  IInv'
<1>1. /\ pc = "tree" /\ pc' = "root" /\ frames' = <<>>
      /\ UNCHANGED <<nodes, walk, post, pos, maps, written>>
  BY DEF EndChildren
<1>2. Len(frames) = 1 /\ DOMAIN frames = {1}
  <2>1. Len(frames) \in Nat \ {0} /\ frames \in Seq(Frames) /\ DOMAIN frames = 1 .. Len(frames)
    BY <1>1, TopFacts DEF IInv, TypeOK
  <2> DEFINE n == Len(frames) - 1
  <2>2. n \in Nat /\ Len(frames) = n + 1 /\ Below = SubSeq(frames, 1, n)
    BY <2>1 DEF Below
  <2> HIDE DEF n
  <2>3. n = 0
    BY <2>1, <2>2, Pop
  <2> QED
    BY <2>1, <2>2, <2>3
<1>3. walk = <<>> /\ post = <<>> /\ written = <<>> /\ pos = 1
  BY <1>1, TopFacts
<1>4. TypeOK'
  <2>1. frames' \in Seq(Frames')
    BY <1>1
  <2>2. walk' \in Seq(Steps') /\ post' \in Seq(DOMAIN nodes')
    BY <1>1, <1>3
  <2> QED
    BY <1>1, <2>1, <2>2 DEF IInv, TypeOK, Nodes
<1>5. Tree'
  <2>1. frames[1].node = Root
    BY <1>2, SeqFacts DEF IInv, Tree
  <2>2. \A n \in DOMAIN nodes : Kids(n)' = Kids(n) /\ \A i \in Kids(n) : Kid(n, i)' = Kid(n, i)
    BY <1>1 DEF Kids, Kid
  <2>3. DOMAIN frames' = {}
    BY <1>1
  <2> QED
    BY <1>1, <1>2, <2>1, <2>2, <2>3 DEF IInv, Tree
<1>6. Walked'
  <2>1. Posted' = {} /\ Visited' = {}
    BY <1>1, <1>3 DEF Posted, Visited
  <2> QED
    BY <1>1, <1>3, <2>1 DEF Walked
<1>7. Emitted'
  BY <1>1, <1>3 DEF Emitted
<1> QED
  BY <1>4, <1>5, <1>6, <1>7 DEF IInv

\* A node with other children, or another signature.
LEMMA WithChildren ==
  ASSUME NEW r \in Nodes, NEW x
  PROVE  /\ [r EXCEPT !.children = x] = [name |-> r.name, sig |-> r.sig, children |-> x]
         /\ [r EXCEPT !.sig = x] = [name |-> r.name, sig |-> x, children |-> r.children]
BY DEF Nodes

\* Another call returns: its node becomes a child of the caller's.
LEMMA AdoptInv ==
  ASSUME IInv, EndChildren, Below # <<>>
  PROVE  IInv'
<1> DEFINE F == Len(frames)
           E == DOMAIN frames
           D == DOMAIN nodes
           p == frames[F - 1].node
           c == Top.node
<1>1. /\ pc = "tree" /\ pc' = "tree" /\ frames' = Below
      /\ nodes' = [nodes EXCEPT ![p].children = Append(@, c)]
      /\ UNCHANGED <<walk, post, pos, maps, written>>
  BY DEF EndChildren
<1>2. /\ F \in Nat /\ F - 1 \in E /\ F \in E /\ E = 1 .. F /\ F # 1
      /\ frames' \in Seq(Frames) /\ frames' # <<>> /\ DOMAIN frames' = E \ {F}
      /\ \A k \in E \ {F} : frames'[k] = frames[k] /\ k < F
  <2>1. F \in Nat \ {0} /\ frames \in Seq(Frames) /\ E = 1 .. F
    BY <1>1, TopFacts DEF IInv, TypeOK
  <2>2. F - 1 \in Nat /\ F = (F - 1) + 1
    BY <2>1
  <2>3. /\ Below \in Seq(Frames) /\ DOMAIN Below = 1 .. (F - 1)
        /\ \A i \in 1 .. (F - 1) : Below[i] = frames[i]
        /\ F - 1 # 0
    BY <2>1, <2>2, Pop DEF Below
  <2> QED
    BY <1>1, <2>1, <2>3
<1>3. walk = <<>> /\ post = <<>> /\ written = <<>> /\ pos = 1
  BY <1>1, TopFacts
<1>4. /\ p \in D /\ c \in D /\ p < c /\ c \in Nat
      /\ \A k \in E : frames[k].node \in D
  <2>1. \A k \in E : frames[k].node \in D
    <3>1. \A k \in E : frames[k] \in Frames
      BY <1>1, TopFacts
    <3> QED
      BY <3>1 DEF Frames
  <2>2. p < c
    BY <1>2 DEF IInv, Tree, Top
  <2> QED
    BY <1>2, <2>1, <2>2, NodeFacts DEF Top
<1> DEFINE node == [name |-> nodes[p].name, sig |-> nodes[p].sig,
                    children |-> Append(nodes[p].children, c)]
<1>5. /\ nodes' \in Seq(Nodes) /\ nodes' # <<>> /\ DOMAIN nodes' = D
      /\ nodes'[p] = node /\ \A n \in D \ {p} : nodes'[n] = nodes[n]
      /\ nodes[p].children \in Seq(Nat)
  <2>1. nodes \in Seq(Nodes) /\ D = 1 .. Len(nodes) /\ nodes[p] \in Nodes /\ Len(nodes) # 0
    BY <1>4, NodeFacts DEF IInv, TypeOK
  <2>3. [nodes[p] EXCEPT !.children = Append(nodes[p].children, c)] = node
    BY <2>1, WithChildren
  <2>4. nodes' = [nodes EXCEPT ![p] = node]
    BY <1>1, <2>3
  <2>5. node \in Nodes /\ nodes[p].children \in Seq(Nat)
    BY <1>4, <2>1 DEF Nodes
  <2> HIDE DEF node, p
  <2>6. /\ nodes' \in Seq(Nodes) /\ Len(nodes') = Len(nodes) /\ DOMAIN nodes' = 1 .. Len(nodes)
        /\ nodes'[p] = node /\ \A i \in 1 .. Len(nodes) : i # p => nodes'[i] = nodes[i]
    BY <1>4, <2>1, <2>4, <2>5, Change
  <2>7. nodes' # <<>>
    BY <2>1, <2>6, SeqFacts
  <2> QED
    BY <2>1, <2>5, <2>6, <2>7 DEF p
<1> DEFINE L == Len(nodes[p].children) + 1
<1>6. /\ \A n \in D \ {p} : Kids(n)' = Kids(n) /\ \A i \in Kids(n) : Kid(n, i)' = Kid(n, i)
      /\ \A n \in {p} : /\ Kids(n)' = Kids(n) \cup {L} /\ L \notin Kids(n)
                        /\ \A i \in Kids(n) : Kid(n, i)' = Kid(n, i)
                        /\ \A i \in {L} : Kid(n, i)' = c
  <2>1. \A n \in D \ {p} : Kids(n)' = Kids(n) /\ \A i \in Kids(n) : Kid(n, i)' = Kid(n, i)
    BY <1>5 DEF Kids, Kid
  <2>2. ASSUME NEW n \in {p}
        PROVE  /\ Kids(n)' = Kids(n) \cup {L} /\ L \notin Kids(n)
               /\ \A i \in Kids(n) : Kid(n, i)' = Kid(n, i)
               /\ \A i \in {L} : Kid(n, i)' = c
    <3> DEFINE s == nodes[p].children
               t == nodes'[p].children
    <3>1. t = Append(s, c) /\ s \in Seq(Nat) /\ c \in Nat
      BY SMTT(60), <1>4, <1>5
    <3> HIDE DEF s, t, c
    <3>2. /\ Len(s) \in Nat /\ DOMAIN t = 1 .. (Len(s) + 1) /\ DOMAIN s = 1 .. Len(s)
          /\ \A i \in 1 .. Len(s) : t[i] = s[i]
          /\ t[Len(s) + 1] = c
      BY <3>1, Push
    <3>3. n = p
      OBVIOUS
    <3>4. Kids(n) = DOMAIN s /\ \A i : Kid(n, i) = s[i] /\ L = Len(s) + 1
      BY <3>3 DEF s, Kids, Kid
    <3>5. Kids(n)' = DOMAIN t /\ \A i : Kid(n, i)' = t[i]
      BY <3>3 DEF t, Kids, Kid
    <3> HIDE DEF L, p
    <3> QED
      BY <3>2, <3>4, <3>5
  <2> QED
    BY <2>1, <2>2
<1>7. TypeOK'
  <2>1. \A n \in D : nodes'[n].name = n - 1
    <3>1. nodes'[p].name = nodes[p].name
      BY <1>5
    <3>2. \A n \in D : nodes[n].name = n - 1
      BY DEF IInv, TypeOK
    <3> QED
      BY <1>4, <1>5, <3>1, <3>2
  <2>2. walk' \in Seq(Steps') /\ post' \in Seq(DOMAIN nodes')
    BY <1>1, <1>3
  <2>3. Frames' = Frames
    BY <1>5 DEF Frames
  <2> QED
    BY <1>1, <1>2, <1>5, <2>1, <2>2, <2>3 DEF IInv, TypeOK, Nodes
<1> HIDE DEF F, E, D, p, c, L
<1>8. Tree /\ frames[F].node = c /\ frames # <<>>
  <2>1. frames # <<>>
    BY <1>1 DEF IInv, Tree
  <2> QED
    BY <2>1 DEF IInv, F, c, Top
<1>9. Tree'
  <2>0. \A n, m \in D : \A i \in Kids(n), j \in Kids(m) :
          Kid(n, i) = Kid(m, j) => n = m /\ i = j
    BY <1>8 DEF Tree, D
  <2>1. \A n \in D : \A i \in Kids(n)' : Kid(n, i)' \in D /\ n < Kid(n, i)'
    BY <1>4, <1>6, <1>8 DEF Tree, D
  <2>2. ASSUME NEW n \in D, NEW i \in Kids(n)'
        PROVE  \/ Kid(n, i)' = c /\ n = p /\ i = L
               \/ Kid(n, i)' # c /\ i \in Kids(n) /\ Kid(n, i)' = Kid(n, i)
    <3>1. \A j \in Kids(n) : Kid(n, j) # c
      BY <1>2, <1>8 DEF Tree, D, E
    <3>2. CASE n = p
      BY <1>6, <3>1, <3>2
    <3>3. CASE n # p
      BY <1>6, <3>1, <3>3
    <3> QED
      BY <3>2, <3>3
  <2>3. ASSUME NEW n \in D, NEW m \in D, NEW i \in Kids(n)', NEW j \in Kids(m)',
               Kid(n, i)' = Kid(m, j)'
        PROVE  n = m /\ i = j
    <3>1. CASE Kid(n, i)' = c
      <4>1. n = p /\ i = L
        BY <2>2, <3>1
      <4>2. m = p /\ j = L
        BY <2>2, <2>3, <3>1
      <4> QED
        BY <4>1, <4>2
    <3>2. CASE Kid(n, i)' # c
      <4>1. i \in Kids(n) /\ Kid(n, i)' = Kid(n, i)
        BY <2>2, <3>2
      <4>2. j \in Kids(m) /\ Kid(m, j)' = Kid(m, j)
        BY <2>2, <2>3, <3>2
      <4> QED
        BY <2>0, <2>3, <4>1, <4>2
    <3> QED
      BY <3>1, <3>2
  <2>4. ASSUME NEW d \in D \ {Root}
        PROVE  \/ \E n \in D : \E i \in Kids(n)' : d = Kid(n, i)'
               \/ \E l \in DOMAIN frames' : d = frames'[l].node
    <3>1. CASE d = c
      BY <1>4, <1>6, <3>1
    <3>2. CASE \E n \in D : \E i \in Kids(n) : d = Kid(n, i)
      BY <1>6, <3>2
    <3>3. CASE d # c /\ \E l \in E : d = frames[l].node
      BY <1>2, <1>8, <3>3
    <3> QED
      BY <1>8, <3>1, <3>2, <3>3 DEF Tree, D, E
  <2>5. ASSUME NEW l \in DOMAIN frames', NEW n \in D, NEW i \in Kids(n)'
        PROVE  Kid(n, i)' # frames'[l].node
    <3>1. l \in E /\ l < F /\ frames'[l].node = frames[l].node
      BY <1>2
    <3>2. frames[l].node # c
      <4>1. frames[l].node < frames[F].node
        BY <1>2, <1>8, <3>1 DEF Tree, E
      <4> QED
        BY <1>4, <1>8, <4>1
    <3>3. CASE Kid(n, i)' = c
      BY <3>1, <3>2, <3>3
    <3>4. CASE Kid(n, i)' # c
      <4>1. i \in Kids(n) /\ Kid(n, i)' = Kid(n, i)
        BY <1>6, <3>4
      <4> QED
        BY <1>8, <3>1, <4>1 DEF Tree, D, E
    <3> QED
      BY <3>3, <3>4
  <2>6. \A l, m \in DOMAIN frames' : l < m => frames'[l].node < frames'[m].node
    BY <1>2, <1>8 DEF Tree, E
  <2>7. frames'[1].node = Root
    BY <1>2, <1>8 DEF Tree, E
  <2>8. DOMAIN nodes' = D
    BY <1>5
  <2>9. \A n, m \in D : \A i \in Kids(n)', j \in Kids(m)' :
          Kid(n, i)' = Kid(m, j)' => n = m /\ i = j
    BY <2>3
  <2> QED
    BY <1>1, <1>2, <2>1, <2>4, <2>5, <2>6, <2>7, <2>8, <2>9 DEF Tree
<1>10. Walked'
  <2>1. Posted' = {} /\ Visited' = {}
    BY <1>1, <1>3 DEF Posted, Visited
  <2> QED
    BY <1>1, <1>3, <2>1 DEF Walked
<1>11. Emitted'
  BY <1>1, <1>3 DEF Emitted
<1> QED
  BY <1>7, <1>9, <1>10, <1>11 DEF IInv

\* The children of a node have positions from 1, and come after it.
LEMMA KidFacts ==
  ASSUME IInv, NEW n \in DOMAIN nodes
  PROVE  /\ Len(nodes[n].children) \in Nat /\ Kids(n) = 1 .. Len(nodes[n].children)
         /\ \A i \in Kids(n) : Kid(n, i) \in DOMAIN nodes /\ n < Kid(n, i)
<1>1. nodes[n].children \in Seq(Nat)
  <2>1. nodes[n] \in Nodes
    BY NodeFacts
  <2> QED
    BY <2>1 DEF Nodes
<1>2. \A i \in Kids(n) : Kid(n, i) \in DOMAIN nodes /\ n < Kid(n, i)
  BY DEF IInv, Tree
<1> QED
  BY <1>1, <1>2, SeqFacts DEF Kids

\* The root gets its signature, and the traversal begins at it.
LEMMA GenerateRootInv ==
  ASSUME IInv, GenerateRoot
  PROVE  IInv'
<1> DEFINE D == DOMAIN nodes
<1>1. PICK sg \in GeneratedSignature(Root) : nodes' = [nodes EXCEPT ![Root].sig = sg]
  BY DEF GenerateRoot
<1>2. /\ pc = "root" /\ pc' = "walk" /\ UNCHANGED <<frames, post, pos, written>>
      /\ maps' = <<nodes[Root].name>> /\ walk' = <<[node |-> Root, next |-> 1]>>
  BY DEF GenerateRoot
<1>3. post = <<>> /\ walk = <<>> /\ written = <<>> /\ pos = 1 /\ frames = <<>>
  BY <1>2 DEF IInv, Walked, Tree
<1> DEFINE node == [name |-> nodes[Root].name, sig |-> sg, children |-> nodes[Root].children]
<1>4. /\ nodes' \in Seq(Nodes) /\ nodes' # <<>> /\ DOMAIN nodes' = D
      /\ nodes'[Root] = node /\ \A n \in D : n # Root => nodes'[n] = nodes[n]
      /\ nodes[Root].name = 0 /\ Root \in D
  <2>1. /\ nodes \in Seq(Nodes) /\ D = 1 .. Len(nodes) /\ nodes[Root] \in Nodes
        /\ Len(nodes) # 0 /\ Root \in D
    BY NodeFacts DEF IInv, TypeOK
  <2>2. [nodes[Root] EXCEPT !.sig = sg] = node
    BY <2>1, WithChildren
  <2>3. nodes' = [nodes EXCEPT ![Root] = node]
    BY <1>1, <2>2
  <2>4. node \in Nodes
    BY <2>1 DEF Nodes, GeneratedSignature
  <2> HIDE DEF node
  <2>5. /\ nodes' \in Seq(Nodes) /\ Len(nodes') = Len(nodes) /\ DOMAIN nodes' = 1 .. Len(nodes)
        /\ nodes'[Root] = node /\ \A i \in 1 .. Len(nodes) : i # Root => nodes'[i] = nodes[i]
    BY <2>1, <2>3, <2>4, Change
  <2>6. nodes' # <<>>
    BY <2>1, <2>5, SeqFacts
  <2>7. nodes[Root].name = 0
    <3>1. nodes[Root].name = Root - 1
      BY <2>1 DEF IInv, TypeOK
    <3> QED
      BY <3>1 DEF Root
  <2> QED
    BY <2>1, <2>5, <2>6, <2>7
<1>5. \A n \in D : Kids(n)' = Kids(n) /\ \A i \in Kids(n) : Kid(n, i)' = Kid(n, i)
  <2>1. node.children = nodes[Root].children
    OBVIOUS
  <2> HIDE DEF node
  <2> QED
    BY <1>4, <2>1 DEF Kids, Kid
<1>6. TypeOK'
  <2>1. \A n \in D : nodes'[n].name = n - 1
    <3>1. node.name = nodes[Root].name
      OBVIOUS
    <3>2. \A n \in D : nodes[n].name = n - 1
      BY DEF IInv, TypeOK
    <3> HIDE DEF node
    <3> QED
      BY <1>4, <3>1, <3>2
  <2>2. walk' \in Seq(Steps')
    BY <1>2, <1>4 DEF Steps
  <2>3. frames' \in Seq(Frames') /\ post' \in Seq(DOMAIN nodes')
    BY <1>2, <1>3
  <2>4. maps' \in Seq(Nat)
    BY <1>2, <1>4
  <2> HIDE DEF node
  <2> QED
    BY <1>2, <1>4, <2>1, <2>2, <2>3, <2>4 DEF IInv, TypeOK, Nodes
<1> HIDE DEF node
<1>7. Tree'
  BY <1>2, <1>3, <1>4, <1>5 DEF IInv, Tree
<1>8. Walked'
  <2>1. DOMAIN walk' = {1} /\ walk'[1].node = Root /\ walk'[1].next = 1 /\ walk' # <<>>
    BY <1>2
  <2>2. Posted' = {} /\ Visited' = {Root} /\ DOMAIN post' = {}
    BY <1>2, <1>3, <2>1 DEF Posted, Visited
  <2>3. \A n \in D : \A i \in Kids(n) : Kid(n, i) # Root /\ ~(i < 1)
    <3> TAKE n \in D
    <3>1. n \in Nat \ {0}
      BY NodeFacts
    <3> QED
      BY <3>1, KidFacts DEF Root
  <2> QED
    BY <1>2, <1>3, <1>4, <1>5, <2>1, <2>2, <2>3 DEF Walked
<1>9. Emitted'
  <2>1. Len(maps') = 1 /\ maps'[1] = Main
    BY <1>2, <1>4 DEF Main
  <2> QED
    BY <1>2, <1>3, <2>1 DEF Emitted
<1> QED
  BY <1>6, <1>7, <1>8, <1>9 DEF IInv

\* What hangs on the tree alone stays when the tree does.
LEMMA TreeStays ==
  ASSUME IInv, UNCHANGED <<nodes, frames>>, (pc' = "tree") <=> (pc = "tree")
  PROVE  /\ \A n : Kids(n)' = Kids(n) /\ \A i : Kid(n, i)' = Kid(n, i)
         /\ Tree'
<1>1. \A n : Kids(n)' = Kids(n) /\ \A i : Kid(n, i)' = Kid(n, i)
  BY DEF Kids, Kid
<1>2. (\A n \in DOMAIN nodes : \A i \in Kids(n) : Kid(n, i) \in DOMAIN nodes /\ n < Kid(n, i))'
  BY <1>1 DEF IInv, Tree
<1>3. (\A n, m \in DOMAIN nodes : \A i \in Kids(n), j \in Kids(m) :
         Kid(n, i) = Kid(m, j) => n = m /\ i = j)'
  BY <1>1 DEF IInv, Tree
<1>4. (\A c \in DOMAIN nodes \ {Root} :
         \/ \E n \in DOMAIN nodes : \E i \in Kids(n) : c = Kid(n, i)
         \/ \E k \in DOMAIN frames : c = frames[k].node)'
  BY <1>1 DEF IInv, Tree
<1>5. (\A k \in DOMAIN frames : \A n \in DOMAIN nodes : \A i \in Kids(n) :
         Kid(n, i) # frames[k].node)'
  BY <1>1 DEF IInv, Tree
<1>6. /\ (\A k, l \in DOMAIN frames : k < l => frames[k].node < frames[l].node)'
      /\ (frames # <<>> => frames[1].node = Root)'
      /\ ((pc = "tree") <=> (frames # <<>>))'
  BY DEF IInv, Tree
<1> QED
  BY <1>1, <1>2, <1>3, <1>4, <1>5, <1>6 DEF Tree

\* The traversal stays where it is, and once it has come to every node it stays
\* at that.
LEMMA WalkStays ==
  ASSUME IInv, UNCHANGED <<nodes, frames, walk, post>>, (pc' = "tree") <=> (pc = "tree"),
         \/ UNCHANGED <<pc, written, pos>>
         \/ pc = "walk" /\ walk = <<>> /\ Posted = DOMAIN nodes /\ pc' = "emit"
         \/ pc = "emit" /\ pc' \in {"emit", "done"}
  PROVE  Walked'
<1>1. Posted' = Posted /\ Visited' = Visited
  BY DEF Posted, Visited
<1>2. \A n : Kids(n)' = Kids(n) /\ \A i : Kid(n, i)' = Kid(n, i)
  BY TreeStays
<1>3. (\A n \in DOMAIN nodes : \A i \in Kids(n) :
         Kid(n, i) \in Visited <=>
           n \in Posted \/ \E k \in DOMAIN walk : walk[k].node = n /\ i < walk[k].next)'
  BY <1>1, <1>2 DEF IInv, Walked
<1>4. /\ (\A k, l \in DOMAIN walk : k < l => walk[k].node < walk[l].node)'
      /\ (\A p, q \in DOMAIN post : post[p] = post[q] => p = q)'
      /\ (\A k \in DOMAIN walk : walk[k].node \notin Posted)'
      /\ (walk # <<>> => walk[1].node = Root)'
  BY <1>1 DEF IInv, Walked
<1>5. (\A p \in DOMAIN post : \A i \in Kids(post[p]) :
         \E q \in 1 .. (p - 1) : post[q] = Kid(post[p], i))'
  BY <1>2 DEF IInv, Walked
<1>6. /\ (pc \in {"tree", "root"} => post = <<>> /\ walk = <<>> /\ written = <<>> /\ pos = 1)'
      /\ (pc \in {"emit", "done"} => walk = <<>>)'
      /\ (pc \in {"walk", "emit", "done"} /\ walk = <<>> =>
            post # <<>> /\ post[Len(post)] = Root)'
      /\ (pc \in {"emit", "done"} => Posted = DOMAIN nodes)'
  BY <1>1 DEF IInv, Walked
<1> QED
  BY <1>3, <1>4, <1>5, <1>6 DEF Walked

\* cg_post_order_traversal has returned: it has come to every node, because the
\* least one missing would have a parent that was pushed.
LEMMA EndWalkInv ==
  ASSUME IInv, pc = "walk", walk = <<>>, pc' = "emit",
         UNCHANGED <<nodes, frames, walk, post, pos, maps, written>>
  PROVE  IInv'
<1>1. Visited = Posted /\ DOMAIN walk = {} /\ frames = <<>> /\ DOMAIN frames = {}
  BY DEF Visited, IInv, Tree
<1>2. post # <<>> /\ post[Len(post)] = Root /\ post \in Seq(DOMAIN nodes)
  BY DEF IInv, Walked, TypeOK
<1>3. Root \in Posted /\ Posted \subseteq DOMAIN nodes /\ Len(post) \in Nat \ {0}
  BY <1>2, SeqFacts DEF Posted
<1>4. Posted = DOMAIN nodes
  <2> SUFFICES ASSUME DOMAIN nodes \ Posted # {} PROVE FALSE
    BY <1>3
  <2>1. PICK d \in DOMAIN nodes \ Posted : \A e \in DOMAIN nodes \ Posted : d <= e
    <3>1. DOMAIN nodes \ Posted \in SUBSET Nat
      BY NodeFacts
    <3> QED
      BY <3>1, NatMin
  <2>2. PICK n \in DOMAIN nodes : \E i \in Kids(n) : d = Kid(n, i)
    BY <1>1, <1>3, <2>1 DEF IInv, Tree
  <2>3. n < d /\ n \in Nat /\ d \in Nat
    BY <2>2, NodeFacts, KidFacts
  <2>4. n \in Posted
    BY <2>1, <2>3
  <2>5. d \in Visited
    BY <2>2, <2>4 DEF IInv, Walked
  <2> QED
    BY <1>1, <2>1, <2>5
<1>5. TypeOK'
  BY DEF IInv, TypeOK, Nodes, Frames, Steps
<1>7. Tree'
  BY TreeStays
<1>8. Walked'
  BY <1>4, WalkStays
<1>9. Emitted'
  <2>1. written = <<>> /\ pos = 1 /\ Len(maps) = pos /\ maps[1] = Main
    BY DEF IInv, Emitted
  <2> QED
    BY <1>3, <2>1 DEF Emitted
<1> QED
  BY <1>5, <1>7, <1>8, <1>9 DEF IInv

\* The innermost active call of the traversal.
LEMMA HereFacts ==
  ASSUME IInv, walk # <<>>
  PROVE  /\ Len(walk) \in Nat \ {0} /\ DOMAIN walk = 1 .. Len(walk) /\ Len(walk) \in DOMAIN walk
         /\ \A k \in DOMAIN walk : walk[k] \in Steps /\ walk[k].node \in DOMAIN nodes
         /\ Here.node \in DOMAIN nodes /\ Here.next \in Nat \ {0}
         /\ Here = [node |-> Here.node, next |-> Here.next]
         /\ \A k \in DOMAIN walk : k # Len(walk) => walk[k].node < Here.node
<1>1. walk \in Seq(Steps)
  BY DEF IInv, TypeOK
<1>2. /\ Len(walk) \in Nat \ {0} /\ DOMAIN walk = 1 .. Len(walk) /\ Len(walk) \in DOMAIN walk
      /\ \A k \in DOMAIN walk : walk[k] \in Steps
  BY <1>1, SeqFacts
<1>3. Here \in Steps
  BY <1>2 DEF Here
<1>4. /\ Here.node \in DOMAIN nodes /\ Here.next \in Nat \ {0}
      /\ Here = [node |-> Here.node, next |-> Here.next]
  BY <1>3 DEF Steps
<1>5. \A k \in DOMAIN walk : walk[k].node \in DOMAIN nodes
  BY <1>2 DEF Steps
<1>6. \A k \in DOMAIN walk : k # Len(walk) => walk[k].node < walk[Len(walk)].node
  BY <1>2 DEF IInv, Walked
<1> QED
  BY <1>2, <1>4, <1>5, <1>6 DEF Here

\* The traversal goes on to a child.
LEMMA DescendInv ==
  ASSUME IInv, pc = "walk", walk # <<>>, Descend,
         UNCHANGED <<nodes, frames, post, pos, maps, written, pc>>
  PROVE  IInv' /\ Visited' = Visited \cup {Kid(Here.node, Here.next)}
<1> DEFINE W == Len(walk)
           E == DOMAIN walk
           D == DOMAIN nodes
           n == Here.node
           x == Here.next
           c == Kid(n, x)
<1>1. /\ x <= Len(nodes[n].children)
      /\ walk' = Append([walk EXCEPT ![W].next = @ + 1], [node |-> c, next |-> 1])
  BY DEF Descend, Kid
<1>2. x \in Kids(n) /\ n \in D /\ x \in Nat /\ c \in D /\ n < c /\ D \subseteq Nat /\ W \in E
  BY <1>1, HereFacts, KidFacts, NodeFacts
<1>3. /\ walk' \in Seq(Steps') /\ walk' # <<>> /\ DOMAIN walk' = E \cup {W + 1}
      /\ \A k \in E \ {W} : walk'[k] = walk[k]
      /\ walk'[W].node = n /\ walk'[W].next = x + 1
      /\ walk'[W + 1].node = c /\ walk'[W + 1].next = 1
      /\ W \in Nat /\ \A k \in E : k \in Nat /\ k < W + 1
  <2> DEFINE wk == [walk EXCEPT ![W].next = @ + 1]
             e == [node |-> n, next |-> x + 1]
             e2 == [node |-> c, next |-> 1]
  <2>1. /\ W \in Nat \ {0} /\ E = 1 .. W /\ walk \in Seq(Steps)
        /\ Here = [node |-> n, next |-> x]
    BY HereFacts DEF IInv, TypeOK
  <2>2. wk = [walk EXCEPT ![W] = e]
    <3>1. [Here EXCEPT !.next = Here.next + 1] = e
      BY <2>1
    <3> QED
      BY <3>1 DEF Here
  <2>3. e \in Steps /\ e2 \in Steps /\ Steps' = Steps
    BY <1>2 DEF Steps
  <2>4. e.node = n /\ e.next = x + 1 /\ e2.node = c /\ e2.next = 1
    OBVIOUS
  <2>5. walk' = Append(wk, e2)
    BY <1>1
  <2> HIDE DEF wk, e, e2
  <2>6. /\ wk \in Seq(Steps) /\ Len(wk) = W
        /\ wk[W] = e /\ \A i \in 1 .. W : i # W => wk[i] = walk[i]
    BY <2>1, <2>2, <2>3, Change
  <2>7. /\ walk' \in Seq(Steps) /\ walk' # <<>> /\ DOMAIN walk' = 1 .. (W + 1)
        /\ \A i \in 1 .. W : walk'[i] = wk[i]
        /\ walk'[W + 1] = e2
    BY <2>3, <2>5, <2>6, Push
  <2> QED
    BY <2>1, <2>3, <2>4, <2>6, <2>7
<1>4. /\ \A k \in E \ {W} : walk[k].node < n /\ walk[k].node \in D
      /\ walk[W].node = n /\ walk[W].next = x
  BY HereFacts DEF Here
<1>a. \A k \in E : walk'[k].node = walk[k].node /\ walk[k].node \in D /\ walk[k].node <= n
  <2> TAKE k \in E
  <2>1. CASE k = W
    BY <1>2, <1>3, <1>4, <2>1
  <2>2. CASE k # W
    BY <1>2, <1>3, <1>4, <2>2
  <2> QED
    BY <2>1, <2>2
<1>5. TypeOK'
  BY <1>3 DEF IInv, TypeOK, Nodes, Frames
<1>6. \A m \in D : Kids(m)' = Kids(m) /\ \A i \in Kids(m) : Kid(m, i)' = Kid(m, i)
  BY DEF Kids, Kid
<1>7. Tree'
  BY TreeStays
<1>8. Posted' = Posted
  BY DEF Posted
<1> HIDE DEF W, E, D, n, x, c
<1>9. Visited' = Visited \cup {c}
  <2>1. {walk'[k].node : k \in DOMAIN walk'} = {walk[k].node : k \in E} \cup {c}
    BY <1>3, <1>a
  <2> QED
    BY <1>8, <2>1 DEF Visited, E
<1>10. \A m \in D : \A i \in Kids(m) : (Kid(m, i) = c) <=> (m = n /\ i = x)
  BY <1>2 DEF IInv, Tree, D, c
<1>11. ASSUME NEW m \in D, NEW i \in Kids(m)
       PROVE  Kid(m, i) \in Visited' <=>
                m \in Posted \/ \E k \in DOMAIN walk' : walk'[k].node = m /\ i < walk'[k].next
  <2>0. i \in Nat \ {0} /\ x \in Nat
    BY <1>2, KidFacts DEF D
  <2>1. Kid(m, i) \in Visited <=>
          m \in Posted \/ \E k \in E : walk[k].node = m /\ i < walk[k].next
    BY DEF IInv, Walked, D, E
  <2>2. (\E k \in DOMAIN walk' : walk'[k].node = m /\ i < walk'[k].next)
          <=> (\E k \in E : walk[k].node = m /\ i < walk[k].next) \/ (m = n /\ i = x)
    <3>1. ASSUME NEW k \in E \ {W}
          PROVE  walk'[k].node = walk[k].node /\ walk'[k].next = walk[k].next
      BY <1>3
    <3>2. (i < x + 1) <=> (i < x \/ i = x)
      BY <2>0
    <3>3. ~(i < 1)
      BY <2>0
    <3>4. ASSUME NEW k \in DOMAIN walk', walk'[k].node = m, i < walk'[k].next
          PROVE  (\E j \in E : walk[j].node = m /\ i < walk[j].next) \/ (m = n /\ i = x)
      <4>1. CASE k \in E \ {W}
        BY <3>1, <3>4, <4>1
      <4>2. CASE k = W
        BY <1>2, <1>3, <1>4, <3>2, <3>4, <4>2
      <4>3. CASE k = W + 1
        BY <1>3, <3>3, <3>4, <4>3
      <4> QED
        BY <1>3, <4>1, <4>2, <4>3
    <3>5. ASSUME NEW j \in E, walk[j].node = m, i < walk[j].next
          PROVE  \E k \in DOMAIN walk' : walk'[k].node = m /\ i < walk'[k].next
      <4>1. CASE j = W
        BY <1>2, <1>3, <1>4, <3>2, <3>5, <4>1
      <4>2. CASE j # W
        BY <1>3, <3>1, <3>5, <4>2
      <4> QED
        BY <4>1, <4>2
    <3>6. ASSUME m = n, i = x
          PROVE  \E k \in DOMAIN walk' : walk'[k].node = m /\ i < walk'[k].next
      BY <1>2, <1>3, <3>2, <3>6
    <3> QED
      BY <3>4, <3>5, <3>6
  <2> QED
    BY <1>9, <1>10, <2>1, <2>2
<1>12. ASSUME NEW k \in DOMAIN walk', NEW l \in DOMAIN walk', k < l
       PROVE  walk'[k].node < walk'[l].node
  <2>2. k \in E
    BY <1>3, <1>12
  <2>3. CASE l \in E
    BY <1>12, <1>a, <2>2, <2>3 DEF IInv, Walked, E
  <2>4. CASE l = W + 1
    <3>1. walk'[k].node <= n /\ walk'[k].node \in Nat /\ n \in Nat /\ c \in Nat
      BY <1>2, <1>a, <2>2
    <3> QED
      BY <1>2, <1>3, <2>4, <3>1
  <2> QED
    BY <1>3, <2>3, <2>4
<1>13. c \notin Visited
  <2>1. n \notin Posted
    BY <1>2, <1>4 DEF IInv, Walked, E
  <2>2. ~\E k \in E : walk[k].node = n /\ x < walk[k].next
    BY <1>2, <1>4
  <2> QED
    BY <1>2, <2>1, <2>2 DEF IInv, Walked, D, E, c
<1>14. \A k \in DOMAIN walk' : walk'[k].node \notin Posted
  <2>1. \A j \in E : walk'[j].node = walk[j].node
    BY <1>3, <1>4
  <2>2. c \notin Posted
    BY <1>13 DEF Visited
  <2> QED
    BY <1>3, <2>1, <2>2 DEF IInv, Walked, E
<1>15. walk'[1].node = Root
  <2>1. 1 \in E /\ walk[1].node = Root
    BY HereFacts DEF IInv, Walked, E
  <2> QED
    BY <1>3, <1>4, <2>1
<1>16. (\A p \in DOMAIN post : \A i \in Kids(post[p]) :
          \E q \in 1 .. (p - 1) : post[q] = Kid(post[p], i))'
  BY DEF IInv, Walked, Kids, Kid
<1>17. Walked'
  <2>1. DOMAIN nodes' = D /\ D = DOMAIN nodes
    BY DEF D
  <2>2. pc' = "walk" /\ walk' # <<>>
    BY <1>3
  <2>3. (\A p, q \in DOMAIN post : post[p] = post[q] => p = q)'
    BY DEF IInv, Walked
  <2>4. (\A m \in DOMAIN nodes : \A i \in Kids(m) :
           Kid(m, i) \in Visited <=>
             m \in Posted \/ \E k \in DOMAIN walk : walk[k].node = m /\ i < walk[k].next)'
    BY <1>6, <1>8, <1>11, <2>1
  <2>5. (\A k \in DOMAIN walk : walk[k].node \notin Posted)'
    BY <1>8, <1>14
  <2> QED
    BY <1>12, <1>15, <1>16, <2>2, <2>3, <2>4, <2>5 DEF Walked
<1>18. Emitted'
  <2>1. written = <<>> /\ pos = 1 /\ Len(maps) = pos /\ maps[1] = Main
    BY DEF IInv, Emitted
  <2> QED
    BY <2>1 DEF Emitted
<1> QED
  BY <1>5, <1>7, <1>9, <1>17, <1>18 DEF IInv, n, x, c

\* The innermost call of the traversal returns: its node is pushed, after its
\* children.
LEMMA AscendInv ==
  ASSUME IInv, pc = "walk", walk # <<>>, Ascend, post' = Append(post, Here.node),
         UNCHANGED <<nodes, frames, pos, maps, written, pc>>
  PROVE  /\ IInv'
         /\ Visited' = Visited
         /\ Posted' = Posted \cup {Here.node} /\ Here.node \notin Posted
<1> DEFINE W == Len(walk)
           E == DOMAIN walk
           D == DOMAIN nodes
           n == Here.node
           x == Here.next
           P == Len(post)
<1>1. n \in D /\ D \subseteq Nat /\ W \in E /\ \A i \in Kids(n) : i < x
  <2>1. x > Len(nodes[n].children) /\ n \in D /\ x \in Nat
    BY HereFacts DEF Ascend
  <2>2. Len(nodes[n].children) \in Nat /\ Kids(n) = 1 .. Len(nodes[n].children)
    BY <2>1, KidFacts
  <2> QED
    BY <2>1, <2>2, HereFacts, NodeFacts
<1>2. /\ walk' \in Seq(Steps) /\ DOMAIN walk' = E \ {W}
      /\ \A k \in E \ {W} : walk'[k] = walk[k]
      /\ (walk' = <<>>) <=> (W = 1)
      /\ (W # 1 => 1 \in E \ {W}) /\ 1 \in E
  <2>1. W \in Nat \ {0} /\ E = 1 .. W /\ walk \in Seq(Steps)
    BY HereFacts DEF IInv, TypeOK
  <2>2. walk' = SubSeq(walk, 1, Len(walk) - 1)
    BY DEF Ascend
  <2>3. /\ walk' \in Seq(Steps) /\ DOMAIN walk' = E \ {W}
        /\ \A k \in E \ {W} : walk'[k] = walk[k]
        /\ (walk' = <<>>) <=> (W = 1)
    BY <2>1, <2>2, PopLast
  <2> QED
    BY <2>1, <2>3
<1>3. /\ post' \in Seq(D) /\ post' # <<>> /\ Len(post') = P + 1
      /\ DOMAIN post' = DOMAIN post \cup {P + 1}
      /\ \A p \in DOMAIN post : post'[p] = post[p] /\ p \in Nat /\ p < P + 1 /\ post[p] \in D
      /\ post'[P + 1] = n /\ P \in Nat
      /\ DOMAIN post = 1 .. P
  <2>1. post \in Seq(D) /\ n \in D /\ post' = Append(post, n)
    BY <1>1 DEF IInv, TypeOK
  <2> HIDE DEF D, n
  <2>2. /\ post' \in Seq(D) /\ post' # <<>> /\ Len(post') = P + 1 /\ P \in Nat
        /\ DOMAIN post' = 1 .. (P + 1) /\ DOMAIN post = 1 .. P
        /\ \A p \in 1 .. P : post'[p] = post[p]
        /\ post'[P + 1] = n
    BY <2>1, Push
  <2>3. \A p \in 1 .. P : post[p] \in D
    BY <2>1, SeqFacts
  <2> QED
    BY <2>2, <2>3
<1>4. /\ \A k \in E \ {W} : walk[k].node < n /\ walk[k].node \in D
      /\ walk[W].node = n /\ walk[W].next = x
  BY HereFacts DEF Here
<1>5. TypeOK'
  BY <1>2, <1>3 DEF IInv, TypeOK, Nodes, Frames, Steps
<1>6. \A m \in D : Kids(m)' = Kids(m) /\ \A i \in Kids(m) : Kid(m, i)' = Kid(m, i)
  BY DEF Kids, Kid
<1>7. Tree'
  BY TreeStays
<1>8. n \notin Posted
  BY <1>1, <1>4 DEF IInv, Walked
<1> HIDE DEF W, E, D, n, x, P
<1>9. Posted' = Posted \cup {n}
  BY <1>3 DEF Posted
<1>10. Visited' = Visited
  <2>1. {walk'[k].node : k \in DOMAIN walk'} \cup {n} = {walk[k].node : k \in E}
    BY <1>1, <1>2, <1>4
  <2> QED
    BY <1>9, <2>1 DEF Visited, E
<1>11. ASSUME NEW m \in D, NEW i \in Kids(m)
       PROVE  Kid(m, i) \in Visited' <=>
                m \in Posted' \/ \E k \in DOMAIN walk' : walk'[k].node = m /\ i < walk'[k].next
  <2>1. Kid(m, i) \in Visited <=>
          m \in Posted \/ \E k \in E : walk[k].node = m /\ i < walk[k].next
    BY DEF IInv, Walked, D, E
  <2>2. CASE m = n
    BY <1>1, <1>4, <1>9, <1>10, <2>1, <2>2
  <2>3. CASE m # n
    <3>1. (\E k \in DOMAIN walk' : walk'[k].node = m /\ i < walk'[k].next)
            <=> (\E k \in E : walk[k].node = m /\ i < walk[k].next)
      BY <1>2, <1>4, <2>3
    <3> QED
      BY <1>9, <1>10, <2>1, <2>3, <3>1
  <2> QED
    BY <2>2, <2>3
<1>12. \A k, l \in DOMAIN walk' : k < l => walk'[k].node < walk'[l].node
  BY <1>2 DEF IInv, Walked, E
<1>13. \A p, q \in DOMAIN post' : post'[p] = post'[q] => p = q
  <2>1. \A p \in DOMAIN post : post[p] # n
    BY <1>8 DEF Posted
  <2>2. \A p, q \in DOMAIN post : post[p] = post[q] => p = q
    BY DEF IInv, Walked
  <2> QED
    BY <1>3, <2>1, <2>2
<1>14. \A k \in DOMAIN walk' : walk'[k].node \notin Posted'
  <2> TAKE k \in DOMAIN walk'
  <2>1. k \in E \ {W} /\ walk'[k] = walk[k]
    BY <1>2
  <2>2. walk[k].node # n
    <3>1. walk[k].node < n /\ walk[k].node \in Nat /\ n \in Nat
      BY <1>1, <1>4, <2>1
    <3> QED
      BY <3>1
  <2>3. walk[k].node \notin Posted
    BY <2>1 DEF IInv, Walked, E
  <2> QED
    BY <1>9, <2>1, <2>2, <2>3
<1>15. /\ walk' # <<>> => walk'[1].node = Root
       /\ walk' = <<>> => post'[Len(post')] = Root
  <2>1. walk[1].node = Root
    BY DEF IInv, Walked
  <2> QED
    BY <1>2, <1>3, <1>4, <2>1
<1>16. ASSUME NEW p \in DOMAIN post', NEW m \in D, m = post'[p], NEW i \in Kids(m)
       PROVE  \E q \in 1 .. (p - 1) : post'[q] = Kid(m, i)
  <2>1. CASE p = P + 1
    <3>1. m = n
      BY <1>3, <1>16, <2>1
    <3>2. Kid(m, i) \in Visited
      BY <1>1, <1>4, <3>1 DEF IInv, Walked, D, E
    <3>3. Kid(m, i) \in D /\ m < Kid(m, i)
      BY KidFacts DEF D
    <3>4. \A k \in E : walk[k].node # Kid(m, i)
      <4> TAKE k \in E
      <4>0. n \in Nat /\ Kid(m, i) \in Nat /\ n < Kid(m, i)
        BY <1>1, <3>1, <3>3
      <4>1. CASE k = W
        BY <1>4, <4>0, <4>1
      <4>2. CASE k # W
        <5>1. walk[k].node < n /\ walk[k].node \in Nat
          BY <1>1, <1>4, <4>2
        <5> QED
          BY <4>0, <5>1
      <4> QED
        BY <4>1, <4>2
    <3>5. PICK q \in DOMAIN post : post[q] = Kid(m, i)
      BY <3>2, <3>4 DEF Visited, Posted, E
    <3> QED
      BY <1>3, <2>1, <3>5
  <2>2. CASE p \in DOMAIN post
    <3>1. PICK q \in 1 .. (p - 1) : post[q] = Kid(m, i)
      BY <1>3, <1>16, <2>2 DEF IInv, Walked
    <3>2. q \in DOMAIN post
      BY <1>3, <2>2
    <3> QED
      BY <1>3, <3>1, <3>2
  <2> QED
    BY <1>3, <2>1, <2>2
<1>17. (\A p \in DOMAIN post : \A i \in Kids(post[p]) :
          \E q \in 1 .. (p - 1) : post[q] = Kid(post[p], i))'
  <2>1. \A p \in DOMAIN post' : post'[p] \in D
    BY <1>1, <1>3
  <2>2. \A p \in DOMAIN post' : \A i \in Kids(post'[p]) :
          \E q \in 1 .. (p - 1) : post'[q] = Kid(post'[p], i)
    BY <1>16, <2>1
  <2> QED
    BY <2>2 DEF Kids, Kid
<1>18. Walked'
  <2>1. DOMAIN nodes' = D /\ D = DOMAIN nodes
    BY DEF D
  <2>2. pc' = "walk"
    OBVIOUS
  <2>3. (\A m \in DOMAIN nodes : \A i \in Kids(m) :
           Kid(m, i) \in Visited <=>
             m \in Posted \/ \E k \in DOMAIN walk : walk[k].node = m /\ i < walk[k].next)'
    BY <1>6, <1>11, <2>1
  <2>4. (walk = <<>> => post # <<>> /\ post[Len(post)] = Root)'
    BY <1>3, <1>15
  <2> QED
    BY <1>12, <1>13, <1>14, <1>15, <1>17, <2>2, <2>3, <2>4 DEF Walked
<1>19. Emitted'
  <2>1. written = <<>> /\ pos = 1 /\ Len(maps) = pos /\ maps[1] = Main
    BY DEF IInv, Emitted
  <2> QED
    BY <2>1 DEF Emitted
<1> QED
  BY <1>5, <1>7, <1>8, <1>9, <1>10, <1>18, <1>19 DEF IInv, n

\* The list the loop goes over, and the entries made before this iteration.
LEMMA PostFacts ==
  ASSUME IInv, pc = "emit"
  PROVE  /\ Len(post) \in Nat \ {0} /\ DOMAIN post = 1 .. Len(post)
         /\ \A p \in DOMAIN post : post[p] \in DOMAIN nodes /\ post[p] \in Nat
         /\ \A p, q \in DOMAIN post : post[p] = post[q] => p = q
         /\ pos \in Nat \ {0} /\ pos <= Len(post) /\ pos \in DOMAIN post
         /\ post[Len(post)] = Root /\ Len(post) \in DOMAIN post
         /\ maps \in Seq(Nat) /\ Len(maps) = pos /\ DOMAIN maps = 1 .. pos
         /\ maps[1] = Main /\ \A i \in 1 .. (pos - 1) : maps[i + 1] = post[i] - 1
<1>1. /\ post \in Seq(DOMAIN nodes) /\ pos \in Nat \ {0} /\ maps \in Seq(Nat)
      /\ pos <= Len(post) /\ Len(maps) = pos /\ maps[1] = Main
      /\ \A i \in 1 .. (pos - 1) : maps[i + 1] = post[i] - 1
      /\ post # <<>> /\ post[Len(post)] = Root
      /\ \A p, q \in DOMAIN post : post[p] = post[q] => p = q
  BY DEF IInv, TypeOK, Walked, Emitted
<1>2. /\ Len(post) \in Nat \ {0} /\ DOMAIN post = 1 .. Len(post)
      /\ \A p \in 1 .. Len(post) : post[p] \in DOMAIN nodes
  BY <1>1, SeqFacts
<1>3. DOMAIN maps = 1 .. pos
  BY <1>1, SeqFacts
<1> QED
  BY <1>1, <1>2, <1>3, NodeFacts

\* insert_function_invocation makes one call per child when one entry of the
\* list it is given has the name of the caller.
LEMMA CallsFacts ==
  ASSUME IInv, NEW n \in DOMAIN nodes, NEW M, NEW j,
         {i \in DOMAIN M : M[i] = n - 1} = {j}
  PROVE  /\ nodes[n].name = n - 1
         /\ [name |-> n - 1, sig |-> nodes[n].sig, calls |-> Calls(n, M)] = Function(n)
<1>1. \A m \in DOMAIN nodes : nodes[m].name = m - 1
  BY DEF IInv, TypeOK
<1>2. Cardinality({i \in DOMAIN M : M[i] = nodes[n].name}) = 1
  <2>1. {i \in DOMAIN M : M[i] = nodes[n].name} = {j}
    BY <1>1
  <2>2. Cardinality({j}) = 1
    BY FS_Singleton
  <2> QED
    BY <2>1, <2>2
<1>3. \A k \in Kids(n) : Kid(n, k) \in DOMAIN nodes
  BY KidFacts
<1>4. Calls(n, M) =
        [k \in Kids(n) |-> [name |-> nodes[Kid(n, k)].name, sig |-> nodes[Kid(n, k)].sig,
                            times |-> 1]]
  BY <1>2 DEF Calls, Kids, Kid
<1>5. Calls(n, M) =
        [k \in Kids(n) |-> [name |-> Kid(n, k) - 1, sig |-> nodes[Kid(n, k)].sig,
                            times |-> 1]]
  BY <1>1, <1>3, <1>4
<1> QED
  BY <1>1, <1>5 DEF Function

\* What is to be written of a node stays when the tree does.
LEMMA FunctionStays ==
  ASSUME UNCHANGED nodes
  PROVE  /\ \A n : Function(n)' = Function(n)
         /\ {Function(n) : n \in DOMAIN nodes}' = {Function(n) : n \in DOMAIN nodes}
<1>1. \A n : Function(n)' = Function(n)
  BY DEF Function, Kids, Kid
<1> QED
  BY <1>1

\* An iteration of the loop, and the end of it, add the function of the node at
\* the current position.
LEMMA WrittenInv ==
  ASSUME IInv, pc = "emit", UNCHANGED <<nodes, frames, walk, post>>,
         written' = Append(written, Function(post[pos])),
         pc' \in {"emit", "done"}
  PROVE  /\ Len(written') = pos
         /\ (written \in Seq({Function(n) : n \in DOMAIN nodes}))'
         /\ (\A i \in DOMAIN written : i \in DOMAIN post /\ written[i] = Function(post[i]))'
         /\ Tree' /\ Walked'
<1> DEFINE S == {Function(n) : n \in DOMAIN nodes}
           f == Function(post[pos])
<1>1. /\ \A n : Function(n)' = Function(n)
      /\ {Function(n) : n \in DOMAIN nodes}' = {Function(n) : n \in DOMAIN nodes}
  BY FunctionStays
<1>2. written \in Seq(S) /\ f \in S /\ written' = Append(written, f) /\ Len(written) = pos - 1
  BY PostFacts DEF IInv, Emitted
<1> HIDE DEF S, f
<1>3. /\ written' \in Seq(S) /\ Len(written') = Len(written) + 1
      /\ DOMAIN written' = 1 .. (Len(written) + 1) /\ DOMAIN written = 1 .. Len(written)
      /\ \A i \in 1 .. Len(written) : written'[i] = written[i]
      /\ written'[Len(written) + 1] = f
  BY <1>2, Push
<1>4. /\ Len(written') = pos /\ DOMAIN written' = 1 .. pos /\ DOMAIN written = 1 .. (pos - 1)
      /\ \A i \in 1 .. (pos - 1) : written'[i] = written[i]
      /\ written'[pos] = f
  BY <1>2, <1>3, PostFacts
<1>5. S' = S
  BY <1>1 DEF S
<1>6. (written \in Seq({Function(n) : n \in DOMAIN nodes}))'
  BY <1>3, <1>5 DEF S
<1>7. \A i \in DOMAIN written' : i \in DOMAIN post /\ written'[i] = Function(post[i])
  <2>1. \A i \in 1 .. (pos - 1) : i \in DOMAIN post /\ written[i] = Function(post[i])
    BY <1>4 DEF IInv, Emitted
  <2> QED
    BY <1>4, <2>1, PostFacts DEF f
<1>8. (\A i \in DOMAIN written : i \in DOMAIN post /\ written[i] = Function(post[i]))'
  BY <1>1, <1>7
<1>9. Tree'
  BY TreeStays
<1>10. Walked'
  BY WalkStays
<1> QED
  BY <1>4, <1>6, <1>8, <1>9, <1>10

\* A function but the root is generated, linked and written.
LEMMA EmitInv ==
  ASSUME IInv, Emit
  PROVE  IInv'
<1> DEFINE n == post[pos]
<1>1. /\ pc = "emit" /\ pc' = "emit" /\ pos < Len(post) /\ pos' = pos + 1
      /\ UNCHANGED <<nodes, frames, walk, post>>
      /\ maps' = Append(maps, nodes[n].name)
  BY DEF Emit
<1>2. n \in DOMAIN nodes /\ n \in Nat /\ n # Root
  <2>1. n \in DOMAIN nodes /\ n \in Nat /\ pos \in DOMAIN post
    BY <1>1, PostFacts
  <2>2. ASSUME n = Root
        PROVE  FALSE
    <3>1. pos = Len(post)
      BY <1>1, <2>1, <2>2, PostFacts
    <3> QED
      BY <1>1, <3>1, PostFacts
  <2> QED
    BY <2>1, <2>2
<1>3. nodes[n].name = n - 1 /\ n - 1 \in Nat
  <2>1. \A m \in DOMAIN nodes : nodes[m].name = m - 1
    BY DEF IInv, TypeOK
  <2>2. DOMAIN nodes = 1 .. Len(nodes) /\ Len(nodes) \in Nat
    BY NodeFacts
  <2>3. n >= 1
    BY <1>2, <2>2
  <2> QED
    BY <1>2, <2>1, <2>3
<1>4. /\ maps' \in Seq(Nat) /\ Len(maps') = pos + 1 /\ DOMAIN maps' = 1 .. (pos + 1)
      /\ \A i \in 1 .. pos : maps'[i] = maps[i]
      /\ maps'[pos + 1] = n - 1
  <2>1. maps \in Seq(Nat) /\ n - 1 \in Nat /\ maps' = Append(maps, n - 1) /\ Len(maps) = pos
    BY <1>1, <1>3, PostFacts
  <2> QED
    BY <2>1, Push
<1>5. /\ pos \in Nat \ {0} /\ maps'[1] = Main
      /\ \A i \in 1 .. pos : maps'[i + 1] = post[i] - 1
  <2>1. pos \in Nat \ {0} /\ maps[1] = Main /\ 1 \in 1 .. pos
    BY <1>1, PostFacts
  <2>2. \A i \in 1 .. (pos - 1) : maps[i + 1] = post[i] - 1 /\ i + 1 \in 1 .. pos
    BY <1>1, <2>1, PostFacts
  <2> QED
    BY <1>4, <2>1, <2>2
<1>6. {i \in DOMAIN maps' : maps'[i] = n - 1} = {pos + 1}
  <2>1. ASSUME NEW i \in 1 .. (pos + 1), maps'[i] = n - 1
        PROVE  i = pos + 1
    <3>1. CASE i = 1
      BY <1>2, <1>5, <2>1, <3>1 DEF Root, Main
    <3>2. CASE i # 1
      <4>1. i - 1 \in 1 .. pos /\ i - 1 + 1 = i /\ i - 1 \in DOMAIN post /\ pos \in DOMAIN post
        BY <1>1, <1>5, <3>2, PostFacts
      <4>2. post[i - 1] = n
        <5>1. maps'[i] = post[i - 1] - 1 /\ post[i - 1] \in Nat
          BY <1>1, <1>5, <4>1, PostFacts
        <5> QED
          BY <1>2, <2>1, <5>1
      <4>3. i - 1 = pos
        BY <1>1, <4>1, <4>2, PostFacts
      <4> QED
        BY <1>5, <4>3
    <3> QED
      BY <3>1, <3>2
  <2>2. pos + 1 \in 1 .. (pos + 1)
    BY <1>5
  <2> QED
    BY <1>4, <2>1, <2>2
<1>7. written' = Append(written, Function(n))
  <2>1. [name |-> n - 1, sig |-> nodes[n].sig, calls |-> Calls(n, maps')] = Function(n)
    BY <1>2, <1>6, CallsFacts
  <2>2. written' = Append(written, [name |-> nodes[n].name, sig |-> nodes[n].sig,
                                    calls |-> Calls(n, maps')])
    BY <1>2 DEF Emit, GeneratedSignature
  <2> QED
    BY <1>3, <2>1, <2>2
<1>8. /\ Len(written') = pos
      /\ (written \in Seq({Function(m) : m \in DOMAIN nodes}))'
      /\ (\A i \in DOMAIN written : i \in DOMAIN post /\ written[i] = Function(post[i]))'
      /\ Tree' /\ Walked'
  BY <1>1, <1>7, WrittenInv
<1>9. TypeOK'
  <2>1. maps' \in Seq(Nat) /\ pos' \in Nat \ {0}
    BY <1>1, <1>4, <1>5
  <2> QED
    BY <1>1, <2>1 DEF IInv, TypeOK, Nodes, Frames, Steps
<1>10. Emitted'
  <2>1. pos' - 1 = pos /\ pos' <= Len(post')
    BY <1>1, <1>5, PostFacts
  <2> QED
    BY <1>1, <1>4, <1>5, <1>8, <2>1 DEF Emitted
<1> QED
  BY <1>8, <1>9, <1>10 DEF IInv

\* The root is linked and written.
LEMMA EmitRootInv ==
  ASSUME IInv, EmitRoot
  PROVE  IInv'
<1>1. /\ pc = "emit" /\ pc' = "done" /\ pos = Len(post)
      /\ UNCHANGED <<nodes, frames, walk, post, pos, maps>>
  BY DEF EmitRoot
<1>2. /\ post[pos] = Root /\ Root \in DOMAIN nodes /\ pos \in DOMAIN post
      /\ pos \in Nat \ {0} /\ maps[1] = Main /\ DOMAIN maps = 1 .. pos
  BY <1>1, PostFacts, NodeFacts
<1>3. {i \in DOMAIN maps : maps[i] = Root - 1} = {1}
  <2>1. ASSUME NEW i \in 1 .. pos, maps[i] = Root - 1, i # 1
        PROVE  FALSE
    <3>1. i - 1 \in 1 .. (pos - 1) /\ i - 1 + 1 = i /\ i - 1 \in DOMAIN post
      BY <1>1, <1>2, <2>1, PostFacts
    <3>2. post[i - 1] = Root
      <4>1. maps[i] = post[i - 1] - 1 /\ post[i - 1] \in Nat
        BY <1>1, <3>1, PostFacts
      <4> QED
        BY <2>1, <4>1 DEF Root
    <3>3. i - 1 = pos
      BY <1>1, <1>2, <3>1, <3>2, PostFacts
    <3> QED
      BY <1>2, <3>3
  <2>2. 1 \in 1 .. pos /\ maps[1] = Root - 1
    BY <1>2 DEF Root, Main
  <2> QED
    BY <1>2, <2>1, <2>2
<1>4. written' = Append(written, Function(post[pos]))
  <2>1. [name |-> Root - 1, sig |-> nodes[Root].sig, calls |-> Calls(Root, maps)] = Function(Root)
    BY <1>2, <1>3, CallsFacts
  <2>2. Root - 1 = Main
    BY DEF Root, Main
  <2> QED
    BY <1>2, <2>1, <2>2 DEF EmitRoot
<1>5. /\ Len(written') = pos
      /\ (written \in Seq({Function(m) : m \in DOMAIN nodes}))'
      /\ (\A i \in DOMAIN written : i \in DOMAIN post /\ written[i] = Function(post[i]))'
      /\ Tree' /\ Walked'
  BY <1>1, <1>4, WrittenInv
<1>6. TypeOK'
  BY <1>1 DEF IInv, TypeOK, Nodes, Frames, Steps
<1>7. Emitted'
  BY <1>1, <1>5 DEF Emitted
<1> QED
  BY <1>5, <1>6, <1>7 DEF IInv

\* What makes a program come out right is inductive: the calls of
\* generate_function_tree build a tree, cg_post_order_traversal goes to each
\* node of it once and pushes it after its children, and the loop of
\* generate_ir writes the functions in that order.
THEOREM Invariance == Spec => []IInv
<1>1. Init => IInv
  BY InitInv
<1>2. IInv /\ [Next]_vars => IInv'
  <2> SUFFICES ASSUME IInv, [Next]_vars
               PROVE  IInv'
    OBVIOUS
  <2>1. CASE AddChild
    BY <2>1, AddChildInv
  <2>2. CASE EndChildren
    BY <2>2, EndTreeInv, AdoptInv
  <2>3. CASE GenerateRoot
    BY <2>3, GenerateRootInv
  <2>4. CASE Traverse
    <3>1. CASE walk = <<>> /\ pc' = "emit" /\ UNCHANGED <<walk, post>>
      BY <2>4, <3>1, EndWalkInv DEF Traverse
    <3>2. CASE walk # <<>> /\ Descend /\ UNCHANGED <<post, pc>>
      BY <2>4, <3>2, DescendInv DEF Traverse
    <3>3. CASE walk # <<>> /\ Ascend /\ post' = Append(post, Here.node) /\ UNCHANGED pc
      BY <2>4, <3>3, AscendInv DEF Traverse
    <3> QED
      BY <2>4, <3>1, <3>2, <3>3 DEF Traverse
  <2>5. CASE Emit
    BY <2>5, EmitInv
  <2>6. CASE EmitRoot
    BY <2>6, EmitRootInv
  <2>7. CASE UNCHANGED vars
    <3>1. TypeOK'
      BY <2>7 DEF vars, IInv, TypeOK, Nodes, Frames, Steps
    <3>2. Tree'
      BY <2>7, TreeStays DEF vars
    <3>3. Walked'
      BY <2>7, WalkStays DEF vars
    <3>4. Emitted'
      <4>1. /\ \A n : Function(n)' = Function(n)
            /\ {Function(n) : n \in DOMAIN nodes}' = {Function(n) : n \in DOMAIN nodes}
        BY <2>7, FunctionStays DEF vars
      <4>2. (written \in Seq({Function(n) : n \in DOMAIN nodes}))'
        BY <2>7, <4>1 DEF vars, IInv, Emitted
      <4>3. (\A i \in DOMAIN written : i \in DOMAIN post /\ written[i] = Function(post[i]))'
        BY <2>7, <4>1 DEF vars, IInv, Emitted
      <4> QED
        BY <2>7, <4>2, <4>3 DEF vars, IInv, Emitted
    <3> QED
      BY <3>1, <3>2, <3>3, <3>4 DEF IInv
  <2> QED
    BY <2>1, <2>2, <2>3, <2>4, <2>5, <2>6, <2>7 DEF Next, Done
<1> QED
  BY <1>1, <1>2, PTL DEF Spec

\* What is written, read off the list of the traversal.
LEMMA WrittenFacts ==
  ASSUME IInv
  PROVE  /\ Len(written) \in Nat /\ DOMAIN written = 1 .. Len(written)
         /\ \A i \in DOMAIN written :
              /\ i \in DOMAIN post /\ post[i] \in DOMAIN nodes /\ post[i] \in Nat
              /\ written[i].name = post[i] - 1 /\ written[i].sig = nodes[post[i]].sig
              /\ DOMAIN written[i].calls = Kids(post[i])
              /\ \A c \in Kids(post[i]) :
                   /\ Kid(post[i], c) \in DOMAIN nodes /\ Kid(post[i], c) \in Nat
                   /\ written[i].calls[c].name = Kid(post[i], c) - 1
                   /\ written[i].calls[c].sig = nodes[Kid(post[i], c)].sig
                   /\ written[i].calls[c].times = 1
<1>1. Len(written) \in Nat /\ DOMAIN written = 1 .. Len(written)
  <2>1. written \in Seq({Function(n) : n \in DOMAIN nodes})
    BY DEF IInv, Emitted
  <2> DEFINE S == {Function(n) : n \in DOMAIN nodes}
  <2> HIDE DEF S
  <2>2. written \in Seq(S)
    BY <2>1 DEF S
  <2> QED
    BY <2>2, SeqFacts
<1>2. \A i \in DOMAIN written : i \in DOMAIN post /\ written[i] = Function(post[i])
  BY DEF IInv, Emitted
<1>3. \A p \in DOMAIN post : post[p] \in DOMAIN nodes
  BY SeqFacts DEF IInv, TypeOK
<1>4. DOMAIN nodes \subseteq Nat
  BY NodeFacts
<1>5. \A n \in DOMAIN nodes : \A c \in Kids(n) : Kid(n, c) \in DOMAIN nodes
  BY KidFacts
<1>6. ASSUME NEW i \in DOMAIN written
      PROVE  /\ i \in DOMAIN post /\ post[i] \in DOMAIN nodes /\ post[i] \in Nat
             /\ written[i] = Function(post[i])
  BY <1>2, <1>3, <1>4
<1>7. ASSUME NEW n \in DOMAIN nodes
      PROVE  /\ Function(n).name = n - 1 /\ Function(n).sig = nodes[n].sig
             /\ DOMAIN Function(n).calls = Kids(n)
             /\ \A c \in Kids(n) :
                  /\ Function(n).calls[c].name = Kid(n, c) - 1
                  /\ Function(n).calls[c].sig = nodes[Kid(n, c)].sig
                  /\ Function(n).calls[c].times = 1
  BY DEF Function
<1>8. \A n \in DOMAIN nodes : \A c \in Kids(n) :
        Kid(n, c) \in DOMAIN nodes /\ Kid(n, c) \in Nat
  BY <1>4, <1>5
<1> SUFFICES ASSUME NEW i \in DOMAIN written
             PROVE  /\ written[i].name = post[i] - 1 /\ written[i].sig = nodes[post[i]].sig
                    /\ DOMAIN written[i].calls = Kids(post[i])
                    /\ \A c \in Kids(post[i]) :
                         /\ written[i].calls[c].name = Kid(post[i], c) - 1
                         /\ written[i].calls[c].sig = nodes[Kid(post[i], c)].sig
                         /\ written[i].calls[c].times = 1
  BY <1>1, <1>6, <1>8
<1> QED
  BY <1>6, <1>7

\* However the tree and the signatures are drawn, a function is written after
\* those it calls, and its calls have their names and final signatures.
THEOREM CalleesFirst == Spec => []CalleesWrittenFirst
<1>1. IInv => CalleesWrittenFirst
  <2> SUFFICES ASSUME IInv, NEW i \in DOMAIN written, NEW c \in DOMAIN written[i].calls
               PROVE  \E j \in 1 .. (i - 1) :
                        /\ {w \in DOMAIN written : written[w].name = written[i].calls[c].name}
                             = {j}
                        /\ written[j].sig = written[i].calls[c].sig
    BY DEF CalleesWrittenFirst
  <2> DEFINE k == Kid(post[i], c)
  <2>1. /\ i \in DOMAIN post /\ c \in Kids(post[i]) /\ k \in Nat
        /\ written[i].calls[c].name = k - 1 /\ written[i].calls[c].sig = nodes[k].sig
    BY WrittenFacts
  <2>2. PICK q \in 1 .. (i - 1) : post[q] = k
    BY <2>1 DEF IInv, Walked
  <2> HIDE DEF k
  <2>3. q \in DOMAIN written /\ i \in Nat
    BY <2>2, WrittenFacts
  <2>4. \A w \in DOMAIN written : written[w].name = k - 1 <=> w = q
    <3>1. \A w \in DOMAIN written : written[w].name = post[w] - 1 /\ post[w] \in Nat
                                    /\ w \in DOMAIN post
      BY WrittenFacts
    <3>2. \A v, w \in DOMAIN post : post[v] = post[w] => v = w
      BY DEF IInv, Walked
    <3> QED
      BY <2>1, <2>2, <2>3, <3>1, <3>2
  <2>5. {w \in DOMAIN written : written[w].name = k - 1} = {q}
    BY <2>3, <2>4
  <2>6. written[q].sig = nodes[k].sig
    BY <2>2, <2>3, WrittenFacts
  <2> QED
    BY <2>1, <2>2, <2>5, <2>6
<1> QED
  BY <1>1, Invariance, PTL

\* However the tree is drawn, the finished program has all its functions, main
\* is the last, and each other one is called from one place.
THEOREM CalledExactlyOnce == Spec => []CalledOnce
<1>1. IInv => CalledOnce
  <2> SUFFICES ASSUME IInv, pc = "done"
               PROVE  /\ {written[i].name : i \in DOMAIN written} =
                           {nodes[n].name : n \in DOMAIN nodes}
                      /\ written[Len(written)].name = Main
                      /\ \A i \in DOMAIN written : written[i].name # Main =>
                           \E s \in Sites(written[i].name) :
                             /\ Sites(written[i].name) = {s}
                             /\ written[s[1]].calls[s[2]].times = 1
    BY DEF CalledOnce
  <2>1. /\ DOMAIN written = DOMAIN post /\ Len(written) = Len(post)
        /\ Len(written) \in DOMAIN written
        /\ post[Len(post)] = Root /\ Posted = DOMAIN nodes /\ frames = <<>>
        /\ \A n \in DOMAIN nodes : nodes[n].name = n - 1
        /\ \A v, w \in DOMAIN post : post[v] = post[w] => v = w
    <3>1. /\ Len(written) = Len(post) /\ post # <<>> /\ post \in Seq(DOMAIN nodes)
          /\ post[Len(post)] = Root /\ Posted = DOMAIN nodes /\ frames = <<>>
          /\ \A n \in DOMAIN nodes : nodes[n].name = n - 1
          /\ \A v, w \in DOMAIN post : post[v] = post[w] => v = w
      BY DEF IInv, TypeOK, Tree, Walked, Emitted
    <3>2. DOMAIN post = 1 .. Len(post) /\ Len(post) \in 1 .. Len(post)
      BY <3>1, SeqFacts
    <3> QED
      BY <3>1, <3>2, WrittenFacts
  <2>a. \A i \in DOMAIN written :
          post[i] \in DOMAIN nodes /\ post[i] \in Nat /\ written[i].name = post[i] - 1
    BY WrittenFacts
  <2>2. {written[i].name : i \in DOMAIN written} = {nodes[n].name : n \in DOMAIN nodes}
    <3>1. Posted = {post[i] : i \in DOMAIN post}
      BY DEF Posted
    <3>2. \A i \in DOMAIN written : \E n \in DOMAIN nodes : written[i].name = nodes[n].name
      BY <2>1, <2>a
    <3>3. \A n \in DOMAIN nodes : \E i \in DOMAIN written : written[i].name = nodes[n].name
      BY <2>1, <2>a, <3>1
    <3> QED
      BY <3>2, <3>3
  <2>3. written[Len(written)].name = Main
    BY <2>1, <2>a DEF Root, Main
  <2>b. /\ \A c \in DOMAIN nodes \ {Root} :
             \/ \E n \in DOMAIN nodes : \E k \in Kids(n) : c = Kid(n, k)
             \/ \E k \in DOMAIN frames : c = frames[k].node
        /\ \A n, m \in DOMAIN nodes : \A k \in Kids(n), l \in Kids(m) :
             Kid(n, k) = Kid(m, l) => n = m /\ k = l
    BY DEF IInv, Tree
  <2>4. ASSUME NEW i \in DOMAIN written, written[i].name # Main
        PROVE  \E s \in Sites(written[i].name) :
                 /\ Sites(written[i].name) = {s}
                 /\ written[s[1]].calls[s[2]].times = 1
    <3> DEFINE c == post[i]
    <3>1. c \in DOMAIN nodes /\ c \in Nat /\ c # Root /\ written[i].name = c - 1
      BY <2>4, <2>a DEF Root, Main
    <3> HIDE DEF c
    <3>0. PICK n \in DOMAIN nodes : \E k \in Kids(n) : c = Kid(n, k)
      <4>1. DOMAIN frames = {}
        BY <2>1
      <4> QED
        BY <2>b, <3>1, <4>1
    <3>2. PICK k \in Kids(n) : c = Kid(n, k)
      BY <3>0
    <3>3. PICK p \in DOMAIN written : post[p] = n
      BY <2>1 DEF Posted
    <3>4. k \in DOMAIN written[p].calls
      BY <3>2, <3>3, WrittenFacts
    <3>5. written[p].calls[k].name = c - 1 /\ written[p].calls[k].times = 1
      BY <3>2, <3>3, WrittenFacts
    <3>6. ASSUME NEW q \in DOMAIN written, NEW l \in DOMAIN written[q].calls,
                 written[q].calls[l].name = c - 1
          PROVE  q = p /\ l = k
      <4>1. /\ q \in DOMAIN post /\ post[q] \in DOMAIN nodes /\ l \in Kids(post[q])
            /\ Kid(post[q], l) \in Nat /\ written[q].calls[l].name = Kid(post[q], l) - 1
        BY WrittenFacts
      <4>2. Kid(post[q], l) = c
        BY <3>1, <3>6, <4>1
      <4>3. post[q] = n /\ l = k
        BY <2>b, <3>2, <4>1, <4>2
      <4> QED
        BY <2>1, <3>3, <4>1, <4>3
    <3>7. Sites(c - 1) = {<<p, k>>}
      BY <3>4, <3>5, <3>6 DEF Sites
    <3>8. <<p, k>>[1] = p /\ <<p, k>>[2] = k
      OBVIOUS
    <3> DEFINE s == <<p, k>>
    <3> HIDE DEF s
    <3>9. Sites(written[i].name) = {s} /\ written[s[1]].calls[s[2]].times = 1
      BY <3>1, <3>5, <3>7, <3>8 DEF s
    <3> QED
      BY <3>9
  <2> QED
    BY <2>2, <2>3, <2>4
<1> QED
  BY <1>1, Invariance, PTL

----------------------------------------------------------------------------
(***************************************************************************)
(* The height of the call graph, and why the recursions end.               *)
(***************************************************************************)

\* A call of generate_function_tree makes one child less, and a call for the child
\* is active.
LEMMA AddedFrame ==
  ASSUME IInv, AddChild
  PROVE  LET F == Len(frames)
         IN  /\ F \in Nat \ {0} /\ DOMAIN frames = 1 .. F /\ DOMAIN frames' = 1 .. (F + 1)
             /\ Top = frames[F] /\ Top.left \in Nat \ {0}
             /\ \A i \in 1 .. (F - 1) : frames'[i] = frames[i]
             /\ frames'[F].node = Top.node /\ frames'[F].left = Top.left - 1
             /\ frames'[F + 1].node = Len(nodes) + 1 /\ frames'[F + 1].left \in ToMake(F)
<1> DEFINE F == Len(frames)
           All == [node : Nat, left : Nat]
           fr == [frames EXCEPT ![F].left = @ - 1]
           e == [node |-> Top.node, left |-> Top.left - 1]
<1>1. pc = "tree" /\ Top.left > 0
  BY DEF AddChild
<1>2. PICK k \in ToMake(F) : frames' = Append(fr, [node |-> Len(nodes) + 1, left |-> k])
  BY DEF AddChild
<1>3. k \in Nat
  BY CallGraphAssumption DEF ToMake
<1>4. /\ F \in Nat \ {0} /\ DOMAIN frames = 1 .. F
      /\ Top.left \in Nat \ {0} /\ Top = [node |-> Top.node, left |-> Top.left]
      /\ Top.node \in Nat /\ Len(nodes) \in Nat
  BY <1>1, TopFacts, NodeFacts
<1>5. frames \in Seq(Frames) /\ Frames \subseteq All
  BY NodeFacts DEF IInv, TypeOK, Frames
<1>6. fr = [frames EXCEPT ![F] = e]
  <2>1. [Top EXCEPT !.left = Top.left - 1] = e
    BY <1>4
  <2> QED
    BY <2>1 DEF Top
<1> DEFINE e2 == [node |-> Len(nodes) + 1, left |-> k]
<1>7. e \in All /\ e2 \in All
  BY <1>3, <1>4
<1>8. e.node = Top.node /\ e.left = Top.left - 1 /\ e2.node = Len(nodes) + 1 /\ e2.left = k
  OBVIOUS
<1> HIDE DEF fr, e, e2, All
<1>9. /\ fr \in Seq(All) /\ Len(fr) = F
      /\ fr[F] = e /\ \A i \in 1 .. F : i # F => fr[i] = frames[i]
  BY <1>4, <1>5, <1>6, <1>7, Change
<1>10. /\ DOMAIN frames' = 1 .. (F + 1) /\ frames'[F + 1] = e2
       /\ \A i \in 1 .. F : frames'[i] = fr[i]
  BY <1>2, <1>7, <1>9, Push DEF e2
<1>11. frames'[F] = e
  BY <1>4, <1>9, <1>10
<1>12. \A i \in 1 .. (F - 1) : frames'[i] = frames[i]
  BY <1>4, <1>9, <1>10
<1> QED
  BY <1>2, <1>4, <1>8, <1>10, <1>11, <1>12, Zenon DEF Top

\* The innermost call of generate_function_tree has returned.
LEMMA LeftFrame ==
  ASSUME IInv, EndChildren
  PROVE  LET F == Len(frames)
         IN  /\ F \in Nat \ {0} /\ DOMAIN frames = 1 .. F /\ DOMAIN frames' = 1 .. (F - 1)
             /\ \A i \in 1 .. (F - 1) : frames'[i] = frames[i]
             /\ (Below = <<>>) <=> (F = 1)
<1> DEFINE F == Len(frames)
<1>1. pc = "tree" /\ frames' = Below
  BY DEF EndChildren
<1>2. F \in Nat \ {0} /\ DOMAIN frames = 1 .. F
  BY <1>1, TopFacts
<1> DEFINE n == F - 1
<1>3. n \in Nat /\ F = n + 1
  BY <1>2
<1>4. Below = SubSeq(frames, 1, n)
  BY DEF Below
<1>5. frames \in Seq(Frames)
  BY DEF IInv, TypeOK
<1> HIDE DEF n
<1>6. DOMAIN Below = 1 .. n /\ (\A i \in 1 .. n : Below[i] = frames[i])
  BY <1>3, <1>4, <1>5, Pop
<1>7. (Below = <<>>) <=> (n = 0)
  BY <1>3, <1>4, <1>5, Pop
<1> QED
  BY <1>1, <1>2, <1>3, <1>6, <1>7

\* How far below the root the nodes are: a child one further than the node that
\* calls it, and the nodes of the active calls as far as there are calls around.
Layering(d) ==
  /\ d[Root] = 0
  /\ \A n \in DOMAIN nodes : \A i \in Kids(n) : d[Kid(n, i)] = d[n] + 1
  /\ \A k \in DOMAIN frames : d[frames[k].node] = k - 1

\* No node is further below the root than MaxDepth.
HeightBounded == \E d \in [DOMAIN nodes -> 0 .. MaxDepth] : Layering(d)

\* A call at that depth makes no child.
LeavesAtMaxDepth == \A k \in DOMAIN frames : k > MaxDepth => frames[k].left = 0

\* Making a node keeps the bound: a call that makes one is not at MaxDepth.
LEMMA AddChildHeight ==
  ASSUME IInv, HeightBounded, LeavesAtMaxDepth, AddChild
  PROVE  HeightBounded' /\ LeavesAtMaxDepth'
<1> DEFINE F == Len(frames)
           N == Len(nodes)
           D == DOMAIN nodes
<1>1. /\ F \in Nat \ {0} /\ DOMAIN frames = 1 .. F /\ DOMAIN frames' = 1 .. (F + 1)
      /\ Top = frames[F] /\ Top.left \in Nat \ {0}
      /\ \A i \in 1 .. (F - 1) : frames'[i] = frames[i]
      /\ frames'[F].node = Top.node /\ frames'[F].left = Top.left - 1
      /\ frames'[F + 1].node = N + 1 /\ frames'[F + 1].left \in ToMake(F)
  BY AddedFrame
<1>2. MaxDepth \in Nat /\ F <= MaxDepth
  BY <1>1, CallGraphAssumption DEF LeavesAtMaxDepth
<1>3. LeavesAtMaxDepth'
  <2> SUFFICES ASSUME NEW k \in 1 .. (F + 1), k > MaxDepth PROVE frames'[k].left = 0
    BY <1>1 DEF LeavesAtMaxDepth
  <2>1. k = F + 1 /\ ~(F < MaxDepth)
    BY <1>1, <1>2
  <2> QED
    BY <1>1, <2>1 DEF ToMake
<1>4. PICK sg \in Signatures : nodes' = Append(nodes, Node(NewName, sg))
  BY DEF AddChild
<1>5. /\ N \in Nat \ {0} /\ D = 1 .. N /\ nodes \in Seq(Nodes) /\ Node(NewName, sg) \in Nodes
      /\ Node(NewName, sg).children = <<>>
  <2>1. N \in Nat \ {0} /\ D = 1 .. N /\ nodes \in Seq(Nodes)
    BY NodeFacts DEF IInv, TypeOK
  <2> QED
    BY <2>1, NodeType DEF NewName
<1>6. /\ DOMAIN nodes' = 1 .. (N + 1) /\ nodes'[N + 1] = Node(NewName, sg)
      /\ \A n \in 1 .. N : nodes'[n] = nodes[n]
  BY <1>4, <1>5, Push
<1>7. /\ \A n \in {N + 1} : Kids(n)' = {}
      /\ \A n \in D : Kids(n)' = Kids(n) /\ \A i \in Kids(n) : Kid(n, i)' = Kid(n, i)
  <2>1. \A n \in {N + 1} : Kids(n)' = {}
    BY <1>5, <1>6 DEF Kids
  <2>2. \A n \in D : Kids(n)' = Kids(n) /\ \A i \in Kids(n) : Kid(n, i)' = Kid(n, i)
    BY <1>5, <1>6 DEF Kids, Kid
  <2> QED
    BY <2>1, <2>2
<1>8. PICK d \in [D -> 0 .. MaxDepth] : Layering(d)
  BY DEF HeightBounded
<1>9. PICK g : g = [n \in 1 .. (N + 1) |-> IF n = N + 1 THEN F ELSE d[n]]
  OBVIOUS
<1>10. g \in [DOMAIN nodes' -> 0 .. MaxDepth] /\ g[N + 1] = F /\ \A n \in D : g[n] = d[n]
  BY <1>1, <1>2, <1>5, <1>6, <1>8, <1>9
<1>11. Layering(g)'
  <2>1. g[Root] = 0
    BY <1>8, <1>10, NodeFacts DEF Layering
  <2>2. ASSUME NEW n \in DOMAIN nodes', NEW i \in Kids(n)'
        PROVE  g[Kid(n, i)'] = g[n] + 1
    <3>1. n \in D /\ i \in Kids(n) /\ Kid(n, i)' = Kid(n, i)
      BY <1>5, <1>6, <1>7, <2>2
    <3>2. Kid(n, i) \in D /\ d[Kid(n, i)] = d[n] + 1
      BY <1>8, <3>1, KidFacts DEF Layering
    <3> QED
      BY <1>10, <3>1, <3>2
  <2>3. ASSUME NEW k \in DOMAIN frames'
        PROVE  g[frames'[k].node] = k - 1
    <3>1. CASE k = F + 1
      BY <1>1, <1>10, <3>1
    <3>2. CASE k # F + 1
      <4>1. k \in DOMAIN frames /\ frames'[k].node = frames[k].node
        BY <1>1, <2>3, <3>2
      <4>2. frames[k].node \in D
        <5>1. frames[k] \in Frames
          BY <4>1, TopFacts DEF AddChild
        <5> QED
          BY <5>1 DEF Frames
      <4>3. d[frames[k].node] = k - 1
        BY <1>8, <4>1 DEF Layering
      <4> QED
        BY <1>10, <4>1, <4>2, <4>3
    <3> QED
      BY <3>1, <3>2
  <2> QED
    BY <2>1, <2>2, <2>3 DEF Layering
<1> QED
  BY <1>3, <1>10, <1>11 DEF HeightBounded

\* A call that returns keeps the bound: its node is one further down than the
\* caller's, whose child it becomes.
LEMMA EndChildrenHeight ==
  ASSUME IInv, HeightBounded, LeavesAtMaxDepth, EndChildren
  PROVE  HeightBounded' /\ LeavesAtMaxDepth'
<1> DEFINE F == Len(frames)
           D == DOMAIN nodes
<1>1. /\ F \in Nat \ {0} /\ DOMAIN frames = 1 .. F /\ DOMAIN frames' = 1 .. (F - 1)
      /\ \A i \in 1 .. (F - 1) : frames'[i] = frames[i]
      /\ (Below = <<>>) <=> (F = 1)
  BY LeftFrame
<1>2. LeavesAtMaxDepth'
  BY <1>1 DEF LeavesAtMaxDepth
<1>3. PICK d \in [D -> 0 .. MaxDepth] : Layering(d)
  BY DEF HeightBounded
<1>4. \A k \in DOMAIN frames' : d[frames'[k].node] = k - 1
  BY <1>1, <1>3 DEF Layering
<1>5. CASE Below = <<>>
  <2>1. nodes' = nodes
    BY <1>5 DEF EndChildren
  <2>2. Layering(d)'
    BY <1>3, <1>4, <2>1 DEF Layering, Kids, Kid
  <2> QED
    BY <1>2, <1>3, <2>1, <2>2 DEF HeightBounded
<1>6. CASE Below # <<>>
  <2> DEFINE p == frames[F - 1].node
             c == Top.node
             cs == nodes[p].children
  <2>1. pc = "tree" /\ nodes' = [nodes EXCEPT ![p].children = Append(cs, c)]
    BY <1>6 DEF EndChildren
  <2>2. F - 1 \in 1 .. F /\ F \in 1 .. F
    BY <1>1, <1>6
  <2>3. p \in D /\ c \in D
    <3>1. frames[F - 1] \in Frames
      BY <1>1, <2>1, <2>2, TopFacts
    <3> QED
      BY <2>1, <3>1, TopFacts DEF Frames
  <2>4. d[p] = F - 2 /\ d[c] = F - 1
    <3>1. d[frames[F - 1].node] = (F - 1) - 1 /\ d[frames[F].node] = F - 1
      BY <1>1, <1>3, <2>2 DEF Layering
    <3> QED
      BY <1>1, <3>1 DEF Top
  <2> HIDE DEF p, c
  <2>5. nodes[p] \in Nodes /\ cs \in Seq(Nat) /\ c \in Nat
    <3>1. nodes[p] \in Nodes /\ c \in Nat
      BY <2>3, NodeFacts
    <3> QED
      BY <3>1 DEF Nodes
  <2>6. /\ DOMAIN nodes' = D /\ \A n \in D : n # p => nodes'[n] = nodes[n]
        /\ nodes'[p].children = Append(cs, c)
    BY <2>1, <2>3, <2>5 DEF Nodes
  <2> DEFINE ds == Append(cs, c)
  <2>7. /\ DOMAIN ds = 1 .. (Len(cs) + 1) /\ DOMAIN cs = 1 .. Len(cs) /\ Len(cs) \in Nat
        /\ ds[Len(cs) + 1] = c /\ \A i \in 1 .. Len(cs) : ds[i] = cs[i]
    BY <2>5, Push
  <2> HIDE DEF ds
  <2>8. ASSUME NEW n \in D, NEW i \in Kids(n)'
        PROVE  d[Kid(n, i)'] = d[n] + 1
    <3>1. CASE n # p
      <4>1. i \in Kids(n) /\ Kid(n, i)' = Kid(n, i)
        BY <2>6, <2>8, <3>1 DEF Kids, Kid
      <4> QED
        BY <1>3, <4>1 DEF Layering
    <3>2. CASE n = p
      <4>1. i \in 1 .. (Len(cs) + 1) /\ Kid(n, i)' = ds[i]
        BY <2>6, <2>7, <2>8, <3>2 DEF Kids, Kid, ds
      <4>2. CASE i = Len(cs) + 1
        BY <1>1, <2>4, <2>7, <3>2, <4>1, <4>2
      <4>3. CASE i # Len(cs) + 1
        <5>1. i \in Kids(n) /\ Kid(n, i)' = Kid(n, i)
          BY <2>7, <3>2, <4>1, <4>3 DEF Kids, Kid
        <5> QED
          BY <1>3, <5>1 DEF Layering
      <4> QED
        BY <4>2, <4>3
    <3> QED
      BY <3>1, <3>2
  <2>9. Layering(d)'
    BY <1>3, <1>4, <2>6, <2>8 DEF Layering
  <2> QED
    BY <1>2, <1>3, <2>6, <2>9 DEF HeightBounded
<1> QED
  BY <1>5, <1>6

\* The call graph is no higher than MaxDepth while it is built and ever after: each
\* node is one further from the root than the node that calls it, and none is
\* further than MaxDepth, so that no chain of calls in the program is longer.
THEOREM CallChainsBounded == Spec => []HeightBounded
<1>1. Init => HeightBounded /\ LeavesAtMaxDepth
  <2> SUFFICES ASSUME Init PROVE HeightBounded /\ LeavesAtMaxDepth
    OBVIOUS
  <2>1. PICK k \in ToMake(0) : frames = <<[node |-> Root, left |-> k]>>
    BY DEF Init
  <2>2. DOMAIN frames = {1} /\ frames[1].node = Root /\ frames[1].left = k
    BY <2>1
  <2>3. DOMAIN nodes = {1} /\ Kids(1) = {}
    BY DEF Init, Node, Kids
  <2>4. MaxDepth \in Nat
    BY CallGraphAssumption
  <2>5. LeavesAtMaxDepth
    BY <2>1, <2>2, <2>4 DEF LeavesAtMaxDepth, ToMake
  <2>6. PICK d : d = [n \in {1} |-> 0]
    OBVIOUS
  <2>7. d \in [DOMAIN nodes -> 0 .. MaxDepth] /\ Layering(d)
    BY <2>2, <2>3, <2>4, <2>6 DEF Layering, Root
  <2> QED
    BY <2>5, <2>7 DEF HeightBounded
<1>2. ASSUME IInv, HeightBounded, LeavesAtMaxDepth, [Next]_vars
      PROVE  HeightBounded' /\ LeavesAtMaxDepth'
  <2>1. CASE AddChild
    BY <1>2, <2>1, AddChildHeight
  <2>2. CASE EndChildren
    BY <1>2, <2>2, EndChildrenHeight
  <2>3. CASE /\ frames' = frames /\ DOMAIN nodes' = DOMAIN nodes
             /\ \A n \in DOMAIN nodes : nodes'[n].children = nodes[n].children
    <3>1. \A n \in DOMAIN nodes : Kids(n)' = Kids(n) /\ \A i \in Kids(n) : Kid(n, i)' = Kid(n, i)
      BY <2>3 DEF Kids, Kid
    <3>2. PICK d \in [DOMAIN nodes -> 0 .. MaxDepth] : Layering(d)
      BY <1>2 DEF HeightBounded
    <3>3. Layering(d)'
      BY <2>3, <3>1, <3>2 DEF Layering
    <3>4. HeightBounded'
      BY <2>3, <3>2, <3>3 DEF HeightBounded
    <3>5. LeavesAtMaxDepth'
      BY <1>2, <2>3 DEF LeavesAtMaxDepth
    <3> QED
      BY <3>4, <3>5
  <2>4. CASE GenerateRoot
    <3>1. PICK s \in GeneratedSignature(Root) : nodes' = [nodes EXCEPT ![Root].sig = s]
      BY <2>4 DEF GenerateRoot
    <3>2. frames' = frames
      BY <2>4 DEF GenerateRoot
    <3>3. \A n \in DOMAIN nodes : nodes[n] \in Nodes
      BY <1>2, NodeFacts
    <3>4. /\ DOMAIN nodes' = DOMAIN nodes
          /\ \A n \in DOMAIN nodes : nodes'[n].children = nodes[n].children
      BY <3>1, <3>3 DEF Nodes
    <3> QED
      BY <2>3, <3>2, <3>4
  <2>5. CASE Traverse \/ Emit \/ EmitRoot \/ Done \/ UNCHANGED vars
    <3>1. frames' = frames /\ nodes' = nodes
      BY <2>5 DEF Traverse, Emit, EmitRoot, Done, vars
    <3> QED
      BY <2>3, <3>1
  <2> QED
    BY <1>2, <2>1, <2>2, <2>4, <2>5 DEF Next
<1> QED
  BY <1>1, <1>2, Invariance, PTL DEF Spec

\* S is a proper part of T.
Within(S, T) == S \subseteq T /\ S # T

\* Some active call of generate_function_tree has one child less to make or has
\* returned, and those around it are as they were.
TreeAdvances ==
  \E k \in DOMAIN frames :
    /\ \A j \in 1 .. (k - 1) : j \in DOMAIN frames' /\ frames'[j] = frames[j]
    /\ k \in DOMAIN frames' => frames'[k].left < frames[k].left

\* The traversal has come to a node, or pushed one.
WalkAdvances == Within(Visited, Visited') \/ (Visited' = Visited /\ Within(Posted, Posted'))

\* A step enters the next phase, or is progress within the phase.
Advances ==
  \/ <<pc, pc'>> \in {<<"tree", "root">>, <<"root", "walk">>, <<"walk", "emit">>,
                      <<"emit", "done">>}
  \/ pc = "tree" /\ pc' = "tree" /\ TreeAdvances
  \/ pc = "walk" /\ pc' = "walk" /\ nodes' = nodes /\ WalkAdvances
  \/ pc = "emit" /\ pc' = "emit" /\ post' = post /\ pos' = pos + 1 /\ pos' <= Len(post)

\* Going on to a child comes to a node the traversal had not come to.
LEMMA DescendAdvances ==
  ASSUME IInv, pc = "walk", walk # <<>>, Descend,
         UNCHANGED <<nodes, frames, post, pos, maps, written, pc>>
  PROVE  WalkAdvances
<1> DEFINE n == Here.node
           x == Here.next
           c == Kid(n, x)
           W == Len(walk)
<1>1. x \in Kids(n) /\ n \in DOMAIN nodes /\ c \in DOMAIN nodes /\ x \in Nat
  <2>1. x <= Len(nodes[n].children) /\ n \in DOMAIN nodes /\ x \in Nat \ {0}
    BY HereFacts DEF Descend
  <2> QED
    BY <2>1, KidFacts
<1>2. c \notin Visited
  <2>1. W \in DOMAIN walk /\ walk[W].node = n /\ walk[W].next = x
        /\ \A k \in DOMAIN walk : k # W => walk[k].node < n
    BY HereFacts DEF Here
  <2>2. n \in Nat
    BY <1>1, NodeFacts
  <2> HIDE DEF n, x, W
  <2>3. n \notin Posted
    BY <2>1 DEF IInv, Walked
  <2>4. ~ \E k \in DOMAIN walk : walk[k].node = n /\ x < walk[k].next
    BY <1>1, <2>1, <2>2
  <2>5. \A m \in DOMAIN nodes : \A i \in Kids(m) :
          Kid(m, i) \in Visited <=>
            m \in Posted \/ \E k \in DOMAIN walk : walk[k].node = m /\ i < walk[k].next
    BY DEF IInv, Walked
  <2> QED
    BY <1>1, <2>3, <2>4, <2>5
<1>3. Visited' = Visited \cup {c}
  BY DescendInv
<1> QED
  BY <1>2, <1>3 DEF WalkAdvances, Within

\* Every step of the generation of a program brings it nearer to its end: the calls
\* of generate_function_tree are at most MaxDepth deep (CallChainsBounded) and each
\* has fewer children to make after every return; cg_post_order_traversal comes to
\* a node it had not come to or leaves one for good; the loop over the list moves on.
THEOREM ProgramAdvances == Spec => [][pc # "done" => Advances]_vars
<1>1. ASSUME IInv, Next, pc # "done" PROVE Advances
  <2>1. CASE AddChild
    <3> DEFINE F == Len(frames)
    <3>1. /\ F \in Nat \ {0} /\ DOMAIN frames = 1 .. F /\ DOMAIN frames' = 1 .. (F + 1)
          /\ Top = frames[F] /\ Top.left \in Nat \ {0}
          /\ \A i \in 1 .. (F - 1) : frames'[i] = frames[i]
          /\ frames'[F].left = Top.left - 1
      BY <1>1, <2>1, AddedFrame
    <3>2. pc = "tree" /\ pc' = "tree"
      BY <2>1 DEF AddChild
    <3>3. F \in DOMAIN frames /\ frames'[F].left < frames[F].left
      BY <3>1
    <3>4. \A j \in 1 .. (F - 1) : j \in DOMAIN frames' /\ frames'[j] = frames[j]
      BY <3>1
    <3> HIDE DEF F
    <3>5. TreeAdvances
      BY <3>3, <3>4 DEF TreeAdvances
    <3> QED
      BY <3>2, <3>5 DEF Advances
  <2>2. CASE EndChildren
    <3> DEFINE F == Len(frames)
    <3>1. /\ F \in Nat \ {0} /\ DOMAIN frames = 1 .. F /\ DOMAIN frames' = 1 .. (F - 1)
          /\ \A i \in 1 .. (F - 1) : frames'[i] = frames[i]
      BY <1>1, <2>2, LeftFrame
    <3>2. pc = "tree" /\ pc' \in {"tree", "root"}
      BY <2>2 DEF EndChildren
    <3>3. F \in DOMAIN frames /\ F \notin DOMAIN frames'
      BY <3>1
    <3>4. \A j \in 1 .. (F - 1) : j \in DOMAIN frames' /\ frames'[j] = frames[j]
      BY <3>1
    <3> HIDE DEF F
    <3>5. TreeAdvances
      BY <3>3, <3>4 DEF TreeAdvances
    <3> QED
      BY <3>2, <3>5 DEF Advances
  <2>3. CASE GenerateRoot
    BY <2>3 DEF GenerateRoot, Advances
  <2>4. CASE Traverse
    <3>0. pc = "walk" /\ UNCHANGED <<nodes, frames, pos, maps, written>>
      BY <2>4 DEF Traverse
    <3>1. CASE walk = <<>> /\ pc' = "emit" /\ UNCHANGED <<walk, post>>
      BY <3>0, <3>1 DEF Advances
    <3>2. CASE walk # <<>> /\ Descend /\ UNCHANGED <<post, pc>>
      <4>1. WalkAdvances
        BY <1>1, <3>0, <3>2, DescendAdvances
      <4> QED
        BY <3>0, <3>2, <4>1 DEF Advances
    <3>3. CASE walk # <<>> /\ Ascend /\ post' = Append(post, Here.node) /\ UNCHANGED pc
      <4>1. Visited' = Visited /\ Posted' = Posted \cup {Here.node} /\ Here.node \notin Posted
        BY <1>1, <3>0, <3>3, AscendInv
      <4>2. WalkAdvances
        BY <4>1 DEF WalkAdvances, Within
      <4> QED
        BY <3>0, <3>3, <4>2 DEF Advances
    <3> QED
      BY <2>4, <3>1, <3>2, <3>3 DEF Traverse
  <2>5. CASE Emit
    <3>1. /\ pc = "emit" /\ pc' = "emit" /\ post' = post
          /\ pos < Len(post) /\ pos' = pos + 1
      BY <2>5 DEF Emit
    <3>2. pos \in Nat /\ Len(post) \in Nat
      BY <1>1 DEF IInv, TypeOK
    <3> QED
      BY <3>1, <3>2 DEF Advances
  <2>6. CASE EmitRoot
    BY <2>6 DEF EmitRoot, Advances
  <2> QED
    BY <1>1, <2>1, <2>2, <2>3, <2>4, <2>5, <2>6 DEF Next, Done
<1>2. IInv /\ [Next]_vars => [pc # "done" => Advances]_vars
  BY <1>1
<1> QED
  BY <1>2, Invariance, PTL DEF Spec

============================================================================
