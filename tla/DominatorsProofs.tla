-------------------------- MODULE DominatorsProofs --------------------------
(***************************************************************************)
(* Proofs about compute_dominators, for every flow graph: what the passes  *)
(* leave in the table is exactly the dominator relation.                   *)
(***************************************************************************)
EXTENDS Dominators, WellFoundedInduction, TLAPS

(***************************************************************************)
(* Part 1: the stack and the list.                                         *)
(***************************************************************************)

\* Removing the last element of a sequence, and adding one.
LEMMA PopFacts ==
  ASSUME NEW A, NEW s \in Seq(A), s # <<>>
  PROVE  /\ Len(s) \in Nat \ {0}
         /\ s[Len(s)] \in A
         /\ SubSeq(s, 1, Len(s) - 1) \in Seq(A)
         /\ Len(SubSeq(s, 1, Len(s) - 1)) = Len(s) - 1
         /\ \A i \in 1 .. (Len(s) - 1) : SubSeq(s, 1, Len(s) - 1)[i] = s[i]
<1> DEFINE k == Len(s)
<1>1. k \in Nat \ {0} OBVIOUS
<1>2. \A i \in 1 .. k : s[i] \in A OBVIOUS
<1>3. \A i \in 1 .. (k - 1) : s[i] \in A BY <1>1, <1>2
<1> HIDE DEF k
<1>4. /\ SubSeq(s, 1, k - 1) \in Seq(A)
      /\ Len(SubSeq(s, 1, k - 1)) = IF 1 <= k - 1 THEN (k - 1) - 1 + 1 ELSE 0
      /\ \A i \in 1 .. ((k - 1) - 1 + 1) : SubSeq(s, 1, k - 1)[i] = s[1 + i - 1]
  <2>1. 1 \in Int /\ k - 1 \in Int BY <1>1
  <2> QED BY <1>1, <1>3, <2>1
<1>5. Len(SubSeq(s, 1, k - 1)) = k - 1 BY <1>1, <1>4
<1>6. ASSUME NEW i \in 1 .. (k - 1) PROVE SubSeq(s, 1, k - 1)[i] = s[i]
  <2>1. i \in 1 .. ((k - 1) - 1 + 1) /\ 1 + i - 1 = i BY <1>1
  <2> QED BY <1>4, <2>1
<1>7. s[k] \in A BY <1>1, <1>2
<1> QED BY <1>1, <1>4, <1>5, <1>6, <1>7 DEF k

\* What a push on a Vec (the postorder, the recursion's stack) does.
LEMMA AppendFacts ==
  ASSUME NEW A, NEW s \in Seq(A), NEW x \in A
  PROVE  /\ Append(s, x) \in Seq(A)
         /\ Len(Append(s, x)) = Len(s) + 1
         /\ \A i \in 1 .. Len(s) : Append(s, x)[i] = s[i]
         /\ Append(s, x)[Len(s) + 1] = x
         /\ Append(s, x) # <<>>
         /\ Elements(Append(s, x)) = Elements(s) \cup {x}
<1>1. /\ Append(s, x) \in Seq(A)
      /\ Len(s) \in Nat
      /\ Len(Append(s, x)) = Len(s) + 1
      /\ \A i \in 1 .. Len(s) : Append(s, x)[i] = s[i]
      /\ Append(s, x)[Len(s) + 1] = x
  OBVIOUS
<1>2. Append(s, x) # <<>>
  <2>1. Len(Append(s, x)) # 0 BY <1>1
  <2>2. Len(<<>>) = 0 OBVIOUS
  <2> QED BY <2>1, <2>2, Zenon
<1>3. Elements(Append(s, x)) = Elements(s) \cup {x}
  <2> DEFINE t == Append(s, x)
             k == Len(s)
  <2>1. k \in Nat /\ Len(t) = k + 1 /\ (\A i \in 1 .. k : t[i] = s[i]) /\ t[k + 1] = x
    BY <1>1
  <2> HIDE DEF t, k
  <2>2. {t[i] : i \in 1 .. (k + 1)} = {s[i] : i \in 1 .. k} \cup {x}
    BY <2>1
  <2> QED BY <2>1, <2>2 DEF Elements, t, k
<1> QED BY <1>1, <1>2, <1>3

\* Reversing a sequence keeps its elements, and their being distinct.
LEMMA ReversedFacts ==
  ASSUME NEW A, NEW s \in Seq(A)
  PROVE  /\ Reversed(s) \in Seq(A)
         /\ Len(Reversed(s)) = Len(s)
         /\ Elements(Reversed(s)) = Elements(s)
         /\ (\A i, j \in 1 .. Len(s) : s[i] = s[j] => i = j)
              => \A i, j \in 1 .. Len(s) : Reversed(s)[i] = Reversed(s)[j] => i = j
<1> DEFINE k == Len(s)
           r == Reversed(s)
<1>1. k \in Nat /\ \A i \in 1 .. k : s[i] \in A OBVIOUS
<1>2. r = [i \in 1 .. k |-> s[k + 1 - i]] BY DEF Reversed
<1>3. \A i \in 1 .. k : k + 1 - i \in 1 .. k BY <1>1
<1>4. r \in Seq(A) /\ Len(r) = k BY <1>1, <1>2, <1>3
<1>5. Elements(r) = Elements(s)
  <2>1. ASSUME NEW x \in Elements(r) PROVE x \in Elements(s)
    <3>1. PICK i \in 1 .. k : x = s[k + 1 - i] BY <1>2, <1>4 DEF Elements
    <3> QED BY <1>3, <3>1 DEF Elements
  <2>2. ASSUME NEW x \in Elements(s) PROVE x \in Elements(r)
    <3>1. PICK i \in 1 .. k : x = s[i] BY DEF Elements
    <3>2. k + 1 - i \in 1 .. k /\ k + 1 - (k + 1 - i) = i BY <1>1, <1>3
    <3>3. r[k + 1 - i] = x BY <1>2, <3>1, <3>2
    <3> QED BY <1>4, <3>2, <3>3 DEF Elements
  <2> QED BY <2>1, <2>2
<1>6. ASSUME \A i, j \in 1 .. k : s[i] = s[j] => i = j,
             NEW i \in 1 .. k, NEW j \in 1 .. k, r[i] = r[j]
      PROVE  i = j
  <2>1. s[k + 1 - i] = s[k + 1 - j] BY <1>2, <1>6
  <2>2. k + 1 - i = k + 1 - j BY <1>3, <1>6, <2>1
  <2> QED BY <1>1, <2>2
<1> QED BY <1>4, <1>5, <1>6

(***************************************************************************)
(* Part 2: the inductive invariant.                                        *)
(***************************************************************************)

\* A nonempty set of naturals has a least element: < is well founded on Nat.
LEMMA NatMin ==
  ASSUME NEW T \in SUBSET Nat, T # {}
  PROVE  \E x \in T : \A y \in T : x <= y
<1> DEFINE R == {p \in Nat \X Nat : p[1] < p[2]}
<1>1. IsWellFoundedOn(R, Nat)
  BY NatLessThanWellFounded DEF OpToRel
<1>2. PICK x \in T : \A y \in T : ~(<<y, x>> \in R)
  <2> HIDE DEF R
  <2> QED BY <1>1, WFMin
<1>3. \A y \in T : y \in Nat /\ x \in Nat /\ ~(y < x)
  BY <1>2
<1> QED
  BY <1>3

\* The next successor of a frame is one of those left.
LEMMA FirstInSet ==
  ASSUME NEW S \in SUBSET Nodes, S # {}
  PROVE  First(S) \in S
<1>1. S \in SUBSET Nat BY GraphAssumption
<1>2. \E n \in S : \A m \in S : n <= m BY <1>1, NatMin
<1> QED BY <1>2 DEF First

\* The innermost frame, and the stack below it.
LEMMA TopFacts ==
  ASSUME TypeOK, pc = "dfs"
  PROVE  /\ Len(stack) \in Nat \ {0}
         /\ Top \in [node : Nodes, todo : SUBSET Nodes]
         /\ Pop \in Seq([node : Nodes, todo : SUBSET Nodes])
         /\ Len(Pop) = Len(stack) - 1
         /\ \A i \in 1 .. (Len(stack) - 1) : Pop[i] = stack[i]
<1>1. stack \in Seq([node : Nodes, todo : SUBSET Nodes]) /\ stack # <<>> BY DEF TypeOK
<1> QED BY <1>1, PopFacts DEF Top, Pop

\* A dominator of n other than n dominates every predecessor of n.
LEMMA DominatesPred ==
  ASSUME succ \in [Nodes -> SUBSET Nodes],
         NEW d \in Nodes, NEW n \in Nodes, Dominates(d, n), d # n,
         NEW p \in Pred(n)
  PROVE  Dominates(d, p)
<1>1. PICK S \in SUBSET (Nodes \ {d}) : n \notin S /\ Avoiding(d, S) BY DEF Dominates
<1>2. p \in Nodes /\ n \in succ[p] BY DEF Pred
<1>3. p \notin S BY <1>1, <1>2 DEF Avoiding
<1> QED BY <1>1, <1>3 DEF Dominates

\* Only the entry block dominates the entry block.
LEMMA DominatesStart ==
  ASSUME NEW d, Dominates(d, StartNode)
  PROVE  d = StartNode
BY DEF Dominates, Avoiding

\* A block dominates itself.
LEMMA SelfDominates ==
  ASSUME succ \in [Nodes -> SUBSET Nodes], NEW n \in Nodes
  PROVE  Dominates(n, n)
<1>1. Nodes \ {n} \in SUBSET (Nodes \ {n}) /\ n \notin Nodes \ {n} OBVIOUS
<1>2. Avoiding(n, Nodes \ {n}) BY GraphAssumption DEF Avoiding
<1> QED BY <1>1, <1>2 DEF Dominates

\* No function has been looked at yet.
LEMMA InitDInv ==
  ASSUME Init
  PROVE  DInv
<1>1. TypeOK
  <2>1. <<>> \in Seq(Nodes) /\ <<>> \in Seq([node : Nodes, todo : SUBSET Nodes]) /\ Len(<<>>) = 0
    OBVIOUS
  <2> QED BY <2>1, GraphAssumption DEF Init, TypeOK, PassBound
<1>2. DfsInv
  <2>1. Len(stack) = 0 /\ Len(postorder) = 0 /\ visited = {} /\ pc = "init"
    BY DEF Init
  <2>2. Elements(postorder) = {} BY <2>1 DEF Elements
  <2> QED BY <2>1, <2>2 DEF DfsInv
<1> QED BY <1>1, <1>2 DEF DInv, Init, OrderInv, TableInv, NoDominatorLost

\* Filling the table before the search starts preserves DInv.
LEMMA StepInitDominators ==
  ASSUME DInv, InitDominators
  PROVE  DInv'
<1> DEFINE f == Frame(StartNode)
<1>1. /\ pc = "init" /\ pc' = "dfs" /\ visited' = {StartNode} /\ stack' = <<f>>
      /\ dominators' = [n \in Nodes |-> IF n = StartNode THEN {StartNode} ELSE Nodes]
      /\ UNCHANGED <<succ, postorder, order, pos, changed, passes>>
  BY DEF InitDominators
<1>2. succ \in [Nodes -> SUBSET Nodes] /\ visited = {} BY <1>1 DEF DInv, TypeOK, DfsInv
<1>3. f = [node |-> StartNode, todo |-> succ[StartNode]] BY DEF Frame
<1>4. f \in [node : Nodes, todo : SUBSET Nodes]
  BY <1>2, <1>3, GraphAssumption
<1> HIDE DEF f
<1>5. /\ stack' \in Seq([node : Nodes, todo : SUBSET Nodes]) /\ stack' # <<>>
      /\ Len(stack') = 1 /\ stack'[1] = f
  BY <1>1, <1>4
<1>6. TypeOK' BY <1>1, <1>5, GraphAssumption DEF DInv, TypeOK, PassBound
<1>7. DfsInv'
  <2>1. Elements(postorder) = {} BY <1>2 DEF DInv, DfsInv
  <2>2. Elements(postorder') = {} BY <1>1, <2>1
  <2>3. \A i \in 1 .. Len(stack') :
          i = 1 /\ stack'[i].node = StartNode /\ stack'[i].todo = succ'[StartNode]
    BY <1>1, <1>3, <1>5
  <2>4. \A i, j \in 1 .. Len(postorder') : postorder'[i] = postorder'[j] => i = j
    BY <1>1 DEF DInv, DfsInv
  <2>5. \A n \in visited' : \E i \in 1 .. Len(stack') : stack'[i].node = n
    BY <1>1, <1>5, <2>3
  <2> QED BY <1>1, <2>2, <2>3, <2>4, <2>5 DEF DfsInv
<1>8. OrderInv' BY <1>1 DEF OrderInv
<1>9. TableInv' BY <1>1, GraphAssumption DEF TableInv, NewDom
<1>10. NoDominatorLost'
  <2> SUFFICES ASSUME NEW d \in Nodes, NEW n \in Nodes, Dominates(d, n)'
               PROVE  d \in dominators'[n]
    BY DEF NoDominatorLost
  <2>1. Dominates(d, n) BY <1>1 DEF Dominates, Avoiding
  <2> QED BY <1>1, <2>1, DominatesStart
<1> QED BY <1>6, <1>7, <1>8, <1>9, <1>10 DEF DInv

\* A call of dfs: the block it is called on is visited, and on the stack if
\* it was not visited before.
LEMMA StepDfsCall ==
  ASSUME DInv, DfsCall
  PROVE  DInv'
<1> DEFINE F == [node : Nodes, todo : SUBSET Nodes]
           k == Len(stack)
           t == Top
           n == First(t.todo)
           u == [t EXCEPT !.todo = @ \ {n}]
           rest == Append(Pop, u)
<1>1. /\ pc = "dfs" /\ t.todo # {}
      /\ visited' = visited \cup {n}
      /\ stack' = IF n \in visited THEN rest ELSE Append(rest, Frame(n))
      /\ UNCHANGED <<succ, postorder, order, dominators, pos, changed, passes, pc>>
  BY DEF DfsCall
<1>2. TypeOK /\ DfsInv /\ OrderInv /\ TableInv /\ NoDominatorLost BY DEF DInv
<1>3. /\ k \in Nat \ {0} /\ t \in F /\ Pop \in Seq(F) /\ Len(Pop) = k - 1
      /\ \A i \in 1 .. (k - 1) : Pop[i] = stack[i]
      /\ t = stack[k]
  BY <1>1, <1>2, TopFacts DEF Top
<1>4. n \in t.todo /\ n \in Nodes
  BY <1>1, <1>3, FirstInSet
<1> HIDE DEF n, t, k
<1>5. u \in F /\ u.node = t.node /\ u.todo = t.todo \ {n} BY <1>3
<1>6. succ \in [Nodes -> SUBSET Nodes] /\ visited \subseteq Nodes BY <1>2 DEF TypeOK
<1>7. Frame(n) \in F /\ Frame(n).node = n /\ Frame(n).todo = succ[n]
  BY <1>4, <1>6 DEF Frame
<1> HIDE DEF F, u
<1>8. /\ rest \in Seq(F) /\ Len(rest) = k /\ rest[k] = u
      /\ \A i \in 1 .. (k - 1) : rest[i] = stack[i]
      /\ rest # <<>>
  <2>1. /\ rest \in Seq(F) /\ Len(rest) = (k - 1) + 1 /\ rest[(k - 1) + 1] = u
        /\ \A i \in 1 .. (k - 1) : rest[i] = Pop[i]
        /\ rest # <<>>
    BY <1>3, <1>5, AppendFacts
  <2>2. (k - 1) + 1 = k BY <1>3
  <2> QED BY <1>3, <2>1, <2>2
<1> HIDE DEF rest
<1>9. /\ stack' \in Seq(F) /\ stack' # <<>>
      /\ Len(stack') = IF n \in visited THEN k ELSE k + 1
      /\ \A i \in 1 .. (k - 1) : stack'[i] = stack[i]
      /\ stack'[k] = u
      /\ n \notin visited => stack'[k + 1] = Frame(n)
  <2>1. CASE n \in visited BY <1>1, <1>8, <2>1
  <2>2. CASE n \notin visited
    <3>1. /\ Append(rest, Frame(n)) \in Seq(F)
          /\ Append(rest, Frame(n)) # <<>>
          /\ Len(Append(rest, Frame(n))) = k + 1
          /\ \A i \in 1 .. k : Append(rest, Frame(n))[i] = rest[i]
          /\ Append(rest, Frame(n))[k + 1] = Frame(n)
      BY <1>7, <1>8, AppendFacts
    <3> QED BY <1>1, <1>3, <1>8, <2>2, <3>1
  <2> QED BY <2>1, <2>2
<1>10. TypeOK'
  BY <1>1, <1>2, <1>4, <1>9 DEF TypeOK, F
<1>11. DfsInv'
  <2>1. ASSUME NEW i \in 1 .. Len(stack')
        PROVE  /\ stack'[i].node \in visited' \ Elements(postorder')
               /\ stack'[i].todo \subseteq succ'[stack'[i].node]
               /\ succ'[stack'[i].node] \ stack'[i].todo \subseteq visited'
    <3>1. CASE i \in 1 .. (k - 1)
      <4>1. i \in 1 .. k /\ stack'[i] = stack[i] BY <1>3, <1>9, <3>1
      <4>2. /\ stack[i].node \in visited \ Elements(postorder)
            /\ stack[i].todo \subseteq succ[stack[i].node]
            /\ succ[stack[i].node] \ stack[i].todo \subseteq visited
        BY <1>2, <4>1 DEF DfsInv, k
      <4> QED BY <1>1, <4>1, <4>2
    <3>2. CASE i = k
      <4>1. /\ t.node \in visited \ Elements(postorder)
            /\ t.todo \subseteq succ[t.node]
            /\ succ[t.node] \ t.todo \subseteq visited
        BY <1>2, <1>3 DEF DfsInv, k
      <4>2. stack'[i].node = t.node /\ stack'[i].todo = t.todo \ {n}
        BY <1>5, <1>9, <3>2
      <4> QED BY <1>1, <4>1, <4>2
    <3>3. CASE i = k + 1 /\ n \notin visited
      <4>1. n \notin Elements(postorder) BY <1>2, <3>3 DEF DfsInv
      <4> QED BY <1>1, <1>7, <1>9, <3>3, <4>1
    <3> QED BY <1>3, <1>9, <3>1, <3>2, <3>3
  <2>2. ASSUME NEW i \in 1 .. k PROVE stack'[i].node = stack[i].node
    BY <1>3, <1>5, <1>9
  <2>3. \A i \in 1 .. k : stack[i].node \in visited BY <1>2 DEF DfsInv, k
  <2>4. \A i, j \in 1 .. k : stack[i].node = stack[j].node => i = j
    BY <1>2 DEF DfsInv, k
  <2>5. \A i, j \in 1 .. Len(stack') : stack'[i].node = stack'[j].node => i = j
    <3>1. CASE n \in visited BY <1>9, <2>2, <2>4, <3>1
    <3>2. CASE n \notin visited
      <4>1. stack'[k + 1].node = n /\ Len(stack') = k + 1 BY <1>7, <1>9, <3>2
      <4>2. \A i \in 1 .. k : stack'[i].node # n BY <2>2, <2>3, <3>2
      <4>3. \A i \in 1 .. (k + 1) : i \in 1 .. k \/ i = k + 1 BY <1>3
      <4> QED BY <2>2, <2>4, <4>1, <4>2, <4>3
    <3> QED BY <3>1, <3>2
  <2>6. ASSUME NEW m \in visited' \ Elements(postorder')
        PROVE  \E i \in 1 .. Len(stack') : stack'[i].node = m
    <3>1. CASE m \in visited
      <4>1. PICK i \in 1 .. k : stack[i].node = m BY <1>1, <1>2, <3>1 DEF DfsInv, k
      <4>2. i \in 1 .. Len(stack') BY <1>3, <1>9
      <4> QED BY <2>2, <4>1, <4>2
    <3>2. CASE m \notin visited
      <4>1. m = n /\ k + 1 \in 1 .. Len(stack') BY <1>1, <1>3, <1>9, <3>2
      <4> QED BY <1>7, <1>9, <3>2, <4>1
    <3> QED BY <3>1, <3>2
  <2>7. ASSUME NEW S \in SUBSET Nodes, StartNode \in S, \A b \in S : succ[b] \subseteq S
        PROVE  visited' \subseteq S
    <3>1. visited \subseteq S BY <1>2, <2>7 DEF DfsInv
    <3>2. t.node \in visited /\ t.todo \subseteq succ[t.node]
      BY <1>2, <1>3 DEF DfsInv, k
    <3> QED BY <1>1, <1>4, <2>7, <3>1, <3>2
  <2>8. /\ \A i, j \in 1 .. Len(postorder') : postorder'[i] = postorder'[j] => i = j
        /\ \A m \in Elements(postorder') : m \in visited' /\ succ'[m] \subseteq visited'
        /\ IF pc' = "init" THEN visited' = {} ELSE StartNode \in visited'
    BY <1>1, <1>2 DEF DfsInv
  <2> QED BY <1>1, <2>1, <2>5, <2>6, <2>7, <2>8 DEF DfsInv
<1>12. OrderInv' BY <1>1 DEF OrderInv
<1>13. TableInv'
  BY <1>1, <1>2 DEF TableInv, NewDom, Pred
<1>14. NoDominatorLost'
  BY <1>1, <1>2 DEF NoDominatorLost, Dominates, Avoiding
<1> QED BY <1>10, <1>11, <1>12, <1>13, <1>14 DEF DInv

\* A return of dfs: its block moves from the stack to postorder.
LEMMA StepDfsReturn ==
  ASSUME DInv, DfsReturn
  PROVE  DInv'
<1> DEFINE F == [node : Nodes, todo : SUBSET Nodes]
           k == Len(stack)
           t == Top
<1>1. /\ pc = "dfs" /\ t.todo = {}
      /\ postorder' = Append(postorder, t.node)
      /\ stack' = Pop
      /\ IF Pop = <<>>
         THEN /\ order' = Reversed(postorder') /\ pc' = "iterate" /\ pos' = 1
              /\ changed' = FALSE /\ passes' = 1
         ELSE UNCHANGED <<order, pc, pos, changed, passes>>
      /\ UNCHANGED <<succ, visited, dominators>>
  BY DEF DfsReturn
<1>2. TypeOK /\ DfsInv /\ OrderInv /\ TableInv /\ NoDominatorLost BY DEF DInv
<1>3. /\ k \in Nat \ {0} /\ t \in F /\ Pop \in Seq(F) /\ Len(Pop) = k - 1
      /\ \A i \in 1 .. (k - 1) : Pop[i] = stack[i]
      /\ t = stack[k]
  BY <1>1, <1>2, TopFacts DEF Top
<1>4. t.node \in Nodes BY <1>3
<1> HIDE DEF t, k, F
<1>5. postorder \in Seq(Nodes) /\ Len(postorder) \in Nat BY <1>2 DEF TypeOK
<1>6. /\ postorder' \in Seq(Nodes)
      /\ Len(postorder') = Len(postorder) + 1
      /\ \A i \in 1 .. Len(postorder) : postorder'[i] = postorder[i]
      /\ postorder'[Len(postorder) + 1] = t.node
      /\ Elements(postorder') = Elements(postorder) \cup {t.node}
  BY <1>1, <1>4, <1>5, AppendFacts
<1>7. /\ t.node \in visited \ Elements(postorder)
      /\ succ[t.node] \subseteq visited
      /\ \A i \in 1 .. (k - 1) : stack[i].node # t.node
  <2>1. /\ \A i \in 1 .. k :
             /\ stack[i].node \in visited \ Elements(postorder)
             /\ succ[stack[i].node] \ stack[i].todo \subseteq visited
        /\ \A i, j \in 1 .. k : stack[i].node = stack[j].node => i = j
    BY <1>2 DEF DfsInv, k
  <2>2. k \in 1 .. k /\ stack[k].node = t.node /\ stack[k].todo = {} BY <1>1, <1>3
  <2>3. t.node \in visited \ Elements(postorder) /\ succ[t.node] \ {} \subseteq visited
    BY <2>1, <2>2
  <2>4. ASSUME NEW i \in 1 .. (k - 1) PROVE stack[i].node # t.node
    <3>1. i \in 1 .. k /\ i # k BY <1>3
    <3> QED BY <2>1, <2>2, <3>1
  <2> QED BY <2>3, <2>4
<1>8. DfsInv'
  <2>1. ASSUME NEW i \in 1 .. Len(stack')
        PROVE  /\ i \in 1 .. k /\ stack'[i] = stack[i]
               /\ stack'[i].node \in visited' \ Elements(postorder')
               /\ stack'[i].todo \subseteq succ'[stack'[i].node]
               /\ succ'[stack'[i].node] \ stack'[i].todo \subseteq visited'
    <3>1. i \in 1 .. (k - 1) /\ i \in 1 .. k /\ stack'[i] = stack[i] BY <1>1, <1>3
    <3>2. /\ stack[i].node \in visited \ Elements(postorder)
          /\ stack[i].todo \subseteq succ[stack[i].node]
          /\ succ[stack[i].node] \ stack[i].todo \subseteq visited
      BY <1>2, <3>1 DEF DfsInv, k
    <3> QED BY <1>1, <1>6, <1>7, <3>1, <3>2
  <2>2. \A i, j \in 1 .. Len(stack') : stack'[i].node = stack'[j].node => i = j
    BY <1>2, <2>1 DEF DfsInv, k
  <2>3. \A i, j \in 1 .. Len(postorder') : postorder'[i] = postorder'[j] => i = j
    <3> DEFINE m == Len(postorder)
    <3>1. \A i \in 1 .. m : postorder[i] \in Elements(postorder) BY DEF Elements
    <3>2. \A i, j \in 1 .. m : postorder[i] = postorder[j] => i = j
      BY <1>2 DEF DfsInv
    <3>3. \A i \in 1 .. m : postorder'[i] # t.node BY <1>6, <1>7, <3>1
    <3>4. \A i \in 1 .. Len(postorder') : i \in 1 .. m \/ i = m + 1 BY <1>5, <1>6
    <3> QED BY <1>6, <3>2, <3>3, <3>4
  <2>4. \A n \in Elements(postorder') : n \in visited' /\ succ'[n] \subseteq visited'
    BY <1>1, <1>2, <1>6, <1>7 DEF DfsInv
  <2>5. ASSUME NEW n \in visited' \ Elements(postorder')
        PROVE  \E i \in 1 .. Len(stack') : stack'[i].node = n
    <3>1. n \in visited \ Elements(postorder) /\ n # t.node BY <1>1, <1>6
    <3>2. PICK i \in 1 .. k : stack[i].node = n BY <1>2, <3>1 DEF DfsInv, k
    <3>3. i # k BY <1>3, <3>1, <3>2
    <3>4. i \in 1 .. (k - 1) BY <1>3, <3>3
    <3> QED BY <1>1, <1>3, <3>2, <3>4
  <2>6. /\ IF pc' = "init" THEN visited' = {} ELSE StartNode \in visited'
        /\ \A S \in SUBSET Nodes :
             StartNode \in S /\ (\A b \in S : succ'[b] \subseteq S) => visited' \subseteq S
    BY <1>1, <1>2 DEF DfsInv
  <2> QED BY <2>1, <2>2, <2>3, <2>4, <2>5, <2>6 DEF DfsInv
<1>9. CASE Pop = <<>>
  <2>1. /\ order' = Reversed(postorder') /\ pc' = "iterate" /\ pos' = 1
        /\ changed' = FALSE /\ passes' = 1 /\ stack' = <<>>
    BY <1>1, <1>9
  <2>2. /\ order' \in Seq(Nodes) /\ Len(order') = Len(postorder')
        /\ Elements(order') = Elements(postorder')
        /\ (\A i, j \in 1 .. Len(postorder') : postorder'[i] = postorder'[j] => i = j)
             => \A i, j \in 1 .. Len(order') : order'[i] = order'[j] => i = j
    BY <1>6, <2>1, ReversedFacts
  <2>3. TypeOK'
    <3>1. Len(order') \in Nat BY <2>2
    <3>2. pos' \in 1 .. (Len(order') + 1) BY <2>1, <3>1
    <3>3. stack' \in Seq(F) BY <1>1, <1>3
    <3>4. /\ succ' \in [Nodes -> SUBSET Nodes] /\ visited' \subseteq Nodes
          /\ dominators' \in [Nodes -> SUBSET Nodes]
      BY <1>1, <1>2 DEF TypeOK
    <3>5. passes' \in 0 .. PassBound BY <2>1 DEF PassBound
    <3>8. changed' \in BOOLEAN BY <2>1
    <3>6. postorder' \in Seq(Nodes) /\ order' \in Seq(Nodes) BY <1>6, <2>2
    <3>7. pc' = "iterate" /\ stack' = <<>> BY <2>1
    <3> QED BY <3>2, <3>3, <3>4, <3>5, <3>6, <3>7, <3>8 DEF TypeOK, F
  <2>4. visited' \subseteq Elements(postorder')
    <3>1. Len(stack') = 0 BY <2>1
    <3> QED BY <1>8, <3>1 DEF DfsInv
  <2>5. OrderInv'
    <3>1. /\ \A n \in Elements(postorder') : n \in visited' /\ succ'[n] \subseteq visited'
          /\ \A i, j \in 1 .. Len(postorder') : postorder'[i] = postorder'[j] => i = j
      BY <1>8 DEF DfsInv
    <3>2. Elements(order') = visited' BY <2>2, <2>4, <3>1
    <3>3. \A n \in visited' : succ'[n] \subseteq visited' BY <2>4, <3>1
    <3>4. \A i, j \in 1 .. Len(order') : order'[i] = order'[j] => i = j
      BY <2>2, <3>1
    <3> QED BY <3>2, <3>3, <3>4 DEF OrderInv
  <2>6. TableInv'
    <3>1. \A i \in 1 .. (pos' - 1) : FALSE BY <2>1
    <3> QED BY <1>1, <1>2, <2>1, <3>1 DEF TableInv, NewDom, Pred
  <2>7. NoDominatorLost'
    BY <1>1, <1>2, <2>1 DEF NoDominatorLost, Dominates, Avoiding
  <2> QED BY <1>8, <2>3, <2>5, <2>6, <2>7 DEF DInv
<1>10. CASE Pop # <<>>
  <2>1. UNCHANGED <<order, pc, pos, changed, passes>> BY <1>1, <1>10
  <2>2. TypeOK'
    BY <1>1, <1>2, <1>3, <1>6, <1>10, <2>1 DEF TypeOK, F
  <2>3. OrderInv' BY <1>1, <2>1 DEF OrderInv
  <2>4. TableInv' BY <1>1, <1>2, <2>1 DEF TableInv, NewDom, Pred
  <2>5. NoDominatorLost'
    BY <1>1, <1>2, <2>1 DEF NoDominatorLost, Dominates, Avoiding
  <2> QED BY <1>8, <2>2, <2>3, <2>4, <2>5 DEF DInv
<1> QED BY <1>9, <1>10

\* One node of a pass: its set comes down to what its predecessors allow.
LEMMA StepUpdateNode ==
  ASSUME DInv, UpdateNode
  PROVE  /\ DInv'
         /\ \A n \in Nodes : dominators'[n] \subseteq dominators[n]
<1> DEFINE m == order[pos]
<1>1. /\ pc = "iterate" /\ pos <= Len(order) /\ pos' = pos + 1
      /\ IF m = StartNode
         THEN UNCHANGED <<dominators, changed>>
         ELSE /\ dominators' = [dominators EXCEPT ![m] = NewDom(m)]
              /\ changed' = (changed \/ dominators[m] # NewDom(m))
      /\ UNCHANGED <<succ, visited, stack, postorder, order, passes, pc>>
  BY DEF UpdateNode
<1>2. TypeOK /\ DfsInv /\ OrderInv /\ TableInv /\ NoDominatorLost BY DEF DInv
<1>3. /\ pos \in Nat /\ Len(order) \in Nat /\ pos \in 1 .. Len(order)
      /\ order \in Seq(Nodes) /\ m \in Nodes /\ m \in Elements(order)
      /\ dominators \in [Nodes -> SUBSET Nodes]
      /\ succ \in [Nodes -> SUBSET Nodes]
  <2>1. order \in Seq(Nodes) /\ pos \in 1 .. (Len(order) + 1) BY <1>2 DEF TypeOK
  <2>2. Len(order) \in Nat /\ \A i \in 1 .. Len(order) : order[i] \in Nodes BY <2>1
  <2>3. pos \in 1 .. Len(order) BY <1>1, <2>1, <2>2
  <2> QED BY <1>1, <1>2, <2>1, <2>2, <2>3 DEF TypeOK, Elements
<1>4. m \in visited BY <1>1, <1>2, <1>3 DEF OrderInv
<1> HIDE DEF m
<1>5. NewDom(m) \in SUBSET Nodes BY <1>3 DEF NewDom
<1>6. /\ dominators' \in [Nodes -> SUBSET Nodes]
      /\ \A n \in Nodes : n # m => dominators'[n] = dominators[n]
      /\ m # StartNode => dominators'[m] = NewDom(m)
      /\ m = StartNode => dominators' = dominators
      /\ changed' \in BOOLEAN
  BY <1>1, <1>2, <1>3, <1>5 DEF TypeOK
<1>7. ASSUME NEW n \in Nodes PROVE dominators'[n] \subseteq dominators[n]
  <2>1. m # StartNode => NewDom(m) \subseteq dominators[m]
    BY <1>1, <1>2, <1>3 DEF TableInv
  <2> QED BY <1>6, <2>1
<1>8. ASSUME NEW n \in Nodes PROVE NewDom(n)' \subseteq NewDom(n)
  <2>1. Pred(n)' = Pred(n) BY <1>1 DEF Pred
  <2>2. Pred(n) \subseteq Nodes BY DEF Pred
  <2> QED BY <1>7, <2>1, <2>2 DEF NewDom
<1>9. TypeOK'
  <2>1. pos' \in 1 .. (Len(order') + 1) BY <1>1, <1>3
  <2> QED BY <1>1, <1>2, <1>6, <2>1 DEF TypeOK
<1>10. DfsInv' BY <1>1, <1>2 DEF DfsInv
<1>11. OrderInv' BY <1>1, <1>2 DEF OrderInv
<1>12. TableInv'
  <2>1. dominators'[StartNode] = {StartNode}
    BY <1>1, <1>2, <1>6, GraphAssumption DEF TableInv
  <2>2. \A n \in Nodes \ visited : n # StartNode => dominators'[n] = Nodes
    BY <1>1, <1>2, <1>4, <1>6 DEF TableInv
  <2>3. ASSUME NEW n \in Nodes \ {StartNode} PROVE NewDom(n)' \subseteq dominators'[n]
    <3>1. NewDom(n) \subseteq dominators[n] BY <1>1, <1>2 DEF TableInv
    <3>2. CASE n = m BY <1>6, <1>8, <3>2
    <3>3. CASE n # m BY <1>6, <1>8, <3>1, <3>3
    <3> QED BY <3>2, <3>3
  <2>4. ASSUME ~changed', NEW i \in 1 .. (pos' - 1), order[i] # StartNode
        PROVE  dominators'[order[i]] = NewDom(order[i])'
    <3>1. i \in 1 .. (pos - 1) \/ i = pos BY <1>1, <1>3
    <3>2. ~changed /\ (m # StartNode => dominators[m] = NewDom(m)) BY <1>1, <1>6, <2>4
    <3>3. dominators' = dominators BY <1>3, <1>6, <3>2
    <3>4. dominators[order[i]] = NewDom(order[i])
      BY <1>1, <1>2, <2>4, <3>1, <3>2 DEF TableInv, m
    <3>5. NewDom(order[i])' = NewDom(order[i]) BY <1>1, <3>3 DEF NewDom, Pred
    <3> QED BY <3>3, <3>4, <3>5
  <2> QED BY <1>1, <2>1, <2>2, <2>3, <2>4 DEF TableInv
<1>13. NoDominatorLost'
  <2> SUFFICES ASSUME NEW d \in Nodes, NEW n \in Nodes, Dominates(d, n)'
               PROVE  d \in dominators'[n]
    BY DEF NoDominatorLost
  <2>1. Dominates(d, n) BY <1>1 DEF Dominates, Avoiding
  <2>2. \A p \in Nodes : Dominates(d, p) => d \in dominators[p]
    BY <1>1, <1>2 DEF NoDominatorLost
  <2>3. CASE n # m \/ m = StartNode BY <1>6, <2>1, <2>2, <2>3
  <2>4. CASE n = m /\ m # StartNode
    <3>1. d # n => \A p \in Pred(n) : d \in dominators[p]
      BY <1>3, <2>1, <2>2, DominatesPred DEF Pred
    <3> QED BY <1>6, <2>4, <3>1 DEF NewDom
  <2> QED BY <2>3, <2>4
<1> QED BY <1>7, <1>9, <1>10, <1>11, <1>12, <1>13 DEF DInv

\* The end of a pass: a pass without a change has left every set as its
\* predecessors determine it.
LEMMA StepEndPass ==
  ASSUME DInv, EndPass
  PROVE  DInv'
<1>1. /\ pc = "iterate" /\ pos > Len(order)
      /\ UNCHANGED <<succ, visited, stack, postorder, order, dominators>>
  BY DEF EndPass
<1>2. TypeOK /\ DfsInv /\ OrderInv /\ TableInv /\ NoDominatorLost BY DEF DInv
<1>3. CASE changed
  <2>1. pos' = 1 /\ changed' = FALSE /\ pc' = pc /\ passes' \in 0 .. PassBound
    BY <1>2, <1>3 DEF EndPass, TypeOK, PassBound
  <2>2. Len(order) \in Nat BY <1>2 DEF TypeOK
  <2>3. TypeOK'
    <3>1. pos' \in 1 .. (Len(order') + 1) BY <1>1, <2>1, <2>2
    <3>2. changed' \in BOOLEAN BY <2>1
    <3> QED BY <1>1, <1>2, <2>1, <3>1, <3>2 DEF TypeOK
  <2>4. TableInv'
    <3>1. \A i \in 1 .. (pos' - 1) : FALSE BY <2>1
    <3> QED BY <1>1, <1>2, <2>1, <3>1 DEF TableInv, NewDom, Pred
  <2>5. DfsInv' /\ OrderInv' BY <1>1, <1>2, <2>1 DEF DfsInv, OrderInv
  <2>6. NoDominatorLost'
    BY <1>1, <1>2, <2>1 DEF NoDominatorLost, Dominates, Avoiding
  <2> QED BY <2>3, <2>4, <2>5, <2>6 DEF DInv
<1>4. CASE ~changed
  <2>1. pc' = "done" /\ UNCHANGED <<pos, changed, passes>> BY <1>4 DEF EndPass
  <2>2. TypeOK' BY <1>1, <1>2, <2>1 DEF TypeOK
  <2>3. TableInv'
    <3>1. ASSUME NEW n \in visited \ {StartNode} PROVE dominators[n] = NewDom(n)
      <4>1. n \in Elements(order) BY <1>1, <1>2 DEF OrderInv
      <4>2. PICK i \in 1 .. Len(order) : order[i] = n BY <4>1 DEF Elements
      <4>3. Len(order) \in Nat /\ pos \in 1 .. (Len(order) + 1) BY <1>2 DEF TypeOK
      <4>4. i \in 1 .. (pos - 1) BY <1>1, <4>3
      <4> QED BY <1>1, <1>2, <1>4, <4>2, <4>4 DEF TableInv
    <3> QED BY <1>1, <1>2, <2>1, <3>1 DEF TableInv, NewDom, Pred
  <2>4. DfsInv' /\ OrderInv' BY <1>1, <1>2, <2>1 DEF DfsInv, OrderInv
  <2>5. NoDominatorLost'
    BY <1>1, <1>2, <2>1 DEF NoDominatorLost, Dominates, Avoiding
  <2> QED BY <2>2, <2>3, <2>4, <2>5 DEF DInv
<1> QED BY <1>3, <1>4

\* The invariant does not depend on anything but the variables.
LEMMA StepStutter ==
  ASSUME DInv, UNCHANGED vars
  PROVE  DInv'
<1>1. TypeOK /\ DfsInv /\ OrderInv /\ TableInv /\ NoDominatorLost BY DEF DInv
<1>2. UNCHANGED <<succ, visited, stack, postorder, order, dominators, pos, changed,
                  passes, pc>>
  BY DEF vars
<1>3. TypeOK' BY <1>1, <1>2 DEF TypeOK
<1>4. DfsInv' /\ OrderInv' BY <1>1, <1>2 DEF DfsInv, OrderInv
<1>5. TableInv' BY <1>1, <1>2 DEF TableInv, NewDom, Pred
<1>6. NoDominatorLost' BY <1>1, <1>2 DEF NoDominatorLost, Dominates, Avoiding
<1> QED BY <1>3, <1>4, <1>5, <1>6 DEF DInv

\* At the end the sets satisfy the equations of the passes, and a set that
\* satisfies them holds dominators only: the blocks that d is not a candidate
\* for are closed under every edge that avoids d.
LEMMA FixpointIsExact ==
  ASSUME DInv
  PROVE  Exact
<1> SUFFICES ASSUME pc = "done", NEW n \in visited
             PROVE  dominators[n] = {d \in Nodes : Dominates(d, n)}
  BY DEF Exact
<1>1. TypeOK /\ DfsInv /\ OrderInv /\ TableInv /\ NoDominatorLost BY DEF DInv
<1>2. /\ n \in Nodes /\ visited \subseteq Nodes
      /\ dominators \in [Nodes -> SUBSET Nodes]
      /\ succ \in [Nodes -> SUBSET Nodes]
  BY <1>1 DEF TypeOK
<1>3. ASSUME NEW d \in dominators[n] PROVE Dominates(d, n)
  <2> DEFINE S == {b \in Nodes : d \notin dominators[b]}
  <2>1. d \in Nodes BY <1>2
  <2>2. ASSUME NEW b \in Nodes, b # StartNode, b \in visited
        PROVE  dominators[b] = NewDom(b)
    BY <1>1, <2>2 DEF TableInv
  <2>3. d \in dominators[d]
    <3>1. CASE d = StartNode BY <1>1, <3>1 DEF TableInv
    <3>2. CASE d # StartNode
      <4>1. d \in NewDom(d) BY DEF NewDom
      <4> QED BY <1>1, <2>1, <3>2, <4>1 DEF TableInv
    <3> QED BY <3>1, <3>2
  <2>4. StartNode # d => StartNode \in S
    BY <1>1, GraphAssumption DEF TableInv
  <2>5. ASSUME NEW b \in S, NEW c \in succ[b], c # d PROVE c \in S
    <3>1. b \in Nodes /\ c \in Nodes /\ d \notin dominators[b] BY <1>2
    <3>2. CASE c = StartNode BY <2>4, <2>5, <3>2
    <3>3. CASE c # StartNode
      <4>1. b \in visited
        <5>1. b \in visited \/ b = StartNode BY <1>1, <2>1, <3>1 DEF TableInv
        <5> QED BY <1>1, <5>1 DEF DfsInv
      <4>2. c \in visited BY <1>1, <4>1 DEF OrderInv
      <4>3. dominators[c] = NewDom(c) BY <2>2, <3>1, <3>3, <4>2
      <4>4. b \in Pred(c) BY <3>1 DEF Pred
      <4> QED BY <2>5, <3>1, <4>3, <4>4 DEF NewDom
    <3> QED BY <3>2, <3>3
  <2>6. S \in SUBSET (Nodes \ {d}) /\ n \notin S BY <2>3
  <2>7. Avoiding(d, S) BY <2>4, <2>5 DEF Avoiding
  <2> HIDE DEF S
  <2> QED BY <2>6, <2>7 DEF Dominates
<1>4. ASSUME NEW d \in Nodes, Dominates(d, n) PROVE d \in dominators[n]
  BY <1>1, <1>2, <1>4 DEF NoDominatorLost
<1>5. dominators[n] \subseteq Nodes BY <1>2
<1> QED BY <1>3, <1>4, <1>5

\* If every predecessor of n is dominated by d, or by n itself, then d dominates
\* n: a path that comes to n for the first time comes from a predecessor that n
\* does not dominate.
LEMMA TwoWays ==
  ASSUME succ \in [Nodes -> SUBSET Nodes],
         StartNode \in visited, visited \subseteq Nodes,
         \A b \in visited : succ[b] \subseteq visited,
         NEW d \in Nodes, NEW n \in Nodes, n # StartNode, n # d,
         \A p \in Pred(n) \cap visited : Dominates(d, p) \/ Dominates(n, p)
  PROVE  Dominates(d, n)
<1> DEFINE Closed(T) == StartNode \in T /\ \A b \in T : succ[b] \ {d, n} \subseteq T
           S == {b \in Nodes : \A T \in SUBSET Nodes : Closed(T) => b \in T}
<1>1. CASE StartNode = d
  <2>1. {} \in SUBSET (Nodes \ {d}) /\ n \notin {} /\ Avoiding(d, {})
    BY <1>1 DEF Avoiding
  <2> QED BY <2>1 DEF Dominates
<1>2. CASE StartNode # d
  <2>1. StartNode \in S BY GraphAssumption
  <2>2. d \notin S /\ n \notin S
    <3>1. Nodes \ {d, n} \in SUBSET Nodes /\ Closed(Nodes \ {d, n})
      BY <1>2, GraphAssumption
    <3> HIDE DEF Closed
    <3> QED BY <3>1
  <2>3. S \subseteq visited
    <3>1. visited \in SUBSET Nodes /\ Closed(visited) OBVIOUS
    <3> HIDE DEF Closed
    <3> QED BY <3>1
  <2>4. ASSUME NEW b \in S PROVE n \notin succ[b]
    <3>1. SUFFICES ASSUME n \in succ[b] PROVE FALSE OBVIOUS
    <3>2. b \in Pred(n) \cap visited BY <2>3, <3>1 DEF Pred
    <3>3. PICK x \in {d, n} : Dominates(x, b) BY <3>2
    <3>4. PICK U \in SUBSET (Nodes \ {x}) : b \notin U /\ Avoiding(x, U)
      BY <3>3 DEF Dominates
    <3>5. U \in SUBSET Nodes /\ Closed(U) BY <1>2, <3>4 DEF Avoiding
    <3> HIDE DEF Closed
    <3> QED BY <3>4, <3>5
  <2>5. ASSUME NEW b \in S, NEW c \in succ[b], c # d PROVE c \in S
    <3>1. c # n /\ c \in Nodes BY <2>4
    <3>2. ASSUME NEW T \in SUBSET Nodes, Closed(T) PROVE c \in T
      BY <2>5, <3>1, <3>2
    <3> HIDE DEF Closed
    <3> QED BY <3>1, <3>2
  <2>6. S \in SUBSET (Nodes \ {d}) BY <2>2
  <2> HIDE DEF S
  <2>7. Avoiding(d, S) BY <2>1, <2>5 DEF Avoiding
  <2> QED BY <2>2, <2>6, <2>7 DEF Dominates
<1> QED BY <1>1, <1>2

\* A node of the first pass over a reducible graph: when the sets before it in the
\* list are final, so is its own, because every predecessor that comes later is
\* dominated by it.
LEMMA FirstPass ==
  ASSUME DInv, PassInv, UpdateNode, Reducible, passes = 1,
         NEW m, m = order[pos]
  PROVE  dominators'[m] = {d \in Nodes : Dominates(d, m)}
<1> DEFINE L == Len(postorder)
<1>1. /\ pc = "iterate" /\ pos <= Len(order)
      /\ IF m = StartNode
         THEN dominators' = dominators
         ELSE dominators' = [dominators EXCEPT ![m] = NewDom(m)]
      /\ succ' = succ /\ pc' = pc
  BY DEF UpdateNode
<1>2. TypeOK /\ DfsInv /\ OrderInv /\ TableInv /\ NoDominatorLost BY DEF DInv
<1>3. /\ pos \in 1 .. Len(order) /\ pos \in Nat
      /\ order \in Seq(Nodes) /\ Len(order) \in Nat /\ m \in Nodes
      /\ dominators \in [Nodes -> SUBSET Nodes]
      /\ succ \in [Nodes -> SUBSET Nodes]
      /\ visited \subseteq Nodes
      /\ postorder \in Seq(Nodes) /\ L \in Nat
  <2>1. order \in Seq(Nodes) /\ pos \in 1 .. (Len(order) + 1) BY <1>2 DEF TypeOK
  <2>2. Len(order) \in Nat /\ \A i \in 1 .. Len(order) : order[i] \in Nodes BY <2>1
  <2>3. pos \in 1 .. Len(order) BY <1>1, <2>1, <2>2
  <2> QED BY <1>1, <1>2, <2>1, <2>2, <2>3 DEF TypeOK
<1>4. /\ Len(order) = L
      /\ \A i \in 1 .. L : order[i] = postorder[L + 1 - i] /\ L + 1 - i \in 1 .. L
  <2>1. order = Reversed(postorder) BY <1>1 DEF PassInv
  <2>2. Len(order) = L BY <1>3, <2>1, ReversedFacts
  <2>3. \A i \in 1 .. L : order[i] = postorder[L + 1 - i] BY <2>1 DEF Reversed
  <2> QED BY <1>3, <2>2, <2>3
<1>5. /\ m \in visited /\ StartNode \in visited
      /\ \A b \in visited : succ[b] \subseteq visited
      /\ \A b \in visited : \E j \in 1 .. L : order[j] = b
  <2>1. Elements(order) = visited BY <1>1, <1>2 DEF OrderInv
  <2>2. StartNode \in visited BY <1>1, <1>2 DEF DfsInv
  <2>3. \A b \in visited : succ[b] \subseteq visited BY <1>1, <1>2 DEF OrderInv
  <2>4. \A b \in visited : \E j \in 1 .. L : order[j] = b BY <1>4, <2>1 DEF Elements
  <2>5. m \in visited BY <1>3, <2>1 DEF Elements
  <2> QED BY <2>2, <2>3, <2>4, <2>5
<1> HIDE DEF L
<1>6. ASSUME NEW d \in Nodes, Dominates(d, m) PROVE d \in dominators'[m]
  <2>1. NoDominatorLost' BY StepUpdateNode DEF DInv
  <2>2. Dominates(d, m)' BY <1>1, <1>6 DEF Dominates, Avoiding
  <2> QED BY <1>1, <1>3, <2>1, <2>2 DEF NoDominatorLost
<1>7. CASE m = StartNode
  <2>1. dominators'[m] = {StartNode} BY <1>1, <1>2, <1>7 DEF TableInv
  <2>2. Dominates(m, m) BY <1>3, SelfDominates
  <2>3. \A d \in Nodes : Dominates(d, m) => d = m BY <1>7, DominatesStart
  <2> QED BY <1>3, <1>7, <2>1, <2>2, <2>3
<1>8. CASE m # StartNode
  <2>1. dominators'[m] = NewDom(m) BY <1>1, <1>3, <1>8
  <2>2. ASSUME NEW d \in NewDom(m), d # m PROVE Dominates(d, m)
    <3>1. d \in Nodes /\ \A p \in Pred(m) : d \in dominators[p] BY <2>2 DEF NewDom
    <3>2. ASSUME NEW p \in Pred(m) \cap visited
          PROVE  Dominates(d, p) \/ Dominates(m, p)
      <4>1. PICK j \in 1 .. L : order[j] = p BY <1>5
      <4>2. CASE j \in 1 .. (pos - 1)
        <5>1. dominators[p] = {e \in Nodes : Dominates(e, p)}
          BY <1>1, <4>1, <4>2 DEF PassInv
        <5> QED BY <3>1, <5>1
      <4>3. CASE j \notin 1 .. (pos - 1)
        <5>1. pos <= j BY <1>3, <1>4, <4>3
        <5>2. /\ L + 1 - j \in 1 .. L /\ L + 1 - pos \in 1 .. L
              /\ p = postorder[L + 1 - j] /\ m = postorder[L + 1 - pos]
          BY <1>3, <1>4, <4>1
        <5>3. L + 1 - j <= L + 1 - pos BY <1>3, <5>1
        <5>4. m \in succ[p] BY DEF Pred
        <5> QED BY <5>2, <5>3, <5>4 DEF Reducible, L
      <4> QED BY <4>2, <4>3
    <3> QED BY <1>3, <1>5, <1>8, <2>2, <3>1, <3>2, TwoWays
  <2>3. Dominates(m, m) BY <1>3, SelfDominates
  <2>4. NewDom(m) \subseteq Nodes BY <1>3 DEF NewDom
  <2> QED BY <1>6, <2>1, <2>2, <2>3, <2>4
<1> QED BY <1>7, <1>8

\* A node of a pass over sets that are all final: nothing changes.
LEMMA LaterPass ==
  ASSUME DInv, UpdateNode,
         \A n \in visited : dominators[n] = {d \in Nodes : Dominates(d, n)}
  PROVE  dominators' = dominators /\ changed' = changed
<1> DEFINE m == order[pos]
<1>1. /\ pc = "iterate" /\ pos <= Len(order)
      /\ IF m = StartNode
         THEN UNCHANGED <<dominators, changed>>
         ELSE /\ dominators' = [dominators EXCEPT ![m] = NewDom(m)]
              /\ changed' = (changed \/ dominators[m] # NewDom(m))
  BY DEF UpdateNode
<1>2. TypeOK /\ DfsInv /\ OrderInv /\ TableInv /\ NoDominatorLost BY DEF DInv
<1>3. /\ m \in visited /\ m \in Nodes /\ changed \in BOOLEAN
      /\ dominators \in [Nodes -> SUBSET Nodes]
      /\ succ \in [Nodes -> SUBSET Nodes]
  <2>1. order \in Seq(Nodes) /\ pos \in 1 .. (Len(order) + 1) /\ Len(order) \in Nat
    BY <1>2 DEF TypeOK
  <2>2. pos \in 1 .. Len(order) BY <1>1, <2>1
  <2>3. m \in Elements(order) BY <2>2 DEF Elements
  <2> QED BY <1>1, <1>2, <2>3 DEF OrderInv, TypeOK
<1> HIDE DEF m
<1>4. CASE m = StartNode BY <1>1, <1>4
<1>5. CASE m # StartNode
  <2>1. NewDom(m) \subseteq dominators[m] BY <1>1, <1>2, <1>3, <1>5 DEF TableInv
  <2>2. ASSUME NEW d \in dominators[m], d # m PROVE d \in NewDom(m)
    <3>1. d \in Nodes /\ Dominates(d, m) BY <1>3
    <3>2. \A p \in Pred(m) : p \in Nodes /\ Dominates(d, p)
      BY <1>3, <2>2, <3>1, DominatesPred DEF Pred
    <3>3. \A p \in Pred(m) : d \in dominators[p]
      BY <1>1, <1>2, <3>1, <3>2 DEF NoDominatorLost
    <3> QED BY <3>1, <3>3 DEF NewDom
  <2>3. m \in NewDom(m) BY DEF NewDom
  <2>4. NewDom(m) = dominators[m] BY <2>1, <2>2, <2>3
  <2> QED BY <1>1, <1>3, <1>5, <2>4
<1> QED BY <1>4, <1>5

\* Every step keeps PassInv, next to DInv.
LEMMA StepPassInv ==
  ASSUME DInv, PassInv, [Next]_vars
  PROVE  PassInv'
<1>1. TypeOK /\ OrderInv BY DEF DInv
<1>2. CASE InitDominators \/ DfsCall
  <2>1. pc' = "dfs" /\ passes' = 0 BY <1>2 DEF InitDominators, DfsCall, PassInv
  <2> QED BY <2>1 DEF PassInv
<1>3. CASE DfsReturn
  <2>1. CASE Pop = <<>>
    <3>1. /\ order' = Reversed(postorder') /\ pc' = "iterate" /\ pos' = 1
          /\ passes' = 1
      BY <1>3, <2>1 DEF DfsReturn
    <3>2. \A i \in 1 .. (pos' - 1) : FALSE BY <3>1
    <3> QED BY <3>1, <3>2 DEF PassInv
  <2>2. CASE Pop # <<>>
    <3>1. pc' = "dfs" /\ passes' = 0 BY <1>3, <2>2 DEF DfsReturn, PassInv
    <3> QED BY <3>1 DEF PassInv
  <2> QED BY <2>1, <2>2
<1>4. CASE UpdateNode
  <2>1. /\ pc = "iterate" /\ pos <= Len(order) /\ pos' = pos + 1
        /\ UNCHANGED <<succ, visited, postorder, order, passes, pc>>
    BY <1>4 DEF UpdateNode
  <2>2. \A d, n : Dominates(d, n)' = Dominates(d, n)
    BY <2>1 DEF Dominates, Avoiding
  <2>3. Reducible' = Reducible BY <2>1, <2>2 DEF Reducible
  <2>4. ASSUME Reducible, passes = 1, NEW i \in 1 .. (pos' - 1)
        PROVE  dominators'[order[i]] = {d \in Nodes : Dominates(d, order[i])}
    <3>1. /\ pos \in Nat /\ pos \in 1 .. Len(order) /\ Len(order) \in Nat
          /\ dominators \in [Nodes -> SUBSET Nodes]
      BY <1>1, <2>1 DEF TypeOK
    <3>2. i = pos \/ i \in 1 .. (pos - 1) BY <2>1, <3>1
    <3>3. CASE i = pos
      <4>1. PICK m : m = order[pos] OBVIOUS
      <4> QED BY <1>4, <2>4, <3>3, <4>1, FirstPass
    <3>4. CASE i \in 1 .. (pos - 1)
      <4>1. dominators[order[i]] = {d \in Nodes : Dominates(d, order[i])}
        BY <2>1, <2>4, <3>4 DEF PassInv
      <4>2. i \in 1 .. Len(order) /\ i # pos BY <3>1, <3>4
      <4>3. order[i] # order[pos] BY <1>1, <2>1, <3>1, <4>2 DEF OrderInv
      <4>4. \/ dominators' = dominators
            \/ dominators' = [dominators EXCEPT ![order[pos]] = NewDom(order[pos])]
        BY <1>4 DEF UpdateNode
      <4>5. order[i] \in Nodes BY <1>1, <4>2 DEF TypeOK
      <4>6. dominators'[order[i]] = dominators[order[i]]
        BY <3>1, <4>3, <4>4, <4>5
      <4> QED BY <4>1, <4>6
    <3> QED BY <3>2, <3>3, <3>4
  <2>5. ASSUME Reducible, passes = 2
        PROVE  dominators' = dominators /\ changed' = changed
    BY <1>4, <2>1, <2>5, LaterPass DEF PassInv
  <2>6. ASSUME Reducible, passes = 1
        PROVE  \A n \in {order'[i] : i \in 1 .. (pos' - 1)} :
                 dominators'[n] = {d \in Nodes : Dominates(d, n)'}
    <3>1. \A n \in {order[i] : i \in 1 .. (pos' - 1)} :
            dominators'[n] = {d \in Nodes : Dominates(d, n)}
      BY <2>4, <2>6
    <3> QED BY <2>1, <2>2, <3>1
  <2>7. ASSUME Reducible, passes = 2
        PROVE  ~changed' /\ \A n \in visited' :
                              dominators'[n] = {d \in Nodes : Dominates(d, n)'}
    BY <2>1, <2>2, <2>5, <2>7 DEF PassInv
  <2> QED BY <2>1, <2>3, <2>6, <2>7 DEF PassInv
<1>5. CASE EndPass
  <2>1. /\ pc = "iterate" /\ pos > Len(order)
        /\ UNCHANGED <<succ, visited, postorder, order, dominators>>
    BY <1>5 DEF EndPass
  <2>2. \A d, n : Dominates(d, n)' = Dominates(d, n)
    BY <2>1 DEF Dominates, Avoiding
  <2>3. Reducible' = Reducible BY <2>1, <2>2 DEF Reducible
  <2>4. CASE ~changed
    <3>1. pc' = "done" /\ passes' = passes BY <1>5, <2>4 DEF EndPass
    <3> QED BY <2>1, <2>3, <3>1 DEF PassInv
  <2>5. CASE changed
    <3>1. /\ pc' = "iterate" /\ pos' = 1 /\ changed' = FALSE /\ passes \in Nat
          /\ passes' = IF passes < 3 THEN passes + 1 ELSE passes
      BY <1>1, <1>5, <2>1, <2>5 DEF EndPass, TypeOK, PassBound
    <3>2. passes >= 1 /\ order' = Reversed(postorder') BY <2>1 DEF PassInv
    <3>3. ASSUME Reducible PROVE passes = 1
      BY <2>1, <2>5, <3>1, <3>2, <3>3 DEF PassInv
    <3>4. ASSUME Reducible, NEW n \in visited
          PROVE  dominators[n] = {d \in Nodes : Dominates(d, n)}
      <4>1. n \in Elements(order) BY <1>1, <2>1 DEF OrderInv
      <4>2. PICK i \in 1 .. Len(order) : order[i] = n BY <4>1 DEF Elements
      <4>3. Len(order) \in Nat /\ pos \in Nat BY <1>1 DEF TypeOK
      <4>4. i \in 1 .. (pos - 1) BY <2>1, <4>3
      <4> QED BY <2>1, <3>3, <3>4, <4>2, <4>4 DEF PassInv
    <3>5. passes' >= 1 /\ (Reducible => passes' = 2) BY <3>1, <3>2, <3>3
    <3>6. Reducible => \A n \in visited' :
                         dominators'[n] = {d \in Nodes : Dominates(d, n)'}
      BY <2>1, <2>2, <3>4
    <3> QED BY <2>3, <3>1, <3>2, <3>5, <3>6 DEF PassInv
  <2> QED BY <2>4, <2>5
<1>6. CASE Returned \/ UNCHANGED vars
  <2>1. UNCHANGED <<succ, visited, stack, postorder, order, dominators, pos, changed,
                    passes, pc>>
    BY <1>6 DEF Returned, vars
  <2>2. \A d, n : Dominates(d, n)' = Dominates(d, n)
    BY <2>1 DEF Dominates, Avoiding
  <2>3. Reducible' = Reducible BY <2>1, <2>2 DEF Reducible
  <2> QED BY <2>1, <2>2, <2>3 DEF PassInv
<1> QED BY <1>2, <1>3, <1>4, <1>5, <1>6 DEF Next, Step

(***************************************************************************)
(* Part 3: the theorems.                                                   *)
(***************************************************************************)

\* DInv is an inductive invariant of compute_dominators.
THEOREM Invariance == Spec => []DInv
<1>1. Init => DInv BY InitDInv
<1>2. DInv /\ [Next]_vars => DInv'
  <2> SUFFICES ASSUME DInv, [Next]_vars PROVE DInv' OBVIOUS
  <2>1. CASE InitDominators BY <2>1, StepInitDominators
  <2>2. CASE DfsCall BY <2>2, StepDfsCall
  <2>3. CASE DfsReturn BY <2>3, StepDfsReturn
  <2>4. CASE UpdateNode BY <2>4, StepUpdateNode
  <2>5. CASE EndPass BY <2>5, StepEndPass
  <2>6. CASE Returned BY <2>6, StepStutter DEF Returned
  <2>7. CASE UNCHANGED vars BY <2>7, StepStutter
  <2> QED BY <2>1, <2>2, <2>3, <2>4, <2>5, <2>6, <2>7 DEF Next, Step
<1> QED BY <1>1, <1>2, PTL DEF Spec

\* The variables of compute_dominators keep their types.
THEOREM TypeCorrect == Spec => []TypeOK
<1>1. DInv => TypeOK BY DEF DInv
<1> QED BY <1>1, Invariance, PTL

\* The sets never lose a dominator on their way down.
THEOREM Sound == Spec => []NoDominatorLost
<1>1. DInv => NoDominatorLost BY DEF DInv
<1> QED BY <1>1, Invariance, PTL

\* compute_dominators is correct: for every flow graph, the sets it returns
\* are those of the dominators.
THEOREM Correct == Spec => []Exact
<1>1. DInv => Exact BY FixpointIsExact
<1> QED BY <1>1, Invariance, PTL

\* reverse_postorder lists the reachable blocks, each once.
THEOREM Search == Spec => []OrderIsReachable
<1>1. DInv => OrderIsReachable
  BY DEF DInv, DfsInv, OrderInv, OrderIsReachable
<1> QED BY <1>1, Invariance, PTL

\* With what it says of the passes, the invariant is inductive as well.
THEOREM PassesInvariance == Spec => []IInv
<1>1. Init => PassInv
  <2>1. ASSUME Init PROVE pc = "init" /\ passes = 0 BY <2>1 DEF Init
  <2>2. ASSUME Init PROVE PassInv BY <2>1, <2>2 DEF PassInv
  <2> QED BY <2>2
<1>2. DInv /\ PassInv /\ [Next]_vars => PassInv' BY StepPassInv
<1>3. DInv /\ PassInv => IInv BY DEF IInv
<1> QED BY <1>1, <1>2, <1>3, Invariance, PTL DEF Spec

\* Reverse postorder is the right order, whatever the function: in a reducible
\* graph the while loop begins at most two passes.
THEOREM TwoPassesSuffice == Spec => []ReducibleTwoPasses
<1>1. IInv => ReducibleTwoPasses BY DEF IInv, PassInv, ReducibleTwoPasses
<1> QED BY <1>1, PassesInvariance, PTL

\* No set ever grows, so the while loop can change the table only finitely
\* often.
THEOREM Shrinking == Spec => SetsOnlyShrink
<1> DEFINE A == pc = "iterate" => \A n \in Nodes : dominators'[n] \subseteq dominators[n]
<1>1. DInv /\ [Next]_vars => [A]_vars
  <2> SUFFICES ASSUME DInv, [Next]_vars, pc = "iterate", NEW n \in Nodes
               PROVE  dominators'[n] \subseteq dominators[n]
    OBVIOUS
  <2>1. CASE UpdateNode BY <2>1, StepUpdateNode
  <2>2. CASE EndPass BY <2>2 DEF EndPass
  <2>3. CASE UNCHANGED vars BY <2>3 DEF vars
  <2> QED BY <2>1, <2>2, <2>3
       DEF Next, Step, InitDominators, DfsCall, DfsReturn, Returned
<1>2. Spec => [][A]_vars BY <1>1, Invariance, PTL DEF Spec
<1> QED BY <1>2, PTL DEF SetsOnlyShrink

\* compute_dominators implements the abstract specification, but for the fairness
\* of its one step: every step is a stutter to its callers, except the last one,
\* which returns the dominators of all the blocks that can be reached.
THEOREM Refinement ==
  Spec => Promise!Init /\ [][Promise!Return]_<<succ, Answer>>
<1>1. Init => Promise!Init
  BY DEF Init, Answer, Promise!Init, Promise!NoAnswer
<1>2. ASSUME DInv, Exact', [Next]_vars
      PROVE  [Promise!Return]_<<succ, Answer>>
  <2>1. CASE EndPass /\ pc' = "done"
    <3>1. /\ pc = "iterate" /\ UNCHANGED <<succ, visited, dominators>>
      BY <2>1 DEF EndPass
    <3>2. \A n \in visited : dominators'[n] = {d \in Nodes : Dominates(d, n)}
      BY <1>2, <2>1, <3>1 DEF Exact, Dominates, Avoiding
    <3>3. visited = Promise!Reachable
      BY <1>2, <3>1 DEF DInv, TypeOK, DfsInv, OrderInv, Promise!Reachable
    <3>4. \A d, n : Promise!Dominates(d, n) <=> Dominates(d, n)
      BY DEF Promise!Dominates, Promise!Avoiding, Dominates, Avoiding
    <3>5. Answer' = [n \in Promise!Reachable |-> {d \in Nodes : Promise!Dominates(d, n)}]
      BY <2>1, <3>1, <3>2, <3>3, <3>4 DEF Answer
    <3> QED
      BY <3>1, <3>5 DEF Answer, Promise!Return, Promise!NoAnswer
  <2>2. CASE ~(EndPass /\ pc' = "done")
    BY <1>2, <2>2 DEF Next, Step, InitDominators, DfsCall, DfsReturn, UpdateNode, EndPass,
       Returned, Answer, vars
  <2> QED
    BY <2>1, <2>2
<1> QED
  BY <1>1, <1>2, Invariance, Correct, PTL DEF Spec

(***************************************************************************)
(* Part 4: why the loops end.                                              *)
(***************************************************************************)

\* S is a proper part of T.
Within(S, T) == S \subseteq T /\ S # T

\* The search goes on to a block it had not visited, else leaves one for good, else
\* has one successor less to look at.
SearchAdvances ==
  \/ Within(visited, visited')
  \/ visited' = visited /\ Within(Elements(postorder), Elements(postorder)')
  \/ UNCHANGED <<visited, postorder>> /\ Within(Top.todo', Top.todo)

\* No set of a pass grows, and one gets smaller, else the pass was the last of
\* those with a change, else the position moves on within the list.
PassAdvances ==
  /\ \A n \in Nodes : dominators'[n] \subseteq dominators[n]
  /\ \/ dominators' # dominators
     \/ dominators' = dominators /\ changed /\ ~changed'
     \/ /\ UNCHANGED <<dominators, changed, order>>
        /\ pos' = pos + 1 /\ pos' <= Len(order) + 1

\* A step enters the next phase, or is progress within the phase.
Advances ==
  \/ <<pc, pc'>> \in {<<"init", "dfs">>, <<"dfs", "iterate">>, <<"iterate", "done">>}
  \/ pc = "dfs" /\ pc' = "dfs" /\ SearchAdvances
  \/ pc = "iterate" /\ pc' = "iterate" /\ PassAdvances

\* A step of the search is progress.
LEMMA SearchGoesOn ==
  ASSUME DInv, DfsCall \/ (DfsReturn /\ Pop # <<>>)
  PROVE  pc = "dfs" /\ pc' = "dfs" /\ SearchAdvances
<1> DEFINE F == [node : Nodes, todo : SUBSET Nodes]
<1>1. TypeOK /\ DfsInv BY DEF DInv
<1>2. CASE DfsCall
  <2> DEFINE n == First(Top.todo)
             top == [Top EXCEPT !.todo = @ \ {n}]
             rest == Append(Pop, top)
  <2>1. /\ pc = "dfs" /\ pc' = "dfs" /\ Top.todo # {} /\ UNCHANGED postorder
        /\ visited' = visited \cup {n}
        /\ stack' = IF n \in visited THEN rest ELSE Append(rest, Frame(n))
    BY <1>2 DEF DfsCall
  <2>2. /\ Len(stack) \in Nat \ {0} /\ Top \in F /\ Pop \in Seq(F)
        /\ Len(Pop) = Len(stack) - 1
    BY <1>1, <2>1, TopFacts DEF Top
  <2>3. n \in Top.todo BY <2>1, <2>2, FirstInSet
  <2>4. CASE n \notin visited
    BY <2>1, <2>4 DEF SearchAdvances, Within
  <2>5. CASE n \in visited
    <3>1. top \in F /\ top.todo = Top.todo \ {n} BY <2>2
    <3> HIDE DEF top, n
    <3>2. Len(rest) = Len(stack) /\ rest[Len(stack)] = top BY <2>2, <3>1
    <3>3. stack' = rest BY <2>1, <2>5
    <3>4. Top' = top BY <3>2, <3>3 DEF Top
    <3> QED BY <2>1, <2>3, <2>5, <3>1, <3>4 DEF SearchAdvances, Within
  <2> QED BY <2>4, <2>5
<1>3. CASE DfsReturn /\ Pop # <<>>
  <2>1. /\ pc = "dfs" /\ pc' = "dfs" /\ visited' = visited
        /\ postorder' = Append(postorder, Top.node)
    BY <1>3 DEF DfsReturn
  <2>2. Len(stack) \in Nat \ {0} /\ Top \in F /\ Top = stack[Len(stack)]
    BY <1>1, <2>1, TopFacts DEF Top
  <2>3. Top.node \in Nodes /\ postorder \in Seq(Nodes) BY <1>1, <2>2 DEF TypeOK
  <2>4. Elements(postorder') = Elements(postorder) \cup {Top.node}
    BY <2>1, <2>3, AppendFacts
  <2>5. Top.node \notin Elements(postorder)
    BY <1>1, <2>2 DEF DfsInv
  <2> QED BY <2>1, <2>4, <2>5 DEF SearchAdvances, Within
<1> QED BY <1>2, <1>3

\* A step of the passes that is not the last one is progress.
LEMMA PassesGoOn ==
  ASSUME DInv, UpdateNode \/ (EndPass /\ changed)
  PROVE  pc = "iterate" /\ pc' = "iterate" /\ PassAdvances
<1>1. CASE UpdateNode
  <2> DEFINE m == order[pos]
  <2>1. /\ pc = "iterate" /\ pc' = "iterate" /\ pos <= Len(order) /\ pos' = pos + 1
        /\ order' = order
        /\ IF m = StartNode
           THEN UNCHANGED <<dominators, changed>>
           ELSE /\ dominators' = [dominators EXCEPT ![m] = NewDom(m)]
                /\ changed' = (changed \/ dominators[m] # NewDom(m))
    BY <1>1 DEF UpdateNode
  <2>2. \A n \in Nodes : dominators'[n] \subseteq dominators[n]
    BY <1>1, StepUpdateNode
  <2>3. /\ order \in Seq(Nodes) /\ pos \in 1 .. (Len(order) + 1)
        /\ dominators \in [Nodes -> SUBSET Nodes] /\ changed \in BOOLEAN
    BY <2>1 DEF DInv, TypeOK
  <2>4. m \in Nodes /\ pos' <= Len(order) + 1
    BY <2>1, <2>3
  <2> HIDE DEF m
  <2>5. dominators' = dominators => changed' = changed
    BY <2>1, <2>3, <2>4
  <2> QED BY <2>1, <2>2, <2>4, <2>5 DEF PassAdvances
<1>2. CASE EndPass /\ changed
  BY <1>2 DEF EndPass, PassAdvances
<1> QED BY <1>1, <1>2

\* Every step of compute_dominators brings it nearer to its end, whatever the flow
\* graph: the phases follow one another, and within a phase the blocks that are
\* not visited, not left or not looked at get fewer, or the sets smaller, or the
\* rest of the list shorter.  Blocks are finitely many, so none of the recursion
\* and the while loop can go on for ever.
THEOREM EveryStepAdvances == Spec => [][Step => Advances]_vars
<1>1. ASSUME DInv, Step PROVE Advances
  <2>1. CASE InitDominators BY <2>1 DEF InitDominators, Advances
  <2>2. CASE DfsCall BY <1>1, <2>2, SearchGoesOn DEF Advances
  <2>3. CASE DfsReturn /\ Pop # <<>> BY <1>1, <2>3, SearchGoesOn DEF Advances
  <2>4. CASE DfsReturn /\ Pop = <<>> BY <2>4 DEF DfsReturn, Advances
  <2>5. CASE UpdateNode BY <1>1, <2>5, PassesGoOn DEF Advances
  <2>6. CASE EndPass /\ changed BY <1>1, <2>6, PassesGoOn DEF Advances
  <2>7. CASE EndPass /\ ~changed BY <2>7 DEF EndPass, Advances
  <2> QED BY <1>1, <2>1, <2>2, <2>3, <2>4, <2>5, <2>6, <2>7 DEF Step
<1>2. DInv /\ [Next]_vars => [Step => Advances]_vars BY <1>1
<1> QED BY <1>2, Invariance, PTL DEF Spec

============================================================================
