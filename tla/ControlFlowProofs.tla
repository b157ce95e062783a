------------------------- MODULE ControlFlowProofs -------------------------
(***************************************************************************)
(* Proofs about the control-flow constructor, for every depth, every set   *)
(* of sequence sizes and every set of case numbers.                        *)
(***************************************************************************)
EXTENDS ControlFlow, FiniteSetTheorems, TLAPS

(***************************************************************************)
(* Part 1: facts about terminators.                                        *)
(***************************************************************************)

\* The slots of a terminator are numbered from 0 without a gap.
LEMMA Slots ==
  ASSUME NEW L, NEW n \in Nat, NEW t, IsTerminator(t, L, n)
  PROVE  /\ \E k \in Nat : DOMAIN t.dest = 0 .. (k - 1)
         /\ Dest(t) \subseteq L
         /\ t.dest \in [DOMAIN t.dest -> L]
         /\ t = [op |-> t.op, dest |-> t.dest, arg |-> t.arg]
<1>1. CASE t = NoTerm
  <2>1. DOMAIN t.dest = 0 .. (0 - 1) BY <1>1 DEF NoTerm
  <2> QED BY <1>1, <2>1 DEF NoTerm, Dest
<1>2. CASE \E b \in L : t = Jump(b)
  <2>1. DOMAIN t.dest = 0 .. (1 - 1) BY <1>2 DEF Jump
  <2> QED BY <1>2, <2>1 DEF Jump, Dest
<1>3. CASE t.dest \in [0..1 -> L] /\ t = Brif(t.arg, t.dest)
  <2>1. DOMAIN t.dest = 0 .. (2 - 1) BY <1>3
  <2> QED BY <1>3, <2>1, Zenon DEF Brif, Dest
<1>4. CASE \E k \in CaseNums : t.dest \in [0..k -> L] /\ t = BrTable(t.arg, t.dest)
  <2>1. PICK k \in CaseNums : t.dest \in [0..k -> L] /\ t = BrTable(t.arg, t.dest)
    BY <1>4
  <2>2. k + 1 \in Nat /\ DOMAIN t.dest = 0 .. ((k + 1) - 1)
    BY <2>1, BoundsAssumption
  <2> QED BY <2>1, <2>2, Zenon DEF BrTable, Dest
<1> QED BY <1>1, <1>2, <1>3, <1>4 DEF IsTerminator

\* The rank of the i-th of k increasing numbers is i, and there are k of them.
LEMMA IncreasingRank ==
  ASSUME NEW k \in Nat, NEW d \in [0 .. (k - 1) -> Nat],
         \A i, j \in 0 .. (k - 1) : i < j => d[i] < d[j]
  PROVE  LET S == {d[i] : i \in 0 .. (k - 1)}
         IN  /\ Cardinality(S) = k
             /\ \A i \in 0 .. (k - 1) : Cardinality({c \in S : c < d[i]}) = i
<1> DEFINE S == {d[i] : i \in 0 .. (k - 1)}
<1>1. ASSUME NEW m \in 0 .. k
      PROVE  Cardinality({d[i] : i \in 0 .. (m - 1)}) = m
  <2> DEFINE T == {d[i] : i \in 0 .. (m - 1)}
             f == [x \in 1 .. m |-> d[x - 1]]
  <2>1. f \in [1 .. m -> T]
    OBVIOUS
  <2>2. \A x, y \in 1 .. m : f[x] = f[y] => x = y
    <3> SUFFICES ASSUME NEW x \in 1 .. m, NEW y \in 1 .. m, x # y
                 PROVE  d[x - 1] # d[y - 1]
      OBVIOUS
    <3>1. x - 1 \in 0 .. (k - 1) /\ y - 1 \in 0 .. (k - 1) OBVIOUS
    <3>2. CASE x < y BY <3>1, <3>2
    <3>3. CASE y < x BY <3>1, <3>3
    <3> QED BY <3>2, <3>3
  <2>3. \A z \in T : \E x \in 1 .. m : f[x] = z
    <3> SUFFICES ASSUME NEW i \in 0 .. (m - 1) PROVE \E x \in 1 .. m : f[x] = d[i]
      OBVIOUS
    <3>1. i + 1 \in 1 .. m /\ f[i + 1] = d[i] OBVIOUS
    <3> QED BY <3>1, Zenon
  <2>4. ExistsBijection(1 .. m, T)
    <3> HIDE DEF f, T
    <3> QED BY <2>1, <2>2, <2>3
       DEF ExistsBijection, Bijection, Injection, Surjection, IsInjective
  <2>5. m \in Nat OBVIOUS
  <2> HIDE DEF T
  <2>6. Cardinality(T) = m BY <2>4, <2>5, FS_CountingElements
  <2> QED BY <2>6 DEF T
<1>2. Cardinality(S) = k
  <2>1. k \in 0 .. k OBVIOUS
  <2> QED BY <1>1, <2>1
<1>3. ASSUME NEW i \in 0 .. (k - 1)
      PROVE  Cardinality({c \in S : c < d[i]}) = i
  <2>1. {c \in S : c < d[i]} = {d[j] : j \in 0 .. (i - 1)}
    <3>1. ASSUME NEW j \in 0 .. (k - 1), d[j] < d[i] PROVE j \in 0 .. (i - 1)
      <4>1. CASE j = i BY <3>1, <4>1
      <4>2. CASE i < j BY <3>1, <4>2
      <4> QED BY <4>1, <4>2
    <3>2. ASSUME NEW j \in 0 .. (i - 1) PROVE j \in 0 .. (k - 1) /\ d[j] < d[i]
      OBVIOUS
    <3> QED BY <3>1, <3>2
  <2>2. i \in 0 .. k OBVIOUS
  <2> QED BY <1>1, <2>1, <2>2, Zenon
<1> QED BY <1>2, <1>3, Zenon

\* If the slots of a terminator are in increasing order, listing its
\* successors in sorted order gives back its slots.
LEMMA PostIsDest ==
  ASSUME NEW k \in Nat, NEW t, t.dest \in [0 .. (k - 1) -> Nat],
         Increasing(t)
  PROVE  Cardinality(Dest(t)) = k /\ Post(Dest(t)) = t.dest
<1> DEFINE d == t.dest
           S == Dest(t)
<1>1. DOMAIN d = 0 .. (k - 1) OBVIOUS
<1>2. S = {d[i] : i \in 0 .. (k - 1)} BY <1>1 DEF Dest
<1>3. \A i, j \in 0 .. (k - 1) : i < j => d[i] < d[j]
  BY <1>1, Zenon DEF Increasing
<1> HIDE DEF d, S
<1>4. d \in [0 .. (k - 1) -> Nat] BY DEF d
<1>5. /\ Cardinality(S) = k
      /\ \A i \in 0 .. (k - 1) : Cardinality({c \in S : c < d[i]}) = i
  BY <1>2, <1>3, <1>4, IncreasingRank, Zenon
<1>6. ASSUME NEW i \in 0 .. (k - 1)
      PROVE  (CHOOSE b \in S : Cardinality({c \in S : c < b}) = i) = d[i]
  <2>1. d[i] \in S BY <1>2
  <2>2. ASSUME NEW b \in S, Cardinality({c \in S : c < b}) = i PROVE b = d[i]
    <3>1. PICK j \in 0 .. (k - 1) : b = d[j] BY <1>2
    <3>2. Cardinality({c \in S : c < d[j]}) = j BY <1>5
    <3> QED BY <3>1, <3>2, <2>2
  <2> QED BY <2>1, <2>2, <1>5
<1>7. Post(S) = [i \in 0 .. (k - 1) |-> d[i]]
  BY <1>5, <1>6 DEF Post
<1> QED BY <1>4, <1>5, <1>7 DEF d, S
\* Moving a terminator with increasing slots to another block rebuilds it
\* unchanged, and update_successor finds it fit.
LEMMA RebuildIsIdentity ==
  ASSUME NEW L \in SUBSET Nat, NEW n \in Nat, NEW t, IsTerminator(t, L, n),
         Increasing(t)
  PROVE  Rebuild(t) = t /\ ~Unfit(t)
<1>1. ASSUME NEW k \in Nat, t.dest \in [0 .. (k - 1) -> L]
      PROVE  Cardinality(Dest(t)) = k /\ Post(Dest(t)) = t.dest
  <2>1. t.dest \in [0 .. (k - 1) -> Nat] BY <1>1, Zenon
  <2> QED BY <2>1, PostIsDest, Zenon
<1>2. CASE t = NoTerm
  <2>1. t.dest \in [0 .. (0 - 1) -> L] BY <1>2 DEF NoTerm
  <2>2. Cardinality(Dest(t)) = 0 BY <1>1, <2>1
  <2> QED BY <1>2, <2>2 DEF Rebuild, Unfit
<1>3. CASE \E b \in L : t = Jump(b)
  <2>1. PICK b \in L : t = Jump(b) BY <1>3
  <2>2. t.dest \in [0 .. (1 - 1) -> L] /\ t.dest[0] = b BY <2>1 DEF Jump
  <2>3. Cardinality(Dest(t)) = 1 /\ Post(Dest(t)) = t.dest BY <1>1, <2>2, Zenon
  <2> QED BY <2>1, <2>2, <2>3 DEF Rebuild, Unfit
<1>4. CASE t.dest \in [0..1 -> L] /\ t = Brif(t.arg, t.dest)
  <2>1. t.dest \in [0 .. (2 - 1) -> L] BY <1>4
  <2>2. Cardinality(Dest(t)) = 2 /\ Post(Dest(t)) = t.dest BY <1>1, <2>1, Zenon
  <2>3. t.op = "brif" BY <1>4 DEF Brif
  <2> QED BY <1>4, <2>2, <2>3 DEF Rebuild, Unfit
<1>5. CASE \E k \in CaseNums : t.dest \in [0..k -> L] /\ t = BrTable(t.arg, t.dest)
  <2>1. PICK k \in CaseNums : t.dest \in [0..k -> L] /\ t = BrTable(t.arg, t.dest)
    BY <1>5
  <2>2. k \in Nat /\ k >= 2 BY BoundsAssumption
  <2>3. k + 1 \in Nat /\ t.dest \in [0 .. ((k + 1) - 1) -> L] BY <2>1, <2>2
  <2>4. Cardinality(Dest(t)) = k + 1 /\ Post(Dest(t)) = t.dest
    BY <1>1, <2>3
  <2>5. t.op = "br_table" BY <2>1 DEF BrTable
  <2> QED BY <2>1, <2>2, <2>4, <2>5 DEF Rebuild, Unfit
<1> QED BY <1>2, <1>3, <1>4, <1>5 DEF IsTerminator

\* A terminator stays one in any layout that holds its targets.
LEMMA TerminatorMoves ==
  ASSUME NEW L, NEW M, NEW n \in Nat, NEW m \in Nat, n <= m,
         NEW t, IsTerminator(t, L, n), Dest(t) \subseteq M
  PROVE  IsTerminator(t, M, m)
<1>1. \A i \in DOMAIN t.dest : t.dest[i] \in M BY DEF Dest
<1>2. CASE t = NoTerm BY <1>2 DEF IsTerminator
<1>3. CASE \E b \in L : t = Jump(b)
  <2>1. PICK b \in L : t = Jump(b) BY <1>3
  <2>2. b \in M BY <1>1, <2>1 DEF Jump
  <2> QED BY <2>1, <2>2 DEF IsTerminator
<1>4. CASE /\ t.arg \in 0 .. (n - 1)
           /\ t.dest \in [0..1 -> L] /\ t = Brif(t.arg, t.dest)
  <2>1. t.dest \in [0..1 -> M] BY <1>1, <1>4
  <2>2. t.arg \in 0 .. (m - 1) BY <1>4
  <2> QED BY <1>4, <2>1, <2>2 DEF IsTerminator
<1>5. CASE /\ t.arg \in 0 .. (n - 1)
           /\ \E k \in CaseNums : t.dest \in [0..k -> L] /\ t = BrTable(t.arg, t.dest)
  <2>1. PICK k \in CaseNums : t.dest \in [0..k -> L] /\ t = BrTable(t.arg, t.dest)
    BY <1>5
  <2>2. t.dest \in [0..k -> M] BY <1>1, <2>1, Zenon
  <2>3. t.arg \in 0 .. (m - 1) BY <1>5
  <2> QED BY <2>1, <2>2, <2>3 DEF IsTerminator
<1> QED BY <1>2, <1>3, <1>4, <1>5 DEF IsTerminator

\* update_predecessor redirects exactly the edge to r: a terminator with
\* distinct targets keeps its opcode and condition, its targets stay
\* distinct, and only r is replaced, by the new block b.
LEMMA RetargetFacts ==
  ASSUME NEW L, NEW n \in Nat, NEW t, IsTerminator(t, L, n), Distinct(t),
         NEW r \in Dest(t), NEW b, b \notin L
  PROVE  LET u == Retarget(t, b, r)
         IN  /\ u.op = t.op /\ u.arg = t.arg
             /\ Dest(u) = (Dest(t) \ {r}) \cup {b}
             /\ Distinct(u)
             /\ IsTerminator(u, (L \ {r}) \cup {b}, n)
<1> DEFINE u == Retarget(t, b, r)
           D == [i \in DOMAIN t.dest |-> IF t.dest[i] = r THEN b ELSE t.dest[i]]
           M == (L \ {r}) \cup {b}
<1>1. t.dest \in [DOMAIN t.dest -> L] /\ Dest(t) \subseteq L
  BY Slots, Zenon
<1>2. PICK j \in DOMAIN t.dest : t.dest[j] = r
  BY DEF Dest
<1>3. \A i \in DOMAIN t.dest : i # j => t.dest[i] # r
  BY <1>2 DEF Distinct
<1>4. D \in [DOMAIN t.dest -> M]
  BY <1>1
<1>5. {D[i] : i \in DOMAIN t.dest} = (Dest(t) \ {r}) \cup {b}
  BY <1>1, <1>2, Zenon DEF Dest
<1>6. \A x, y \in DOMAIN t.dest : D[x] = D[y] => x = y
  BY <1>1, <1>2, <1>3 DEF Distinct
<1>7. u = [op |-> t.op, arg |-> t.arg, dest |-> D] /\ IsTerminator(u, M, n)
  <2>1. CASE t = NoTerm BY <1>2, <2>1 DEF NoTerm
  <2>2. CASE \E c \in L : t = Jump(c)
    <3>1. PICK c \in L : t = Jump(c) BY <2>2
    <3>2. t.op = "jump" /\ t.arg = NoCond /\ DOMAIN t.dest = 0..0
      BY <3>1 DEF Jump
    <3>3. D = [i \in 0..0 |-> b] BY <1>2, <3>2
    <3>4. u = Jump(b) BY <3>2 DEF Retarget
    <3>5. b \in M OBVIOUS
    <3> QED BY <3>2, <3>3, <3>4, <3>5, Zenon DEF Jump, IsTerminator
  <2>3. CASE /\ t.arg \in 0 .. (n - 1)
             /\ t.dest \in [0..1 -> L] /\ t = Brif(t.arg, t.dest)
    <3>1. t.op = "brif" /\ DOMAIN t.dest = 0..1 BY <2>3 DEF Brif
    <3>2. D = IF t.dest[0] = r THEN [t.dest EXCEPT ![0] = b]
                               ELSE [t.dest EXCEPT ![1] = b]
      BY <1>2, <1>3, <2>3, <3>1
    <3>3. u = Brif(t.arg, D) BY <3>1, <3>2 DEF Retarget
    <3>4. D \in [0..1 -> M] BY <1>4, <3>1
    <3>5. u.arg = t.arg /\ u.dest = D BY <3>3 DEF Brif
    <3> HIDE DEF D, u, M
    <3>6. IsTerminator(u, M, n)
      BY <2>3, <3>3, <3>4, <3>5 DEF IsTerminator
    <3> QED BY <3>1, <3>3, <3>6 DEF Brif
  <2>4. CASE /\ t.arg \in 0 .. (n - 1)
             /\ \E k \in CaseNums : t.dest \in [0..k -> L] /\ t = BrTable(t.arg, t.dest)
    <3>1. PICK k \in CaseNums : t.dest \in [0..k -> L] /\ t = BrTable(t.arg, t.dest)
      BY <2>4
    <3>2. t.op = "br_table" /\ DOMAIN t.dest = 0..k BY <3>1 DEF BrTable
    <3>3. u = BrTable(t.arg, D) BY <3>2 DEF Retarget
    <3>4. D \in [0..k -> M] BY <1>4, <3>2
    <3>5. u.arg = t.arg /\ u.dest = D BY <3>3 DEF BrTable
    <3> HIDE DEF D, u, M
    <3>6. IsTerminator(u, M, n)
      BY <2>4, <3>3, <3>4, <3>5 DEF IsTerminator
    <3> QED BY <3>2, <3>3, <3>6 DEF BrTable
  <2> QED BY <2>1, <2>2, <2>3, <2>4 DEF IsTerminator
<1>8. /\ u.op = t.op /\ u.arg = t.arg
      /\ u.dest = D /\ DOMAIN u.dest = DOMAIN t.dest
  BY <1>7
<1> HIDE DEF u, D
<1>9. Dest(u) = (Dest(t) \ {r}) \cup {b}
  BY <1>5, <1>8 DEF Dest
<1>10. Distinct(u)
  BY <1>6, <1>8 DEF Distinct
<1> QED BY <1>7, <1>8, <1>9, <1>10 DEF u

\* A block without a terminator has no destination.
LEMMA NoTermFacts ==
  /\ Dest(NoTerm) = {}
  /\ Distinct(NoTerm) /\ Increasing(NoTerm)
  /\ \A L, n : IsTerminator(NoTerm, L, n)
BY DEF NoTerm, Dest, Distinct, Increasing, IsTerminator

\* A jump, as Sequential, IfElse, While and Switch build it, has one destination.
LEMMA JumpFacts ==
  ASSUME NEW b
  PROVE  /\ Dest(Jump(b)) = {b}
         /\ Distinct(Jump(b)) /\ Increasing(Jump(b))
         /\ \A L, n : b \in L => IsTerminator(Jump(b), L, n)
         /\ Jump(b) # NoTerm
         /\ Jump(b).op = "jump"
<1>1. Jump(b).op = "jump" /\ NoTerm.op = "none" BY DEF Jump, NoTerm
<1>2. DOMAIN Jump(b).dest = {0} /\ Jump(b).dest[0] = b BY DEF Jump
<1>3. \A L, n : b \in L => IsTerminator(Jump(b), L, n) BY DEF IsTerminator
<1> QED BY <1>1, <1>2, <1>3 DEF Dest, Distinct, Increasing

\* A two-way branch with slots a + 1, a + 2.
LEMMA BrifFacts ==
  ASSUME NEW n \in Nat
  PROVE  LET t == Brif(n, [i \in 0..1 |-> n + 1 + i])
         IN  /\ Dest(t) = {n + 1, n + 2}
             /\ Distinct(t) /\ Increasing(t)
             /\ \A L : \A m \in Nat : {n + 1, n + 2} \subseteq L /\ n < m => IsTerminator(t, L, m)
             /\ t # NoTerm
             /\ t.op = "brif" /\ t.arg = n
<1> DEFINE d == [i \in 0..1 |-> n + 1 + i]
           t == Brif(n, d)
<1>1. t.op = "brif" /\ t.arg = n /\ t.dest = d BY DEF Brif
<1>2. NoTerm.op = "none" BY DEF NoTerm
<1>3. DOMAIN d = {0, 1} /\ d[0] = n + 1 /\ d[1] = n + 2 OBVIOUS
<1> HIDE DEF d
<1>4. Dest(t) = {n + 1, n + 2} BY <1>1, <1>3 DEF Dest
<1>5. Distinct(t) /\ Increasing(t) BY <1>1, <1>3 DEF Distinct, Increasing
<1>6. ASSUME NEW L, NEW m \in Nat, {n + 1, n + 2} \subseteq L, n < m
      PROVE  IsTerminator(t, L, m)
  <2>1. d \in [0..1 -> L] BY <1>3, <1>6 DEF d
  <2>2. n \in 0 .. (m - 1) BY <1>6
  <2> QED BY <1>1, <2>1, <2>2 DEF IsTerminator
<1> QED BY <1>1, <1>2, <1>4, <1>5, <1>6 DEF d

(***************************************************************************)
(* Part 2: the structures.  WellBuilt lists what the splice needs to know  *)
(* of a structure built from block n on: its blocks are the next numbers,  *)
(* its terminators stay inside it, and within it every block is reachable  *)
(* from the first block and reaches the last.                              *)
(***************************************************************************)
Numbered(s, n) ==
  \E m \in Nat \ {0} : s.blocks = n .. (n + m - 1) /\ Cardinality(s.blocks) = m

Terminated(s, n) ==
  /\ DOMAIN s.term = s.blocks
  /\ s.first \in s.blocks /\ s.last \in s.blocks
  /\ s.term[s.last] = NoTerm
  /\ \A b \in s.blocks : s.term[b] = NoTerm => b = s.last
  /\ \A b \in s.blocks :
       /\ IsTerminator(s.term[b], s.blocks, n + Cardinality(s.blocks))
       /\ Distinct(s.term[b])
       /\ b \notin Dest(s.term[b])
  /\ s.random \subseteq s.blocks
  /\ \A b \in s.random : Increasing(s.term[b])
  /\ s.params \subseteq s.blocks
  /\ \A b \in s.params : s.term[b].op \in {"brif", "br_table"} /\ s.term[b].arg = b

ReachableInside(s) ==
  \A T : s.first \in T /\ (\A b \in s.blocks \cap T : Dest(s.term[b]) \subseteq T)
           => s.blocks \subseteq T

ReachLastInside(s) ==
  \A T : s.last \in T /\ (\A b \in s.blocks : Dest(s.term[b]) \cap T # {} => b \in T)
           => s.blocks \subseteq T

WellBuilt(s, n) ==
  Numbered(s, n) /\ Terminated(s, n) /\ ReachableInside(s) /\ ReachLastInside(s)

\* A structure whose blocks are m consecutive numbers has m blocks.
LEMMA IntervalSize ==
  ASSUME NEW n \in Nat, NEW m \in Nat \ {0}
  PROVE  Cardinality(n .. (n + m - 1)) = m
<1>1. n \in Int /\ n + m - 1 \in Int /\ ~(n > n + m - 1) OBVIOUS
<1>2. Cardinality(n .. (n + m - 1)) = (n + m - 1) - n + 1 BY <1>1, FS_Interval
<1> QED BY <1>2

\* A nonempty set of naturals has a least element: < is well founded on Nat.
LEMMA NatMin ==
  ASSUME NEW T \in SUBSET Nat, T # {}
  PROVE  \E x \in T : \A y \in T : x <= y
<1> DEFINE R == {p \in Nat \X Nat : p[1] < p[2]}
<1>1. IsWellFoundedOn(R, Nat)
  BY NatLessThanWellFounded DEF OpToRel
<1>2. PICK x \in T : \A y \in T : ~(<<y, x>> \in R)
  <2> HIDE DEF R
  <2> QED BY <1>1, WFMin, Zenon
<1>3. \A y \in T : y \in Nat /\ x \in Nat /\ ~(y < x)
  BY <1>2, Zenon
<1> QED
  BY <1>3

\* A set that holds the first of consecutive numbers, and with each of them
\* the next, holds them all.
LEMMA Upward ==
  ASSUME NEW n \in Nat, NEW m \in Nat, n <= m, NEW T, n \in T,
         \A b \in n .. (m - 1) : b \in T => b + 1 \in T
  PROVE  n .. m \subseteq T
<1> DEFINE U == {b \in n .. m : b \notin T}
<1> SUFFICES ASSUME U # {} PROVE FALSE OBVIOUS
<1>1. U \in SUBSET Nat OBVIOUS
<1>2. PICK x \in U : \A y \in U : x <= y BY <1>1, NatMin, Zenon
<1>3. x \in n .. m /\ x # n OBVIOUS
<1>4. x - 1 \in n .. (m - 1) /\ x - 1 \in T BY <1>2, <1>3
<1>5. (x - 1) + 1 = x BY <1>3
<1> QED BY <1>4, <1>5

\* The same downward.
LEMMA Downward ==
  ASSUME NEW n \in Nat, NEW m \in Nat, n <= m, NEW T, m \in T,
         \A b \in n .. (m - 1) : b + 1 \in T => b \in T
  PROVE  n .. m \subseteq T
<1> DEFINE U == {c \in 0 .. (m - n) : (m - c) \notin T}
<1>1. U = {}
  <2> SUFFICES ASSUME U # {} PROVE FALSE OBVIOUS
  <2>1. U \in SUBSET Nat OBVIOUS
  <2>2. PICK x \in U : \A y \in U : x <= y BY <2>1, NatMin, Zenon
  <2>3. x \in 0 .. (m - n) /\ x # 0 OBVIOUS
  <2>4. x - 1 \in 0 .. (m - n) /\ x - 1 \notin U BY <2>2, <2>3
  <2>5. m - (x - 1) \in T BY <2>4
  <2>6. m - x \in n .. (m - 1) /\ (m - x) + 1 = m - (x - 1) BY <2>3
  <2> QED BY <2>5, <2>6
<1>2. ASSUME NEW b \in n .. m PROVE b \in T
  <2>1. m - b \in 0 .. (m - n) /\ m - (m - b) = b OBVIOUS
  <2>2. \A c \in 0 .. (m - n) : m - c \in T BY <1>1, Zenon
  <2>3. m - (m - b) \in T BY <2>1, <2>2
  <2> QED BY <2>1, <2>3
<1> QED BY <1>2

\* The chain of blocks `sequential` builds is well built.
LEMMA SequentialWellBuilt ==
  ASSUME NEW n \in Nat, NEW k \in Nat \ {0}
  PROVE  WellBuilt(Sequential(n, k), n)
<1> DEFINE s == Sequential(n, k)
           B == n .. (n + k - 1)
<1>1. /\ s.blocks = B /\ s.first = n /\ s.last = n + k - 1
      /\ s.random = B /\ s.params = {} /\ DOMAIN s.term = B
      /\ \A b \in B : s.term[b] = IF b = n + k - 1 THEN NoTerm ELSE Jump(b + 1)
  BY DEF Sequential
<1>2. Cardinality(B) = k BY IntervalSize
<1> HIDE DEF s
<1>3. Numbered(s, n)
  BY <1>1, <1>2 DEF Numbered
<1>4. ASSUME NEW b \in B, b # n + k - 1 PROVE b + 1 \in B /\ b + 1 # b
  BY <1>4
<1>5. Terminated(s, n)
  <2>1. n \in B /\ n + k - 1 \in B OBVIOUS
  <2>2. ASSUME NEW b \in B
        PROVE  /\ s.term[b] = NoTerm => b = n + k - 1
               /\ IsTerminator(s.term[b], B, n + k)
               /\ Distinct(s.term[b]) /\ Increasing(s.term[b])
               /\ b \notin Dest(s.term[b])
    <3>1. CASE b = n + k - 1 BY <1>1, <3>1, NoTermFacts
    <3>2. CASE b # n + k - 1 BY <1>1, <1>4, <3>2, JumpFacts
    <3> QED BY <3>1, <3>2
  <2> QED BY <1>1, <1>2, <2>1, <2>2 DEF Terminated
<1>6. ReachableInside(s)
  <2> SUFFICES ASSUME NEW T, n \in T, \A b \in B \cap T : Dest(s.term[b]) \subseteq T
               PROVE  B \subseteq T
    BY <1>1 DEF ReachableInside
  <2>1. n + k - 1 \in Nat /\ n <= n + k - 1 OBVIOUS
  <2>2. ASSUME NEW b \in n .. ((n + k - 1) - 1), b \in T PROVE b + 1 \in T
    <3>1. b \in B /\ b # n + k - 1 OBVIOUS
    <3>2. s.term[b] = Jump(b + 1) BY <1>1, <3>1
    <3>3. Dest(s.term[b]) = {b + 1} BY <3>2, JumpFacts
    <3> QED BY <2>2, <3>1, <3>3
  <2> QED BY <2>1, <2>2, Upward, Zenon
<1>7. ReachLastInside(s)
  <2> SUFFICES ASSUME NEW T, n + k - 1 \in T,
                      \A b \in B : Dest(s.term[b]) \cap T # {} => b \in T
               PROVE  B \subseteq T
    BY <1>1, Zenon DEF ReachLastInside
  <2>1. n + k - 1 \in Nat /\ n <= n + k - 1 OBVIOUS
  <2>2. ASSUME NEW b \in n .. ((n + k - 1) - 1), b + 1 \in T PROVE b \in T
    <3>1. b \in B /\ b # n + k - 1 OBVIOUS
    <3>2. s.term[b] = Jump(b + 1) BY <1>1, <3>1
    <3>3. Dest(s.term[b]) = {b + 1} BY <3>2, JumpFacts
    <3> QED BY <2>2, <3>1, <3>3
  <2> DEFINE m == n + k - 1
  <2>3. /\ m \in Nat /\ n <= m /\ m \in T /\ B = n .. m
        /\ \A b \in n .. (m - 1) : b + 1 \in T => b \in T
    BY <2>1, <2>2
  <2> HIDE DEF m
  <2> QED BY <2>3, Downward, Zenon
<1> QED BY <1>3, <1>5, <1>6, <1>7 DEF WellBuilt, s

\* The diamond `if_else` builds is well built.
LEMMA IfElseWellBuilt ==
  ASSUME NEW n \in Nat
  PROVE  WellBuilt(IfElse(n), n)
<1> DEFINE s == IfElse(n)
           B == n .. (n + 3)
           C == Brif(n, [i \in 0..1 |-> n + 1 + i])
<1>1. /\ s.blocks = B /\ s.first = n /\ s.last = n + 3
      /\ s.random = {n + 1, n + 2} /\ s.params = {n} /\ DOMAIN s.term = B
      /\ s.term[n] = C /\ s.term[n + 3] = NoTerm
      /\ s.term[n + 1] = Jump(n + 3) /\ s.term[n + 2] = Jump(n + 3)
  BY DEF IfElse
<1>2. Cardinality(B) = 4 /\ B = n .. (n + 4 - 1)
  <2>1. 4 \in Nat \ {0} /\ n .. (n + 4 - 1) = B OBVIOUS
  <2> QED BY <2>1, IntervalSize
<1>3. B = {n, n + 1, n + 2, n + 3} OBVIOUS
<1> HIDE DEF s, B, C
<1>4. /\ Dest(C) = {n + 1, n + 2} /\ Distinct(C) /\ Increasing(C)
      /\ IsTerminator(C, B, n + 4) /\ C # NoTerm /\ C.op = "brif" /\ C.arg = n
  <2>1. {n + 1, n + 2} \subseteq B /\ n < n + 4 /\ n + 4 \in Nat BY <1>3
  <2> QED BY <2>1, BrifFacts DEF C
<1>5. /\ Dest(Jump(n + 3)) = {n + 3} /\ Distinct(Jump(n + 3))
      /\ Increasing(Jump(n + 3)) /\ IsTerminator(Jump(n + 3), B, n + 4)
      /\ Jump(n + 3) # NoTerm
  BY <1>3, JumpFacts
<1>6. Numbered(s, n)
  <2>1. 4 \in Nat \ {0} OBVIOUS
  <2> QED BY <1>1, <1>2, <2>1 DEF Numbered
<1>7. Terminated(s, n)
  <2>1. ASSUME NEW b \in B
        PROVE  /\ s.term[b] = NoTerm => b = n + 3
               /\ IsTerminator(s.term[b], B, n + 4)
               /\ Distinct(s.term[b]) /\ Increasing(s.term[b])
               /\ b \notin Dest(s.term[b])
    <3>1. CASE b = n BY <1>1, <1>4, <3>1
    <3>2. CASE b = n + 1 \/ b = n + 2 BY <1>1, <1>5, <3>2
    <3>3. CASE b = n + 3 BY <1>1, <3>3, NoTermFacts
    <3> QED BY <1>3, <3>1, <3>2, <3>3
  <2> QED BY <1>1, <1>2, <1>3, <1>4, <2>1 DEF Terminated
<1>8. ReachableInside(s)
  BY <1>1, <1>3, <1>4, <1>5 DEF ReachableInside
<1>9. ReachLastInside(s)
  <2> SUFFICES ASSUME NEW T, n + 3 \in T,
                      \A b \in B : Dest(s.term[b]) \cap T # {} => b \in T
               PROVE  B \subseteq T
    BY <1>1 DEF ReachLastInside
  <2>1. n + 1 \in T /\ n + 2 \in T BY <1>1, <1>3, <1>5
  <2>2. n \in T BY <1>1, <1>3, <1>4, <2>1
  <2> QED BY <1>3, <2>1, <2>2
<1> QED BY <1>6, <1>7, <1>8, <1>9 DEF WellBuilt, s

\* The loop `while_blocks` builds is well built.
LEMMA WhileWellBuilt ==
  ASSUME NEW n \in Nat
  PROVE  WellBuilt(While(n), n)
<1> DEFINE s == While(n)
           B == n .. (n + 2)
           C == Brif(n, [i \in 0..1 |-> n + 1 + i])
<1>1. /\ s.blocks = B /\ s.first = n /\ s.last = n + 2
      /\ s.random = B /\ s.params = {n} /\ DOMAIN s.term = B
      /\ s.term[n] = C /\ s.term[n + 2] = NoTerm /\ s.term[n + 1] = Jump(n)
  BY DEF While
<1>2. Cardinality(B) = 3 /\ B = n .. (n + 3 - 1)
  <2>1. 3 \in Nat \ {0} /\ n .. (n + 3 - 1) = B OBVIOUS
  <2> QED BY <2>1, IntervalSize
<1>3. B = {n, n + 1, n + 2} OBVIOUS
<1> HIDE DEF s, B, C
<1>4. /\ Dest(C) = {n + 1, n + 2} /\ Distinct(C) /\ Increasing(C)
      /\ IsTerminator(C, B, n + 3) /\ C # NoTerm /\ C.op = "brif" /\ C.arg = n
  <2>1. {n + 1, n + 2} \subseteq B /\ n < n + 3 /\ n + 3 \in Nat BY <1>3
  <2> QED BY <2>1, BrifFacts DEF C
<1>5. /\ Dest(Jump(n)) = {n} /\ Distinct(Jump(n)) /\ Increasing(Jump(n))
      /\ IsTerminator(Jump(n), B, n + 3) /\ Jump(n) # NoTerm
  BY <1>3, JumpFacts
<1>6. Numbered(s, n)
  <2>1. 3 \in Nat \ {0} OBVIOUS
  <2> QED BY <1>1, <1>2, <2>1 DEF Numbered
<1>7. Terminated(s, n)
  <2>1. ASSUME NEW b \in B
        PROVE  /\ s.term[b] = NoTerm => b = n + 2
               /\ IsTerminator(s.term[b], B, n + 3)
               /\ Distinct(s.term[b]) /\ Increasing(s.term[b])
               /\ b \notin Dest(s.term[b])
    <3>1. CASE b = n BY <1>1, <1>4, <3>1
    <3>2. CASE b = n + 1 BY <1>1, <1>5, <3>2
    <3>3. CASE b = n + 2 BY <1>1, <3>3, NoTermFacts
    <3> QED BY <1>3, <3>1, <3>2, <3>3
  <2> QED BY <1>1, <1>2, <1>3, <1>4, <2>1 DEF Terminated
<1>8. ReachableInside(s)
  BY <1>1, <1>3, <1>4 DEF ReachableInside
<1>9. ReachLastInside(s)
  <2> SUFFICES ASSUME NEW T, n + 2 \in T,
                      \A b \in B : Dest(s.term[b]) \cap T # {} => b \in T
               PROVE  B \subseteq T
    BY <1>1 DEF ReachLastInside
  <2>1. n \in T BY <1>1, <1>3, <1>4
  <2>2. n + 1 \in T BY <1>1, <1>3, <1>5, <2>1
  <2> QED BY <1>3, <2>1, <2>2
<1> QED BY <1>6, <1>7, <1>8, <1>9 DEF WellBuilt, s

\* The jump table and its cases `switch_blocks` builds are well built.
LEMMA SwitchWellBuilt ==
  ASSUME NEW n \in Nat, NEW k \in CaseNums
  PROVE  WellBuilt(Switch(n, k), n)
<1> DEFINE s == Switch(n, k)
           B == n .. (n + 2 + k)
           d == [i \in 0..k |-> IF i = 0 THEN n + 1 ELSE n + 2 + i]
           C == BrTable(n, d)
<1>1. k \in Nat /\ k >= 2 BY BoundsAssumption
<1>2. /\ s.blocks = B /\ s.first = n /\ s.last = n + 2
      /\ s.random = B \ {n + 2} /\ s.params = {n} /\ DOMAIN s.term = B
      /\ s.term[n] = C /\ s.term[n + 2] = NoTerm
      /\ \A b \in B : b # n /\ b # n + 2 => s.term[b] = Jump(n + 2)
  BY SMTT(60), <1>1 DEF Switch
<1>3. Cardinality(B) = k + 3 /\ B = n .. (n + (k + 3) - 1) /\ k + 3 \in Nat \ {0}
  <2>1. k + 3 \in Nat \ {0} /\ n .. (n + (k + 3) - 1) = B BY <1>1
  <2> QED BY <2>1, IntervalSize
<1>4. n \in B /\ n + 2 \in B /\ n + 1 \in B BY <1>1
<1>5. /\ DOMAIN d = 0..k
      /\ \A i \in 0..k : d[i] \in B \ {n, n + 2}
      /\ \A i, j \in 0..k : i < j => d[i] < d[j]
      /\ \A b \in B \ {n, n + 2} : \E i \in 0..k : d[i] = b
  <2>1. \A i \in 0..k : d[i] \in B \ {n, n + 2} BY <1>1
  <2>2. \A i, j \in 0..k : i < j => d[i] < d[j] BY <1>1
  <2>3. ASSUME NEW b \in B \ {n, n + 2} PROVE \E i \in 0..k : d[i] = b
    <3>1. CASE b = n + 1
      <4>1. 0 \in 0..k /\ d[0] = b BY <1>1, <3>1
      <4> QED BY <4>1
    <3>2. CASE b # n + 1
      <4>1. b - n - 2 \in 0..k /\ d[b - n - 2] = b BY <1>1, <3>2
      <4> QED BY <4>1
    <3> QED BY <3>1, <3>2
  <2> QED BY <2>1, <2>2, <2>3
<1>6. C.op = "br_table" /\ C.arg = n /\ C.dest = d BY DEF BrTable
<1>7. C # NoTerm BY <1>6 DEF NoTerm
<1>8. d \in [0..k -> B] BY <1>5
<1>9. C = BrTable(C.arg, C.dest) BY <1>6
<1> HIDE DEF s, B, C, d
<1>10. IsTerminator(C, B, n + (k + 3))
  <2>1. n \in 0 .. ((n + (k + 3)) - 1) BY <1>1
  <2>2. C.arg \in 0 .. ((n + (k + 3)) - 1) BY <1>6, <2>1
  <2>3. \E j \in CaseNums : C.dest \in [0..j -> B] /\ C = BrTable(C.arg, C.dest)
    BY <1>6, <1>8, <1>9
  <2> QED BY <2>2, <2>3 DEF IsTerminator
<1>11. Dest(C) = B \ {n, n + 2} BY <1>5, <1>6 DEF Dest
<1>12. Distinct(C) /\ Increasing(C)
  <2>1. Increasing(C) BY <1>5, <1>6 DEF Increasing
  <2>2. ASSUME NEW i \in 0..k, NEW j \in 0..k, d[i] = d[j] PROVE i = j
    <3>1. d[i] \in Nat /\ d[j] \in Nat BY <1>5 DEF B
    <3>2. CASE i < j BY <1>5, <2>2, <3>1, <3>2
    <3>3. CASE j < i BY <1>5, <2>2, <3>1, <3>3
    <3> QED BY <1>1, <3>2, <3>3
  <2>3. Distinct(C) BY <1>5, <1>6, <2>2 DEF Distinct
  <2> QED BY <2>1, <2>3
<1>13. /\ Dest(Jump(n + 2)) = {n + 2} /\ Distinct(Jump(n + 2))
       /\ Increasing(Jump(n + 2)) /\ IsTerminator(Jump(n + 2), B, n + (k + 3))
       /\ Jump(n + 2) # NoTerm
  BY <1>4, JumpFacts
<1>14. Numbered(s, n)
  BY <1>2, <1>3 DEF Numbered
<1>15. Terminated(s, n)
  <2>1. ASSUME NEW b \in B
        PROVE  /\ s.term[b] = NoTerm => b = n + 2
               /\ IsTerminator(s.term[b], B, n + (k + 3))
               /\ Distinct(s.term[b]) /\ Increasing(s.term[b])
               /\ b \notin Dest(s.term[b])
    <3>1. CASE b = n BY <1>2, <1>7, <1>10, <1>11, <1>12, <3>1
    <3>2. CASE b # n /\ b # n + 2 BY <1>2, <1>13, <3>2
    <3>3. CASE b = n + 2 BY <1>2, <3>3, NoTermFacts
    <3> QED BY <3>1, <3>2, <3>3
  <2> QED BY <1>2, <1>3, <1>4, <1>6, <2>1, Zenon DEF Terminated
<1>16. ReachableInside(s)
  <2> SUFFICES ASSUME NEW T, n \in T, \A b \in B \cap T : Dest(s.term[b]) \subseteq T
               PROVE  B \subseteq T
    BY <1>2 DEF ReachableInside
  <2>1. B \ {n, n + 2} \subseteq T BY <1>2, <1>4, <1>11
  <2>2. n + 1 \in B \ {n, n + 2} BY <1>4
  <2>3. Dest(s.term[n + 1]) = {n + 2} BY <1>2, <1>13, <2>2
  <2>4. n + 2 \in T BY <2>1, <2>2, <2>3
  <2> QED BY <2>1, <2>4
<1>17. ReachLastInside(s)
  <2> SUFFICES ASSUME NEW T, n + 2 \in T,
                      \A b \in B : Dest(s.term[b]) \cap T # {} => b \in T
               PROVE  B \subseteq T
    BY <1>2 DEF ReachLastInside
  <2>1. B \ {n, n + 2} \subseteq T BY <1>2, <1>13
  <2>2. n + 1 \in Dest(s.term[n]) /\ n + 1 \in T BY <1>2, <1>4, <1>11, <2>1
  <2>3. n \in T BY <1>4, <2>2
  <2> QED BY <2>1, <2>3
<1> QED BY <1>14, <1>15, <1>16, <1>17 DEF WellBuilt, s

\* Every structure cf_construct can draw is well built.
LEMMA StructuresWellBuilt ==
  ASSUME NEW n \in Nat, NEW s \in Structures(n)
  PROVE  WellBuilt(s, n)
<1>1. CASE \E k \in SeqSizes : s = Sequential(n, k)
  BY <1>1, SequentialWellBuilt, BoundsAssumption
<1>2. CASE s = IfElse(n) BY <1>2, IfElseWellBuilt
<1>3. CASE s = While(n) BY <1>3, WhileWellBuilt
<1>4. CASE \E k \in CaseNums : s = Switch(n, k) BY <1>4, SwitchWellBuilt
<1> QED BY <1>1, <1>2, <1>3, <1>4 DEF Structures

(***************************************************************************)
(* Part 3: the inductive invariant.                                        *)
(***************************************************************************)

\* What a nested call does to the terminators: the predecessors of r branch
\* to the first new block, the last new block ends as r did, and every other
\* block keeps its terminator.
SpliceShape(s, r) ==
  /\ WellBuilt(s, next)
  /\ r \in layout /\ r \notin {Entry, End} /\ r \notin s.blocks
  /\ s.blocks \cap layout = {}
  /\ DOMAIN Spliced(s, r) = (layout \cup s.blocks) \ {r}
  /\ Spliced(s, r)[s.last] = term[r]
  /\ \A b \in s.blocks : b # s.last => Spliced(s, r)[b] = s.term[b]
  /\ \A b \in layout \ {r} :
       Spliced(s, r)[b] = IF r \in Succ(b) THEN Retarget(term[b], s.first, r)
                                          ELSE term[b]
  /\ ~Unfit(UpdatePredecessor(Inserted(s), s.first, r)[r])

\* A nested cf_construct that replaces block r has the shape above.
LEMMA SpliceFacts ==
  ASSUME IInv, status = "nested",
         NEW r \in parent.random, NEW s \in Structures(next)
  PROVE  SpliceShape(s, r)
<1>1. next \in Nat /\ WellBuilt(s, next)
  BY StructuresWellBuilt DEF IInv, TypeOK
<1>2. r \in layout /\ r \notin {Entry, End} /\ Increasing(term[r])
  BY DEF IInv, TypeOK, Replaceable
<1>3. s.blocks \cap layout = {} /\ r \notin s.blocks
  <2>1. PICK m \in Nat \ {0} : s.blocks = next .. (next + m - 1)
    BY <1>1 DEF WellBuilt, Numbered
  <2>2. layout \subseteq 0 .. (next - 1) BY DEF IInv, TypeOK
  <2> QED BY <1>1, <1>2, <2>1, <2>2
<1> DEFINE I == Inserted(s)
           P == UpdatePredecessor(I, s.first, r)
           T == Spliced(s, r)
<1>4. /\ DOMAIN I = layout \cup s.blocks
      /\ \A b \in layout : I[b] = term[b]
      /\ \A b \in s.blocks : I[b] = s.term[b]
  BY <1>3 DEF Inserted
<1>5. /\ DOMAIN P = DOMAIN I
      /\ \A b \in DOMAIN I : P[b] = IF r \in Dest(I[b]) THEN Retarget(I[b], s.first, r) ELSE I[b]
  BY DEF UpdatePredecessor
<1>6. /\ DOMAIN T = DOMAIN P \ {r}
      /\ \A b \in DOMAIN P \ {r} : T[b] = IF b = s.last THEN Rebuild(P[r]) ELSE P[b]
  BY DEF Spliced, UpdateSuccessor
<1> HIDE DEF I, P, T
<1>7. P[r] = term[r]
  <2>1. r \notin Dest(term[r]) BY <1>2 DEF IInv, NoSelfLoop, Succ
  <2> QED BY <1>2, <1>4, <1>5, <2>1
<1>8. Rebuild(term[r]) = term[r] /\ ~Unfit(term[r])
  <2>1. layout \in SUBSET Nat /\ IsTerminator(term[r], layout, next)
    BY <1>1, <1>2 DEF IInv, TypeOK
  <2> QED BY <1>1, <1>2, <2>1, RebuildIsIdentity
<1>9. s.last \in s.blocks BY <1>1 DEF WellBuilt, Terminated
<1>10. T[s.last] = term[r]
  BY <1>3, <1>4, <1>5, <1>6, <1>7, <1>8, <1>9
<1>11. ASSUME NEW b \in s.blocks, b # s.last PROVE T[b] = s.term[b]
  <2>1. IsTerminator(s.term[b], s.blocks, next + Cardinality(s.blocks))
    BY <1>1 DEF WellBuilt, Terminated
  <2>2. next + Cardinality(s.blocks) \in Nat
    BY <1>1 DEF WellBuilt, Numbered
  <2>3. Dest(s.term[b]) \subseteq s.blocks BY <2>1, <2>2, Slots, Zenon
  <2> QED BY <1>3, <1>4, <1>5, <1>6, <1>11, <2>3
<1>12. ASSUME NEW b \in layout \ {r}
       PROVE  T[b] = IF r \in Succ(b) THEN Retarget(term[b], s.first, r) ELSE term[b]
  BY <1>3, <1>4, <1>5, <1>6, <1>9 DEF Succ
<1> QED BY <1>1, <1>2, <1>3, <1>4, <1>5, <1>6, <1>7, <1>8, <1>10, <1>11, <1>12, Zenon
     DEF I, P, T, SpliceShape

\* The edges after a nested call.
SpliceEdgesShape(s, r) ==
  /\ \A b \in layout \ {r} :
       /\ Distinct(Spliced(s, r)[b])
       /\ IsTerminator(Spliced(s, r)[b], (layout \ {r}) \cup {s.first}, next)
       /\ Spliced(s, r)[b].op = term[b].op
       /\ Spliced(s, r)[b].arg = term[b].arg
       /\ Dest(Spliced(s, r)[b]) =
            IF r \in Succ(b) THEN (Succ(b) \ {r}) \cup {s.first} ELSE Succ(b)
  /\ \A b \in s.blocks \ {s.last} : Dest(Spliced(s, r)[b]) \subseteq s.blocks
  /\ Dest(Spliced(s, r)[s.last]) = Succ(r)
  /\ Succ(r) \subseteq layout \ {r}

\* A nested cf_construct that replaces block r has the edges above.
LEMMA SpliceEdges ==
  ASSUME IInv, status = "nested",
         NEW r \in parent.random, NEW s \in Structures(next)
  PROVE  SpliceEdgesShape(s, r)
<1> DEFINE T == Spliced(s, r)
<1>0. SpliceShape(s, r) BY SpliceFacts
<1>1. /\ WellBuilt(s, next) /\ r \in layout
      /\ s.blocks \cap layout = {}
      /\ T[s.last] = term[r]
      /\ \A b \in s.blocks : b # s.last => T[b] = s.term[b]
      /\ \A b \in layout \ {r} :
           T[b] = IF r \in Succ(b) THEN Retarget(term[b], s.first, r) ELSE term[b]
  BY <1>0 DEF SpliceShape
<1> HIDE DEF T
<1>2. s.first \in s.blocks /\ s.first \notin layout
  BY <1>1 DEF WellBuilt, Terminated
<1>3. next \in Nat BY DEF IInv, TypeOK
<1>4. ASSUME NEW b \in layout
      PROVE  /\ IsTerminator(term[b], layout, next) /\ Distinct(term[b])
             /\ Succ(b) \subseteq layout /\ b \notin Succ(b)
  <2>1. IsTerminator(term[b], layout, next) BY DEF IInv, TypeOK
  <2>2. Dest(term[b]) \subseteq layout BY <1>3, <2>1, Slots, Zenon
  <2> QED BY <2>1, <2>2 DEF IInv, DistinctTargets, NoSelfLoop, Succ
<1>5. ASSUME NEW b \in layout \ {r}
      PROVE  /\ Distinct(T[b])
             /\ IsTerminator(T[b], (layout \ {r}) \cup {s.first}, next)
             /\ T[b].op = term[b].op /\ T[b].arg = term[b].arg
             /\ Dest(T[b]) =
                  IF r \in Succ(b) THEN (Succ(b) \ {r}) \cup {s.first} ELSE Succ(b)
  <2>1. CASE r \in Succ(b)
    <3>1. T[b] = Retarget(term[b], s.first, r) BY <1>1, <2>1
    <3>2. r \in Dest(term[b]) BY <2>1 DEF Succ
    <3>3. /\ T[b].op = term[b].op /\ T[b].arg = term[b].arg
          /\ Dest(T[b]) = (Dest(term[b]) \ {r}) \cup {s.first}
          /\ Distinct(T[b])
          /\ IsTerminator(T[b], (layout \ {r}) \cup {s.first}, next)
      <4> DEFINE t == term[b]
      <4>1. IsTerminator(t, layout, next) /\ Distinct(t) BY <1>4
      <4>2. T[b] = Retarget(t, s.first, r) /\ r \in Dest(t) BY <3>1, <3>2
      <4> HIDE DEF t
      <4>3. /\ Retarget(t, s.first, r).op = t.op /\ Retarget(t, s.first, r).arg = t.arg
            /\ Dest(Retarget(t, s.first, r)) = (Dest(t) \ {r}) \cup {s.first}
            /\ Distinct(Retarget(t, s.first, r))
            /\ IsTerminator(Retarget(t, s.first, r), (layout \ {r}) \cup {s.first}, next)
        BY <1>2, <1>3, <4>1, <4>2, RetargetFacts, Zenon
      <4> QED BY <4>2, <4>3 DEF t
    <3> QED BY <2>1, <3>3 DEF Succ
  <2>2. CASE r \notin Succ(b)
    <3>1. T[b] = term[b] BY <1>1, <2>2
    <3>2. Dest(term[b]) \subseteq (layout \ {r}) \cup {s.first}
      BY <1>4, <2>2 DEF Succ
    <3>3. IsTerminator(T[b], (layout \ {r}) \cup {s.first}, next)
      BY <1>3, <1>4, <3>1, <3>2, TerminatorMoves
    <3> QED BY <1>4, <2>2, <3>1, <3>3 DEF Succ
  <2> QED BY <2>1, <2>2
<1>6. ASSUME NEW b \in s.blocks \ {s.last} PROVE Dest(T[b]) \subseteq s.blocks
  <2>1. IsTerminator(s.term[b], s.blocks, next + Cardinality(s.blocks))
    BY <1>1 DEF WellBuilt, Terminated
  <2>2. next + Cardinality(s.blocks) \in Nat
    BY <1>1, <1>3 DEF WellBuilt, Numbered
  <2>3. Dest(s.term[b]) \subseteq s.blocks BY <2>1, <2>2, Slots, Zenon
  <2> QED BY <1>1, <2>3
<1>7. Dest(T[s.last]) = Succ(r) /\ Succ(r) \subseteq layout \ {r}
  BY <1>1, <1>4 DEF Succ
<1> QED BY <1>5, <1>6, <1>7, Zenon DEF T, SpliceEdgesShape

\* The end of a call: s is the structure it has built.
LEMMA RecurseFacts ==
  ASSUME depth \in 0 .. MaxDepth, NEW s, Recurse(s)
  PROVE  /\ depth' \in 0 .. MaxDepth
         /\ status' \in {"nested", "done"}
         /\ parent'.random = s.random
BY BoundsAssumption DEF Recurse

\* The first call establishes the invariant.
LEMMA RootStep ==
  ASSUME IInv, ConstructRoot
  PROVE  IInv'
<1>1. PICK s \in Structures(End + 1) :
        /\ layout' = {Entry, End} \cup s.blocks
        /\ term' = RootTerm(s)
        /\ params' = s.params
        /\ next' = End + 1 + Cardinality(s.blocks)
        /\ Recurse(s)
  BY DEF ConstructRoot
<1>2. WellBuilt(s, 2) BY StructuresWellBuilt DEF End
<1>3. PICK m \in Nat \ {0} : s.blocks = 2 .. (2 + m - 1) /\ Cardinality(s.blocks) = m
  BY <1>2 DEF WellBuilt, Numbered
<1>4. /\ next' = 2 + m /\ next' \in Nat
      /\ layout' = {0, 1} \cup s.blocks
      /\ layout' \subseteq 0 .. (next' - 1)
      /\ 0 \notin s.blocks /\ 1 \notin s.blocks
  BY <1>1, <1>3 DEF Entry, End
<1>5. /\ DOMAIN term' = layout'
      /\ term'[0] = Jump(s.first)
      /\ term'[1] = NoTerm
      /\ s.first \in s.blocks /\ s.last \in s.blocks
      /\ term'[s.last] = Jump(1)
      /\ \A b \in s.blocks : b # s.last => term'[b] = s.term[b]
  BY SMTT(60), <1>1, <1>2, <1>4 DEF RootTerm, Entry, End, WellBuilt, Terminated
<1>6. /\ depth' \in 0 .. MaxDepth
      /\ status' \in {"nested", "done"}
      /\ parent'.random = s.random
  BY <1>1, RecurseFacts DEF IInv, TypeOK
<1>7. ASSUME NEW b \in s.blocks, b # s.last
      PROVE  /\ IsTerminator(s.term[b], s.blocks, 2 + m)
             /\ Distinct(s.term[b])
             /\ b \notin Dest(s.term[b])
             /\ s.term[b] # NoTerm
             /\ Dest(s.term[b]) \subseteq s.blocks
  <2>1. /\ IsTerminator(s.term[b], s.blocks, 2 + m)
        /\ Distinct(s.term[b])
        /\ b \notin Dest(s.term[b])
        /\ s.term[b] # NoTerm
    BY <1>2, <1>3, <1>7 DEF WellBuilt, Terminated
  <2>2. 2 + m \in Nat OBVIOUS
  <2>3. Dest(s.term[b]) \subseteq s.blocks BY <2>1, <2>2, Slots, Zenon
  <2> QED BY <2>1, <2>3
<1>8. ASSUME NEW b \in layout'
      PROVE  /\ IsTerminator(term'[b], layout', next')
             /\ Distinct(term'[b])
             /\ b \notin Dest(term'[b])
             /\ 0 \notin Dest(term'[b])
             /\ term'[b] = NoTerm <=> b = 1
  <2>1. CASE b = 0
    <3>1. /\ IsTerminator(Jump(s.first), layout', next') /\ Distinct(Jump(s.first))
          /\ Dest(Jump(s.first)) = {s.first} /\ Jump(s.first) # NoTerm
      BY <1>4, <1>5, JumpFacts
    <3> QED BY <1>4, <1>5, <2>1, <3>1
  <2>2. CASE b = 1 BY <1>5, <2>2, NoTermFacts
  <2>3. CASE b = s.last
    <3>1. /\ IsTerminator(Jump(1), layout', next') /\ Distinct(Jump(1))
          /\ Dest(Jump(1)) = {1} /\ Jump(1) # NoTerm
      BY <1>4, JumpFacts
    <3> QED BY <1>4, <1>5, <2>3, <3>1
  <2>4. CASE b \in s.blocks /\ b # s.last
    <3>1. term'[b] = s.term[b] BY <1>5, <2>4
    <3>2. IsTerminator(s.term[b], layout', next')
      BY <1>4, <1>7, <2>4, TerminatorMoves
    <3> QED BY <1>4, <1>7, <2>4, <3>1, <3>2
  <2> QED BY <1>4, <2>1, <2>2, <2>3, <2>4
<1>9. TypeOK' /\ NoPanic' /\ status' # "root" /\ {Entry, End} \subseteq layout'
  <2>1. params' \subseteq layout' /\ parent'.random \subseteq layout'
    BY <1>1, <1>2, <1>4, <1>6 DEF WellBuilt, Terminated
  <2> QED BY <1>4, <1>5, <1>6, <1>8, <2>1 DEF TypeOK, NoPanic, Entry, End
<1>10. Replaceable'
  <2> SUFFICES ASSUME NEW b \in s.random
               PROVE  b \notin {Entry, End} /\ Increasing(term'[b])
    BY <1>6 DEF Replaceable
  <2>1. b \in s.blocks /\ Increasing(s.term[b])
    BY <1>2 DEF WellBuilt, Terminated
  <2>2. Increasing(Jump(1)) BY JumpFacts
  <2> QED BY <1>4, <1>5, <2>1, <2>2 DEF Entry, End
<1>11. NoSelfLoop' /\ SingleExit' /\ DistinctTargets' /\ EntryHasNoPredecessor'
  BY <1>8 DEF NoSelfLoop, SingleExit, DistinctTargets, EntryHasNoPredecessor,
              Succ, Entry, End
<1>12. ParamsEndInBranch'
  <2> SUFFICES ASSUME NEW b \in s.params
               PROVE  term'[b].op \in {"brif", "br_table"} /\ term'[b].arg = b
    BY <1>1 DEF ParamsEndInBranch
  <2>1. /\ b \in s.blocks
        /\ s.term[b].op \in {"brif", "br_table"} /\ s.term[b].arg = b
        /\ s.term[s.last] = NoTerm
    BY <1>2 DEF WellBuilt, Terminated
  <2>2. b # s.last BY <2>1 DEF NoTerm
  <2> QED BY <1>5, <2>1, <2>2
<1>13. s.term[s.last] = NoTerm /\ Dest(NoTerm) = {}
  BY <1>2, NoTermFacts DEF WellBuilt, Terminated
<1>14. /\ Dest(term'[0]) = {s.first}
       /\ Dest(term'[s.last]) = {1}
  BY <1>5, JumpFacts
<1>15. AllReachable'
  <2> SUFFICES ASSUME NEW S \in SUBSET layout', 0 \in S,
                      \A b \in S : Dest(term'[b]) \subseteq S
               PROVE  S = layout'
    BY DEF AllReachable, ClosedForward, Succ, Entry
  <2>1. s.first \in S BY <1>14
  <2>2. \A b \in s.blocks \cap S : Dest(s.term[b]) \subseteq S BY <1>5, <1>13
  <2>3. s.blocks \subseteq S BY <1>2, <2>1, <2>2 DEF WellBuilt, ReachableInside
  <2> QED BY <1>4, <1>5, <1>14, <2>3, Zenon
<1>16. AllReachEnd'
  <2> SUFFICES ASSUME NEW S \in SUBSET layout', 1 \in S,
                      \A b \in layout' : Dest(term'[b]) \cap S # {} => b \in S
               PROVE  S = layout'
    BY DEF AllReachEnd, ClosedBackward, Succ, End
  <2>1. s.last \in S BY <1>4, <1>5, <1>14
  <2>2. \A b \in s.blocks : Dest(s.term[b]) \cap S # {} => b \in S
    BY <1>4, <1>5, <1>13
  <2>3. s.blocks \subseteq S BY <1>2, <2>1, <2>2 DEF WellBuilt, ReachLastInside
  <2>4. s.first \in Dest(term'[0]) \cap S BY <1>5, <1>14, <2>3
  <2>5. 0 \in S BY <1>4, <2>4
  <2> QED BY <1>4, <2>3, <2>5, Zenon
<1>17. term'[Entry].op = "jump" BY <1>5 DEF Entry, Jump
<1> QED BY <1>9, <1>10, <1>11, <1>12, <1>15, <1>16, <1>17 DEF IInv

\* Only the empty terminator has no target.
LEMMA TerminatorHasTarget ==
  ASSUME NEW L, NEW n, NEW t, IsTerminator(t, L, n), t # NoTerm
  PROVE  Dest(t) # {}
<1>1. CASE \E b \in L : t = Jump(b) BY <1>1, JumpFacts
<1>2. CASE t.dest \in [0..1 -> L]
  <2>1. 0 \in DOMAIN t.dest BY <1>2
  <2> QED BY <2>1 DEF Dest
<1>3. CASE \E k \in CaseNums : t.dest \in [0..k -> L]
  <2>1. 0 \in DOMAIN t.dest BY <1>3, BoundsAssumption
  <2> QED BY <2>1 DEF Dest
<1> QED BY <1>1, <1>2, <1>3 DEF IsTerminator

\* The new blocks stay reachable through the block they replace.
LEMMA NestedReachable ==
  ASSUME IInv, status = "nested",
         NEW r \in parent.random, NEW s \in Structures(next),
         layout' = (layout \cup s.blocks) \ {r}, term' = Spliced(s, r)
  PROVE  AllReachable'
<1>1. SpliceShape(s, r) /\ SpliceEdgesShape(s, r) BY SpliceFacts, SpliceEdges
<1>2. /\ WellBuilt(s, next) /\ r \in layout /\ r # Entry
      /\ s.blocks \cap layout = {}
      /\ \A b \in s.blocks : b # s.last => term'[b] = s.term[b]
  BY <1>1 DEF SpliceShape
<1>3. /\ s.first \in s.blocks /\ s.last \in s.blocks
      /\ Dest(s.term[s.last]) = {}
  BY <1>2, NoTermFacts, Zenon DEF WellBuilt, Terminated
<1>4. /\ \A b \in layout \ {r} :
           Dest(term'[b]) =
             IF r \in Succ(b) THEN (Succ(b) \ {r}) \cup {s.first} ELSE Succ(b)
      /\ Dest(term'[s.last]) = Succ(r)
  BY <1>1 DEF SpliceEdgesShape
<1>5. \A b \in layout : Succ(b) \subseteq layout
  <2>1. next \in Nat /\ \A b \in layout : IsTerminator(term[b], layout, next)
    BY DEF IInv, TypeOK
  <2> QED BY <2>1, Slots, Zenon DEF Succ
<1> SUFFICES ASSUME NEW U \in SUBSET layout', Entry \in U,
                    \A b \in U : Dest(term'[b]) \subseteq U
             PROVE  U = layout'
  BY DEF AllReachable, ClosedForward, Succ
<1>6. s.first \in U => s.blocks \subseteq U
  <2>1. \A b \in s.blocks \cap U : Dest(s.term[b]) \subseteq U BY <1>2, <1>3
  <2> QED BY <1>2, <2>1 DEF WellBuilt, ReachableInside
<1> DEFINE S == {b \in layout : b \in U \/ (b = r /\ s.first \in U)}
<1>7. ASSUME NEW b \in S PROVE Succ(b) \subseteq S
  <2>1. CASE b = r
    <3>1. r \notin U /\ s.first \in U BY <2>1
    <3>2. Succ(r) \subseteq U BY <1>3, <1>4, <1>6, <3>1
    <3> QED BY <1>2, <1>5, <2>1, <3>2
  <2>2. CASE b # r
    <3>1. b \in U /\ b \in layout \ {r} BY <2>2
    <3>2. Dest(term'[b]) \subseteq U BY <3>1
    <3> QED BY <1>4, <1>5, <3>1, <3>2, Zenon
  <2> QED BY <2>1, <2>2
<1>8. Entry \in S BY DEF IInv
<1>9. S = layout
  <2>1. S \in SUBSET layout OBVIOUS
  <2> HIDE DEF S
  <2> QED BY <1>7, <1>8, <2>1 DEF IInv, AllReachable, ClosedForward
<1>10. s.first \in U /\ layout \ {r} \subseteq U BY <1>2, <1>9
<1> QED BY <1>6, <1>10

\* The end block stays reachable: what reached it through the replaced block
\* reaches it through the last of the new blocks.
LEMMA NestedReachEnd ==
  ASSUME IInv, status = "nested",
         NEW r \in parent.random, NEW s \in Structures(next),
         layout' = (layout \cup s.blocks) \ {r}, term' = Spliced(s, r)
  PROVE  AllReachEnd'
<1>1. SpliceShape(s, r) /\ SpliceEdgesShape(s, r) BY SpliceFacts, SpliceEdges
<1>2. /\ WellBuilt(s, next) /\ r \in layout /\ r # End
      /\ s.blocks \cap layout = {}
      /\ \A b \in s.blocks : b # s.last => term'[b] = s.term[b]
  BY <1>1 DEF SpliceShape
<1>3. /\ s.first \in s.blocks /\ s.last \in s.blocks
      /\ Dest(s.term[s.last]) = {}
  BY <1>2, NoTermFacts, Zenon DEF WellBuilt, Terminated
<1>4. /\ \A b \in layout \ {r} :
           Dest(term'[b]) =
             IF r \in Succ(b) THEN (Succ(b) \ {r}) \cup {s.first} ELSE Succ(b)
      /\ Dest(term'[s.last]) = Succ(r)
      /\ Succ(r) \subseteq layout \ {r}
  BY <1>1, Zenon DEF SpliceEdgesShape
<1>5. Succ(r) # {}
  <2>1. IsTerminator(term[r], layout, next) /\ term[r] # NoTerm
    BY <1>2 DEF IInv, TypeOK, SingleExit
  <2> QED BY <2>1, TerminatorHasTarget DEF Succ
<1> SUFFICES ASSUME NEW U \in SUBSET layout', End \in U,
                    \A b \in layout' : Dest(term'[b]) \cap U # {} => b \in U
             PROVE  U = layout'
  BY DEF AllReachEnd, ClosedBackward, Succ
<1>6. s.blocks \subseteq layout' /\ layout \ {r} \subseteq layout' BY <1>2
<1>7. Succ(r) \cap U # {} => s.blocks \subseteq U
  <2> SUFFICES ASSUME Succ(r) \cap U # {} PROVE s.blocks \subseteq U OBVIOUS
  <2>1. s.last \in U BY <1>3, <1>4, <1>6
  <2>2. \A b \in s.blocks : Dest(s.term[b]) \cap U # {} => b \in U
    BY <1>2, <1>3, <1>6
  <2> QED BY <1>2, <2>1, <2>2 DEF WellBuilt, ReachLastInside
<1> DEFINE S == {b \in layout : b \in U \/ (b = r /\ s.first \in U)}
<1>8. ASSUME NEW b \in layout, Succ(b) \cap S # {} PROVE b \in S
  <2>1. CASE b = r
    <3>1. Succ(r) \cap U # {} BY <1>4, <1>8, <2>1
    <3> QED BY <1>3, <1>7, <2>1, <3>1
  <2>2. CASE b # r
    <3>1. PICK c \in Succ(b) : c \in S BY <1>8
    <3>2. CASE c = r
      <4>1. s.first \in U /\ s.first \in Dest(term'[b])
        BY ZenonT(60), <1>2, <1>4, <2>2, <3>1, <3>2
      <4> QED BY <1>6, <2>2, <4>1
    <3>3. CASE c # r
      <4>1. c \in U /\ c \in Dest(term'[b]) BY <1>4, <2>2, <3>1, <3>3, Zenon
      <4> QED BY <1>6, <2>2, <4>1
    <3> QED BY <3>2, <3>3
  <2> QED BY <2>1, <2>2
<1>9. End \in S BY DEF IInv
<1>10. S = layout
  <2>1. S \in SUBSET layout OBVIOUS
  <2> HIDE DEF S
  <2> QED BY <1>8, <1>9, <2>1 DEF IInv, AllReachEnd, ClosedBackward
<1>11. layout \ {r} \subseteq U BY <1>10
<1>12. s.blocks \subseteq U BY <1>4, <1>5, <1>7, <1>11
<1> QED BY <1>11, <1>12

\* The terminator of every block after a nested call.
LEMMA NestedTerminators ==
  ASSUME IInv, status = "nested",
         NEW r \in parent.random, NEW s \in Structures(next),
         layout' = (layout \cup s.blocks) \ {r}, term' = Spliced(s, r),
         next' = next + Cardinality(s.blocks),
         NEW b \in layout'
  PROVE  /\ IsTerminator(term'[b], layout', next')
         /\ Distinct(term'[b])
         /\ b \notin Dest(term'[b])
         /\ Entry \notin Dest(term'[b])
         /\ term'[b] = NoTerm <=> b = End
<1>1. SpliceShape(s, r) /\ SpliceEdgesShape(s, r) BY SpliceFacts, SpliceEdges
<1>2. /\ WellBuilt(s, next)
      /\ r \in layout /\ r \notin {Entry, End} /\ r \notin s.blocks
      /\ s.blocks \cap layout = {}
      /\ term'[s.last] = term[r]
      /\ \A c \in s.blocks : c # s.last => term'[c] = s.term[c]
      /\ \A c \in layout \ {r} : r \notin Succ(c) => term'[c] = term[c]
  BY <1>1, Zenon DEF SpliceShape
<1>3. /\ \A c \in layout \ {r} :
           /\ Distinct(term'[c])
           /\ IsTerminator(term'[c], (layout \ {r}) \cup {s.first}, next)
           /\ Dest(term'[c]) =
                IF r \in Succ(c) THEN (Succ(c) \ {r}) \cup {s.first} ELSE Succ(c)
      /\ Dest(term'[s.last]) = Succ(r)
      /\ Succ(r) \subseteq layout \ {r}
  BY <1>1, Zenon DEF SpliceEdgesShape
<1>4. next \in Nat /\ next' \in Nat /\ next <= next'
  <2>1. PICK m \in Nat : Cardinality(s.blocks) = m BY <1>2 DEF WellBuilt, Numbered
  <2> QED BY <2>1 DEF IInv, TypeOK
<1>5. s.first \in s.blocks /\ s.last \in s.blocks
  BY <1>2, Zenon DEF WellBuilt, Terminated
<1>6. Entry \in layout /\ End \in layout BY DEF IInv
<1>7. CASE b \in layout \ {r}
  <2>1. IsTerminator(term'[b], layout', next')
    <3>1. IsTerminator(term'[b], (layout \ {r}) \cup {s.first}, next) BY <1>3, <1>7, Zenon
    <3>2. Dest(term'[b]) \subseteq (layout \ {r}) \cup {s.first}
      BY <1>4, <3>1, Slots, Zenon
    <3>3. Dest(term'[b]) \subseteq layout' BY <1>2, <1>5, <3>2
    <3> QED BY <1>4, <3>1, <3>3, TerminatorMoves
  <2>2. b \notin Succ(b) /\ Entry \notin Succ(b) /\ (term[b] = NoTerm <=> b = End)
    BY <1>7 DEF IInv, NoSelfLoop, EntryHasNoPredecessor, SingleExit
  <2>3. b \notin Dest(term'[b]) /\ Entry \notin Dest(term'[b])
    BY ZenonT(60), <1>2, <1>3, <1>5, <1>6, <1>7, <2>2
  <2>4. term'[b] = NoTerm <=> b = End
    <3>1. CASE r \in Succ(b)
      <4>1. s.first \in Dest(term'[b]) BY <1>3, <1>7, <3>1, Zenon
      <4> QED BY <2>2, <3>1, <4>1, NoTermFacts DEF Succ
    <3>2. CASE r \notin Succ(b) BY <1>2, <1>7, <2>2, <3>2
    <3> QED BY <3>1, <3>2
  <2> QED BY <1>3, <1>7, <2>1, <2>3, <2>4, Zenon
<1>8. CASE b = s.last
  <2>1. /\ IsTerminator(term[r], layout, next) /\ Distinct(term[r])
        /\ Entry \notin Succ(r) /\ term[r] # NoTerm
    BY <1>2 DEF IInv, TypeOK, DistinctTargets, EntryHasNoPredecessor, SingleExit
  <2>2. Dest(term[r]) \subseteq layout' BY <1>3 DEF Succ
  <2>3. IsTerminator(term[r], layout', next') BY SMTT(60), <1>4, <2>1, <2>2, TerminatorMoves
  <2> QED BY <1>2, <1>3, <1>5, <1>6, <1>8, <2>1, <2>3
<1>9. CASE b \in s.blocks /\ b # s.last
  <2>1. term'[b] = s.term[b] BY <1>2, <1>9
  <2>2. /\ IsTerminator(s.term[b], s.blocks, next') /\ Distinct(s.term[b])
        /\ b \notin Dest(s.term[b]) /\ s.term[b] # NoTerm
    BY <1>2, <1>9, Zenon DEF WellBuilt, Terminated
  <2>3. Dest(s.term[b]) \subseteq s.blocks BY <1>4, <2>2, Slots, Zenon
  <2>4. IsTerminator(s.term[b], layout', next')
    <3>1. Dest(s.term[b]) \subseteq layout' BY <1>2, <2>3
    <3> QED BY <1>4, <2>2, <3>1, TerminatorMoves
  <2> QED BY <1>2, <1>6, <1>9, <2>1, <2>2, <2>3, <2>4
<1> QED BY <1>7, <1>8, <1>9

\* Every nested call preserves the invariant.
LEMMA NestedStep ==
  ASSUME IInv, ConstructNested
  PROVE  IInv'
<1>1. status = "nested" BY DEF ConstructNested
<1>2. PICK r \in parent.random, s \in Structures(next) :
        /\ layout' = (layout \cup s.blocks) \ {r}
        /\ term' = Spliced(s, r)
        /\ params' = (params \cup s.params) \ {r}
        /\ next' = next + Cardinality(s.blocks)
        /\ IF Unfit(UpdatePredecessor(Inserted(s), s.first, r)[r])
           THEN status' = "panic" /\ UNCHANGED <<parent, depth>>
           ELSE Recurse(s)
  BY DEF ConstructNested
<1>3. SpliceShape(s, r) /\ SpliceEdgesShape(s, r)
  BY <1>1, SpliceFacts, SpliceEdges
<1>4. /\ WellBuilt(s, next)
      /\ r \in layout /\ r \notin {Entry, End} /\ r \notin s.blocks
      /\ s.blocks \cap layout = {}
      /\ DOMAIN term' = layout'
      /\ term'[s.last] = term[r]
      /\ \A b \in s.blocks : b # s.last => term'[b] = s.term[b]
      /\ Recurse(s)
  BY <1>2, <1>3, Zenon DEF SpliceShape
<1>5. /\ depth' \in 0 .. MaxDepth
      /\ status' \in {"nested", "done"}
      /\ parent'.random = s.random
  BY <1>4, RecurseFacts DEF IInv, TypeOK
<1>6. ASSUME NEW b \in layout'
      PROVE  /\ IsTerminator(term'[b], layout', next')
             /\ Distinct(term'[b])
             /\ b \notin Dest(term'[b])
             /\ Entry \notin Dest(term'[b])
             /\ term'[b] = NoTerm <=> b = End
  BY <1>1, <1>2, NestedTerminators, Zenon
<1>7. next' \in Nat /\ layout' \subseteq 0 .. (next' - 1)
  <2>1. next \in Nat /\ layout \subseteq 0 .. (next - 1) BY DEF IInv, TypeOK
  <2>2. PICK m \in Nat : s.blocks = next .. (next + m - 1) /\ Cardinality(s.blocks) = m
    BY <1>4 DEF WellBuilt, Numbered
  <2>3. next' = next + m BY <1>2, <2>2
  <2>4. next + m \in Nat /\ layout \cup s.blocks \subseteq 0 .. (next + m - 1)
    BY <2>1, <2>2
  <2>5. layout' \subseteq layout \cup s.blocks BY <1>2
  <2>6. next' - 1 = next + m - 1 BY <2>1, <2>3
  <2>7. layout' \subseteq 0 .. (next + m - 1) BY <2>4, <2>5
  <2> QED BY <2>3, <2>4, <2>6, <2>7
<1>8. params' \subseteq layout' /\ parent'.random \subseteq layout'
  <2>1. params \subseteq layout BY DEF IInv, TypeOK
  <2>2. s.params \subseteq s.blocks /\ s.random \subseteq s.blocks
    BY <1>4 DEF WellBuilt, Terminated
  <2> QED BY <1>2, <1>4, <1>5, <2>1, <2>2
<1>9. TypeOK' /\ NoPanic' /\ status' # "root"
  BY <1>4, <1>5, <1>6, <1>7, <1>8, Zenon DEF TypeOK, NoPanic
<1>10. {Entry, End} \subseteq layout'
  <2>1. {Entry, End} \subseteq layout BY <1>1 DEF IInv
  <2> QED BY <1>2, <1>4, <2>1
<1>11. Replaceable'
  <2> SUFFICES ASSUME NEW b \in s.random
               PROVE  b \notin {Entry, End} /\ Increasing(term'[b])
    BY <1>5 DEF Replaceable
  <2>1. b \in s.blocks /\ Increasing(s.term[b])
    BY <1>4 DEF WellBuilt, Terminated
  <2>2. Increasing(term[r]) BY DEF IInv, Replaceable
  <2>3. {Entry, End} \subseteq layout BY <1>1 DEF IInv
  <2> QED BY <1>4, <2>1, <2>2, <2>3
<1>12. NoSelfLoop' /\ SingleExit' /\ DistinctTargets' /\ EntryHasNoPredecessor'
  BY <1>6 DEF NoSelfLoop, SingleExit, DistinctTargets, EntryHasNoPredecessor, Succ
<1>13. ParamsEndInBranch'
  <2> SUFFICES ASSUME NEW b \in params'
               PROVE  term'[b].op \in {"brif", "br_table"} /\ term'[b].arg = b
    BY DEF ParamsEndInBranch
  <2>1. CASE b \in params
    <3>1. b \in layout \ {r} BY <1>2, <2>1, Zenon DEF IInv, TypeOK
    <3>2. term'[b].op = term[b].op /\ term'[b].arg = term[b].arg
      BY <1>2, <1>3, <3>1, Zenon DEF SpliceEdgesShape
    <3> QED BY <2>1, <3>2 DEF IInv, ParamsEndInBranch
  <2>2. CASE b \in s.params
    <3>1. /\ b \in s.blocks
          /\ s.term[b].op \in {"brif", "br_table"} /\ s.term[b].arg = b
          /\ s.term[s.last] = NoTerm
      BY <1>4, <2>2, Zenon DEF WellBuilt, Terminated
    <3>2. b # s.last BY <3>1 DEF NoTerm
    <3> QED BY <1>4, <3>1, <3>2
  <2> QED BY <1>2, <2>1, <2>2
<1>14. AllReachable' /\ AllReachEnd'
  BY <1>1, <1>2, NestedReachable, NestedReachEnd
<1>15. term'[Entry].op = "jump"
  <2>1. Entry \in layout \ {r} /\ term[Entry].op = "jump" BY <1>1, <1>4 DEF IInv
  <2> QED BY <1>2, <1>3, <2>1, Zenon DEF SpliceEdgesShape
<1> QED BY <1>9, <1>10, <1>11, <1>12, <1>13, <1>14, <1>15 DEF IInv

\* The invariant does not depend on anything but the variables.
LEMMA StutterStep ==
  ASSUME IInv, UNCHANGED vars
  PROVE  IInv'
BY Zenon DEF IInv, vars, TypeOK, NoPanic, Replaceable, NoSelfLoop, SingleExit,
       DistinctTargets, ParamsEndInBranch, EntryHasNoPredecessor, AllReachable,
       AllReachEnd, ClosedForward, ClosedBackward, Succ

\* IInv holds initially: the function has no block yet.
LEMMA InitIInv ==
  ASSUME Init
  PROVE  IInv
<1>1. TypeOK /\ NoPanic BY BoundsAssumption DEF Init, TypeOK, NoPanic
<1>2. layout = {} /\ params = {} /\ parent.random = {} /\ status = "root" BY DEF Init
<1> QED BY <1>1, <1>2, Zenon DEF IInv, Replaceable, NoSelfLoop, SingleExit,
       DistinctTargets, ParamsEndInBranch, EntryHasNoPredecessor, AllReachable,
       AllReachEnd

(***************************************************************************)
(* Part 4: the theorems.                                                   *)
(***************************************************************************)

\* IInv is an inductive invariant of cf_construct, whatever MAX_DEPTH and the
\* sizes drawn for sequences and switches.
THEOREM Invariance == Spec => []IInv
<1>1. Init => IInv BY InitIInv
<1>2. IInv /\ [Next]_vars => IInv'
  <2> SUFFICES ASSUME IInv, [Next]_vars PROVE IInv' OBVIOUS
  <2>1. CASE ConstructRoot BY <2>1, RootStep
  <2>2. CASE ConstructNested BY <2>2, NestedStep
  <2>3. CASE Returned BY <2>3, StutterStep DEF Returned
  <2>4. CASE UNCHANGED vars BY <2>4, StutterStep
  <2> QED BY <2>1, <2>2, <2>3, <2>4 DEF Next
<1> QED BY <1>1, <1>2, PTL DEF Spec

\* The functions cf_construct builds are well typed: a branch has targets in
\* the layout, as many as its opcode allows.
THEOREM TypeCorrect == Spec => []TypeOK
<1>1. IInv => TypeOK BY DEF IInv
<1> QED BY <1>1, Invariance, PTL

\* update_successor never panics.
THEOREM Panics == Spec => []NoPanic
<1>1. IInv => NoPanic BY DEF IInv
<1> QED BY <1>1, Invariance, PTL

\* Only the end block is left for the return instruction.
THEOREM Exit == Spec => []SingleExit
<1>1. IInv => SingleExit BY DEF IInv
<1> QED BY <1>1, Invariance, PTL

\* No two slots of a branch name the same block.
THEOREM Targets == Spec => []DistinctTargets
<1>1. IInv => DistinctTargets BY DEF IInv
<1> QED BY <1>1, Invariance, PTL

\* A block that keeps its condition parameter ends in the branch that reads it.
THEOREM Conditions == Spec => []ParamsEndInBranch
<1>1. IInv => ParamsEndInBranch BY DEF IInv
<1> QED BY <1>1, Invariance, PTL

\* Nothing ever branches to the entry block, which has the signature's parameters.
THEOREM EntryKept == Spec => []EntryHasNoPredecessor
<1>1. IInv => EntryHasNoPredecessor BY DEF IInv
<1> QED BY <1>1, Invariance, PTL

\* Every block is reachable from the entry block.
THEOREM Reachability == Spec => []AllReachable
<1>1. IInv => AllReachable BY DEF IInv
<1> QED BY <1>1, Invariance, PTL

\* No block is left without a way to the end block.
THEOREM WayOut == Spec => []AllReachEnd
<1>1. IInv => AllReachEnd BY DEF IInv
<1> QED BY <1>1, Invariance, PTL

\* What a terminator of the layout L looks like to the function generator.
LEMMA TerminatorOpcode ==
  ASSUME NEW L \in SUBSET Nat, NEW n \in Nat, NEW t, IsTerminator(t, L, n)
  PROVE  /\ DOMAIN t.dest \subseteq Nat
         /\ t.op = "none" <=> DOMAIN t.dest = {}
         /\ t.op = "jump" => DOMAIN t.dest = {0}
         /\ t.op = "brif" => DOMAIN t.dest = {0, 1}
         /\ t.op \in {"none", "jump", "brif", "br_table"}
         /\ t.op = "none" <=> t = NoTerm
<1>1. CASE t = NoTerm
  <2>1. t.op = "none" /\ t.dest = [i \in {} |-> 0] BY <1>1 DEF NoTerm
  <2>2. DOMAIN t.dest = {} BY <2>1
  <2> QED BY <1>1, <2>1, <2>2
<1>2. CASE \E b \in L : t = Jump(b)
  <2>1. t.op = "jump" /\ DOMAIN t.dest = 0..0 BY <1>2 DEF Jump
  <2> QED BY <2>1 DEF NoTerm
<1>3. CASE t.dest \in [0..1 -> L] /\ t = Brif(t.arg, t.dest)
  <2>1. t.op = "brif" /\ DOMAIN t.dest = 0..1 BY <1>3 DEF Brif
  <2> QED BY <2>1 DEF NoTerm
<1>4. CASE \E k \in CaseNums : t.dest \in [0..k -> L] /\ t = BrTable(t.arg, t.dest)
  <2>1. PICK k \in CaseNums : t.dest \in [0..k -> L] /\ t = BrTable(t.arg, t.dest)
    BY <1>4
  <2>2. t.op = "br_table" /\ DOMAIN t.dest = 0..k BY <2>1 DEF BrTable
  <2>3. k \in Nat BY BoundsAssumption
  <2> QED BY <2>2, <2>3 DEF NoTerm
<1> QED BY <1>1, <1>2, <1>3, <1>4 DEF IsTerminator

\* The skeleton cf_construct returns is one the function generator may be given:
\* it is all that module FunctionGenerator assumes of its skeletons.
THEOREM SkeletonKept == Spec => []SkeletonWellBuilt
<1>1. IInv => SkeletonWellBuilt
  <2> SUFFICES ASSUME IInv, status # "root"
               PROVE  Promise!WellBuilt([term |-> term, params |-> params])
    BY DEF SkeletonWellBuilt
  <2>1. /\ next \in Nat /\ layout \subseteq 0 .. (next - 1) /\ DOMAIN term = layout
        /\ params \subseteq layout /\ Entry \in layout /\ End \in layout
        /\ term[Entry].op = "jump"
    BY DEF IInv, TypeOK
  <2>2. layout \in SUBSET Nat BY <2>1
  <2>3. IsFiniteSet(layout)
    <3>1. IsFiniteSet(0 .. (next - 1)) BY <2>1, FS_Interval
    <3> QED BY <2>1, <3>1, FS_Subset, Zenon
  <2>4. Cardinality(layout) > 1
    <3>1. IsFiniteSet({Entry, End}) /\ Cardinality({Entry, End}) = 2
      <4>1. IsFiniteSet({Entry}) /\ Cardinality({Entry}) = 1 BY FS_Singleton
      <4>2. End \notin {Entry} BY DEF Entry, End
      <4>3. {Entry, End} = {Entry} \cup {End} OBVIOUS
      <4> QED BY <4>1, <4>2, <4>3, FS_AddElement
    <3>2. {Entry, End} \subseteq layout BY <2>1
    <3>3. Cardinality({Entry, End}) <= Cardinality(layout)
      BY <2>3, <3>2, FS_Subset
    <3>4. Cardinality(layout) \in Nat BY <2>3, FS_CardinalityType
    <3> QED BY <3>1, <3>3, <3>4
  <2>5. ASSUME NEW b \in layout
        PROVE  /\ DOMAIN term[b].dest \subseteq Nat
               /\ Dest(term[b]) \subseteq layout \ {Entry, b}
               /\ Distinct(term[b])
               /\ term[b].op = "none" <=> DOMAIN term[b].dest = {}
               /\ term[b].op = "jump" => DOMAIN term[b].dest = {0}
               /\ term[b].op = "brif" => DOMAIN term[b].dest = {0, 1}
               /\ term[b].op \in {"none", "jump", "brif", "br_table"}
               /\ b \in params => term[b].op \in {"brif", "br_table"}
               /\ term[b].op = "none" <=> b = End
    <3>1. IsTerminator(term[b], layout, next) BY DEF IInv, TypeOK
    <3>2. Dest(term[b]) \subseteq layout BY <2>1, <3>1, Slots, Zenon
    <3>3. Entry \notin Dest(term[b]) /\ b \notin Dest(term[b]) /\ Distinct(term[b])
      BY DEF IInv, EntryHasNoPredecessor, NoSelfLoop, DistinctTargets, Succ
    <3>4. b \in params => term[b].op \in {"brif", "br_table"}
      BY DEF IInv, ParamsEndInBranch
    <3>5. term[b] = NoTerm <=> b = End BY DEF IInv, SingleExit
    <3> QED BY <2>1, <2>2, <3>1, <3>2, <3>3, <3>4, <3>5, TerminatorOpcode, Zenon
  <2>6. ASSUME NEW S \in SUBSET layout, Entry \in S, \A b \in S : Dest(term[b]) \subseteq S
        PROVE  S = layout
    BY <2>6 DEF IInv, AllReachable, ClosedForward, Succ
  <2>7. \A t : Promise!Dest(t) = Dest(t) BY DEF Promise!Dest, Dest
  <2>8. Promise!Entry = Entry BY DEF Promise!Entry, Entry
  <2>9. /\ Promise!IsFiniteSet(layout)
        /\ Promise!Cardinality(layout) = Cardinality(layout)
    BY <2>3 DEF Promise!IsFiniteSet, Promise!Cardinality, IsFiniteSet, Cardinality
  <2> DEFINE skeleton == [term |-> term, params |-> params]
  <2>10. skeleton.term = term /\ skeleton.params = params OBVIOUS
  <2> HIDE DEF skeleton
  <2>11. \A b \in layout :
          LET t == skeleton.term[b]
          IN  /\ DOMAIN t.dest \subseteq Nat
              /\ Promise!Dest(t) \subseteq layout \ {Promise!Entry, b}
              /\ \A i, j \in DOMAIN t.dest : t.dest[i] = t.dest[j] => i = j
              /\ t.op = "none" <=> DOMAIN t.dest = {}
              /\ t.op = "jump" => DOMAIN t.dest = {0}
              /\ t.op = "brif" => DOMAIN t.dest = {0, 1}
              /\ t.op \in {"none", "jump", "brif", "br_table"}
              /\ b \in skeleton.params => t.op \in {"brif", "br_table"}
    BY <2>5, <2>7, <2>8, <2>10 DEF Distinct
  <2>12. \E e \in layout : \A b \in layout : skeleton.term[b].op = "none" <=> b = e
    BY <2>1, <2>5, <2>10
  <2>13. \A S \in SUBSET layout :
           Promise!Entry \in S /\ (\A b \in S : Promise!Dest(skeleton.term[b]) \subseteq S)
             => S = layout
    BY <2>6, <2>7, <2>8, <2>10
  <2>14. Promise!WellBuilt(skeleton)
    BY <2>1, <2>2, <2>4, <2>8, <2>9, <2>10, <2>11, <2>12, <2>13, Zenon DEF Promise!WellBuilt
  <2> QED BY <2>14 DEF skeleton
<1> QED BY <1>1, Invariance, PTL

\* update_successor hands the terminator of the replaced block on unchanged:
\* sorting its successors does not permute its slots.
THEOREM TerminatorKept == Spec => SpliceKeepsTerminator
<1> DEFINE A == status = "nested" =>
                  \E r \in layout \ layout', b \in layout' \ layout : term'[b] = term[r]
<1>1. IInv /\ [Next]_vars => [A]_vars
  <2> SUFFICES ASSUME IInv, ConstructNested
               PROVE  \E r \in layout \ layout', b \in layout' \ layout : term'[b] = term[r]
    BY DEF Next, ConstructRoot, Returned
  <2>1. status = "nested" BY DEF ConstructNested
  <2>2. PICK r \in parent.random, s \in Structures(next) :
          layout' = (layout \cup s.blocks) \ {r} /\ term' = Spliced(s, r)
    BY DEF ConstructNested
  <2>3. SpliceShape(s, r) BY <2>1, SpliceFacts
  <2>4. s.last \in s.blocks BY <2>3, Zenon DEF SpliceShape, WellBuilt, Terminated
  <2> QED BY <2>2, <2>3, <2>4, Zenon DEF SpliceShape
<1>2. Spec => [][A]_vars BY <1>1, Invariance, PTL DEF Spec
<1> QED BY <1>2 DEF SpliceKeepsTerminator

\* A nested call substitutes the new structure for one block: contracting the
\* new blocks to the old one gives back the old edges.
THEOREM Substitution == Spec => SpliceIsSubstitution
<1> DEFINE A == status = "nested" =>
                  \E r \in layout :
                    /\ layout \ layout' = {r}
                    /\ {<<Contract(r, e[1]), Contract(r, e[2])>> : e \in Edges'} \ {<<r, r>>}
                         = Edges
<1>1. IInv /\ [Next]_vars => [A]_vars
  <2> SUFFICES ASSUME IInv, ConstructNested PROVE A
    BY Zenon DEF Next, ConstructRoot, Returned
  <2>1. status = "nested" BY DEF ConstructNested
  <2>2. PICK r \in parent.random, s \in Structures(next) :
          layout' = (layout \cup s.blocks) \ {r} /\ term' = Spliced(s, r)
    BY DEF ConstructNested
  <2>3. SpliceShape(s, r) /\ SpliceEdgesShape(s, r) BY <2>1, SpliceFacts, SpliceEdges
  <2>4. /\ r \in layout /\ s.blocks \cap layout = {}
        /\ s.first \in s.blocks /\ s.last \in s.blocks
    BY <2>3, Zenon DEF SpliceShape, WellBuilt, Terminated
  <2>5. /\ \A b \in layout \ {r} :
             Dest(term'[b]) =
               IF r \in Succ(b) THEN (Succ(b) \ {r}) \cup {s.first} ELSE Succ(b)
        /\ \A b \in s.blocks \ {s.last} : Dest(term'[b]) \subseteq s.blocks
        /\ Dest(term'[s.last]) = Succ(r)
        /\ Succ(r) \subseteq layout \ {r}
    BY <2>2, <2>3, Zenon DEF SpliceEdgesShape
  <2>6. \A b \in layout : Succ(b) \subseteq layout /\ b \notin Succ(b)
    <3>1. next \in Nat /\ \A b \in layout : IsTerminator(term[b], layout, next)
      BY DEF IInv, TypeOK
    <3> QED BY <3>1, Slots, Zenon DEF Succ, IInv, NoSelfLoop
  <2>7. layout \ layout' = {r} BY <2>2, <2>4
  <2> DEFINE C == {<<Contract(r, e[1]), Contract(r, e[2])>> : e \in Edges'}
  <2>8. ASSUME NEW b \in layout', NEW c \in layout', c \in Dest(term'[b])
        PROVE  <<Contract(r, b), Contract(r, c)>> \in Edges \cup {<<r, r>>}
    <3>1. CASE b \in layout \ {r}
      BY <2>4, <2>5, <2>6, <2>8, <3>1, Zenon DEF Contract, Edges
    <3>2. CASE b = s.last BY <2>4, <2>5, <2>8, <3>2 DEF Contract, Edges
    <3>3. CASE b \in s.blocks \ {s.last} BY <2>4, <2>5, <2>8, <3>3 DEF Contract
    <3> QED BY <2>2, <3>1, <3>2, <3>3
  <2>9. ASSUME NEW b \in layout, NEW c \in layout, c \in Succ(b)
        PROVE  \E x, y \in layout' : /\ y \in Dest(term'[x])
                                     /\ b = Contract(r, x) /\ c = Contract(r, y)
    <3>1. CASE b = r
      <4>1. s.last \in layout' /\ c \in layout' /\ c \in Dest(term'[s.last])
        BY <2>2, <2>4, <2>5, <2>9, <3>1
      <4> QED BY <2>4, <3>1, <4>1 DEF Contract
    <3>2. CASE b # r /\ c = r
      <4>1. b \in layout' /\ s.first \in layout' /\ s.first \in Dest(term'[b])
        BY <2>2, <2>4, <2>5, <2>9, <3>2, Zenon
      <4> QED BY <2>4, <3>2, <4>1 DEF Contract
    <3>3. CASE b # r /\ c # r
      <4>1. b \in layout' /\ c \in layout' /\ c \in Dest(term'[b])
        BY <2>2, <2>4, <2>5, <2>9, <3>3, Zenon
      <4> QED BY <2>4, <3>3, <4>1 DEF Contract
    <3> QED BY <3>1, <3>2, <3>3
  <2>10. C \ {<<r, r>>} \subseteq Edges
    BY <2>8 DEF Edges, Succ
  <2>11. ASSUME NEW e \in Edges PROVE e \in C \ {<<r, r>>}
    <3>1. e[1] \in layout /\ e[2] \in layout /\ e[2] \in Succ(e[1]) /\ e = <<e[1], e[2]>>
      BY DEF Edges
    <3>2. PICK x \in layout', y \in layout' :
            y \in Dest(term'[x]) /\ e[1] = Contract(r, x) /\ e[2] = Contract(r, y)
      BY <2>9, <3>1
    <3>3. <<x, y>> \in Edges' BY <3>2 DEF Edges, Succ
    <3>4. e # <<r, r>> BY <2>6, <3>1
    <3> QED BY <3>1, <3>2, <3>3, <3>4
  <2>12. C \ {<<r, r>>} = Edges BY <2>10, <2>11
  <2> QED BY <2>4, <2>7, <2>12
<1>2. Spec => [][A]_vars BY <1>1, Invariance, PTL DEF Spec
<1> QED BY <1>2, PTL DEF SpliceIsSubstitution

============================================================================
