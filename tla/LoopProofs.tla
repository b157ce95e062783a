----------------------------- MODULE LoopProofs -----------------------------
(***************************************************************************)
(* Proofs about module FunctionGenerator, first part: lemmas about         *)
(* skeletons, dominators and sequences, what a step leaves alone, and that *)
(* the loops of function_generator preserve the inductive invariant: the   *)
(* depth-first search, the first loop, which fills the blocks with         *)
(* instructions, and the second one, which passes the parameters of the    *)
(* blocks along the edges.                                                 *)
(***************************************************************************)
EXTENDS FunctionGenerator, TLAPS

\* What is used of finite sets: the lemmas of this module suppose it, and module
\* FunctionGeneratorProofs proves it (SetFactsHold).
SetFacts ==
  /\ \A S : IsFiniteSet(S) => Cardinality(S) \in Nat
  /\ \A S, T : IsFiniteSet(S) /\ T \subseteq S => IsFiniteSet(T)
  /\ Cardinality({}) = 0
  /\ \A x : Cardinality({x}) = 1
  /\ \A S \in SUBSET Nat :
       IsFiniteSet(S) => Ascending(S) \in Seq(S) /\ Range(Ascending(S)) = S

----------------------------------------------------------------------------
(***************************************************************************)
(* Skeletons and dominators.                                               *)
(***************************************************************************)
\* What WellBuilt says of the skeleton at hand.
LEMMA SkeletonFacts ==
  ASSUME skel \in Skeletons
  PROVE  /\ Blocks \subseteq Nat /\ IsFiniteSet(Blocks) /\ Entry \in Blocks
         /\ skel.params \subseteq Blocks
         /\ \A b \in Blocks : Succ(b) \subseteq Blocks \ {Entry, b}
         /\ \A b \in skel.params : IsBranch(b)
         /\ ~IsBranch(Entry)
BY GeneratorAssumption, Zenon DEF WellBuilt, Blocks, Succ, IsBranch

\* The slots of a terminator: numbers, with a target of their own each.
LEMMA SlotFacts ==
  ASSUME skel \in Skeletons, NEW b \in Blocks
  PROVE  LET t == skel.term[b]
         IN  /\ DOMAIN t.dest \subseteq Nat
             /\ \A i, j \in DOMAIN t.dest : t.dest[i] = t.dest[j] => i = j
             /\ t.op = "none" <=> DOMAIN t.dest = {}
             /\ t.op = "jump" => DOMAIN t.dest = {0}
             /\ t.op = "brif" => DOMAIN t.dest = {0, 1}
             /\ t.op \in {"none", "jump", "brif", "br_table"}
BY GeneratorAssumption, Zenon DEF WellBuilt, Blocks

\* Everything is reached from the entry block.
LEMMA ReachFacts ==
  ASSUME skel \in Skeletons, NEW S \in SUBSET Blocks, Entry \in S,
         \A b \in S : Succ(b) \subseteq S
  PROVE  S = Blocks
BY GeneratorAssumption, Zenon DEF WellBuilt, Blocks, Succ

\* One block has no successor, and it is the only one.
LEMMA ExitFacts ==
  ASSUME skel \in Skeletons
  PROVE  \E e \in Blocks : \A b \in Blocks : Succ(b) = {} <=> b = e
<1>1. PICK e \in Blocks : \A b \in Blocks : skel.term[b].op = "none" <=> b = e
  BY GeneratorAssumption, Zenon DEF WellBuilt, Blocks
<1>2. ASSUME NEW b \in Blocks
      PROVE  Succ(b) = {} <=> skel.term[b].op = "none"
  <2>1. skel.term[b].op = "none" <=> DOMAIN skel.term[b].dest = {}
    BY SlotFacts, Zenon
  <2> QED
    BY <2>1, Zenon DEF Succ, Dest
<1> QED
  BY <1>1, <1>2, Zenon

\* The dominators of a block, by their definition.
LEMMA DominatorsAre ==
  ASSUME skel \in Skeletons, NEW n \in Blocks
  PROVE  Dominators(n) = {d \in Blocks : Dominates(skel, d, n)}
BY Zenon DEF Dominators, DominatorTable, Blocks

\* A block dominates itself.
LEMMA SelfDominates ==
  ASSUME skel \in Skeletons, NEW n \in Blocks
  PROVE  n \in Dominators(n)
<1> DEFINE S == Blocks \ {n}
<1>1. /\ S \in SUBSET (Blocks \ {n}) /\ n \notin S
      /\ Entry # n => Entry \in S
      /\ \A b \in S : Succ(b) \ {n} \subseteq S
  BY SkeletonFacts, Zenon
<1>2. Dominates(skel, n, n)
  BY <1>1, Zenon DEF Dominates, Blocks, Succ
<1> QED
  BY <1>2, DominatorsAre, Zenon

\* The entry block dominates every block.
LEMMA EntryDominates ==
  ASSUME skel \in Skeletons, NEW n \in Blocks
  PROVE  Entry \in Dominators(n)
<1>1. /\ {} \in SUBSET (DOMAIN skel.term \ {Entry}) /\ n \notin {}
      /\ \A b \in {} : Dest(skel.term[b]) \ {Entry} \subseteq {}
  BY Zenon
<1>2. Dominates(skel, Entry, n)
  BY <1>1, Zenon DEF Dominates
<1> QED
  BY <1>2, DominatorsAre, SkeletonFacts, Zenon

\* Nothing else dominates the entry block.
LEMMA EntryDominators ==
  ASSUME skel \in Skeletons
  PROVE  Dominators(Entry) = {Entry}
<1>1. \A d \in Blocks : Dominates(skel, d, Entry) => d = Entry
  BY Zenon DEF Dominates
<1> QED
  BY <1>1, EntryDominates, DominatorsAre, SkeletonFacts, Zenon

\* What strictly dominates a block dominates its predecessors.
LEMMA DominatesPred ==
  ASSUME skel \in Skeletons, NEW p \in Blocks, NEW n \in Succ(p),
         NEW d \in Dominators(n), d # n
  PROVE  d \in Dominators(p)
<1>1. n \in Blocks /\ d \in Blocks /\ Dominates(skel, d, n)
  BY SkeletonFacts, DominatorsAre, Zenon
<1>2. PICK S \in SUBSET (Blocks \ {d}) :
        /\ n \notin S
        /\ Entry # d => Entry \in S
        /\ \A b \in S : Succ(b) \ {d} \subseteq S
  BY <1>1, Zenon DEF Dominates, Blocks, Succ
<1>3. p \notin S
  BY <1>1, <1>2, Zenon
<1>4. Dominates(skel, d, p)
  BY <1>2, <1>3, Zenon DEF Dominates, Blocks, Succ
<1> QED
  BY <1>1, <1>4, DominatorsAre, Zenon

\* Dominators are blocks.
LEMMA DominatorsInBlocks ==
  ASSUME skel \in Skeletons, NEW n \in Blocks
  PROVE  Dominators(n) \subseteq Blocks
BY DominatorsAre, Zenon

\* The positions of a sequence, and its elements.
LEMMA SeqFacts ==
  ASSUME NEW S, NEW s \in Seq(S)
  PROVE  /\ Len(s) \in Nat /\ DOMAIN s = 1 .. Len(s) /\ s \in [1 .. Len(s) -> S]
         /\ \A i \in 1 .. Len(s) : s[i] \in S
         /\ s # <<>> => Len(s) \in Nat \ {0}
         /\ s = <<>> => Len(s) = 0
OBVIOUS

\* The elements of two sequences, one after the other.
LEMMA ConcatRange ==
  ASSUME NEW S, NEW s \in Seq(S), NEW t \in Seq(S)
  PROVE  s \o t \in Seq(S) /\ Range(s \o t) = Range(s) \cup Range(t)
<1>1. /\ Len(s) \in Nat /\ Len(t) \in Nat /\ s \o t \in Seq(S)
      /\ DOMAIN s = 1 .. Len(s) /\ DOMAIN t = 1 .. Len(t)
      /\ DOMAIN (s \o t) = 1 .. (Len(s) + Len(t))
      /\ \A i \in 1 .. Len(s) : (s \o t)[i] = s[i]
      /\ \A i \in 1 .. Len(t) : (s \o t)[i + Len(s)] = t[i]
  OBVIOUS
<1>2. ASSUME NEW i \in DOMAIN (s \o t) PROVE (s \o t)[i] \in Range(s) \cup Range(t)
  <2>1. CASE i \in 1 .. Len(s)
    BY <1>1, <2>1, Zenon DEF Range
  <2>2. CASE i \notin 1 .. Len(s)
    <3>1. i - Len(s) \in 1 .. Len(t) /\ (i - Len(s)) + Len(s) = i
      BY <1>1, <2>2
    <3>2. (s \o t)[i] = t[i - Len(s)]
      BY <1>1, <3>1, Zenon
    <3> QED
      BY <1>1, <3>1, <3>2, Zenon DEF Range
  <2> QED
    BY <2>1, <2>2, Zenon
<1>3. \A i \in 1 .. Len(s) : i \in DOMAIN (s \o t)
  BY <1>1
<1>4. \A i \in 1 .. Len(t) : i + Len(s) \in DOMAIN (s \o t)
  BY <1>1
<1>5. Range(s) \subseteq Range(s \o t)
  BY <1>1, <1>3, Zenon DEF Range
<1>6. Range(t) \subseteq Range(s \o t)
  BY <1>1, <1>4, Zenon DEF Range
<1>7. Range(s \o t) \subseteq Range(s) \cup Range(t)
  BY <1>2, Zenon DEF Range
<1> QED
  BY <1>1, <1>5, <1>6, <1>7, Zenon

----------------------------------------------------------------------------
(***************************************************************************)
(* Sequences.                                                              *)
(***************************************************************************)
\* The elements of a sequence that grows at its end.
LEMMA AppendRange ==
  ASSUME NEW S, NEW s \in Seq(S), NEW e \in S
  PROVE  /\ Append(s, e) \in Seq(S) /\ Append(s, e) # <<>>
         /\ Len(Append(s, e)) = Len(s) + 1
         /\ DOMAIN Append(s, e) = 1 .. (Len(s) + 1)
         /\ \A i \in 1 .. Len(s) : Append(s, e)[i] = s[i]
         /\ Append(s, e)[Len(s) + 1] = e
         /\ Range(Append(s, e)) = Range(s) \cup {e}
<1>1. Len(s) \in Nat /\ DOMAIN s = 1 .. Len(s)
  BY SeqFacts, Zenon
<1>2. /\ Append(s, e) \in Seq(S) /\ Append(s, e) # <<>>
      /\ Len(Append(s, e)) = Len(s) + 1
      /\ \A i \in 1 .. Len(s) : Append(s, e)[i] = s[i]
      /\ Append(s, e)[Len(s) + 1] = e
  OBVIOUS
<1>3. DOMAIN Append(s, e) = 1 .. (Len(s) + 1)
  BY <1>2, SeqFacts, Zenon
<1>4. Range(Append(s, e)) = Range(s) \cup {e}
  <2> DEFINE t == Append(s, e)
  <2>1. ASSUME NEW x \in Range(t) PROVE x \in Range(s) \cup {e}
    BY <1>1, <1>2, <1>3, <2>1 DEF Range
  <2>2. ASSUME NEW x \in Range(s) PROVE x \in Range(t)
    BY <1>1, <1>2, <1>3, <2>2 DEF Range
  <2>3. e \in Range(t)
    BY <1>1, <1>2, <1>3 DEF Range
  <2> QED
    BY <2>1, <2>2, <2>3, Zenon
<1> QED
  BY <1>2, <1>3, <1>4, Zenon

\* The elements of a sequence that loses its first one.
LEMMA TailRange ==
  ASSUME NEW S, NEW s \in Seq(S), s # <<>>
  PROVE  /\ Head(s) \in S /\ Tail(s) \in Seq(S)
         /\ Range(s) = {Head(s)} \cup Range(Tail(s))
<1>1. Len(s) \in Nat \ {0} /\ DOMAIN s = 1 .. Len(s)
  BY SeqFacts, Zenon
<1>2. /\ Head(s) \in S /\ Tail(s) \in Seq(S)
      /\ Len(Tail(s)) = Len(s) - 1
      /\ \A i \in 1 .. Len(Tail(s)) : Tail(s)[i] = s[i + 1]
  OBVIOUS
<1>3. DOMAIN Tail(s) = 1 .. (Len(s) - 1) /\ Head(s) = s[1]
  BY <1>2, SeqFacts
<1>4. ASSUME NEW x \in Range(s) PROVE x \in {Head(s)} \cup Range(Tail(s))
  <2>1. PICK i \in 1 .. Len(s) : x = s[i]
    BY <1>1, Zenon DEF Range
  <2>2. CASE i = 1
    BY <1>3, <2>1, <2>2, Zenon
  <2>3. CASE i # 1
    <3>1. i - 1 \in 1 .. (Len(s) - 1) /\ (i - 1) + 1 = i
      BY <1>1, <2>1, <2>3
    <3>2. x = Tail(s)[i - 1]
      BY <1>2, <2>1, <3>1, Zenon
    <3> QED
      BY <1>3, <3>1, <3>2, Zenon DEF Range
  <2> QED
    BY <2>2, <2>3, Zenon
<1>5. ASSUME NEW x \in {Head(s)} \cup Range(Tail(s)) PROVE x \in Range(s)
  <2>1. CASE x = Head(s)
    BY <1>1, <1>3, <2>1 DEF Range
  <2>2. CASE x \in Range(Tail(s))
    <3>1. PICK i \in 1 .. (Len(s) - 1) : x = Tail(s)[i]
      BY <1>3, <2>2, Zenon DEF Range
    <3>2. x = s[i + 1] /\ i + 1 \in 1 .. Len(s)
      BY <1>1, <1>2, <3>1
    <3> QED
      BY <1>1, <3>2, Zenon DEF Range
  <2> QED
    BY <1>5, <2>1, <2>2, Zenon
<1> QED
  BY <1>2, <1>4, <1>5, Zenon

----------------------------------------------------------------------------
(***************************************************************************)
(* What a step that changes only some variables leaves alone.              *)
(***************************************************************************)
\* The notions that depend on the skeleton alone.
LEMMA SkelStays ==
  ASSUME skel' = skel
  PROVE  /\ Blocks' = Blocks /\ Callees' = Callees /\ Values' = Values
         /\ \A b : /\ Succ(b)' = Succ(b) /\ Dominators(b)' = Dominators(b)
                   /\ IsBranch(b)' = IsBranch(b) /\ Pred(b)' = Pred(b)
         /\ CallSites' = CallSites
<1>1. Blocks' = Blocks /\ Callees' = Callees
  BY Zenon DEF Blocks, Callees
<1>2. \A b : /\ Succ(b)' = Succ(b) /\ Dominators(b)' = Dominators(b)
             /\ IsBranch(b)' = IsBranch(b)
  BY Zenon DEF Succ, Dominators, IsBranch
<1> QED
  BY <1>1, <1>2, Zenon DEF Values, Pred, CallSites

\* A value that still exists is available where it was.
LEMMA AvailableStays ==
  ASSUME skel' = skel, NEW v, NEW b, Exists(v) => Exists(v)'
  PROVE  /\ Available(v, b) => Available(v, b)'
         /\ AvailableEarly(v, b) => AvailableEarly(v, b)'
BY SkelStays, Zenon DEF Available, AvailableEarly

\* What it takes for a value to be available after a step.
LEMMA AvailableNext ==
  ASSUME skel' = skel
  PROVE  \A v, b :
           v.block \in Dominators(b) /\ Exists(v)' =>
             /\ (v.block = b => v.kind # "call") => Available(v, b)'
             /\ (v.block = b => v.kind \notin {"call", "inst"}) => AvailableEarly(v, b)'
BY SkelStays, Zenon DEF Available, AvailableEarly

\* Nothing stops existing when parameters and results stay.
LEMMA ExistsStays ==
  ASSUME UNCHANGED <<bparams, made>>
  PROVE  \A v : Exists(v)' = Exists(v)
BY Zenon DEF Exists

\* SSA of the code as it is.
LEMMA CodeStays ==
  ASSUME UNCHANGED <<skel, bparams, uses, made, args, ret, calls>>, DefsDominateUses
  PROVE  DefsDominateUses'
<1>1. \A v, b : /\ Available(v, b) => Available(v, b)'
                /\ AvailableEarly(v, b) => AvailableEarly(v, b)'
  BY AvailableStays, ExistsStays, Zenon
<1>2. Blocks' = Blocks
  BY SkelStays, Zenon
<1> QED
  BY <1>1, <1>2, Zenon DEF DefsDominateUses

\* The table as it is.
LEMMA TableStays ==
  ASSUME UNCHANGED <<defs, bparams, made>>, TableIsCurrent
  PROVE  TableIsCurrent'
BY ExistsStays, Zenon DEF TableIsCurrent

\* The list as it is, once it is complete.
LEMMA ListingStays ==
  ASSUME UNCHANGED <<skel, todo, order>>, pc # "dfs", pc' # "dfs", Listing
  PROVE  Listing'
BY SkelStays DEF Listing

\* The edges as they are.
LEMMA EdgesStay ==
  ASSUME UNCHANGED <<skel, args, bparams>>, EdgesMatchParams,
         pc' \in {"params", "return", "calls", "done"} =>
           pc \in {"params", "return", "calls", "done"}
  PROVE  EdgesMatchParams'
BY SkelStays DEF EdgesMatchParams, TypesOf

\* The return and the calls as they are.
LEMMA SignaturesStay ==
  ASSUME UNCHANGED <<skel, ret, calls>>, SignaturesKept,
         pc' \in {"calls", "done"} => pc \in {"calls", "done"}
  PROVE  SignaturesKept'
BY SkelStays DEF SignaturesKept

\* What the blocks read.
LEMMA ReadableStays ==
  ASSUME UNCHANGED <<skel, defs, bparams, uses, made, cond>>, Readable
  PROVE  Readable'
<1>1. \A v, b : Available(v, b) => Available(v, b)'
  BY AvailableStays, ExistsStays, Zenon
<1> QED
  BY <1>1, SkelStays, Zenon DEF Readable

\* The types, when only the list, the position and the phase change.
LEMMA TypesStay ==
  ASSUME UNCHANGED <<skel, defs, refs, bparams, uses, made, cond, args, ret, calls>>,
         TypeOK, todo' \in Seq(Blocks), order' \in Seq(Blocks), idx' \in Nat \ {0},
         pc' \in {"dfs", "populate", "params", "return", "calls", "done", "panic"}
  PROVE  TypeOK'
BY SkelStays, Zenon DEF TypeOK

----------------------------------------------------------------------------
(***************************************************************************)
(* The steps.                                                              *)
(***************************************************************************)
\* The state cf_construct leaves satisfies the invariant.
LEMMA InitInv == Init => IInv
<1> SUFFICES ASSUME Init PROVE IInv
  BY Zenon
<1>1. skel \in Skeletons /\ Blocks \subseteq Nat /\ Entry \in Blocks
  BY SkeletonFacts, Zenon DEF Init
<1>2. \A b \in skel.params : b \in Blocks
  BY <1>1, SkeletonFacts, Zenon
<1>3. "i32" \in Types /\ Callees \in Seq([params : SUBSET OperandTypes, returns : SUBSET Types])
  BY <1>1, GeneratorAssumption, Zenon DEF Callees
<1>4. TypeOK
  <2>1. \A b \in Blocks : Value(b, "i32", "cond") \in Values
    BY <1>3, SeqFacts DEF Value, Values
  <2>2. bparams \in [Blocks -> Seq(Values)]
    BY <2>1 DEF Init
  <2>3. uses \in [Blocks -> SUBSET Values] /\ made \in [Blocks -> SUBSET Values]
    BY Zenon DEF Init
  <2>4. DOMAIN cond = Blocks /\ \A b \in Blocks : IsBranch(b) => cond[b].type = "i32"
    BY Zenon DEF Init, Value
  <2>5. /\ DOMAIN args = Blocks
        /\ \A b \in Blocks : args[b] \in [DOMAIN skel.term[b].dest -> Seq(Values)]
    BY DEF Init
  <2>6. /\ todo \in Seq(Blocks) /\ order \in Seq(Blocks) /\ idx \in Nat \ {0}
        /\ DOMAIN defs = {} /\ DOMAIN refs = {} /\ ret = {} /\ calls = <<>> /\ pc = "dfs"
    BY <1>1 DEF Init
  <2>7. /\ DOMAIN defs \subseteq Blocks /\ \A b \in DOMAIN defs : defs[b] \subseteq Values
        /\ DOMAIN refs = DOMAIN defs /\ \A b \in DOMAIN refs : refs[b] \subseteq Types
    BY <2>6, Zenon
  <2>8. /\ ret \subseteq [block : Blocks, values : SUBSET Values]
        /\ calls \in Seq([block : Blocks, args : SUBSET Values])
        /\ pc \in {"dfs", "populate", "params", "return", "calls", "done", "panic"}
    BY <2>6
  <2> QED
    BY <1>1, <2>2, <2>3, <2>4, <2>5, <2>6, <2>7, <2>8, Zenon DEF TypeOK
<1>5. NoPanic
  BY Zenon DEF Init, NoPanic
<1>6. Listing
  BY DEF Init, Listing, Range
<1>7. Position
  BY Zenon DEF Init, Position
<1>8. DOMAIN defs = {}
  BY Zenon DEF Init
<1>9. Tables
  BY <1>8, Zenon DEF Init, Tables, Populated
<1>10. Readable
  BY <1>8, Zenon DEF Init, Readable
<1>11. Parameters
  BY <1>8, Zenon DEF Init, Parameters
<1>12. DefsDominateUses
  <2>1. \A b \in Blocks : uses[b] = {}
    BY Zenon DEF Init
  <2>2. \A b \in Blocks : \A i \in DOMAIN args[b] : Range(args[b][i]) = {}
    BY DEF Init, Range
  <2>3. ret = {} /\ Range(calls) = {}
    BY DEF Init, Range
  <2> QED
    BY <2>1, <2>2, <2>3, Zenon DEF DefsDominateUses
<1>13. EdgesMatchParams
  BY Zenon DEF Init, EdgesMatchParams
<1>14. TableIsCurrent
  BY <1>8, Zenon DEF TableIsCurrent
<1>15. SignaturesKept
  BY DEF Init, SignaturesKept
<1> QED
  BY <1>4, <1>5, <1>6, <1>7, <1>9, <1>10, <1>11, <1>12, <1>13, <1>14, <1>15, Zenon DEF IInv

\* The list while dfs goes on: the head of todo is passed over, or joins the list
\* after the blocks that dominate it.
LEMMA DfsListing ==
  ASSUME SetFacts, IInv, Dfs
  PROVE  /\ todo' \in Seq(Blocks) /\ order' \in Seq(Blocks)
         /\ pc' \in {"dfs", "populate"}
         /\ Listing'
<1>1. /\ skel \in Skeletons /\ todo \in Seq(Blocks) /\ order \in Seq(Blocks)
      /\ pc = "dfs" /\ skel' = skel /\ Listing
  BY Zenon DEF IInv, TypeOK, Dfs
<1>2. /\ Len(order) \in Nat /\ DOMAIN order = 1 .. Len(order)
      /\ \A i \in DOMAIN order : order[i] \in Blocks
      /\ Range(order) \subseteq Blocks
      /\ order = <<>> <=> Len(order) = 0
  BY <1>1, SeqFacts DEF Range
<1>3. /\ Blocks' = Blocks
      /\ \A b : Succ(b)' = Succ(b) /\ Dominators(b)' = Dominators(b)
  BY <1>1, SkelStays, Zenon
<1>4. CASE todo = <<>>
  <2>1. UNCHANGED <<todo, order>> /\ pc' = "populate"
    BY <1>4, Zenon DEF Dfs
  <2>2. Range(todo) = {}
    BY <1>4 DEF Range
  <2>3. order # <<>> /\ order[1] = Entry /\ Entry \in Range(order)
    <3>1. order # <<>> /\ order[1] = Entry
      BY <1>1, <1>4, Zenon DEF Listing
    <3> QED
      BY <1>2, <3>1 DEF Range
  <2>4. Range(order) = Blocks
    <3>1. \A b \in Range(order) : Succ(b) \subseteq Range(order)
      BY <1>1, <2>2, Zenon DEF Listing
    <3> QED
      BY <1>1, <1>2, <2>3, <3>1, ReachFacts, Zenon
  <2> QED
    BY <1>1, <1>3, <2>1, <2>3, <2>4 DEF Listing
<1> DEFINE n == Head(todo)
<1>5. ASSUME todo # <<>>
      PROVE  /\ n \in Blocks /\ Tail(todo) \in Seq(Blocks)
             /\ Range(todo) = {n} \cup Range(Tail(todo)) /\ pc' = "dfs"
  BY <1>1, <1>5, TailRange, Zenon DEF Dfs
<1>6. CASE todo # <<>> /\ n \in Range(order)
  <2>1. todo' = Tail(todo) /\ order' = order
    BY <1>6, Zenon DEF Dfs
  <2>2. order # <<>> /\ order[1] = Entry
    BY <1>1, <1>2, <1>6 DEF Listing, Range
  <2>3. Range(todo') \subseteq Range(todo)
    BY <1>5, <1>6, <2>1, Zenon
  <2>4. \A b \in Range(order) : Succ(b) \subseteq Range(order) \cup Range(todo')
    BY <1>1, <1>5, <1>6, <2>1, Zenon DEF Listing
  <2>5. \A m \in Range(todo') : m = Entry \/ \E p \in Range(order) : m \in Succ(p)
    BY <1>1, <2>3, Zenon DEF Listing
  <2> QED
    BY <1>1, <1>3, <1>5, <1>6, <2>1, <2>2, <2>4, <2>5 DEF Listing
<1>7. CASE todo # <<>> /\ n \notin Range(order)
  <2> DEFINE L == Len(order) + 1
  <2>1. order' = Append(order, n) /\ todo' = Ascending(Succ(n)) \o Tail(todo)
    BY <1>7, Zenon DEF Dfs
  <2>2. /\ n \in Blocks /\ Tail(todo) \in Seq(Blocks) /\ pc' = "dfs"
        /\ Range(todo) = {n} \cup Range(Tail(todo))
    BY <1>5, <1>7, Zenon
  <2>3. /\ order' \in Seq(Blocks) /\ order' # <<>> /\ DOMAIN order' = 1 .. L
        /\ \A i \in 1 .. Len(order) : order'[i] = order[i]
        /\ order'[L] = n
        /\ Range(order') = Range(order) \cup {n}
    BY <1>1, <2>1, <2>2, AppendRange
  <2>4. todo' \in Seq(Blocks) /\ Range(todo') = Succ(n) \cup Range(Tail(todo))
    <3>1. Succ(n) \subseteq Blocks /\ Succ(n) \in SUBSET Nat /\ IsFiniteSet(Succ(n))
      BY <1>1, <2>2, SkeletonFacts, Zenon DEF SetFacts
    <3>2. Ascending(Succ(n)) \in Seq(Succ(n)) /\ Range(Ascending(Succ(n))) = Succ(n)
      BY <3>1, Zenon DEF SetFacts
    <3>3. Ascending(Succ(n)) \in Seq(Blocks)
      BY <3>1, <3>2
    <3> DEFINE A == Ascending(Succ(n))
               T == Tail(todo)
    <3>4. A \in Seq(Blocks) /\ T \in Seq(Blocks) /\ todo' = A \o T
      BY <2>1, <2>2, <3>3, Zenon
    <3> HIDE DEF A, T
    <3>5. A \o T \in Seq(Blocks) /\ Range(A \o T) = Range(A) \cup Range(T)
      BY <3>4, ConcatRange
    <3> QED
      BY <3>2, <3>4, <3>5, Zenon DEF A, T
  <2> HIDE DEF n
  <2>5. \A i, j \in DOMAIN order' : order'[i] = order'[j] => i = j
    <3>1. \A i \in 1 .. Len(order) : order[i] # n
      BY <1>2, <1>7, Zenon DEF Range
    <3>2. \A i \in DOMAIN order' : i \in 1 .. Len(order) \/ i = L
      BY <1>2, <2>3
    <3>3. \A i, j \in 1 .. Len(order) : order[i] = order[j] => i = j
      BY <1>1, <1>2, Zenon DEF Listing
    <3> QED
      BY <2>3, <3>1, <3>2, <3>3, Zenon
  <2>6. n = Entry \/ \E p \in Range(order) : n \in Succ(p)
    BY <1>1, <2>2, Zenon DEF Listing
  <2>7. order'[1] = Entry
    <3>1. CASE order = <<>>
      <4>1. n = Entry
        BY <1>1, <3>1 DEF Listing, n
      <4> QED
        BY <1>2, <2>3, <3>1, <4>1
    <3>2. CASE order # <<>>
      BY <1>1, <1>2, <2>3, <3>2 DEF Listing
    <3> QED
      BY <3>1, <3>2, Zenon
  <2>8. \A m \in Range(todo') : m = Entry \/ \E p \in Range(order') : m \in Succ(p)
    <3>1. \A m \in Range(Tail(todo)) : m = Entry \/ \E p \in Range(order) : m \in Succ(p)
      BY <1>1, <2>2, Zenon DEF Listing
    <3> QED
      BY <2>3, <2>4, <3>1, Zenon
  <2>9. \A b \in Range(order') : Succ(b) \subseteq Range(order') \cup Range(todo')
    <3>1. \A b \in Range(order) : Succ(b) \subseteq Range(order) \cup Range(todo)
      BY <1>1, Zenon DEF Listing
    <3> QED
      BY <2>2, <2>3, <2>4, <3>1, Zenon
  <2>10. \A i \in DOMAIN order' : \A d \in Dominators(order'[i]) : \E j \in 1 .. i : order'[j] = d
    <3>1. \A i \in 1 .. Len(order) : \A d \in Dominators(order[i]) :
            \E j \in 1 .. i : order[j] = d
      BY <1>1, <1>2, Zenon DEF Listing
    <3>2. ASSUME NEW i \in 1 .. Len(order), NEW d \in Dominators(order'[i])
          PROVE  \E j \in 1 .. i : order'[j] = d
      <4>1. PICK j \in 1 .. i : order[j] = d
        BY <2>3, <3>1, Zenon
      <4>2. j \in 1 .. Len(order)
        BY <1>2
      <4> QED
        BY <2>3, <4>1, <4>2, Zenon
    <3>3. ASSUME NEW d \in Dominators(n)
          PROVE  \E j \in 1 .. L : order'[j] = d
      <4>1. CASE d = n
        BY <1>2, <2>3, <4>1
      <4>2. CASE d # n
        <5>1. n # Entry
          BY <1>1, <3>3, <4>2, EntryDominators, Zenon
        <5>2. PICK p \in Range(order) : n \in Succ(p)
          BY <2>6, <5>1, Zenon
        <5>3. d \in Dominators(p)
          BY <1>1, <1>2, <3>3, <4>2, <5>2, DominatesPred, Zenon
        <5>4. PICK k \in 1 .. Len(order) : order[k] = p
          BY <1>2, <5>2, Zenon DEF Range
        <5>5. PICK j \in 1 .. k : order[j] = d
          BY <3>1, <5>3, <5>4, Zenon
        <5>6. j \in 1 .. Len(order) /\ j \in 1 .. L
          BY <1>2, <5>4, <5>5
        <5> QED
          BY <2>3, <5>5, <5>6, Zenon
      <4> QED
        BY <4>1, <4>2, Zenon
    <3>4. \A i \in DOMAIN order' : i \in 1 .. Len(order) \/ i = L
      BY <1>2, <2>3
    <3> QED
      BY <2>3, <3>2, <3>3, <3>4, Zenon
  <2> QED
    BY <1>3, <2>2, <2>3, <2>4, <2>5, <2>7, <2>8, <2>9, <2>10, Zenon DEF Listing
<1> QED
  BY <1>4, <1>6, <1>7, Zenon

\* A call of dfs keeps the invariant.
LEMMA DfsInv ==
  ASSUME SetFacts, IInv, Dfs
  PROVE  IInv'
<1>1. /\ UNCHANGED <<skel, idx, defs, refs, bparams, uses, made, cond, args, ret, calls>>
      /\ pc = "dfs"
  BY Zenon DEF Dfs
<1>2. /\ todo' \in Seq(Blocks) /\ order' \in Seq(Blocks)
      /\ pc' \in {"dfs", "populate"} /\ Listing'
  BY DfsListing, Zenon
<1>3. DOMAIN defs = {} /\ idx = 1 /\ ret = {} /\ calls = <<>>
  BY <1>1, Zenon DEF IInv, Tables, Populated, Position
<1>4. TypeOK'
  BY <1>1, <1>2, TypesStay, Zenon DEF IInv, TypeOK
<1>5. NoPanic'
  BY <1>2, Zenon DEF NoPanic
<1>6. Position'
  <2>1. Len(order') \in Nat
    BY <1>2, SeqFacts, Zenon
  <2> QED
    BY <1>1, <1>2, <1>3, <2>1 DEF Position
<1>7. Tables'
  <2>1. DOMAIN defs' = {} /\ Populated' = {}
    BY <1>1, <1>2, <1>3 DEF Populated
  <2> QED
    BY <2>1, Zenon DEF Tables
<1>8. Readable'
  BY <1>1, ReadableStays, Zenon DEF IInv
<1>9. Parameters'
  BY <1>1, <1>2, <1>3, SkelStays, Zenon DEF IInv, Parameters, Value
<1>10. DefsDominateUses' /\ TableIsCurrent'
  BY <1>1, CodeStays, TableStays, Zenon DEF IInv
<1>11. EdgesMatchParams'
  BY <1>2, Zenon DEF EdgesMatchParams
<1>12. SignaturesKept'
  BY <1>1, <1>2, SignaturesStay, Zenon DEF IInv
<1> QED
  BY <1>2, <1>4, <1>5, <1>6, <1>7, <1>8, <1>9, <1>10, <1>11, <1>12, Zenon DEF IInv

\* What IInv says of the list and of the table once dfs has returned.
LEMMA OrderFacts ==
  ASSUME IInv, pc # "dfs"
  PROVE  /\ skel \in Skeletons /\ order \in Seq(Blocks)
         /\ Len(order) \in Nat \ {0} /\ DOMAIN order = 1 .. Len(order)
         /\ \A i \in 1 .. Len(order) : order[i] \in Blocks
         /\ \A i, j \in 1 .. Len(order) : order[i] = order[j] => i = j
         /\ order[1] = Entry /\ idx \in Nat \ {0}
         /\ \A b \in Blocks : \E i \in 1 .. Len(order) : order[i] = b
         /\ DOMAIN defs = Populated
<1>1. /\ skel \in Skeletons /\ order \in Seq(Blocks) /\ idx \in Nat \ {0}
      /\ DOMAIN defs = Populated
  BY Zenon DEF IInv, TypeOK, Tables
<1>2. /\ order # <<>> /\ order[1] = Entry /\ Range(order) = Blocks
      /\ \A i, j \in DOMAIN order : order[i] = order[j] => i = j
  BY Zenon DEF IInv, Listing
<1>3. Len(order) \in Nat \ {0} /\ DOMAIN order = 1 .. Len(order)
  BY <1>1, <1>2, SeqFacts, Zenon
<1> QED
  BY <1>1, <1>2, <1>3, Zenon DEF Range

\* The first loop has populated every block; the second has come to every block.
LEMMA EndLoopInv ==
  ASSUME IInv, EndLoop
  PROVE  IInv'
<1>1. /\ UNCHANGED <<skel, todo, order, defs, refs, bparams, uses, made, cond, args,
                     ret, calls>>
      /\ pc \in {"populate", "params"} /\ idx > Len(order) /\ idx' = 1
      /\ pc' = IF pc = "populate" THEN "params" ELSE "return"
  BY Zenon DEF EndLoop
<1>2. /\ skel \in Skeletons /\ order \in Seq(Blocks)
      /\ Len(order) \in Nat \ {0} /\ DOMAIN order = 1 .. Len(order)
      /\ \A i \in 1 .. Len(order) : order[i] \in Blocks
      /\ \A b \in Blocks : \E i \in 1 .. Len(order) : order[i] = b
      /\ DOMAIN defs = Populated
  BY <1>1, OrderFacts, Zenon
<1>3. idx = Len(order) + 1 /\ ret = {} /\ calls = <<>>
  BY <1>1, <1>2, OrderFacts DEF IInv, Position
<1>4. DOMAIN defs = Blocks
  <2>1. CASE pc = "populate"
    <3>1. Populated = {order[i] : i \in 1 .. Len(order)}
      BY <1>2, <1>3, <2>1 DEF Populated
    <3> QED
      BY <1>2, <3>1
  <2>2. CASE pc = "params"
    BY <1>2, <2>2, Zenon DEF Populated
  <2> QED
    BY <1>1, <2>1, <2>2, Zenon
<1>5. TypeOK'
  <2>1. TypeOK
    BY Zenon DEF IInv
  <2>2. /\ todo' \in Seq(Blocks) /\ order' \in Seq(Blocks) /\ idx' \in Nat \ {0}
        /\ pc' \in {"dfs", "populate", "params", "return", "calls", "done", "panic"}
    BY <1>1, <2>1 DEF TypeOK
  <2> QED
    BY <1>1, <2>1, <2>2, TypesStay, Zenon
<1>6. NoPanic'
  BY <1>1, Zenon DEF NoPanic
<1>7. Listing'
  BY <1>1, ListingStays, Zenon DEF IInv
<1>8. Position'
  BY <1>1, <1>2, <1>3 DEF Position
<1>9. Tables'
  <2>1. Populated' = Blocks /\ \A b : Dominators(b)' = Dominators(b)
    BY <1>1, SkelStays, Zenon DEF Populated
  <2> QED
    BY <1>1, <1>4, <2>1 DEF IInv, Tables
<1>10. Readable'
  BY <1>1, ReadableStays, Zenon DEF IInv
<1>11. Parameters'
  <2>1. Blocks' = Blocks
    BY <1>1, SkelStays, Zenon
  <2>2. pc = "populate" => \A b \in Blocks \ {Entry} : bparams[b] = <<>>
    BY <1>4, Zenon DEF IInv, Parameters
  <2> QED
    BY <1>1, <1>2, <1>4, <2>1, <2>2, Zenon DEF Parameters
<1>12. DefsDominateUses' /\ TableIsCurrent'
  BY <1>1, CodeStays, TableStays, Zenon DEF IInv
<1>13. EdgesMatchParams'
  <2>1. CASE pc = "populate"
    <3>1. ASSUME NEW b \in Blocks, NEW i \in DOMAIN args[b]
          PROVE  args[b][i] = <<>> /\ bparams[skel.term[b].dest[i]] = <<>>
      <4>1. args[b][i] = <<>> /\ i \in DOMAIN skel.term[b].dest
        BY <2>1, Zenon DEF IInv, Parameters, TypeOK
      <4>2. skel.term[b].dest[i] \in Blocks \ {Entry}
        BY <1>2, <4>1, SkeletonFacts DEF Succ, Dest
      <4> QED
        BY <1>4, <2>1, <4>1, <4>2, Zenon DEF IInv, Parameters
    <3> QED
      BY <1>1, <3>1, SkelStays, Zenon DEF EdgesMatchParams
  <2>2. CASE pc = "params"
    BY <1>1, <2>2, EdgesStay, Zenon DEF IInv
  <2> QED
    BY <1>1, <2>1, <2>2, Zenon
<1>14. SignaturesKept'
  BY <1>1, SignaturesStay, Zenon DEF IInv
<1> QED
  BY <1>5, <1>6, <1>7, <1>8, <1>9, <1>10, <1>11, <1>12, <1>13, <1>14, Zenon DEF IInv

\* A block with fewer than two predecessors is left alone.
LEMMA SkipParamsInv ==
  ASSUME IInv, SkipParams
  PROVE  IInv'
<1>1. /\ UNCHANGED <<skel, todo, order, defs, refs, bparams, uses, made, cond, args,
                     ret, calls, pc>>
      /\ pc = "params" /\ idx <= Len(order) /\ idx' = idx + 1
  BY Zenon DEF SkipParams
<1>2. Len(order) \in Nat /\ idx \in Nat \ {0} /\ DOMAIN defs = Blocks
  BY <1>1, OrderFacts, Zenon DEF Populated
<1>3. TypeOK'
  <2>1. TypeOK
    BY Zenon DEF IInv
  <2>2. /\ todo' \in Seq(Blocks) /\ order' \in Seq(Blocks) /\ idx' \in Nat \ {0}
        /\ pc' \in {"dfs", "populate", "params", "return", "calls", "done", "panic"}
    BY <1>1, <1>2, <2>1 DEF TypeOK
  <2> QED
    BY <1>1, <2>1, <2>2, TypesStay, Zenon
<1>4. NoPanic'
  BY <1>1, Zenon DEF NoPanic
<1>5. Listing'
  BY <1>1, ListingStays, Zenon DEF IInv
<1>6. Position'
  BY <1>1, <1>2 DEF IInv, Position
<1>7. Tables'
  <2>1. Populated' = Blocks /\ \A b : Dominators(b)' = Dominators(b)
    BY <1>1, SkelStays, Zenon DEF Populated
  <2> QED
    BY <1>1, <1>2, <2>1 DEF IInv, Tables
<1>8. Readable'
  BY <1>1, ReadableStays, Zenon DEF IInv
<1>9. Parameters'
  <2>1. Blocks' = Blocks /\ \A j \in idx' .. Len(order) : j \in idx .. Len(order)
    BY <1>1, <1>2, SkelStays
  <2> QED
    BY <1>1, <1>2, <2>1, Zenon DEF IInv, Parameters
<1>10. DefsDominateUses' /\ TableIsCurrent'
  BY <1>1, CodeStays, TableStays, Zenon DEF IInv
<1>11. EdgesMatchParams' /\ SignaturesKept'
  BY <1>1, EdgesStay, SignaturesStay, Zenon DEF IInv
<1> QED
  BY <1>3, <1>4, <1>5, <1>6, <1>7, <1>8, <1>9, <1>10, <1>11, Zenon DEF IInv

\* Nothing changes but the phase when the last call is in.
LEMMA EndCallsInv ==
  ASSUME IInv, EndCalls
  PROVE  IInv'
<1>1. /\ UNCHANGED <<skel, todo, order, idx, defs, refs, bparams, uses, made, cond, args,
                     ret, calls>>
      /\ pc = "calls" /\ pc' = "done"
  BY Zenon DEF EndCalls
<1>2. DOMAIN defs = Blocks
  BY <1>1, OrderFacts, Zenon DEF Populated
<1>3. TypeOK'
  <2>1. TypeOK
    BY Zenon DEF IInv
  <2>2. /\ todo' \in Seq(Blocks) /\ order' \in Seq(Blocks) /\ idx' \in Nat \ {0}
        /\ pc' \in {"dfs", "populate", "params", "return", "calls", "done", "panic"}
    BY <1>1, <2>1, Zenon DEF TypeOK
  <2> QED
    BY <1>1, <2>1, <2>2, TypesStay, Zenon
<1>4. NoPanic'
  BY <1>1, Zenon DEF NoPanic
<1>5. Listing'
  BY <1>1, ListingStays, Zenon DEF IInv
<1>6. Position'
  BY <1>1, SkelStays, Zenon DEF IInv, Position
<1>7. Tables'
  <2>1. Populated' = Blocks /\ \A b : Dominators(b)' = Dominators(b)
    BY <1>1, SkelStays, Zenon DEF Populated
  <2> QED
    BY <1>1, <1>2, <2>1 DEF IInv, Tables
<1>8. Readable'
  BY <1>1, ReadableStays, Zenon DEF IInv
<1>9. Parameters'
  BY <1>1, <1>2, SkelStays, Zenon DEF IInv, Parameters
<1>10. DefsDominateUses' /\ TableIsCurrent'
  BY <1>1, CodeStays, TableStays, Zenon DEF IInv
<1>11. EdgesMatchParams' /\ SignaturesKept'
  BY <1>1, EdgesStay, SignaturesStay, Zenon DEF IInv
<1> QED
  BY <1>3, <1>4, <1>5, <1>6, <1>7, <1>8, <1>9, <1>10, <1>11, Zenon DEF IInv

----------------------------------------------------------------------------
\* A value is a record of its block, type and kind.
LEMMA ValueFacts ==
  ASSUME NEW b, NEW t, NEW k
  PROVE  /\ Value(b, t, k).block = b /\ Value(b, t, k).type = t
         /\ Value(b, t, k).kind = k
         /\ b \in Blocks /\ t \in Types /\ skel \in Skeletons
              /\ k \in {"cond", "sig", "const", "inst", "param", "call"}
            => Value(b, t, k) \in Values
<1>1. /\ Value(b, t, k).block = b /\ Value(b, t, k).type = t
      /\ Value(b, t, k).kind = k
  BY Zenon DEF Value
<1>2. ASSUME skel \in Skeletons PROVE 0 \in 0 .. Len(Callees)
  <2>1. Callees \in Seq([params : SUBSET OperandTypes, returns : SUBSET Types])
    BY <1>2, GeneratorAssumption, Zenon DEF Callees
  <2> QED
    BY <2>1, SeqFacts
<1> QED
  BY <1>1, <1>2, Zenon DEF Value, Values

\* A value is still to be recorded for the block the first loop comes to, and is
\* recorded for all that dominate it.
LEMMA FirstLoopFacts ==
  ASSUME IInv, pc = "populate", idx <= Len(order)
  PROVE  /\ order[idx] \in Blocks \ DOMAIN defs
         /\ Dominators(order[idx]) \ {order[idx]} \subseteq DOMAIN defs
         /\ DOMAIN defs = {order[i] : i \in 1 .. (idx - 1)}
         /\ order[1] = Entry
         /\ order[idx] # Entry => Entry \in DOMAIN defs
<1>1. /\ Len(order) \in Nat \ {0} /\ DOMAIN order = 1 .. Len(order)
      /\ \A i \in 1 .. Len(order) : order[i] \in Blocks
      /\ \A i, j \in 1 .. Len(order) : order[i] = order[j] => i = j
      /\ order[1] = Entry /\ idx \in Nat \ {0}
      /\ DOMAIN defs = {order[i] : i \in 1 .. (idx - 1)}
  BY OrderFacts, Zenon DEF Populated
<1>2. idx \in 1 .. Len(order) /\ \A i \in 1 .. (idx - 1) : i \in 1 .. Len(order) /\ i # idx
  BY <1>1
<1>3. order[idx] \in Blocks \ DOMAIN defs
  BY <1>1, <1>2, Zenon
<1>4. ASSUME NEW d \in Dominators(order[idx]), d # order[idx]
      PROVE  d \in DOMAIN defs
  <2>1. PICK j \in 1 .. idx : order[j] = d
    BY <1>1, <1>2, Zenon DEF IInv, Listing
  <2>2. j \in 1 .. (idx - 1)
    BY <1>1, <1>4, <2>1
  <2> QED
    BY <1>1, <2>1, <2>2, Zenon
<1>5. ASSUME order[idx] # Entry PROVE Entry \in DOMAIN defs
  <2>1. 1 \in 1 .. (idx - 1)
    BY <1>1, <1>5
  <2> QED
    BY <1>1, <2>1, Zenon
<1> QED
  BY <1>1, <1>3, <1>4, <1>5, Zenon

\* The entry block starts with a parameter or constant of every operand type, the
\* others with none.
LEMMA PreludeFacts ==
  ASSUME IInv, pc # "dfs", NEW b \in Blocks
  PROVE  /\ b # Entry => Prelude(b) = {}
         /\ b = Entry => \A t \in OperandTypes : \E v \in Prelude(b) : v.type = t
         /\ \A v \in Prelude(b) :
              /\ v \in Values /\ v.block = b /\ b = Entry
              /\ v.kind \in {"sig", "const"}
              /\ v.kind = "sig" => v \in Range(SigValues(b))
<1>1. skel \in Skeletons /\ order[1] = Entry
  BY OrderFacts, Zenon
<1>2. /\ Len(SigParams) \in Nat /\ DOMAIN SigParams = 1 .. Len(SigParams)
      /\ \A i \in 1 .. Len(SigParams) : SigParams[i] \in Types
      /\ OperandTypes \subseteq Types
  BY GeneratorAssumption, SeqFacts, Zenon
<1>3. /\ Range(SigValues(b)) = {Value(b, SigParams[i], "sig") : i \in 1 .. Len(SigParams)}
      /\ Range(SigParams) = {SigParams[i] : i \in 1 .. Len(SigParams)}
  BY <1>2, Zenon DEF Range, SigValues
<1>4. Prelude(b) =
        IF b = Entry
        THEN Range(SigValues(b)) \cup {Value(b, t, "const") : t \in OperandTypes \ Range(SigParams)}
        ELSE {}
  BY <1>1, Zenon DEF Prelude, Constant
<1>5. ASSUME b = Entry, NEW t \in OperandTypes
      PROVE  \E v \in Prelude(b) : v.type = t
  <2>1. CASE t \in Range(SigParams)
    <3>1. PICK i \in 1 .. Len(SigParams) : SigParams[i] = t
      BY <1>3, <2>1, Zenon
    <3>2. Value(b, SigParams[i], "sig") \in Prelude(b)
      BY <1>3, <1>4, <1>5, Zenon
    <3> QED
      BY <3>1, <3>2, ValueFacts
  <2>2. CASE t \notin Range(SigParams)
    <3>1. Value(b, t, "const") \in Prelude(b)
      BY <1>4, <1>5, <2>2, Zenon
    <3> QED
      BY <3>1, ValueFacts
  <2> QED
    BY <2>1, <2>2, Zenon
<1>6. ASSUME NEW v \in Prelude(b)
      PROVE  /\ v \in Values /\ v.block = b /\ b = Entry
             /\ v.kind \in {"sig", "const"}
             /\ v.kind = "sig" => v \in Range(SigValues(b))
  <2>0. b = Entry
    BY <1>4, Zenon
  <2>1. CASE v \in Range(SigValues(b))
    <3>1. PICK i \in 1 .. Len(SigParams) : v = Value(b, SigParams[i], "sig")
      BY <1>3, <2>1, Zenon
    <3> QED
      BY <1>1, <1>2, <2>0, <2>1, <3>1, ValueFacts
  <2>2. CASE v \notin Range(SigValues(b))
    <3>1. PICK t \in OperandTypes : v = Value(b, t, "const")
      BY <1>4, <2>0, <2>2
    <3>2. v.kind = "const" /\ v.block = b /\ v \in Values
      BY <1>1, <1>2, <3>1, ValueFacts
    <3> QED
      BY <2>0, <3>2, Zenon
  <2> QED
    BY <2>1, <2>2, Zenon
<1> QED
  BY <1>4, <1>5, <1>6, Zenon

\* The parameters the first loop leaves: those of the signature for the entry
\* block, none for the others.
LEMMA ParamsLeftFacts ==
  ASSUME IInv, pc # "dfs", NEW b \in Blocks \ DOMAIN defs
  PROVE  ParamsLeft(b) = IF b = Entry THEN SigValues(b) ELSE <<>>
<1>1. /\ skel \in Skeletons /\ order[1] = Entry /\ ~IsBranch(Entry)
      /\ \A c \in skel.params : IsBranch(c)
  BY OrderFacts, SkeletonFacts, Zenon
<1>2. bparams[b] = IF b \in skel.params THEN <<Value(b, "i32", "cond")>> ELSE <<>>
  BY Zenon DEF IInv, Parameters
<1>3. CASE b = Entry
  <2>1. bparams[b] = <<>> /\ b = order[1] /\ ~IsBranch(b)
    BY <1>1, <1>2, <1>3, Zenon
  <2>2. SigValues(b) \in Seq({SigValues(b)[i] : i \in DOMAIN SigValues(b)})
    <3>1. Len(SigParams) \in Nat
      BY GeneratorAssumption, SeqFacts, Zenon
    <3> QED
      BY <3>1 DEF SigValues
  <2>3. <<>> \o SigValues(b) = SigValues(b)
    BY <2>2
  <2> QED
    BY <1>3, <2>1, <2>3, Zenon DEF ParamsLeft
<1>4. CASE b # Entry
  <2>1. CASE b \in skel.params
    <3>1. IsBranch(b) /\ bparams[b] = <<Value(b, "i32", "cond")>> /\ b # order[1]
      BY <1>1, <1>2, <1>4, <2>1, Zenon
    <3>2. Tail(<<Value(b, "i32", "cond")>>) = <<>> /\ <<Value(b, "i32", "cond")>> # <<>>
      OBVIOUS
    <3> QED
      BY <1>4, <3>1, <3>2 DEF ParamsLeft
  <2>2. CASE b \notin skel.params
    BY <1>1, <1>2, <1>4, <2>2, Zenon DEF ParamsLeft
  <2> QED
    BY <2>1, <2>2, Zenon
<1> QED
  BY <1>3, <1>4, Zenon

\* The body of the first loop never lacks a value, and what it does then.
LEMMA PopulateStep ==
  ASSUME IInv, Populate
  PROVE  LET b == order[idx]
         IN  \E R \in Reads(b), V \in SUBSET {Value(b, t, "inst") : t \in Types} :
               /\ defs' = [d \in DOMAIN defs \cup {b} |->
                             IF d = b THEN Prelude(b) \cup V ELSE defs[d]]
               /\ refs' = [d \in DOMAIN refs \cup {b} |->
                             IF d = b THEN {v.type : v \in R} ELSE refs[d]]
               /\ uses' = [uses EXCEPT ![b] = R]
               /\ made' = [made EXCEPT ![b] = {v \in Prelude(b) : v.kind = "const"} \cup V]
               /\ bparams' = [bparams EXCEPT ![b] = ParamsLeft(b)]
               /\ IF IsBranch(b)
                  THEN \E c \in Conditions(defs', b) : cond' = [cond EXCEPT ![b] = c]
                  ELSE UNCHANGED cond
               /\ idx' = idx + 1
               /\ UNCHANGED <<skel, todo, order, args, ret, calls, pc>>
<1> DEFINE b == order[idx]
<1>1. /\ pc = "populate" /\ idx <= Len(order) /\ skel \in Skeletons
      /\ b \in Blocks \ DOMAIN defs /\ order[1] = Entry
      /\ b # Entry => Entry \in DOMAIN defs
  BY FirstLoopFacts, OrderFacts, Zenon DEF Populate
<1>2. PICK R \in Reads(b), V \in Results(b) :
        LET D == [d \in DOMAIN defs \cup {b} |->
                    IF d = b THEN Prelude(b) \cup V ELSE defs[d]]
        IN  IF LacksValue(b, D)
            THEN Panic
            ELSE /\ defs' = D
                 /\ refs' = [d \in DOMAIN refs \cup {b} |->
                               IF d = b THEN {v.type : v \in R} ELSE refs[d]]
                 /\ uses' = [uses EXCEPT ![b] = R]
                 /\ made' = [made EXCEPT ![b] =
                               {v \in Prelude(b) : v.kind = "const"} \cup V]
                 /\ bparams' = [bparams EXCEPT ![b] = ParamsLeft(b)]
                 /\ IF IsBranch(b)
                    THEN \E c \in Conditions(D, b) : cond' = [cond EXCEPT ![b] = c]
                    ELSE UNCHANGED cond
                 /\ idx' = idx + 1
                 /\ UNCHANGED <<skel, todo, order, args, ret, calls, pc>>
  BY Zenon DEF Populate
<1> DEFINE D == [d \in DOMAIN defs \cup {b} |->
                   IF d = b THEN Prelude(b) \cup V ELSE defs[d]]
<1>3. V \in SUBSET {Value(b, t, "inst") : t \in Types}
  BY Zenon DEF Results
<1>4. {"i32", "i64"} \subseteq OperandTypes
  BY GeneratorAssumption, Zenon
<1>5. Entry \in DOMAIN D /\ \A t \in OperandTypes : \E v \in D[Entry] : v.type = t
  <2>1. CASE b = Entry
    BY <1>1, <2>1, PreludeFacts, Zenon
  <2>2. CASE b # Entry
    <3>1. D[Entry] = defs[Entry] /\ Entry \in DOMAIN D
      BY <1>1, <2>2, Zenon
    <3> QED
      BY <1>1, <2>2, <3>1, Zenon DEF IInv, Tables
  <2> QED
    BY <2>1, <2>2, Zenon
<1>6. ~LacksValue(b, D)
  <2>1. ~(b = order[1] /\ OfType(Prelude(b), "i64") = {})
    BY <1>1, <1>4, PreludeFacts, Zenon DEF OfType
  <2>2. Conditions(D, b) # {}
    <3> HIDE DEF D
    <3>1. Entry \in Dominators(b) \cap DOMAIN D
      BY <1>1, <1>5, EntryDominates, Zenon
    <3>2. PICK v \in D[Entry] : v.type = "i32"
      BY <1>4, <1>5, Zenon
    <3>3. v \in DominatorValues(D, b)
      BY <3>1, Zenon DEF DominatorValues
    <3> QED
      BY <3>2, <3>3, Zenon DEF Conditions, OfType
  <2> QED
    BY <2>1, <2>2, Zenon DEF LacksValue
<1> QED
  BY <1>2, <1>3, <1>6, Zenon

\* The same in terms of values: what is recorded, read and left for block b.
LEMMA PopulateFacts ==
  ASSUME IInv, Populate
  PROVE  LET b == order[idx]
         IN  /\ pc = "populate" /\ idx <= Len(order) /\ idx' = idx + 1
             /\ UNCHANGED <<skel, todo, order, args, ret, calls, pc>>
             /\ DOMAIN defs' = DOMAIN defs \cup {b} /\ DOMAIN refs' = DOMAIN defs'
             /\ \A d \in DOMAIN defs : defs'[d] = defs[d] /\ refs'[d] = refs[d]
             /\ uses' \in [Blocks -> SUBSET Values] /\ made' \in [Blocks -> SUBSET Values]
             /\ bparams' \in [Blocks -> Seq(Values)]
             /\ \A c \in Blocks \ {b} : /\ uses'[c] = uses[c] /\ made'[c] = made[c]
                                        /\ bparams'[c] = bparams[c]
             /\ bparams'[b] = IF b = Entry THEN SigValues(b) ELSE <<>>
             /\ \A v \in defs'[b] :
                  /\ v \in Values /\ v.block = b /\ v.kind # "call"
                  /\ v \in made'[b] \cup Range(bparams'[b])
             /\ b = Entry => \A t \in OperandTypes : \E v \in defs'[b] : v.type = t
             /\ refs'[b] = {v.type : v \in uses'[b]}
             /\ \A v \in uses'[b] :
                  \/ \E d \in Dominators(b) \ {b} : d \in DOMAIN defs /\ v \in defs[d]
                  \/ b = Entry /\ v \in defs'[b] /\ v.kind # "inst"
             /\ DOMAIN cond' = Blocks
             /\ \A c \in Blocks \ {b} : cond'[c] = cond[c]
             /\ IsBranch(b) =>
                  /\ cond'[b].type = "i32"
                  /\ \E d \in Dominators(b) : d \in DOMAIN defs' /\ cond'[b] \in defs'[d]
<1> DEFINE b == order[idx]
<1>1. /\ pc = "populate" /\ idx <= Len(order) /\ skel \in Skeletons
      /\ b \in Blocks \ DOMAIN defs /\ order[1] = Entry
      /\ Dominators(b) \ {b} \subseteq DOMAIN defs
  BY FirstLoopFacts, OrderFacts, Zenon DEF Populate
<1>2. PICK R \in Reads(b), V \in SUBSET {Value(b, t, "inst") : t \in Types} :
        /\ defs' = [d \in DOMAIN defs \cup {b} |->
                      IF d = b THEN Prelude(b) \cup V ELSE defs[d]]
        /\ refs' = [d \in DOMAIN refs \cup {b} |->
                      IF d = b THEN {v.type : v \in R} ELSE refs[d]]
        /\ uses' = [uses EXCEPT ![b] = R]
        /\ made' = [made EXCEPT ![b] = {v \in Prelude(b) : v.kind = "const"} \cup V]
        /\ bparams' = [bparams EXCEPT ![b] = ParamsLeft(b)]
        /\ IF IsBranch(b)
           THEN \E c \in Conditions(defs', b) : cond' = [cond EXCEPT ![b] = c]
           ELSE UNCHANGED cond
        /\ idx' = idx + 1
        /\ UNCHANGED <<skel, todo, order, args, ret, calls, pc>>
  BY PopulateStep, Zenon
<1>3. /\ DOMAIN refs = DOMAIN defs /\ uses \in [Blocks -> SUBSET Values]
      /\ made \in [Blocks -> SUBSET Values] /\ bparams \in [Blocks -> Seq(Values)]
      /\ DOMAIN cond = Blocks /\ \A d \in DOMAIN defs : defs[d] \subseteq Values
      /\ DOMAIN defs \subseteq Blocks
  BY Zenon DEF IInv, TypeOK
<1> HIDE DEF b
<1>4. /\ DOMAIN defs' = DOMAIN defs \cup {b} /\ DOMAIN refs' = DOMAIN defs \cup {b}
      /\ \A d \in DOMAIN defs : defs'[d] = defs[d] /\ refs'[d] = refs[d]
      /\ defs'[b] = Prelude(b) \cup V /\ refs'[b] = {v.type : v \in R}
  BY <1>1, <1>2, <1>3, Zenon
<1>5. \A v \in V : v \in Values /\ v.block = b /\ v.kind = "inst"
  BY <1>1, ValueFacts
<1>6. /\ b # Entry => Prelude(b) = {}
      /\ b = Entry => \A t \in OperandTypes : \E v \in Prelude(b) : v.type = t
      /\ \A v \in Prelude(b) :
           /\ v \in Values /\ v.block = b /\ b = Entry /\ v.kind \in {"sig", "const"}
           /\ v.kind = "sig" => v \in Range(SigValues(b))
  BY <1>1, PreludeFacts, Zenon
<1>7. /\ made'[b] = {v \in Prelude(b) : v.kind = "const"} \cup V
      /\ bparams'[b] = ParamsLeft(b) /\ uses'[b] = R
      /\ \A c \in Blocks \ {b} : /\ uses'[c] = uses[c] /\ made'[c] = made[c]
                                 /\ bparams'[c] = bparams[c]
      /\ DOMAIN uses' = Blocks /\ DOMAIN made' = Blocks /\ DOMAIN bparams' = Blocks
  BY <1>1, <1>2, <1>3, Zenon
<1>8. ParamsLeft(b) = IF b = Entry THEN SigValues(b) ELSE <<>>
  BY <1>1, ParamsLeftFacts, Zenon
<1>9. ASSUME NEW v \in R
      PROVE  \/ \E d \in Dominators(b) \ {b} : d \in DOMAIN defs /\ v \in defs[d]
             \/ b = Entry /\ v \in Prelude(b)
  <2>1. PICK d \in Dominators(b) \cap DOMAIN Known(b) : v \in Known(b)[d]
    BY DEF Reads, DominatorValues
  <2>2. CASE d # b
    BY <1>1, <2>1, <2>2, Zenon DEF Known
  <2>3. CASE d = b
    BY <1>1, <2>1, <2>3, Zenon DEF Known
  <2> QED
    BY <2>2, <2>3
<1>10. \A v \in R : v \in Values
  BY <1>3, <1>6, <1>9, Zenon
<1>11. uses' \in [Blocks -> SUBSET Values] /\ made' \in [Blocks -> SUBSET Values]
  <2>1. \A c \in Blocks : uses'[c] \in SUBSET Values /\ made'[c] \in SUBSET Values
    BY <1>3, <1>5, <1>6, <1>7, <1>10, Zenon
  <2>2. uses' = [c \in Blocks |-> uses'[c]] /\ made' = [c \in Blocks |-> made'[c]]
    BY <1>2, <1>3, Zenon
  <2> QED
    BY <2>1, <2>2
<1>12. bparams' \in [Blocks -> Seq(Values)]
  <2>1. SigValues(b) \in Seq(Values)
    <3>1. /\ Len(SigParams) \in Nat
          /\ \A i \in 1 .. Len(SigParams) : SigParams[i] \in Types
      BY GeneratorAssumption, SeqFacts, Zenon
    <3>2. \A i \in 1 .. Len(SigParams) : Value(b, SigParams[i], "sig") \in Values
      BY <1>1, <3>1, ValueFacts, Zenon
    <3> QED
      BY <3>1, <3>2 DEF SigValues
  <2>2. <<>> \in Seq(Values)
    OBVIOUS
  <2>3. ParamsLeft(b) \in Seq(Values)
    BY <1>8, <2>1, <2>2, Zenon
  <2> QED
    BY <1>2, <1>3, <2>3, Zenon
<1>13. ASSUME NEW v \in defs'[b]
       PROVE  /\ v \in Values /\ v.block = b /\ v.kind # "call"
              /\ v \in made'[b] \cup Range(bparams'[b])
  <2>1. CASE v \in V
    BY <1>5, <1>7, <2>1, Zenon
  <2>2. CASE v \in Prelude(b)
    BY <1>6, <1>7, <1>8, <2>2, Zenon
  <2> QED
    BY <1>4, <2>1, <2>2, Zenon
<1>14. /\ DOMAIN cond' = Blocks
       /\ \A c \in Blocks \ {b} : cond'[c] = cond[c]
  BY <1>1, <1>2, <1>3, Zenon
<1>15. ASSUME IsBranch(b)
       PROVE  /\ cond'[b].type = "i32"
              /\ \E d \in Dominators(b) : d \in DOMAIN defs' /\ cond'[b] \in defs'[d]
  <2>1. PICK c \in Conditions(defs', b) : cond' = [cond EXCEPT ![b] = c]
    BY <1>2, <1>15, Zenon
  <2>2. cond'[b] = c
    BY <1>1, <1>3, <2>1, Zenon
  <2> QED
    BY <2>2, Zenon DEF Conditions, OfType, DominatorValues
<1>16. \A v \in uses'[b] :
         \/ \E d \in Dominators(b) \ {b} : d \in DOMAIN defs /\ v \in defs[d]
         \/ b = Entry /\ v \in defs'[b] /\ v.kind # "inst"
  BY <1>4, <1>6, <1>7, <1>9, Zenon
<1>17. b = Entry => \A t \in OperandTypes : \E v \in defs'[b] : v.type = t
  BY <1>4, <1>6, Zenon
<1> QED
  BY <1>1, <1>2, <1>4, <1>7, <1>8, <1>11, <1>12, <1>13, <1>14, <1>15, <1>16, <1>17, Zenon DEF b

\* Populating a block keeps the invariant.
LEMMA PopulateInv ==
  ASSUME IInv, Populate
  PROVE  IInv'
<1> DEFINE b == order[idx]
<1>1. /\ pc = "populate" /\ idx <= Len(order) /\ idx' = idx + 1
      /\ UNCHANGED <<skel, todo, order, args, ret, calls, pc>>
      /\ DOMAIN defs' = DOMAIN defs \cup {b} /\ DOMAIN refs' = DOMAIN defs'
      /\ \A d \in DOMAIN defs : defs'[d] = defs[d] /\ refs'[d] = refs[d]
  BY PopulateFacts, Zenon
<1>2. /\ uses' \in [Blocks -> SUBSET Values] /\ made' \in [Blocks -> SUBSET Values]
      /\ bparams' \in [Blocks -> Seq(Values)]
      /\ \A c \in Blocks \ {b} : /\ uses'[c] = uses[c] /\ made'[c] = made[c]
                                 /\ bparams'[c] = bparams[c]
      /\ bparams'[b] = IF b = Entry THEN SigValues(b) ELSE <<>>
  BY PopulateFacts, Zenon
<1>3. /\ \A v \in defs'[b] :
           /\ v \in Values /\ v.block = b /\ v.kind # "call"
           /\ v \in made'[b] \cup Range(bparams'[b])
      /\ b = Entry => \A t \in OperandTypes : \E v \in defs'[b] : v.type = t
  BY PopulateFacts, Zenon
<1>4. /\ refs'[b] = {v.type : v \in uses'[b]}
      /\ \A v \in uses'[b] :
           \/ \E d \in Dominators(b) \ {b} : d \in DOMAIN defs /\ v \in defs[d]
           \/ b = Entry /\ v \in defs'[b] /\ v.kind # "inst"
  BY PopulateFacts, Zenon
<1>5. /\ DOMAIN cond' = Blocks
      /\ \A c \in Blocks \ {b} : cond'[c] = cond[c]
      /\ IsBranch(b) =>
           /\ cond'[b].type = "i32"
           /\ \E d \in Dominators(b) : d \in DOMAIN defs' /\ cond'[b] \in defs'[d]
  BY PopulateFacts, Zenon
<1>6. /\ skel \in Skeletons /\ Len(order) \in Nat \ {0} /\ idx \in Nat \ {0}
      /\ DOMAIN order = 1 .. Len(order)
      /\ \A i \in 1 .. Len(order) : order[i] \in Blocks
  BY <1>1, OrderFacts, Zenon
<1>7. /\ b \in Blocks \ DOMAIN defs /\ DOMAIN defs = {order[i] : i \in 1 .. (idx - 1)}
      /\ DOMAIN defs \subseteq Blocks
  BY <1>1, FirstLoopFacts, Zenon DEF IInv, TypeOK
<1>8. b \in Dominators(b) /\ (b = Entry => Entry \in Dominators(b))
  BY <1>6, <1>7, SelfDominates, Zenon
<1>9. /\ Blocks' = Blocks /\ Values' = Values /\ Callees' = Callees
      /\ \A c : /\ Dominators(c)' = Dominators(c) /\ IsBranch(c)' = IsBranch(c)
                /\ Succ(c)' = Succ(c)
  BY <1>1, SkelStays, Zenon
<1>9a. \A v, c :
         v.block \in Dominators(c) /\ Exists(v)' =>
           /\ (v.block = c => v.kind # "call") => Available(v, c)'
           /\ (v.block = c => v.kind \notin {"call", "inst"}) => AvailableEarly(v, c)'
  BY <1>1, AvailableNext, Zenon
<1>10. DOMAIN defs' = {order[i] : i \in 1 .. (idx' - 1)}
  <2>1. \A i \in 1 .. (idx' - 1) : i \in 1 .. (idx - 1) \/ i = idx
    BY <1>1, <1>6
  <2>2. \A i \in 1 .. (idx - 1) : i \in 1 .. (idx' - 1)
    BY <1>1, <1>6
  <2>3. idx \in 1 .. (idx' - 1)
    BY <1>1, <1>6
  <2> QED
    BY <1>1, <1>7, <2>1, <2>2, <2>3, Zenon
<1> HIDE DEF b
<1>11. \A v : v.block \in DOMAIN defs /\ Exists(v) => Exists(v)'
  BY <1>2, <1>7, Zenon DEF Exists
<1>12. \A d \in DOMAIN defs' : \A v \in defs'[d] :
        v \in Values /\ v.block = d /\ v.kind # "call" /\ Exists(v)'
  <2>1. ASSUME NEW d \in DOMAIN defs, NEW v \in defs'[d]
        PROVE  v \in Values /\ v.block = d /\ v.kind # "call" /\ Exists(v)'
    <3>1. v \in defs[d]
      BY <1>1, <2>1
    <3>2. v \in Values
      BY <3>1, Zenon DEF IInv, TypeOK
    <3>3. v.kind # "call"
      BY <3>1, Zenon DEF IInv, Tables
    <3>4. v.block = d /\ Exists(v)
      BY <3>1, Zenon DEF IInv, TableIsCurrent
    <3> QED
      BY <1>11, <3>2, <3>3, <3>4, Zenon
  <2>2. \A v \in defs'[b] : Exists(v)'
    BY <1>3, Zenon DEF Exists
  <2> QED
    BY <1>1, <1>3, <2>1, <2>2, Zenon
<1>13. TypeOK'
  <2>1. \A d \in DOMAIN refs' : refs'[d] \subseteq Types
    <3>1. \A d \in DOMAIN defs : refs'[d] \subseteq Types
      BY <1>1, Zenon DEF IInv, TypeOK
    <3>2. refs'[b] \subseteq Types
      BY <1>2, <1>4, <1>7 DEF Values
    <3> QED
      BY <1>1, <3>1, <3>2, Zenon
  <2>2. \A d \in DOMAIN defs' : defs'[d] \subseteq Values
    BY <1>12, Zenon
  <2>3. \A c \in Blocks : IsBranch(c) => cond'[c].type = "i32"
    BY <1>5, Zenon DEF IInv, TypeOK
  <2>4. DOMAIN defs' \subseteq Blocks
    BY <1>1, <1>7, Zenon
  <2>5. idx' \in Nat \ {0}
    BY <1>1, <1>6
  <2>6. /\ todo \in Seq(Blocks) /\ order \in Seq(Blocks)
        /\ DOMAIN args = Blocks
        /\ \A c \in Blocks : args[c] \in [DOMAIN skel.term[c].dest -> Seq(Values)]
        /\ ret \subseteq [block : Blocks, values : SUBSET Values]
        /\ calls \in Seq([block : Blocks, args : SUBSET Values])
    BY Zenon DEF IInv, TypeOK
  <2> QED
    BY <1>1, <1>2, <1>5, <1>6, <1>9, <2>1, <2>2, <2>3, <2>4, <2>5, <2>6, Zenon DEF TypeOK
<1>14. NoPanic' /\ Listing'
  BY <1>1, ListingStays, Zenon DEF IInv, NoPanic
<1>15. Position'
  BY <1>1, <1>6 DEF IInv, Position
<1>16. Tables'
  <2>1. DOMAIN defs' = Populated'
    BY <1>1, <1>10, Zenon DEF Populated
  <2>2. Entry \in DOMAIN defs' => \A t \in OperandTypes : \E v \in defs'[Entry] : v.type = t
    BY <1>1, <1>3, Zenon DEF IInv, Tables
  <2>3. ASSUME NEW c \in DOMAIN defs' \ {Entry}, NEW t \in refs'[c]
        PROVE  \E d \in Dominators(c) \ {c} :
                 d \in DOMAIN defs' /\ \E v \in defs'[d] : v.type = t
    <3>1. CASE c = b
      <4>1. PICK v \in uses'[b] : v.type = t
        BY <1>4, <2>3, <3>1, Zenon
      <4>2. PICK d \in Dominators(b) \ {b} : d \in DOMAIN defs /\ v \in defs[d]
        BY <1>4, <2>3, <3>1, Zenon
      <4> QED
        BY <1>1, <3>1, <4>1, <4>2, Zenon
    <3>2. CASE c # b
      <4>1. c \in DOMAIN defs /\ t \in refs[c]
        BY <1>1, <2>3, <3>2, Zenon
      <4>2. PICK d \in Dominators(c) \ {c} : d \in DOMAIN defs /\ \E v \in defs[d] : v.type = t
        BY <2>3, <4>1 DEF IInv, Tables
      <4> QED
        BY <1>1, <4>2, Zenon
    <3> QED
      BY <3>1, <3>2, Zenon
  <2> QED
    BY <1>9, <1>12, <2>1, <2>2, <2>3 DEF Tables
<1>17. ASSUME NEW c \in Blocks, c = b, NEW v \in uses'[c]
       PROVE  v.block \in DOMAIN defs' /\ AvailableEarly(v, c)'
  <2>1. CASE \E d \in Dominators(b) \ {b} : d \in DOMAIN defs /\ v \in defs[d]
    <3>1. PICK d \in Dominators(b) \ {b} : d \in DOMAIN defs /\ v \in defs[d]
      BY <2>1, Zenon
    <3>2. d \in DOMAIN defs' /\ v \in defs'[d]
      BY <1>1, <3>1, Zenon
    <3>3. v.block = d /\ Exists(v)'
      BY <1>12, <3>2, Zenon
    <3> QED
      BY <1>9a, <1>17, <3>1, <3>2, <3>3, Zenon
  <2>2. CASE b = Entry /\ v \in defs'[b] /\ v.kind # "inst"
    <3>1. v.block = b /\ v.kind # "call" /\ Exists(v)' /\ b \in DOMAIN defs'
      BY <1>1, <1>12, <2>2, Zenon
    <3> QED
      BY <1>8, <1>9a, <1>17, <2>2, <3>1, Zenon
  <2> QED
    BY <1>4, <1>17, <2>1, <2>2, Zenon
<1>18. ASSUME NEW c \in Blocks, c # b, NEW v \in uses'[c]
      PROVE  v.block \in DOMAIN defs' /\ AvailableEarly(v, c)'
  <2>1. v \in uses[c]
    BY <1>2, <1>18, Zenon
  <2>2. v.block \in DOMAIN defs
    BY <2>1, Zenon DEF IInv, Readable
  <2>3. AvailableEarly(v, c)
    BY <2>1, Zenon DEF IInv, DefsDominateUses
  <2>4. Exists(v)'
    BY <1>11, <2>2, <2>3, Zenon DEF AvailableEarly, Available
  <2> QED
    BY <1>1, <2>2, <2>3, <2>4, AvailableStays, Zenon
<1>19. ASSUME NEW c \in DOMAIN defs', IsBranch(c), NEW w, w = cond'[c]
       PROVE  w.block \in DOMAIN defs' /\ Available(w, c)'
  <2>1. CASE c = b
    <3>1. PICK d \in Dominators(b) : d \in DOMAIN defs' /\ w \in defs'[d]
      BY <1>5, <1>19, <2>1
    <3>2. w.block = d /\ w.kind # "call" /\ Exists(w)'
      BY <1>12, <3>1, Zenon
    <3> QED
      BY <1>9a, <2>1, <3>1, <3>2, Zenon
  <2>2. CASE c # b
    <3>1. c \in DOMAIN defs /\ c \in Blocks /\ w = cond[c]
      BY <1>1, <1>5, <1>7, <1>19, <2>2, Zenon
    <3>2. w.block \in DOMAIN defs /\ Available(w, c)
      BY <1>19, <3>1, Zenon DEF IInv, Readable
    <3>3. Exists(w)'
      BY <1>11, <3>2, Zenon DEF Available
    <3> QED
      BY <1>1, <3>2, <3>3, AvailableStays, Zenon
  <2> QED
    BY <2>1, <2>2, Zenon
<1>20. Readable'
  BY <1>9, <1>17, <1>18, <1>19, Zenon DEF Readable
<1>21. \A c \in Blocks : \A i \in DOMAIN args[c] : args[c][i] = <<>>
  BY <1>1, Zenon DEF IInv, Parameters
<1>22. Parameters'
  <2>1. \A c \in Blocks \ DOMAIN defs' :
          bparams'[c] = IF c \in skel.params THEN <<Value(c, "i32", "cond")>> ELSE <<>>
    BY <1>1, <1>2, Zenon DEF IInv, Parameters
  <2>2. \A c \in DOMAIN defs' \ {Entry} : bparams'[c] = <<>>
    BY <1>1, <1>2, <1>7 DEF IInv, Parameters
  <2>3. pc' = "populate" /\ skel' = skel /\ args' = args
    BY <1>1, Zenon
  <2> QED
    BY <1>9, <1>21, <2>1, <2>2, <2>3, Zenon DEF Parameters, Value
<1>23. DefsDominateUses'
  <2>1. \A c \in Blocks : \A v \in uses'[c] : AvailableEarly(v, c)'
    BY <1>17, <1>18, Zenon
  <2>2. \A c \in Blocks : \A i \in DOMAIN args[c] : Range(args[c][i]) = {}
    BY <1>21 DEF Range
  <2>3. ret = {} /\ Range(calls) = {}
    BY <1>1 DEF IInv, Position, Range
  <2> QED
    BY <1>1, <1>9, <2>1, <2>2, <2>3, Zenon DEF DefsDominateUses
<1>24. EdgesMatchParams' /\ TableIsCurrent' /\ SignaturesKept'
  <2>1. EdgesMatchParams'
    BY <1>1, Zenon DEF EdgesMatchParams
  <2>2. TableIsCurrent'
    BY <1>12, Zenon DEF TableIsCurrent
  <2>3. SignaturesKept'
    BY <1>1, SignaturesStay, Zenon DEF IInv
  <2> QED
    BY <2>1, <2>2, <2>3, Zenon
<1> QED
  BY <1>13, <1>14, <1>15, <1>16, <1>20, <1>22, <1>23, <1>24, Zenon DEF IInv

----------------------------------------------------------------------------
(***************************************************************************)
(* The second loop.                                                        *)
(***************************************************************************)
\* A number below the divisor is its own remainder.
LEMMA SmallRemainder ==
  ASSUME NEW x \in Nat, NEW n \in Nat, x < n
  PROVE  x % n = x
OBVIOUS

\* The arguments for n go into the slots of p that lead to n and no others,
\* each list once, since the slots of a terminator lead to different blocks.
LEMMA PassArgsFacts ==
  ASSUME SetFacts, skel \in Skeletons, NEW n, NEW p \in Pred(n), NEW a \in Seq(Values),
         args[p] \in [DOMAIN skel.term[p].dest -> Seq(Values)]
  PROVE  PassArgs(p, n, a) =
           [i \in DOMAIN skel.term[p].dest |->
              IF skel.term[p].dest[i] = n THEN a ELSE args[p][i]]
<1> DEFINE t == skel.term[p]
           to == t.dest
           A == args[p]
<1>1. p \in Blocks /\ \E i \in DOMAIN to : to[i] = n
  BY Zenon DEF Pred, Succ, Dest
<1>2. /\ DOMAIN to \subseteq Nat
      /\ \A i, j \in DOMAIN to : to[i] = to[j] => i = j
      /\ t.op = "none" <=> DOMAIN to = {}
      /\ t.op = "jump" => DOMAIN to = {0}
      /\ t.op = "brif" => DOMAIN to = {0, 1}
      /\ t.op \in {"none", "jump", "brif", "br_table"}
  BY <1>1, SlotFacts, Zenon
<1>3. A = [i \in DOMAIN to |-> A[i]]
  BY Zenon
<1>4. /\ t.op = "jump" => PassArgs(p, n, a) = [A EXCEPT ![0] = a]
      /\ t.op = "brif" => PassArgs(p, n, a) = [A EXCEPT ![IF to[1] = n THEN 1 ELSE 0] = a]
      /\ t.op = "br_table" =>
           PassArgs(p, n, a) =
             [i \in DOMAIN to |->
                IF to[i] # n THEN A[i]
                ELSE LET rank == Cardinality({j \in DOMAIN to : j <= i /\ to[j] = n})
                     IN  [x \in 1 .. (rank * Len(a)) |-> a[((x - 1) % Len(a)) + 1]]]
  BY Zenon DEF PassArgs
<1> HIDE DEF t, to, A
<1>5. CASE t.op = "jump"
  <2>1. DOMAIN to = {0} /\ to[0] = n
    BY <1>1, <1>2, <1>5, Zenon
  <2> QED
    BY <1>3, <1>4, <1>5, <2>1, Zenon DEF to, A, t
<1>6. CASE t.op = "brif"
  <2>1. DOMAIN to = {0, 1} /\ (to[0] = n \/ to[1] = n) /\ to[0] # to[1]
    BY <1>1, <1>2, <1>6
  <2>2. CASE to[1] = n
    BY <1>3, <1>4, <1>6, <2>1, <2>2, Zenon DEF to, A, t
  <2>3. CASE to[1] # n
    BY <1>3, <1>4, <1>6, <2>1, <2>3, Zenon DEF to, A, t
  <2> QED
    BY <2>2, <2>3, Zenon
<1>7. CASE t.op = "br_table"
  <2>1. ASSUME NEW i \in DOMAIN to, to[i] = n
        PROVE  LET rank == Cardinality({j \in DOMAIN to : j <= i /\ to[j] = n})
               IN  [x \in 1 .. (rank * Len(a)) |-> a[((x - 1) % Len(a)) + 1]] = a
    <3>1. {j \in DOMAIN to : j <= i /\ to[j] = n} = {i}
      BY <1>2, <2>1
    <3>2. Cardinality({i}) = 1
      BY Zenon DEF SetFacts
    <3>3. Len(a) \in Nat /\ 1 * Len(a) = Len(a) /\ a = [x \in 1 .. Len(a) |-> a[x]]
      BY SeqFacts
    <3>4. \A x \in 1 .. Len(a) : ((x - 1) % Len(a)) + 1 = x
      <4> SUFFICES ASSUME NEW x \in 1 .. Len(a)
                   PROVE  ((x - 1) % Len(a)) + 1 = x
        BY Zenon
      <4>1. x - 1 \in Nat /\ x - 1 < Len(a) /\ x \in Nat
        BY <3>3
      <4>2. (x - 1) % Len(a) = x - 1
        BY <3>3, <4>1, SmallRemainder, Zenon
      <4> QED
        BY <4>1, <4>2
    <3>5. [x \in 1 .. Len(a) |-> a[((x - 1) % Len(a)) + 1]] = a
      BY <3>3, <3>4, Zenon
    <3> QED
      BY <3>1, <3>2, <3>3, <3>5, Zenon
  <2> DEFINE B(i) == LET rank == Cardinality({j \in DOMAIN to : j <= i /\ to[j] = n})
                     IN  [x \in 1 .. (rank * Len(a)) |-> a[((x - 1) % Len(a)) + 1]]
  <2>2. PassArgs(p, n, a) = [i \in DOMAIN to |-> IF to[i] # n THEN A[i] ELSE B(i)]
    BY <1>4, <1>7, Zenon
  <2>3. \A i \in DOMAIN to : to[i] = n => B(i) = a
    BY <2>1, Zenon
  <2> HIDE DEF B
  <2>4. PassArgs(p, n, a) = [i \in DOMAIN to |-> IF to[i] = n THEN a ELSE A[i]]
    BY <2>2, <2>3, Zenon
  <2> QED
    BY <2>4, Zenon DEF to, A, t
<1> QED
  BY <1>1, <1>2, <1>5, <1>6, <1>7, Zenon

\* Where every type has a value, one can be picked for every type.
LEMMA PicksExist ==
  ASSUME NEW V, NEW T, \A t \in T : \E v \in V : v.type = t
  PROVE  Picks(V, T) # {}
<1> DEFINE f == [t \in T |-> CHOOSE v \in V : v.type = t]
<1>1. \A t \in T : f[t] \in V /\ f[t].type = t
  BY Zenon
<1>2. f \in Picks(V, T)
  BY <1>1, Zenon DEF Picks
<1> QED
  BY <1>2, Zenon

\* The block that the second loop is at, when it has two predecessors or more.
LEMMA SecondLoopFacts ==
  ASSUME SetFacts, IInv, InsertParams
  PROVE  LET n == order[idx]
         IN  /\ pc = "params" /\ idx <= Len(order) /\ skel \in Skeletons
             /\ n \in Blocks \ {Entry} /\ Pred(n) \subseteq Blocks
             /\ DOMAIN defs = Blocks /\ DOMAIN refs = Blocks
             /\ bparams[n] = <<>> /\ refs[n] \subseteq Types /\ IsFiniteSet(refs[n])
<1> DEFINE n == order[idx]
<1>1. pc = "params" /\ idx <= Len(order) /\ Cardinality(Pred(n)) >= 2
  BY Zenon DEF InsertParams
<1>2. /\ skel \in Skeletons /\ n \in Blocks /\ DOMAIN defs = Blocks
      /\ idx \in Nat /\ Len(order) \in Nat
  BY <1>1, OrderFacts DEF Populated
<1>3. Pred(n) # {}
  <2>1. CASE Pred(n) = {}
    BY <1>1, <2>1 DEF SetFacts
  <2> QED
    BY <2>1, Zenon
<1>4. n # Entry
  BY <1>2, <1>3, SkeletonFacts, Zenon DEF Pred
<1>5. DOMAIN refs = Blocks /\ refs[n] \subseteq Types
  BY <1>2 DEF IInv, TypeOK
<1>6. IsFiniteSet(refs[n])
  BY <1>5, GeneratorAssumption, Zenon DEF SetFacts
<1>7. bparams[n] = <<>>
  BY <1>1, <1>2, <1>4 DEF IInv, Parameters
<1> QED
  BY <1>1, <1>2, <1>4, <1>5, <1>6, <1>7, Zenon DEF Pred

\* Every predecessor has a value for every parameter: a type that n reads comes
\* from a block that strictly dominates n, and so dominates its predecessors.
LEMMA ArgumentsExist ==
  ASSUME SetFacts, IInv, InsertParams, NEW p \in Pred(order[idx])
  PROVE  LET n == order[idx]
             D == [defs EXCEPT ![n] = @ \cup {Value(n, t, "param") : t \in refs[n]}]
         IN  Picks(DominatorValues(D, p), refs[n]) # {}
<1> DEFINE n == order[idx]
           D == [defs EXCEPT ![n] = @ \cup {Value(n, t, "param") : t \in refs[n]}]
<1>1. /\ skel \in Skeletons /\ n \in Blocks \ {Entry} /\ DOMAIN defs = Blocks
      /\ p \in Blocks /\ n \in Succ(p)
  BY SecondLoopFacts, Zenon DEF Pred
<1>2. DOMAIN D = Blocks /\ \A d \in Blocks : defs[d] \subseteq D[d]
  BY <1>1, Zenon
<1> HIDE DEF D
<1>3. ASSUME NEW t \in refs[n]
      PROVE  \E v \in DominatorValues(D, p) : v.type = t
  <2>1. PICK d \in Dominators(n) \ {n} : d \in DOMAIN defs /\ \E v \in defs[d] : v.type = t
    BY <1>1 DEF IInv, Tables
  <2>2. d \in Dominators(p)
    BY <1>1, <2>1, DominatesPred, Zenon
  <2>3. PICK v \in defs[d] : v.type = t
    BY <2>1, Zenon
  <2>4. v \in D[d] /\ d \in Dominators(p) \cap DOMAIN D
    BY <1>1, <1>2, <2>1, <2>2, <2>3, Zenon
  <2>5. v \in DominatorValues(D, p)
    BY <2>4, Zenon DEF DominatorValues
  <2> QED
    BY <2>3, <2>5, Zenon
<1>4. Picks(DominatorValues(D, p), refs[n]) # {}
  BY <1>3, PicksExist, Zenon
<1> QED
  BY <1>4, Zenon DEF D

\* What the body of the second loop does, then.
LEMMA InsertParamsStep ==
  ASSUME SetFacts, IInv, InsertParams
  PROVE  LET n == order[idx]
             T == refs[n]
             D == [defs EXCEPT ![n] = @ \cup {Value(n, t, "param") : t \in T}]
             Choices(p) == Picks(DominatorValues(D, p), T)
         IN  \E P \in Orders(T),
                f \in {f \in [Pred(n) -> UNION {Choices(p) : p \in Pred(n)}] :
                         \A p \in Pred(n) : f[p] \in Choices(p)},
                K \in SUBSET {v \in uses[n] : v.type \in T},
                C \in SUBSET {v \in {cond[n]} : IsBranch(n) /\ v.type \in T} :
               /\ bparams' = [bparams EXCEPT ![n] =
                                @ \o [i \in 1 .. Cardinality(T) |-> Value(n, P[i], "param")]]
               /\ defs' = D
               /\ args' = [p \in Blocks |->
                            IF p \in Pred(n)
                            THEN PassArgs(p, n, [i \in 1 .. Cardinality(T) |-> f[p][P[i]]])
                            ELSE args[p]]
               /\ uses' = [uses EXCEPT ![n] =
                             (@ \ K) \cup {Value(n, v.type, "param") : v \in K}]
               /\ cond' = IF C = {} THEN cond
                          ELSE [cond EXCEPT ![n] = Value(n, "i32", "param")]
               /\ idx' = idx + 1
               /\ UNCHANGED <<skel, todo, order, refs, made, ret, calls, pc>>
<1> DEFINE n == order[idx]
           T == refs[n]
           D == [defs EXCEPT ![n] = @ \cup {Value(n, t, "param") : t \in T}]
           Choices(p) == Picks(DominatorValues(D, p), T)
<1>1. ~\E p \in Pred(n) : Choices(p) = {}
  BY ArgumentsExist, Zenon
<1>2. \/ \E p \in Pred(n) : Choices(p) = {}
      \/ \E P \in Orders(T),
            f \in {f \in [Pred(n) -> UNION {Choices(p) : p \in Pred(n)}] :
                     \A p \in Pred(n) : f[p] \in Choices(p)},
            K \in SUBSET {v \in uses[n] : v.type \in T},
            C \in SUBSET {v \in {cond[n]} : IsBranch(n) /\ v.type \in T} :
           /\ bparams' = [bparams EXCEPT ![n] =
                            @ \o [i \in 1 .. Cardinality(T) |-> Value(n, P[i], "param")]]
           /\ defs' = D
           /\ args' = [p \in Blocks |->
                        IF p \in Pred(n)
                        THEN PassArgs(p, n, [i \in 1 .. Cardinality(T) |-> f[p][P[i]]])
                        ELSE args[p]]
           /\ uses' = [uses EXCEPT ![n] =
                         (@ \ K) \cup {Value(n, v.type, "param") : v \in K}]
           /\ cond' = IF C = {} THEN cond
                      ELSE [cond EXCEPT ![n] = Value(n, "i32", "param")]
           /\ idx' = idx + 1
           /\ UNCHANGED <<skel, todo, order, refs, made, ret, calls, pc>>
  BY Zenon DEF InsertParams, ParamTypes, Substitute
<1> QED
  BY <1>1, <1>2, Zenon

\* The same in terms of values: the parameters that n gets, what reads them,
\* and the arguments on the edges to n.
LEMMA InsertParamsFacts ==
  ASSUME SetFacts, IInv, InsertParams
  PROVE  LET n == order[idx]
             New == {Value(n, t, "param") : t \in refs[n]}
         IN  /\ idx' = idx + 1 /\ UNCHANGED <<skel, todo, order, refs, made, ret, calls, pc>>
             /\ DOMAIN defs' = Blocks /\ defs'[n] = defs[n] \cup New
             /\ \A d \in Blocks \ {n} : defs'[d] = defs[d]
             /\ bparams' \in [Blocks -> Seq(Values)] /\ Range(bparams'[n]) = New
             /\ \A c \in Blocks \ {n} : /\ bparams'[c] = bparams[c] /\ uses'[c] = uses[c]
                                        /\ cond'[c] = cond[c]
             /\ uses' \in [Blocks -> SUBSET Values] /\ uses'[n] \subseteq uses[n] \cup New
             /\ DOMAIN cond' = Blocks
             /\ cond'[n] # cond[n] => cond'[n] \in New /\ cond'[n].type = "i32"
             /\ DOMAIN args' = Blocks
             /\ \A b \in Blocks :
                  /\ args'[b] \in [DOMAIN skel.term[b].dest -> Seq(Values)]
                  /\ \A i \in DOMAIN skel.term[b].dest :
                       IF skel.term[b].dest[i] = n
                       THEN /\ TypesOf(args'[b][i]) = TypesOf(bparams'[n])
                            /\ \A v \in Range(args'[b][i]) :
                                 \E d \in Dominators(b) : d \in Blocks /\ v \in defs'[d]
                       ELSE args'[b][i] = args[b][i]
<1> DEFINE n == order[idx]
           T == refs[n]
           New == {Value(n, t, "param") : t \in T}
           D == [defs EXCEPT ![n] = @ \cup {Value(n, t, "param") : t \in T}]
           Choices(p) == Picks(DominatorValues(D, p), T)
<1>1. /\ pc = "params" /\ skel \in Skeletons
      /\ n \in Blocks \ {Entry} /\ Pred(n) \subseteq Blocks
      /\ DOMAIN defs = Blocks /\ DOMAIN refs = Blocks
      /\ bparams[n] = <<>> /\ T \subseteq Types /\ IsFiniteSet(T)
  BY SecondLoopFacts, Zenon
<1>2. PICK P \in Orders(T),
           f \in {f \in [Pred(n) -> UNION {Choices(p) : p \in Pred(n)}] :
                    \A p \in Pred(n) : f[p] \in Choices(p)},
           K \in SUBSET {v \in uses[n] : v.type \in T},
           C \in SUBSET {v \in {cond[n]} : IsBranch(n) /\ v.type \in T} :
        /\ bparams' = [bparams EXCEPT ![n] =
                         @ \o [i \in 1 .. Cardinality(T) |-> Value(n, P[i], "param")]]
        /\ defs' = D
        /\ args' = [p \in Blocks |->
                     IF p \in Pred(n)
                     THEN PassArgs(p, n, [i \in 1 .. Cardinality(T) |-> f[p][P[i]]])
                     ELSE args[p]]
        /\ uses' = [uses EXCEPT ![n] =
                      (@ \ K) \cup {Value(n, v.type, "param") : v \in K}]
        /\ cond' = IF C = {} THEN cond
                   ELSE [cond EXCEPT ![n] = Value(n, "i32", "param")]
        /\ idx' = idx + 1
        /\ UNCHANGED <<skel, todo, order, refs, made, ret, calls, pc>>
  BY InsertParamsStep, Zenon
<1>3. /\ uses \in [Blocks -> SUBSET Values] /\ DOMAIN cond = Blocks
      /\ bparams \in [Blocks -> Seq(Values)] /\ \A d \in Blocks : defs[d] \subseteq Values
      /\ IsBranch(n) => cond[n].type = "i32"
      /\ \A b \in Blocks : args[b] \in [DOMAIN skel.term[b].dest -> Seq(Values)]
  BY <1>1, Zenon DEF IInv, TypeOK
<1>4. Cardinality(T) \in Nat
  BY <1>1 DEF SetFacts
<1>5. P \in [1 .. Cardinality(T) -> T] /\ Range(P) = T
  BY DEF Orders
<1>6. \A p \in Pred(n) : f[p] \in Choices(p)
  OBVIOUS
<1>7. \A t \in T : Value(n, t, "param") \in Values /\ Value(n, t, "param").type = t
  BY <1>1, ValueFacts
<1>8. /\ DOMAIN defs' = Blocks /\ defs'[n] = defs[n] \cup New
      /\ \A d \in Blocks \ {n} : defs'[d] = defs[d]
  BY <1>1, <1>2, Zenon
<1>9. \A d \in Blocks : defs'[d] \subseteq Values
  <2>1. New \subseteq Values
    BY <1>7, Zenon
  <2> HIDE DEF New, n, T, D
  <2> QED
    BY <1>3, <1>8, <2>1
<1> HIDE DEF n, T
<1>10. /\ bparams' \in [Blocks -> Seq(Values)] /\ Range(bparams'[n]) = New
       /\ TypesOf(bparams'[n]) = P
       /\ \A c \in Blocks \ {n} : bparams'[c] = bparams[c]
  <2> DEFINE Q == [i \in 1 .. Cardinality(T) |-> Value(n, P[i], "param")]
  <2>1. Q \in Seq(Values) /\ DOMAIN Q = 1 .. Cardinality(T)
    BY <1>4, <1>5, <1>7
  <2>2. Range(Q) = New
    BY <1>5 DEF Range
  <2>3. TypesOf(Q) = P
    BY <1>5, <1>7 DEF TypesOf
  <2> HIDE DEF Q, New
  <2>4. <<>> \o Q = Q
    BY <2>1
  <2>5. bparams' = [bparams EXCEPT ![n] = Q]
    BY <1>1, <1>2, <1>3, <2>4, Zenon DEF Q
  <2> QED
    BY <1>1, <1>3, <2>1, <2>2, <2>3, <2>5
<1>11. /\ uses' \in [Blocks -> SUBSET Values] /\ uses'[n] \subseteq uses[n] \cup New
       /\ \A c \in Blocks \ {n} : uses'[c] = uses[c]
  <2> DEFINE U == (uses[n] \ K) \cup {Value(n, v.type, "param") : v \in K}
  <2>1. U \subseteq uses[n] \cup New
    OBVIOUS
  <2>2. U \subseteq Values
    BY <1>1, <1>3, <1>7, <2>1
  <2>3. uses' = [uses EXCEPT ![n] = U]
    BY <1>1, <1>2, <1>3, Zenon
  <2> HIDE DEF U, New
  <2> QED
    BY <1>1, <1>3, <2>1, <2>2, <2>3
<1>12. /\ DOMAIN cond' = Blocks /\ \A c \in Blocks \ {n} : cond'[c] = cond[c]
       /\ cond'[n] # cond[n] => cond'[n] \in New /\ cond'[n].type = "i32"
  <2>1. CASE C = {}
    BY <1>2, <1>3, <2>1, Zenon
  <2>2. CASE C # {}
    <3>1. "i32" \in T
      BY <1>3, <2>2
    <3>2. cond' = [cond EXCEPT ![n] = Value(n, "i32", "param")]
      BY <1>2, <2>2
    <3>3. Value(n, "i32", "param") \in New /\ Value(n, "i32", "param").type = "i32"
      BY <1>7, <3>1
    <3> QED
      BY <1>1, <1>3, <3>2, <3>3
  <2> QED
    BY <2>1, <2>2
<1>13. ASSUME NEW b \in Pred(n)
       PROVE  LET a == [i \in 1 .. Cardinality(T) |-> f[b][P[i]]]
              IN  /\ a \in Seq(Values) /\ TypesOf(a) = P
                  /\ \A v \in Range(a) :
                       \E d \in Dominators(b) : d \in Blocks /\ v \in defs'[d]
  <2> DEFINE V == DominatorValues(D, b)
             a == [i \in 1 .. Cardinality(T) |-> f[b][P[i]]]
  <2>1. f[b] \in [T -> V] /\ \A t \in T : f[b][t].type = t
    BY <1>6, <1>13, Zenon DEF Picks
  <2>2. \A v \in V : \E d \in Dominators(b) : d \in Blocks /\ v \in defs'[d]
    <3>1. V = DominatorValues(defs', b)
      BY <1>2
    <3> HIDE DEF V
    <3> QED
      BY <1>8, <3>1 DEF DominatorValues
  <2> HIDE DEF V
  <2>3. \A i \in 1 .. Cardinality(T) : a[i] \in V /\ a[i].type = P[i]
    BY <1>5, <2>1
  <2>4. V \subseteq Values
    BY <1>9, <2>2
  <2>5. a \in Seq(Values)
    BY <1>4, <2>3, <2>4
  <2>6. TypesOf(a) = P
    BY <1>5, <2>3 DEF TypesOf
  <2>7. \A v \in Range(a) : v \in V
    BY <2>3 DEF Range
  <2> QED
    BY <2>2, <2>5, <2>6, <2>7
<1>14. ASSUME NEW b \in Blocks
       PROVE  /\ args'[b] \in [DOMAIN skel.term[b].dest -> Seq(Values)]
              /\ \A i \in DOMAIN skel.term[b].dest :
                   IF skel.term[b].dest[i] = n
                   THEN /\ TypesOf(args'[b][i]) = TypesOf(bparams'[n])
                        /\ \A v \in Range(args'[b][i]) :
                             \E d \in Dominators(b) : d \in Blocks /\ v \in defs'[d]
                   ELSE args'[b][i] = args[b][i]
  <2>1. CASE b \in Pred(n)
    <3> DEFINE a == [i \in 1 .. Cardinality(T) |-> f[b][P[i]]]
    <3>1. /\ a \in Seq(Values) /\ TypesOf(a) = P
          /\ \A v \in Range(a) : \E d \in Dominators(b) : d \in Blocks /\ v \in defs'[d]
      BY <1>13, <2>1, Zenon
    <3>2. args'[b] = PassArgs(b, n, a)
      BY <1>2, <2>1
    <3> HIDE DEF a
    <3>3. skel \in Skeletons /\ args[b] \in [DOMAIN skel.term[b].dest -> Seq(Values)]
      BY <1>1, <1>3
    <3>4. PassArgs(b, n, a) = [i \in DOMAIN skel.term[b].dest |->
                                 IF skel.term[b].dest[i] = n THEN a ELSE args[b][i]]
      <4>1. a \in Seq(Values)
        BY <3>1
      <4> QED
        BY <2>1, <3>3, <4>1, PassArgsFacts
    <3>5. args'[b] \in [DOMAIN skel.term[b].dest -> Seq(Values)]
      BY <3>1, <3>2, <3>3, <3>4
    <3>6. \A i \in DOMAIN skel.term[b].dest :
            args'[b][i] = IF skel.term[b].dest[i] = n THEN a ELSE args[b][i]
      BY <3>2, <3>4
    <3>7. TypesOf(a) = TypesOf(bparams'[n])
      BY <1>10, <3>1
    <3> QED
      BY <3>1, <3>5, <3>6, <3>7, Zenon
  <2>2. CASE b \notin Pred(n)
    <3>1. args'[b] = args[b]
      BY <1>2, <2>2
    <3>2. \A i \in DOMAIN skel.term[b].dest : skel.term[b].dest[i] # n
      BY <2>2 DEF Pred, Succ, Dest
    <3> QED
      BY <1>3, <3>1, <3>2
  <2> QED
    BY <2>1, <2>2, Zenon
<1>15. DOMAIN args' = Blocks
  BY <1>2
<1>16. idx' = idx + 1 /\ UNCHANGED <<skel, todo, order, refs, made, ret, calls, pc>>
  BY <1>2
<1> HIDE DEF New
<1>17. New = {Value(n, t, "param") : t \in refs[n]}
  BY DEF New, T
<1> QED
  BY <1>8, <1>10, <1>11, <1>12, <1>14, <1>15, <1>16, <1>17, Zenon DEF n

\* Inserting the parameters of a block keeps the invariant.
LEMMA InsertParamsInv ==
  ASSUME SetFacts, IInv, InsertParams
  PROVE  IInv'
<1> DEFINE n == order[idx]
           New == {Value(n, t, "param") : t \in refs[n]}
<1>1. /\ pc = "params" /\ idx <= Len(order) /\ skel \in Skeletons
      /\ n \in Blocks \ {Entry} /\ DOMAIN defs = Blocks /\ DOMAIN refs = Blocks
      /\ bparams[n] = <<>> /\ refs[n] \subseteq Types
  BY SecondLoopFacts
<1>2. /\ idx' = idx + 1 /\ UNCHANGED <<skel, todo, order, refs, made, ret, calls, pc>>
      /\ DOMAIN defs' = Blocks /\ defs'[n] = defs[n] \cup New
      /\ \A d \in Blocks \ {n} : defs'[d] = defs[d]
  BY InsertParamsFacts, Zenon
<1>3. /\ bparams' \in [Blocks -> Seq(Values)] /\ Range(bparams'[n]) = New
      /\ uses' \in [Blocks -> SUBSET Values] /\ uses'[n] \subseteq uses[n] \cup New
      /\ \A c \in Blocks \ {n} : /\ bparams'[c] = bparams[c] /\ uses'[c] = uses[c]
                                 /\ cond'[c] = cond[c]
      /\ DOMAIN cond' = Blocks
      /\ cond'[n] # cond[n] => cond'[n] \in New /\ cond'[n].type = "i32"
  BY InsertParamsFacts, Zenon
<1>4. /\ DOMAIN args' = Blocks
      /\ \A b \in Blocks :
           /\ args'[b] \in [DOMAIN skel.term[b].dest -> Seq(Values)]
           /\ \A i \in DOMAIN skel.term[b].dest :
                IF skel.term[b].dest[i] = n
                THEN /\ TypesOf(args'[b][i]) = TypesOf(bparams'[n])
                     /\ \A v \in Range(args'[b][i]) :
                          \E d \in Dominators(b) : d \in Blocks /\ v \in defs'[d]
                ELSE args'[b][i] = args[b][i]
  BY InsertParamsFacts, Zenon
<1>5. \A v \in New : v \in Values /\ v.block = n /\ v.kind = "param"
  <2>1. ASSUME NEW t \in refs[n]
        PROVE  /\ Value(n, t, "param") \in Values /\ Value(n, t, "param").block = n
               /\ Value(n, t, "param").kind = "param"
    BY <1>1, ValueFacts
  <2> TAKE v \in New
  <2>2. PICK t \in refs[n] : v = Value(n, t, "param")
    OBVIOUS
  <2> QED
    BY <2>1, <2>2, Zenon
<1>6. n \in Dominators(n) /\ \A b \in Blocks : Dominators(b) \subseteq Blocks
  BY <1>1, SelfDominates, DominatorsInBlocks
<1>7. /\ Blocks' = Blocks /\ Values' = Values /\ Callees' = Callees
      /\ \A c : /\ Dominators(c)' = Dominators(c) /\ IsBranch(c)' = IsBranch(c)
                /\ Succ(c)' = Succ(c)
  BY <1>2, SkelStays, Zenon
<1>8. \A v, c :
        v.block \in Dominators(c) /\ Exists(v)' =>
          /\ (v.block = c => v.kind # "call") => Available(v, c)'
          /\ (v.block = c => v.kind \notin {"call", "inst"}) => AvailableEarly(v, c)'
  BY <1>2, AvailableNext, Zenon
<1>9. /\ idx \in Nat \ {0} /\ Len(order) \in Nat
      /\ \A i, j \in 1 .. Len(order) : order[i] = order[j] => i = j
  BY <1>1, OrderFacts, Zenon
<1>10. \A j \in idx' .. Len(order) : order[j] # n
  BY <1>1, <1>2, <1>9
<1> HIDE DEF n, New
<1>11. \A v : v.block \in Blocks /\ Exists(v) => Exists(v)'
  <2>1. Range(bparams[n]) = {}
    BY <1>1 DEF Range
  <2>2. \A c \in Blocks : made'[c] = made[c] /\ Range(bparams[c]) \subseteq Range(bparams'[c])
    BY <1>2, <1>3, <2>1, Zenon
  <2> QED
    BY <2>2 DEF Exists
<1>12. \A v \in New : Exists(v)'
  BY <1>3, <1>5, Zenon DEF Exists
<1>13. \A b \in Blocks : \A v :
         /\ Available(v, b) => Available(v, b)'
         /\ AvailableEarly(v, b) => AvailableEarly(v, b)'
  <2> SUFFICES ASSUME NEW b \in Blocks, NEW v
               PROVE  /\ Available(v, b) => Available(v, b)'
                      /\ AvailableEarly(v, b) => AvailableEarly(v, b)'
    OBVIOUS
  <2>1. Available(v, b) => Exists(v)'
    BY <1>6, <1>11 DEF Available
  <2> QED
    BY <1>8, <2>1 DEF Available, AvailableEarly
<1>14. \A d \in Blocks : \A v \in defs'[d] :
         v \in Values /\ v.block = d /\ v.kind # "call" /\ Exists(v)'
  <2>1. ASSUME NEW d \in Blocks, NEW v \in defs[d]
        PROVE  v \in Values /\ v.block = d /\ v.kind # "call" /\ Exists(v)'
    <3>1. v \in Values
      BY <1>1 DEF IInv, TypeOK
    <3>2. v.kind # "call"
      BY <1>1, Zenon DEF IInv, Tables
    <3>3. v.block = d /\ Exists(v)
      BY <1>1 DEF IInv, TableIsCurrent
    <3> QED
      BY <1>11, <3>1, <3>2, <3>3
  <2> QED
    BY <1>2, <1>5, <1>12, <2>1
<1>15. TypeOK'
  <2>1. \A b \in Blocks : refs'[b] \subseteq Types
    BY <1>1, <1>2, Zenon DEF IInv, TypeOK
  <2>2. \A d \in Blocks : defs'[d] \subseteq Values
    BY <1>14, Zenon
  <2>3. \A c \in Blocks : IsBranch(c) => cond'[c].type = "i32"
    BY <1>3, Zenon DEF IInv, TypeOK
  <2>4. idx' \in Nat \ {0} /\ pc' = "params" /\ DOMAIN refs' = Blocks
    BY <1>1, <1>2, <1>9
  <2>5. /\ todo \in Seq(Blocks) /\ order \in Seq(Blocks)
        /\ made \in [Blocks -> SUBSET Values]
        /\ ret \subseteq [block : Blocks, values : SUBSET Values]
        /\ calls \in Seq([block : Blocks, args : SUBSET Values])
    BY Zenon DEF IInv, TypeOK
  <2> QED
    BY <1>1, <1>2, <1>3, <1>4, <1>7, <2>1, <2>2, <2>3, <2>4, <2>5, Zenon DEF TypeOK
<1>16. NoPanic' /\ Listing'
  BY <1>1, <1>2, ListingStays, Zenon DEF IInv, NoPanic
<1>17. Position'
  BY <1>1, <1>2, <1>9 DEF IInv, Position
<1>18. Tables'
  <2>1. DOMAIN defs' = Populated'
    BY <1>1, <1>2, <1>7 DEF Populated
  <2>2. \A d \in Blocks : defs[d] \subseteq defs'[d]
    BY <1>2
  <2>3. \A t \in OperandTypes : \E v \in defs'[Entry] : v.type = t
    BY <1>1, <2>2, SkeletonFacts DEF IInv, Tables
  <2>4. ASSUME NEW c \in Blocks \ {Entry}, NEW t \in refs'[c]
        PROVE  \E d \in Dominators(c) \ {c} :
                 d \in DOMAIN defs' /\ \E v \in defs'[d] : v.type = t
    <3>1. PICK d \in Dominators(c) \ {c} : d \in DOMAIN defs /\ \E v \in defs[d] : v.type = t
      BY <1>1, <1>2, <2>4, Zenon DEF IInv, Tables
    <3> QED
      BY <1>1, <1>2, <2>2, <3>1
  <2> QED
    <3>1. \A b \in DOMAIN defs' : \A v \in defs'[b] : v.kind # "call"
      BY <1>2, <1>14, Zenon
    <3>2. \A b \in DOMAIN defs' \ {Entry} : \A t \in refs'[b] :
            \E d \in Dominators(b)' \ {b} : d \in DOMAIN defs' /\ \E v \in defs'[d] : v.type = t
      <4> SUFFICES ASSUME NEW b \in Blocks \ {Entry}, NEW t \in refs'[b]
                   PROVE  \E d \in Dominators(b) \ {b} :
                            d \in DOMAIN defs' /\ \E v \in defs'[d] : v.type = t
        BY <1>2, <1>7
      <4> QED
        BY <2>4, Zenon
    <3> QED
      BY <2>1, <2>3, <3>1, <3>2, Zenon DEF Tables
<1>19. ASSUME NEW c \in Blocks, NEW v \in uses'[c]
       PROVE  v.block \in Blocks /\ AvailableEarly(v, c)'
  <2>1. CASE v \in uses[c]
    <3>1. v.block \in Blocks
      BY <1>1, <2>1, Zenon DEF IInv, Readable
    <3>2. AvailableEarly(v, c)
      BY <2>1 DEF IInv, DefsDominateUses
    <3> QED
      BY <1>13, <3>1, <3>2
  <2>2. CASE v \notin uses[c]
    <3>1. c = n /\ v \in New
      BY <1>3, <1>19, <2>2
    <3> QED
      BY <1>1, <1>5, <1>6, <1>8, <1>12, <3>1
  <2> QED
    BY <2>1, <2>2
<1>20. ASSUME NEW c \in Blocks, IsBranch(c), NEW w, w = cond'[c]
       PROVE  w.block \in Blocks /\ Available(w, c)'
  <2>1. CASE w = cond[c]
    <3>1. w.block \in Blocks /\ Available(w, c)
      BY <1>1, <1>20, <2>1 DEF IInv, Readable
    <3> QED
      BY <1>13, <3>1
  <2>2. CASE w # cond[c]
    <3>1. c = n /\ w \in New
      BY <1>3, <1>20, <2>2
    <3> QED
      BY <1>1, <1>5, <1>6, <1>8, <1>12, <3>1
  <2> QED
    BY <2>1, <2>2
<1>21. Readable'
  BY <1>2, <1>7, <1>19, <1>20, Zenon DEF Readable
<1>22. Parameters'
  <2>1. \A j \in idx' .. Len(order) : order[j] # Entry => bparams'[order[j]] = <<>>
    <3>1. ASSUME NEW j \in idx' .. Len(order), order[j] # Entry
          PROVE  bparams'[order[j]] = <<>>
      <4>1. j \in idx .. Len(order) /\ j \in 1 .. Len(order)
        BY <1>2, <1>9
      <4>2. order[j] \in Blocks \ {n}
        BY <1>1, <1>10, <4>1, OrderFacts
      <4>3. bparams[order[j]] = <<>>
        BY <1>1, <3>1, <4>1 DEF IInv, Parameters
      <4> QED
        BY <1>3, <4>2, <4>3
    <3> QED
      BY <3>1
  <2>2. pc' = "params" /\ order' = order /\ DOMAIN defs' = Blocks'
    BY <1>1, <1>2, <1>7
  <2> QED
    BY <2>1, <2>2 DEF Parameters
<1>23. ASSUME NEW b \in Blocks, NEW i \in DOMAIN args'[b], NEW v \in Range(args'[b][i])
       PROVE  Available(v, b)'
  <2>1. i \in DOMAIN skel.term[b].dest /\ DOMAIN args[b] = DOMAIN skel.term[b].dest
    BY <1>4, Zenon DEF IInv, TypeOK
  <2>2. CASE skel.term[b].dest[i] # n
    <3>1. v \in Range(args[b][i])
      BY <1>4, <2>1, <2>2, Zenon
    <3>2. Available(v, b)
      BY <2>1, <3>1, Zenon DEF IInv, DefsDominateUses
    <3> QED
      BY <1>13, <3>2
  <2>3. CASE skel.term[b].dest[i] = n
    <3>1. PICK d \in Dominators(b) : d \in Blocks /\ v \in defs'[d]
      BY <1>4, <2>1, <2>3, Zenon
    <3>2. v.block = d /\ v.kind # "call" /\ Exists(v)'
      BY <1>14, <3>1
    <3> QED
      BY <1>8, <3>1, <3>2
  <2> QED
    BY <2>2, <2>3
<1>24. DefsDominateUses'
  <2>1. ret = {} /\ Range(calls) = {}
    BY <1>1 DEF IInv, Position, Range
  <2> QED
    BY <1>2, <1>7, <1>19, <1>23, <2>1, Zenon DEF DefsDominateUses
<1>25. ASSUME NEW b \in Blocks, NEW i \in DOMAIN args'[b]
       PROVE  TypesOf(args'[b][i]) = TypesOf(bparams'[skel.term[b].dest[i]])
  <2>1. i \in DOMAIN skel.term[b].dest /\ DOMAIN args[b] = DOMAIN skel.term[b].dest
    BY <1>4, Zenon DEF IInv, TypeOK
  <2>2. CASE skel.term[b].dest[i] # n
    <3>1. TypesOf(args[b][i]) = TypesOf(bparams[skel.term[b].dest[i]])
      BY <1>1, <2>1, Zenon DEF IInv, EdgesMatchParams
    <3>2. skel.term[b].dest[i] \in Blocks
      <4>1. skel.term[b].dest[i] \in Succ(b)
        BY <2>1, Zenon DEF Succ, Dest
      <4>2. Succ(b) \subseteq Blocks
        BY <1>1, SkeletonFacts
      <4> QED
        BY <4>1, <4>2, Zenon
    <3> QED
      BY <1>3, <1>4, <2>1, <2>2, <3>1, <3>2, Zenon
  <2>3. CASE skel.term[b].dest[i] = n
    BY <1>4, <2>1, <2>3, Zenon
  <2> QED
    BY <2>2, <2>3, Zenon
<1>26. EdgesMatchParams'
  <2>1. skel' = skel /\ Blocks' = Blocks
    BY <1>2, <1>7
  <2>2. \A b \in Blocks' : \A i \in DOMAIN args'[b] :
          TypesOf(args'[b][i]) = TypesOf(bparams'[skel'.term[b].dest[i]])
    BY <1>25, <2>1, Zenon
  <2> QED
    BY <2>2, Zenon DEF EdgesMatchParams, TypesOf
<1>27. TableIsCurrent'
  BY <1>2, <1>14 DEF TableIsCurrent
<1>28. SignaturesKept'
  BY <1>2, SignaturesStay DEF IInv
<1> QED
  BY <1>15, <1>16, <1>17, <1>18, <1>21, <1>22, <1>24, <1>26, <1>27, <1>28 DEF IInv

=============================================================================
