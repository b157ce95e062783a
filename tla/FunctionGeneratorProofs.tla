---------------------- MODULE FunctionGeneratorProofs ----------------------
(***************************************************************************)
(* Proofs about module FunctionGenerator, second part, with its theorems:  *)
(* for any skeletons the constructor may build, any types, signatures and  *)
(* callees, every value that is read is defined in a block that dominates  *)
(* the reader, every edge passes the parameters of its target, and no      *)
(* lookup fails.                                                           *)
(*                                                                         *)
(* LoopProofs is about the loops of function_generator; here are what they *)
(* use of finite sets, the return and the calls inserted after the loops.  *)
(***************************************************************************)
EXTENDS LoopProofs, FiniteSetTheorems

\* The tables are as good as they were when they have not changed.
LEMMA TablesStay ==
  ASSUME Tables, UNCHANGED <<skel, defs, refs>>, Populated' = Populated
  PROVE  Tables'
<1>1. \A b : Dominators(b)' = Dominators(b)
  BY SkelStays, Zenon
<1>2. defs' = defs /\ refs' = refs
  BY Zenon
<1>3. DOMAIN defs' = Populated'
  BY <1>2, Zenon DEF Tables
<1>4. \A b \in DOMAIN defs' : \A v \in defs'[b] : v.kind # "call"
  BY <1>2, Zenon DEF Tables
<1>5. Entry \in DOMAIN defs' => \A t \in OperandTypes : \E v \in defs'[Entry] : v.type = t
  BY <1>2, Zenon DEF Tables
<1>6. \A b \in DOMAIN defs' \ {Entry} : \A t \in refs'[b] :
        \E d \in Dominators(b)' \ {b} : d \in DOMAIN defs' /\ \E v \in defs'[d] : v.type = t
  <2> SUFFICES ASSUME NEW b \in DOMAIN defs \ {Entry}, NEW t \in refs[b]
               PROVE  \E d \in Dominators(b) \ {b} :
                        d \in DOMAIN defs /\ \E v \in defs[d] : v.type = t
    BY <1>1, <1>2
  <2> QED
    BY Zenon DEF Tables
<1> QED
  BY <1>3, <1>4, <1>5, <1>6, Zenon DEF Tables

\* Ascending lists the elements of a finite set of numbers: how many are smaller
\* is a different number for each of them, so that every rank is taken.
LEMMA AscendingLists ==
  ASSUME NEW S \in SUBSET Nat, IsFiniteSet(S)
  PROVE  Ascending(S) \in Seq(S) /\ Range(Ascending(S)) = S
<1> DEFINE N == Cardinality(S)
           Below(b) == {c \in S : c < b}
           Rank(b) == Cardinality(Below(b))
           r == [b \in S |-> Rank(b) + 1]
<1>1. N \in Nat
  BY FS_CardinalityType, Zenon
<1>2. ASSUME NEW b \in S
      PROVE  IsFiniteSet(Below(b)) /\ Rank(b) \in Nat /\ Rank(b) < N
  <2>1. Below(b) \subseteq S /\ b \in S /\ b \notin Below(b)
    OBVIOUS
  <2>2. IsFiniteSet(Below(b)) /\ Rank(b) <= N /\ (Rank(b) = N => Below(b) = S)
    BY <2>1, FS_Subset, Zenon
  <2>3. Rank(b) \in Nat
    BY <2>2, FS_CardinalityType, Zenon
  <2> QED
    BY <1>1, <2>1, <2>2, <2>3
<1>3. ASSUME NEW b \in S, NEW c \in S, c < b
      PROVE  Rank(c) < Rank(b)
  <2>0. b \in Nat /\ c \in Nat /\ \A x \in S : x \in Nat
    BY Zenon
  <2>a. \A x \in S : x < c => x < b
    BY <1>3, <2>0
  <2>b. ~(c < c)
    BY <2>0
  <2>1. Below(c) \subseteq Below(b) /\ c \in Below(b) /\ c \notin Below(c)
    BY <1>3, <2>a, <2>b, Zenon
  <2>2. Rank(c) <= Rank(b) /\ (Rank(c) = Rank(b) => Below(c) = Below(b))
    BY <1>2, <2>1, FS_Subset, Zenon
  <2> QED
    BY <1>2, <2>1, <2>2
<1> HIDE DEF Rank, Below
<1>4. \A b, c \in S : Rank(b) = Rank(c) => b = c
  <2> TAKE b, c \in S
  <2>1. b < c \/ c < b \/ b = c
    OBVIOUS
  <2> QED
    BY <1>2, <1>3, <2>1
<1>5. r \in Injection(S, 1 .. N)
  <2>1. r \in [S -> 1 .. N]
    BY <1>1, <1>2
  <2>2. \A b, c \in S : r[b] = r[c] => b = c
    BY <1>2, <1>4
  <2> QED
    BY <2>1, <2>2, Zenon DEF Injection, IsInjective
<1>6. IsFiniteSet(1 .. N) /\ Cardinality(1 .. N) = N
  BY <1>1, FS_Interval
<1>7. r \in Surjection(S, 1 .. N)
  <2> HIDE DEF r, N
  <2> QED
    BY <1>5, <1>6, FS_Injection, Zenon DEF N
<1>8. ASSUME NEW i \in 1 .. N PROVE \E b \in S : Rank(b) = i - 1
  <2>1. PICK b \in S : r[b] = i
    BY <1>7, Zenon DEF Surjection
  <2>2. Rank(b) + 1 = i /\ Rank(b) \in Nat
    BY <1>2, <2>1, Zenon
  <2> QED
    BY <2>2
<1> DEFINE a == Ascending(S)
<1>9. a = [i \in 1 .. N |-> CHOOSE b \in S : Rank(b) = i - 1]
  BY Zenon DEF Ascending, Rank, Below
<1>10. \A i \in 1 .. N : a[i] \in S /\ Rank(a[i]) = i - 1
  BY <1>8, <1>9, Zenon
<1>11. a \in [1 .. N -> S]
  BY <1>9, <1>10, Zenon
<1>12. a \in Seq(S)
  BY <1>1, <1>11
<1>13. ASSUME NEW b \in S PROVE \E i \in 1 .. N : a[i] = b
  <2>1. Rank(b) + 1 \in 1 .. N /\ (Rank(b) + 1) - 1 = Rank(b)
    BY <1>1, <1>2
  <2>2. a[Rank(b) + 1] \in S /\ Rank(a[Rank(b) + 1]) = Rank(b)
    BY <1>10, <2>1, Zenon
  <2> QED
    BY <1>4, <2>1, <2>2, Zenon
<1>14. Range(a) = S
  BY <1>11, <1>13, Zenon DEF Range
<1> QED
  BY <1>12, <1>14, Zenon

\* What the lemmas about the loops suppose of finite sets.
LEMMA SetFactsHold == SetFacts
<1>1. \A S : IsFiniteSet(S) => Cardinality(S) \in Nat
  BY FS_CardinalityType, Zenon
<1>2. \A S, T : IsFiniteSet(S) /\ T \subseteq S => IsFiniteSet(T)
  BY FS_Subset, Zenon
<1>3. Cardinality({}) = 0
  BY FS_EmptySet, Zenon
<1>4. \A x : Cardinality({x}) = 1
  BY FS_Singleton, Zenon
<1>5. \A S \in SUBSET Nat :
        IsFiniteSet(S) => Ascending(S) \in Seq(S) /\ Range(Ascending(S)) = S
  BY AscendingLists, Zenon
<1> QED
  BY <1>1, <1>2, <1>3, <1>4, <1>5, Zenon DEF SetFacts

----------------------------------------------------------------------------
(***************************************************************************)
(* The return.                                                             *)
(***************************************************************************)
\* get_last_block finds the only block without a successor.
LEMMA LastBlockFacts ==
  ASSUME IInv, pc # "dfs"
  PROVE  LastBlock \in Blocks /\ {b \in Blocks : Succ(b) = {}} = {LastBlock}
<1> DEFINE G(i) == Succ(order[i]) = {} /\ \A j \in 1 .. (i - 1) : Succ(order[j]) # {}
           x == CHOOSE i \in 1 .. Len(order) : G(i)
<1>1. /\ skel \in Skeletons /\ Len(order) \in Nat
      /\ \A i \in 1 .. Len(order) : order[i] \in Blocks
      /\ \A i, j \in 1 .. Len(order) : order[i] = order[j] => i = j
      /\ \A b \in Blocks : \E i \in 1 .. Len(order) : order[i] = b
  BY OrderFacts, Zenon
<1>2. PICK e \in Blocks : \A b \in Blocks : Succ(b) = {} <=> b = e
  BY <1>1, ExitFacts, Zenon
<1>3. PICK k \in 1 .. Len(order) : order[k] = e
  BY <1>1, <1>2, Zenon
<1>4. G(k)
  <2>1. \A j \in 1 .. (k - 1) : j \in 1 .. Len(order) /\ order[j] # e
    BY <1>1, <1>3
  <2> QED
    BY <1>1, <1>2, <1>3, <2>1, Zenon
<1>5. x \in 1 .. Len(order) /\ G(x)
  BY <1>4, Zenon
<1>6. LastBlock = order[x]
  BY Zenon DEF LastBlock
<1> HIDE DEF x
<1>7. LastBlock \in Blocks /\ Succ(LastBlock) = {}
  BY <1>1, <1>5, <1>6, Zenon
<1> QED
  BY <1>2, <1>7, Zenon

\* A value of every operand type can be picked for any block once the first
\* loop is over, since the entry block has one, and what is picked is available.
LEMMA PicksFit ==
  ASSUME IInv, pc \in {"return", "calls"}, NEW b \in Blocks, NEW T \in SUBSET OperandTypes
  PROVE  /\ Picks(DominatorValues(defs, b), T) # {}
         /\ \A f \in Picks(DominatorValues(defs, b), T) :
              /\ Range(f) \subseteq Values /\ {v.type : v \in Range(f)} = T
              /\ \A v \in Range(f) : Available(v, b)
<1> DEFINE V == DominatorValues(defs, b)
<1>1. skel \in Skeletons /\ DOMAIN defs = Blocks /\ Entry \in Blocks
  BY OrderFacts, SkeletonFacts, Zenon DEF Populated
<1>2. \A t \in T : \E v \in V : v.type = t
  <2> SUFFICES ASSUME NEW t \in T
               PROVE  \E v \in V : v.type = t
    BY Zenon
  <2>1. PICK v \in defs[Entry] : v.type = t
    BY <1>1, Zenon DEF IInv, Tables
  <2>2. Entry \in Dominators(b) \cap DOMAIN defs
    BY <1>1, EntryDominates, Zenon
  <2>3. v \in V
    BY <2>2, Zenon DEF DominatorValues
  <2> QED
    BY <2>1, <2>3, Zenon
<1>3. \A v \in V : v \in Values /\ Available(v, b)
  <2> SUFFICES ASSUME NEW v \in V
               PROVE  v \in Values /\ Available(v, b)
    BY Zenon
  <2>1. PICK d \in Dominators(b) \cap DOMAIN defs : v \in defs[d]
    BY Zenon DEF DominatorValues
  <2>2. v \in Values
    BY <2>1, Zenon DEF IInv, TypeOK
  <2>3. v.kind # "call"
    BY <2>1, Zenon DEF IInv, Tables
  <2>4. v.block = d /\ Exists(v)
    BY <2>1, Zenon DEF IInv, TableIsCurrent
  <2> QED
    BY <2>1, <2>2, <2>3, <2>4, Zenon DEF Available
<1> HIDE DEF V
<1>4. Picks(V, T) # {}
  BY <1>2, PicksExist, Zenon
<1>5. ASSUME NEW f \in Picks(V, T)
      PROVE  Range(f) \subseteq V /\ {v.type : v \in Range(f)} = T
  <2>1. f \in [T -> V] /\ \A t \in T : f[t].type = t
    BY Zenon DEF Picks
  <2>2. Range(f) = {f[t] : t \in T}
    BY <2>1, Zenon DEF Range
  <2> QED
    BY <2>1, <2>2
<1> QED
  BY <1>3, <1>4, <1>5, Zenon DEF V

\* The return keeps the invariant.
LEMMA InsertReturnInv ==
  ASSUME IInv, InsertReturn
  PROVE  IInv'
<1> DEFINE e == LastBlock
           V == DominatorValues(defs, e)
<1>1. pc = "return" /\ skel \in Skeletons
  BY Zenon DEF InsertReturn, IInv, TypeOK
<1>2. e \in Blocks /\ {b \in Blocks : Succ(b) = {}} = {e}
  BY <1>1, LastBlockFacts, Zenon
<1>3. ReturnTypes \in SUBSET OperandTypes
  BY GeneratorAssumption, Zenon
<1>4. /\ Picks(V, ReturnTypes) # {}
      /\ \A f \in Picks(V, ReturnTypes) :
           /\ Range(f) \subseteq Values /\ {v.type : v \in Range(f)} = ReturnTypes
           /\ \A v \in Range(f) : Available(v, e)
  BY <1>1, <1>2, <1>3, PicksFit, Zenon
<1>5. PICK f \in Picks(V, ReturnTypes) : ret' = {[block |-> e, values |-> Range(f)]}
  BY <1>4, Zenon DEF InsertReturn
<1>6. /\ pc' = "calls"
      /\ UNCHANGED <<skel, todo, order, idx, defs, refs, bparams, uses, made, cond,
                     args, calls>>
  BY <1>4, Zenon DEF InsertReturn
<1> HIDE DEF e, V
<1>7. /\ Blocks' = Blocks /\ Values' = Values /\ Callees' = Callees
      /\ \A c : /\ Dominators(c)' = Dominators(c) /\ IsBranch(c)' = IsBranch(c)
                /\ Succ(c)' = Succ(c)
  BY <1>6, SkelStays, Zenon
<1>8. idx = 1 /\ calls = <<>> /\ Len(calls) = 0 /\ Len(Callees) \in Nat
  BY <1>1, GeneratorAssumption DEF IInv, Position, Callees
<1>9. \A v, b : Available(v, b) => Available(v, b)'
  BY <1>6, ExistsStays, AvailableStays, Zenon
<1>10. \A v, b : AvailableEarly(v, b) => AvailableEarly(v, b)'
  BY <1>6, ExistsStays, AvailableStays, Zenon
<1>11. TypeOK'
  <2>1. ret' \subseteq [block : Blocks, values : SUBSET Values]
    <3> DEFINE W == Range(f)
    <3>1. W \in SUBSET Values
      BY <1>4, Zenon
    <3>2. ret' = {[block |-> e, values |-> W]}
      BY <1>5, Zenon
    <3> HIDE DEF W
    <3> QED
      BY <1>2, <3>1, <3>2
  <2>2. /\ order \in Seq(Blocks) /\ todo \in Seq(Blocks) /\ idx \in Nat \ {0}
        /\ DOMAIN defs \subseteq Blocks /\ \A b \in DOMAIN defs : defs[b] \subseteq Values
        /\ DOMAIN refs = DOMAIN defs /\ \A b \in DOMAIN refs : refs[b] \subseteq Types
        /\ bparams \in [Blocks -> Seq(Values)]
        /\ uses \in [Blocks -> SUBSET Values] /\ made \in [Blocks -> SUBSET Values]
    BY Zenon DEF IInv, TypeOK
  <2>3. /\ DOMAIN cond = Blocks /\ \A b \in Blocks : IsBranch(b) => cond[b].type = "i32"
        /\ DOMAIN args = Blocks
        /\ \A b \in Blocks : args[b] \in [DOMAIN skel.term[b].dest -> Seq(Values)]
        /\ calls \in Seq([block : Blocks, args : SUBSET Values])
    BY Zenon DEF IInv, TypeOK
  <2> QED
    BY <1>1, <1>6, <1>7, <2>1, <2>2, <2>3, Zenon DEF TypeOK
<1>12. NoPanic' /\ Listing'
  BY <1>1, <1>6, ListingStays, Zenon DEF IInv, NoPanic
<1>13. Position'
  BY <1>6, <1>7, <1>8 DEF Position
<1>14. Tables'
  <2>1. Populated' = Populated
    BY <1>1, <1>6, <1>7, Zenon DEF Populated
  <2> QED
    BY <1>6, <2>1, TablesStay, Zenon DEF IInv
<1>15. Readable'
  BY <1>6, ReadableStays, Zenon DEF IInv
<1>16. Parameters'
  <2>1. DOMAIN defs = Blocks
    BY <1>1, Zenon DEF IInv, Tables, Populated
  <2> QED
    BY <1>6, <1>7, <2>1, Zenon DEF Parameters
<1>17. DefsDominateUses'
  <2>1. \A b \in Blocks : \A v \in uses'[b] : AvailableEarly(v, b)'
    BY <1>6, <1>10, Zenon DEF IInv, DefsDominateUses
  <2>2. \A b \in Blocks : \A i \in DOMAIN args'[b] :
          \A v \in Range(args'[b][i]) : Available(v, b)'
    BY <1>6, <1>9, Zenon DEF IInv, DefsDominateUses
  <2>3. \A r \in ret' : \A v \in r.values : Available(v, r.block)'
    <3> SUFFICES ASSUME NEW r \in ret', NEW v \in r.values
                 PROVE  Available(v, r.block)'
      BY Zenon
    <3>1. r.block = e /\ v \in Range(f)
      BY <1>5
    <3> QED
      BY <1>4, <1>9, <3>1, Zenon
  <2>4. Range(calls') = {}
    BY <1>6, <1>8 DEF Range
  <2> QED
    BY <1>7, <2>1, <2>2, <2>3, <2>4, Zenon DEF DefsDominateUses
<1>18. EdgesMatchParams' /\ TableIsCurrent'
  BY <1>1, <1>6, EdgesStay, TableStays, Zenon DEF IInv
<1>19. SignaturesKept'
  <2>1. {r.block : r \in ret'} = {b \in Blocks : Succ(b) = {}}
    BY <1>2, <1>5
  <2>2. \A r \in ret' : {v.type : v \in r.values} = ReturnTypes
    <3> SUFFICES ASSUME NEW r \in ret' PROVE {v.type : v \in r.values} = ReturnTypes
      BY Zenon
    <3>1. r.values = Range(f)
      BY <1>5
    <3> QED
      BY <1>4, <3>1, Zenon
  <2> QED
    BY <1>6, <1>7, <1>8, <2>1, <2>2 DEF SignaturesKept
<1> QED
  BY <1>11, <1>12, <1>13, <1>14, <1>15, <1>16, <1>17, <1>18, <1>19, Zenon DEF IInv

----------------------------------------------------------------------------

\* The results of the call that is inserted in block b.
CallResults(b) == {CallResult(b, t, idx) : t \in Callees[idx].returns}

\* Y are the operands X of a reader in block m, after it may have got results of
\* the call in b in place of some of them.
Forwarded(Y, X, m, b) ==
  /\ Y \subseteq Values
  /\ Y \subseteq X \cup (IF m \in Dominated(b) THEN CallResults(b) ELSE {})
  /\ {v.type : v \in Y} = {v.type : v \in X}

\* What a call in block b changes in the readers of values.
CallStep(b, new) ==
  /\ uses' \in [Blocks -> SUBSET Values]
  /\ \A c \in Blocks : Forwarded(uses'[c], uses[c], c, b)
  /\ DOMAIN cond' = Blocks
  /\ \A c \in Blocks : cond'[c] # cond[c] =>
       c \in Dominated(b) /\ cond'[c] \in CallResults(b) /\ cond'[c].type = cond[c].type
  /\ ret' \subseteq [block : Blocks, values : SUBSET Values]
  /\ {r.block : r \in ret'} = {r.block : r \in ret}
  /\ \A r \in ret' : \E q \in ret :
       r.block = q.block /\ Forwarded(r.values, q.values, r.block, b)
  /\ calls' \in Seq([block : Blocks, args : SUBSET Values])
  /\ Len(calls') = Len(calls) + 1 /\ calls'[Len(calls) + 1] = new
  /\ \A k \in 1 .. Len(calls) :
       /\ calls'[k].block = calls[k].block
       /\ Forwarded(calls'[k].args, calls[k].args, calls[k].block, b)

\* The results of a call are values of its block.
LEMMA CallResultFacts ==
  ASSUME IInv, pc = "calls", idx <= Len(Callees), NEW b \in Blocks
  PROVE  /\ idx \in 1 .. Len(Callees) /\ Len(Callees) \in Nat
         /\ Callees[idx].params \subseteq OperandTypes /\ Callees[idx].returns \subseteq Types
         /\ \A t : CallResult(b, t, idx).type = t
         /\ \A v \in CallResults(b) : v \in Values /\ v.block = b /\ v.kind = "call"
<1>1. skel \in Skeletons /\ idx \in Nat \ {0}
  BY Zenon DEF IInv, TypeOK
<1>2. Callees \in Seq([params : SUBSET OperandTypes, returns : SUBSET Types])
  BY <1>1, GeneratorAssumption, Zenon DEF Callees
<1>3. Len(Callees) \in Nat
  BY <1>2, SeqFacts, Zenon
<1>4. idx \in 1 .. Len(Callees)
  BY <1>1, <1>3
<1>5. Callees[idx] \in [params : SUBSET OperandTypes, returns : SUBSET Types]
  BY <1>2, <1>4, SeqFacts, Zenon
<1>6. idx \in 0 .. Len(Callees)
  BY <1>4, <1>3
<1>7. \A t : /\ CallResult(b, t, idx).type = t /\ CallResult(b, t, idx).block = b
             /\ CallResult(b, t, idx).kind = "call"
             /\ t \in Types => CallResult(b, t, idx) \in Values
  BY <1>6, Zenon DEF CallResult, Values
<1> QED
  BY <1>3, <1>4, <1>5, <1>7 DEF CallResults

\* Replacing operands by results of the same types.
LEMMA SubstituteFacts ==
  ASSUME IInv, pc = "calls", idx <= Len(Callees), NEW b \in Blocks,
         NEW m \in Dominated(b), NEW X \in SUBSET Values,
         NEW K \in SUBSET {v \in X : v.type \in Callees[idx].returns}
  PROVE  Forwarded((X \ K) \cup {CallResult(b, v.type, idx) : v \in K}, X, m, b)
<1> DEFINE Y == (X \ K) \cup {CallResult(b, v.type, idx) : v \in K}
<1>1. /\ \A t : CallResult(b, t, idx).type = t
      /\ \A v \in CallResults(b) : v \in Values
  BY CallResultFacts, Zenon
<1>2. \A v \in K : CallResult(b, v.type, idx) \in CallResults(b)
  BY Zenon DEF CallResults
<1>3. Y \subseteq X \cup CallResults(b)
  BY <1>2, Zenon
<1>4. \A v \in Y : \E w \in X : w.type = v.type
  BY <1>1, Zenon
<1>5. \A w \in X : \E v \in Y : v.type = w.type
  <2> SUFFICES ASSUME NEW w \in X
               PROVE  \E v \in Y : v.type = w.type
    BY Zenon
  <2>1. CASE w \in K
    BY <1>1, <2>1, Zenon
  <2>2. CASE w \notin K
    BY <2>2, Zenon
  <2> QED
    BY <2>1, <2>2, Zenon
<1> HIDE DEF Y
<1>6. {v.type : v \in Y} = {v.type : v \in X}
  BY <1>4, <1>5
<1>7. Forwarded(Y, X, m, b)
  BY <1>1, <1>3, <1>6, Zenon DEF Forwarded
<1> QED
  BY <1>7, Zenon DEF Y

\* A reader that gets nothing.
LEMMA ForwardedSame ==
  ASSUME NEW X \in SUBSET Values, NEW m, NEW b
  PROVE  Forwarded(X, X, m, b)
BY Zenon DEF Forwarded

\* What is read when calls are inserted.
LEMMA ReadersFacts ==
  ASSUME IInv
  PROVE  /\ uses \in [Blocks -> SUBSET Values] /\ DOMAIN cond = Blocks
         /\ ret \subseteq [block : Blocks, values : SUBSET Values]
         /\ calls \in Seq([block : Blocks, args : SUBSET Values])
         /\ Len(calls) \in Nat
         /\ \A k \in 1 .. Len(calls) : calls[k].block \in Blocks /\ calls[k].args \in SUBSET Values
<1>1. /\ uses \in [Blocks -> SUBSET Values] /\ DOMAIN cond = Blocks
      /\ ret \subseteq [block : Blocks, values : SUBSET Values]
      /\ calls \in Seq([block : Blocks, args : SUBSET Values])
  BY Zenon DEF IInv, TypeOK
<1>2. Len(calls) \in Nat
  BY <1>1, SeqFacts, Zenon
<1>3. \A k \in 1 .. Len(calls) : calls[k] \in [block : Blocks, args : SUBSET Values]
  <2> DEFINE S == [block : Blocks, args : SUBSET Values]
  <2>1. calls \in Seq(S)
    BY <1>1, Zenon
  <2> HIDE DEF S
  <2>2. \A k \in 1 .. Len(calls) : calls[k] \in S
    BY <2>1, SeqFacts, Zenon
  <2> QED
    BY <2>2, Zenon DEF S
<1> QED
  BY <1>1, <1>2, <1>3, Zenon

\* The new call comes after the others.
LEMMA CallsGrow ==
  ASSUME IInv, NEW b, NEW new \in [block : Blocks, args : SUBSET Values],
         NEW C \in Seq([block : Blocks, args : SUBSET Values]), Len(C) = Len(calls),
         \A k \in 1 .. Len(calls) :
           /\ C[k].block = calls[k].block
           /\ Forwarded(C[k].args, calls[k].args, calls[k].block, b),
         calls' = Append(C, new)
  PROVE  /\ calls' \in Seq([block : Blocks, args : SUBSET Values])
         /\ Len(calls') = Len(calls) + 1 /\ calls'[Len(calls) + 1] = new
         /\ \A k \in 1 .. Len(calls) :
              /\ calls'[k].block = calls[k].block
              /\ Forwarded(calls'[k].args, calls[k].args, calls[k].block, b)
<1> DEFINE S == [block : Blocks, args : SUBSET Values]
<1> HIDE DEF S
<1>1. new \in S /\ C \in Seq(S)
  BY Zenon DEF S
<1>2. /\ calls' \in Seq(S) /\ Len(calls') = Len(C) + 1
      /\ \A k \in 1 .. Len(C) : calls'[k] = C[k]
      /\ calls'[Len(C) + 1] = new
  BY SMTT(30), <1>1, AppendRange
<1>3. \A k \in 1 .. Len(calls) : calls'[k] = C[k]
  BY <1>2, Zenon
<1> QED
  BY <1>2, <1>3, Zenon DEF S

\* The readers when only the call itself is added.
LEMMA ReadersStay ==
  ASSUME IInv, NEW b, NEW new \in [block : Blocks, args : SUBSET Values]
  PROVE  /\ UNCHANGED uses =>
              /\ uses' \in [Blocks -> SUBSET Values]
              /\ \A c \in Blocks : Forwarded(uses'[c], uses[c], c, b)
         /\ UNCHANGED cond =>
              DOMAIN cond' = Blocks /\ \A c \in Blocks : cond'[c] = cond[c]
         /\ UNCHANGED ret =>
              /\ ret' \subseteq [block : Blocks, values : SUBSET Values]
              /\ {r.block : r \in ret'} = {r.block : r \in ret}
              /\ \A r \in ret' : \E q \in ret :
                   r.block = q.block /\ Forwarded(r.values, q.values, r.block, b)
         /\ calls' = Append(calls, new) =>
              /\ calls' \in Seq([block : Blocks, args : SUBSET Values])
              /\ Len(calls') = Len(calls) + 1 /\ calls'[Len(calls) + 1] = new
              /\ \A k \in 1 .. Len(calls) :
                   /\ calls'[k].block = calls[k].block
                   /\ Forwarded(calls'[k].args, calls[k].args, calls[k].block, b)
<1>1. /\ uses \in [Blocks -> SUBSET Values] /\ DOMAIN cond = Blocks
      /\ ret \subseteq [block : Blocks, values : SUBSET Values]
      /\ calls \in Seq([block : Blocks, args : SUBSET Values])
      /\ \A k \in 1 .. Len(calls) : calls[k].args \in SUBSET Values
  BY ReadersFacts, Zenon
<1>2. ASSUME UNCHANGED uses
      PROVE  /\ uses' \in [Blocks -> SUBSET Values]
             /\ \A c \in Blocks : Forwarded(uses'[c], uses[c], c, b)
  BY <1>1, <1>2, ForwardedSame, Zenon
<1>3. ASSUME UNCHANGED ret
      PROVE  /\ ret' \subseteq [block : Blocks, values : SUBSET Values]
             /\ {r.block : r \in ret'} = {r.block : r \in ret}
             /\ \A r \in ret' : \E q \in ret :
                  r.block = q.block /\ Forwarded(r.values, q.values, r.block, b)
  <2>1. \A r \in ret : Forwarded(r.values, r.values, r.block, b)
    BY <1>1, ForwardedSame, Zenon
  <2> QED
    BY <1>1, <1>3, <2>1, Zenon
<1>4. ASSUME calls' = Append(calls, new)
      PROVE  /\ calls' \in Seq([block : Blocks, args : SUBSET Values])
             /\ Len(calls') = Len(calls) + 1 /\ calls'[Len(calls) + 1] = new
             /\ \A k \in 1 .. Len(calls) :
                  /\ calls'[k].block = calls[k].block
                  /\ Forwarded(calls'[k].args, calls[k].args, calls[k].block, b)
  <2>1. \A k \in 1 .. Len(calls) : Forwarded(calls[k].args, calls[k].args, calls[k].block, b)
    BY <1>1, ForwardedSame, Zenon
  <2> QED
    BY <1>1, <1>4, <2>1, CallsGrow, Zenon
<1> QED
  BY <1>1, <1>2, <1>3, <1>4, Zenon

\* Forwarding results of a call in b to one reader in a block m that b dominates.
LEMMA ForwardStep ==
  ASSUME IInv, pc = "calls", idx <= Len(Callees), NEW b \in Blocks,
         NEW m \in Dominated(b), NEW new \in [block : Blocks, args : SUBSET Values],
         Forward(b, m, new)
  PROVE  CallStep(b, new)
<1> DEFINE Rets == Callees[idx].returns
           Sub(X, K) == (X \ K) \cup {CallResult(b, v.type, idx) : v \in K}
<1>1. \/ \E K \in SUBSET {v \in uses[m] : v.type \in Rets} :
           /\ uses' = [uses EXCEPT ![m] = Sub(@, K)]
           /\ calls' = Append(calls, new)
           /\ UNCHANGED <<cond, ret>>
      \/ /\ IsBranch(m) /\ cond[m].type \in Rets
         /\ cond' = [cond EXCEPT ![m] = CallResult(b, @.type, idx)]
         /\ calls' = Append(calls, new)
         /\ UNCHANGED <<uses, ret>>
      \/ \E r \in ret : \E K \in SUBSET {v \in r.values : v.type \in Rets} :
           /\ r.block = m
           /\ ret' = {[r EXCEPT !.values = Sub(@, K)]}
           /\ calls' = Append(calls, new)
           /\ UNCHANGED <<uses, cond>>
      \/ \E k \in DOMAIN calls : \E K \in SUBSET {v \in calls[k].args : v.type \in Rets} :
           /\ calls[k].block = m
           /\ calls' = Append([calls EXCEPT ![k].args = Sub(@, K)], new)
           /\ UNCHANGED <<uses, cond, ret>>
  BY Zenon DEF Forward, Substitute
<1>2. \A X \in SUBSET Values : \A K \in SUBSET {v \in X : v.type \in Rets} :
        Forwarded(Sub(X, K), X, m, b)
  BY SubstituteFacts, Zenon
<1>3. /\ UNCHANGED uses =>
           /\ uses' \in [Blocks -> SUBSET Values]
           /\ \A c \in Blocks : Forwarded(uses'[c], uses[c], c, b)
      /\ UNCHANGED cond =>
           DOMAIN cond' = Blocks /\ \A c \in Blocks : cond'[c] = cond[c]
      /\ UNCHANGED ret =>
           /\ ret' \subseteq [block : Blocks, values : SUBSET Values]
           /\ {r.block : r \in ret'} = {r.block : r \in ret}
           /\ \A r \in ret' : \E q \in ret :
                r.block = q.block /\ Forwarded(r.values, q.values, r.block, b)
      /\ calls' = Append(calls, new) =>
           /\ calls' \in Seq([block : Blocks, args : SUBSET Values])
           /\ Len(calls') = Len(calls) + 1 /\ calls'[Len(calls) + 1] = new
           /\ \A k \in 1 .. Len(calls) :
                /\ calls'[k].block = calls[k].block
                /\ Forwarded(calls'[k].args, calls[k].args, calls[k].block, b)
  BY ReadersStay, Zenon
<1>4. /\ uses \in [Blocks -> SUBSET Values] /\ DOMAIN cond = Blocks
      /\ ret \subseteq [block : Blocks, values : SUBSET Values]
      /\ calls \in Seq([block : Blocks, args : SUBSET Values])
      /\ Len(calls) \in Nat
      /\ \A k \in 1 .. Len(calls) : calls[k].block \in Blocks /\ calls[k].args \in SUBSET Values
  BY ReadersFacts, Zenon
<1>5. m \in Blocks /\ \A X \in SUBSET Values : \A c : Forwarded(X, X, c, b)
  BY ForwardedSame, Zenon DEF Dominated
<1> HIDE DEF Sub, Rets
<1>6. CASE \E K \in SUBSET {v \in uses[m] : v.type \in Rets} :
             /\ uses' = [uses EXCEPT ![m] = Sub(@, K)]
             /\ calls' = Append(calls, new)
             /\ UNCHANGED <<cond, ret>>
  <2>1. PICK K \in SUBSET {v \in uses[m] : v.type \in Rets} :
          /\ uses' = [uses EXCEPT ![m] = Sub(@, K)]
          /\ calls' = Append(calls, new)
          /\ UNCHANGED <<cond, ret>>
    BY <1>6, Zenon
  <2>2. Forwarded(Sub(uses[m], K), uses[m], m, b)
    BY <1>2, <1>4, <1>5, Zenon
  <2>3. Sub(uses[m], K) \subseteq Values
    BY <2>2, Zenon DEF Forwarded
  <2>4. uses' \in [Blocks -> SUBSET Values]
    BY <1>4, <1>5, <2>1, <2>3, Zenon
  <2>5. \A c \in Blocks : Forwarded(uses'[c], uses[c], c, b)
    <3>1. uses'[m] = Sub(uses[m], K) /\ \A c \in Blocks \ {m} : uses'[c] = uses[c]
      BY <1>4, <1>5, <2>1, Zenon
    <3> QED
      BY <1>4, <1>5, <2>2, <3>1, Zenon
  <2> QED
    BY <1>3, <2>1, <2>4, <2>5, Zenon DEF CallStep
<1>7. CASE /\ IsBranch(m) /\ cond[m].type \in Rets
           /\ cond' = [cond EXCEPT ![m] = CallResult(b, @.type, idx)]
           /\ calls' = Append(calls, new)
           /\ UNCHANGED <<uses, ret>>
  <2>1. cond'[m] = CallResult(b, cond[m].type, idx) /\ DOMAIN cond' = Blocks
    BY <1>4, <1>5, <1>7, Zenon
  <2>2. cond'[m] \in CallResults(b)
    BY <1>7, <2>1, Zenon DEF CallResults, Rets
  <2>3. cond'[m].type = cond[m].type
    BY SMTT(30), <2>1, CallResultFacts
  <2>4. \A c \in Blocks \ {m} : cond'[c] = cond[c]
    BY <1>4, <1>7, Zenon
  <2>5. \A c \in Blocks : cond'[c] # cond[c] =>
          c \in Dominated(b) /\ cond'[c] \in CallResults(b) /\ cond'[c].type = cond[c].type
    BY <2>2, <2>3, <2>4, Zenon
  <2> QED
    BY <1>3, <1>7, <2>1, <2>5, Zenon DEF CallStep
<1>8. CASE \E r \in ret : \E K \in SUBSET {v \in r.values : v.type \in Rets} :
             /\ r.block = m
             /\ ret' = {[r EXCEPT !.values = Sub(@, K)]}
             /\ calls' = Append(calls, new)
             /\ UNCHANGED <<uses, cond>>
  <2>1. PICK q \in ret : \E K \in SUBSET {v \in q.values : v.type \in Rets} :
          /\ q.block = m
          /\ ret' = {[q EXCEPT !.values = Sub(@, K)]}
          /\ calls' = Append(calls, new)
          /\ UNCHANGED <<uses, cond>>
    BY <1>8, Zenon
  <2>2. PICK K \in SUBSET {v \in q.values : v.type \in Rets} :
          /\ q.block = m
          /\ ret' = {[q EXCEPT !.values = Sub(@, K)]}
          /\ calls' = Append(calls, new)
          /\ UNCHANGED <<uses, cond>>
    BY <2>1, Zenon
  <2>3. q.block \in Blocks /\ q.values \in SUBSET Values
    BY <1>4, Zenon
  <2>4. Forwarded(Sub(q.values, K), q.values, m, b)
    BY <1>2, <2>3, Zenon
  <2>5. Sub(q.values, K) \subseteq Values
    BY <2>4, Zenon DEF Forwarded
  <2>6. \A r \in ret' : /\ r \in [block : Blocks, values : SUBSET Values]
                        /\ r.block = q.block /\ r.values = Sub(q.values, K)
    BY <1>4, <2>2, <2>3, <2>5, Zenon
  <2>7. {r.block : r \in ret} = {LastBlock}
    BY LastBlockFacts, Zenon DEF IInv, SignaturesKept
  <2>8. {r.block : r \in ret'} = {r.block : r \in ret}
    <3>1. \E r : r \in ret'
      BY <2>2, Zenon
    <3>2. {r.block : r \in ret'} = {q.block}
      BY <2>6, <3>1, Zenon
    <3>3. q.block = LastBlock
      BY <2>7, Zenon
    <3> QED
      BY <2>7, <3>2, <3>3, Zenon
  <2>9. \A r \in ret' : \E p \in ret :
          r.block = p.block /\ Forwarded(r.values, p.values, r.block, b)
    BY <2>2, <2>4, <2>6, Zenon
  <2> QED
    BY <1>3, <2>2, <2>6, <2>8, <2>9, Zenon DEF CallStep
<1>9. CASE \E k \in DOMAIN calls : \E K \in SUBSET {v \in calls[k].args : v.type \in Rets} :
             /\ calls[k].block = m
             /\ calls' = Append([calls EXCEPT ![k].args = Sub(@, K)], new)
             /\ UNCHANGED <<uses, cond, ret>>
  <2>1. PICK k \in DOMAIN calls : \E K \in SUBSET {v \in calls[k].args : v.type \in Rets} :
          /\ calls[k].block = m
          /\ calls' = Append([calls EXCEPT ![k].args = Sub(@, K)], new)
          /\ UNCHANGED <<uses, cond, ret>>
    BY <1>9, Zenon
  <2>2. PICK K \in SUBSET {v \in calls[k].args : v.type \in Rets} :
          /\ calls[k].block = m
          /\ calls' = Append([calls EXCEPT ![k].args = Sub(@, K)], new)
          /\ UNCHANGED <<uses, cond, ret>>
    BY <2>1, Zenon
  <2> DEFINE C == [calls EXCEPT ![k].args = Sub(@, K)]
             S == [block : Blocks, args : SUBSET Values]
  <2>3. k \in 1 .. Len(calls) /\ calls[k].block \in Blocks /\ calls[k].args \in SUBSET Values
    BY SMTT(30), <1>4
  <2>4. Forwarded(Sub(calls[k].args, K), calls[k].args, m, b)
    BY <1>2, <2>3, Zenon
  <2>5. Sub(calls[k].args, K) \subseteq Values
    BY <2>4, Zenon DEF Forwarded
  <2>6. calls[k] \in S
    <3>1. calls \in Seq(S)
      BY <1>4, Zenon
    <3> HIDE DEF S
    <3> QED
      BY <2>3, <3>1, SeqFacts, Zenon
  <2> DEFINE e == [calls[k] EXCEPT !.args = Sub(@, K)]
  <2>7. e \in S /\ e.block = calls[k].block /\ e.args = Sub(calls[k].args, K)
    BY <2>5, <2>6, Zenon
  <2>8. C = [calls EXCEPT ![k] = e]
    BY Zenon
  <2> HIDE DEF e, S
  <2>9. /\ C \in Seq(S) /\ Len(C) = Len(calls)
        /\ C[k] = e /\ \A j \in 1 .. Len(calls) : j # k => C[j] = calls[j]
    <3>1. calls \in Seq(S)
      BY <1>4, Zenon DEF S
    <3> HIDE DEF C
    <3> QED
      BY <2>3, <2>7, <2>8, <3>1
  <2> HIDE DEF C
  <2>10. \A j \in 1 .. Len(calls) :
           /\ C[j].block = calls[j].block
           /\ Forwarded(C[j].args, calls[j].args, calls[j].block, b)
    BY <1>4, <1>5, <2>2, <2>4, <2>7, <2>9, Zenon
  <2>11. calls' = Append(C, new)
    BY <2>2, Zenon DEF C
  <2>12. C \in Seq([block : Blocks, args : SUBSET Values])
    BY <2>9, Zenon DEF S
  <2>13. /\ calls' \in Seq([block : Blocks, args : SUBSET Values])
         /\ Len(calls') = Len(calls) + 1 /\ calls'[Len(calls) + 1] = new
         /\ \A j \in 1 .. Len(calls) :
              /\ calls'[j].block = calls[j].block
              /\ Forwarded(calls'[j].args, calls[j].args, calls[j].block, b)
    BY <2>9, <2>10, <2>11, <2>12, CallsGrow, Zenon
  <2> QED
    BY <1>3, <2>2, <2>13, Zenon DEF CallStep
<1> QED
  BY <1>1, <1>6, <1>7, <1>8, <1>9, Zenon

\* No call lacks a value, and what inserting one does.
LEMMA InsertCallStep ==
  ASSUME IInv, InsertCall
  PROVE  /\ pc = "calls" /\ idx <= Len(Callees) /\ idx' = idx + 1
         /\ UNCHANGED <<skel, todo, order, defs, refs, bparams, args, pc>>
         /\ \E b \in Blocks, A \in SUBSET Values :
              /\ \A v \in A : Available(v, b)
              /\ {v.type : v \in A} = Callees[idx].params
              /\ made' = [made EXCEPT ![b] = @ \cup CallResults(b)]
              /\ CallStep(b, [block |-> b, args |-> A])
<1>1. pc = "calls" /\ idx <= Len(Callees)
  BY Zenon DEF InsertCall
<1>2. PICK b \in CallSites :
        LET P == Picks(DominatorValues(defs, b), Callees[idx].params)
        IN  IF P = {}
            THEN Panic
            ELSE /\ \E f \in P :
                      LET new == [block |-> b, args |-> Range(f)]
                      IN  \/ \E m \in Dominated(b) : Forward(b, m, new)
                          \/ /\ Dominated(b) = {}
                             /\ calls' = Append(calls, new)
                             /\ UNCHANGED <<uses, cond, ret>>
                 /\ made' = [made EXCEPT ![b] =
                               @ \cup {CallResult(b, t, idx) : t \in Callees[idx].returns}]
                 /\ idx' = idx + 1
                 /\ UNCHANGED <<skel, todo, order, defs, refs, bparams, args, pc>>
  BY Zenon DEF InsertCall
<1> DEFINE P == Picks(DominatorValues(defs, b), Callees[idx].params)
<1>3. b \in Blocks
  BY Zenon DEF CallSites
<1>4. Callees[idx].params \in SUBSET OperandTypes
  BY <1>1, <1>3, CallResultFacts, Zenon
<1>5. /\ P # {}
      /\ \A f \in P : /\ Range(f) \subseteq Values
                      /\ {v.type : v \in Range(f)} = Callees[idx].params
                      /\ \A v \in Range(f) : Available(v, b)
  BY <1>1, <1>3, <1>4, PicksFit, Zenon
<1>6. /\ made' = [made EXCEPT ![b] = @ \cup CallResults(b)]
      /\ idx' = idx + 1
      /\ UNCHANGED <<skel, todo, order, defs, refs, bparams, args, pc>>
  BY <1>2, <1>5, Zenon DEF CallResults
<1>7. PICK f \in P :
        LET new == [block |-> b, args |-> Range(f)]
        IN  \/ \E m \in Dominated(b) : Forward(b, m, new)
            \/ /\ Dominated(b) = {}
               /\ calls' = Append(calls, new)
               /\ UNCHANGED <<uses, cond, ret>>
  BY <1>2, <1>5, Zenon
<1> DEFINE new == [block |-> b, args |-> Range(f)]
<1>8. new \in [block : Blocks, args : SUBSET Values]
  BY <1>3, <1>5, Zenon
<1>9. CallStep(b, new)
  <2>1. CASE \E m \in Dominated(b) : Forward(b, m, new)
    <3>1. PICK m \in Dominated(b) : Forward(b, m, new)
      BY <2>1, Zenon
    <3> HIDE DEF new
    <3> QED
      BY <1>1, <1>3, <1>8, <3>1, ForwardStep, Zenon
  <2>2. CASE calls' = Append(calls, new) /\ UNCHANGED <<uses, cond, ret>>
    <3> HIDE DEF new
    <3>1. /\ uses' \in [Blocks -> SUBSET Values]
          /\ \A c \in Blocks : Forwarded(uses'[c], uses[c], c, b)
          /\ DOMAIN cond' = Blocks /\ \A c \in Blocks : cond'[c] = cond[c]
          /\ ret' \subseteq [block : Blocks, values : SUBSET Values]
          /\ {r.block : r \in ret'} = {r.block : r \in ret}
          /\ \A r \in ret' : \E q \in ret :
               r.block = q.block /\ Forwarded(r.values, q.values, r.block, b)
      BY <1>8, <2>2, ReadersStay, Zenon
    <3>2. /\ calls' \in Seq([block : Blocks, args : SUBSET Values])
          /\ Len(calls') = Len(calls) + 1 /\ calls'[Len(calls) + 1] = new
          /\ \A k \in 1 .. Len(calls) :
               /\ calls'[k].block = calls[k].block
               /\ Forwarded(calls'[k].args, calls[k].args, calls[k].block, b)
      BY <1>8, <2>2, ReadersStay, Zenon
    <3> QED
      BY <3>1, <3>2, Zenon DEF CallStep
  <2> QED
    BY <1>7, <2>1, <2>2, Zenon
<1> QED
  BY <1>1, <1>3, <1>5, <1>6, <1>9, Zenon

\* Inserting a call keeps the invariant.
LEMMA InsertCallInv ==
  ASSUME IInv, InsertCall
  PROVE  IInv'
<1>1. /\ pc = "calls" /\ idx <= Len(Callees) /\ idx' = idx + 1
      /\ UNCHANGED <<skel, todo, order, defs, refs, bparams, args, pc>>
  BY InsertCallStep, Zenon
<1>2. PICK b \in Blocks, A \in SUBSET Values :
        /\ \A v \in A : Available(v, b)
        /\ {v.type : v \in A} = Callees[idx].params
        /\ made' = [made EXCEPT ![b] = @ \cup CallResults(b)]
        /\ CallStep(b, [block |-> b, args |-> A])
  BY InsertCallStep, Zenon
<1>3. /\ skel \in Skeletons /\ idx \in Nat \ {0} /\ DOMAIN defs = Blocks
      /\ made \in [Blocks -> SUBSET Values]
      /\ bparams \in [Blocks -> Seq(Values)]
  BY <1>1, OrderFacts, Zenon DEF Populated, IInv, TypeOK
<1>4. /\ Blocks' = Blocks /\ Values' = Values /\ Callees' = Callees
      /\ \A c : /\ Dominators(c)' = Dominators(c) /\ IsBranch(c)' = IsBranch(c)
                /\ Succ(c)' = Succ(c)
  BY <1>1, SkelStays, Zenon
<1>5. \A c \in Blocks : Dominators(c) \subseteq Blocks
  BY <1>3, DominatorsInBlocks, Zenon
<1>6. \A v, c :
        v.block \in Dominators(c) /\ Exists(v)' =>
          /\ (v.block = c => v.kind # "call") => Available(v, c)'
          /\ (v.block = c => v.kind \notin {"call", "inst"}) => AvailableEarly(v, c)'
  BY <1>1, AvailableNext, Zenon
<1>7. /\ idx \in 1 .. Len(Callees) /\ Len(Callees) \in Nat
      /\ \A v \in CallResults(b) : v \in Values /\ v.block = b /\ v.kind = "call"
  BY <1>1, CallResultFacts, Zenon
<1>8. Len(calls) = idx - 1 /\ Len(calls) \in Nat
  BY <1>1, ReadersFacts, Zenon DEF IInv, Position
<1>9. /\ made' \in [Blocks -> SUBSET Values] /\ made'[b] = made[b] \cup CallResults(b)
      /\ \A c \in Blocks : made[c] \subseteq made'[c]
  BY <1>2, <1>3, <1>7, Zenon
<1>10. /\ \A v : v.block \in Blocks /\ Exists(v) => Exists(v)'
       /\ \A v \in CallResults(b) : Exists(v)'
  BY <1>1, <1>7, <1>9, Zenon DEF Exists
<1>11. \A c \in Blocks : \A v :
         /\ Available(v, c) => Available(v, c)'
         /\ AvailableEarly(v, c) => AvailableEarly(v, c)'
  <2> SUFFICES ASSUME NEW c \in Blocks, NEW v
               PROVE  /\ Available(v, c) => Available(v, c)'
                      /\ AvailableEarly(v, c) => AvailableEarly(v, c)'
    BY Zenon
  <2>1. Available(v, c) => Exists(v)'
    BY <1>5, <1>10, Zenon DEF Available
  <2> QED
    BY <1>6, <2>1, Zenon DEF Available, AvailableEarly
<1>12. \A c \in Dominated(b) : \A v \in CallResults(b) :
         Available(v, c)' /\ AvailableEarly(v, c)'
  <2> SUFFICES ASSUME NEW c \in Dominated(b), NEW v \in CallResults(b)
               PROVE  Available(v, c)' /\ AvailableEarly(v, c)'
    BY Zenon
  <2>1. b \in Dominators(c) /\ c # b
    BY Zenon DEF Dominated
  <2> QED
    BY <1>6, <1>7, <1>10, <2>1
<1>13. /\ uses' \in [Blocks -> SUBSET Values]
       /\ \A c \in Blocks : Forwarded(uses'[c], uses[c], c, b)
       /\ DOMAIN cond' = Blocks
       /\ \A c \in Blocks : cond'[c] # cond[c] =>
            c \in Dominated(b) /\ cond'[c] \in CallResults(b) /\ cond'[c].type = cond[c].type
  BY <1>2, Zenon DEF CallStep
<1>14. /\ ret' \subseteq [block : Blocks, values : SUBSET Values]
       /\ {r.block : r \in ret'} = {r.block : r \in ret}
       /\ \A r \in ret' : \E q \in ret :
            r.block = q.block /\ Forwarded(r.values, q.values, r.block, b)
  BY <1>2, Zenon DEF CallStep
<1>15. /\ calls' \in Seq([block : Blocks, args : SUBSET Values])
       /\ Len(calls') = Len(calls) + 1
       /\ calls'[Len(calls) + 1] = [block |-> b, args |-> A]
       /\ \A k \in 1 .. Len(calls) :
            /\ calls'[k].block = calls[k].block
            /\ Forwarded(calls'[k].args, calls[k].args, calls[k].block, b)
  BY <1>2, Zenon DEF CallStep
<1>16. /\ DOMAIN calls' = 1 .. (Len(calls) + 1) /\ DOMAIN calls = 1 .. Len(calls)
       /\ \A k \in DOMAIN calls' : k \in 1 .. Len(calls) \/ k = Len(calls) + 1
  <2>1. DOMAIN calls' = 1 .. Len(calls') /\ DOMAIN calls = 1 .. Len(calls)
    BY <1>15, ReadersFacts, SeqFacts, Zenon
  <2>2. Len(calls') = Len(calls) + 1 /\ Len(calls) \in Nat
    BY <1>8, <1>15, Zenon
  <2> QED
    BY <2>1, <2>2
<1>17. TypeOK'
  <2>1. \A c \in Blocks : IsBranch(c) => cond'[c].type = "i32"
    BY <1>13, Zenon DEF IInv, TypeOK
  <2>2. /\ order \in Seq(Blocks) /\ todo \in Seq(Blocks)
        /\ \A c \in Blocks : defs[c] \subseteq Values
        /\ DOMAIN refs = Blocks /\ \A c \in Blocks : refs[c] \subseteq Types
        /\ DOMAIN args = Blocks
        /\ \A c \in Blocks : args[c] \in [DOMAIN skel.term[c].dest -> Seq(Values)]
    BY <1>3, Zenon DEF IInv, TypeOK
  <2>3. idx' \in Nat \ {0} /\ pc' = "calls"
    BY <1>1, <1>3
  <2> QED
    BY <1>1, <1>3, <1>4, <1>9, <1>13, <1>14, <1>15, <2>1, <2>2, <2>3, Zenon DEF TypeOK
<1>18. NoPanic' /\ Listing'
  BY <1>1, ListingStays, Zenon DEF IInv, NoPanic
<1>19. Position'
  BY <1>1, <1>4, <1>7, <1>8, <1>15 DEF Position
<1>20. Tables'
  <2>1. Populated' = Populated
    BY <1>1, <1>4, Zenon DEF Populated
  <2> QED
    BY <1>1, <2>1, TablesStay, Zenon DEF IInv
<1>21. ASSUME NEW c \in Blocks, NEW v \in uses'[c]
       PROVE  v.block \in Blocks /\ AvailableEarly(v, c)'
  <2>1. CASE v \in uses[c]
    <3>1. v.block \in Blocks
      BY <1>3, <2>1, Zenon DEF IInv, Readable
    <3>2. AvailableEarly(v, c)
      BY <2>1, Zenon DEF IInv, DefsDominateUses
    <3> QED
      BY <1>11, <3>1, <3>2, Zenon
  <2>2. CASE v \notin uses[c]
    <3>1. c \in Dominated(b) /\ v \in CallResults(b)
      BY <1>13, <1>21, <2>2, Zenon DEF Forwarded
    <3> QED
      BY <1>7, <1>12, <3>1, Zenon
  <2> QED
    BY <2>1, <2>2, Zenon
<1>22. ASSUME NEW c \in Blocks, IsBranch(c), NEW w, w = cond'[c]
       PROVE  w.block \in Blocks /\ Available(w, c)'
  <2>1. CASE w = cond[c]
    <3>1. w.block \in Blocks /\ Available(w, c)
      BY <1>3, <1>22, <2>1, Zenon DEF IInv, Readable
    <3> QED
      BY <1>11, <3>1, Zenon
  <2>2. CASE w # cond[c]
    <3>1. c \in Dominated(b) /\ w \in CallResults(b)
      BY <1>13, <1>22, <2>2, Zenon
    <3> QED
      BY <1>7, <1>12, <3>1, Zenon
  <2> QED
    BY <2>1, <2>2, Zenon
<1>23. Readable'
  <2>1. DOMAIN defs' = Blocks
    BY <1>1, <1>3, Zenon
  <2> QED
    BY <1>4, <1>21, <1>22, <2>1, Zenon DEF Readable
<1>24. Parameters'
  BY <1>1, <1>3, <1>4, Zenon DEF Parameters
<1>25. ASSUME NEW Y, NEW X, NEW c \in Blocks, Forwarded(Y, X, c, b),
              \A v \in X : Available(v, c)
       PROVE  \A v \in Y : Available(v, c)'
  <2> SUFFICES ASSUME NEW v \in Y
               PROVE  Available(v, c)'
    BY Zenon
  <2>1. v \in X \/ (c \in Dominated(b) /\ v \in CallResults(b))
    BY <1>25, Zenon DEF Forwarded
  <2> QED
    BY <1>11, <1>12, <1>25, <2>1, Zenon
<1>26. ASSUME NEW r \in ret'
       PROVE  \A v \in r.values : Available(v, r.block)'
  <2>1. PICK q \in ret : r.block = q.block /\ Forwarded(r.values, q.values, r.block, b)
    BY <1>14, Zenon
  <2>2. r.block \in Blocks
    BY <1>14, Zenon
  <2>3. \A v \in q.values : Available(v, r.block)
    BY <2>1, Zenon DEF IInv, DefsDominateUses
  <2> QED
    BY <1>25, <2>1, <2>2, <2>3, Zenon
<1>27. ASSUME NEW k \in DOMAIN calls', NEW c, c = calls'[k].block
       PROVE  \A v \in calls'[k].args : Available(v, c)'
  <2>1. CASE k \in 1 .. Len(calls)
    <3>1. /\ c = calls[k].block /\ c \in Blocks
          /\ Forwarded(calls'[k].args, calls[k].args, c, b)
      BY <1>15, <1>27, <2>1, ReadersFacts, Zenon
    <3>2. calls[k] \in Range(calls)
      BY <1>16, <2>1, Zenon DEF Range
    <3>3. \A v \in calls[k].args : Available(v, c)
      BY <3>1, <3>2, Zenon DEF IInv, DefsDominateUses
    <3> QED
      BY <1>25, <3>1, <3>3, Zenon
  <2>2. CASE k = Len(calls) + 1
    <3>1. c = b /\ calls'[k].args = A
      BY SMTT(30), <1>15, <1>27, <2>2
    <3> QED
      BY <1>2, <1>11, <3>1, Zenon
  <2> QED
    BY <1>16, <2>1, <2>2, Zenon
<1>28. DefsDominateUses'
  <2>1. \A c \in Blocks : \A i \in DOMAIN args'[c] :
          \A v \in Range(args'[c][i]) : Available(v, c)'
    BY <1>1, <1>11, Zenon DEF IInv, DefsDominateUses
  <2>2. \A x \in Range(calls') : \A v \in x.args : Available(v, x.block)'
    BY <1>27, Zenon DEF Range
  <2> QED
    BY <1>4, <1>21, <1>26, <2>1, <2>2, Zenon DEF DefsDominateUses
<1>29. EdgesMatchParams'
  BY <1>1, EdgesStay, Zenon DEF IInv
<1>30. TableIsCurrent'
  <2> SUFFICES ASSUME NEW c \in Blocks, NEW v \in defs[c]
               PROVE  v.block = c /\ Exists(v)'
    BY <1>1, <1>3, Zenon DEF TableIsCurrent
  <2>1. v.block = c /\ Exists(v)
    BY <1>3, Zenon DEF IInv, TableIsCurrent
  <2> QED
    BY <1>10, <2>1, Zenon
<1>31. SignaturesKept'
  <2>1. {r.block : r \in ret'} = {c \in Blocks : Succ(c) = {}}
    BY <1>1, <1>14, Zenon DEF IInv, SignaturesKept
  <2>2. \A r \in ret' : {v.type : v \in r.values} = ReturnTypes
    BY <1>14, Zenon DEF IInv, SignaturesKept, Forwarded
  <2>3. \A k \in 1 .. Len(calls) : {v.type : v \in calls'[k].args} = Callees[k].params
    BY <1>15, <1>16, Zenon DEF IInv, SignaturesKept, Forwarded
  <2>4. {v.type : v \in calls'[Len(calls) + 1].args} = Callees[Len(calls) + 1].params
    <3>1. calls'[Len(calls) + 1] = [block |-> b, args |-> A]
      BY <1>2, Zenon DEF CallStep
    <3>2. [block |-> b, args |-> A].args = A /\ Len(calls) + 1 = idx
      BY <1>3, <1>8
    <3> QED
      BY <1>2, <3>1, <3>2, Zenon
  <2>5. \A k \in DOMAIN calls' : {v.type : v \in calls'[k].args} = Callees[k].params
    BY <1>16, <2>3, <2>4, Zenon
  <2> QED
    BY <1>4, <2>1, <2>2, <2>5, Zenon DEF SignaturesKept
<1> QED
  BY <1>17, <1>18, <1>19, <1>20, <1>23, <1>24, <1>28, <1>29, <1>30, <1>31, Zenon DEF IInv

\* Every step keeps the invariant.
LEMMA NextInv ==
  ASSUME IInv, [Next]_vars
  PROVE  IInv'
<1>1. CASE UNCHANGED vars
  <2>1. UNCHANGED <<skel, todo, order, idx, defs, refs, bparams, uses, made, cond, args,
                    ret, calls, pc>>
    BY <1>1, Zenon DEF vars
  <2>2. /\ Blocks' = Blocks /\ Callees' = Callees
        /\ \A c : Dominators(c)' = Dominators(c) /\ Succ(c)' = Succ(c)
    BY <2>1, SkelStays, Zenon
  <2>3. TypeOK'
    <3>1. TypeOK
      BY Zenon DEF IInv
    <3>2. /\ todo' \in Seq(Blocks) /\ order' \in Seq(Blocks) /\ idx' \in Nat \ {0}
          /\ pc' \in {"dfs", "populate", "params", "return", "calls", "done", "panic"}
      BY <2>1, <2>2, <3>1, Zenon DEF TypeOK
    <3> QED
      BY <2>1, <3>1, <3>2, TypesStay, Zenon
  <2>4. NoPanic' /\ Position'
    BY <2>1, <2>2, Zenon DEF IInv, NoPanic, Position
  <2>5. Listing'
    BY SMTT(30), <2>1, <2>2 DEF IInv, Listing
  <2>6. Tables'
    <3>1. Populated' = Populated
      BY <2>1, <2>2, Zenon DEF Populated
    <3> QED
      BY <2>1, <3>1, TablesStay, Zenon DEF IInv
  <2>7. Readable' /\ DefsDominateUses' /\ TableIsCurrent'
    BY <2>1, ReadableStays, CodeStays, TableStays, Zenon DEF IInv
  <2>8. EdgesMatchParams' /\ SignaturesKept'
    BY <2>1, EdgesStay, SignaturesStay, Zenon DEF IInv
  <2>9. Parameters'
    BY <2>1, <2>2, Zenon DEF IInv, Parameters, Value
  <2> QED
    BY <2>3, <2>4, <2>5, <2>6, <2>7, <2>8, <2>9, Zenon DEF IInv
<1>2. CASE Dfs
  BY <1>2, DfsInv, SetFactsHold, Zenon
<1>3. CASE Populate
  BY <1>3, PopulateInv, Zenon
<1>4. CASE InsertParams
  BY <1>4, InsertParamsInv, SetFactsHold, Zenon
<1>5. CASE SkipParams
  BY <1>5, SkipParamsInv, Zenon
<1>6. CASE EndLoop
  BY <1>6, EndLoopInv, Zenon
<1>7. CASE InsertReturn
  BY <1>7, InsertReturnInv, Zenon
<1>8. CASE InsertCall
  BY <1>8, InsertCallInv, Zenon
<1>9. CASE EndCalls
  BY <1>9, EndCallsInv, Zenon
<1> QED
  BY <1>1, <1>2, <1>3, <1>4, <1>5, <1>6, <1>7, <1>8, <1>9, Zenon DEF Next, Returned

----------------------------------------------------------------------------
\* The invariant behind the properties holds for every skeleton that cf_construct
\* may build, every list of callees, and any number of blocks and of types.
THEOREM Invariance == Spec => []IInv
<1>1. Init => IInv
  BY InitInv, Zenon
<1>2. IInv /\ [Next]_vars => IInv'
  BY NextInv, Zenon
<1> QED
  BY <1>1, <1>2, PTL DEF Spec

\* The state of the generator has its types: the tables never name a block that
\* is not one, and no slot of a terminator is lost or invented.
THEOREM GeneratorTypes == Spec => []TypeOK
<1>1. IInv => TypeOK
  BY Zenon DEF IInv
<1> QED
  BY <1>1, Invariance, PTL

\* select_random_value and get_random_cond_value are never asked for a value of
\* a type that no dominating block has.
THEOREM NeverPanics == Spec => []NoPanic
<1>1. IInv => NoPanic
  BY Zenon DEF IInv
<1> QED
  BY <1>1, Invariance, PTL

\* The generated function is in SSA form: whatever an instruction, an edge, the
\* return or a call reads is defined in a block that dominates the reader.
THEOREM GeneratedSSA == Spec => []DefsDominateUses
<1>1. IInv => DefsDominateUses
  BY Zenon DEF IInv
<1> QED
  BY <1>1, Invariance, PTL

\* A block with two successors ends in a branch.
LEMMA TwoSuccessorsBranch ==
  ASSUME skel \in Skeletons, NEW b \in Blocks, Cardinality(Succ(b)) > 1
  PROVE  IsBranch(b)
<1> DEFINE t == skel.term[b]
<1>1. /\ t.op = "none" <=> DOMAIN t.dest = {}
      /\ t.op = "jump" => DOMAIN t.dest = {0}
      /\ t.op \in {"none", "jump", "brif", "br_table"}
  BY SlotFacts, Zenon
<1>2. CASE t.op = "none"
  <2>1. Succ(b) = {}
    BY <1>1, <1>2, Zenon DEF Succ, Dest
  <2> QED
    BY <2>1, FS_EmptySet
<1>3. CASE t.op = "jump"
  <2>1. Succ(b) = {t.dest[0]}
    BY <1>1, <1>3, Zenon DEF Succ, Dest
  <2>2. Cardinality({t.dest[0]}) = 1
    BY FS_Singleton, Zenon
  <2> QED
    BY <2>1, <2>2
<1> QED
  BY <1>1, <1>2, <1>3, Zenon DEF IsBranch

\* After the first loop no branch is left with the condition the constructor gave
\* it: each reads an i32 that is available where it stands.
THEOREM BranchesReadLiveConditions == Spec => []ConditionsLive
<1>1. ASSUME IInv
      PROVE  ConditionsLive
  <2> SUFFICES ASSUME pc \in {"params", "return", "calls", "done"},
                      NEW b \in Blocks, Cardinality(Succ(b)) > 1
               PROVE  Available(cond[b], b) /\ cond[b].type = "i32"
    BY Zenon DEF ConditionsLive
  <2>1. skel \in Skeletons /\ DOMAIN defs = Blocks
    BY <1>1, OrderFacts, Zenon DEF Populated
  <2>2. IsBranch(b)
    BY <2>1, TwoSuccessorsBranch, Zenon
  <2>3. Available(cond[b], b)
    BY <1>1, <2>1, <2>2, Zenon DEF IInv, Readable
  <2>4. cond[b].type = "i32"
    BY <1>1, <2>2, Zenon DEF IInv, TypeOK
  <2> QED
    BY <2>3, <2>4, Zenon
<1> QED
  BY <1>1, Invariance, PTL

\* Every edge passes exactly the parameters of its target, in their order, also
\* between two iterations of the loop that inserts them.
THEOREM EdgesPassParams == Spec => []EdgesMatchParams
<1>1. IInv => EdgesMatchParams
  BY Zenon DEF IInv
<1> QED
  BY <1>1, Invariance, PTL

\* block_def_values, from which insert_function_invocation takes the arguments of
\* calls, names only values that the function still has.
THEOREM TableStaysCurrent == Spec => []TableIsCurrent
<1>1. IInv => TableIsCurrent
  BY Zenon DEF IInv
<1> QED
  BY <1>1, Invariance, PTL

\* The return and every call keep one value per type of their signature while
\* their operands are replaced by results of later calls.
THEOREM CallsKeepSignatures == Spec => []SignaturesKept
<1>1. IInv => SignaturesKept
  BY Zenon DEF IInv
<1> QED
  BY <1>1, Invariance, PTL

\* The depth-first list never comes to a block before one that dominates it.
THEOREM DfsDominatorsFirst == Spec => []DominatorsFirst
<1>1. IInv => DominatorsFirst
  BY FirstLoopFacts, Zenon DEF DominatorsFirst
<1> QED
  BY <1>1, Invariance, PTL

============================================================================
