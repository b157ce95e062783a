------------------------- MODULE FunctionGenerator -------------------------
(***************************************************************************)
(* The function generator (crates/function-generator/src/lib.rs): how the  *)
(* skeleton of a function gets its instructions, block parameters, return  *)
(* and calls.                                                              *)
(*                                                                         *)
(* function_generator lists the blocks in depth-first order and goes over  *)
(* the list twice.  The first time every block gets instructions that read *)
(* values of the blocks that dominate it, and a fresh branch condition.    *)
(* The second time every block with two or more predecessors gets block    *)
(* parameters, and every edge to it the arguments for them.  The return    *)
(* comes last.  Later insert_function_invocation adds one call per callee, *)
(* from the tables function_generator has left behind.                     *)
(*                                                                         *)
(* A value is told from the others by its block, its type and what defines *)
(* it: one value stands for all the results of one type that the           *)
(* instructions of a block have.                                           *)
(***************************************************************************)
EXTENDS Integers, Sequences, FiniteSets, Functions, Skeleton

CONSTANTS
  Skeletons,     \* what cf_construct may have built: the terminator of every
                 \* block, and the blocks that have a condition parameter
  Types,         \* the types of values
  OperandTypes,  \* config.operand_types
  SigParams,     \* the sequence of the types of the function's parameters
  ReturnTypes,   \* the types it returns
  CalleesOf,     \* the functions one with a skeleton calls: a sequence of signatures
  MaxReaders,    \* bound: the blocks whose instructions read anything
  MaxDefiners,   \* bound: the blocks whose instructions define anything
  MaxReads,      \* bound, for each skeleton: the values that the instructions of
                 \* a block read
  MaxResults     \* bound: the values that they define

\* All four configurations list i32, of which conditions are made, and i64,
\* stored to the stack slots, and every type a signature may have; signatures
\* return 8 or 9 of 11 types.
ASSUME GeneratorAssumption ==
  /\ \A s \in Skeletons : WellBuilt(s)
  /\ {"i32", "i64"} \subseteq OperandTypes
  /\ OperandTypes \subseteq Types /\ IsFiniteSet(Types)
  /\ SigParams \in Seq(OperandTypes)
  /\ ReturnTypes \subseteq OperandTypes /\ ReturnTypes # {}
  /\ CalleesOf \in
       [Skeletons -> Seq([params : SUBSET OperandTypes, returns : SUBSET Types])]
  /\ MaxReads \in [Skeletons -> Nat]
  /\ {MaxReaders, MaxDefiners, MaxResults} \subseteq Nat

VARIABLES
  skel,     \* the skeleton; the edges of the function never change
  todo,     \* the calls of dfs to come, the next one first
  order,    \* dfs_order
  idx,      \* position in order of the for loop, or the number of the callee
  defs,     \* block_def_values
  refs,     \* block_ref_values, of which only the types are used
  bparams,  \* the parameters of every block
  uses,     \* the values the instructions of a block read, its branch and
            \* its calls apart
  made,     \* the values the instructions of a block define
  cond,     \* the condition of every brif and br_table
  args,     \* the arguments in every slot of every terminator
  ret,      \* the set of the returns: block and values
  calls,    \* the calls, one per callee so far: block and arguments
  pc        \* "dfs", "populate", "params", "return", "calls", "done", "panic"

vars == <<skel, todo, order, idx, defs, refs, bparams, uses, made, cond, args,
          ret, calls, pc>>

----------------------------------------------------------------------------
Blocks == DOMAIN skel.term
Succ(b) == Dest(skel.term[b])
Pred(b) == {p \in Blocks : b \in Succ(p)}

\* Broken variant of IsBranch: a br_table does not count.
BrifOnly(b) == skel.term[b].op = "brif"

IsBranch(b) == skel.term[b].op \in {"brif", "br_table"}

Value(b, t, k) == [block |-> b, type |-> t, kind |-> k, callee |-> 0]
CallResult(b, t, c) == [block |-> b, type |-> t, kind |-> "call", callee |-> c]
NoValue == Value(Entry, "none", "none")

\* The elements of a finite set of numbers in increasing order, the order of
\* cfg.succ_iter.
Ascending(S) ==
  [i \in 1 .. Cardinality(S) |->
     CHOOSE b \in S : Cardinality({c \in S : c < b}) = i - 1]

\* The sequences that list every element of T once.
Orders(T) ==
  {f \in [1 .. Cardinality(T) -> T] : Range(f) = T}

(***************************************************************************)
(* compute_dominators (module Dominators): d dominates n when some set of  *)
(* blocks without d and n holds all that is reached from the entry block   *)
(* without d.                                                              *)
(***************************************************************************)
Dominates(s, d, n) ==
  \E S \in SUBSET (DOMAIN s.term \ {d}) :
    /\ n \notin S
    /\ Entry # d => Entry \in S
    /\ \A b \in S : Dest(s.term[b]) \ {d} \subseteq S

DominatorTable ==
  [s \in Skeletons |->
     [n \in DOMAIN s.term |-> {d \in DOMAIN s.term : Dominates(s, d, n)}]]

Dominators(n) == DominatorTable[skel][n]

\* Broken variant of DominatorValues: the values of all blocks recorded so far.
RecordedValues(D, b) == UNION {D[d] : d \in DOMAIN D}

\* get_dominator_values_with_type, for all types at once: the values that
\* table D records for the blocks that dominate b.
DominatorValues(D, b) == UNION {D[d] : d \in Dominators(b) \cap DOMAIN D}

OfType(V, t) == {v \in V : v.type = t}

\* One value of V for every type of T, as select_random_value picks them;
\* there is none if V has no value of some type, where the code panics.
Picks(V, T) == {f \in [T -> V] : \A t \in T : f[t].type = t}

Init ==
  /\ skel \in Skeletons
  /\ todo = <<Entry>>
  /\ order = <<>>
  /\ idx = 1
  /\ defs = [b \in {} |-> {}]
  /\ refs = [b \in {} |-> {}]
  /\ bparams = [b \in Blocks |->
                  IF b \in skel.params THEN <<Value(b, "i32", "cond")>> ELSE <<>>]
  /\ uses = [b \in Blocks |-> {}]
  /\ made = [b \in Blocks |-> {}]
  /\ cond = [b \in Blocks |->
               IF IsBranch(b) THEN Value(skel.term[b].arg, "i32", "cond") ELSE NoValue]
  /\ args = [b \in Blocks |-> [i \in DOMAIN skel.term[b].dest |-> <<>>]]
  /\ ret = {}
  /\ calls = <<>>
  /\ pc = "dfs"

----------------------------------------------------------------------------
\* Broken variant of Dfs: the list grows at its front.
DfsToFront ==
  /\ pc = "dfs"
  /\ IF todo = <<>>
     THEN /\ pc' = "populate"
          /\ UNCHANGED <<todo, order>>
     ELSE LET n == Head(todo)
          IN  /\ IF n \in Range(order)
                 THEN todo' = Tail(todo) /\ UNCHANGED order
                 ELSE /\ order' = <<n>> \o order
                      /\ todo' = Ascending(Succ(n)) \o Tail(todo)
              /\ UNCHANGED pc
  /\ UNCHANGED <<skel, idx, defs, refs, bparams, uses, made, cond, args, ret, calls>>

\* One call of dfs, or the test that skips it.  The calls to come are those of
\* the loops still running, innermost first.
Dfs ==
  /\ pc = "dfs"
  /\ IF todo = <<>>
     THEN /\ pc' = "populate"
          /\ UNCHANGED <<todo, order>>
     ELSE LET n == Head(todo)
          IN  /\ IF n \in Range(order)
                 THEN todo' = Tail(todo) /\ UNCHANGED order
                 ELSE /\ order' = Append(order, n)
                      /\ todo' = Ascending(Succ(n)) \o Tail(todo)
              /\ UNCHANGED pc
  /\ UNCHANGED <<skel, idx, defs, refs, bparams, uses, made, cond, args, ret, calls>>

\* The parameters of the signature, which the entry block gets.
SigValues(b) == [i \in 1 .. Len(SigParams) |-> Value(b, SigParams[i], "sig")]

\* gen_scalar_constant, and its counterparts for vectors.
Constant(b, t) == Value(b, t, "const")

\* The values the entry block starts with: its parameters, and a constant of
\* every operand type that no parameter has.
Prelude(b) ==
  IF b = order[1]
  THEN Range(SigValues(b)) \cup {Constant(b, t) : t \in OperandTypes \ Range(SigParams)}
  ELSE {}

\* block_def_values while block b is populated: the instructions of b do not
\* see each other's results.
Known(b) ==
  IF b = order[1]
  THEN [d \in DOMAIN defs \cup {b} |-> IF d = b THEN Prelude(b) ELSE defs[d]]
  ELSE defs

Readers == {b \in Blocks : uses[b] # {}}
Definers == {b \in Blocks : \E v \in made[b] : v.kind = "inst"}

\* What a snippet of instructions may read, a value per type, and define.
Reads(b) ==
  {R \in SUBSET DominatorValues(Known(b), b) :
     /\ \A v, w \in R : v.type = w.type => v = w
     /\ R # {} => Cardinality(Readers) < MaxReaders
     /\ Cardinality(R) <= MaxReads[skel]}

Results(b) ==
  {V \in SUBSET {Value(b, t, "inst") : t \in Types} :
     /\ V # {} => Cardinality(Definers) < MaxDefiners
     /\ Cardinality(V) <= MaxResults}

\* The conditions get_random_cond_value may return.
Conditions(D, b) == OfType(DominatorValues(D, b), "i32")

\* Broken variant of ParamsLeft: every block loses its first parameter.
ParamsLeftAlways(b) ==
  LET P == IF b = order[1] THEN bparams[b] \o SigValues(b) ELSE bparams[b]
  IN  IF P # <<>> THEN Tail(P) ELSE P

\* The parameters of b after the first loop: the entry block has got those of
\* the signature, and a block that ends in a branch loses its first one.
ParamsLeft(b) ==
  LET P == IF b = order[1] THEN bparams[b] \o SigValues(b) ELSE bparams[b]
  IN  IF IsBranch(b) /\ P # <<>> THEN Tail(P) ELSE P

Panic ==
  /\ pc' = "panic"
  /\ UNCHANGED <<skel, todo, order, idx, defs, refs, bparams, uses, made, cond,
                 args, ret, calls>>

\* The entry block stores a value of type i64, a branch reads one of type i32.
LacksValue(b, D) ==
  \/ b = order[1] /\ OfType(Prelude(b), "i64") = {}
  \/ IsBranch(b) /\ Conditions(D, b) = {}

\* The body of the first loop: block order[idx] gets its instructions and its
\* condition.
Populate ==
  /\ pc = "populate"
  /\ idx <= Len(order)
  /\ LET b == order[idx]
     IN  \E R \in Reads(b), V \in Results(b) :
           LET D == [d \in DOMAIN defs \cup {b} |->
                       IF d = b THEN Prelude(b) \cup V ELSE defs[d]]
           IN  IF LacksValue(b, D)
               THEN Panic
               ELSE /\ defs' = D
                    /\ refs' = [d \in DOMAIN refs \cup {b} |->
                                  IF d = b THEN {v.type : v \in R} ELSE refs[d]]
                    /\ uses' = [uses EXCEPT ![b] = R]
                    /\ made' = [made EXCEPT ![b] =
                                  {v \in Prelude(b) : v.kind = "const"} \cup V]
                    /\ bparams' = [bparams EXCEPT ![b] = ParamsLeft(b)]
                    /\ IF IsBranch(b)
                       THEN \E c \in Conditions(D, b) : cond' = [cond EXCEPT ![b] = c]
                       ELSE UNCHANGED cond
                    /\ idx' = idx + 1
                    /\ UNCHANGED <<skel, todo, order, args, ret, calls, pc>>

\* The end of a loop over order.
EndLoop ==
  /\ pc \in {"populate", "params"}
  /\ idx > Len(order)
  /\ pc' = IF pc = "populate" THEN "params" ELSE "return"
  /\ idx' = 1
  /\ UNCHANGED <<skel, todo, order, defs, refs, bparams, uses, made, cond, args,
                 ret, calls>>

----------------------------------------------------------------------------
\* Broken variants of PassArgs: the default slot of a br_table is forgotten; a
\* brif has its true arm changed whichever leads to n.
PassArgsNoDefault(p, n, a) ==
  LET t == skel.term[p]
  IN  CASE t.op = "jump" -> [args[p] EXCEPT ![0] = a]
        [] t.op = "brif" -> [args[p] EXCEPT ![IF t.dest[1] = n THEN 1 ELSE 0] = a]
        [] t.op = "br_table" -> [i \in DOMAIN t.dest \ {0} |-> a]

PassArgsTrueArm(p, n, a) ==
  LET t == skel.term[p]
  IN  IF t.op = "br_table" THEN args[p] ELSE [args[p] EXCEPT ![0] = a]

\* The arguments a, one per parameter of n, in the slots of p that lead to n.
\* The list of a br_table is not cleared between two slots.
PassArgs(p, n, a) ==
  LET t == skel.term[p]
  IN  CASE t.op = "jump" -> [args[p] EXCEPT ![0] = a]
        [] t.op = "brif" -> [args[p] EXCEPT ![IF t.dest[1] = n THEN 1 ELSE 0] = a]
        [] t.op = "br_table" ->
             [i \in DOMAIN t.dest |->
                IF t.dest[i] # n THEN args[p][i]
                ELSE LET rank == Cardinality({j \in DOMAIN t.dest : j <= i /\ t.dest[j] = n})
                     IN  [x \in 1 .. (rank * Len(a)) |-> a[((x - 1) % Len(a)) + 1]]]

\* What reads a value v of K reads W(v) instead: as a bound on the cases, all the
\* readers of v in X at once.
Substitute(X, K, W(_)) == (X \ K) \cup {W(v) : v \in K}

\* Broken variant of ParamTypes: the types that n itself defines, too.
ParamTypesOfDefs(n) == refs[n] \cup {v.type : v \in defs[n]}

\* get_value_type_intersection: the predecessors are never added to the list it
\* gets, so the types are those that n itself reads.
ParamTypes(n) == refs[n]

\* The body of the second loop, for a block with two predecessors or more.
InsertParams ==
  /\ pc = "params"
  /\ idx <= Len(order)
  /\ LET n == order[idx]
         T == ParamTypes(n)
         Param(t) == Value(n, t, "param")
         D == [defs EXCEPT ![n] = @ \cup {Param(t) : t \in T}]
         OfParam(v) == Param(v.type)
         Choices(p) == Picks(DominatorValues(D, p), T)
     IN  /\ Cardinality(Pred(n)) >= 2
         /\ IF \E p \in Pred(n) : Choices(p) = {}
            THEN Panic
            ELSE \E P \in Orders(T),
                    f \in {f \in [Pred(n) -> UNION {Choices(p) : p \in Pred(n)}] :
                             \A p \in Pred(n) : f[p] \in Choices(p)},
                    K \in SUBSET {v \in uses[n] : v.type \in T},
                    C \in SUBSET {v \in {cond[n]} : IsBranch(n) /\ v.type \in T} :
                   /\ bparams' = [bparams EXCEPT ![n] =
                                    @ \o [i \in 1 .. Cardinality(T) |-> Param(P[i])]]
                   /\ defs' = D
                   /\ args' = [p \in Blocks |->
                                IF p \in Pred(n)
                                THEN PassArgs(p, n, [i \in 1 .. Cardinality(T) |-> f[p][P[i]]])
                                ELSE args[p]]
                   /\ uses' = [uses EXCEPT ![n] = Substitute(@, K, OfParam)]
                   /\ cond' = IF C = {} THEN cond ELSE [cond EXCEPT ![n] = Param("i32")]
                   /\ idx' = idx + 1
                   /\ UNCHANGED <<skel, todo, order, refs, made, ret, calls, pc>>

\* The second loop leaves a block with fewer predecessors alone.
SkipParams ==
  /\ pc = "params"
  /\ idx <= Len(order)
  /\ Cardinality(Pred(order[idx])) < 2
  /\ idx' = idx + 1
  /\ UNCHANGED <<skel, todo, order, defs, refs, bparams, uses, made, cond, args,
                 ret, calls, pc>>

----------------------------------------------------------------------------
\* Broken variant of LastBlock: the last block of the list.
LastInOrder == order[Len(order)]

\* get_last_block: the first block of the list without a successor.
LastBlock ==
  order[CHOOSE i \in 1 .. Len(order) :
          /\ Succ(order[i]) = {}
          /\ \A j \in 1 .. (i - 1) : Succ(order[j]) # {}]

\* The return, of one value per type of the signature.
InsertReturn ==
  /\ pc = "return"
  /\ LET V == DominatorValues(defs, LastBlock)
     IN  IF Picks(V, ReturnTypes) = {}
         THEN Panic
         ELSE /\ \E f \in Picks(V, ReturnTypes) :
                   ret' = {[block |-> LastBlock, values |-> Range(f)]}
              /\ pc' = "calls"
              /\ UNCHANGED <<skel, todo, order, idx, defs, refs, bparams, uses, made,
                             cond, args, calls>>

\* The signatures of the functions this one calls.
Callees == CalleesOf[skel]

\* all_blocks[1..]: every block but the first, which is the entry block.
CallSites == {b \in Blocks : \E c \in Blocks : c < b}

\* The blocks whose instructions may get a result of a call in b.
Dominated(b) == {c \in Blocks : b \in Dominators(c)} \ {b}

\* One instruction of block m, of those that read values, gets results of the
\* new call, in block b, for some of its operands of the same types.
Forward(b, m, new) ==
  LET Result(v) == CallResult(b, v.type, idx)
      Fitting(X) == SUBSET {v \in X : v.type \in Callees[idx].returns}
  IN  \/ \E K \in Fitting(uses[m]) :
           /\ uses' = [uses EXCEPT ![m] = Substitute(@, K, Result)]
           /\ calls' = Append(calls, new)
           /\ UNCHANGED <<cond, ret>>
      \/ /\ IsBranch(m) /\ cond[m].type \in Callees[idx].returns
         /\ cond' = [cond EXCEPT ![m] = Result(@)]
         /\ calls' = Append(calls, new)
         /\ UNCHANGED <<uses, ret>>
      \/ \E r \in ret : \E K \in Fitting(r.values) :
           /\ r.block = m
           /\ ret' = {[r EXCEPT !.values = Substitute(@, K, Result)]}
           /\ calls' = Append(calls, new)
           /\ UNCHANGED <<uses, cond>>
      \/ \E k \in DOMAIN calls : \E K \in Fitting(calls[k].args) :
           /\ calls[k].block = m
           /\ calls' = Append([calls EXCEPT ![k].args = Substitute(@, K, Result)], new)
           /\ UNCHANGED <<uses, cond, ret>>

\* The iteration of insert_function_invocation for callee number idx: the call
\* goes before the last instruction of block b, its results to a block that b
\* dominates, if there is one.
InsertCall ==
  /\ pc = "calls"
  /\ idx <= Len(Callees)
  /\ \E b \in CallSites :
       LET P == Picks(DominatorValues(defs, b), Callees[idx].params)
       IN  IF P = {}
           THEN Panic
           ELSE /\ \E f \in P :
                     LET new == [block |-> b, args |-> Range(f)]
                     IN  \/ \E m \in Dominated(b) : Forward(b, m, new)
                         \/ /\ Dominated(b) = {}
                            /\ calls' = Append(calls, new)
                            /\ UNCHANGED <<uses, cond, ret>>
                /\ made' = [made EXCEPT ![b] =
                              @ \cup {CallResult(b, t, idx) : t \in Callees[idx].returns}]
                /\ idx' = idx + 1
                /\ UNCHANGED <<skel, todo, order, defs, refs, bparams, args, pc>>

\* insert_function_invocation has returned.
EndCalls ==
  /\ pc = "calls"
  /\ idx > Len(Callees)
  /\ pc' = "done"
  /\ UNCHANGED <<skel, todo, order, idx, defs, refs, bparams, uses, made, cond,
                 args, ret, calls>>

Returned ==
  /\ pc = "done"
  /\ UNCHANGED vars

Next ==
  \/ Dfs \/ Populate \/ InsertParams \/ SkipParams \/ EndLoop
  \/ InsertReturn \/ InsertCall \/ EndCalls \/ Returned

Spec == Init /\ [][Next]_vars

----------------------------------------------------------------------------
Values ==
  [block : Blocks, type : Types, callee : 0 .. Len(Callees),
   kind : {"cond", "sig", "const", "inst", "param", "call"}]

\* The variables have their types, and the tables cover the blocks populated.
TypeOK ==
  /\ skel \in Skeletons
  /\ todo \in Seq(Blocks) /\ order \in Seq(Blocks)
  /\ idx \in Nat \ {0}
  /\ DOMAIN defs \subseteq Blocks /\ \A b \in DOMAIN defs : defs[b] \subseteq Values
  /\ DOMAIN refs = DOMAIN defs /\ \A b \in DOMAIN refs : refs[b] \subseteq Types
  /\ bparams \in [Blocks -> Seq(Values)]
  /\ uses \in [Blocks -> SUBSET Values] /\ made \in [Blocks -> SUBSET Values]
  /\ DOMAIN cond = Blocks /\ \A b \in Blocks : IsBranch(b) => cond[b].type = "i32"
  /\ DOMAIN args = Blocks
  /\ \A b \in Blocks : args[b] \in [DOMAIN skel.term[b].dest -> Seq(Values)]
  /\ ret \subseteq [block : Blocks, values : SUBSET Values]
  /\ calls \in Seq([block : Blocks, args : SUBSET Values])
  /\ pc \in {"dfs", "populate", "params", "return", "calls", "done", "panic"}

\* No unwrap of an absent value: every block finds an i32 for its condition,
\* every predecessor a value for every parameter, the return and every call a
\* value for every type.
NoPanic == pc # "panic"

Exists(v) == v \in made[v.block] \cup Range(bparams[v.block])

\* v can be read at the end of block b, by its branch, return or a call.
Available(v, b) ==
  /\ v.block \in Dominators(b)
  /\ Exists(v)
  /\ v.block = b => v.kind # "call"

\* v can be read by any instruction of block b.
AvailableEarly(v, b) ==
  Available(v, b) /\ (v.block = b => v.kind # "inst")

\* SSA: whatever is read is a value the function still has, defined in a block
\* that dominates the reader, and before it where both are in one block.  This
\* holds of instructions, edge arguments, the return and calls, after every
\* step, though no step checks it: instructions rely on the dominator sets,
\* arguments on those of the predecessor, forwarded call results on those of
\* the call site.
DefsDominateUses ==
  /\ \A b \in Blocks : \A v \in uses[b] : AvailableEarly(v, b)
  /\ \A b \in Blocks : \A i \in DOMAIN args[b] :
       \A v \in Range(args[b][i]) : Available(v, b)
  /\ \A r \in ret : \A v \in r.values : Available(v, r.block)
  /\ \A c \in Range(calls) : \A v \in c.args : Available(v, c.block)

\* Once the first loop is over, every branch reads an i32 that is available
\* where it stands: none is left with the parameter of the constructor, which
\* a splice may have taken away with its block.
ConditionsLive ==
  pc \in {"params", "return", "calls", "done"} =>
    \A b \in Blocks :
      Cardinality(Succ(b)) > 1 => Available(cond[b], b) /\ cond[b].type = "i32"

TypesOf(s) == [i \in DOMAIN s |-> s[i].type]

\* From the second loop on, every edge passes exactly the parameters of the
\* block it leads to, in their order.
EdgesMatchParams ==
  pc \in {"params", "return", "calls", "done"} =>
    \A b \in Blocks : \A i \in DOMAIN args[b] :
      TypesOf(args[b][i]) = TypesOf(bparams[skel.term[b].dest[i]])

\* The return is in the only block without a successor, and it and every call
\* pass one value per type of the signature, also after operands have been
\* replaced by results of other calls.
SignaturesKept ==
  /\ pc \in {"calls", "done"} =>
       {r.block : r \in ret} = {b \in Blocks : Succ(b) = {}}
  /\ \A r \in ret : {v.type : v \in r.values} = ReturnTypes
  /\ \A k \in DOMAIN calls : {v.type : v \in calls[k].args} = Callees[k].params

\* The table handed to insert_function_invocation names only values that the
\* function still has, each under its own block.
TableIsCurrent ==
  \A b \in DOMAIN defs : \A v \in defs[b] : v.block = b /\ Exists(v)

\* Depth-first order is good enough for the first loop: when a block is
\* populated, all the blocks that strictly dominate it have their values.
DominatorsFirst ==
  pc = "populate" /\ idx <= Len(order) =>
    Dominators(order[idx]) \ {order[idx]} \subseteq DOMAIN defs

----------------------------------------------------------------------------
(***************************************************************************)
(* Why the properties hold, phase by phase.                                *)
(***************************************************************************)
\* The list: every block comes after all that dominate it, since it is reached
\* from a block already listed, and whatever is reached is listed or to come.
Listing ==
  /\ \A i, j \in DOMAIN order : order[i] = order[j] => i = j
  /\ IF order = <<>> THEN pc = "dfs" /\ todo = <<Entry>> ELSE order[1] = Entry
  /\ pc = "dfs" =>
       /\ \A n \in Range(todo) : n = Entry \/ \E p \in Range(order) : n \in Succ(p)
       /\ \A n \in Range(order) : Succ(n) \subseteq Range(order) \cup Range(todo)
  /\ pc # "dfs" => Range(order) = Blocks
  /\ \A i \in DOMAIN order : \A d \in Dominators(order[i]) : \E j \in 1 .. i : order[j] = d

\* How far the loops have come.
Position ==
  /\ pc \in {"dfs", "return"} => idx = 1
  /\ pc \in {"populate", "params"} => idx <= Len(order) + 1
  /\ pc \in {"calls", "done"} => Len(calls) = idx - 1 /\ idx <= Len(Callees) + 1
  /\ pc \notin {"calls", "done"} => ret = {} /\ calls = <<>>

Populated ==
  IF pc = "dfs" THEN {}
  ELSE IF pc = "populate" THEN {order[i] : i \in 1 .. (idx - 1)} ELSE Blocks

\* The tables: the entry block has a value of every operand type, and a type
\* that another block reads comes from a block that strictly dominates it.
Tables ==
  /\ DOMAIN defs = Populated
  /\ \A b \in DOMAIN defs : \A v \in defs[b] : v.kind # "call"
  /\ Entry \in DOMAIN defs => \A t \in OperandTypes : \E v \in defs[Entry] : v.type = t
  /\ \A b \in DOMAIN defs \ {Entry} : \A t \in refs[b] :
       \E d \in Dominators(b) \ {b} : d \in DOMAIN defs /\ \E v \in defs[d] : v.type = t

\* What a populated block reads has been recorded, so that populating another
\* one takes nothing away from it.
Readable ==
  /\ \A b \in Blocks : \A v \in uses[b] : v.block \in DOMAIN defs
  /\ \A b \in DOMAIN defs :
       IsBranch(b) => cond[b].block \in DOMAIN defs /\ Available(cond[b], b)

\* A block has its condition parameter until it is populated, then none until
\* the second loop comes to it; no edge passes anything before that loop.
Parameters ==
  /\ \A b \in Blocks \ DOMAIN defs :
       bparams[b] = IF b \in skel.params THEN <<Value(b, "i32", "cond")>> ELSE <<>>
  /\ pc = "populate" => \A b \in DOMAIN defs \ {Entry} : bparams[b] = <<>>
  /\ pc = "params" =>
       \A j \in idx .. Len(order) : order[j] # Entry => bparams[order[j]] = <<>>
  /\ pc \in {"dfs", "populate"} =>
       \A b \in Blocks : \A i \in DOMAIN args[b] : args[b][i] = <<>>

\* The inductive invariant behind the properties.
IInv ==
  /\ TypeOK /\ NoPanic /\ Listing /\ Position /\ Tables /\ Readable /\ Parameters
  /\ DefsDominateUses /\ EdgesMatchParams /\ TableIsCurrent /\ SignaturesKept
============================================================================
