---------------------------- MODULE ControlFlow ----------------------------
(***************************************************************************)
(* The control-flow constructor (crates/cf-constructor/src/lib.rs): the    *)
(* skeleton of basic blocks and terminators of one generated function.     *)
(*                                                                         *)
(* cf_construct first makes an entry and an end block with one structure   *)
(* (sequence, if-else, while or switch) between them.  It then calls       *)
(* itself on the structure it has just built: a random block of that       *)
(* structure is replaced by a new structure.  update_predecessor points    *)
(* the predecessors of the replaced block at the first block of the new    *)
(* structure, update_successor moves its terminator to the last block.     *)
(*                                                                         *)
(* Blocks are numbered by make_block, the only allocator.  Of the layout   *)
(* only the set of blocks is kept: the constructor never reads the order,  *)
(* and the entry block, inserted first and never removed, stays in front.  *)
(***************************************************************************)
EXTENDS Integers, FiniteSets

CONSTANTS
  MaxDepth,   \* MAX_DEPTH, the depth at which the recursion stops
  SeqSizes,   \* the sizes drawn for a sequence (2..4 in the code)
  CaseNums    \* the numbers of cases drawn for a switch (6..8 in the code)

\* sequential computes block_num - 1 on an unsigned number, and the branch
\* table of a one-case switch would have two successors, which
\* update_successor takes for those of a brif.
ASSUME BoundsAssumption ==
  /\ MaxDepth \in Nat
  /\ SeqSizes \subseteq Nat \ {0}
  /\ CaseNums \subseteq Nat \ {0, 1}

VARIABLES
  layout,    \* func.layout: the set of the blocks of the function
  term,      \* the terminator of every block of the layout
  params,    \* the blocks that have a block parameter (type i32)
  parent,    \* parent_block, the structure the pending call refines
  depth,     \* the depth argument of the pending call
  next,      \* the number make_block gives to the next block
  status     \* "root" before the first call, "nested" while a recursive call
             \* is pending, "done", or "panic"

vars == <<layout, term, params, parent, depth, next, status>>

Entry == 0
End == 1

(***************************************************************************)
(* Terminators.  dest maps the slots of a terminator to target blocks: 0   *)
(* for a jump, 0 (true) and 1 (false) for a brif, 0 (default) and 1..n     *)
(* (the cases) for a br_table.  arg is the block whose parameter is the    *)
(* condition.                                                              *)
(***************************************************************************)
NoCond == -1
NoTerm == [op |-> "none", dest |-> [i \in {} |-> 0], arg |-> NoCond]
Jump(b) == [op |-> "jump", dest |-> [i \in 0..0 |-> b], arg |-> NoCond]
Brif(a, d) == [op |-> "brif", dest |-> d, arg |-> a]
BrTable(a, d) == [op |-> "br_table", dest |-> d, arg |-> a]

Dest(t) == {t.dest[i] : i \in DOMAIN t.dest}
Succ(b) == Dest(term[b])

----------------------------------------------------------------------------
(***************************************************************************)
(* The structures.  Each is built from block n on: the blocks with their   *)
(* terminators (the last block has none yet), the blocks that carry a      *)
(* condition parameter, the first and last block, and the blocks that      *)
(* get_random_block may return.                                            *)
(***************************************************************************)
Sequential(n, k) ==
  [kind   |-> "sequential",
   blocks |-> n .. (n + k - 1),
   term   |-> [b \in n .. (n + k - 1) |->
                 IF b = n + k - 1 THEN NoTerm ELSE Jump(b + 1)],
   params |-> {},
   first  |-> n,
   last   |-> n + k - 1,
   random |-> n .. (n + k - 1)]

\* Broken variant of IfElse: the true block jumps to itself.
IfElseTrueLoops(n) ==
  [kind   |-> "if_else",
   blocks |-> n .. (n + 3),
   term   |-> [b \in n .. (n + 3) |->
                 IF b = n THEN Brif(n, [i \in 0..1 |-> n + 1 + i])
                 ELSE IF b = n + 3 THEN NoTerm
                 ELSE IF b = n + 1 THEN Jump(n + 1) ELSE Jump(n + 3)],
   params |-> {n},
   first  |-> n,
   last   |-> n + 3,
   random |-> {n + 1, n + 2}]

IfElse(n) ==
  [kind   |-> "if_else",
   blocks |-> n .. (n + 3),
   term   |-> [b \in n .. (n + 3) |->
                 IF b = n THEN Brif(n, [i \in 0..1 |-> n + 1 + i])
                 ELSE IF b = n + 3 THEN NoTerm ELSE Jump(n + 3)],
   params |-> {n},
   first  |-> n,
   last   |-> n + 3,
   random |-> {n + 1, n + 2}]

While(n) ==
  [kind   |-> "while",
   blocks |-> n .. (n + 2),
   term   |-> [b \in n .. (n + 2) |->
                 IF b = n THEN Brif(n, [i \in 0..1 |-> n + 1 + i])
                 ELSE IF b = n + 2 THEN NoTerm ELSE Jump(n)],
   params |-> {n},
   first  |-> n,
   last   |-> n + 2,
   random |-> n .. (n + 2)]

\* Broken variant of Switch: the table misses the last case.
SwitchMissesCase(n, k) ==
  [kind   |-> "switch",
   blocks |-> n .. (n + 2 + k),
   term   |-> [b \in n .. (n + 2 + k) |->
                 IF b = n
                 THEN BrTable(n, [i \in 0 .. (k - 1) |-> IF i = 0 THEN n + 1 ELSE n + 2 + i])
                 ELSE IF b = n + 2 THEN NoTerm ELSE Jump(n + 2)],
   params |-> {n},
   first  |-> n,
   last   |-> n + 2,
   random |-> (n .. (n + 2 + k)) \ {n + 2}]

\* Numbered in the order of the make_block calls: condition, default, last
\* and then the cases.
Switch(n, k) ==
  [kind   |-> "switch",
   blocks |-> n .. (n + 2 + k),
   term   |-> [b \in n .. (n + 2 + k) |->
                 IF b = n
                 THEN BrTable(n, [i \in 0..k |-> IF i = 0 THEN n + 1 ELSE n + 2 + i])
                 ELSE IF b = n + 2 THEN NoTerm ELSE Jump(n + 2)],
   params |-> {n},
   first  |-> n,
   last   |-> n + 2,
   random |-> (n .. (n + 2 + k)) \ {n + 2}]

Structures(n) ==
  {Sequential(n, k) : k \in SeqSizes} \cup {IfElse(n), While(n)}
    \cup {Switch(n, k) : k \in CaseNums}

----------------------------------------------------------------------------
(***************************************************************************)
(* update_predecessor: every block that branches to the replaced block r   *)
(* branches to b instead.  A brif has only the first matching slot         *)
(* changed; a br_table every matching entry.                               *)
(***************************************************************************)
\* Broken variants of Retarget: both arms of a brif are changed; the rebuilt brif
\* reads the parameter of the new block.
RetargetBothArms(t, b, r) ==
  IF t.op = "br_table"
  THEN BrTable(t.arg, [i \in DOMAIN t.dest |-> IF t.dest[i] = r THEN b ELSE t.dest[i]])
  ELSE IF t.op = "brif" THEN Brif(t.arg, [i \in 0..1 |-> b])
  ELSE Jump(b)

RetargetNewCondition(t, b, r) ==
  LET dest == [i \in DOMAIN t.dest |-> IF t.dest[i] = r THEN b ELSE t.dest[i]]
  IN  IF t.op = "br_table" THEN BrTable(t.arg, dest)
      ELSE IF t.op = "brif" THEN Brif(b, dest)
      ELSE Jump(b)

Retarget(t, b, r) ==
  IF t.op = "br_table"
  THEN BrTable(t.arg, [i \in DOMAIN t.dest |-> IF t.dest[i] = r THEN b ELSE t.dest[i]])
  ELSE IF t.op = "brif"
  THEN Brif(t.arg, IF t.dest[0] = r THEN [t.dest EXCEPT ![0] = b]
                                    ELSE [t.dest EXCEPT ![1] = b])
  ELSE Jump(b)

UpdatePredecessor(tm, b, r) ==
  [p \in DOMAIN tm |-> IF r \in Dest(tm[p]) THEN Retarget(tm[p], b, r) ELSE tm[p]]

(***************************************************************************)
(* update_successor: the last block b of the new structure gets the        *)
(* terminator of the replaced block r, rebuilt from the successors of r as *)
(* the flow graph lists them, distinct and in the order of their numbers;  *)
(* r is then removed from the layout.                                      *)
(***************************************************************************)
\* Broken variant of Post: the successors in decreasing order.
PostDecreasing(S) ==
  [i \in 0 .. (Cardinality(S) - 1) |->
     CHOOSE b \in S : Cardinality({c \in S : c > b}) = i]

Post(S) ==
  [i \in 0 .. (Cardinality(S) - 1) |->
     CHOOSE b \in S : Cardinality({c \in S : c < b}) = i]

\* Broken variant of Unfit: the two arms are confused.
UnfitArmsSwapped(t) ==
  \/ Cardinality(Dest(t)) = 2 /\ t.op # "br_table"
  \/ Cardinality(Dest(t)) >= 3 /\ t.op # "brif"

\* The opcode of the terminator does not fit the number of its successors.
Unfit(t) ==
  \/ Cardinality(Dest(t)) = 2 /\ t.op # "brif"
  \/ Cardinality(Dest(t)) >= 3 /\ t.op # "br_table"

\* Broken variants of Rebuild: a single successor is forgotten, or replaced
\* by the end block.
RebuildDropsJump(t) ==
  LET post == Post(Dest(t))
      n == Cardinality(Dest(t))
  IN  IF n <= 1 THEN NoTerm
      ELSE IF n = 2 THEN Brif(t.arg, post)
      ELSE BrTable(t.arg, post)

RebuildJumpsToEnd(t) ==
  LET post == Post(Dest(t))
      n == Cardinality(Dest(t))
  IN  IF n = 0 THEN NoTerm
      ELSE IF n = 1 THEN Jump(End)
      ELSE IF n = 2 THEN Brif(t.arg, post)
      ELSE BrTable(t.arg, post)

Rebuild(t) ==
  LET post == Post(Dest(t))
      n == Cardinality(Dest(t))
  IN  IF n = 0 THEN NoTerm
      ELSE IF n = 1 THEN Jump(post[0])
      ELSE IF n = 2 THEN Brif(t.arg, post)
      ELSE BrTable(t.arg, post)

UpdateSuccessor(tm, b, r) ==
  [p \in DOMAIN tm \ {r} |-> IF p = b THEN Rebuild(tm[r]) ELSE tm[p]]

----------------------------------------------------------------------------
Init ==
  /\ layout = {}
  /\ term = [b \in {} |-> NoTerm]
  /\ params = {}
  /\ parent = [kind |-> "none", random |-> {}]
  /\ depth = 0
  /\ next = 0
  /\ status = "root"

\* The end of every call: stop at MAX_DEPTH, otherwise call again on s.
Recurse(s) ==
  /\ status' = IF depth >= MaxDepth THEN "done" ELSE "nested"
  /\ depth' = IF depth >= MaxDepth THEN depth ELSE depth + 1
  /\ parent' = [kind |-> s.kind, random |-> s.random]

\* The terminators of the function after the first call.
RootTerm(s) ==
  [b \in {Entry, End} \cup s.blocks |->
     IF b = Entry THEN Jump(s.first)
     ELSE IF b = End THEN NoTerm
     ELSE IF b = s.last THEN Jump(End)
     ELSE s.term[b]]

\* cf_construct(func, None, 0)
ConstructRoot ==
  /\ status = "root"
  /\ \E s \in Structures(End + 1) :
       /\ layout' = {Entry, End} \cup s.blocks
       /\ term' = RootTerm(s)
       /\ params' = s.params
       /\ next' = End + 1 + Cardinality(s.blocks)
       /\ Recurse(s)

\* The terminators once the new structure is in the layout beside the others.
Inserted(s) ==
  [b \in layout \cup s.blocks |-> IF b \in s.blocks THEN s.term[b] ELSE term[b]]

Spliced(s, r) ==
  UpdateSuccessor(UpdatePredecessor(Inserted(s), s.first, r), s.last, r)

\* cf_construct(func, Some(parent), depth): r = parent.get_random_block()
ConstructNested ==
  /\ status = "nested"
  /\ \E r \in parent.random, s \in Structures(next) :
       /\ layout' = (layout \cup s.blocks) \ {r}
       /\ term' = Spliced(s, r)
       /\ params' = (params \cup s.params) \ {r}
       /\ next' = next + Cardinality(s.blocks)
       /\ IF Unfit(UpdatePredecessor(Inserted(s), s.first, r)[r])
          THEN status' = "panic" /\ UNCHANGED <<parent, depth>>
          ELSE Recurse(s)

\* cf_construct has returned.
Returned ==
  /\ status = "done"
  /\ UNCHANGED vars

Next == ConstructRoot \/ ConstructNested \/ Returned

Spec == Init /\ [][Next]_vars

----------------------------------------------------------------------------
\* t is a terminator with targets in the set L and, if it is a branch, the
\* parameter of a block below n as its condition.
IsTerminator(t, L, n) ==
  \/ t = NoTerm
  \/ \E b \in L : t = Jump(b)
  \/ /\ t.arg \in 0 .. (n - 1)
     /\ \/ t.dest \in [0..1 -> L] /\ t = Brif(t.arg, t.dest)
        \/ \E k \in CaseNums :
             t.dest \in [0..k -> L] /\ t = BrTable(t.arg, t.dest)

\* Blocks are numbers below the allocator's, every block of the layout has
\* one terminator slot, and a branch has as many targets as its opcode.
TypeOK ==
  /\ next \in Nat
  /\ layout \subseteq 0 .. (next - 1)
  /\ DOMAIN term = layout
  /\ \A b \in layout : IsTerminator(term[b], layout, next)
  /\ params \subseteq layout
  /\ parent.random \subseteq layout
  /\ depth \in 0 .. MaxDepth
  /\ status \in {"root", "nested", "done", "panic"}

\* No call of cf_construct reaches a panic of update_successor: the block it
\* replaces never has a terminator that does not fit its successors.
NoPanic == status # "panic"

\* Only the end block is left without a terminator, so the return that the
\* function generator adds there is the only exit of the function.
SingleExit ==
  \A b \in layout : term[b] = NoTerm <=> b = End

Distinct(t) ==
  \A i, j \in DOMAIN t.dest : t.dest[i] = t.dest[j] => i = j

\* The targets of a branch are pairwise distinct.  The code that later passes
\* block arguments along an edge extends one slot of a brif per predecessor
\* and shares one argument list between the slots of a br_table, which is
\* right only if no two slots name the same block.
DistinctTargets == \A b \in layout : Distinct(term[b])

\* A block that still has its condition parameter ends in the branch that
\* reads it.  The function generator drops the parameter only of blocks that
\* end in a brif or br_table; a parameter elsewhere would be left on a block
\* whose predecessors pass no argument.
ParamsEndInBranch ==
  \A b \in params : term[b].op \in {"brif", "br_table"} /\ term[b].arg = b

\* Nothing branches to the entry block: the signature's parameters are
\* appended to it and no edge passes arguments for them.
EntryHasNoPredecessor ==
  \A b \in layout : Entry \notin Succ(b)

ClosedForward(S) == \A b \in S : Succ(b) \subseteq S
ClosedBackward(S) == \A b \in layout : Succ(b) \cap S # {} => b \in S

\* Every block of the layout is reachable from the entry block: a set of
\* blocks that holds the entry and every successor of its members holds them
\* all.  The instruction pass visits blocks by depth-first search from the
\* entry, so a block out of reach would keep its stale condition and have no
\* values.
AllReachable ==
  \A S \in SUBSET layout : Entry \in S /\ ClosedForward(S) => S = layout

\* The end block is reachable from every block: no splice cuts the way out,
\* not even out of a loop.
AllReachEnd ==
  \A S \in SUBSET layout : End \in S /\ ClosedBackward(S) => S = layout

\* The new blocks contracted to the block r they replace.
Contract(r, b) == IF b \in layout THEN b ELSE r

Edges == {e \in layout \X layout : e[2] \in Succ(e[1])}

\* A nested call is a substitution: it takes one block r out of the layout,
\* and if the new blocks are contracted to r the edges are those of before.
\* In particular a splice adds no edge between two old blocks and loses none.
SpliceIsSubstitution ==
  [][status = "nested" =>
       \E r \in layout :
         /\ layout \ layout' = {r}
         /\ {<<Contract(r, e[1]), Contract(r, e[2])>> : e \in Edges'} \ {<<r, r>>}
              = Edges]_vars

\* update_successor rebuilds a branch from the sorted successors of the
\* replaced block.  The sorted order is the order of the slots, so true,
\* false, default and case targets keep their roles: some new block ends in
\* the very terminator of the removed one.
SpliceKeepsTerminator ==
  [][status = "nested" =>
       \E r \in layout \ layout', b \in layout' \ layout : term'[b] = term[r]]_vars

----------------------------------------------------------------------------
\* What the function generator relies on holds whenever cf_construct returns, from
\* any of its calls.
Promise == INSTANCE Skeleton

SkeletonWellBuilt ==
  status # "root" => Promise!WellBuilt([term |-> term, params |-> params])

----------------------------------------------------------------------------
(***************************************************************************)
(* The inductive invariant.  A block that may be replaced lists its        *)
(* targets in increasing order, is neither the entry nor the end block,    *)
(* and no block is its own successor.  The entry block stays a jump.       *)
(***************************************************************************)
Increasing(t) ==
  \A i, j \in DOMAIN t.dest : i < j => t.dest[i] < t.dest[j]

Replaceable ==
  \A b \in parent.random : b \notin {Entry, End} /\ Increasing(term[b])

NoSelfLoop == \A b \in layout : b \notin Succ(b)

\* What every call of cf_construct keeps: the safety properties above together
\* with Replaceable, which makes the sorted successors of a replaced block the
\* slots of its terminator, and NoSelfLoop, which keeps update_predecessor from
\* changing the replaced block itself.
IInv ==
  /\ TypeOK
  /\ NoPanic
  /\ status = "root" => layout = {}
  /\ status # "root" => {Entry, End} \subseteq layout /\ term[Entry].op = "jump"
  /\ Replaceable
  /\ NoSelfLoop
  /\ SingleExit
  /\ DistinctTargets
  /\ ParamsEndInBranch
  /\ EntryHasNoPredecessor
  /\ AllReachable
  /\ AllReachEnd
============================================================================
