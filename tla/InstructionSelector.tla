------------------------ MODULE InstructionSelector ------------------------
(***************************************************************************)
(* The instruction selector (populate_block_instructions in                *)
(* crates/function-generator/src/instruction_selector.rs) and the part of  *)
(* the loop of function_generator that calls it.                           *)
(*                                                                         *)
(* A call draws an opcode, looks its modes up in the configuration, draws  *)
(* the types of the operands from the mode and the operands from the       *)
(* values of these types that dominating blocks have, and records the      *)
(* result with a type the arm of the opcode decides on.  The recorded type *)
(* is all the generator knows of a value later: `actual' is the type the   *)
(* CLIF instruction really gives it.                                       *)
(*                                                                         *)
(* Opcodes whose arms are alike form one group.  An arm is the set of its  *)
(* outcomes: an instruction, no instruction (None), or a panic (a choice   *)
(* from an empty list unwrapped, or a type its match does not expect).     *)
(***************************************************************************)
EXTENDS Integers, Sequences, FiniteSets

CONSTANTS
  Archs,      \* the architectures
  Configs,    \* the configuration of each: operand_types, a sequence, the modes
              \* of every group, {} if it gives the group none, and the groups
              \* with an opcode it has no entry for
  MaxBlocks,  \* bound: the blocks populated
  MaxValues   \* bound: the values recorded after the constants of the entry

Groups ==
  {"atomic_cas", "atomic_rmw", "byte_shuffle", "min_max", "saturating",
   "arithmetic", "pmaddubsw", "division", "overflow", "bitwise", "shift",
   "float_arithmetic", "snarrow", "unarrow", "uunarrow", "iadd_pairwise",
   "iconcat", "imm", "extractlane", "control", "fcmp", "uadd_overflow_trap",
   "icmp", "icmp_imm", "load", "load_fixed", "bitcast", "address", "shuffle",
   "stack_load", "store", "istore", "select", "bitselect", "fma",
   "insertlane", "splat", "vtest", "vhigh_bits", "int_unary",
   "float_unary", "scalar_to_vector", "bmask", "ireduce", "widen", "extend",
   "float_width", "fcvt_to_int", "fcvt_to_int_sat", "cvtt2dq",
   "fcvt_from_int", "isplit", "const", "pmulhrsw", "carry"}

----------------------------------------------------------------------------
(***************************************************************************)
(* Types, as cranelift sees them.                                          *)
(***************************************************************************)
Scalar(kind, bits) == [kind |-> kind, bits |-> bits, lanes |-> 1]
Vector(kind, bits) == [kind |-> kind, bits |-> bits, lanes |-> 128 \div bits]

I(bits) == Scalar("i", bits)
F(bits) == Scalar("f", bits)
IX(bits) == Vector("i", bits)
FX(bits) == Vector("f", bits)

Types ==
  {I(b) : b \in {8, 16, 32, 64, 128}} \cup {F(b) : b \in {16, 32, 64, 128}}
    \cup {IX(b) : b \in {8, 16, 32, 64}} \cup {FX(b) : b \in {16, 32, 64}}

IntVectors(bits) == {IX(b) : b \in bits}
IsInt(t) == t.kind = "i" /\ t.lanes = 1
Bits(t) == t.bits * t.lanes

\* lane_type, half_width, double_width, split_lanes, merge_lanes, as_truthy:
\* the types that cranelift derives from those of the operands.
LaneOf(t) == [t EXCEPT !.lanes = 1]
HalfWidth(t) == [t EXCEPT !.bits = @ \div 2]
DoubleWidth(t) == [t EXCEPT !.bits = @ * 2]
SplitLanes(t) == [HalfWidth(t) EXCEPT !.lanes = @ * 2]
MergeLanes(t) == [DoubleWidth(t) EXCEPT !.lanes = @ \div 2]
AsTruthy(t) == IF t.lanes = 1 THEN I(8) ELSE [t EXCEPT !.kind = "i"]

\* What cranelift demands of the types of some instructions.
IsVector(t) == t.lanes > 1
IsBytes(t) == t = IX(8)
IsLaneOf(lane, t) == lane = LaneOf(t)
HasKind(t, kind) == t.kind = kind
Wider(t, u) == t.bits > u.bits
SameBits(t, u) == Bits(t) = Bits(u)
SameLanes(t, u) == t.lanes = u.lanes

\* A configuration lists cranelift's types.
IsConfig(c) ==
  /\ c.operand_types \in Seq(Types)
  /\ DOMAIN c.modes = Groups /\ c.unlisted \subseteq Groups
  /\ \A g \in Groups : \A m \in c.modes[g] :
       /\ m.operand \cup m.arg0 \cup m.arg1 \subseteq Types
       /\ m.has_operand \in BOOLEAN /\ (~m.has_operand => m.operand = {})

ASSUME SelectorAssumption ==
  /\ Archs \subseteq DOMAIN Configs
  /\ \A a \in Archs : IsConfig(Configs[a])
  /\ MaxBlocks \in Nat \ {0} /\ MaxValues \in Nat

VARIABLES
  arch,    \* the architecture
  values,  \* the sequence of the values recorded so far, a value's number
           \* being its position: recorded type and actual type
  table,   \* block_def_values, for the blocks 1, 2, ... in dfs_order
  block,   \* the block being populated; 1 is the entry block
  defs,    \* def_values of that block
  doms,    \* dominator_blocks of that block
  inst,    \* the latest instruction: for every operand the type it is to have
           \* and the type it has, and whether the types go together
  pc       \* "populate" or "panic"

vars == <<arch, values, table, block, defs, doms, inst, pc>>

----------------------------------------------------------------------------
(***************************************************************************)
(* An arm is a set of plans, one for every choice of types.  A plan has    *)
(* the types the arm looks for before it draws a value, and gives up       *)
(* (None) without; the types it draws operands of; what the arm then       *)
(* returns ("some", "none" or "panic"); the value recorded, if any; and    *)
(* whether the types go together.                                          *)
(***************************************************************************)
Typed(type, actual) == <<[type |-> type, actual |-> actual]>>
Same(type) == Typed(type, type)
NoResult == <<>>

Plan(looks, takes, kind, results, legal) ==
  [looks |-> looks, takes |-> takes, kind |-> kind, results |-> results, legal |-> legal]

\* Nothing is asked of the types of an instruction beyond those of the operands.
AnyTypes == TRUE

None == Plan({}, <<>>, "none", NoResult, AnyTypes)
Panic == Plan({}, <<>>, "panic", NoResult, AnyTypes)

\* A match that does not expect t panics, once there is a value of that type.
Unexpected(t) == Plan({t}, <<>>, "panic", NoResult, AnyTypes)

\* An arm that looks whether there are operands; one that unwraps the choice.
Try(takes, results, legal) ==
  {Plan({takes[i] : i \in DOMAIN takes}, takes, "some", results, legal)}
Must(takes, results, legal) == {Plan({}, takes, "some", results, legal)}

\* choose(&mut rng).unwrap() on a list of types.
Draw(types, Arm(_)) == IF types = {} THEN {Panic} ELSE UNION {Arm(t) : t \in types}

\* The lookup of an opcode the configuration has no entry for.
NotFound(c) == {Panic : g \in c.unlisted}

\* The modes of a group, one of which is drawn; no mode, no instruction.
InMode(c, g, Arm(_)) ==
  IF c.modes[g] = {} THEN {None} ELSE UNION {Arm(m) : m \in c.modes[g]}

OnOperand(c, g, Arm(_)) ==
  InMode(c, g, LAMBDA m : Draw(m.operand, LAMBDA t : Arm(t)))

----------------------------------------------------------------------------
(***************************************************************************)
(* The arms, in the order of the source.                                   *)
(***************************************************************************)
\* Two operands of one type, which is also that of the result; nothing is
\* emitted if there is no such value, and a single one is used twice.
Binary(c, g) == OnOperand(c, g, LAMBDA t : Try(<<t, t>>, Same(t), AnyTypes))

AtomicCas(c) == Binary(c, "atomic_cas")
AtomicRmw(c) == OnOperand(c, "atomic_rmw", LAMBDA t : Must(<<t>>, Same(t), AnyTypes))
ByteShuffle(c) == Binary(c, "byte_shuffle")
MinMax(c) == Binary(c, "min_max")
Saturating(c) == Binary(c, "saturating")
Arithmetic(c) == Binary(c, "arithmetic")
Pmaddubsw(c) ==
  OnOperand(c, "pmaddubsw", LAMBDA t :
    Try(<<t, t>>, Typed(IX(16), MergeLanes(t)), AnyTypes))
Division(c) == Binary(c, "division")
Overflow(c) == Binary(c, "overflow")
Bitwise(c) == Binary(c, "bitwise")
Shift(c) ==
  InMode(c, "shift", LAMBDA m : Draw(m.arg0, LAMBDA a : Draw(m.arg1, LAMBDA b :
    Must(<<a, b>>, Same(a), IsInt(b)))))
FloatArithmetic(c) == Binary(c, "float_arithmetic")

NarrowType(t) == IX(t.bits \div 2)

\* Broken variant of Narrow: the type of the operands is recorded.
NarrowSame(c, g, bits) ==
  OnOperand(c, g, LAMBDA t :
    IF t \notin IntVectors(bits) THEN {Unexpected(t)}
    ELSE Try(<<t, t>>, Typed(t, SplitLanes(t)), AnyTypes))

\* Vectors of lanes of one of the given widths become vectors of narrower
\* lanes; the match on other types panics, once there is a value.
Narrow(c, g, bits) ==
  OnOperand(c, g, LAMBDA t :
    IF t \notin IntVectors(bits) THEN {Unexpected(t)}
    ELSE Try(<<t, t>>, Typed(NarrowType(t), SplitLanes(t)), AnyTypes))

Snarrow(c) == Narrow(c, "snarrow", {16, 32, 64})
Unarrow(c) == Narrow(c, "unarrow", {16, 32})
Uunarrow(c) == Narrow(c, "uunarrow", {16, 32, 64})
IaddPairwise(c) == Binary(c, "iadd_pairwise")
Iconcat(c) ==
  OnOperand(c, "iconcat", LAMBDA t :
    IF t # I(64) THEN {Unexpected(t)}
    ELSE Try(<<t, t>>, Typed(I(128), DoubleWidth(t)), IsInt(t)))
Imm(c) == OnOperand(c, "imm", LAMBDA t : Must(<<t>>, Same(t), IsInt(t)))

\* extract_vector_type, the set of the lane type: it panics on a scalar.
ExtractVectorType(t) == IF t.lanes = 1 THEN {} ELSE {LaneOf(t)}

Extractlane(c) ==
  OnOperand(c, "extractlane", LAMBDA t : Draw(ExtractVectorType(t), LAMBDA lane :
    Try(<<t>>, Typed(lane, LaneOf(t)), IsVector(t))))
Control(c) == {None}
FcmpType(t) == IF t \in {FX(16), FX(32), FX(64)} THEN IX(t.bits) ELSE I(8)
Fcmp(c) ==
  OnOperand(c, "fcmp", LAMBDA t : Try(<<t, t>>, Typed(FcmpType(t), AsTruthy(t)), AnyTypes))
UaddOverflowTrap(c) == Binary(c, "uadd_overflow_trap")
IcmpType(t) == IF t \in {IX(16), IX(32), IX(64)} THEN t ELSE I(8)
Icmp(c) ==
  OnOperand(c, "icmp", LAMBDA t : Try(<<t, t>>, Typed(IcmpType(t), AsTruthy(t)), AnyTypes))
IcmpImm(c) ==
  OnOperand(c, "icmp_imm", LAMBDA t : Must(<<t>>, Typed(I(8), AsTruthy(t)), IsInt(t)))

\* Loads take their address from a stack slot and no other operand.
Load(c) == OnOperand(c, "load", LAMBDA t : Try(<<>>, Same(t), AnyTypes))
LoadFixed(c) ==
  InMode(c, "load_fixed", LAMBDA m :
    UNION {Try(<<>>, Same(t), AnyTypes) : t \in {I(64), IX(16), IX(32), IX(64)}})

\* bitcast_type_mapping, the set of the types it may give: it panics on others.
BitcastTypeMapping(t) ==
  CASE t \in {I(16), I(32), I(64)} -> {F(t.bits)}
    [] t \in {F(16), F(32), F(64)} -> {I(t.bits)}
    [] t = I(128) -> {IX(16), IX(32), IX(64), FX(32), FX(64)}
    [] t = IX(16) -> {I(128)}
    [] t \in {IX(32), IX(64)} -> {FX(t.bits), I(128)}
    [] t \in {FX(16), FX(32)} -> {IX(t.bits), I(128)}
    [] t = FX(64) -> {IX(32), I(128)}
    [] OTHER -> {}

Bitcast(c) ==
  OnOperand(c, "bitcast", LAMBDA t : Draw(BitcastTypeMapping(t), LAMBDA to :
    Must(<<t>>, Same(to), SameBits(to, t))))
Address(c) == InMode(c, "address", LAMBDA m : Try(<<>>, Same(I(64)), AnyTypes))
Shuffle(c) == OnOperand(c, "shuffle", LAMBDA t : Try(<<t, t>>, Typed(IX(8), t), IsBytes(t)))
StackLoad(c) == OnOperand(c, "stack_load", LAMBDA t : Try(<<>>, Same(t), AnyTypes))
Store(c) == OnOperand(c, "store", LAMBDA t : Try(<<t>>, NoResult, AnyTypes))
Istore(c) == OnOperand(c, "istore", LAMBDA t : Must(<<t>>, NoResult, IsInt(t)))

\* Of the two lists of the mode only arg0_types is read, for the control value
\* and for the other two.
Select(c) ==
  InMode(c, "select", LAMBDA m : Draw(m.arg0, LAMBDA ctl : Draw(m.arg0, LAMBDA t :
    Must(<<ctl, t, t>>, Same(t), IsInt(ctl)))))
Bitselect(c) == OnOperand(c, "bitselect", LAMBDA t : Must(<<t, t, t>>, Same(t), AnyTypes))
Fma(c) == OnOperand(c, "fma", LAMBDA t : Try(<<t, t, t>>, Same(t), AnyTypes))
Insertlane(c) ==
  OnOperand(c, "insertlane", LAMBDA t : Draw(ExtractVectorType(t), LAMBDA lane :
    {Plan({t}, <<t, lane>>, "some", Same(t), IsLaneOf(lane, t))}))
Splat(c) ==
  OnOperand(c, "splat", LAMBDA t : Draw(ExtractVectorType(t), LAMBDA lane :
    Try(<<lane>>, Same(t), IsLaneOf(lane, t))))
Vtest(c) == OnOperand(c, "vtest", LAMBDA t : Must(<<t>>, Same(I(8)), IsVector(t)))
VhighBits(c) ==
  OnOperand(c, "vhigh_bits", LAMBDA t :
    IF t \notin {IX(8), IX(16), IX(32), IX(64)} THEN {None}
    ELSE Try(<<t>>, Same(I(t.bits)), AnyTypes))
IntUnary(c) == OnOperand(c, "int_unary", LAMBDA t : Try(<<t>>, Same(t), AnyTypes))
FloatUnary(c) ==
  OnOperand(c, "float_unary", LAMBDA t : Must(<<t>>, Same(t), HasKind(t, "f")))
ScalarToVector(c) ==
  OnOperand(c, "scalar_to_vector", LAMBDA t : Draw(ExtractVectorType(t), LAMBDA lane :
    Try(<<lane>>, Same(t), IsLaneOf(lane, t))))
Bmask(c) ==
  InMode(c, "bmask", LAMBDA m : Draw(m.arg0, LAMBDA to : Draw(m.arg1, LAMBDA from :
    Must(<<from>>, Same(to), HasKind(to, "i")))))

\* Broken variant of ReduceFrom: it offers the type itself.
ReduceFromSame(to) ==
  {I(b) : b \in {c \in {8, 16, 32, 64} : to \in {I(8), I(16), I(32)} /\ c >= to.bits}}

\* The types an arm takes for the type it is to give: none where it panics.
ReduceFrom(to) ==
  {I(b) : b \in {c \in {16, 32, 64} : to \in {I(8), I(16), I(32)} /\ c > to.bits}}
WidenFrom(to) ==
  {IX(b) : b \in {c \in {8, 16, 32} : to = IX(2 * c)}}
ExtendFrom(to) ==
  {I(b) : b \in {c \in {8, 16, 32, 64} :
                  to \in {I(16), I(32), I(64), I(128)} /\ c < to.bits}}

Ireduce(c) ==
  OnOperand(c, "ireduce", LAMBDA to : Draw(ReduceFrom(to), LAMBDA from :
    Must(<<from>>, Same(to), Wider(from, to))))
Widen(c) ==
  OnOperand(c, "widen", LAMBDA to : Draw(WidenFrom(to), LAMBDA from :
    Must(<<from>>, Typed(to, MergeLanes(from)), AnyTypes)))
Extend(c) ==
  OnOperand(c, "extend", LAMBDA to : Draw(ExtendFrom(to), LAMBDA from :
    Must(<<from>>, Same(to), Wider(to, from))))

\* fpromote, fdemote, fvdemote and fvpromote_low have fixed types.
FloatWidth(c) ==
  InMode(c, "float_width", LAMBDA m :
    Must(<<F(32)>>, Same(F(64)), AnyTypes) \cup Must(<<F(64)>>, Same(F(32)), AnyTypes)
      \cup Must(<<FX(64)>>, Same(FX(32)), AnyTypes)
      \cup Must(<<FX(32)>>, Same(FX(64)), AnyTypes))

\* The operand is drawn first, and nothing is emitted for an unexpected type.
Convert(t, expected, to) ==
  IF t \in expected THEN Must(<<t>>, Same(to), SameLanes(t, to))
  ELSE {Plan({}, <<t>>, "none", NoResult, AnyTypes)}

WithKind(t, kind) == [t EXCEPT !.kind = kind]

FcvtToInt(c) ==
  OnOperand(c, "fcvt_to_int", LAMBDA t : Convert(t, {F(32), F(64)}, WithKind(t, "i")))
FcvtToIntSat(c) ==
  OnOperand(c, "fcvt_to_int_sat", LAMBDA t :
    Convert(t, {F(32), F(64), FX(32), FX(64)}, WithKind(t, "i")))

\* It looks whether the list is empty, once it has unwrapped it.
Cvtt2dq(c) ==
  InMode(c, "cvtt2dq", LAMBDA m :
    IF ~m.has_operand THEN {Panic}
    ELSE IF m.operand = {} THEN {None}
    ELSE Draw(m.operand, LAMBDA t : Convert(t, {FX(32), FX(64)}, WithKind(t, "i"))))
FcvtFromInt(c) ==
  OnOperand(c, "fcvt_from_int", LAMBDA t :
    Convert(t, {I(32), I(64), IX(32), IX(64)}, WithKind(t, "f")))
Isplit(c) ==
  OnOperand(c, "isplit", LAMBDA t :
    IF t.bits = 8 \/ t \in {F(16), FX(16)} THEN {None}
    ELSE Try(<<t>>, Same(HalfWidth(t)), IsInt(t)))

\* f16const gives up.
Const(c) ==
  InMode(c, "const", LAMBDA m :
    {None} \cup UNION {Try(<<>>, Same(t), AnyTypes) :
                       t \in {F(32), F(64), F(128), I(8), I(16), I(32), I(64)}})
Pmulhrsw(c) == Binary(c, "pmulhrsw")
Carry(c) == OnOperand(c, "carry", LAMBDA t : Try(<<t, t, I(8)>>, Same(t), IsInt(t)))

\* populate_block_instructions: any opcode may be drawn.
Plans(c) ==
  UNION {NotFound(c), AtomicCas(c), AtomicRmw(c), ByteShuffle(c), MinMax(c),
         Saturating(c), Arithmetic(c), Pmaddubsw(c), Division(c),
         Overflow(c), Bitwise(c), Shift(c), FloatArithmetic(c), Snarrow(c),
         Unarrow(c), Uunarrow(c), IaddPairwise(c), Iconcat(c), Imm(c),
         Extractlane(c), Control(c), Fcmp(c), UaddOverflowTrap(c), Icmp(c),
         IcmpImm(c), Load(c), LoadFixed(c), Bitcast(c), Address(c),
         Shuffle(c), StackLoad(c), Store(c), Istore(c), Select(c),
         Bitselect(c), Fma(c), Insertlane(c), Splat(c), Vtest(c),
         VhighBits(c), IntUnary(c), FloatUnary(c), ScalarToVector(c),
         Bmask(c), Ireduce(c), Widen(c), Extend(c), FloatWidth(c),
         FcvtToInt(c), FcvtToIntSat(c), Cvtt2dq(c), FcvtFromInt(c),
         Isplit(c), Const(c), Pmulhrsw(c), Carry(c)}

PlanTable == [a \in Archs |-> Plans(Configs[a])]

----------------------------------------------------------------------------
\* get_dominator_values_with_type: the values recorded with type t for a block
\* that dominates this one.  A dominator without an entry in the table, as the
\* block itself is, is passed over.
Candidates(t) ==
  {v \in UNION {table[d] : d \in doms \cap DOMAIN table} : values[v].type = t}

NoInst == [reads |-> {}, legal |-> TRUE]

\* Broken variant of Prelude: no constants of vector types.
PreludeScalars(c) ==
  LET scalars == SelectSeq(c.operand_types, LAMBDA t : t.lanes = 1)
  IN  [i \in DOMAIN scalars |-> Same(scalars[i])[1]]

\* The entry block starts with a constant, or a parameter of the function, of
\* every type in operand_types.
Prelude(c) == [i \in DOMAIN c.operand_types |-> Same(c.operand_types[i])[1]]

Init ==
  /\ arch \in Archs
  /\ values = Prelude(Configs[arch])
  /\ table = <<DOMAIN values>>
  /\ block = 1
  /\ defs = DOMAIN values
  /\ doms = {1}
  /\ inst = NoInst
  /\ pc = "populate"

\* The operands that select_random_value may choose: any of the candidates.
Operands(p) ==
  {f \in [DOMAIN p.takes -> UNION {Candidates(p.takes[i]) : i \in DOMAIN p.takes}] :
     \A i \in DOMAIN f : f[i] \in Candidates(p.takes[i])}

\* One call of populate_block_instructions.  The result joins def_values, not
\* yet the table.  A call that finds nothing for a type it looks for changes
\* nothing.
Populate ==
  /\ pc = "populate"
  /\ \E p \in PlanTable[arch] :
       /\ \A t \in p.looks : Candidates(t) # {}
       /\ Len(values) + Len(p.results) <= Len(Configs[arch].operand_types) + MaxValues
       /\ IF p.kind = "panic" \/ Operands(p) = {}
          THEN pc' = "panic" /\ UNCHANGED <<values, defs, inst>>
          ELSE /\ \E f \in Operands(p) :
                    inst' = [reads |-> {<<p.takes[i], values[f[i]].actual>> : i \in DOMAIN f},
                             legal |-> p.legal]
               /\ values' = values \o p.results
               /\ defs' = defs \cup (Len(values) + 1 .. Len(values'))
               /\ UNCHANGED pc
  /\ UNCHANGED <<arch, table, block, doms>>

\* The values of the block are recorded, and the next block of dfs_order has
\* the entry block, itself and some of the others as dominators.
NextBlock ==
  /\ pc = "populate"
  /\ block < MaxBlocks
  /\ table' = [b \in 1 .. block |-> IF b = block THEN defs ELSE table[b]]
  /\ block' = block + 1
  /\ defs' = {}
  /\ \E D \in SUBSET (2 .. block) : doms' = {1, block'} \cup D
  /\ inst' = NoInst
  /\ UNCHANGED <<arch, values, pc>>

Next == Populate \/ NextBlock

Spec == Init /\ [][Next]_vars

----------------------------------------------------------------------------
(***************************************************************************)
(* populate_block_instructions never panics: whatever the opcode, every    *)
(* list it unwraps a choice from has an element, because the constants of  *)
(* the entry block cover the types of the arms that do not look first, and *)
(* every match knows the types that the configuration lists for its        *)
(* opcode.                                                                 *)
(***************************************************************************)
NoPanic == pc # "panic"

(***************************************************************************)
(* The operands of an instruction have in CLIF the type it takes: what the *)
(* arms record is what cranelift infers, however many instructions the     *)
(* value has come through.                                                 *)
(***************************************************************************)
OperandsFit == \A r \in inst.reads : r[1] = r[2]

(***************************************************************************)
(* The types of an instruction go together the way cranelift demands:      *)
(* bitcast keeps the number of bits, ireduce goes to a narrower and the    *)
(* extensions to a wider type, a lane has the type of the lanes, shift     *)
(* amounts and control values are integers.                                *)
(***************************************************************************)
TypesGoTogether == inst.legal

----------------------------------------------------------------------------
(***************************************************************************)
(* What the arms rely on: nothing in the code checks it, the configuration *)
(* files have to meet it.                                                  *)
(***************************************************************************)
\* The types of the constants, and those that a configuration lists for the
\* operands of a group.
ConstantTypes(c) == {c.operand_types[i] : i \in DOMAIN c.operand_types}
OperandTypes(c, g) == UNION {m.operand : m \in c.modes[g]}
Arg0Types(c, g) == UNION {m.arg0 : m \in c.modes[g]}
Arg1Types(c, g) == UNION {m.arg1 : m \in c.modes[g]}

\* The groups whose arms do not unwrap a choice from the operand types.
NoOperandDrawn ==
  {"shift", "select", "bmask", "control", "load_fixed", "address", "float_width",
   "const", "cvtt2dq"}

\* The groups whose arms unwrap a choice among the values of an operand type.
Unwrapped ==
  {"atomic_rmw", "imm", "icmp_imm", "bitcast", "istore", "bitselect", "vtest",
   "float_unary", "fcvt_to_int", "fcvt_to_int_sat", "cvtt2dq", "fcvt_from_int"}

\* For no panic: every opcode has an entry, no list is missing or empty, an arm finds
\* in it what its match expects, and there are constants of the types it draws
\* values of without looking.
Covers(c) ==
  /\ c.unlisted = {}
  /\ \A m \in c.modes["cvtt2dq"] : m.has_operand
  /\ \A g \in Groups \ NoOperandDrawn : \A m \in c.modes[g] : m.operand # {}
  /\ \A g \in {"shift", "select", "bmask"} : \A m \in c.modes[g] : m.arg0 # {}
  /\ \A g \in {"shift", "bmask"} : \A m \in c.modes[g] : m.arg1 # {}
  /\ \A g \in Unwrapped : OperandTypes(c, g) \subseteq ConstantTypes(c)
  /\ Arg0Types(c, "shift") \cup Arg1Types(c, "shift") \subseteq ConstantTypes(c)
  /\ Arg0Types(c, "select") \cup Arg1Types(c, "bmask") \subseteq ConstantTypes(c)
  /\ OperandTypes(c, "snarrow") \subseteq {IX(16), IX(32), IX(64)}
  /\ OperandTypes(c, "unarrow") \subseteq {IX(16), IX(32)}
  /\ OperandTypes(c, "uunarrow") \subseteq {IX(16), IX(32), IX(64)}
  /\ OperandTypes(c, "iconcat") \subseteq {I(64)}
  /\ \A g \in {"extractlane", "insertlane", "splat", "scalar_to_vector"} :
       \A t \in OperandTypes(c, g) : t.lanes # 1
  /\ \A t \in OperandTypes(c, "insertlane") : LaneOf(t) \in ConstantTypes(c)
  /\ \A t \in OperandTypes(c, "bitcast") : BitcastTypeMapping(t) # {}
  /\ \A t \in OperandTypes(c, "ireduce") :
       ReduceFrom(t) # {} /\ ReduceFrom(t) \subseteq ConstantTypes(c)
  /\ \A t \in OperandTypes(c, "widen") :
       WidenFrom(t) # {} /\ WidenFrom(t) \subseteq ConstantTypes(c)
  /\ \A t \in OperandTypes(c, "extend") :
       ExtendFrom(t) # {} /\ ExtendFrom(t) \subseteq ConstantTypes(c)
  /\ c.modes["float_width"] # {} =>
       {F(32), F(64), FX(32), FX(64)} \subseteq ConstantTypes(c)

\* For the recorded types to be those cranelift infers.
RecordsTruly(c) ==
  /\ OperandTypes(c, "pmaddubsw") \subseteq {IX(8)}
  /\ \A t \in OperandTypes(c, "fcmp") : t.kind = "f"
  /\ \A t \in OperandTypes(c, "icmp") : t.kind = "i" /\ t # IX(8)
  /\ \A t \in OperandTypes(c, "icmp_imm") : t.lanes = 1
  /\ OperandTypes(c, "shuffle") \subseteq {IX(8)}

\* For the types of an instruction to go together.
ListsGoTogether(c) ==
  /\ \A t \in Arg1Types(c, "shift") \cup Arg0Types(c, "select") : IsInt(t)
  /\ \A g \in {"imm", "icmp_imm", "istore", "carry"} :
       \A t \in OperandTypes(c, g) : IsInt(t)
  /\ OperandTypes(c, "shuffle") \subseteq {IX(8)}
  /\ \A t \in OperandTypes(c, "vtest") : IsVector(t)
  /\ \A t \in OperandTypes(c, "float_unary") : HasKind(t, "f")
  /\ \A t \in Arg0Types(c, "bmask") : HasKind(t, "i")
  /\ \A t \in OperandTypes(c, "isplit") :
       IsInt(t) \/ t.bits = 8 \/ t \in {F(16), FX(16)}

\* The inductive invariants behind NoPanic and OperandsFit: every block sees the
\* constants of the entry block, and the recorded types are the actual ones.
SeesConstants ==
  LET types == Configs[arch].operand_types
  IN  /\ pc = "populate"
      /\ Len(types) <= Len(values)
      /\ \A i \in DOMAIN types : values[i].type = types[i]
      /\ 1 \in doms /\ block >= 1
      /\ DOMAIN table = IF block = 1 THEN {1} ELSE 1 .. (block - 1)
      /\ DOMAIN types \subseteq table[1] /\ (block = 1 => DOMAIN types \subseteq defs)

RecordedTruly ==
  /\ \A i \in DOMAIN values : values[i].type = values[i].actual
  /\ defs \subseteq DOMAIN values
  /\ \A b \in DOMAIN table : table[b] \subseteq DOMAIN values
============================================================================
