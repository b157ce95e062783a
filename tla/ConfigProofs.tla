---------------------------- MODULE ConfigProofs ----------------------------
(***************************************************************************)
(* Proofs about the configurations.  Part 1: for any number of             *)
(* architectures and any configurations, config_intersection keeps what    *)
(* all of them have and nothing else.  Part 2: for any configuration that  *)
(* meets what the arms of populate_block_instructions rely on, the         *)
(* instruction selector does not panic and gets the types right, however   *)
(* many blocks and instructions there are.                                 *)
(***************************************************************************)
EXTENDS ConfigIntersection, InstructionSelector, TLAPS

(***************************************************************************)
(* Part 1: config_intersection.                                            *)
(***************************************************************************)

\* Mode::intersect gives a mode that both modes allow: the lists it keeps are
\* contained in a list of each.
LEMMA IntersectFacts ==
  ASSUME NEW m, NEW o, IsMode(m), NEW n \in Intersect(m, o)
  PROVE  /\ IsMode(n)
         /\ n.name = m.name /\ n.result = m.result
         /\ n.name = o.name /\ n.result = o.result
         /\ \A T \in n.types : (\E U \in m.types : T \subseteq U)
                 /\ (\E U \in o.types : T \subseteq U)
<1>1. /\ m.name = o.name /\ m.result = o.result
      /\ n = [m EXCEPT !.types = IntersectOptionalVec(m.types, o.types)]
  BY DEF Intersect
<1>2. n = [name |-> m.name, result |-> m.result,
           types |-> IntersectOptionalVec(m.types, o.types)]
  BY <1>1 DEF IsMode
<1>3. n.types = IntersectOptionalVec(m.types, o.types)
  BY <1>2
<1>4. \A T \in n.types : (\E U \in m.types : T \subseteq U)
        /\ (\E U \in o.types : T \subseteq U)
  BY <1>3 DEF IntersectOptionalVec
<1> QED
  BY <1>1, <1>2, <1>4 DEF IsMode

\* Mode::intersect keeps the types that a list of each mode has.
LEMMA IntersectKeeps ==
  ASSUME NEW m, NEW o, IsMode(m), m.name = o.name, m.result = o.result,
         NEW t, t \in UNION m.types, t \in UNION o.types
  PROVE  \E n \in Intersect(m, o) :
           n.name = m.name /\ n.result = m.result /\ t \in UNION n.types
<1> DEFINE L == IntersectOptionalVec(m.types, o.types)
           n == [name |-> m.name, result |-> m.result, types |-> L]
<1>1. t \in UNION L
  <2>1. PICK x \in m.types, y \in o.types : t \in x /\ t \in y
    OBVIOUS
  <2>2. x \cap y \in L
    BY <2>1 DEF IntersectOptionalVec
  <2> QED
    BY <2>1, <2>2
<1>2. [m EXCEPT !.types = L] = n
  BY DEF IsMode
<1>3. n \in Intersect(m, o)
  BY <1>2 DEF Intersect
<1> HIDE DEF L
<1> QED
  BY <1>1, <1>3

\* A mode of the met configuration comes from one of each side.
LEMMA MeetFacts ==
  ASSUME NEW a, NEW b, NEW n \in UNION MeetModes(a, b)
  PROVE  \E m \in UNION a, o \in UNION b : n \in Intersect(m, o)
BY DEF MeetModes, MeetLists

\* Conversely, every mode that two modes have in common is in it.
LEMMA MeetKeeps ==
  ASSUME NEW a, NEW b, NEW m \in UNION a, NEW o \in UNION b, NEW n \in Intersect(m, o)
  PROVE  n \in UNION MeetModes(a, b)
<1>1. PICK x \in a, y \in b : m \in x /\ o \in y
  OBVIOUS
<1>2. n \in MeetLists(x, y)
  BY <1>1 DEF MeetLists
<1>3. MeetLists(x, y) \in MeetModes(a, b)
  BY <1>1, <1>2 DEF MeetModes
<1> QED
  BY <1>2, <1>3

\* A mode of a configuration is a mode, and the configuration allows it.
LEMMA OwnModes ==
  ASSUME NEW c, IsConfigFile(c), NEW i, NEW m \in Modes(c, i)
  PROVE  IsMode(m) /\ Allows(c, i, m) /\ i \in DOMAIN c.modes
<1>1. i \in DOMAIN c.modes /\ m \in UNION c.modes[i]
  BY DEF Modes
<1> QED
  BY <1>1 DEF IsConfigFile, Allows

\* A configuration that allows a mode allows one with smaller lists.
LEMMA AllowsLess ==
  ASSUME NEW c, NEW i, NEW m, NEW n, Allows(c, i, m),
         n.name = m.name, n.result = m.result,
         \A T \in n.types : \E U \in m.types : T \subseteq U
  PROVE  Allows(c, i, n)
<1>1. PICK o \in Modes(c, i) : /\ o.name = m.name /\ o.result = m.result
                               /\ \A T \in m.types : \E U \in o.types : T \subseteq U
  BY DEF Allows
<1>2. \A T \in n.types : \E U \in o.types : T \subseteq U
  <2> TAKE T \in n.types
  <2>1. PICK U \in m.types : T \subseteq U
    OBVIOUS
  <2>2. PICK V \in o.types : U \subseteq V
    BY <1>1
  <2> QED
    BY <2>1, <2>2
<1> QED
  BY <1>1, <1>2 DEF Allows

\* The modes after one iteration of the loop.
MetModes(i) ==
  IF i \in DOMAIN configs[k].modes THEN MeetModes(final.modes[i], configs[k].modes[i])
                                    ELSE {}

\* One iteration of the loop: the instructions stay, and their modes are met.
LEMMA MeetResult ==
  ASSUME TypeOK, Meet
  PROVE  /\ final'.modes = [i \in DOMAIN final.modes |-> MetModes(i)]
         /\ final' = [operand_types |-> final.operand_types,
                      modes |-> [i \in DOMAIN final.modes |-> MetModes(i)]]
         /\ configs' = configs /\ k' = k + 1 /\ phase = "meet" /\ phase' = "meet"
         /\ k \in DOMAIN configs /\ IsConfigFile(configs[k]) /\ k \in 2 .. Len(Arguments)
<1>1. final = [operand_types |-> final.operand_types, modes |-> final.modes]
  BY DEF TypeOK, IsConfigFile
<1>2. final' = [final EXCEPT !.modes = [i \in DOMAIN final.modes |-> MetModes(i)]]
  BY <1>1 DEF Meet, MetModes
<1>3. final' = [operand_types |-> final.operand_types,
                modes |-> [i \in DOMAIN final.modes |-> MetModes(i)]]
  BY <1>1, <1>2
<1>4. /\ configs' = configs /\ k' = k + 1 /\ phase = "meet" /\ phase' = "meet"
      /\ k \in 2 .. Len(Arguments) /\ k \in DOMAIN configs
  BY ConfigAssumption DEF Meet, TypeOK
<1>5. IsConfigFile(configs[k])
  BY <1>4, ConfigAssumption DEF TypeOK
<1> QED
  BY <1>3, <1>4, <1>5

\* A mode of the met configuration, with those it comes from.
LEMMA MetMode ==
  ASSUME TypeOK, Meet, NEW i, NEW n \in Modes(final', i)
  PROVE  /\ i \in DOMAIN final.modes /\ IsMode(n)
         /\ \E m \in Modes(final, i), o \in Modes(configs[k], i) :
              IsMode(m) /\ IsMode(o) /\ n \in Intersect(m, o)
<1>1. i \in DOMAIN final.modes /\ n \in UNION MetModes(i)
  BY MeetResult DEF Modes
<1>2. i \in DOMAIN configs[k].modes
        /\ n \in UNION MeetModes(final.modes[i], configs[k].modes[i])
  BY <1>1 DEF MetModes
<1>3. PICK m \in UNION final.modes[i],
           o \in UNION configs[k].modes[i] : n \in Intersect(m, o)
  BY <1>2, MeetFacts
<1>4. m \in Modes(final, i) /\ o \in Modes(configs[k], i)
  BY <1>1, <1>2, <1>3 DEF Modes
<1>5. IsMode(m) /\ IsMode(o)
  BY <1>4, MeetResult, OwnModes DEF TypeOK
<1>6. IsMode(n)
  BY <1>3, <1>5, IntersectFacts
<1> QED
  BY <1>1, <1>3, <1>4, <1>5, <1>6

\* The types stay right in the loop of config_intersection.
LEMMA MeetKeepsType ==
  ASSUME TypeOK, Meet
  PROVE  TypeOK'
<1>1. DOMAIN final'.modes = DOMAIN final.modes
  BY MeetResult
<1>2. IsConfigFile(final)'
  <2>1. final' = [operand_types |-> final'.operand_types, modes |-> final'.modes]
    BY MeetResult
  <2>2. ASSUME NEW i \in DOMAIN final'.modes, NEW list \in final'.modes[i], NEW n \in list
        PROVE  IsMode(n)
    <3>1. n \in Modes(final', i)
      BY <2>2 DEF Modes
    <3> QED
      BY <3>1, MetMode
  <2> QED
    BY <2>1, <2>2 DEF IsConfigFile
<1>3. k' \in Nat /\ k' \in 2 .. (Len(Arguments) + 1)
  BY MeetResult, ConfigAssumption
<1> QED
  BY <1>1, <1>2, <1>3, MeetResult DEF TypeOK

\* What final_config offers, the configurations met so far have.
LEMMA MeetKeepsShared ==
  ASSUME TypeOK, SharedSoFar, Meet
  PROVE  SharedSoFar'
<1> SUFFICES ASSUME NEW i \in DOMAIN final'.modes, NEW n \in Modes(final', i),
                    NEW a \in 1 .. k
             PROVE  Allows(configs[a], i, n)
  <2>1. Met' = 1 .. k
    BY MeetResult DEF Met
  <2> QED
    BY <2>1, MeetResult DEF SharedSoFar
<1>1. PICK m \in Modes(final, i), o \in Modes(configs[k], i) :
        IsMode(m) /\ IsMode(o) /\ n \in Intersect(m, o)
  BY MetMode
<1>2. i \in DOMAIN final.modes
  BY MeetResult
<1>3. CASE a = k
  <2>1. Allows(configs[k], i, o)
    BY MeetResult, OwnModes
  <2> QED
    BY <1>1, <1>3, <2>1, IntersectFacts, AllowsLess
<1>4. CASE a # k
  <2>1. a \in Met
    BY <1>4, MeetResult DEF Met
  <2>2. Allows(configs[a], i, m)
    BY <1>2, <2>1 DEF SharedSoFar
  <2> QED
    BY <1>1, <2>2, IntersectFacts, AllowsLess
<1> QED
  BY <1>3, <1>4

\* What the configurations met so far have in common, final_config offers.
LEMMA MeetLosesNothing ==
  ASSUME TypeOK, NothingLostSoFar, Meet
  PROVE  NothingLostSoFar'
<1> SUFFICES ASSUME NEW i \in DOMAIN configs[1].modes, NEW m \in Modes(configs[1], i),
                    NEW t \in UNION m.types,
                    \A a \in 1 .. k : Allows(configs[a], i, Only(m, t))
             PROVE  \E n \in Modes(final', i) :
                      n.name = m.name /\ n.result = m.result /\ t \in UNION n.types
  <2>1. Met' = 1 .. k
    BY MeetResult DEF Met
  <2> QED
    BY <2>1, MeetResult DEF NothingLostSoFar
<1>1. Met \subseteq 1 .. k
  BY MeetResult DEF Met
<1>2. PICK p \in Modes(final, i) :
        p.name = m.name /\ p.result = m.result /\ t \in UNION p.types
  BY <1>1 DEF NothingLostSoFar
<1>5. Allows(configs[k], i, Only(m, t))
  <2>1. k \in 1 .. k
    BY MeetResult
  <2> QED
    BY <2>1
<1>6. PICK o \in Modes(configs[k], i) :
        /\ o.name = m.name /\ o.result = m.result
        /\ \E U \in o.types : {t} \subseteq U
  <2>1. PICK o \in Modes(configs[k], i) :
          /\ o.name = Only(m, t).name /\ o.result = Only(m, t).result
          /\ \A T \in Only(m, t).types : \E U \in o.types : T \subseteq U
    BY <1>5 DEF Allows
  <2> QED
    BY <2>1, Zenon DEF Only
<1>7. IsMode(p) /\ p \in UNION final.modes[i] /\ i \in DOMAIN final.modes
  BY OwnModes, Zenon DEF TypeOK, Modes
<1>8. o \in UNION configs[k].modes[i] /\ i \in DOMAIN configs[k].modes
  BY DEF Modes
<1>9. PICK n \in Intersect(p, o) :
        n.name = p.name /\ n.result = p.result /\ t \in UNION n.types
  <2>1. t \in UNION o.types
    BY <1>6
  <2> QED
    BY <1>2, <1>6, <1>7, <2>1, IntersectKeeps
<1>10. n \in UNION MeetModes(final.modes[i], configs[k].modes[i])
  BY <1>7, <1>8, <1>9, MeetKeeps
<1>11. n \in Modes(final', i)
  BY <1>7, <1>8, <1>10, MeetResult DEF Modes, MetModes
<1> QED
  BY <1>2, <1>9, <1>11

\* The invariant that explains the two properties holds in every state: the loops
\* of config_intersection and of main keep it.
THEOREM Invariance == ConfigSpec => []IInv
<1>1. ConfigInit => IInv
  <2> SUFFICES ASSUME ConfigInit PROVE IInv
    OBVIOUS
  <2>1. 1 \in 1 .. Len(Arguments) /\ configs[1] \in ConfigFiles /\ IsConfigFile(configs[1])
    BY ConfigAssumption DEF ConfigInit
  <2>2. TypeOK
    BY <2>1, ConfigAssumption DEF ConfigInit, TypeOK
  <2>3. Met = {1}
    BY DEF ConfigInit, Met
  <2>4. SharedSoFar
    BY <2>1, <2>3, OwnModes DEF ConfigInit, SharedSoFar
  <2>5. NothingLostSoFar
    BY DEF ConfigInit, NothingLostSoFar
  <2> QED
    BY <2>2, <2>4, <2>5 DEF IInv
<1>2. IInv /\ [ConfigNext]_configVars => IInv'
  <2> SUFFICES ASSUME IInv, [ConfigNext]_configVars PROVE IInv'
    OBVIOUS
  <2>1. CASE Meet
    BY <2>1, MeetKeepsType, MeetKeepsShared, MeetLosesNothing DEF IInv
  <2>2. CASE EndMeet
    <3>1. Met' = Met /\ configs' = configs /\ final' = final /\ k' = 1 /\ phase' = "headers"
      <4>1. DOMAIN configs = 1 .. Len(Arguments) /\ Len(configs) = Len(Arguments)
        BY ConfigAssumption DEF IInv, TypeOK
      <4> QED
        BY <2>2, <4>1, ConfigAssumption DEF EndMeet, Met, IInv, TypeOK
    <3>2. TypeOK'
      BY <3>1 DEF IInv, TypeOK
    <3> QED
      BY <3>1, <3>2 DEF IInv, SharedSoFar, NothingLostSoFar
  <2>3. CASE AddHeader \/ EndHeaders \/ Done \/ UNCHANGED configVars
    <3>1. /\ Met' = Met /\ configs' = configs /\ final' = final
          /\ k' \in Nat /\ (phase' = "meet" => phase = "meet" /\ k' = k)
          /\ phase' \in {"meet", "headers", "done"}
      BY <2>3 DEF AddHeader, EndHeaders, Done, configVars, Met, IInv, TypeOK
    <3>2. TypeOK'
      BY <3>1 DEF IInv, TypeOK
    <3> QED
      BY <3>1, <3>2 DEF IInv, SharedSoFar, NothingLostSoFar
  <2> QED
    BY <2>1, <2>2, <2>3 DEF ConfigNext
<1> QED
  BY <1>1, <1>2, PTL DEF ConfigSpec

\* SharedByAll: a mode and types that compatible mode draws from are those of a
\* mode of every architecture, for any configurations.
THEOREM Shared == ConfigSpec => []SharedByAll
<1>1. IInv => SharedByAll
  BY Zenon DEF IInv, SharedSoFar, SharedByAll, Finished, Met
<1> QED
  BY <1>1, Invariance, PTL

\* NothingLost: compatible mode can draw whatever all architectures have, for any
\* configurations and in any order.
THEOREM Complete == ConfigSpec => []NothingLost
<1>1. IInv => NothingLost
  BY DEF IInv, NothingLostSoFar, NothingLost, Finished, Met
<1> QED
  BY <1>1, Invariance, PTL

(***************************************************************************)
(* Part 2: what the instruction selector plans, with any configuration.    *)
(***************************************************************************)

\* A plan is safe: it does not panic, and draws operands only of types it has
\* looked for or that there are constants of.
Safe(c, p) ==
  /\ p.kind # "panic"
  /\ \A i \in DOMAIN p.takes : p.takes[i] \in p.looks \/ p.takes[i] \in ConstantTypes(c)

\* It records the type that the instruction gives its result.
Truthful(p) == \A i \in DOMAIN p.results : p.results[i].type = p.results[i].actual

\* What the arms get from a configuration that meets what they rely on.
Checked(c, p) ==
  /\ p.results = <<>> \/ \E x : p.results = <<x>>
  /\ Covers(c) => Safe(c, p)
  /\ RecordsTruly(c) => Truthful(p)
  /\ ListsGoTogether(c) => p.legal

\* An arm that gives up.
LEMMA NoneChecked ==
  ASSUME NEW c
  PROVE  Checked(c, None)
BY DEF Checked, Safe, Truthful, None, Plan, NoResult, AnyTypes

\* An arm that panics, where the configuration does not suit it.
LEMMA PanicChecked ==
  ASSUME NEW c, NEW looks, ~Covers(c)
  PROVE  Checked(c, Plan(looks, <<>>, "panic", NoResult, AnyTypes))
BY DEF Checked, Truthful, Plan, NoResult, AnyTypes

\* An arm that looks for the types of all operands.
LEMMA TryChecked ==
  ASSUME NEW c, NEW takes, NEW results, NEW legal,
         results = <<>> \/ \E x : results = <<x>>,
         RecordsTruly(c)
                 => \A i \in DOMAIN results : results[i].type = results[i].actual,
         ListsGoTogether(c) => legal,
         NEW p \in Try(takes, results, legal)
  PROVE  Checked(c, p)
BY DEF Checked, Safe, Truthful, Try, Plan

\* An arm that does not look.
LEMMA MustChecked ==
  ASSUME NEW c, NEW takes, NEW results, NEW legal,
         results = <<>> \/ \E x : results = <<x>>,
         Covers(c) => \A i \in DOMAIN takes : takes[i] \in ConstantTypes(c),
         RecordsTruly(c)
                 => \A i \in DOMAIN results : results[i].type = results[i].actual,
         ListsGoTogether(c) => legal,
         NEW p \in Must(takes, results, legal)
  PROVE  Checked(c, p)
BY DEF Checked, Safe, Truthful, Must, Plan

\* The results of an arm: none, or one whose recorded type is right if the two
\* types are the same.
LEMMA ResultFacts ==
  ASSUME NEW t, NEW u
  PROVE  /\ \E x : Typed(t, u) = <<x>>
         /\ t = u => \A i \in DOMAIN Typed(t, u) :
                       Typed(t, u)[i].type = Typed(t, u)[i].actual
         /\ Same(t) = Typed(t, t)
BY DEF Typed, Same

\* The same with one result, recorded with type t where cranelift infers u.
LEMMA TryTyped ==
  ASSUME NEW c, NEW takes, NEW t, NEW u, NEW legal,
         RecordsTruly(c) => t = u,
         ListsGoTogether(c) => legal,
         NEW p \in Try(takes, Typed(t, u), legal)
  PROVE  Checked(c, p)
BY ResultFacts, TryChecked

\* An arm that unwraps choices among the values of types there are constants of.
LEMMA MustTyped ==
  ASSUME NEW c, NEW takes, NEW t, NEW u, NEW legal,
         Covers(c) => \A i \in DOMAIN takes : takes[i] \in ConstantTypes(c),
         RecordsTruly(c) => t = u,
         ListsGoTogether(c) => legal,
         NEW p \in Must(takes, Typed(t, u), legal)
  PROVE  Checked(c, p)
BY ResultFacts, MustChecked

\* A choice from an empty list of operand types.
LEMMA EmptyChecked ==
  ASSUME NEW c, NEW g \in Groups \ NoOperandDrawn,
         \E m \in c.modes[g] : m.operand = {}
  PROVE  Checked(c, Panic)
<1>1. ~Covers(c) BY DEF Covers
<1> QED BY <1>1, PanicChecked DEF Panic

\* The same arm with one operand.
LEMMA MustOne ==
  ASSUME NEW c, NEW a, NEW t, NEW u, NEW legal,
         Covers(c) => a \in ConstantTypes(c),
         RecordsTruly(c) => t = u,
         ListsGoTogether(c) => legal,
         NEW p \in Must(<<a>>, Typed(t, u), legal)
  PROVE  Checked(c, p)
<1>1. \A i \in DOMAIN <<a>> : <<a>>[i] = a OBVIOUS
<1> QED BY <1>1, MustTyped

\* The same arm with two operands.
LEMMA MustTwo ==
  ASSUME NEW c, NEW a, NEW b, NEW t, NEW u, NEW legal,
         Covers(c) => a \in ConstantTypes(c) /\ b \in ConstantTypes(c),
         RecordsTruly(c) => t = u,
         ListsGoTogether(c) => legal,
         NEW p \in Must(<<a, b>>, Typed(t, u), legal)
  PROVE  Checked(c, p)
<1>1. \A i \in DOMAIN <<a, b>> : <<a, b>>[i] = a \/ <<a, b>>[i] = b OBVIOUS
<1> QED BY <1>1, MustTyped

\* The same arm with three operands, of two types.
LEMMA MustThree ==
  ASSUME NEW c, NEW a, NEW b, NEW t, NEW u, NEW legal,
         Covers(c) => a \in ConstantTypes(c) /\ b \in ConstantTypes(c),
         RecordsTruly(c) => t = u,
         ListsGoTogether(c) => legal,
         NEW p \in Must(<<a, b, b>>, Typed(t, u), legal)
  PROVE  Checked(c, p)
<1>1. \A i \in DOMAIN <<a, b, b>> : <<a, b, b>>[i] = a \/ <<a, b, b>>[i] = b OBVIOUS
<1> QED BY <1>1, MustTyped

\* The types a configuration lists are types of cranelift.
LEMMA ListedTypes ==
  ASSUME NEW c, IsConfig(c), NEW g \in Groups, NEW m \in c.modes[g]
  PROVE  /\ m.operand \subseteq Types /\ m.arg0 \subseteq Types
         /\ m.arg1 \subseteq Types
BY DEF IsConfig

\* A type is a scalar or a vector of 128 bits.
LEMMA TypeFacts ==
  ASSUME NEW t \in Types
  PROVE  /\ \/ \E b \in {8, 16, 32, 64, 128} : t = I(b)
            \/ \E b \in {16, 32, 64, 128} : t = F(b)
            \/ \E b \in {8, 16, 32, 64} : t = IX(b)
            \/ \E b \in {16, 32, 64} : t = FX(b)
         /\ t = [kind |-> t.kind, bits |-> t.bits, lanes |-> t.lanes]
         /\ t.kind \in {"i", "f"} /\ t.bits \in {8, 16, 32, 64, 128}
         /\ t.lanes \in {1, 2, 4, 8, 16}
<1>1. \/ \E b \in {8, 16, 32, 64, 128} : t = I(b)
      \/ \E b \in {16, 32, 64, 128} : t = F(b)
      \/ \E b \in {8, 16, 32, 64} : t = IX(b)
      \/ \E b \in {16, 32, 64} : t = FX(b)
  BY DEF Types
<1>2. \A b \in {8, 16, 32, 64} : 128 \div b \in {2, 4, 8, 16} OBVIOUS
<1> QED BY <1>1, <1>2 DEF I, F, IX, FX, Scalar, Vector

\* The vector types.
LEMMA VectorTypes ==
  /\ IX(8) = [kind |-> "i", bits |-> 8, lanes |-> 16]
  /\ IX(16) = [kind |-> "i", bits |-> 16, lanes |-> 8]
  /\ IX(32) = [kind |-> "i", bits |-> 32, lanes |-> 4]
  /\ IX(64) = [kind |-> "i", bits |-> 64, lanes |-> 2]
  /\ FX(16) = [kind |-> "f", bits |-> 16, lanes |-> 8]
  /\ FX(32) = [kind |-> "f", bits |-> 32, lanes |-> 4]
  /\ FX(64) = [kind |-> "f", bits |-> 64, lanes |-> 2]
<1>1. 128 \div 8 = 16 /\ 128 \div 16 = 8 /\ 128 \div 32 = 4 /\ 128 \div 64 = 2 OBVIOUS
<1> QED BY <1>1 DEF IX, FX, Vector

\* The types derived from another.
LEMMA DerivedTypes ==
  ASSUME NEW t, NEW kind, NEW b \in Nat, NEW n \in Nat,
         t = [kind |-> kind, bits |-> b, lanes |-> n]
  PROVE  /\ LaneOf(t) = [kind |-> kind, bits |-> b, lanes |-> 1]
         /\ HalfWidth(t) = [kind |-> kind, bits |-> b \div 2, lanes |-> n]
         /\ DoubleWidth(t) = [kind |-> kind, bits |-> 2 * b, lanes |-> n]
         /\ SplitLanes(t) = [kind |-> kind, bits |-> b \div 2, lanes |-> 2 * n]
         /\ MergeLanes(t) = [kind |-> kind, bits |-> 2 * b, lanes |-> n \div 2]
<1>1. HalfWidth(t) = [kind |-> kind, bits |-> b \div 2, lanes |-> n]
  BY DEF HalfWidth
<1>2. DoubleWidth(t) = [kind |-> kind, bits |-> 2 * b, lanes |-> n]
  BY DEF DoubleWidth
<1>3. LaneOf(t) = [kind |-> kind, bits |-> b, lanes |-> 1] BY DEF LaneOf
<1>4. SplitLanes(t) = [kind |-> kind, bits |-> b \div 2, lanes |-> 2 * n]
  BY <1>1 DEF SplitLanes
<1>5. MergeLanes(t) = [kind |-> kind, bits |-> 2 * b, lanes |-> n \div 2]
  BY <1>2 DEF MergeLanes
<1> QED BY <1>1, <1>2, <1>3, <1>4, <1>5

\* Merging the lanes of an integer vector gives the vector of twice the width.
LEMMA MergedVectors ==
  /\ MergeLanes(IX(8)) = IX(16) /\ MergeLanes(IX(16)) = IX(32)
          /\ MergeLanes(IX(32)) = IX(64)
<1>1. /\ 2 * 8 = 16 /\ 2 * 16 = 32 /\ 2 * 32 = 64
      /\ 16 \div 2 = 8 /\ 8 \div 2 = 4 /\ 4 \div 2 = 2
  OBVIOUS
<1>2. MergeLanes(IX(8)) = [kind |-> "i", bits |-> 2 * 8, lanes |-> 16 \div 2]
  BY VectorTypes, DerivedTypes
<1>3. MergeLanes(IX(16)) = [kind |-> "i", bits |-> 2 * 16, lanes |-> 8 \div 2]
  BY VectorTypes, DerivedTypes
<1>4. MergeLanes(IX(32)) = [kind |-> "i", bits |-> 2 * 32, lanes |-> 4 \div 2]
  BY VectorTypes, DerivedTypes
<1> QED BY <1>1, <1>2, <1>3, <1>4, VectorTypes

\* The arms, in the order of the source.  A plan of an arm that draws a mode and a
\* type of its operands comes from no mode, from an empty list or from a type.
LEMMA BinaryChecked ==
  ASSUME NEW c, NEW g \in Groups \ NoOperandDrawn, NEW p \in Binary(c, g)
  PROVE  Checked(c, p)
<1>1. \/ p = None
      \/ \E m \in c.modes[g] :
           IF m.operand = {} THEN p = Panic
           ELSE \E t \in m.operand : p \in Try(<<t, t>>, Same(t), AnyTypes)
  <2>1. \/ p = None
        \/ \E m \in c.modes[g] : p \in Draw(m.operand, LAMBDA t :
                      Try(<<t, t>>, Same(t), AnyTypes))
    BY Zenon DEF Binary, OnOperand, InMode
  <2>2. ASSUME NEW S, p \in Draw(S, LAMBDA t :
                      Try(<<t, t>>, Same(t), AnyTypes))
        PROVE  IF S = {} THEN p = Panic
               ELSE \E t \in S : p \in Try(<<t, t>>, Same(t), AnyTypes)
    BY <2>2 DEF Draw
  <2> QED BY <2>1, <2>2, Zenon
<1>2. CASE p = None BY <1>2, NoneChecked
<1>3. CASE p = Panic /\ \E m \in c.modes[g] : m.operand = {} BY <1>3, EmptyChecked
<1>4. ASSUME NEW t, p \in Try(<<t, t>>, Same(t), AnyTypes) PROVE Checked(c, p)
  BY <1>4, TryTyped, Zenon DEF AnyTypes, Same
<1> QED BY <1>1, <1>2, <1>3, <1>4, Zenon

\* atomic_rmw unwraps a value of a listed type, and there is a constant of each.
LEMMA AtomicRmwChecked ==
  ASSUME NEW c, IsConfig(c), NEW p \in AtomicRmw(c)
  PROVE  Checked(c, p)
<1> DEFINE g == "atomic_rmw"
<1>1. \/ p = None
      \/ \E m \in c.modes[g] :
           IF m.operand = {} THEN p = Panic
           ELSE \E t \in m.operand : p \in Must(<<t>>, Same(t), AnyTypes)
  <2>1. \/ p = None
        \/ \E m \in c.modes[g] : p \in Draw(m.operand, LAMBDA t :
                      Must(<<t>>, Same(t), AnyTypes))
    BY Zenon DEF AtomicRmw, OnOperand, InMode
  <2>2. ASSUME NEW S, p \in Draw(S, LAMBDA t :
                      Must(<<t>>, Same(t), AnyTypes))
        PROVE  IF S = {} THEN p = Panic
               ELSE \E t \in S : p \in Must(<<t>>, Same(t), AnyTypes)
    BY <2>2 DEF Draw
  <2> QED BY <2>1, <2>2, Zenon
<1>2. g \in Groups \ NoOperandDrawn BY DEF Groups, NoOperandDrawn
<1>3. CASE p = None BY <1>3, NoneChecked
<1>4. CASE p = Panic /\ \E m \in c.modes[g] : m.operand = {}
  BY <1>2, <1>4, EmptyChecked
<1>5. ASSUME NEW m \in c.modes[g], NEW t \in m.operand,
             p \in Must(<<t>>, Same(t), AnyTypes)
      PROVE  Checked(c, p)
  <2>1. t \in OperandTypes(c, g) BY DEF OperandTypes
  <2>2. t \in Types BY <1>2, ListedTypes
  <2>3. Covers(c) => t \in ConstantTypes(c) BY <2>1 DEF Covers, Unwrapped
  <2> QED BY <1>5, <2>3, MustOne, Zenon DEF Same, AnyTypes
<1> QED BY <1>1, <1>3, <1>4, <1>5, Zenon

\* x86_pmaddubsw records i16x8, which is what i8x16 operands merge to.
LEMMA PmaddubswChecked ==
  ASSUME NEW c, IsConfig(c), NEW p \in Pmaddubsw(c)
  PROVE  Checked(c, p)
<1> DEFINE g == "pmaddubsw"
<1>1. \/ p = None
      \/ \E m \in c.modes[g] :
           IF m.operand = {} THEN p = Panic
           ELSE \E t \in m.operand :
                  p \in Try(<<t, t>>, Typed(IX(16), MergeLanes(t)),
                                AnyTypes)
  <2>1. \/ p = None
        \/ \E m \in c.modes[g] : p \in Draw(m.operand, LAMBDA t :
                      Try(<<t, t>>, Typed(IX(16), MergeLanes(t)), AnyTypes))
    BY Zenon DEF Pmaddubsw, OnOperand, InMode
  <2>2. ASSUME NEW S, p \in Draw(S, LAMBDA t :
                      Try(<<t, t>>, Typed(IX(16), MergeLanes(t)), AnyTypes))
        PROVE  IF S = {} THEN p = Panic
               ELSE \E t \in S : p \in Try(<<t, t>>, Typed(IX(16), MergeLanes(t)), AnyTypes)
    BY <2>2 DEF Draw
  <2> QED BY <2>1, <2>2, Zenon
<1>2. g \in Groups \ NoOperandDrawn BY DEF Groups, NoOperandDrawn
<1>3. CASE p = None BY <1>3, NoneChecked
<1>4. CASE p = Panic /\ \E m \in c.modes[g] : m.operand = {}
  BY <1>2, <1>4, EmptyChecked
<1>5. ASSUME NEW m \in c.modes[g], NEW t \in m.operand,
             p \in Try(<<t, t>>, Typed(IX(16), MergeLanes(t)), AnyTypes)
      PROVE  Checked(c, p)
  <2>1. t \in OperandTypes(c, g) BY DEF OperandTypes
  <2>2. t \in Types BY <1>2, ListedTypes
  <2>3. RecordsTruly(c) => t = IX(8) BY <2>1 DEF RecordsTruly
  <2>4. MergeLanes(IX(8)) = IX(16) BY MergedVectors
  <2> QED BY <1>5, <2>3, <2>4, TryTyped, Zenon DEF AnyTypes
<1> QED BY <1>1, <1>3, <1>4, <1>5, Zenon

\* The shifts unwrap a value and an amount, of types there are constants of.
LEMMA ShiftChecked ==
  ASSUME NEW c, IsConfig(c), NEW p \in Shift(c)
  PROVE  Checked(c, p)
<1>1. \/ p = None
      \/ \E m \in c.modes["shift"] :
           IF m.arg0 = {} THEN p = Panic
           ELSE \E a \in m.arg0 :
             IF m.arg1 = {} THEN p = Panic
             ELSE \E b \in m.arg1 : p \in Must(<<a, b>>, Same(a), IsInt(b))
  <2>1. \/ p = None
        \/ \E m \in c.modes["shift"] :
             p \in Draw(m.arg0, LAMBDA a : Draw(m.arg1, LAMBDA b :
                      Must(<<a, b>>, Same(a), IsInt(b))))
    BY Zenon DEF Shift, InMode
  <2>2. ASSUME NEW S, NEW U,
               p \in Draw(S, LAMBDA a : Draw(U, LAMBDA b :
                        Must(<<a, b>>, Same(a), IsInt(b))))
        PROVE  IF S = {} THEN p = Panic
               ELSE \E a \in S : IF U = {} THEN p = Panic
                    ELSE \E b \in U : p \in Must(<<a, b>>, Same(a), IsInt(b))
    BY <2>2 DEF Draw
  <2> QED BY <2>1, <2>2, Zenon
<1>2. CASE p = None BY <1>2, NoneChecked
<1>3. CASE p = Panic /\ \E m \in c.modes["shift"] : m.arg0 = {} \/ m.arg1 = {}
  <2>1. ~Covers(c) BY <1>3 DEF Covers
  <2> QED BY <1>3, <2>1, PanicChecked DEF Panic
<1>4. ASSUME NEW m \in c.modes["shift"], NEW a \in m.arg0, NEW b \in m.arg1,
             p \in Must(<<a, b>>, Same(a), IsInt(b))
      PROVE  Checked(c, p)
  <2>1. a \in Arg0Types(c, "shift") /\ b \in Arg1Types(c, "shift")
    BY DEF Arg0Types, Arg1Types
  <2>2. Covers(c) => a \in ConstantTypes(c) /\ b \in ConstantTypes(c)
    BY <2>1 DEF Covers
  <2>3. ListsGoTogether(c) => IsInt(b) BY <2>1 DEF ListsGoTogether
  <2> QED BY <1>4, <2>2, <2>3, MustTwo DEF Same
<1> QED BY <1>1, <1>2, <1>3, <1>4, Zenon

\* The three opcodes that narrow the lanes of two vectors.
LEMMA NarrowChecked ==
  ASSUME NEW c, IsConfig(c), NEW g \in Groups \ NoOperandDrawn,
         NEW bits \in SUBSET {16, 32, 64},
         Covers(c) => OperandTypes(c, g) \subseteq IntVectors(bits),
         NEW p \in Narrow(c, g, bits)
  PROVE  Checked(c, p)
<1>1. \/ p = None
      \/ \E m \in c.modes[g] :
           IF m.operand = {} THEN p = Panic
           ELSE \E t \in m.operand :
             IF t \notin IntVectors(bits) THEN p = Unexpected(t)
             ELSE p \in Try(<<t, t>>, Typed(NarrowType(t), SplitLanes(t)),
                                AnyTypes)
  BY DEF Narrow, OnOperand, InMode, Draw
<1>2. CASE p = None BY <1>2, NoneChecked
<1>3. CASE p = Panic /\ \E m \in c.modes[g] : m.operand = {}
  BY <1>3, EmptyChecked
<1>4. ASSUME NEW m \in c.modes[g], NEW t \in m.operand, t \notin IntVectors(bits),
             p = Unexpected(t)
      PROVE  Checked(c, p)
  <2>1. t \in OperandTypes(c, g) BY DEF OperandTypes
  <2>2. ~Covers(c) BY <1>4, <2>1
  <2> QED BY <1>4, <2>2, PanicChecked DEF Unexpected
<1>5. ASSUME NEW t, t \in IntVectors(bits),
             p \in Try(<<t, t>>, Typed(NarrowType(t), SplitLanes(t)),
                           AnyTypes)
      PROVE  Checked(c, p)
  <2>1. t \in {IX(16), IX(32), IX(64)} BY <1>5 DEF IntVectors
  <2>2. NarrowType(t) = SplitLanes(t)
    <3>1. 16 \div 2 = 8 /\ 32 \div 2 = 16 /\ 64 \div 2 = 32 OBVIOUS
    <3>2. /\ t = [kind |-> "i", bits |-> t.bits, lanes |-> t.lanes]
          /\ t.bits \in Nat /\ t.lanes \in Nat
      BY <2>1, VectorTypes
    <3>3. SplitLanes(t) = [kind |-> "i", bits |-> t.bits \div 2, lanes |-> 2 * t.lanes]
      BY <3>2, DerivedTypes
    <3> QED BY <2>1, <3>1, <3>3, VectorTypes DEF NarrowType
  <2> QED BY <1>5, <2>2, TryTyped, Zenon DEF AnyTypes
<1> QED BY <1>1, <1>2, <1>3, <1>4, <1>5, Zenon

\* iconcat makes an i128, and its match knows i64 only.
LEMMA IconcatChecked ==
  ASSUME NEW c, IsConfig(c), NEW p \in Iconcat(c)
  PROVE  Checked(c, p)
<1> DEFINE g == "iconcat"
<1>1. \/ p = None
      \/ \E m \in c.modes[g] :
           IF m.operand = {} THEN p = Panic
           ELSE \E t \in m.operand :
             IF t # I(64) THEN p = Unexpected(t)
             ELSE p \in Try(<<t, t>>, Typed(I(128), DoubleWidth(t)),
                                IsInt(t))
  <2>1. \/ p = None
        \/ \E m \in c.modes[g] : p \in Draw(m.operand, LAMBDA t :
                      IF t # I(64) THEN {Unexpected(t)}
                      ELSE Try(<<t, t>>, Typed(I(128), DoubleWidth(t)), IsInt(t)))
    BY Zenon DEF Iconcat, OnOperand, InMode
  <2>2. ASSUME NEW S, p \in Draw(S, LAMBDA t :
                      IF t # I(64) THEN {Unexpected(t)}
                      ELSE Try(<<t, t>>, Typed(I(128), DoubleWidth(t)), IsInt(t)))
        PROVE  IF S = {} THEN p = Panic
               ELSE \E t \in S : IF t # I(64) THEN p = Unexpected(t)
                    ELSE p \in Try(<<t, t>>, Typed(I(128), DoubleWidth(t)), IsInt(t))
    BY <2>2 DEF Draw
  <2> QED BY <2>1, <2>2, Zenon
<1>2. g \in Groups \ NoOperandDrawn BY DEF Groups, NoOperandDrawn
<1>3. CASE p = None BY <1>3, NoneChecked
<1>4. CASE p = Panic /\ \E m \in c.modes[g] : m.operand = {}
  BY <1>2, <1>4, EmptyChecked
<1>5. ASSUME NEW m \in c.modes[g], NEW t \in m.operand,
             IF t # I(64) THEN p = Unexpected(t)
             ELSE p \in Try(<<t, t>>, Typed(I(128), DoubleWidth(t)),
                                IsInt(t))
      PROVE  Checked(c, p)
  <2>1. t \in OperandTypes(c, g) BY DEF OperandTypes
  <2>2. t \in Types BY <1>2, ListedTypes
  <2>3. CASE t # I(64)
    <3>1. ~Covers(c) BY <2>1, <2>3 DEF Covers
    <3> QED BY <1>5, <2>3, <3>1, PanicChecked DEF Unexpected
  <2>4. CASE t = I(64)
    <3>1. IsInt(t) /\ DoubleWidth(t) = I(128)
      BY <2>4 DEF IsInt, DoubleWidth, I, Scalar
    <3>2. p \in Try(<<t, t>>, Typed(I(128), DoubleWidth(t)), IsInt(t))
      BY <1>5, <2>4
    <3> QED BY <3>1, <3>2, TryTyped, Zenon
  <2> QED BY <2>3, <2>4
<1> QED BY <1>1, <1>3, <1>4, <1>5, Zenon

\* An operation with an immediate unwraps an integer of a listed type.
LEMMA ImmChecked ==
  ASSUME NEW c, IsConfig(c), NEW p \in Imm(c)
  PROVE  Checked(c, p)
<1> DEFINE g == "imm"
<1>1. \/ p = None
      \/ \E m \in c.modes[g] :
           IF m.operand = {} THEN p = Panic
           ELSE \E t \in m.operand : p \in Must(<<t>>, Same(t), IsInt(t))
  <2>1. \/ p = None
        \/ \E m \in c.modes[g] : p \in Draw(m.operand, LAMBDA t :
                      Must(<<t>>, Same(t), IsInt(t)))
    BY Zenon DEF Imm, OnOperand, InMode
  <2>2. ASSUME NEW S, p \in Draw(S, LAMBDA t :
                      Must(<<t>>, Same(t), IsInt(t)))
        PROVE  IF S = {} THEN p = Panic
               ELSE \E t \in S : p \in Must(<<t>>, Same(t), IsInt(t))
    BY <2>2 DEF Draw
  <2> QED BY <2>1, <2>2, Zenon
<1>2. g \in Groups \ NoOperandDrawn BY DEF Groups, NoOperandDrawn
<1>3. CASE p = None BY <1>3, NoneChecked
<1>4. CASE p = Panic /\ \E m \in c.modes[g] : m.operand = {}
  BY <1>2, <1>4, EmptyChecked
<1>5. ASSUME NEW m \in c.modes[g], NEW t \in m.operand,
             p \in Must(<<t>>, Same(t), IsInt(t))
      PROVE  Checked(c, p)
  <2>1. t \in OperandTypes(c, g) BY DEF OperandTypes
  <2>2. t \in Types BY <1>2, ListedTypes
  <2>3. Covers(c) => t \in ConstantTypes(c) BY <2>1 DEF Covers, Unwrapped
  <2>4. ListsGoTogether(c) => IsInt(t) BY <2>1 DEF ListsGoTogether
  <2> QED BY <1>5, <2>3, <2>4, MustOne DEF Same
<1> QED BY <1>1, <1>3, <1>4, <1>5, Zenon

\* extractlane records the type of the lanes of the vector it finds.
LEMMA ExtractlaneChecked ==
  ASSUME NEW c, IsConfig(c), NEW p \in Extractlane(c)
  PROVE  Checked(c, p)
<1> DEFINE g == "extractlane"
<1>1. \/ p = None
      \/ \E m \in c.modes[g] :
           IF m.operand = {} THEN p = Panic
           ELSE \E t \in m.operand :
             IF ExtractVectorType(t) = {} THEN p = Panic
             ELSE \E lane \in ExtractVectorType(t) :
               p \in Try(<<t>>, Typed(lane, LaneOf(t)), IsVector(t))
  <2>1. \/ p = None
        \/ \E m \in c.modes[g] :
             p \in Draw(m.operand, LAMBDA t : Draw(ExtractVectorType(t), LAMBDA lane :
                      Try(<<t>>, Typed(lane, LaneOf(t)), IsVector(t))))
    BY Zenon DEF Extractlane, OnOperand, InMode
  <2>2. ASSUME NEW S,
               p \in Draw(S, LAMBDA t : Draw(ExtractVectorType(t), LAMBDA lane :
                        Try(<<t>>, Typed(lane, LaneOf(t)), IsVector(t))))
        PROVE  IF S = {} THEN p = Panic
               ELSE \E t \in S :
                 IF ExtractVectorType(t) = {} THEN p = Panic
                 ELSE \E lane \in ExtractVectorType(t) :
                   p \in Try(<<t>>, Typed(lane, LaneOf(t)), IsVector(t))
    BY <2>2 DEF Draw
  <2> QED BY <2>1, <2>2, Zenon
<1>2. g \in Groups \ NoOperandDrawn BY DEF Groups, NoOperandDrawn
<1>3. CASE p = None BY <1>3, NoneChecked
<1>4. CASE p = Panic /\ \E m \in c.modes[g] : m.operand = {}
  BY <1>2, <1>4, EmptyChecked
<1>5. ASSUME NEW m \in c.modes[g], NEW t \in m.operand,
             IF ExtractVectorType(t) = {} THEN p = Panic
             ELSE \E lane \in ExtractVectorType(t) :
               p \in Try(<<t>>, Typed(lane, LaneOf(t)), IsVector(t))
      PROVE  Checked(c, p)
  <2>1. t \in OperandTypes(c, g) BY DEF OperandTypes
  <2>2. t \in Types BY <1>2, ListedTypes
  <2>3. CASE ExtractVectorType(t) = {} /\ p = Panic
    <3>1. t.lanes = 1 BY <2>3 DEF ExtractVectorType
    <3>2. ~Covers(c) BY <2>1, <3>1 DEF Covers
    <3> QED BY <2>3, <3>2, PanicChecked DEF Panic
  <2>4. ASSUME NEW lane \in ExtractVectorType(t),
               p \in Try(<<t>>, Typed(lane, LaneOf(t)), IsVector(t))
        PROVE  Checked(c, p)
    <3>1. lane = LaneOf(t) /\ t.lanes # 1 BY DEF ExtractVectorType
    <3>2. IsVector(t) BY <2>2, <3>1, TypeFacts DEF IsVector
    <3> QED BY <2>4, <3>1, <3>2, TryTyped, Zenon
  <2> QED BY <1>5, <2>3, <2>4
<1> QED BY <1>1, <1>3, <1>4, <1>5, Zenon

\* fcmp records the type of its flag as cranelift infers it for floats.
LEMMA FcmpChecked ==
  ASSUME NEW c, IsConfig(c), NEW p \in Fcmp(c)
  PROVE  Checked(c, p)
<1> DEFINE g == "fcmp"
<1>1. \/ p = None
      \/ \E m \in c.modes[g] :
           IF m.operand = {} THEN p = Panic
           ELSE \E t \in m.operand :
                  p \in Try(<<t, t>>, Typed(FcmpType(t), AsTruthy(t)),
                                AnyTypes)
  <2>1. \/ p = None
        \/ \E m \in c.modes[g] :
             p \in Draw(m.operand, LAMBDA t :
                     Try(<<t, t>>, Typed(FcmpType(t), AsTruthy(t)),
                             AnyTypes))
    BY Zenon DEF Fcmp, OnOperand, InMode
  <2>2. ASSUME NEW S, p \in Draw(S, LAMBDA t :
                      Try(<<t, t>>, Typed(FcmpType(t), AsTruthy(t)), AnyTypes))
        PROVE  IF S = {} THEN p = Panic
               ELSE \E t \in S : p \in Try(<<t, t>>, Typed(FcmpType(t), AsTruthy(t)), AnyTypes)
    BY <2>2 DEF Draw
  <2> QED BY <2>1, <2>2, Zenon
<1>2. g \in Groups \ NoOperandDrawn BY DEF Groups, NoOperandDrawn
<1>3. CASE p = None BY <1>3, NoneChecked
<1>4. CASE p = Panic /\ \E m \in c.modes[g] : m.operand = {}
  BY <1>2, <1>4, EmptyChecked
<1>5. ASSUME NEW m \in c.modes[g], NEW t \in m.operand,
             p \in Try(<<t, t>>, Typed(FcmpType(t), AsTruthy(t)),
                           AnyTypes)
      PROVE  Checked(c, p)
  <2>1. t \in OperandTypes(c, g) BY DEF OperandTypes
  <2>2. t \in Types BY <1>2, ListedTypes
  <2>3. RecordsTruly(c) => t.kind = "f" BY <2>1 DEF RecordsTruly
  <2>4. t.kind = "f" => FcmpType(t) = AsTruthy(t)
    BY <2>2, TypeFacts DEF FcmpType, AsTruthy, I, F, IX, FX,
       Scalar, Vector
  <2> QED BY <1>5, <2>3, <2>4, TryTyped, Zenon DEF AnyTypes
<1> QED BY <1>1, <1>3, <1>4, <1>5, Zenon

\* icmp records the type of its flag as cranelift infers it, but for i8x16.
LEMMA IcmpChecked ==
  ASSUME NEW c, IsConfig(c), NEW p \in Icmp(c)
  PROVE  Checked(c, p)
<1> DEFINE g == "icmp"
<1>1. \/ p = None
      \/ \E m \in c.modes[g] :
           IF m.operand = {} THEN p = Panic
           ELSE \E t \in m.operand :
                  p \in Try(<<t, t>>, Typed(IcmpType(t), AsTruthy(t)),
                                AnyTypes)
  <2>1. \/ p = None
        \/ \E m \in c.modes[g] : p \in Draw(m.operand, LAMBDA t :
                      Try(<<t, t>>, Typed(IcmpType(t), AsTruthy(t)), AnyTypes))
    BY Zenon DEF Icmp, OnOperand, InMode
  <2>2. ASSUME NEW S, p \in Draw(S, LAMBDA t :
                      Try(<<t, t>>, Typed(IcmpType(t), AsTruthy(t)), AnyTypes))
        PROVE  IF S = {} THEN p = Panic
               ELSE \E t \in S : p \in Try(<<t, t>>, Typed(IcmpType(t), AsTruthy(t)), AnyTypes)
    BY <2>2 DEF Draw
  <2> QED BY <2>1, <2>2, Zenon
<1>2. g \in Groups \ NoOperandDrawn BY DEF Groups, NoOperandDrawn
<1>3. CASE p = None BY <1>3, NoneChecked
<1>4. CASE p = Panic /\ \E m \in c.modes[g] : m.operand = {}
  BY <1>2, <1>4, EmptyChecked
<1>5. ASSUME NEW m \in c.modes[g], NEW t \in m.operand,
             p \in Try(<<t, t>>, Typed(IcmpType(t), AsTruthy(t)),
                           AnyTypes)
      PROVE  Checked(c, p)
  <2>1. t \in OperandTypes(c, g) BY DEF OperandTypes
  <2>2. t \in Types BY <1>2, ListedTypes
  <2>3. RecordsTruly(c) => t.kind = "i" /\ t # IX(8) BY <2>1 DEF RecordsTruly
  <2>4. t.kind = "i" /\ t # IX(8) => IcmpType(t) = AsTruthy(t)
    BY <2>2, TypeFacts DEF IcmpType, AsTruthy, I, F, IX, FX,
       Scalar, Vector
  <2> QED BY <1>5, <2>3, <2>4, TryTyped, Zenon DEF AnyTypes
<1> QED BY <1>1, <1>3, <1>4, <1>5, Zenon

\* icmp_imm records an i8, which is right for scalars.
LEMMA IcmpImmChecked ==
  ASSUME NEW c, IsConfig(c), NEW p \in IcmpImm(c)
  PROVE  Checked(c, p)
<1> DEFINE g == "icmp_imm"
<1>1. \/ p = None
      \/ \E m \in c.modes[g] :
           IF m.operand = {} THEN p = Panic
           ELSE \E t \in m.operand :
                  p \in Must(<<t>>, Typed(I(8), AsTruthy(t)), IsInt(t))
  <2>1. \/ p = None
        \/ \E m \in c.modes[g] : p \in Draw(m.operand, LAMBDA t :
                      Must(<<t>>, Typed(I(8), AsTruthy(t)), IsInt(t)))
    BY Zenon DEF IcmpImm, OnOperand, InMode
  <2>2. ASSUME NEW S, p \in Draw(S, LAMBDA t :
                      Must(<<t>>, Typed(I(8), AsTruthy(t)), IsInt(t)))
        PROVE  IF S = {} THEN p = Panic
               ELSE \E t \in S : p \in Must(<<t>>, Typed(I(8), AsTruthy(t)), IsInt(t))
    BY <2>2 DEF Draw
  <2> QED BY <2>1, <2>2, Zenon
<1>2. g \in Groups \ NoOperandDrawn BY DEF Groups, NoOperandDrawn
<1>3. CASE p = None BY <1>3, NoneChecked
<1>4. CASE p = Panic /\ \E m \in c.modes[g] : m.operand = {}
  BY <1>2, <1>4, EmptyChecked
<1>5. ASSUME NEW m \in c.modes[g], NEW t \in m.operand,
             p \in Must(<<t>>, Typed(I(8), AsTruthy(t)), IsInt(t))
      PROVE  Checked(c, p)
  <2>1. t \in OperandTypes(c, g) BY DEF OperandTypes
  <2>2. t \in Types BY <1>2, ListedTypes
  <2>3. Covers(c) => t \in ConstantTypes(c) BY <2>1 DEF Covers, Unwrapped
  <2>4. ListsGoTogether(c) => IsInt(t) BY <2>1 DEF ListsGoTogether
  <2>5. RecordsTruly(c) => t.lanes = 1 BY <2>1 DEF RecordsTruly
  <2>6. t.lanes = 1 => AsTruthy(t) = I(8) BY DEF AsTruthy
  <2> QED BY <1>5, <2>3, <2>4, <2>5, <2>6, MustOne
<1> QED BY <1>1, <1>3, <1>4, <1>5, Zenon

\* A load records the type it loads.
LEMMA LoadChecked ==
  ASSUME NEW c, IsConfig(c), NEW p \in Load(c)
  PROVE  Checked(c, p)
<1> DEFINE g == "load"
<1>1. \/ p = None
      \/ \E m \in c.modes[g] :
           IF m.operand = {} THEN p = Panic
           ELSE \E t \in m.operand : p \in Try(<<>>, Same(t), AnyTypes)
  <2>1. \/ p = None
        \/ \E m \in c.modes[g] : p \in Draw(m.operand, LAMBDA t :
                      Try(<<>>, Same(t), AnyTypes))
    BY Zenon DEF Load, OnOperand, InMode
  <2>2. ASSUME NEW S, p \in Draw(S, LAMBDA t :
                      Try(<<>>, Same(t), AnyTypes))
        PROVE  IF S = {} THEN p = Panic
               ELSE \E t \in S : p \in Try(<<>>, Same(t), AnyTypes)
    BY <2>2 DEF Draw
  <2> QED BY <2>1, <2>2, Zenon
<1>2. g \in Groups \ NoOperandDrawn BY DEF Groups, NoOperandDrawn
<1>3. CASE p = None BY <1>3, NoneChecked
<1>4. CASE p = Panic /\ \E m \in c.modes[g] : m.operand = {}
  BY <1>2, <1>4, EmptyChecked
<1>5. ASSUME NEW m \in c.modes[g], NEW t \in m.operand,
             p \in Try(<<>>, Same(t), AnyTypes)
      PROVE  Checked(c, p)
  <2>1. t \in OperandTypes(c, g) BY DEF OperandTypes
  <2>2. t \in Types BY <1>2, ListedTypes
  <2> QED BY <1>5, TryTyped, Zenon DEF Same, AnyTypes
<1> QED BY <1>1, <1>3, <1>4, <1>5

\* stack_load records the type it loads.
LEMMA StackLoadChecked ==
  ASSUME NEW c, IsConfig(c), NEW p \in StackLoad(c)
  PROVE  Checked(c, p)
<1> DEFINE g == "stack_load"
<1>1. \/ p = None
      \/ \E m \in c.modes[g] :
           IF m.operand = {} THEN p = Panic
           ELSE \E t \in m.operand : p \in Try(<<>>, Same(t), AnyTypes)
  <2>1. \/ p = None
        \/ \E m \in c.modes[g] : p \in Draw(m.operand, LAMBDA t :
                      Try(<<>>, Same(t), AnyTypes))
    BY Zenon DEF StackLoad, OnOperand, InMode
  <2>2. ASSUME NEW S, p \in Draw(S, LAMBDA t :
                      Try(<<>>, Same(t), AnyTypes))
        PROVE  IF S = {} THEN p = Panic
               ELSE \E t \in S : p \in Try(<<>>, Same(t), AnyTypes)
    BY <2>2 DEF Draw
  <2> QED BY <2>1, <2>2, Zenon
<1>2. g \in Groups \ NoOperandDrawn BY DEF Groups, NoOperandDrawn
<1>3. CASE p = None BY <1>3, NoneChecked
<1>4. CASE p = Panic /\ \E m \in c.modes[g] : m.operand = {}
  BY <1>2, <1>4, EmptyChecked
<1>5. ASSUME NEW m \in c.modes[g], NEW t \in m.operand,
             p \in Try(<<>>, Same(t), AnyTypes)
      PROVE  Checked(c, p)
  <2>1. t \in OperandTypes(c, g) BY DEF OperandTypes
  <2>2. t \in Types BY <1>2, ListedTypes
  <2> QED BY <1>5, TryTyped, Zenon DEF Same, AnyTypes
<1> QED BY <1>1, <1>3, <1>4, <1>5

\* bitcast_type_mapping keeps the number of bits.
LEMMA BitcastKeepsBits ==
  ASSUME NEW t \in Types, NEW to \in BitcastTypeMapping(t)
  PROVE  SameBits(to, t)
<1>1. CASE t \in {I(16), I(32), I(64)} /\ to = F(t.bits)
  BY <1>1 DEF SameBits, Bits, I, F, Scalar
<1>2. CASE t \in {F(16), F(32), F(64)} /\ to = I(t.bits)
  BY <1>2 DEF SameBits, Bits, I, F, Scalar
<1>3. CASE /\ t \in {I(128), IX(16), IX(32), IX(64), FX(16),
                     FX(32), FX(64)}
           /\ to \in {I(128), IX(16), IX(32), IX(64), FX(16),
                      FX(32), FX(64)}
  <2>1. \A u \in {I(128), IX(16), IX(32), IX(64), FX(16), FX(32),
                  FX(64)} : Bits(u) = 128
    BY VectorTypes DEF Bits, I, Scalar
  <2> QED BY <1>3, <2>1 DEF SameBits
<1>4. \/ t \in {I(16), I(32), I(64)} /\ to \in {F(t.bits)}
      \/ t \in {F(16), F(32), F(64)} /\ to \in {I(t.bits)}
      \/ t = I(128)
              /\ to \in {IX(16), IX(32), IX(64), FX(32), FX(64)}
      \/ t = IX(16) /\ to \in {I(128)}
      \/ t \in {IX(32), IX(64)} /\ to \in {FX(t.bits), I(128)}
      \/ t \in {FX(16), FX(32)} /\ to \in {IX(t.bits), I(128)}
      \/ t = FX(64) /\ to \in {IX(32), I(128)}
  BY DEF BitcastTypeMapping
<1>5. /\ t \in {IX(32), IX(64)} => FX(t.bits) \in {FX(32), FX(64)}
      /\ t \in {FX(16), FX(32)} => IX(t.bits) \in {IX(16), IX(32)}
  BY VectorTypes
<1> QED BY <1>1, <1>2, <1>3, <1>4, <1>5

\* What widening gives.
LEMMA WidenedType ==
  ASSUME NEW t, NEW from \in WidenFrom(t)
  PROVE  MergeLanes(from) = t
<1>1. PICK b \in {8, 16, 32} : from = IX(b) /\ t = IX(2 * b) BY DEF WidenFrom
<1>2. CASE b = 8 BY <1>1, <1>2, MergedVectors
<1>3. CASE b = 16 BY <1>1, <1>3, MergedVectors
<1>4. CASE b = 32 BY <1>1, <1>4, MergedVectors
<1> QED BY <1>2, <1>3, <1>4

\* The conversions keep the number of lanes.
LEMMA ConvertChecked ==
  ASSUME NEW c, NEW t \in Types, NEW expected, NEW kind,
         Covers(c) => t \in ConstantTypes(c),
         NEW p \in Convert(t, expected, WithKind(t, kind))
  PROVE  Checked(c, p)
<1>1. CASE p \in Must(<<t>>, Same(WithKind(t, kind)),
                          SameLanes(t, WithKind(t, kind)))
  <2>1. t = [kind |-> t.kind, bits |-> t.bits, lanes |-> t.lanes] BY TypeFacts
  <2>2. SameLanes(t, WithKind(t, kind)) BY <2>1 DEF SameLanes, WithKind
  <2> QED BY <1>1, <2>2, MustOne, Zenon DEF Same
<1>2. CASE p = Plan({}, <<t>>, "none", NoResult, AnyTypes)
  <2>1. \A i \in DOMAIN <<t>> : <<t>>[i] = t OBVIOUS
  <2> QED BY <1>2, <2>1 DEF Checked, Safe, Truthful, Plan, NoResult, AnyTypes
<1> QED BY <1>1, <1>2 DEF Convert

\* bitcast goes to a type of the mapping, all of which have as many bits.
LEMMA BitcastChecked ==
  ASSUME NEW c, IsConfig(c), NEW p \in Bitcast(c)
  PROVE  Checked(c, p)
<1> DEFINE g == "bitcast"
<1>1. \/ p = None
      \/ \E m \in c.modes[g] :
           IF m.operand = {} THEN p = Panic
           ELSE \E t \in m.operand :
             IF BitcastTypeMapping(t) = {} THEN p = Panic
             ELSE \E to \in BitcastTypeMapping(t) :
                    p \in Must(<<t>>, Same(to), SameBits(to, t))
  <2>1. \/ p = None
        \/ \E m \in c.modes[g] :
             p \in Draw(m.operand, LAMBDA t : Draw(BitcastTypeMapping(t), LAMBDA to :
                      Must(<<t>>, Same(to), SameBits(to, t))))
    BY Zenon DEF Bitcast, OnOperand, InMode
  <2>2. ASSUME NEW S, p \in Draw(S, LAMBDA t : Draw(BitcastTypeMapping(t), LAMBDA to :
                               Must(<<t>>, Same(to), SameBits(to, t))))
        PROVE  IF S = {} THEN p = Panic
               ELSE \E t \in S : IF BitcastTypeMapping(t) = {} THEN p = Panic
                    ELSE \E to \in BitcastTypeMapping(t) :
                           p \in Must(<<t>>, Same(to), SameBits(to, t))
    BY <2>2 DEF Draw
  <2> QED BY <2>1, <2>2, Zenon
<1>2. g \in Groups \ NoOperandDrawn BY DEF Groups, NoOperandDrawn
<1>3. CASE p = None BY <1>3, NoneChecked
<1>4. CASE p = Panic /\ \E m \in c.modes[g] : m.operand = {}
  BY <1>2, <1>4, EmptyChecked
<1>5. ASSUME NEW m \in c.modes[g], NEW t \in m.operand,
             IF BitcastTypeMapping(t) = {} THEN p = Panic
             ELSE \E to \in BitcastTypeMapping(t) :
                    p \in Must(<<t>>, Same(to), SameBits(to, t))
      PROVE  Checked(c, p)
  <2>1. t \in OperandTypes(c, g) BY DEF OperandTypes
  <2>2. t \in Types BY <1>2, ListedTypes
  <2>3. CASE BitcastTypeMapping(t) = {} /\ p = Panic
    <3>1. ~Covers(c) BY <2>1, <2>3 DEF Covers
    <3> QED BY <2>3, <3>1, PanicChecked DEF Panic
  <2>4. ASSUME NEW to \in BitcastTypeMapping(t),
               p \in Must(<<t>>, Same(to), SameBits(to, t))
        PROVE  Checked(c, p)
    <3>1. Covers(c) => t \in ConstantTypes(c) BY <2>1 DEF Covers, Unwrapped
    <3>2. SameBits(to, t) BY <2>2, BitcastKeepsBits
    <3> QED BY <2>4, <3>1, <3>2, MustOne, Zenon DEF Same
  <2> QED BY <1>5, <2>3, <2>4
<1> QED BY <1>1, <1>3, <1>4, <1>5, Zenon

\* A store looks for the value it stores.
LEMMA StoreChecked ==
  ASSUME NEW c, IsConfig(c), NEW p \in Store(c)
  PROVE  Checked(c, p)
<1> DEFINE g == "store"
<1>1. \/ p = None
      \/ \E m \in c.modes[g] :
           IF m.operand = {} THEN p = Panic
           ELSE \E t \in m.operand : p \in Try(<<t>>, NoResult, AnyTypes)
  <2>1. \/ p = None
        \/ \E m \in c.modes[g] : p \in Draw(m.operand, LAMBDA t :
                      Try(<<t>>, NoResult, AnyTypes))
    BY Zenon DEF Store, OnOperand, InMode
  <2>2. ASSUME NEW S, p \in Draw(S, LAMBDA t :
                      Try(<<t>>, NoResult, AnyTypes))
        PROVE  IF S = {} THEN p = Panic
               ELSE \E t \in S : p \in Try(<<t>>, NoResult, AnyTypes)
    BY <2>2 DEF Draw
  <2> QED BY <2>1, <2>2, Zenon
<1>2. g \in Groups \ NoOperandDrawn BY DEF Groups, NoOperandDrawn
<1>3. CASE p = None BY <1>3, NoneChecked
<1>4. CASE p = Panic /\ \E m \in c.modes[g] : m.operand = {}
  BY <1>2, <1>4, EmptyChecked
<1>5. ASSUME NEW m \in c.modes[g], NEW t \in m.operand,
             p \in Try(<<t>>, NoResult, AnyTypes)
      PROVE  Checked(c, p)
  <2>1. t \in OperandTypes(c, g) BY DEF OperandTypes
  <2>2. t \in Types BY <1>2, ListedTypes
  <2>3. NoResult = <<>> /\ AnyTypes BY DEF NoResult, AnyTypes
  <2>4. \A i \in DOMAIN <<>> : <<>>[i].type = <<>>[i].actual OBVIOUS
  <2> QED BY <1>5, <2>3, <2>4, TryChecked, Zenon
<1> QED BY <1>1, <1>3, <1>4, <1>5, Zenon

\* The narrowing stores unwrap an integer of a listed type.
LEMMA IstoreChecked ==
  ASSUME NEW c, IsConfig(c), NEW p \in Istore(c)
  PROVE  Checked(c, p)
<1> DEFINE g == "istore"
<1>1. \/ p = None
      \/ \E m \in c.modes[g] :
           IF m.operand = {} THEN p = Panic
           ELSE \E t \in m.operand : p \in Must(<<t>>, NoResult, IsInt(t))
  <2>1. \/ p = None
        \/ \E m \in c.modes[g] : p \in Draw(m.operand, LAMBDA t :
                      Must(<<t>>, NoResult, IsInt(t)))
    BY Zenon DEF Istore, OnOperand, InMode
  <2>2. ASSUME NEW S, p \in Draw(S, LAMBDA t :
                      Must(<<t>>, NoResult, IsInt(t)))
        PROVE  IF S = {} THEN p = Panic
               ELSE \E t \in S : p \in Must(<<t>>, NoResult, IsInt(t))
    BY <2>2 DEF Draw
  <2> QED BY <2>1, <2>2, Zenon
<1>2. g \in Groups \ NoOperandDrawn BY DEF Groups, NoOperandDrawn
<1>3. CASE p = None BY <1>3, NoneChecked
<1>4. CASE p = Panic /\ \E m \in c.modes[g] : m.operand = {}
  BY <1>2, <1>4, EmptyChecked
<1>5. ASSUME NEW m \in c.modes[g], NEW t \in m.operand,
             p \in Must(<<t>>, NoResult, IsInt(t))
      PROVE  Checked(c, p)
  <2>1. t \in OperandTypes(c, g) BY DEF OperandTypes
  <2>2. t \in Types BY <1>2, ListedTypes
  <2>3. Covers(c) => t \in ConstantTypes(c) BY <2>1 DEF Covers, Unwrapped
  <2>4. ListsGoTogether(c) => IsInt(t) BY <2>1 DEF ListsGoTogether
  <2>5. NoResult = <<>> BY DEF NoResult
  <2>6. \A i \in DOMAIN <<t>> : <<t>>[i] = t OBVIOUS
  <2> QED BY <1>5, <2>3, <2>4, <2>5, <2>6, MustChecked
<1> QED BY <1>1, <1>3, <1>4, <1>5, Zenon

\* bitselect unwraps three values of one listed type.
LEMMA BitselectChecked ==
  ASSUME NEW c, IsConfig(c), NEW p \in Bitselect(c)
  PROVE  Checked(c, p)
<1> DEFINE g == "bitselect"
<1>1. \/ p = None
      \/ \E m \in c.modes[g] :
           IF m.operand = {} THEN p = Panic
           ELSE \E t \in m.operand : p \in Must(<<t, t, t>>, Same(t), AnyTypes)
  <2>1. \/ p = None
        \/ \E m \in c.modes[g] : p \in Draw(m.operand, LAMBDA t :
                      Must(<<t, t, t>>, Same(t), AnyTypes))
    BY Zenon DEF Bitselect, OnOperand, InMode
  <2>2. ASSUME NEW S, p \in Draw(S, LAMBDA t :
                      Must(<<t, t, t>>, Same(t), AnyTypes))
        PROVE  IF S = {} THEN p = Panic
               ELSE \E t \in S : p \in Must(<<t, t, t>>, Same(t), AnyTypes)
    BY <2>2 DEF Draw
  <2> QED BY <2>1, <2>2, Zenon
<1>2. g \in Groups \ NoOperandDrawn BY DEF Groups, NoOperandDrawn
<1>3. CASE p = None BY <1>3, NoneChecked
<1>4. CASE p = Panic /\ \E m \in c.modes[g] : m.operand = {}
  BY <1>2, <1>4, EmptyChecked
<1>5. ASSUME NEW m \in c.modes[g], NEW t \in m.operand,
             p \in Must(<<t, t, t>>, Same(t), AnyTypes)
      PROVE  Checked(c, p)
  <2>1. t \in OperandTypes(c, g) BY DEF OperandTypes
  <2>2. t \in Types BY <1>2, ListedTypes
  <2>3. Covers(c) => t \in ConstantTypes(c) BY <2>1 DEF Covers, Unwrapped
  <2> QED BY <1>5, <2>3, MustThree, Zenon DEF Same, AnyTypes
<1> QED BY <1>1, <1>3, <1>4, <1>5, Zenon

\* fma looks for its operands.
LEMMA FmaChecked ==
  ASSUME NEW c, IsConfig(c), NEW p \in Fma(c)
  PROVE  Checked(c, p)
<1> DEFINE g == "fma"
<1>1. \/ p = None
      \/ \E m \in c.modes[g] :
           IF m.operand = {} THEN p = Panic
           ELSE \E t \in m.operand : p \in Try(<<t, t, t>>, Same(t), AnyTypes)
  <2>1. \/ p = None
        \/ \E m \in c.modes[g] : p \in Draw(m.operand, LAMBDA t :
                      Try(<<t, t, t>>, Same(t), AnyTypes))
    BY Zenon DEF Fma, OnOperand, InMode
  <2>2. ASSUME NEW S, p \in Draw(S, LAMBDA t :
                      Try(<<t, t, t>>, Same(t), AnyTypes))
        PROVE  IF S = {} THEN p = Panic
               ELSE \E t \in S : p \in Try(<<t, t, t>>, Same(t), AnyTypes)
    BY <2>2 DEF Draw
  <2> QED BY <2>1, <2>2, Zenon
<1>2. g \in Groups \ NoOperandDrawn BY DEF Groups, NoOperandDrawn
<1>3. CASE p = None BY <1>3, NoneChecked
<1>4. CASE p = Panic /\ \E m \in c.modes[g] : m.operand = {}
  BY <1>2, <1>4, EmptyChecked
<1>5. ASSUME NEW m \in c.modes[g], NEW t \in m.operand,
             p \in Try(<<t, t, t>>, Same(t), AnyTypes)
      PROVE  Checked(c, p)
  <2>1. t \in OperandTypes(c, g) BY DEF OperandTypes
  <2>2. t \in Types BY <1>2, ListedTypes
  <2> QED BY <1>5, TryTyped, Zenon DEF Same, AnyTypes
<1> QED BY <1>1, <1>3, <1>4, <1>5, Zenon

\* insertlane finds a value for the lane among the constants.
LEMMA InsertlaneChecked ==
  ASSUME NEW c, IsConfig(c), NEW p \in Insertlane(c)
  PROVE  Checked(c, p)
<1> DEFINE g == "insertlane"
<1>1. \/ p = None
      \/ \E m \in c.modes[g] :
           IF m.operand = {} THEN p = Panic
           ELSE \E t \in m.operand :
             IF ExtractVectorType(t) = {} THEN p = Panic
             ELSE \E lane \in ExtractVectorType(t) :
               p = Plan({t}, <<t, lane>>, "some", Same(t), IsLaneOf(lane, t))
  <2>1. \/ p = None
        \/ \E m \in c.modes[g] :
             p \in Draw(m.operand, LAMBDA t :
               Draw(ExtractVectorType(t), LAMBDA lane :
                 {Plan({t}, <<t, lane>>, "some", Same(t), IsLaneOf(lane, t))}))
    BY Zenon DEF Insertlane, OnOperand, InMode
  <2>2. ASSUME NEW S,
               p \in Draw(S, LAMBDA t :
               Draw(ExtractVectorType(t), LAMBDA lane :
                 {Plan({t}, <<t, lane>>, "some", Same(t), IsLaneOf(lane, t))}))
        PROVE  IF S = {} THEN p = Panic
               ELSE \E t \in S :
             IF ExtractVectorType(t) = {} THEN p = Panic
             ELSE \E lane \in ExtractVectorType(t) :
               p = Plan({t}, <<t, lane>>, "some", Same(t), IsLaneOf(lane, t))
    BY <2>2, Zenon DEF Draw
  <2> QED BY <2>1, <2>2, Zenon
<1>2. g \in Groups \ NoOperandDrawn BY DEF Groups, NoOperandDrawn
<1>3. CASE p = None BY <1>3, NoneChecked
<1>4. CASE p = Panic /\ \E m \in c.modes[g] : m.operand = {}
  BY <1>2, <1>4, EmptyChecked
<1>5. ASSUME NEW m \in c.modes[g], NEW t \in m.operand,
             IF ExtractVectorType(t) = {} THEN p = Panic
             ELSE \E lane \in ExtractVectorType(t) :
               p = Plan({t}, <<t, lane>>, "some", Same(t), IsLaneOf(lane, t))
      PROVE  Checked(c, p)
  <2>1. t \in OperandTypes(c, g) BY DEF OperandTypes
  <2>2. t \in Types BY <1>2, ListedTypes
  <2>3. CASE ExtractVectorType(t) = {} /\ p = Panic
    <3>1. t.lanes = 1 BY <2>3 DEF ExtractVectorType
    <3>2. ~Covers(c) BY <2>1, <3>1 DEF Covers
    <3> QED BY <2>3, <3>2, PanicChecked DEF Panic
  <2>4. ASSUME NEW lane \in ExtractVectorType(t),
               p = Plan({t}, <<t, lane>>, "some", Same(t), IsLaneOf(lane, t))
        PROVE  Checked(c, p)
    <3>1. lane = LaneOf(t) /\ t.lanes # 1 BY DEF ExtractVectorType
    <3>2. Covers(c) => lane \in ConstantTypes(c) BY <2>1, <3>1 DEF Covers
    <3>3. \A i \in DOMAIN <<t, lane>> : <<t, lane>>[i] = t \/ <<t, lane>>[i] = lane OBVIOUS
    <3>4. /\ p.looks = {t} /\ p.takes = <<t, lane>> /\ p.kind = "some"
          /\ p.results = Same(t)
          /\ p.legal = IsLaneOf(lane, t)
      BY <2>4 DEF Plan
    <3>5. Covers(c) => Safe(c, p) BY <3>2, <3>3, <3>4 DEF Safe
    <3>6. Truthful(p) /\ \E x : p.results = <<x>>
      <4>1. p.results = Typed(t, t) BY <3>4, ResultFacts
      <4>2. /\ \E x : Typed(t, t) = <<x>>
            /\ \A i \in DOMAIN Typed(t, t) :
                 Typed(t, t)[i].type = Typed(t, t)[i].actual
        BY ResultFacts
      <4> QED BY <4>1, <4>2 DEF Truthful
    <3>7. p.legal BY <3>1, <3>4, Zenon DEF IsLaneOf
    <3> QED BY <3>5, <3>6, <3>7, Zenon DEF Checked
  <2> QED BY <1>5, <2>3, <2>4, Zenon
<1> QED BY <1>1, <1>3, <1>4, <1>5, Zenon

\* splat looks for a value of the type of the lanes.
LEMMA SplatChecked ==
  ASSUME NEW c, IsConfig(c), NEW p \in Splat(c)
  PROVE  Checked(c, p)
<1> DEFINE g == "splat"
<1>1. \/ p = None
      \/ \E m \in c.modes[g] :
           IF m.operand = {} THEN p = Panic
           ELSE \E t \in m.operand :
             IF ExtractVectorType(t) = {} THEN p = Panic
             ELSE \E lane \in ExtractVectorType(t) :
               p \in Try(<<lane>>, Same(t), IsLaneOf(lane, t))
  <2>1. \/ p = None
        \/ \E m \in c.modes[g] :
             p \in Draw(m.operand, LAMBDA t : Draw(ExtractVectorType(t), LAMBDA lane :
                      Try(<<lane>>, Same(t), IsLaneOf(lane, t))))
    BY Zenon DEF Splat, OnOperand, InMode
  <2>2. ASSUME NEW S, p \in Draw(S, LAMBDA t : Draw(ExtractVectorType(t), LAMBDA lane :
                               Try(<<lane>>, Same(t), IsLaneOf(lane, t))))
        PROVE  IF S = {} THEN p = Panic
               ELSE \E t \in S : IF ExtractVectorType(t) = {} THEN p = Panic
                    ELSE \E lane \in ExtractVectorType(t) :
                           p \in Try(<<lane>>, Same(t), IsLaneOf(lane, t))
    BY <2>2 DEF Draw
  <2> QED BY <2>1, <2>2, Zenon
<1>2. g \in Groups \ NoOperandDrawn BY DEF Groups, NoOperandDrawn
<1>3. CASE p = None BY <1>3, NoneChecked
<1>4. CASE p = Panic /\ \E m \in c.modes[g] : m.operand = {}
  BY <1>2, <1>4, EmptyChecked
<1>5. ASSUME NEW m \in c.modes[g], NEW t \in m.operand,
             IF ExtractVectorType(t) = {} THEN p = Panic
             ELSE \E lane \in ExtractVectorType(t) :
               p \in Try(<<lane>>, Same(t), IsLaneOf(lane, t))
      PROVE  Checked(c, p)
  <2>1. t \in OperandTypes(c, g) BY DEF OperandTypes
  <2>2. t \in Types BY <1>2, ListedTypes
  <2>3. CASE ExtractVectorType(t) = {} /\ p = Panic
    <3>1. t.lanes = 1 BY <2>3 DEF ExtractVectorType
    <3>2. ~Covers(c) BY <2>1, <3>1, Zenon DEF Covers
    <3> QED BY <2>3, <3>2, PanicChecked DEF Panic
  <2>4. ASSUME NEW lane \in ExtractVectorType(t),
               p \in Try(<<lane>>, Same(t), IsLaneOf(lane, t))
        PROVE  Checked(c, p)
    <3>1. lane = LaneOf(t) /\ t.lanes # 1 BY DEF ExtractVectorType
    <3>2. IsLaneOf(lane, t) BY <3>1 DEF IsLaneOf
    <3> QED BY <2>4, <3>2, TryTyped, Zenon DEF Same
  <2> QED BY <1>5, <2>3, <2>4, Zenon
<1> QED BY <1>1, <1>3, <1>4, <1>5

\* scalar_to_vector looks for a value of the type of the lanes.
LEMMA ScalarToVectorChecked ==
  ASSUME NEW c, IsConfig(c), NEW p \in ScalarToVector(c)
  PROVE  Checked(c, p)
<1> DEFINE g == "scalar_to_vector"
<1>1. \/ p = None
      \/ \E m \in c.modes[g] :
           IF m.operand = {} THEN p = Panic
           ELSE \E t \in m.operand :
             IF ExtractVectorType(t) = {} THEN p = Panic
             ELSE \E lane \in ExtractVectorType(t) :
               p \in Try(<<lane>>, Same(t), IsLaneOf(lane, t))
  <2>1. \/ p = None
        \/ \E m \in c.modes[g] :
             p \in Draw(m.operand, LAMBDA t : Draw(ExtractVectorType(t), LAMBDA lane :
                      Try(<<lane>>, Same(t), IsLaneOf(lane, t))))
    BY Zenon DEF ScalarToVector, OnOperand, InMode
  <2>2. ASSUME NEW S, p \in Draw(S, LAMBDA t : Draw(ExtractVectorType(t), LAMBDA lane :
                               Try(<<lane>>, Same(t), IsLaneOf(lane, t))))
        PROVE  IF S = {} THEN p = Panic
               ELSE \E t \in S : IF ExtractVectorType(t) = {} THEN p = Panic
                    ELSE \E lane \in ExtractVectorType(t) :
                           p \in Try(<<lane>>, Same(t), IsLaneOf(lane, t))
    BY <2>2 DEF Draw
  <2> QED BY <2>1, <2>2, Zenon
<1>2. g \in Groups \ NoOperandDrawn BY DEF Groups, NoOperandDrawn
<1>3. CASE p = None BY <1>3, NoneChecked
<1>4. CASE p = Panic /\ \E m \in c.modes[g] : m.operand = {}
  BY <1>2, <1>4, EmptyChecked
<1>5. ASSUME NEW m \in c.modes[g], NEW t \in m.operand,
             IF ExtractVectorType(t) = {} THEN p = Panic
             ELSE \E lane \in ExtractVectorType(t) :
               p \in Try(<<lane>>, Same(t), IsLaneOf(lane, t))
      PROVE  Checked(c, p)
  <2>1. t \in OperandTypes(c, g) BY DEF OperandTypes
  <2>2. t \in Types BY <1>2, ListedTypes
  <2>3. CASE ExtractVectorType(t) = {} /\ p = Panic
    <3>1. t.lanes = 1 BY <2>3 DEF ExtractVectorType
    <3>2. ~Covers(c) BY <2>1, <3>1, Zenon DEF Covers
    <3> QED BY <2>3, <3>2, PanicChecked DEF Panic
  <2>4. ASSUME NEW lane \in ExtractVectorType(t),
               p \in Try(<<lane>>, Same(t), IsLaneOf(lane, t))
        PROVE  Checked(c, p)
    <3>1. lane = LaneOf(t) /\ t.lanes # 1 BY DEF ExtractVectorType
    <3>2. IsLaneOf(lane, t) BY <3>1 DEF IsLaneOf
    <3> QED BY <2>4, <3>2, TryTyped, Zenon DEF Same
  <2> QED BY <1>5, <2>3, <2>4, Zenon
<1> QED BY <1>1, <1>3, <1>4, <1>5

\* The tests of vectors record an i8.
LEMMA VtestChecked ==
  ASSUME NEW c, IsConfig(c), NEW p \in Vtest(c)
  PROVE  Checked(c, p)
<1> DEFINE g == "vtest"
<1>1. \/ p = None
      \/ \E m \in c.modes[g] :
           IF m.operand = {} THEN p = Panic
           ELSE \E t \in m.operand :
                  p \in Must(<<t>>, Same(I(8)), IsVector(t))
  <2>1. \/ p = None
        \/ \E m \in c.modes[g] : p \in Draw(m.operand, LAMBDA t :
                      Must(<<t>>, Same(I(8)), IsVector(t)))
    BY Zenon DEF Vtest, OnOperand, InMode
  <2>2. ASSUME NEW S, p \in Draw(S, LAMBDA t :
                      Must(<<t>>, Same(I(8)), IsVector(t)))
        PROVE  IF S = {} THEN p = Panic
               ELSE \E t \in S : p \in Must(<<t>>, Same(I(8)), IsVector(t))
    BY <2>2 DEF Draw
  <2> QED BY <2>1, <2>2, Zenon
<1>2. g \in Groups \ NoOperandDrawn BY DEF Groups, NoOperandDrawn
<1>3. CASE p = None BY <1>3, NoneChecked
<1>4. CASE p = Panic /\ \E m \in c.modes[g] : m.operand = {}
  BY <1>2, <1>4, EmptyChecked
<1>5. ASSUME NEW m \in c.modes[g], NEW t \in m.operand,
             p \in Must(<<t>>, Same(I(8)), IsVector(t))
      PROVE  Checked(c, p)
  <2>1. t \in OperandTypes(c, g) BY DEF OperandTypes
  <2>2. t \in Types BY <1>2, ListedTypes
  <2>3. Covers(c) => t \in ConstantTypes(c) BY <2>1 DEF Covers, Unwrapped
  <2>4. ListsGoTogether(c) => IsVector(t) BY <2>1 DEF ListsGoTogether
  <2> QED BY <1>5, <2>3, <2>4, MustOne DEF Same
<1> QED BY <1>1, <1>3, <1>4, <1>5, Zenon

\* vhigh_bits records an integer as wide as a lane.
LEMMA VhighBitsChecked ==
  ASSUME NEW c, IsConfig(c), NEW p \in VhighBits(c)
  PROVE  Checked(c, p)
<1> DEFINE g == "vhigh_bits"
<1>1. \/ p = None
      \/ \E m \in c.modes[g] :
           IF m.operand = {} THEN p = Panic
           ELSE \E t \in m.operand :
             p = None \/ p \in Try(<<t>>, Same(I(t.bits)), AnyTypes)
  <2>1. \/ p = None
        \/ \E m \in c.modes[g] :
             p \in Draw(m.operand, LAMBDA t :
               IF t \notin {IX(8), IX(16), IX(32), IX(64)} THEN {None}
               ELSE Try(<<t>>, Same(I(t.bits)), AnyTypes))
    BY Zenon DEF VhighBits, OnOperand, InMode
  <2>2. ASSUME NEW S,
               p \in Draw(S, LAMBDA t :
               IF t \notin {IX(8), IX(16), IX(32), IX(64)} THEN {None}
               ELSE Try(<<t>>, Same(I(t.bits)), AnyTypes))
        PROVE  IF S = {} THEN p = Panic
               ELSE \E t \in S :
             p = None \/ p \in Try(<<t>>, Same(I(t.bits)), AnyTypes)
    BY <2>2 DEF Draw
  <2> QED BY <2>1, <2>2, Zenon
<1>2. g \in Groups \ NoOperandDrawn BY DEF Groups, NoOperandDrawn
<1>3. CASE p = None BY <1>3, NoneChecked
<1>4. CASE p = Panic /\ \E m \in c.modes[g] : m.operand = {}
  BY <1>2, <1>4, EmptyChecked
<1>5. ASSUME NEW m \in c.modes[g], NEW t \in m.operand,
             p = None \/ p \in Try(<<t>>, Same(I(t.bits)), AnyTypes)
      PROVE  Checked(c, p)
  <2>1. t \in OperandTypes(c, g) BY DEF OperandTypes
  <2>2. t \in Types BY <1>2, ListedTypes
  <2>3. CASE p = None BY <2>3, NoneChecked
  <2>4. CASE p \in Try(<<t>>, Same(I(t.bits)), AnyTypes)
    BY <2>4, TryTyped, Zenon DEF Same, AnyTypes
  <2> QED BY <1>5, <2>3, <2>4
<1> QED BY <1>1, <1>3, <1>4, <1>5, Zenon

\* The unary integer operations look for their operand.
LEMMA IntUnaryChecked ==
  ASSUME NEW c, IsConfig(c), NEW p \in IntUnary(c)
  PROVE  Checked(c, p)
<1> DEFINE g == "int_unary"
<1>1. \/ p = None
      \/ \E m \in c.modes[g] :
           IF m.operand = {} THEN p = Panic
           ELSE \E t \in m.operand : p \in Try(<<t>>, Same(t), AnyTypes)
  <2>1. \/ p = None
        \/ \E m \in c.modes[g] : p \in Draw(m.operand, LAMBDA t :
                      Try(<<t>>, Same(t), AnyTypes))
    BY Zenon DEF IntUnary, OnOperand, InMode
  <2>2. ASSUME NEW S, p \in Draw(S, LAMBDA t :
                      Try(<<t>>, Same(t), AnyTypes))
        PROVE  IF S = {} THEN p = Panic
               ELSE \E t \in S : p \in Try(<<t>>, Same(t), AnyTypes)
    BY <2>2 DEF Draw
  <2> QED BY <2>1, <2>2, Zenon
<1>2. g \in Groups \ NoOperandDrawn BY DEF Groups, NoOperandDrawn
<1>3. CASE p = None BY <1>3, NoneChecked
<1>4. CASE p = Panic /\ \E m \in c.modes[g] : m.operand = {}
  BY <1>2, <1>4, EmptyChecked
<1>5. ASSUME NEW m \in c.modes[g], NEW t \in m.operand,
             p \in Try(<<t>>, Same(t), AnyTypes)
      PROVE  Checked(c, p)
  <2>1. t \in OperandTypes(c, g) BY DEF OperandTypes
  <2>2. t \in Types BY <1>2, ListedTypes
  <2> QED BY <1>5, TryTyped, Zenon DEF Same, AnyTypes
<1> QED BY <1>1, <1>3, <1>4, <1>5, Zenon

\* The unary float operations unwrap a float of a listed type.
LEMMA FloatUnaryChecked ==
  ASSUME NEW c, IsConfig(c), NEW p \in FloatUnary(c)
  PROVE  Checked(c, p)
<1> DEFINE g == "float_unary"
<1>1. \/ p = None
      \/ \E m \in c.modes[g] :
           IF m.operand = {} THEN p = Panic
           ELSE \E t \in m.operand : p \in Must(<<t>>, Same(t), HasKind(t, "f"))
  <2>1. \/ p = None
        \/ \E m \in c.modes[g] : p \in Draw(m.operand, LAMBDA t :
                      Must(<<t>>, Same(t), HasKind(t, "f")))
    BY Zenon DEF FloatUnary, OnOperand, InMode
  <2>2. ASSUME NEW S, p \in Draw(S, LAMBDA t :
                      Must(<<t>>, Same(t), HasKind(t, "f")))
        PROVE  IF S = {} THEN p = Panic
               ELSE \E t \in S : p \in Must(<<t>>, Same(t), HasKind(t, "f"))
    BY <2>2 DEF Draw
  <2> QED BY <2>1, <2>2, Zenon
<1>2. g \in Groups \ NoOperandDrawn BY DEF Groups, NoOperandDrawn
<1>3. CASE p = None BY <1>3, NoneChecked
<1>4. CASE p = Panic /\ \E m \in c.modes[g] : m.operand = {}
  BY <1>2, <1>4, EmptyChecked
<1>5. ASSUME NEW m \in c.modes[g], NEW t \in m.operand,
             p \in Must(<<t>>, Same(t), HasKind(t, "f"))
      PROVE  Checked(c, p)
  <2>1. t \in OperandTypes(c, g) BY DEF OperandTypes
  <2>2. t \in Types BY <1>2, ListedTypes
  <2>3. Covers(c) => t \in ConstantTypes(c) BY <2>1, Zenon DEF Covers, Unwrapped
  <2>4. ListsGoTogether(c) => HasKind(t, "f") BY <2>1 DEF ListsGoTogether
  <2> QED BY <1>5, <2>3, <2>4, MustOne DEF Same
<1> QED BY <1>1, <1>3, <1>4, <1>5, Zenon

\* ireduce finds a wider operand, of a type there are constants of.
LEMMA IreduceChecked ==
  ASSUME NEW c, IsConfig(c), NEW p \in Ireduce(c)
  PROVE  Checked(c, p)
<1> DEFINE g == "ireduce"
<1>1. \/ p = None
      \/ \E m \in c.modes[g] :
           IF m.operand = {} THEN p = Panic
           ELSE \E t \in m.operand :
             IF ReduceFrom(t) = {} THEN p = Panic
             ELSE \E from \in ReduceFrom(t) :
                    p \in Must(<<from>>, Same(t), Wider(from, t))
  <2>1. \/ p = None
        \/ \E m \in c.modes[g] :
             p \in Draw(m.operand, LAMBDA t : Draw(ReduceFrom(t), LAMBDA from :
                      Must(<<from>>, Same(t), Wider(from, t))))
    BY Zenon DEF Ireduce, OnOperand, InMode
  <2>2. ASSUME NEW S, p \in Draw(S, LAMBDA t : Draw(ReduceFrom(t), LAMBDA from :
                               Must(<<from>>, Same(t), Wider(from, t))))
        PROVE  IF S = {} THEN p = Panic
               ELSE \E t \in S : IF ReduceFrom(t) = {} THEN p = Panic
                    ELSE \E from \in ReduceFrom(t) :
                           p \in Must(<<from>>, Same(t), Wider(from, t))
    BY <2>2 DEF Draw
  <2> QED BY <2>1, <2>2, Zenon
<1>2. g \in Groups \ NoOperandDrawn BY DEF Groups, NoOperandDrawn
<1>3. CASE p = None BY <1>3, NoneChecked
<1>4. CASE p = Panic /\ \E m \in c.modes[g] : m.operand = {}
  BY <1>2, <1>4, EmptyChecked
<1>5. ASSUME NEW m \in c.modes[g], NEW t \in m.operand,
             IF ReduceFrom(t) = {} THEN p = Panic
             ELSE \E from \in ReduceFrom(t) :
                    p \in Must(<<from>>, Same(t), Wider(from, t))
      PROVE  Checked(c, p)
  <2>1. t \in OperandTypes(c, g) BY DEF OperandTypes
  <2>2. t \in Types BY <1>2, ListedTypes
  <2>3. CASE ReduceFrom(t) = {} /\ p = Panic
    <3>1. ~Covers(c) BY <2>1, <2>3, Zenon DEF Covers
    <3> QED BY <2>3, <3>1, PanicChecked DEF Panic
  <2>4. ASSUME NEW from \in ReduceFrom(t),
               p \in Must(<<from>>, Same(t), Wider(from, t))
        PROVE  Checked(c, p)
    <3>1. Covers(c) => from \in ConstantTypes(c) BY <2>1 DEF Covers
    <3>2. Wider(from, t) BY DEF Wider, ReduceFrom, I, Scalar
    <3> QED BY <2>4, <3>1, <3>2, MustOne, Zenon DEF Same
  <2> QED BY <1>5, <2>3, <2>4, Zenon
<1> QED BY <1>1, <1>3, <1>4, <1>5, Zenon

\* The widenings of half the lanes find an operand with lanes of half the width.
LEMMA WidenChecked ==
  ASSUME NEW c, IsConfig(c), NEW p \in Widen(c)
  PROVE  Checked(c, p)
<1> DEFINE g == "widen"
<1>1. \/ p = None
      \/ \E m \in c.modes[g] :
           IF m.operand = {} THEN p = Panic
           ELSE \E t \in m.operand :
             IF WidenFrom(t) = {} THEN p = Panic
             ELSE \E from \in WidenFrom(t) :
                    p \in Must(<<from>>, Typed(t, MergeLanes(from)),
                                   AnyTypes)
  <2>1. \/ p = None
        \/ \E m \in c.modes[g] :
             p \in Draw(m.operand, LAMBDA t : Draw(WidenFrom(t), LAMBDA from :
                      Must(<<from>>, Typed(t, MergeLanes(from)), AnyTypes)))
    BY Zenon DEF Widen, OnOperand, InMode
  <2>2. ASSUME NEW S, p \in Draw(S, LAMBDA t : Draw(WidenFrom(t), LAMBDA from :
                               Must(<<from>>, Typed(t, MergeLanes(from)), AnyTypes)))
        PROVE  IF S = {} THEN p = Panic
               ELSE \E t \in S : IF WidenFrom(t) = {} THEN p = Panic
                    ELSE \E from \in WidenFrom(t) :
                           p \in Must(<<from>>, Typed(t, MergeLanes(from)), AnyTypes)
    BY <2>2 DEF Draw
  <2> QED BY <2>1, <2>2, Zenon
<1>2. g \in Groups \ NoOperandDrawn BY DEF Groups, NoOperandDrawn
<1>3. CASE p = None BY <1>3, NoneChecked
<1>4. CASE p = Panic /\ \E m \in c.modes[g] : m.operand = {}
  BY <1>2, <1>4, EmptyChecked
<1>5. ASSUME NEW m \in c.modes[g], NEW t \in m.operand,
             IF WidenFrom(t) = {} THEN p = Panic
             ELSE \E from \in WidenFrom(t) :
                    p \in Must(<<from>>, Typed(t, MergeLanes(from)),
                                   AnyTypes)
      PROVE  Checked(c, p)
  <2>1. t \in OperandTypes(c, g) BY DEF OperandTypes
  <2>2. t \in Types BY <1>2, ListedTypes
  <2>3. CASE WidenFrom(t) = {} /\ p = Panic
    <3>1. ~Covers(c) BY <2>1, <2>3, Zenon DEF Covers
    <3> QED BY <2>3, <3>1, PanicChecked DEF Panic
  <2>4. ASSUME NEW from \in WidenFrom(t),
               p \in Must(<<from>>, Typed(t, MergeLanes(from)), AnyTypes)
        PROVE  Checked(c, p)
    <3>1. Covers(c) => from \in ConstantTypes(c) BY <2>1, Zenon DEF Covers
    <3>2. MergeLanes(from) = t BY WidenedType
    <3> QED BY <2>4, <3>1, <3>2, MustOne, Zenon DEF AnyTypes
  <2> QED BY <1>5, <2>3, <2>4, Zenon
<1> QED BY <1>1, <1>3, <1>4, <1>5

\* The extensions find a narrower operand, of a type there are constants of.
LEMMA ExtendChecked ==
  ASSUME NEW c, IsConfig(c), NEW p \in Extend(c)
  PROVE  Checked(c, p)
<1> DEFINE g == "extend"
<1>1. \/ p = None
      \/ \E m \in c.modes[g] :
           IF m.operand = {} THEN p = Panic
           ELSE \E t \in m.operand :
             IF ExtendFrom(t) = {} THEN p = Panic
             ELSE \E from \in ExtendFrom(t) :
                    p \in Must(<<from>>, Same(t), Wider(t, from))
  <2>1. \/ p = None
        \/ \E m \in c.modes[g] :
             p \in Draw(m.operand, LAMBDA t : Draw(ExtendFrom(t), LAMBDA from :
                      Must(<<from>>, Same(t), Wider(t, from))))
    BY Zenon DEF Extend, OnOperand, InMode
  <2>2. ASSUME NEW S, p \in Draw(S, LAMBDA t : Draw(ExtendFrom(t), LAMBDA from :
                               Must(<<from>>, Same(t), Wider(t, from))))
        PROVE  IF S = {} THEN p = Panic
               ELSE \E t \in S : IF ExtendFrom(t) = {} THEN p = Panic
                    ELSE \E from \in ExtendFrom(t) :
                           p \in Must(<<from>>, Same(t), Wider(t, from))
    BY <2>2 DEF Draw
  <2> QED BY <2>1, <2>2, Zenon
<1>2. g \in Groups \ NoOperandDrawn BY DEF Groups, NoOperandDrawn
<1>3. CASE p = None BY <1>3, NoneChecked
<1>4. CASE p = Panic /\ \E m \in c.modes[g] : m.operand = {}
  BY <1>2, <1>4, EmptyChecked
<1>5. ASSUME NEW m \in c.modes[g], NEW t \in m.operand,
             IF ExtendFrom(t) = {} THEN p = Panic
             ELSE \E from \in ExtendFrom(t) :
                    p \in Must(<<from>>, Same(t), Wider(t, from))
      PROVE  Checked(c, p)
  <2>1. t \in OperandTypes(c, g) BY DEF OperandTypes
  <2>2. t \in Types BY <1>2, ListedTypes
  <2>3. CASE ExtendFrom(t) = {} /\ p = Panic
    <3>1. ~Covers(c) BY <2>1, <2>3, Zenon DEF Covers
    <3> QED BY <2>3, <3>1, PanicChecked DEF Panic
  <2>4. ASSUME NEW from \in ExtendFrom(t),
               p \in Must(<<from>>, Same(t), Wider(t, from))
        PROVE  Checked(c, p)
    <3>1. Covers(c) => from \in ConstantTypes(c) BY <2>1, Zenon DEF Covers
    <3>2. Wider(t, from) BY DEF Wider, ExtendFrom, I, Scalar
    <3> QED BY <2>4, <3>1, <3>2, MustOne, Zenon DEF Same
  <2> QED BY <1>5, <2>3, <2>4, Zenon
<1> QED BY <1>1, <1>3, <1>4, <1>5, Zenon

\* fcvt_to_uint and fcvt_to_sint record the integer they convert to.
LEMMA FcvtToIntChecked ==
  ASSUME NEW c, IsConfig(c), NEW p \in FcvtToInt(c)
  PROVE  Checked(c, p)
<1> DEFINE g == "fcvt_to_int"
<1>1. \/ p = None
      \/ \E m \in c.modes[g] :
           IF m.operand = {} THEN p = Panic
           ELSE \E t \in m.operand :
                  p \in Convert(t, {F(32), F(64)}, WithKind(t, "i"))
  <2>1. \/ p = None
        \/ \E m \in c.modes[g] :
             p \in Draw(m.operand, LAMBDA t : Convert(t, {F(32), F(64)}, WithKind(t, "i")))
    BY Zenon DEF FcvtToInt, OnOperand, InMode
  <2>2. ASSUME NEW S, p \in Draw(S, LAMBDA t :
                      Convert(t, {F(32), F(64)}, WithKind(t, "i")))
        PROVE  IF S = {} THEN p = Panic
               ELSE \E t \in S : p \in Convert(t, {F(32), F(64)}, WithKind(t, "i"))
    BY <2>2 DEF Draw
  <2> QED BY <2>1, <2>2, Zenon
<1>2. g \in Groups \ NoOperandDrawn BY DEF Groups, NoOperandDrawn
<1>3. CASE p = None BY <1>3, NoneChecked
<1>4. CASE p = Panic /\ \E m \in c.modes[g] : m.operand = {}
  BY <1>2, <1>4, EmptyChecked
<1>5. ASSUME NEW m \in c.modes[g], NEW t \in m.operand,
             p \in Convert(t, {F(32), F(64)}, WithKind(t, "i"))
      PROVE  Checked(c, p)
  <2>1. t \in OperandTypes(c, g) BY DEF OperandTypes
  <2>2. t \in Types BY <1>2, ListedTypes
  <2>3. Covers(c) => t \in ConstantTypes(c) BY <2>1, Zenon DEF Covers, Unwrapped
  <2> QED BY <1>5, <2>2, <2>3, ConvertChecked
<1> QED BY <1>1, <1>3, <1>4, <1>5, Zenon

\* The saturating conversions keep the number of lanes.
LEMMA FcvtToIntSatChecked ==
  ASSUME NEW c, IsConfig(c), NEW p \in FcvtToIntSat(c)
  PROVE  Checked(c, p)
<1> DEFINE g == "fcvt_to_int_sat"
<1>1. \/ p = None
      \/ \E m \in c.modes[g] :
           IF m.operand = {} THEN p = Panic
           ELSE \E t \in m.operand :
                  p \in Convert(t, {F(32), F(64), FX(32), FX(64)},
                                    WithKind(t, "i"))
  <2>1. \/ p = None
        \/ \E m \in c.modes[g] :
             p \in Draw(m.operand,
                            LAMBDA t : Convert(t,
                                                   {F(32), F(64), FX(32),
                                                    FX(64)}, WithKind(t, "i")))
    BY Zenon DEF FcvtToIntSat, OnOperand, InMode
  <2>2. ASSUME NEW S,
               p \in Draw(S,
                              LAMBDA t : Convert(t,
                                                     {F(32), F(64), FX(32),
                                                      FX(64)}, WithKind(t, "i")))
        PROVE  IF S = {} THEN p = Panic
               ELSE \E t \in S :
                 p \in Convert(t, {F(32), F(64), FX(32), FX(64)},
                                   WithKind(t, "i"))
    BY <2>2 DEF Draw
  <2> QED BY <2>1, <2>2, Zenon
<1>2. g \in Groups \ NoOperandDrawn BY DEF Groups, NoOperandDrawn
<1>3. CASE p = None BY <1>3, NoneChecked
<1>4. CASE p = Panic /\ \E m \in c.modes[g] : m.operand = {}
  BY <1>2, <1>4, EmptyChecked
<1>5. ASSUME NEW m \in c.modes[g], NEW t \in m.operand,
             p \in Convert(t, {F(32), F(64), FX(32), FX(64)},
                               WithKind(t, "i"))
      PROVE  Checked(c, p)
  <2>1. t \in OperandTypes(c, g) BY DEF OperandTypes
  <2>2. t \in Types BY <1>2, ListedTypes
  <2>3. Covers(c) => t \in ConstantTypes(c) BY <2>1, Zenon DEF Covers, Unwrapped
  <2> QED BY <1>5, <2>2, <2>3, ConvertChecked
<1> QED BY <1>1, <1>3, <1>4, <1>5, Zenon

\* The conversions from integers keep the number of lanes.
LEMMA FcvtFromIntChecked ==
  ASSUME NEW c, IsConfig(c), NEW p \in FcvtFromInt(c)
  PROVE  Checked(c, p)
<1> DEFINE g == "fcvt_from_int"
<1>1. \/ p = None
      \/ \E m \in c.modes[g] :
           IF m.operand = {} THEN p = Panic
           ELSE \E t \in m.operand :
                  p \in Convert(t, {I(32), I(64), IX(32), IX(64)},
                                    WithKind(t, "f"))
  <2>1. \/ p = None
        \/ \E m \in c.modes[g] :
             p \in Draw(m.operand,
                            LAMBDA t : Convert(t,
                                                   {I(32), I(64), IX(32),
                                                    IX(64)}, WithKind(t, "f")))
    BY Zenon DEF FcvtFromInt, OnOperand, InMode
  <2>2. ASSUME NEW S,
               p \in Draw(S,
                              LAMBDA t : Convert(t,
                                                     {I(32), I(64), IX(32),
                                                      IX(64)}, WithKind(t, "f")))
        PROVE  IF S = {} THEN p = Panic
               ELSE \E t \in S :
                 p \in Convert(t, {I(32), I(64), IX(32), IX(64)},
                                   WithKind(t, "f"))
    BY <2>2 DEF Draw
  <2> QED BY <2>1, <2>2, Zenon
<1>2. g \in Groups \ NoOperandDrawn BY DEF Groups, NoOperandDrawn
<1>3. CASE p = None BY <1>3, NoneChecked
<1>4. CASE p = Panic /\ \E m \in c.modes[g] : m.operand = {}
  BY <1>2, <1>4, EmptyChecked
<1>5. ASSUME NEW m \in c.modes[g], NEW t \in m.operand,
             p \in Convert(t, {I(32), I(64), IX(32), IX(64)},
                               WithKind(t, "f"))
      PROVE  Checked(c, p)
  <2>1. t \in OperandTypes(c, g) BY DEF OperandTypes
  <2>2. t \in Types BY <1>2, ListedTypes
  <2>3. Covers(c) => t \in ConstantTypes(c) BY <2>1, Zenon DEF Covers, Unwrapped
  <2> QED BY <1>5, <2>2, <2>3, ConvertChecked
<1> QED BY <1>1, <1>3, <1>4, <1>5, Zenon

\* isplit records the half of the integer it splits.
LEMMA IsplitChecked ==
  ASSUME NEW c, IsConfig(c), NEW p \in Isplit(c)
  PROVE  Checked(c, p)
<1> DEFINE g == "isplit"
<1>1. \/ p = None
      \/ \E m \in c.modes[g] :
           IF m.operand = {} THEN p = Panic
           ELSE \E t \in m.operand :
             IF t.bits = 8 \/ t \in {F(16), FX(16)} THEN p = None
             ELSE p \in Try(<<t>>, Same(HalfWidth(t)), IsInt(t))
  <2>1. \/ p = None
        \/ \E m \in c.modes[g] :
             p \in Draw(m.operand, LAMBDA t :
               IF t.bits = 8 \/ t \in {F(16), FX(16)} THEN {None}
               ELSE Try(<<t>>, Same(HalfWidth(t)), IsInt(t)))
    BY Zenon DEF Isplit, OnOperand, InMode
  <2>2. ASSUME NEW S,
               p \in Draw(S, LAMBDA t :
               IF t.bits = 8 \/ t \in {F(16), FX(16)} THEN {None}
               ELSE Try(<<t>>, Same(HalfWidth(t)), IsInt(t)))
        PROVE  IF S = {} THEN p = Panic
               ELSE \E t \in S :
             IF t.bits = 8 \/ t \in {F(16), FX(16)} THEN p = None
             ELSE p \in Try(<<t>>, Same(HalfWidth(t)), IsInt(t))
    BY <2>2 DEF Draw
  <2> QED BY <2>1, <2>2, Zenon
<1>2. g \in Groups \ NoOperandDrawn BY DEF Groups, NoOperandDrawn
<1>3. CASE p = None BY <1>3, NoneChecked
<1>4. CASE p = Panic /\ \E m \in c.modes[g] : m.operand = {}
  BY <1>2, <1>4, EmptyChecked
<1>5. ASSUME NEW m \in c.modes[g], NEW t \in m.operand,
             IF t.bits = 8 \/ t \in {F(16), FX(16)} THEN p = None
             ELSE p \in Try(<<t>>, Same(HalfWidth(t)), IsInt(t))
      PROVE  Checked(c, p)
  <2>1. t \in OperandTypes(c, g) BY DEF OperandTypes
  <2>2. t \in Types BY <1>2, ListedTypes
  <2>3. CASE p = None BY <2>3, NoneChecked
  <2>4. CASE ~(t.bits = 8 \/ t \in {F(16), FX(16)})
             /\ p \in Try(<<t>>, Same(HalfWidth(t)), IsInt(t))
    <3>1. ListsGoTogether(c) => IsInt(t) BY <2>1, <2>4 DEF ListsGoTogether
    <3> QED BY <2>4, <3>1, TryTyped, Zenon DEF Same
  <2> QED BY <1>5, <2>3, <2>4
<1> QED BY <1>1, <1>3, <1>4, <1>5, Zenon

\* The additions with carry look for two integers and a flag.
LEMMA CarryChecked ==
  ASSUME NEW c, IsConfig(c), NEW p \in Carry(c)
  PROVE  Checked(c, p)
<1> DEFINE g == "carry"
<1>1. \/ p = None
      \/ \E m \in c.modes[g] :
           IF m.operand = {} THEN p = Panic
           ELSE \E t \in m.operand :
                  p \in Try(<<t, t, I(8)>>, Same(t), IsInt(t))
  <2>1. \/ p = None
        \/ \E m \in c.modes[g] : p \in Draw(m.operand, LAMBDA t :
                      Try(<<t, t, I(8)>>, Same(t), IsInt(t)))
    BY Zenon DEF Carry, OnOperand, InMode
  <2>2. ASSUME NEW S, p \in Draw(S, LAMBDA t :
                      Try(<<t, t, I(8)>>, Same(t), IsInt(t)))
        PROVE  IF S = {} THEN p = Panic
               ELSE \E t \in S : p \in Try(<<t, t, I(8)>>, Same(t), IsInt(t))
    BY <2>2 DEF Draw
  <2> QED BY <2>1, <2>2, Zenon
<1>2. g \in Groups \ NoOperandDrawn BY DEF Groups, NoOperandDrawn
<1>3. CASE p = None BY <1>3, NoneChecked
<1>4. CASE p = Panic /\ \E m \in c.modes[g] : m.operand = {}
  BY <1>2, <1>4, EmptyChecked
<1>5. ASSUME NEW m \in c.modes[g], NEW t \in m.operand,
             p \in Try(<<t, t, I(8)>>, Same(t), IsInt(t))
      PROVE  Checked(c, p)
  <2>1. t \in OperandTypes(c, g) BY DEF OperandTypes
  <2>2. t \in Types BY <1>2, ListedTypes
  <2>3. ListsGoTogether(c) => IsInt(t) BY <2>1 DEF ListsGoTogether
  <2> QED BY <1>5, <2>3, TryTyped, Zenon DEF Same
<1> QED BY <1>1, <1>3, <1>4, <1>5, Zenon

\* shuffle takes and records vectors of bytes.
LEMMA ShuffleChecked ==
  ASSUME NEW c, IsConfig(c), NEW p \in Shuffle(c)
  PROVE  Checked(c, p)
<1> DEFINE g == "shuffle"
<1>1. \/ p = None
      \/ \E m \in c.modes[g] :
           IF m.operand = {} THEN p = Panic
           ELSE \E t \in m.operand :
                  p \in Try(<<t, t>>, Typed(IX(8), t), IsBytes(t))
  <2>1. \/ p = None
        \/ \E m \in c.modes[g] : p \in Draw(m.operand, LAMBDA t :
                      Try(<<t, t>>, Typed(IX(8), t), IsBytes(t)))
    BY Zenon DEF Shuffle, OnOperand, InMode
  <2>2. ASSUME NEW S, p \in Draw(S, LAMBDA t :
                      Try(<<t, t>>, Typed(IX(8), t), IsBytes(t)))
        PROVE  IF S = {} THEN p = Panic
               ELSE \E t \in S : p \in Try(<<t, t>>, Typed(IX(8), t), IsBytes(t))
    BY <2>2 DEF Draw
  <2> QED BY <2>1, <2>2, Zenon
<1>2. CASE p = None BY <1>2, NoneChecked
<1>3. CASE p = Panic /\ \E m \in c.modes[g] : m.operand = {}
  <2>1. g \in Groups \ NoOperandDrawn BY DEF Groups, NoOperandDrawn
  <2> QED BY <1>3, <2>1, EmptyChecked
<1>4. ASSUME NEW m \in c.modes[g], NEW t \in m.operand,
             p \in Try(<<t, t>>, Typed(IX(8), t), IsBytes(t))
      PROVE  Checked(c, p)
  <2>1. t \in OperandTypes(c, g) BY DEF OperandTypes
  <2>2. RecordsTruly(c) => t = IX(8) BY <2>1 DEF RecordsTruly
  <2>3. ListsGoTogether(c) => IsBytes(t)
    BY <2>1 DEF ListsGoTogether, IsBytes
  <2> QED BY <1>4, <2>2, <2>3, TryTyped
<1> QED BY <1>1, <1>2, <1>3, <1>4, Zenon

\* The arms that read the other lists of the mode, or none.
LEMMA LoadFixedChecked ==
  ASSUME NEW c, NEW p \in LoadFixed(c)
  PROVE  Checked(c, p)
<1>1. p = None \/ \E t : p \in Try(<<>>, Same(t), AnyTypes)
  <2>1. \/ p = None
        \/ \E m \in c.modes["load_fixed"] :
             p \in UNION {Try(<<>>, Same(t), AnyTypes) :
                            t \in {I(64), IX(16), IX(32), IX(64)}}
    BY DEF LoadFixed, InMode
  <2> QED BY <2>1
<1> QED BY <1>1, NoneChecked, TryTyped, Zenon DEF Same, AnyTypes

\* The addresses of symbols and slots are i64.
LEMMA AddressChecked ==
  ASSUME NEW c, NEW p \in Address(c)
  PROVE  Checked(c, p)
<1>1. p = None \/ p \in Try(<<>>, Same(I(64)), AnyTypes)
  BY DEF Address, InMode
<1> QED BY <1>1, NoneChecked, TryTyped, Zenon DEF Same, AnyTypes

\* select finds its control value among the constants.
LEMMA SelectChecked ==
  ASSUME NEW c, NEW p \in Select(c)
  PROVE  Checked(c, p)
<1>1. \/ p = None
      \/ \E m \in c.modes["select"] :
           IF m.arg0 = {} THEN p = Panic
           ELSE \E a \in m.arg0 : \E t \in m.arg0 :
                  p \in Must(<<a, t, t>>, Same(t), IsInt(a))
  <2>1. \/ p = None
        \/ \E m \in c.modes["select"] :
             p \in Draw(m.arg0, LAMBDA a : Draw(m.arg0, LAMBDA t :
                      Must(<<a, t, t>>, Same(t), IsInt(a))))
    BY Zenon DEF Select, InMode
  <2>2. ASSUME NEW S, p \in Draw(S, LAMBDA a : Draw(S, LAMBDA t :
                               Must(<<a, t, t>>, Same(t), IsInt(a))))
        PROVE  IF S = {} THEN p = Panic
               ELSE \E a \in S : \E t \in S : p \in Must(<<a, t, t>>, Same(t), IsInt(a))
    BY <2>2 DEF Draw
  <2> QED BY <2>1, <2>2, Zenon
<1>2. CASE p = None BY <1>2, NoneChecked
<1>3. CASE p = Panic /\ \E m \in c.modes["select"] : m.arg0 = {}
  <2>1. ~Covers(c) BY <1>3 DEF Covers
  <2> QED BY <1>3, <2>1, PanicChecked DEF Panic
<1>4. ASSUME NEW m \in c.modes["select"], NEW a \in m.arg0, NEW t \in m.arg0,
             p \in Must(<<a, t, t>>, Same(t), IsInt(a))
      PROVE  Checked(c, p)
  <2>1. a \in Arg0Types(c, "select") /\ t \in Arg0Types(c, "select")
    BY DEF Arg0Types
  <2>2. Covers(c) => a \in ConstantTypes(c) /\ t \in ConstantTypes(c)
    BY <2>1, Zenon DEF Covers
  <2>3. ListsGoTogether(c) => IsInt(a) BY <2>1, Zenon DEF ListsGoTogether
  <2> QED BY <1>4, <2>2, <2>3, MustThree, Zenon DEF Same
<1> QED BY <1>1, <1>2, <1>3, <1>4, Zenon

\* bmask finds its operand among the constants, and records what it masks to.
LEMMA BmaskChecked ==
  ASSUME NEW c, NEW p \in Bmask(c)
  PROVE  Checked(c, p)
<1>1. \/ p = None
      \/ \E m \in c.modes["bmask"] :
           IF m.arg0 = {} THEN p = Panic
           ELSE \E to \in m.arg0 :
             IF m.arg1 = {} THEN p = Panic
             ELSE \E from \in m.arg1 :
                    p \in Must(<<from>>, Same(to), HasKind(to, "i"))
  <2>1. \/ p = None
        \/ \E m \in c.modes["bmask"] :
             p \in Draw(m.arg0, LAMBDA to : Draw(m.arg1, LAMBDA from :
                      Must(<<from>>, Same(to), HasKind(to, "i"))))
    BY Zenon DEF Bmask, InMode
  <2>2. ASSUME NEW S, NEW U,
               p \in Draw(S, LAMBDA to : Draw(U, LAMBDA from :
                        Must(<<from>>, Same(to), HasKind(to, "i"))))
        PROVE  IF S = {} THEN p = Panic
               ELSE \E to \in S : IF U = {} THEN p = Panic
                    ELSE \E from \in U : p \in Must(<<from>>, Same(to), HasKind(to, "i"))
    BY <2>2 DEF Draw
  <2> QED BY <2>1, <2>2, Zenon
<1>2. CASE p = None BY <1>2, NoneChecked
<1>3. CASE p = Panic /\ \E m \in c.modes["bmask"] : m.arg0 = {} \/ m.arg1 = {}
  <2>1. ~Covers(c) BY <1>3, Zenon DEF Covers
  <2> QED BY <1>3, <2>1, PanicChecked DEF Panic
<1>4. ASSUME NEW m \in c.modes["bmask"], NEW to \in m.arg0, NEW from \in m.arg1,
             p \in Must(<<from>>, Same(to), HasKind(to, "i"))
      PROVE  Checked(c, p)
  <2>1. to \in Arg0Types(c, "bmask") /\ from \in Arg1Types(c, "bmask")
    BY DEF Arg0Types, Arg1Types
  <2>2. Covers(c) => from \in ConstantTypes(c) BY <2>1, Zenon DEF Covers
  <2>3. ListsGoTogether(c) => HasKind(to, "i") BY <2>1, Zenon DEF ListsGoTogether
  <2> QED BY <1>4, <2>2, <2>3, MustOne DEF Same
<1> QED BY <1>1, <1>2, <1>3, <1>4, Zenon

\* fpromote, fdemote and their vector forms find the constants they convert.
LEMMA FloatWidthChecked ==
  ASSUME NEW c, NEW p \in FloatWidth(c)
  PROVE  Checked(c, p)
<1>1. \/ p = None
      \/ /\ c.modes["float_width"] # {}
         /\ \E a, t \in {F(32), F(64), FX(32), FX(64)} :
              p \in Must(<<a>>, Same(t), AnyTypes)
  BY DEF FloatWidth, InMode
<1>2. ASSUME c.modes["float_width"] # {},
             NEW a \in {F(32), F(64), FX(32), FX(64)}, NEW t,
             p \in Must(<<a>>, Same(t), AnyTypes)
      PROVE  Checked(c, p)
  <2>1. Covers(c) => a \in ConstantTypes(c) BY <1>2, Zenon DEF Covers
  <2> QED BY <1>2, <2>1, MustOne, Zenon DEF Same, AnyTypes
<1> QED BY <1>1, <1>2, NoneChecked

\* x86_cvtt2dq unwraps a float vector of a listed type.
LEMMA Cvtt2dqChecked ==
  ASSUME NEW c, IsConfig(c), NEW p \in Cvtt2dq(c)
  PROVE  Checked(c, p)
<1>1. \/ p = None
      \/ p = Panic /\ \E m \in c.modes["cvtt2dq"] : ~m.has_operand
      \/ \E m \in c.modes["cvtt2dq"] : \E t \in m.operand :
           p \in Convert(t, {FX(32), FX(64)}, WithKind(t, "i"))
  <2>1. \/ p = None
        \/ p = Panic /\ \E m \in c.modes["cvtt2dq"] : ~m.has_operand
        \/ \E m \in c.modes["cvtt2dq"] :
             /\ m.operand # {}
             /\ p \in Draw(m.operand,
                               LAMBDA t : Convert(t, {FX(32), FX(64)},
                                                      WithKind(t, "i")))
    BY Zenon DEF Cvtt2dq, InMode
  <2>2. ASSUME NEW m \in c.modes["cvtt2dq"], m.operand # {},
               p \in Draw(m.operand,
                              LAMBDA t : Convert(t, {FX(32), FX(64)},
                                                     WithKind(t, "i")))
        PROVE  \E t \in m.operand :
                 p \in Convert(t, {FX(32), FX(64)}, WithKind(t, "i"))
    BY <2>2 DEF Draw
  <2> QED BY <2>1, <2>2, Zenon
<1>2. ASSUME NEW m \in c.modes["cvtt2dq"], NEW t \in m.operand,
             p \in Convert(t, {FX(32), FX(64)}, WithKind(t, "i"))
      PROVE  Checked(c, p)
  <2>1. t \in OperandTypes(c, "cvtt2dq") BY Zenon DEF OperandTypes
  <2>2. "cvtt2dq" \in Groups BY DEF Groups
  <2>3. t \in Types BY <2>2, ListedTypes
  <2>4. Covers(c) => t \in ConstantTypes(c) BY <2>1, Zenon DEF Covers, Unwrapped
  <2> QED BY <1>2, <2>3, <2>4, ConvertChecked, Zenon
<1>3. CASE p = Panic /\ \E m \in c.modes["cvtt2dq"] : ~m.has_operand
  <2>1. ~Covers(c) BY <1>3, Zenon DEF Covers
  <2> QED BY <1>3, <2>1, PanicChecked, Zenon DEF Panic
<1> QED BY <1>1, <1>2, <1>3, NoneChecked, Zenon

\* An opcode that the configuration has no entry for.
LEMMA NotFoundChecked ==
  ASSUME NEW c, NEW p \in NotFound(c)
  PROVE  Checked(c, p)
<1>1. p = Panic /\ ~Covers(c) BY Zenon DEF NotFound, Covers
<1> QED BY <1>1, PanicChecked, Zenon DEF Panic

\* The constants need no operand.
LEMMA ConstChecked ==
  ASSUME NEW c, NEW p \in Const(c)
  PROVE  Checked(c, p)
<1>1. p = None \/ \E t : p \in Try(<<>>, Same(t), AnyTypes)
  <2>1. \/ p = None
        \/ p \in UNION {Try(<<>>, Same(t), AnyTypes) :
                        t \in {F(32), F(64), F(128), I(8), I(16),
                               I(32), I(64)}}
    BY DEF Const, InMode
  <2> QED BY <2>1
<1> QED BY <1>1, NoneChecked, TryTyped, Zenon DEF Same, AnyTypes

\* Whatever opcode is drawn.
LEMMA PlansChecked ==
  ASSUME NEW c, IsConfig(c), NEW p \in Plans(c)
  PROVE  Checked(c, p)
<1>1. ASSUME NEW g \in {"atomic_cas", "byte_shuffle", "min_max", "saturating",
                        "arithmetic", "division", "overflow", "bitwise",
                        "float_arithmetic", "iadd_pairwise", "uadd_overflow_trap",
                        "pmulhrsw"},
             p \in Binary(c, g)
      PROVE  Checked(c, p)
  <2>1. g \in Groups \ NoOperandDrawn BY DEF Groups, NoOperandDrawn
  <2> QED BY <1>1, <2>1, BinaryChecked
<1>2. CASE \/ p \in AtomicCas(c) \/ p \in ByteShuffle(c) \/ p \in MinMax(c)
           \/ p \in Saturating(c) \/ p \in Arithmetic(c) \/ p \in Division(c)
           \/ p \in Overflow(c) \/ p \in Bitwise(c) \/ p \in FloatArithmetic(c)
           \/ p \in IaddPairwise(c) \/ p \in UaddOverflowTrap(c)
           \/ p \in Pmulhrsw(c)
  BY <1>1, <1>2 DEF AtomicCas, ByteShuffle, MinMax, Saturating,
     Arithmetic, Division, Overflow, Bitwise, FloatArithmetic,
     IaddPairwise, UaddOverflowTrap, Pmulhrsw
<1>3. CASE p \in Snarrow(c) \/ p \in Unarrow(c) \/ p \in Uunarrow(c)
  <2>1. {"snarrow", "unarrow", "uunarrow"} \subseteq Groups \ NoOperandDrawn
    BY DEF Groups, NoOperandDrawn
  <2>2. IntVectors({16, 32, 64}) = {IX(16), IX(32), IX(64)}
    BY DEF IntVectors
  <2>3. IntVectors({16, 32}) = {IX(16), IX(32)} BY DEF IntVectors
  <2>4. Covers(c) =>
          /\ OperandTypes(c, "snarrow") \subseteq IntVectors({16, 32, 64})
          /\ OperandTypes(c, "unarrow") \subseteq IntVectors({16, 32})
          /\ OperandTypes(c, "uunarrow") \subseteq IntVectors({16, 32, 64})
    BY <2>2, <2>3, Zenon DEF Covers
  <2>5. {16, 32} \in SUBSET {16, 32, 64} /\ {16, 32, 64} \in SUBSET {16, 32, 64} OBVIOUS
  <2>6. CASE p \in Snarrow(c) BY <2>1, <2>4, <2>5, <2>6, NarrowChecked DEF Snarrow
  <2>7. CASE p \in Unarrow(c) BY <2>1, <2>4, <2>5, <2>7, NarrowChecked DEF Unarrow
  <2>8. CASE p \in Uunarrow(c) BY <2>1, <2>4, <2>5, <2>8, NarrowChecked DEF Uunarrow
  <2> QED BY <1>3, <2>6, <2>7, <2>8
<1>4. CASE \/ p \in AtomicRmw(c) \/ p \in Pmaddubsw(c) \/ p \in Shift(c)
           \/ p \in Iconcat(c)
           \/ p \in Imm(c) \/ p \in Extractlane(c) \/ p \in Control(c)
           \/ p \in Fcmp(c)
           \/ p \in Icmp(c) \/ p \in IcmpImm(c) \/ p \in Load(c)
           \/ p \in LoadFixed(c)
           \/ p \in Bitcast(c) \/ p \in Address(c) \/ p \in Shuffle(c)
           \/ p \in StackLoad(c)
  BY <1>4, AtomicRmwChecked, PmaddubswChecked, ShiftChecked, IconcatChecked, ImmChecked,
     ExtractlaneChecked, NoneChecked, FcmpChecked, IcmpChecked, IcmpImmChecked,
     LoadChecked, LoadFixedChecked, BitcastChecked, AddressChecked, ShuffleChecked,
     StackLoadChecked DEF Control
<1>5. CASE \/ p \in Store(c) \/ p \in Istore(c) \/ p \in Select(c)
           \/ p \in Bitselect(c)
           \/ p \in Fma(c) \/ p \in Insertlane(c) \/ p \in Splat(c)
           \/ p \in Vtest(c)
           \/ p \in VhighBits(c) \/ p \in IntUnary(c) \/ p \in FloatUnary(c)
           \/ p \in ScalarToVector(c)
  BY <1>5, StoreChecked, IstoreChecked, SelectChecked, BitselectChecked, FmaChecked,
     InsertlaneChecked, SplatChecked, VtestChecked, VhighBitsChecked, IntUnaryChecked,
     FloatUnaryChecked, ScalarToVectorChecked
<1>6. CASE \/ p \in Bmask(c) \/ p \in Ireduce(c) \/ p \in Widen(c)
           \/ p \in Extend(c)
           \/ p \in FloatWidth(c) \/ p \in FcvtToInt(c) \/ p \in FcvtToIntSat(c)
           \/ p \in Cvtt2dq(c) \/ p \in FcvtFromInt(c) \/ p \in Isplit(c)
           \/ p \in Const(c) \/ p \in Carry(c)
  BY <1>6, BmaskChecked, IreduceChecked, WidenChecked, ExtendChecked, FloatWidthChecked,
     FcvtToIntChecked, FcvtToIntSatChecked, Cvtt2dqChecked, FcvtFromIntChecked,
     IsplitChecked, ConstChecked, CarryChecked
<1> DEFINE
      A1 == {NotFound(c)}
      A2 == {AtomicCas(c), ByteShuffle(c), MinMax(c), Saturating(c),
             Arithmetic(c), Division(c), Overflow(c), Bitwise(c),
             FloatArithmetic(c), IaddPairwise(c), UaddOverflowTrap(c),
             Pmulhrsw(c)}
      A3 == {Snarrow(c), Unarrow(c), Uunarrow(c)}
      A4 == {AtomicRmw(c), Pmaddubsw(c), Shift(c), Iconcat(c), Imm(c),
             Extractlane(c), Control(c), Fcmp(c), Icmp(c), IcmpImm(c),
             Load(c), LoadFixed(c), Bitcast(c), Address(c),
             Shuffle(c), StackLoad(c)}
      A5 == {Store(c), Istore(c), Select(c), Bitselect(c), Fma(c),
             Insertlane(c), Splat(c), Vtest(c), VhighBits(c),
             IntUnary(c), FloatUnary(c), ScalarToVector(c)}
      A6 == {Bmask(c), Ireduce(c), Widen(c), Extend(c), FloatWidth(c),
             FcvtToInt(c), FcvtToIntSat(c), Cvtt2dq(c), FcvtFromInt(c),
             Isplit(c), Const(c), Carry(c)}
<1>7. Plans(c) \subseteq UNION (A1 \cup A2 \cup A3 \cup A4 \cup A5 \cup A6)
  BY Zenon DEF Plans
<1>8. CASE p \in UNION A2 BY <1>2, <1>8
<1>9. CASE p \in UNION A3 BY <1>3, <1>9
<1>10. CASE p \in UNION A4 BY <1>4, <1>10
<1>11. CASE p \in UNION A5 BY <1>5, <1>11
<1>12. CASE p \in UNION A6 BY <1>6, <1>12
<1>13. CASE p \in UNION A1 BY <1>13, NotFoundChecked
<1> HIDE DEF A1, A2, A3, A4, A5, A6
<1> QED BY <1>7, <1>8, <1>9, <1>10, <1>11, <1>12, <1>13

(***************************************************************************)
(* Part 3: the selector at work.                                           *)
(***************************************************************************)
\* The values that can be recorded with a configuration.
Recordable(c) ==
  {Prelude(c)[i] : i \in DOMAIN c.operand_types}
    \cup UNION {{p.results[i] : i \in DOMAIN p.results} : p \in Plans(c)}

SelTypes ==
  /\ arch \in Archs
  /\ values \in Seq(Recordable(Configs[arch]))
  /\ block \in Nat \ {0}
  /\ DOMAIN table = IF block = 1 THEN {1} ELSE 1 .. (block - 1)

\* The constants of the entry block, as function_generator records them.
LEMMA PreludeFacts ==
  ASSUME NEW c, IsConfig(c)
  PROVE  /\ Prelude(c) \in Seq(Recordable(c))
         /\ Len(c.operand_types) \in Nat
         /\ Len(Prelude(c)) = Len(c.operand_types)
         /\ DOMAIN c.operand_types = 1 .. Len(c.operand_types)
         /\ DOMAIN Prelude(c) = DOMAIN c.operand_types
         /\ \A i \in DOMAIN c.operand_types :
              /\ Prelude(c)[i].type = c.operand_types[i]
              /\ Prelude(c)[i].actual = c.operand_types[i]
<1> DEFINE types == c.operand_types
<1>1. types \in Seq(Types) BY DEF IsConfig
<1>2. Len(types) \in Nat /\ DOMAIN types = 1 .. Len(types) BY <1>1
<1>3. Prelude(c) = [i \in 1 .. Len(types) |-> Same(types[i])[1]]
  BY <1>2 DEF Prelude
<1>4. \A i \in 1 .. Len(types) : Prelude(c)[i] \in Recordable(c)
  BY <1>2 DEF Recordable
<1>5. Prelude(c) \in Seq(Recordable(c)) /\ Len(Prelude(c)) = Len(types)
  BY <1>2, <1>3, <1>4
<1>6. \A t : Same(t)[1].type = t /\ Same(t)[1].actual = t
  BY DEF Same, Typed
<1> QED BY <1>2, <1>3, <1>5, <1>6

\* The results of a plan extend the values.
LEMMA ResultsFacts ==
  ASSUME NEW c, IsConfig(c), NEW p \in Plans(c),
         NEW s \in Seq(Recordable(c))
  PROVE  /\ p.results \in Seq(Recordable(c)) /\ Len(p.results) \in Nat
         /\ s \o p.results \in Seq(Recordable(c))
         /\ Len(s) \in Nat /\ Len(s \o p.results) = Len(s) + Len(p.results)
         /\ \A i \in 1 .. Len(s) : (s \o p.results)[i] = s[i]
         /\ \A i \in (Len(s) + 1) .. (Len(s) + Len(p.results)) :
              /\ i - Len(s) \in DOMAIN p.results
              /\ (s \o p.results)[i] = p.results[i - Len(s)]
<1>1. p.results = <<>> \/ \E x : p.results = <<x>>
  BY PlansChecked DEF Checked
<1>2. \A i \in DOMAIN p.results : p.results[i] \in Recordable(c) BY DEF Recordable
<1>3. p.results \in Seq(Recordable(c))
  <2>1. CASE p.results = <<>> BY <2>1
  <2>2. CASE \E x : p.results = <<x>>
    <3>1. PICK x : p.results = <<x>> BY <2>2
    <3>2. 1 \in DOMAIN p.results /\ p.results[1] = x BY <3>1
    <3>3. x \in Recordable(c) BY <1>2, <3>2
    <3> QED BY <3>1, <3>3
  <2> QED BY <1>1, <2>1, <2>2
<1>4. Len(p.results) \in Nat /\ DOMAIN p.results = 1 .. Len(p.results) BY <1>3
<1>5. Len(s) \in Nat OBVIOUS
<1>6. /\ s \o p.results \in Seq(Recordable(c))
      /\ Len(s \o p.results) = Len(s) + Len(p.results)
      /\ \A i \in 1 .. Len(s) + Len(p.results) :
           (s \o p.results)[i] = IF i <= Len(s) THEN s[i] ELSE p.results[i - Len(s)]
  BY <1>3
<1>7. ASSUME NEW i \in (Len(s) + 1) .. (Len(s) + Len(p.results))
      PROVE  /\ i - Len(s) \in DOMAIN p.results
             /\ (s \o p.results)[i] = p.results[i - Len(s)]
  BY <1>4, <1>5, <1>6
<1>8. ASSUME NEW i \in 1 .. Len(s) PROVE (s \o p.results)[i] = s[i]
  BY <1>4, <1>5, <1>6
<1> QED BY <1>3, <1>4, <1>5, <1>6, <1>7, <1>8

\* The selector starts with the constants of a target, in the first block.
LEMMA TypesInit ==
  ASSUME \A a \in Archs : IsConfig(Configs[a]), Init
  PROVE  SelTypes
<1>1. arch \in Archs /\ values = Prelude(Configs[arch]) /\ block = 1
        /\ table = <<DOMAIN values>>
  BY DEF Init
<1>2. values \in Seq(Recordable(Configs[arch])) BY <1>1, PreludeFacts
<1>3. DOMAIN table = {1} BY <1>1
<1> QED BY <1>1, <1>2, <1>3 DEF SelTypes

\* A call of populate_block_instructions: the plan it follows, and what becomes of
\* the values.
PopulateStep(p) ==
  /\ pc = "populate"
  /\ p \in Plans(Configs[arch])
  /\ \A t \in p.looks : Candidates(t) # {}
  /\ IF p.kind = "panic" \/ Operands(p) = {}
     THEN pc' = "panic" /\ UNCHANGED <<values, defs, inst>>
     ELSE /\ \E f \in Operands(p) :
               inst' = [reads |-> {<<p.takes[i], values[f[i]].actual>> : i \in DOMAIN f},
                        legal |-> p.legal]
          /\ values' = values \o p.results
          /\ defs' = defs \cup (Len(values) + 1 .. Len(values'))
          /\ UNCHANGED pc
  /\ UNCHANGED <<arch, table, block, doms>>

\* Every call of populate_block_instructions follows a plan of the target.
LEMMA PopulateHasStep ==
  ASSUME SelTypes, Populate
  PROVE  \E p : PopulateStep(p)
<1>1. PlanTable[arch] = Plans(Configs[arch]) BY DEF SelTypes, PlanTable
<1>2. PICK p \in PlanTable[arch] :
       /\ \A t \in p.looks : Candidates(t) # {}
       /\ Len(values) + Len(p.results) <= Len(Configs[arch].operand_types) + MaxValues
       /\ IF p.kind = "panic" \/ Operands(p) = {}
          THEN pc' = "panic" /\ UNCHANGED <<values, defs, inst>>
          ELSE /\ \E f \in Operands(p) :
                    inst' = [reads |-> {<<p.takes[i], values[f[i]].actual>> : i \in DOMAIN f},
                             legal |-> p.legal]
               /\ values' = values \o p.results
               /\ defs' = defs \cup (Len(values) + 1 .. Len(values'))
               /\ UNCHANGED pc
  BY Zenon DEF Populate
<1>3. pc = "populate" /\ UNCHANGED <<arch, table, block, doms>> BY DEF Populate
<1>4. PopulateStep(p) BY <1>1, <1>2, <1>3 DEF PopulateStep
<1> QED BY <1>4

\* The typing of the selector's state is kept by every step.
LEMMA TypesStep ==
  ASSUME \A a \in Archs : IsConfig(Configs[a]), SelTypes,
         [Next]_vars
  PROVE  SelTypes'
<1>0. arch \in Archs /\ IsConfig(Configs[arch]) BY DEF SelTypes
<1>1. CASE Populate
  <2>1. PICK p : PopulateStep(p) BY <1>1, PopulateHasStep
  <2>2. arch' = arch /\ table' = table /\ block' = block BY <2>1, Zenon DEF PopulateStep
  <2>3. values' \in Seq(Recordable(Configs[arch]))
    <3>1. p \in Plans(Configs[arch]) BY <2>1 DEF PopulateStep
    <3>2. values' = values \/ values' = values \o p.results BY <2>1 DEF PopulateStep
    <3>3. values \in Seq(Recordable(Configs[arch])) BY DEF SelTypes
    <3>4. values \o p.results \in Seq(Recordable(Configs[arch]))
      BY <1>0, <3>1, <3>3, ResultsFacts
    <3> QED BY <3>2, <3>3, <3>4, Zenon
  <2> QED BY <2>2, <2>3 DEF SelTypes
<1>2. CASE NextBlock
  <2>1. arch' = arch /\ values' = values /\ block' = block + 1 BY <1>2 DEF NextBlock
  <2>2. DOMAIN table' = 1 .. block BY <1>2 DEF NextBlock
  <2>3. block \in Nat \ {0} BY DEF SelTypes
  <2>4. DOMAIN table' = IF block' = 1 THEN {1} ELSE 1 .. (block' - 1)
    BY <2>1, <2>2, <2>3
  <2> QED BY <2>1, <2>3, <2>4 DEF SelTypes
<1>3. CASE UNCHANGED vars BY <1>3 DEF SelTypes, vars
<1> QED BY <1>1, <1>2, <1>3 DEF Next

----------------------------------------------------------------------------
(***************************************************************************)
(* No panic.                                                               *)
(***************************************************************************)
\* Every block finds a candidate of each type there is a constant of.
LEMMA ConstantsSeen ==
  ASSUME SelTypes, IsConfig(Configs[arch]), SeesConstants,
         NEW t \in ConstantTypes(Configs[arch])
  PROVE  Candidates(t) # {}
<1> DEFINE types == Configs[arch].operand_types
<1>1. PICK i \in DOMAIN types : t = types[i] BY DEF ConstantTypes
<1>2. values[i].type = t /\ i \in table[1] BY <1>1 DEF SeesConstants
<1>3. 1 \in doms \cap DOMAIN table
  <2>1. block \in Nat \ {0} BY DEF SelTypes
  <2>2. 1 \in DOMAIN table BY <2>1 DEF SelTypes
  <2> QED BY <2>2 DEF SeesConstants
<1>4. i \in UNION {table[d] : d \in doms \cap DOMAIN table} BY <1>2, <1>3
<1> QED BY <1>2, <1>4 DEF Candidates

\* A plan whose operand types all have candidates has operands.
LEMMA OperandsExist ==
  ASSUME NEW p, \A i \in DOMAIN p.takes : Candidates(p.takes[i]) # {}
  PROVE  Operands(p) # {}
<1> DEFINE f == [i \in DOMAIN p.takes |-> CHOOSE v : v \in Candidates(p.takes[i])]
<1>1. \A i \in DOMAIN p.takes : f[i] \in Candidates(p.takes[i]) OBVIOUS
<1>2. f \in [DOMAIN p.takes -> UNION {Candidates(p.takes[i]) : i \in DOMAIN p.takes}]
  BY <1>1
<1>3. f \in Operands(p) BY <1>1, <1>2 DEF Operands
<1> QED BY <1>3

\* The constants are there from the start, and no call panics or loses them.
LEMMA SeesConstantsInit ==
  ASSUME \A a \in Archs : IsConfig(Configs[a]), Init
  PROVE  SeesConstants
<1> DEFINE c == Configs[arch]
<1>1. arch \in Archs /\ values = Prelude(c) /\ block = 1 /\ table = <<DOMAIN values>>
      /\ defs = DOMAIN values /\ doms = {1} /\ pc = "populate"
  BY DEF Init
<1>2. IsConfig(c) BY <1>1
<1>3. /\ Len(c.operand_types) \in Nat
      /\ Len(values) = Len(c.operand_types)
      /\ DOMAIN values = DOMAIN c.operand_types
      /\ \A i \in DOMAIN c.operand_types : values[i].type = c.operand_types[i]
  BY <1>1, <1>2, PreludeFacts
<1>4. DOMAIN table = {1} /\ table[1] = DOMAIN values BY <1>1
<1> QED BY <1>1, <1>3, <1>4 DEF SeesConstants

\* No call panics, and none loses the constants of the entry block.
LEMMA SeesConstantsStep ==
  ASSUME \A a \in Archs : IsConfig(Configs[a]) /\ Covers(Configs[a]),
         SelTypes, SeesConstants, [Next]_vars
  PROVE  SeesConstants'
<1> DEFINE c == Configs[arch]
<1>0. arch \in Archs /\ IsConfig(c) /\ Covers(c) BY DEF SelTypes
<1>1. CASE Populate
  <2>1. PICK p : PopulateStep(p) BY <1>1, PopulateHasStep
  <2>2. p \in Plans(c) BY <2>1, Zenon DEF PopulateStep
  <2>3. Checked(c, p) BY <1>0, <2>2, PlansChecked
  <2>4. p.kind # "panic" BY <1>0, <2>3 DEF Checked, Safe
  <2>5. ASSUME NEW i \in DOMAIN p.takes PROVE Candidates(p.takes[i]) # {}
    <3>1. p.takes[i] \in p.looks \/ p.takes[i] \in ConstantTypes(c)
      BY <1>0, <2>3 DEF Checked, Safe
    <3>2. CASE p.takes[i] \in p.looks BY <2>1, <3>2, Zenon DEF PopulateStep
    <3>3. CASE p.takes[i] \in ConstantTypes(c) BY <1>0, <3>3, ConstantsSeen
    <3> QED BY <3>1, <3>2, <3>3
  <2>6. Operands(p) # {} BY <2>5, OperandsExist
  <2>7. /\ values' = values \o p.results /\ defs \subseteq defs'
        /\ pc' = "populate"
        /\ arch' = arch /\ table' = table /\ block' = block /\ doms' = doms
    BY <2>1, <2>4, <2>6, Zenon DEF PopulateStep
  <2>8. /\ Len(values) \in Nat /\ Len(values') >= Len(values)
        /\ \A i \in 1 .. Len(values) : values'[i] = values[i]
    <3>1. values \in Seq(Recordable(c)) BY DEF SelTypes
    <3> QED BY <1>0, <2>2, <2>7, <3>1, ResultsFacts
  <2>9. /\ Len(c.operand_types) \in Nat
        /\ DOMAIN c.operand_types = 1 .. Len(c.operand_types)
    BY <1>0, PreludeFacts
  <2>10. Len(c.operand_types) <= Len(values') BY <2>8, <2>9 DEF SeesConstants
  <2>11. \A i \in DOMAIN c.operand_types : values'[i].type = c.operand_types[i]
    BY <2>8, <2>9 DEF SeesConstants
  <2> QED BY <2>7, <2>10, <2>11 DEF SeesConstants
<1>2. CASE NextBlock
  <2>1. /\ pc' = pc /\ arch' = arch /\ values' = values /\ block' = block + 1
        /\ table' = [b \in 1 .. block |-> IF b = block THEN defs ELSE table[b]]
        /\ 1 \in doms'
    BY <1>2 DEF NextBlock
  <2>2. block \in Nat \ {0} BY DEF SelTypes
  <2>3. DOMAIN table' = IF block' = 1 THEN {1} ELSE 1 .. (block' - 1)
    <3>1. DOMAIN table' = 1 .. block BY <2>1
    <3>2. block' # 1 /\ block' - 1 = block BY <2>1, <2>2
    <3> QED BY <3>1, <3>2
  <2>4. DOMAIN c.operand_types \subseteq table'[1] BY <2>1, <2>2 DEF SeesConstants
  <2>5. block' >= 1 /\ block' # 1 BY <2>1, <2>2
  <2> QED BY <2>1, <2>3, <2>4, <2>5 DEF SeesConstants
<1>3. CASE UNCHANGED vars BY <1>3 DEF SeesConstants, vars
<1> QED BY <1>1, <1>2, <1>3 DEF Next

\* populate_block_instructions never panics.
THEOREM SelectorNeverPanics ==
  ASSUME \A a \in Archs : Covers(Configs[a])
  PROVE  Spec => []NoPanic
<1>0. \A a \in Archs : IsConfig(Configs[a]) /\ Covers(Configs[a])
  BY SelectorAssumption
<1>1. Init => SelTypes /\ SeesConstants BY <1>0, TypesInit, SeesConstantsInit
<1>2. SelTypes /\ SeesConstants /\ [Next]_vars
        => SelTypes' /\ SeesConstants'
  BY <1>0, TypesStep, SeesConstantsStep
<1>3. SeesConstants => NoPanic BY DEF SeesConstants, NoPanic
<1> QED BY <1>1, <1>2, <1>3, PTL DEF Spec

----------------------------------------------------------------------------
(***************************************************************************)
(* Operands of the right type.                                             *)
(***************************************************************************)
\* Before anything is recorded untruly, and what is seen has been recorded.
LEMMA RecordedTrulyInit ==
  ASSUME \A a \in Archs : IsConfig(Configs[a]), Init
  PROVE  RecordedTruly /\ OperandsFit
<1> DEFINE c == Configs[arch]
<1>1. arch \in Archs /\ values = Prelude(c) /\ table = <<DOMAIN values>>
      /\ defs = DOMAIN values /\ inst = NoInst
  BY DEF Init
<1>2. \A i \in DOMAIN values : values[i].type = values[i].actual BY <1>1, PreludeFacts
<1>3. \A b \in DOMAIN table : table[b] = DOMAIN values BY <1>1
<1>4. OperandsFit BY <1>1 DEF OperandsFit, NoInst
<1> QED BY <1>1, <1>2, <1>3, <1>4 DEF RecordedTruly

\* Every call records the types cranelift infers, and reads values of those types.
LEMMA RecordedTrulyStep ==
  ASSUME \A a \in Archs : IsConfig(Configs[a]) /\ RecordsTruly(Configs[a]),
         SelTypes, RecordedTruly, OperandsFit, [Next]_vars
  PROVE  RecordedTruly' /\ OperandsFit'
<1> DEFINE c == Configs[arch]
<1>0. arch \in Archs /\ IsConfig(c) /\ RecordsTruly(c) BY DEF SelTypes
<1>1. CASE Populate
  <2>1. PICK p : PopulateStep(p) BY <1>1, PopulateHasStep
  <2>2. p \in Plans(c) BY <2>1, Zenon DEF PopulateStep
  <2>3. Checked(c, p) BY <1>0, <2>2, PlansChecked
  <2>4. CASE UNCHANGED <<values, defs, inst>>
    <3>1. table' = table BY <2>1 DEF PopulateStep
    <3> QED BY <2>4, <3>1 DEF RecordedTruly, OperandsFit
  <2>5. ASSUME NEW f \in Operands(p),
               inst' = [reads |-> {<<p.takes[i], values[f[i]].actual>> : i \in DOMAIN f},
                        legal |-> p.legal],
               values' = values \o p.results,
               defs' = defs \cup (Len(values) + 1 .. Len(values'))
        PROVE  RecordedTruly' /\ OperandsFit'
    <3>1. values \in Seq(Recordable(c)) BY DEF SelTypes
    <3>2. /\ Len(values) \in Nat /\ Len(p.results) \in Nat
          /\ values' \in Seq(Recordable(c))
          /\ Len(values') = Len(values) + Len(p.results)
          /\ \A i \in 1 .. Len(values) : values'[i] = values[i]
          /\ \A i \in (Len(values) + 1) .. Len(values') :
               /\ i - Len(values) \in DOMAIN p.results
               /\ values'[i] = p.results[i - Len(values)]
      <4> DEFINE new == values \o p.results
      <4>1. /\ Len(values) \in Nat /\ Len(p.results) \in Nat
            /\ new \in Seq(Recordable(c))
            /\ Len(new) = Len(values) + Len(p.results)
            /\ \A i \in 1 .. Len(values) : new[i] = values[i]
            /\ \A i \in (Len(values) + 1) .. (Len(values) + Len(p.results)) :
                 /\ i - Len(values) \in DOMAIN p.results
                 /\ new[i] = p.results[i - Len(values)]
        <5> HIDE DEF c
        <5> QED BY <1>0, <2>2, <3>1, ResultsFacts
      <4>2. values' = new BY <2>5
      <4> HIDE DEF new
      <4> QED BY <4>1, <4>2
    <3>3. DOMAIN values = 1 .. Len(values) /\ DOMAIN values' = 1 .. Len(values')
      BY <3>1, <3>2
    <3>4. \A i \in DOMAIN p.results : p.results[i].type = p.results[i].actual
      BY <1>0, <2>3, Zenon DEF Checked, Truthful
    <3>5. ASSUME NEW i \in DOMAIN values' PROVE values'[i].type = values'[i].actual
      <4>1. CASE i \in 1 .. Len(values) BY <3>2, <3>3, <4>1 DEF RecordedTruly
      <4>2. CASE i \in (Len(values) + 1) .. Len(values') BY <3>2, <3>4, <4>2
      <4> QED BY <3>2, <3>3, <4>1, <4>2
    <3>6. DOMAIN values \subseteq DOMAIN values' BY <3>2, <3>3
    <3>7. defs' \subseteq DOMAIN values'
      <4>1. (Len(values) + 1 .. Len(values')) \subseteq DOMAIN values' BY <3>2, <3>3
      <4> QED BY <2>5, <3>6, <4>1 DEF RecordedTruly
    <3>8. \A b \in DOMAIN table' : table'[b] \subseteq DOMAIN values'
      BY <2>1, <3>6, Zenon DEF PopulateStep, RecordedTruly
    <3>9. ASSUME NEW i \in DOMAIN f PROVE p.takes[i] = values[f[i]].actual
      <4>1. f[i] \in Candidates(p.takes[i]) BY DEF Operands
      <4>2. values[f[i]].type = p.takes[i] /\ \E d \in DOMAIN table : f[i] \in table[d]
        BY <4>1 DEF Candidates
      <4>3. f[i] \in DOMAIN values BY <4>2 DEF RecordedTruly
      <4> QED BY <4>2, <4>3 DEF RecordedTruly
    <3>10. OperandsFit' BY SMTT(30), <2>5, <3>9 DEF OperandsFit
    <3> QED BY <3>5, <3>7, <3>8, <3>10 DEF RecordedTruly
  <2> QED BY <2>1, <2>4, <2>5, Zenon DEF PopulateStep
<1>2. CASE NextBlock
  <2>1. /\ values' = values /\ defs' = {} /\ inst' = NoInst
        /\ table' = [b \in 1 .. block |-> IF b = block THEN defs ELSE table[b]]
    BY <1>2 DEF NextBlock
  <2>2. ASSUME NEW b \in DOMAIN table' PROVE table'[b] \subseteq DOMAIN values
    <3>1. block \in Nat \ {0} BY DEF SelTypes
    <3>2. b \in 1 .. block BY <2>1
    <3>3. CASE b = block BY <2>1, <3>2, <3>3 DEF RecordedTruly
    <3>4. CASE b # block
      <4>1. b \in DOMAIN table BY <3>1, <3>2, <3>4 DEF SelTypes
      <4> QED BY <2>1, <3>2, <3>4, <4>1 DEF RecordedTruly
    <3> QED BY <3>3, <3>4
  <2>3. OperandsFit' BY <2>1 DEF OperandsFit, NoInst
  <2> QED BY <2>1, <2>2, <2>3 DEF RecordedTruly
<1>3. CASE UNCHANGED vars
  BY <1>3 DEF RecordedTruly, OperandsFit, vars
<1> QED BY <1>1, <1>2, <1>3 DEF Next

\* The operands of an instruction have the type it takes.
THEOREM SelectedOperandsFit ==
  ASSUME \A a \in Archs : RecordsTruly(Configs[a])
  PROVE  Spec => []OperandsFit
<1>0. \A a \in Archs : IsConfig(Configs[a]) /\ RecordsTruly(Configs[a])
  BY SelectorAssumption
<1>1. Init => SelTypes /\ RecordedTruly /\ OperandsFit
  BY <1>0, TypesInit, RecordedTrulyInit
<1>2. SelTypes /\ RecordedTruly /\ OperandsFit /\ [Next]_vars
        => SelTypes' /\ RecordedTruly' /\ OperandsFit'
  BY <1>0, TypesStep, RecordedTrulyStep
<1> QED BY <1>1, <1>2, PTL DEF Spec

----------------------------------------------------------------------------
(***************************************************************************)
(* Types that go together.                                                 *)
(***************************************************************************)
LEMMA TypesGoTogetherStep ==
  ASSUME \A a \in Archs : IsConfig(Configs[a]) /\ ListsGoTogether(Configs[a]),
         SelTypes, TypesGoTogether, [Next]_vars
  PROVE  TypesGoTogether'
<1> DEFINE c == Configs[arch]
<1>0. arch \in Archs /\ IsConfig(c) /\ ListsGoTogether(c) BY DEF SelTypes
<1>1. CASE Populate
  <2>1. PICK p : PopulateStep(p) BY <1>1, PopulateHasStep
  <2>2. p \in Plans(c) BY <2>1, Zenon DEF PopulateStep
  <2>3. Checked(c, p) BY <1>0, <2>2, PlansChecked
  <2>4. p.legal BY <1>0, <2>3 DEF Checked
  <2>5. inst' = inst \/ \E reads : inst' = [reads |-> reads, legal |-> p.legal]
    <3> DEFINE Reads(f) == {<<p.takes[i], values[f[i]].actual>> : i \in DOMAIN f}
    <3>1. \/ inst' = inst
          \/ \E f \in Operands(p) : inst' = [reads |-> Reads(f), legal |-> p.legal]
      BY <2>1, Zenon DEF PopulateStep
    <3> HIDE DEF Reads
    <3> QED BY <3>1
  <2>6. inst' = inst \/ inst'.legal = p.legal BY <2>5
  <2> QED BY <2>4, <2>6, Zenon DEF TypesGoTogether
<1>2. CASE NextBlock
  BY <1>2 DEF NextBlock, TypesGoTogether, NoInst
<1>3. CASE UNCHANGED vars BY <1>3 DEF TypesGoTogether, vars
<1> QED BY <1>1, <1>2, <1>3 DEF Next

\* The types of an instruction go together the way cranelift demands.
THEOREM SelectedTypesGoTogether ==
  ASSUME \A a \in Archs : ListsGoTogether(Configs[a])
  PROVE  Spec => []TypesGoTogether
<1>0. \A a \in Archs : IsConfig(Configs[a]) /\ ListsGoTogether(Configs[a])
  BY SelectorAssumption
<1>1. Init => SelTypes /\ TypesGoTogether
  BY <1>0, TypesInit DEF Init, TypesGoTogether, NoInst
<1>2. SelTypes /\ TypesGoTogether /\ [Next]_vars
        => SelTypes' /\ TypesGoTogether'
  BY <1>0, TypesStep, TypesGoTogetherStep
<1> QED BY <1>1, <1>2, PTL DEF Spec
=============================================================================
