----------------------- MODULE MCInstructionSelector -----------------------
(***************************************************************************)
(* The four configurations of the repository (in configs/) as the groups   *)
(* of InstructionSelector see them: a group has the types of all its       *)
(* opcodes.                                                                *)
(***************************************************************************)
EXTENDS InstructionSelector

On(types) ==
  {[has_operand |-> types # {}, operand |-> types, arg0 |-> {}, arg1 |-> {}]}
OnArgs(arg0, arg1) ==
  {[has_operand |-> FALSE, operand |-> {}, arg0 |-> arg0, arg1 |-> arg1]}

Small == {I(8), I(16), I(32), I(64)}
Ints == Small \cup {I(128)}
IVecs == {IX(8), IX(16), IX(32), IX(64)}
FVecs == {FX(32), FX(64)}
Floats == {F(32), F(64)}

\* What the configurations have in common.
Shared ==
  [g \in Groups |->
     CASE g \in {"atomic_cas", "atomic_rmw", "division", "imm", "icmp_imm"} -> On(Small)
       [] g \in {"byte_shuffle", "shuffle"} -> On({IX(8)})
       [] g = "min_max" -> On(Small \cup IVecs)
       [] g \in {"saturating", "vhigh_bits"} -> On(IVecs)
       [] g = "arithmetic" -> On(Ints \cup IVecs)
       [] g \in {"int_unary", "stack_load"} -> On(Ints \cup IVecs \cup FVecs)
       [] g = "bitwise" -> On(Ints \cup IVecs \cup Floats \cup FVecs)
       [] g = "shift" -> OnArgs(Ints \cup IVecs, Small)
       [] g \in {"float_arithmetic", "fcmp", "float_unary", "fma", "fcvt_to_int_sat"} ->
            On(Floats \cup FVecs)
       [] g \in {"snarrow", "unarrow"} -> On({IX(16), IX(32)})
       [] g \in {"uunarrow", "widen"} -> On({IX(16), IX(32), IX(64)})
       [] g = "iadd_pairwise" -> On({IX(8), IX(16), IX(32)})
       [] g = "iconcat" -> On({I(64)})
       [] g \in {"extractlane", "insertlane", "splat", "vtest", "scalar_to_vector"} ->
            On(IVecs \cup FVecs)
       [] g = "uadd_overflow_trap" -> On({I(32), I(64)})
       [] g = "icmp" -> On(Ints \cup (IVecs \ {IX(8)}))
       [] g = "load" -> On(Ints \cup IVecs \cup Floats)
       [] g \in {"load_fixed", "address", "float_width", "const"} -> On({})
       [] g = "bitcast" -> On({I(32), I(64), IX(16), IX(32), IX(64)} \cup Floats \cup FVecs)
       [] g = "store" -> On(Ints \cup IVecs \cup FVecs)
       [] g = "istore" -> On(Small)
       [] g = "select" -> OnArgs(Small, Small \cup IVecs \cup Floats \cup FVecs)
       [] g = "bitselect" -> On(Small \cup IVecs \cup Floats \cup FVecs)
       [] g = "bmask" -> OnArgs(Ints, Ints)
       [] g = "ireduce" -> On({I(8), I(16), I(32)})
       [] g \in {"extend", "isplit"} -> On(Ints \ {I(8)})
       [] g = "fcvt_to_int" -> On(Floats)
       [] g = "fcvt_from_int" -> On({I(32), I(64), IX(32), IX(64)})
       [] g = "carry" -> On({I(16), I(32), I(64)})
       [] g \in {"overflow", "pmaddubsw", "cvtt2dq", "pmulhrsw", "control"} -> {}]

Constants ==
  <<I(8), I(16), I(32), I(64), I(128), F(32), F(64), IX(8), IX(16), IX(32), IX(64),
    FX(32), FX(64)>>

X86 ==
  [operand_types |-> Constants \o <<F(16), FX(16)>>, unlisted |-> {},
   modes |-> [Shared EXCEPT
     !["overflow"] = On(Ints),
     !["pmaddubsw"] = On({IX(8)}),
     !["pmulhrsw"] = On({IX(16)}),
     !["cvtt2dq"] = On({FX(32)}),
     !["uunarrow"] = {},
     !["bitwise"] = On(Ints \cup IVecs \cup Floats \cup FVecs \cup {FX(16)}),
     !["int_unary"] = On(Types \ {F(128)}),
     !["load"] = On(Types \ {F(128)}),
     !["stack_load"] = On(Ints \cup IVecs \cup FVecs \cup {FX(16)}),
     !["bitcast"] = On({I(32), I(64), IX(16), IX(32), IX(64), FX(16)} \cup Floats \cup FVecs),
     !["vtest"] = On(IVecs \cup FVecs \cup {FX(16)}),
     !["scalar_to_vector"] = On((IVecs \ {IX(8)}) \cup FVecs),
     !["fcvt_to_int_sat"] = On(Floats \cup {FX(32)})]]

Aarch64 ==
  [operand_types |-> Constants \o <<F(16)>>, unlisted |-> {},
   modes |-> [Shared EXCEPT
     !["overflow"] = On(Ints),
     !["bitwise"] = On(Ints \cup IVecs \cup Floats \cup FVecs \cup {F(16)}),
     !["load"] = On(Ints \cup IVecs \cup Floats \cup FVecs \cup {F(16)}),
     !["bitselect"] = On(Small \cup IVecs \cup FVecs),
     !["vhigh_bits"] = On(IVecs \cup {FX(32)})]]

Riscv64 ==
  [operand_types |-> Constants, unlisted |-> {},
   modes |-> [Shared EXCEPT
     !["bitwise"] = On(Ints \cup IVecs \cup Floats \cup FVecs \cup {F(16)}),
     !["load"] = On(Ints \cup IVecs \cup Floats \cup {F(16)}),
     !["vtest"] = On(IVecs \cup {FX(32)}),
     !["scalar_to_vector"] = On(IVecs \cup {FX(32)})]]

S390x ==
  [operand_types |-> Constants, unlisted |-> {},
   modes |-> [Shared EXCEPT
     !["icmp"] = On(Ints \cup IVecs),
     !["bitwise"] = On(Ints \cup IVecs \cup FVecs),
     !["load"] = On(Ints \cup IVecs \cup Floats \cup FVecs),
     !["bitcast"] =
       On({I(32), I(64), I(128), IX(16), IX(32), IX(64)} \cup Floats \cup FVecs)]]

\* S390x without the one entry that makes the arm of icmp record a wrong type.
S390xNoIcmp8 == [S390x EXCEPT !.modes["icmp"] = Shared["icmp"]]

\* What config_intersection makes of them in compatible mode: the constants of
\* the first, and the types that all have.  The result types of stack_load and
\* scalar_to_vector differ, so that they lose their modes.
Compatible ==
  [operand_types |-> X86.operand_types, unlisted |-> {},
   modes |-> [Shared EXCEPT
     !["uunarrow"] = {},
     !["bitwise"] = On(Ints \cup IVecs \cup {FX(32), FX(64)}),
     !["vtest"] = On(IVecs \cup {FX(32)}),
     !["bitselect"] = On(Small \cup IVecs \cup FVecs),
     !["stack_load"] = {},
     !["scalar_to_vector"] = {},
     !["fcvt_to_int_sat"] = On(Floats \cup {FX(32)})]]

MCConfigs ==
  [a \in {"x86_64", "aarch64", "riscv64", "s390x", "s390x_no_icmp8", "compatible"} |->
     CASE a = "x86_64" -> X86
       [] a = "aarch64" -> Aarch64
       [] a = "riscv64" -> Riscv64
       [] a = "s390x" -> S390x
       [] a = "s390x_no_icmp8" -> S390xNoIcmp8
       [] a = "compatible" -> Compatible]

\* What the proofs suppose of a configuration is true of those of the repository.
ASSUME SuitableConfigs ==
  /\ \A a \in DOMAIN MCConfigs :
       IsConfig(MCConfigs[a]) /\ Covers(MCConfigs[a]) /\ ListsGoTogether(MCConfigs[a])
  /\ \A a \in DOMAIN MCConfigs : RecordsTruly(MCConfigs[a]) <=> a # "s390x"
============================================================================
