------------------------ MODULE MCConfigIntersection ------------------------
(***************************************************************************)
(* ConfigIntersection for three architectures, one instruction that may be *)
(* missing, two modes and two types.                                       *)
(***************************************************************************)
EXTENDS ConfigIntersection

Types == {"f16", "f32"}
Lists == {{}} \cup {{T} : T \in SUBSET Types \ {{}}}

\* At most one mode of each name, as in the configuration files.
ModeSets ==
  {M \cup N : M \in {{}} \cup {{[name |-> "m1", result |-> "same", types |-> L]} : L \in Lists},
             N \in {{}} \cup {{[name |-> "m2", result |-> r, types |-> {{"f32"}}]} :
                             r \in {"same", "wider"}}}

Instructions ==
  {[i \in {} |-> {}]} \cup [{"fadd"} -> {{}} \cup {{M} : M \in ModeSets \ {{}}}]

MCArchs == <<"x86_64", "aarch64", "riscv64">>
MCConfigs == [operand_types : {{"f32"}}, modes : Instructions]

MCTwoArchs == <<"x86_64", "riscv64">>
MCConstants == [operand_types : {{"f32"}, {"f16", "f32"}}, modes : {[i \in {} |-> {}]}]
============================================================================
