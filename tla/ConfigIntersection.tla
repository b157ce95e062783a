------------------------- MODULE ConfigIntersection -------------------------
(***************************************************************************)
(* The configuration of compatible mode (crates/commons/src/types.rs,      *)
(* config_intersection, and the "compatible" arm of main in                *)
(* src/bin/ir_generator.rs).                                               *)
(*                                                                         *)
(* Every architecture has a configuration: the types of the constants a    *)
(* function starts with, and for every instruction the modes in which it   *)
(* may be generated.  config_intersection starts from the first one and    *)
(* meets the modes of its instructions with those of the others in turn.   *)
(* main then hands the result, with the header of each architecture in     *)
(* turn, to the generator.                                                 *)
(*                                                                         *)
(* An Option is the set of its values: {} for None, {x} for Some(x).  Of   *)
(* the lists of a mode (operand_types, arg0_types, arg1_types) one stands  *)
(* for all three, and result stands for result_type and memory, which must *)
(* be equal.  Lists are sets: a mode is drawn from them at random.         *)
(***************************************************************************)
EXTENDS Integers, Sequences

CONSTANTS
  Arguments,   \* the sequence of the architectures on the command line
  ConfigFiles  \* the configurations considered for each: operand_types, and the
               \* modes of every instruction, an Option

\* The records Mode and Config, with the fields that matter.
IsMode(m) == m = [name |-> m.name, result |-> m.result, types |-> m.types]
IsConfigFile(c) ==
  /\ c = [operand_types |-> c.operand_types, modes |-> c.modes]
  /\ \A i \in DOMAIN c.modes : \A list \in c.modes[i] : \A m \in list : IsMode(m)

\* clap wants at least one configuration.
ASSUME ConfigAssumption ==
  /\ Len(Arguments) \in Nat \ {0}
  /\ \A c \in ConfigFiles : IsConfigFile(c)

VARIABLES
  configs,  \* the sequence of configurations read, one per architecture
  final,    \* final_config
  k,        \* the configuration the loop of config_intersection, and then the
            \* loop of main, comes to next
  headers,  \* what main has pushed: the architecture and its configuration
  phase     \* "meet", "headers" or "done"

configVars == <<configs, final, k, headers, phase>>

----------------------------------------------------------------------------
\* None if one of the lists is, or if nothing is left.
IntersectOptionalVec(a, b) == {x \cap y : x \in a, y \in b} \ {{}}

\* Mode::intersect, an Option.
Intersect(m, o) ==
  IF m.name # o.name \/ m.result # o.result THEN {}
  ELSE {[m EXCEPT !.types = IntersectOptionalVec(m.types, o.types)]}

\* The modes that two lists of modes have in common.
MeetLists(x, y) == UNION {Intersect(m, o) : m \in x, o \in y}

\* Broken variants of MeetModes: an instruction without modes on one side
\* keeps those of the other; modes are met with the first of the others only.
MeetOrKeep(a, b) ==
  IF a = {} \/ b = {} THEN a \cup b
  ELSE {MeetLists(x, y) : x \in a, y \in b} \ {{}}

MeetFirst(a, b) ==
  {UNION {Intersect(m, CHOOSE o \in y : TRUE) : m \in x} : x \in a, y \in b} \ {{}}

\* The modes of one instruction in two configurations: None if either has none
\* or no mode is left.
MeetModes(a, b) == {MeetLists(x, y) : x \in a, y \in b} \ {{}}

ConfigInit ==
  /\ configs \in [1 .. Len(Arguments) -> ConfigFiles]
  /\ final = configs[1]
  /\ k = 2
  /\ headers = <<>>
  /\ phase = "meet"

\* One iteration of the loop of config_intersection.  An instruction that the
\* other configuration does not have loses its modes.
Meet ==
  /\ phase = "meet"
  /\ k <= Len(configs)
  /\ LET other == configs[k].modes
     IN  final' = [final EXCEPT !.modes =
                     [i \in DOMAIN @ |->
                        IF i \in DOMAIN other THEN MeetModes(@[i], other[i]) ELSE {}]]
  /\ k' = k + 1
  /\ UNCHANGED <<configs, headers, phase>>

EndMeet ==
  /\ phase = "meet"
  /\ k > Len(configs)
  /\ k' = 1
  /\ phase' = "headers"
  /\ UNCHANGED <<configs, final, headers>>

\* One iteration of the loop of main.
AddHeader ==
  /\ phase = "headers"
  /\ k <= Len(configs)
  /\ headers' = Append(headers, [arch |-> Arguments[k], config |-> final])
  /\ k' = k + 1
  /\ UNCHANGED <<configs, final, phase>>

EndHeaders ==
  /\ phase = "headers"
  /\ k > Len(configs)
  /\ phase' = "done"
  /\ UNCHANGED <<configs, final, k, headers>>

Done ==
  /\ phase = "done"
  /\ UNCHANGED configVars

ConfigNext == Meet \/ EndMeet \/ AddHeader \/ EndHeaders \/ Done

ConfigSpec == ConfigInit /\ [][ConfigNext]_configVars

----------------------------------------------------------------------------
\* The modes of instruction i in configuration c.
Modes(c, i) == IF i \in DOMAIN c.modes THEN UNION c.modes[i] ELSE {}

\* Configuration c has mode m of i, with at least the types of m.
Allows(c, i, m) ==
  \E o \in Modes(c, i) :
    /\ o.name = m.name /\ o.result = m.result
    /\ \A T \in m.types : \E U \in o.types : T \subseteq U

\* The mode m with the type t alone.
Only(m, t) == [name |-> m.name, result |-> m.result, types |-> {{t}}]

Finished == phase \in {"headers", "done"}

\* Whatever mode and types the intersection offers, every architecture has
\* them, so that an instruction drawn from it can be written for all of them.
SharedByAll ==
  Finished =>
    \A i \in DOMAIN final.modes : \A m \in Modes(final, i) :
      \A a \in DOMAIN configs : Allows(configs[a], i, m)

\* The intersection loses nothing: an instruction mode that every architecture
\* has, with a common type, is offered with that type, whatever the order in
\* which the configurations are met.
NothingLost ==
  Finished =>
    \A i \in DOMAIN configs[1].modes : \A m \in Modes(configs[1], i) :
      \A t \in UNION m.types :
        (\A a \in DOMAIN configs : Allows(configs[a], i, Only(m, t)))
          => \E o \in Modes(final, i) :
               o.name = m.name /\ o.result = m.result /\ t \in UNION o.types

\* Compatible mode "generates shared programs for all four architectures": the
\* constants every function starts with are of types that each has.
ConstantsShared ==
  Finished =>
    \A a \in DOMAIN configs : final.operand_types \subseteq configs[a].operand_types

\* Why the two hold: what final_config offers the configurations met so far have,
\* and what they all have it offers.
Met == IF phase = "meet" THEN 1 .. (k - 1) ELSE DOMAIN configs

SharedSoFar ==
  \A i \in DOMAIN final.modes : \A m \in Modes(final, i) :
    \A a \in Met : Allows(configs[a], i, m)

NothingLostSoFar ==
  \A i \in DOMAIN configs[1].modes : \A m \in Modes(configs[1], i) :
    \A t \in UNION m.types :
      (\A a \in Met : Allows(configs[a], i, Only(m, t)))
        => \E o \in Modes(final, i) :
             o.name = m.name /\ o.result = m.result /\ t \in UNION o.types

\* The variables have their types.
TypeOK ==
  /\ configs \in [1 .. Len(Arguments) -> ConfigFiles]
  /\ IsConfigFile(final) /\ DOMAIN final.modes = DOMAIN configs[1].modes
  /\ k \in Nat /\ (phase = "meet" => k \in 2 .. (Len(Arguments) + 1))
  /\ phase \in {"meet", "headers", "done"}

\* The inductive invariant behind SharedByAll and NothingLost.
IInv == TypeOK /\ SharedSoFar /\ NothingLostSoFar
============================================================================
