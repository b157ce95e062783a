------------------------------ MODULE MCCorpus ------------------------------
(***************************************************************************)
(* Directories for module Corpus: functions that share blocks and lengths, *)
(* within a file and between files, and files of the other kinds.          *)
(***************************************************************************)
EXTENDS Corpus

MCFormat == [iadd |-> "Binary", imul |-> "Binary", iconst |-> "UnaryImm"]

Add == [kind |-> "function", blocks |-> <<<<"iadd">>, <<"iconst", "iadd">>>>]
Mul == [kind |-> "function", blocks |-> <<<<"imul">>>>]
Other(kind) == [kind |-> kind, blocks |-> <<>>]

MCDirectories ==
  {[add |-> Add, mul |-> Mul, text |-> Other("unparsable")],
   [mul |-> Mul, locked |-> Other("unreadable")],
   [mul |-> Mul, blank |-> Other("empty")]}

============================================================================
