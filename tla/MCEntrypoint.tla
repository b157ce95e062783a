---------------------------- MODULE MCEntrypoint ----------------------------
(***************************************************************************)
(* Two shells for module Entrypoint, with the commands that differ in what *)
(* they do to the database.                                                *)
(***************************************************************************)
EXTENDS Entrypoint

MCShells == {"a", "b"}

MCCommands ==
  {[a |-> "reduced", b |-> "reduced"], [a |-> "reduced", b |-> "raw"],
   [a |-> "reduced", b |-> "shell"]}

============================================================================
