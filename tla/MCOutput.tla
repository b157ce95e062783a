------------------------------ MODULE MCOutput ------------------------------
(***************************************************************************)
(* Output for compatible mode with two architectures, and commands for     *)
(* zero, one or two programs in the same directory.                        *)
(***************************************************************************)
EXTENDS Output

MCArchs == <<"x86_64", "s390x">>
============================================================================
