------------------------------- MODULE Output -------------------------------
(***************************************************************************)
(* The output directory: the loops of generate_ir and                      *)
(* generate_ir_intersection (src/bin/ir_generator.rs) over the programs    *)
(* and the files they write, and the commands run_single and               *)
(* run_compatible (scripts/entrypoint.sh), which check the directory       *)
(* afterwards with scripts/validate_output.sh.                             *)
(*                                                                         *)
(* The directory is a volume of the host: it outlives a command, and the   *)
(* next one finds in it what the last one has left.  A command may be      *)
(* stopped at any moment, creating a file may fail, which ends the         *)
(* generator, and writing one may fail, which it ignores.                  *)
(*                                                                         *)
(* In single mode Archs has one element, the directory itself.             *)
(***************************************************************************)
EXTENDS Integers, Sequences, FiniteSets

CONSTANTS
  Archs,      \* the sequence of the architectures to write files for
  Nums,       \* the values of NUM_CASES considered
  MaxRuns,    \* bound: the number of commands given
  MaxLost     \* bound: the files a command does not write in full, but for the
              \* cases in which all three of a program end alike

\* Each architecture is given once, as run_compatible does.
ASSUME OutputAssumption ==
  /\ Archs \in Seq({Archs[a] : a \in DOMAIN Archs}) /\ Archs # <<>>
  /\ \A a, b \in DOMAIN Archs : Archs[a] = Archs[b] => a = b
  /\ Nums \subseteq Nat /\ \E n \in Nums : \A m \in Nums : m <= n
  /\ MaxRuns \in Nat /\ MaxLost \in Nat

VARIABLES
  dir,        \* the CLIF files: for each the run and the program it holds, and
              \* how much of it has been written
  run,        \* the number of commands given
  num,        \* NUM_CASES of the current command
  fileid,     \* fileid, the program it is at
  arch,       \* the position in Archs of the loop over the configurations
  pc,         \* "idle", "program", "create", "write" or "validate"
  result,     \* how the last command has ended: "none", "passed", "rejected"
              \* by validate_output.sh, or "stopped"
  lost        \* how many files the command has not written in full (history)

vars == <<dir, run, num, fileid, arch, pc, result, lost>>

----------------------------------------------------------------------------
\* The suffixes of the three files of a program, in the order of creation.
Levels == <<"none", "speed", "speed_and_size">>

\* No counter goes beyond this bound: one program more than ever asked for.
IdBound == 1 + CHOOSE n \in Nums : \A m \in Nums : m <= n

File(a, id, level) == <<a, id, level>>

\* The file of that suffix that the generator is at.
Now(level) == File(Archs[arch], fileid, level)

Init ==
  /\ dir = [f \in {} |-> 0]
  /\ run = 0 /\ num = 0 /\ fileid = 0 /\ arch = 1
  /\ pc = "idle"
  /\ result = "none"
  /\ lost = 0

\* run_single or run_compatible is called with n.
Start ==
  /\ pc = "idle"
  /\ run < MaxRuns
  /\ \E n \in Nums : num' = n
  /\ run' = run + 1
  /\ fileid' = 0
  /\ pc' = "program"
  /\ result' = "none"
  /\ lost' = 0
  /\ UNCHANGED <<dir, arch>>

\* The program fileid is generated (module CallGraph).
NewProgram ==
  /\ pc = "program"
  /\ arch' = 1
  /\ pc' = "create"
  /\ UNCHANGED <<dir, run, num, fileid, result, lost>>

\* The files of the program for one architecture are created, or emptied if
\* they exist.  If one cannot be created the generator panics and the shell
\* script ends there.
CreateFiles ==
  /\ pc = "create"
  /\ \E n \in 0 .. Len(Levels) :
       LET new == {Now(Levels[i]) : i \in 1 .. n}
       IN  /\ dir' = [f \in DOMAIN dir \cup new |->
                        IF f \in new
                        THEN [run |-> run, id |-> fileid, content |-> "empty"]
                        ELSE dir[f]]
           /\ IF n = Len(Levels)
              THEN pc' = "write" /\ UNCHANGED result
              ELSE pc' = "idle" /\ result' = "stopped"
  /\ UNCHANGED <<run, num, fileid, arch, lost>>

\* Broken variant of NextId: the counter stays where it is.
SameId == fileid

\* fileid += 1
NextId == IF fileid < IdBound THEN fileid + 1 ELSE fileid

\* Broken variant of Enough: one program too many.
MoreThanEnough(id) == id > num

\* The test at the end of the loop.
Enough(id) == id >= num

\* The files that are not written in full, if c is what each of them holds.
NotFull(c) == {i \in DOMAIN c : c[i] # "full"}

\* What three write_all in a row may leave of the files: each may fail, at once or
\* halfway, whatever becomes of the others, and all may on a disk that is full.
Contents ==
  {c \in [1 .. Len(Levels) -> {"empty", "partial", "full"}] :
     \/ \A i, j \in DOMAIN c : c[i] = c[j]
     \/ lost + Cardinality(NotFull(c)) <= MaxLost}

\* The three write_all of the program for one architecture, whose results are
\* ignored, and after the last architecture the end of the loop.
WriteFiles ==
  /\ pc = "write"
  /\ \E c \in Contents :
       /\ dir' = [f \in DOMAIN dir |->
                    IF \E i \in DOMAIN c : f = Now(Levels[i])
                    THEN [dir[f] EXCEPT !.content =
                            c[CHOOSE i \in DOMAIN c : f = Now(Levels[i])]]
                    ELSE dir[f]]
       /\ lost' = lost + Cardinality(NotFull(c))
  /\ IF arch < Len(Archs)
     THEN /\ arch' = arch + 1
          /\ pc' = "create"
          /\ UNCHANGED fileid
     ELSE /\ fileid' = NextId
          /\ pc' = IF Enough(NextId) THEN "validate" ELSE "program"
          /\ UNCHANGED arch
  /\ UNCHANGED <<run, num, result>>

\* Broken variant of CountMatches: more files than expected are accepted.
CountSuffices == Cardinality(DOMAIN dir) >= num * Len(Levels) * Len(Archs)

CountMatches == Cardinality(DOMAIN dir) = num * Len(Levels) * Len(Archs)

\* The first line of a file that was not written to its end may be missing.
DirectiveFound ==
  IF \E f \in DOMAIN dir : dir[f].content = "full" THEN {TRUE}
  ELSE IF \E f \in DOMAIN dir : dir[f].content = "partial" THEN BOOLEAN
  ELSE {FALSE}

\* validate_output.sh
Validate ==
  /\ pc = "validate"
  /\ \E found \in DirectiveFound :
       result' = IF /\ num > 0
                    /\ \A a \in DOMAIN Archs : \E f \in DOMAIN dir : f[1] = Archs[a]
                    /\ CountMatches
                    /\ \A f \in DOMAIN dir : dir[f].content # "empty"
                    /\ \A i \in DOMAIN Levels : \E f \in DOMAIN dir : f[3] = Levels[i]
                    /\ found
                 THEN "passed" ELSE "rejected"
  /\ pc' = "idle"
  /\ UNCHANGED <<dir, run, num, fileid, arch, lost>>

\* The container is stopped.
Stop ==
  /\ pc # "idle"
  /\ pc' = "idle"
  /\ result' = "stopped"
  /\ UNCHANGED <<dir, run, num, fileid, arch, lost>>

Finished ==
  /\ pc = "idle" /\ run = MaxRuns
  /\ UNCHANGED vars

Step == NewProgram \/ CreateFiles \/ WriteFiles \/ Validate
Next == Start \/ Step \/ Stop \/ Finished

\* A command goes on until it ends; nobody need give one or stop one.
Spec == Init /\ [][Next]_vars /\ WF_vars(Step)

----------------------------------------------------------------------------
\* A command that passes has left exactly the three files of every program it
\* was asked for, for every architecture, none empty and none of an earlier
\* command, whatever the earlier ones had left and although failed writes are
\* ignored.
PassedIsFresh ==
  result = "passed" =>
    /\ DOMAIN dir = {File(Archs[a], id, Levels[i]) :
                       a \in DOMAIN Archs, id \in 0 .. (num - 1), i \in DOMAIN Levels}
    /\ \A f \in DOMAIN dir : dir[f].run = run /\ dir[f].content # "empty"

\* A command for one or more programs that is not stopped and loses no write is
\* rejected only for files an earlier command has left: those of more programs
\* than it was asked for, which nothing ever removes.
RejectedOnlyForLeftovers ==
  result = "rejected" /\ num > 0 /\ lost = 0 =>
    \E f \in DOMAIN dir : f[2] >= num /\ dir[f].run < run

\* Every command ends, also one for zero programs.
CommandsEnd == pc # "idle" ~> pc = "idle"

----------------------------------------------------------------------------
\* The directory holds finitely many files, of some architecture and suffix.
DirOK ==
  /\ IsFiniteSet(DOMAIN dir)
  /\ \A f \in DOMAIN dir :
       /\ \E a \in DOMAIN Archs, i \in DOMAIN Levels : f = File(Archs[a], f[2], Levels[i])
       /\ f[2] \in Nat
       /\ dir[f] \in [run : 1 .. run, id : {f[2]}, content : {"empty", "partial", "full"}]

\* The variables have their types.
TypeOK ==
  /\ DirOK
  /\ run \in 0 .. MaxRuns /\ num \in Nums \cup {0}
  /\ fileid \in Nat /\ arch \in DOMAIN Archs
  /\ pc \in {"idle", "program", "create", "write", "validate"}
  /\ result \in {"none", "passed", "rejected", "stopped"} /\ lost \in Nat

\* The command has written the files of that program for that architecture.
Past(a, id) == id < fileid \/ (id = fileid /\ pc \in {"create", "write"} /\ a < arch)

\* A file that the command has written.
Fresh(f) == f \in DOMAIN dir /\ dir[f].run = run /\ (lost = 0 => dir[f].content = "full")

\* While a command goes on, the directory holds the files of the programs it is
\* past, and of the programs after the current one only files of earlier
\* commands.
Progress ==
  pc # "idle" =>
    /\ result = "none" /\ run > 0
    /\ \A a \in DOMAIN Archs, id \in 0 .. fileid, i \in DOMAIN Levels :
         Past(a, id) => Fresh(File(Archs[a], id, Levels[i]))
    /\ \A f \in DOMAIN dir : dir[f].run = run =>
         f[2] <= fileid /\ (pc \in {"program", "validate"} => f[2] < fileid)
    /\ pc # "validate" => fileid = 0 \/ fileid < num
    /\ pc = "validate" /\ num > 0 => fileid = num
    /\ pc = "write" => \A i \in DOMAIN Levels :
         Now(Levels[i]) \in DOMAIN dir /\ dir[Now(Levels[i])].run = run

\* The inductive invariant behind PassedIsFresh and RejectedOnlyForLeftovers.
IInv == TypeOK /\ Progress /\ PassedIsFresh /\ RejectedOnlyForLeftovers
============================================================================
