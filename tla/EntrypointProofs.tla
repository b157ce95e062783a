-------------------------- MODULE EntrypointProofs --------------------------
(***************************************************************************)
(* Proofs about module Entrypoint, for any number of shells, commands,     *)
(* attempts, signals and crashes: a generator gets the whole corpus, a     *)
(* command stops its own server only, and leaves none behind, each but for *)
(* the cases the properties name.                                          *)
(*                                                                         *)
(* The three follow from the inductive invariant IInv.  It holds because   *)
(* one server at a time can run: two shells that have started one, neither *)
(* of which has lost it, would both own it.  There is a lemma per action.  *)
(***************************************************************************)
EXTENDS Entrypoint, TLAPS

\* In the initial state no command has been given and no server runs.
LEMMA InitHolds == Init => IInv
<1> SUFFICES ASSUME Init PROVE IInv
  OBVIOUS
<1> USE EntrypointAssumption
<1>1. TypeOK
  <2>1. \A c \in DOMAIN Generators : Generators[c] \in 0..2
    BY DEF Generators
  <2>2. left \in [Shells -> 0..2]
    BY <2>1 DEF Init
  <2>3. attempt \in [Shells -> 1..MaxAttempts]
    BY DEF Init
  <2>4. signals \in 0..MaxSignals /\ crashes \in 0..MaxCrashes
    BY DEF Init
  <2>5. pc \in [Shells -> Locations]
    BY DEF Init, Locations
  <2>6. read \in [Shells -> {"unread", "none", "partial", "full"}]
    BY DEF Init
  <2> QED
    BY <2>2, <2>3, <2>4, <2>5, <2>6, Zenon DEF Init, TypeOK
<1>2. Ownership
  BY DEF Init, Ownership, Holds, Marked
<1>3. CorpusStays
  BY DEF Init, CorpusStays
<1>4. WholeCorpus /\ KillsOwnServer /\ NoServerLeft
  BY DEF Init, WholeCorpus, KillsOwnServer, NoServerLeft
<1> QED
  BY <1>1, <1>2, <1>3, <1>4 DEF IInv

\* Giving a command touches no server: the shell leaves "idle", which makes
\* Calm false for the others at most.
LEMMA GiveKeeps ==
  ASSUME IInv, NEW p \in Shells, Give(p)
  PROVE  IInv'
<1> USE EntrypointAssumption DEF IInv
<1>1. TypeOK'
  BY DEF TypeOK, Locations, Boundary, Give, Goto, serverVars, history
<1>2. Ownership'
  BY DEF TypeOK, Ownership, Holds, Marked, Boundary, Locations, Give, Goto,
     serverVars, history
<1>3. CorpusStays'
  BY DEF TypeOK, CorpusStays, Calm, HasRestored, Ownership, Holds, Marked, Give, Goto,
     serverVars, history
<1>4. WholeCorpus'
  BY DEF TypeOK, WholeCorpus, CorpusStays, Calm, HasRestored, Ownership, Holds,
     Marked, Give, Goto, serverVars, history
<1>5. KillsOwnServer'
  BY DEF TypeOK, KillsOwnServer, Ownership, Holds, Marked, Boundary, Give, Goto,
     serverVars, history
<1>6. NoServerLeft'
  BY DEF TypeOK, NoServerLeft, Ownership, Holds, Marked, Give, Goto, serverVars,
     history
<1> QED
  BY <1>1, <1>2, <1>3, <1>4, <1>5, <1>6

\* Nothing but the place of the shell changes when mongod begins.
LEMMA BeginServerKeeps ==
  ASSUME IInv, NEW p \in Shells, BeginServer(p)
  PROVE  IInv'
<1> USE EntrypointAssumption DEF IInv
<1>1. TypeOK'
  BY DEF TypeOK, Locations, Boundary, BeginServer, Begin, Goto, serverVars, history
<1>2. Ownership'
  BY DEF TypeOK, Ownership, Holds, Marked, Boundary, Locations, BeginServer, Begin,
     Goto, serverVars, history
<1>3. CorpusStays'
  BY DEF TypeOK, CorpusStays, Calm, HasRestored, Ownership, Holds, Marked,
     BeginServer, Begin, Goto, serverVars, history
<1>4. WholeCorpus'
  BY DEF TypeOK, WholeCorpus, CorpusStays, Calm, HasRestored, Ownership, Holds,
     Marked, BeginServer, Begin, Goto, serverVars, history
<1>5. KillsOwnServer'
  BY DEF TypeOK, KillsOwnServer, Ownership, Holds, Marked, Boundary, BeginServer,
     Begin, Goto, serverVars, history
<1>6. NoServerLeft'
  BY DEF TypeOK, NoServerLeft, Ownership, Holds, Marked, BeginServer, Begin, Goto,
     serverVars, history
<1> QED
  BY <1>1, <1>2, <1>3, <1>4, <1>5, <1>6

\* A server starts only where none runs, so that the shell is the only one
\* to hold one.
LEMMA StartServerKeeps ==
  ASSUME IInv, NEW p \in Shells, StartServer(p)
  PROVE  IInv'
<1> USE EntrypointAssumption DEF IInv
<1>1. TypeOK'
  BY DEF TypeOK, Locations, Boundary, StartServer, Goto, serverVars, history,
     ServerStarts
<1>2. Ownership'
  BY DEF TypeOK, Ownership, Holds, Marked, Boundary, Locations, StartServer, Goto,
     serverVars, history, ServerStarts
<1>3. CorpusStays'
  BY DEF TypeOK, CorpusStays, Calm, HasRestored, Ownership, Holds, Marked,
     StartServer, Goto, serverVars, history, ServerStarts
<1>4. WholeCorpus'
  BY DEF TypeOK, WholeCorpus, CorpusStays, Calm, HasRestored, Ownership, Holds,
     Marked, StartServer, Goto, serverVars, history, ServerStarts
<1>5. KillsOwnServer'
  BY DEF TypeOK, KillsOwnServer, Ownership, Holds, Marked, Boundary, StartServer,
     Goto, serverVars, history, ServerStarts
<1>6. NoServerLeft'
  BY DEF TypeOK, NoServerLeft, Ownership, Holds, Marked, StartServer, Goto,
     serverVars, history, ServerStarts
<1> QED
  BY <1>1, <1>2, <1>3, <1>4, <1>5, <1>6

\* db_started is set by a shell that has started its server.
LEMMA MarkStartedKeeps ==
  ASSUME IInv, NEW p \in Shells, MarkStarted(p)
  PROVE  IInv'
<1> USE EntrypointAssumption DEF IInv
<1>1. TypeOK'
  BY DEF TypeOK, Locations, Boundary, MarkStarted, Begin, Goto, serverVars, history
<1>2. Ownership'
  BY DEF TypeOK, Ownership, Holds, Marked, Boundary, Locations, MarkStarted, Begin,
     Goto, serverVars, history
<1>3. CorpusStays'
  BY DEF TypeOK, CorpusStays, Calm, HasRestored, Ownership, Holds, Marked,
     MarkStarted, Begin, Goto, serverVars, history
<1>4. WholeCorpus'
  BY DEF TypeOK, WholeCorpus, CorpusStays, Calm, HasRestored, Ownership, Holds,
     Marked, MarkStarted, Begin, Goto, serverVars, history
<1>5. KillsOwnServer'
  BY DEF TypeOK, KillsOwnServer, Ownership, Holds, Marked, Boundary, MarkStarted,
     Begin, Goto, serverVars, history
<1>6. NoServerLeft'
  BY DEF TypeOK, NoServerLeft, Ownership, Holds, Marked, MarkStarted, Begin, Goto,
     serverVars, history
<1> QED
  BY <1>1, <1>2, <1>3, <1>4, <1>5, <1>6

\* Dropping the collection harms no calm reader: the shell that restores
\* would have to own the server the reader owns.
LEMMA BeginRestoreKeeps ==
  ASSUME IInv, NEW p \in Shells, BeginRestore(p)
  PROVE  IInv'
<1> USE EntrypointAssumption DEF IInv
<1>1. TypeOK'
  BY DEF TypeOK, Locations, Boundary, BeginRestore, Begin, Goto, history, CutReaders,
     Reading, Up
<1>2. Ownership'
  BY DEF TypeOK, Ownership, Holds, Marked, Boundary, Locations, BeginRestore, Begin,
     Goto, history, CutReaders, Reading, Up
<1>3. CorpusStays'
  BY DEF TypeOK, CorpusStays, Calm, HasRestored, Ownership, Holds, Marked,
     BeginRestore, Begin, Goto, history, CutReaders, Reading, Up
<1>4. WholeCorpus'
  BY DEF TypeOK, WholeCorpus, CorpusStays, Calm, HasRestored, Ownership, Holds,
     Marked, BeginRestore, Begin, Goto, history, CutReaders, Reading, Up
<1>5. KillsOwnServer'
  BY DEF TypeOK, KillsOwnServer, Ownership, Holds, Marked, Boundary, BeginRestore,
     Begin, Goto, history, CutReaders, Reading, Up
<1>6. NoServerLeft'
  BY DEF TypeOK, NoServerLeft, Ownership, Holds, Marked, BeginRestore, Begin, Goto,
     history, CutReaders, Reading, Up
<1> QED
  BY <1>1, <1>2, <1>3, <1>4, <1>5, <1>6

\* A restore of a calm shell has no other beside it and leaves the
\* collection whole.
LEMMA RestoredKeeps ==
  ASSUME IInv, NEW p \in Shells, Restored(p)
  PROVE  IInv'
<1> USE EntrypointAssumption DEF IInv
<1>1. TypeOK'
  BY DEF TypeOK, Locations, Boundary, Restored, Goto, history, Up
<1>2. Ownership'
  BY DEF TypeOK, Ownership, Holds, Marked, Boundary, Locations, Restored, Goto,
     history, Up
<1>3. CorpusStays'
  BY DEF TypeOK, CorpusStays, Calm, HasRestored, Ownership, Holds, Marked, Restored,
     Goto, history, Up
<1>4. WholeCorpus'
  BY DEF TypeOK, WholeCorpus, CorpusStays, Calm, HasRestored, Ownership, Holds,
     Marked, Restored, Goto, history, Up
<1>5. KillsOwnServer'
  BY DEF TypeOK, KillsOwnServer, Ownership, Holds, Marked, Boundary, Restored, Goto,
     history, Up
<1>6. NoServerLeft'
  BY DEF TypeOK, NoServerLeft, Ownership, Holds, Marked, Restored, Goto, history, Up
<1> QED
  BY <1>1, <1>2, <1>3, <1>4, <1>5, <1>6

\* A failed restore leads to no generator.
LEMMA RestoreFailsKeeps ==
  ASSUME IInv, NEW p \in Shells, RestoreFails(p)
  PROVE  IInv'
<1> USE EntrypointAssumption DEF IInv
<1>1. TypeOK'
  BY DEF TypeOK, Locations, Boundary, RestoreFails, Goto, serverVars, history
<1>2. Ownership'
  BY DEF TypeOK, Ownership, Holds, Marked, Boundary, Locations, RestoreFails, Goto,
     serverVars, history
<1>3. CorpusStays'
  BY DEF TypeOK, CorpusStays, Calm, HasRestored, Ownership, Holds, Marked,
     RestoreFails, Goto, serverVars, history
<1>4. WholeCorpus'
  BY DEF TypeOK, WholeCorpus, CorpusStays, Calm, HasRestored, Ownership, Holds,
     Marked, RestoreFails, Goto, serverVars, history
<1>5. KillsOwnServer'
  BY DEF TypeOK, KillsOwnServer, Ownership, Holds, Marked, Boundary, RestoreFails,
     Goto, serverVars, history
<1>6. NoServerLeft'
  BY DEF TypeOK, NoServerLeft, Ownership, Holds, Marked, RestoreFails, Goto,
     serverVars, history
<1> QED
  BY <1>1, <1>2, <1>3, <1>4, <1>5, <1>6

\* Another attempt, or the last one: db_started is set by now.
LEMMA RetryKeeps ==
  ASSUME IInv, NEW p \in Shells, Retry(p)
  PROVE  IInv'
<1> USE EntrypointAssumption DEF IInv
<1>1. TypeOK'
  BY DEF TypeOK, Locations, Boundary, Retry, Begin, Goto, serverVars, history
<1>2. Ownership'
  BY DEF TypeOK, Ownership, Holds, Marked, Boundary, Locations, Retry, Begin, Goto,
     serverVars, history
<1>3. CorpusStays'
  BY DEF TypeOK, CorpusStays, Calm, HasRestored, Ownership, Holds, Marked, Retry,
     Begin, Goto, serverVars, history
<1>4. WholeCorpus'
  BY DEF TypeOK, WholeCorpus, CorpusStays, Calm, HasRestored, Ownership, Holds,
     Marked, Retry, Begin, Goto, serverVars, history
<1>5. KillsOwnServer'
  BY DEF TypeOK, KillsOwnServer, Ownership, Holds, Marked, Boundary, Retry, Begin,
     Goto, serverVars, history
<1>6. NoServerLeft'
  BY DEF TypeOK, NoServerLeft, Ownership, Holds, Marked, Retry, Begin, Goto,
     serverVars, history
<1> QED
  BY <1>1, <1>2, <1>3, <1>4, <1>5, <1>6

\* start_database returns only after a restore: exec happens only here.
LEMMA ReturnKeeps ==
  ASSUME IInv, NEW p \in Shells, Return(p)
  PROVE  IInv'
<1> USE EntrypointAssumption DEF IInv
<1>1. TypeOK'
  BY DEF TypeOK, Locations, Boundary, Return, Begin, Goto, serverVars, history,
     AfterStart
<1>2. Ownership'
  BY DEF TypeOK, Ownership, Holds, Marked, Boundary, Locations, Return, Begin, Goto,
     serverVars, history, AfterStart
<1>3. CorpusStays'
  BY DEF TypeOK, CorpusStays, Calm, HasRestored, Ownership, Holds, Marked, Return,
     Begin, Goto, serverVars, history, AfterStart
<1>4. WholeCorpus'
  BY DEF TypeOK, WholeCorpus, CorpusStays, Calm, HasRestored, Ownership, Holds,
     Marked, Return, Begin, Goto, serverVars, history, AfterStart
<1>5. KillsOwnServer'
  BY DEF TypeOK, KillsOwnServer, Ownership, Holds, Marked, Boundary, Return, Begin,
     Goto, serverVars, history, AfterStart
<1>6. NoServerLeft'
  BY DEF TypeOK, NoServerLeft, Ownership, Holds, Marked, Return, Begin, Goto,
     serverVars, history, AfterStart
<1> QED
  BY <1>1, <1>2, <1>3, <1>4, <1>5, <1>6

\* The generator begins where the collection is whole.
LEMMA BeginGeneratorKeeps ==
  ASSUME IInv, NEW p \in Shells, BeginGenerator(p)
  PROVE  IInv'
<1> USE EntrypointAssumption DEF IInv
<1>1. TypeOK'
  BY DEF TypeOK, Locations, Boundary, BeginGenerator, Begin, Goto, serverVars, history
<1>2. Ownership'
  BY DEF TypeOK, Ownership, Holds, Marked, Boundary, Locations, BeginGenerator, Begin,
     Goto, serverVars, history
<1>3. CorpusStays'
  BY DEF TypeOK, CorpusStays, Calm, HasRestored, Ownership, Holds, Marked,
     BeginGenerator, Begin, Goto, serverVars, history
<1>4. WholeCorpus'
  BY DEF TypeOK, WholeCorpus, CorpusStays, Calm, HasRestored, Ownership, Holds,
     Marked, BeginGenerator, Begin, Goto, serverVars, history
<1>5. KillsOwnServer'
  BY DEF TypeOK, KillsOwnServer, Ownership, Holds, Marked, Boundary, BeginGenerator,
     Begin, Goto, serverVars, history
<1>6. NoServerLeft'
  BY DEF TypeOK, NoServerLeft, Ownership, Holds, Marked, BeginGenerator, Begin, Goto,
     serverVars, history
<1> QED
  BY <1>1, <1>2, <1>3, <1>4, <1>5, <1>6

\* A generator that connects in a calm shell finds the whole collection.
LEMMA ConnectKeeps ==
  ASSUME IInv, NEW p \in Shells, Connect(p)
  PROVE  IInv'
<1> USE EntrypointAssumption DEF IInv
<1>1. TypeOK'
  BY DEF TypeOK, Locations, Boundary, Connect, Goto, serverVars, Up, AfterFailure
<1>2. Ownership'
  BY DEF TypeOK, Ownership, Holds, Marked, Boundary, Locations, Connect, Goto,
     serverVars, Up, AfterFailure
<1>3. CorpusStays'
  BY DEF TypeOK, CorpusStays, Calm, HasRestored, Ownership, Holds, Marked, Connect,
     Goto, serverVars, Up, AfterFailure
<1>4. WholeCorpus'
  BY DEF TypeOK, WholeCorpus, CorpusStays, Calm, HasRestored, Ownership, Holds,
     Marked, Connect, Goto, serverVars, Up, AfterFailure
<1>5. KillsOwnServer'
  BY DEF TypeOK, KillsOwnServer, Ownership, Holds, Marked, Boundary, Connect, Goto,
     serverVars, Up, AfterFailure
<1>6. NoServerLeft'
  BY DEF TypeOK, NoServerLeft, Ownership, Holds, Marked, Connect, Goto, serverVars,
     Up, AfterFailure
<1> QED
  BY <1>1, <1>2, <1>3, <1>4, <1>5, <1>6

\* The generator ends, whatever it has read.
LEMMA GenerateKeeps ==
  ASSUME IInv, NEW p \in Shells, Generate(p)
  PROVE  IInv'
<1> USE EntrypointAssumption DEF IInv
<1>1. TypeOK'
  BY DEF TypeOK, Locations, Boundary, Generate, Goto, serverVars, history,
     AfterFailure
<1>2. Ownership'
  BY DEF TypeOK, Ownership, Holds, Marked, Boundary, Locations, Generate, Goto,
     serverVars, history, AfterFailure
<1>3. CorpusStays'
  BY DEF TypeOK, CorpusStays, Calm, HasRestored, Ownership, Holds, Marked, Generate,
     Goto, serverVars, history, AfterFailure
<1>4. WholeCorpus'
  BY DEF TypeOK, WholeCorpus, CorpusStays, Calm, HasRestored, Ownership, Holds,
     Marked, Generate, Goto, serverVars, history, AfterFailure
<1>5. KillsOwnServer'
  BY DEF TypeOK, KillsOwnServer, Ownership, Holds, Marked, Boundary, Generate, Goto,
     serverVars, history, AfterFailure
<1>6. NoServerLeft'
  BY DEF TypeOK, NoServerLeft, Ownership, Holds, Marked, Generate, Goto, serverVars,
     history, AfterFailure
<1> QED
  BY <1>1, <1>2, <1>3, <1>4, <1>5, <1>6

\* The validator does not touch the server.
LEMMA ValidateKeeps ==
  ASSUME IInv, NEW p \in Shells, Validate(p)
  PROVE  IInv'
<1> USE EntrypointAssumption DEF IInv
<1>1. TypeOK'
  BY DEF TypeOK, Locations, Boundary, Validate, Begin, Goto, serverVars, history
<1>2. Ownership'
  BY DEF TypeOK, Ownership, Holds, Marked, Boundary, Locations, Validate, Begin, Goto,
     serverVars, history
<1>3. CorpusStays'
  BY DEF TypeOK, CorpusStays, Calm, HasRestored, Ownership, Holds, Marked, Validate,
     Begin, Goto, serverVars, history
<1>4. WholeCorpus'
  BY DEF TypeOK, WholeCorpus, CorpusStays, Calm, HasRestored, Ownership, Holds,
     Marked, Validate, Begin, Goto, serverVars, history
<1>5. KillsOwnServer'
  BY DEF TypeOK, KillsOwnServer, Ownership, Holds, Marked, Boundary, Validate, Begin,
     Goto, serverVars, history
<1>6. NoServerLeft'
  BY DEF TypeOK, NoServerLeft, Ownership, Holds, Marked, Validate, Begin, Goto,
     serverVars, history
<1> QED
  BY <1>1, <1>2, <1>3, <1>4, <1>5, <1>6

\* The interactive shell has replaced the one with the trap.
LEMMA LeaveKeeps ==
  ASSUME IInv, NEW p \in Shells, Leave(p)
  PROVE  IInv'
<1> USE EntrypointAssumption DEF IInv
<1>1. TypeOK'
  BY DEF TypeOK, Locations, Boundary, Leave, Goto, serverVars, history
<1>2. Ownership'
  BY DEF TypeOK, Ownership, Holds, Marked, Boundary, Locations, Leave, Goto,
     serverVars, history
<1>3. CorpusStays'
  BY DEF TypeOK, CorpusStays, Calm, HasRestored, Ownership, Holds, Marked, Leave,
     Goto, serverVars, history
<1>4. WholeCorpus'
  BY DEF TypeOK, WholeCorpus, CorpusStays, Calm, HasRestored, Ownership, Holds,
     Marked, Leave, Goto, serverVars, history
<1>5. KillsOwnServer'
  BY DEF TypeOK, KillsOwnServer, Ownership, Holds, Marked, Boundary, Leave, Goto,
     serverVars, history
<1>6. NoServerLeft'
  BY DEF TypeOK, NoServerLeft, Ownership, Holds, Marked, Leave, Goto, serverVars,
     history
<1> QED
  BY <1>1, <1>2, <1>3, <1>4, <1>5, <1>6

\* cleanup in the trap of a signal stops the shell's own server, unless that
\* one has ended before; readers that lose it are torn.
LEMMA TrapKeeps ==
  ASSUME IInv, NEW p \in Shells, Trap(p)
  PROVE  IInv'
<1> USE EntrypointAssumption DEF IInv
<1>1. TypeOK'
  <2>1. (read \in [Shells -> {"unread", "none", "partial", "full"}])'
    BY DEF TypeOK, Locations, Boundary, Trap, Cleanup, BreakCursors, CutReaders,
       Reading
  <2>2. (stopping \in BOOLEAN)'
    BY DEF TypeOK, Locations, Boundary, Trap, Cleanup, BreakCursors, CutReaders,
       Reading
  <2>3. (pending \in [Shells -> BOOLEAN])'
    BY DEF TypeOK, Locations, Boundary, Trap, Cleanup, BreakCursors, CutReaders,
       Reading
  <2>4. (torn \subseteq Shells)'
    BY DEF TypeOK, Locations, Boundary, Trap, Cleanup, BreakCursors, CutReaders,
       Reading
  <2>5. (killed \subseteq Shells \X Shells)'
    BY DEF TypeOK, Locations, Boundary, Trap, Cleanup, BreakCursors, CutReaders,
       Reading
  <2> QED
    BY <2>1, <2>2, <2>3, <2>4, <2>5 DEF TypeOK, Trap, Cleanup, BreakCursors,
       CutReaders, Reading
<1>2. Ownership'
  BY DEF TypeOK, Ownership, Holds, Marked, Boundary, Locations, Trap, Cleanup,
     BreakCursors, CutReaders, Reading
<1>3. CorpusStays'
  BY DEF TypeOK, CorpusStays, Calm, HasRestored, Ownership, Holds, Marked, Trap,
     Cleanup, BreakCursors, CutReaders, Reading
<1>4. WholeCorpus'
  BY DEF TypeOK, WholeCorpus, CorpusStays, Calm, HasRestored, Ownership, Holds,
     Marked, Trap, Cleanup, BreakCursors, CutReaders, Reading
<1>5. KillsOwnServer'
  BY DEF TypeOK, KillsOwnServer, Ownership, Holds, Marked, Boundary, Trap, Cleanup,
     BreakCursors, CutReaders, Reading
<1>6. NoServerLeft'
  BY DEF TypeOK, NoServerLeft, Ownership, Holds, Marked, Trap, Cleanup, BreakCursors,
     CutReaders, Reading
<1> QED
  BY <1>1, <1>2, <1>3, <1>4, <1>5, <1>6

\* cleanup in the trap of EXIT: the server of the shell is told to stop
\* before the shell ends.
LEMMA ExitKeeps ==
  ASSUME IInv, NEW p \in Shells, Exit(p)
  PROVE  IInv'
<1> USE EntrypointAssumption DEF IInv
<1>1. TypeOK'
  <2>1. (pc \in [Shells -> Locations])'
    BY DEF TypeOK, Locations, Boundary, Exit, Begin, Goto, Cleanup, BreakCursors,
       CutReaders, Reading
  <2>2. (read \in [Shells -> {"unread", "none", "partial", "full"}])'
    BY DEF TypeOK, Locations, Boundary, Exit, Begin, Goto, Cleanup, BreakCursors,
       CutReaders, Reading
  <2>3. (stopping \in BOOLEAN)'
    BY DEF TypeOK, Locations, Boundary, Exit, Begin, Goto, Cleanup, BreakCursors,
       CutReaders, Reading
  <2>4. (torn \subseteq Shells)'
    BY DEF TypeOK, Locations, Boundary, Exit, Begin, Goto, Cleanup, BreakCursors,
       CutReaders, Reading
  <2>5. (killed \subseteq Shells \X Shells)'
    BY DEF TypeOK, Locations, Boundary, Exit, Begin, Goto, Cleanup, BreakCursors,
       CutReaders, Reading
  <2> QED
    BY <2>1, <2>2, <2>3, <2>4, <2>5 DEF TypeOK, Exit, Begin, Goto, Cleanup,
       BreakCursors, CutReaders, Reading
<1>2. Ownership'
  BY DEF TypeOK, Ownership, Holds, Marked, Boundary, Locations, Exit, Begin, Goto,
     Cleanup, BreakCursors, CutReaders, Reading
<1>3. CorpusStays'
  BY DEF TypeOK, CorpusStays, Calm, HasRestored, Ownership, Holds, Marked, Exit,
     Begin, Goto, Cleanup, BreakCursors, CutReaders, Reading
<1>4. WholeCorpus'
  BY DEF TypeOK, WholeCorpus, CorpusStays, Calm, HasRestored, Ownership, Holds,
     Marked, Exit, Begin, Goto, Cleanup, BreakCursors, CutReaders, Reading
<1>5. KillsOwnServer'
  BY DEF TypeOK, KillsOwnServer, Ownership, Holds, Marked, Boundary, Exit, Begin,
     Goto, Cleanup, BreakCursors, CutReaders, Reading
<1>6. NoServerLeft'
  BY DEF TypeOK, NoServerLeft, Ownership, Holds, Marked, Exit, Begin, Goto, Cleanup,
     BreakCursors, CutReaders, Reading
<1> QED
  BY <1>1, <1>2, <1>3, <1>4, <1>5, <1>6

\* The server that was told to stop ends: its owner, if it still runs, has
\* outlived it.
LEMMA ServerStopsKeeps ==
  ASSUME IInv, ServerStops
  PROVE  IInv'
<1> USE EntrypointAssumption DEF IInv
<1>1. TypeOK'
  BY DEF TypeOK, Locations, Boundary, ServerStops, ServerGone, Running
<1>2. Ownership'
  BY DEF TypeOK, Ownership, Holds, Marked, Boundary, Locations, ServerStops,
     ServerGone, Running
<1>3. CorpusStays'
  BY DEF TypeOK, CorpusStays, Calm, HasRestored, Ownership, Holds, Marked,
     ServerStops, ServerGone, Running
<1>4. WholeCorpus'
  BY DEF TypeOK, WholeCorpus, CorpusStays, Calm, HasRestored, Ownership, Holds,
     Marked, ServerStops, ServerGone, Running
<1>5. KillsOwnServer'
  BY DEF TypeOK, KillsOwnServer, Ownership, Holds, Marked, Boundary, ServerStops,
     ServerGone, Running
<1>6. NoServerLeft'
  BY DEF TypeOK, NoServerLeft, Ownership, Holds, Marked, ServerStops, ServerGone,
     Running
<1> QED
  BY <1>1, <1>2, <1>3, <1>4, <1>5, <1>6

\* The server ends by itself: its owner, if it still runs, has outlived it,
\* and its readers are torn.
LEMMA CrashKeeps ==
  ASSUME IInv, Crash
  PROVE  IInv'
<1> USE EntrypointAssumption DEF IInv
<1>1. TypeOK'
  <2>1. (pc \in [Shells -> Locations])'
    BY DEF TypeOK, Locations, Boundary, Crash, ServerGone, Running, BreakCursors,
       CutReaders, Reading, Up
  <2>2. (read \in [Shells -> {"unread", "none", "partial", "full"}])'
    BY DEF TypeOK, Locations, Boundary, Crash, ServerGone, Running, BreakCursors,
       CutReaders, Reading, Up
  <2>3. (stopping \in BOOLEAN)'
    BY DEF TypeOK, Locations, Boundary, Crash, ServerGone, Running, BreakCursors,
       CutReaders, Reading, Up
  <2>4. (torn \subseteq Shells /\ bereft \subseteq Shells)'
    BY DEF TypeOK, Locations, Boundary, Crash, ServerGone, Running, BreakCursors,
       CutReaders, Reading, Up
  <2>5. (crashes \in 0..MaxCrashes)'
    BY DEF TypeOK, Locations, Boundary, Crash, ServerGone, Running, BreakCursors,
       CutReaders, Reading, Up
  <2> QED
    BY <2>1, <2>2, <2>3, <2>4, <2>5 DEF TypeOK, Crash, ServerGone, Running,
       BreakCursors, CutReaders, Reading, Up
<1>2. Ownership'
  BY DEF TypeOK, Ownership, Holds, Marked, Boundary, Locations, Crash, ServerGone,
     Running, BreakCursors, CutReaders, Reading, Up
<1>3. CorpusStays'
  BY DEF TypeOK, CorpusStays, Calm, HasRestored, Ownership, Holds, Marked, Crash,
     ServerGone, Running, BreakCursors, CutReaders, Reading, Up
<1>4. WholeCorpus'
  BY DEF TypeOK, WholeCorpus, CorpusStays, Calm, HasRestored, Ownership, Holds,
     Marked, Crash, ServerGone, Running, BreakCursors, CutReaders, Reading, Up
<1>5. KillsOwnServer'
  BY DEF TypeOK, KillsOwnServer, Ownership, Holds, Marked, Boundary, Crash,
     ServerGone, Running, BreakCursors, CutReaders, Reading, Up
<1>6. NoServerLeft'
  BY DEF TypeOK, NoServerLeft, Ownership, Holds, Marked, Crash, ServerGone, Running,
     BreakCursors, CutReaders, Reading, Up
<1> QED
  BY <1>1, <1>2, <1>3, <1>4, <1>5, <1>6

\* A signal to the shell is only noted; one to a generator that has replaced
\* it ends a command that had called exec.
LEMMA TerminateKeeps ==
  ASSUME IInv, NEW p \in Shells, Terminate(p)
  PROVE  IInv'
<1> USE EntrypointAssumption DEF IInv
<1>1. TypeOK'
  <2>1. (pc \in [Shells -> Locations])'
    BY DEF TypeOK, Locations, Boundary, Terminate, serverVars, history, Running
  <2>2. (pending \in [Shells -> BOOLEAN])'
    BY DEF TypeOK, Locations, Boundary, Terminate, serverVars, history, Running
  <2>3. (signals \in 0..MaxSignals)'
    BY DEF TypeOK, Locations, Boundary, Terminate, serverVars, history, Running
  <2> QED
    BY <2>1, <2>2, <2>3 DEF TypeOK, Terminate, serverVars, history, Running
<1>2. Ownership'
  BY DEF TypeOK, Ownership, Holds, Marked, Boundary, Locations, Terminate, serverVars,
     history, Running
<1>3. CorpusStays'
  BY DEF TypeOK, CorpusStays, Calm, HasRestored, Ownership, Holds, Marked, Terminate,
     serverVars, history, Running
<1>4. WholeCorpus'
  BY DEF TypeOK, WholeCorpus, CorpusStays, Calm, HasRestored, Ownership, Holds,
     Marked, Terminate, serverVars, history, Running
<1>5. KillsOwnServer'
  BY DEF TypeOK, KillsOwnServer, Ownership, Holds, Marked, Boundary, Terminate,
     serverVars, history, Running
<1>6. NoServerLeft'
  BY DEF TypeOK, NoServerLeft, Ownership, Holds, Marked, Terminate, serverVars,
     history, Running
<1> QED
  BY <1>1, <1>2, <1>3, <1>4, <1>5, <1>6

\* A signal from the terminal leaves a server without db_started only while
\* mongod is at work, which cutShort records.
LEMMA InterruptKeeps ==
  ASSUME IInv, NEW p \in Shells, Interrupt(p)
  PROVE  IInv'
<1> USE EntrypointAssumption DEF IInv
<1>1. TypeOK'
  <2>1. (pc \in [Shells -> Locations])'
    BY DEF TypeOK, Locations, Boundary, Interrupt, serverVars, Running,
       AfterInterrupt, ServerStarts
  <2>2. (pending \in [Shells -> BOOLEAN])'
    BY DEF TypeOK, Locations, Boundary, Interrupt, serverVars, Running,
       AfterInterrupt, ServerStarts
  <2>3. (signals \in 0..MaxSignals)'
    BY DEF TypeOK, Locations, Boundary, Interrupt, serverVars, Running,
       AfterInterrupt, ServerStarts
  <2>4. (stopping \in BOOLEAN)'
    BY DEF TypeOK, Locations, Boundary, Interrupt, serverVars, Running,
       AfterInterrupt, ServerStarts
  <2> QED
    BY <2>1, <2>2, <2>3, <2>4 DEF TypeOK, Interrupt, serverVars, Running,
       AfterInterrupt, ServerStarts
<1>2. Ownership'
  BY DEF TypeOK, Ownership, Holds, Marked, Boundary, Locations, Interrupt, serverVars,
     Running, AfterInterrupt, ServerStarts
<1>3. CorpusStays'
  BY DEF TypeOK, CorpusStays, Calm, HasRestored, Ownership, Holds, Marked, Interrupt,
     serverVars, Running, AfterInterrupt, ServerStarts
<1>4. WholeCorpus'
  BY DEF TypeOK, WholeCorpus, CorpusStays, Calm, HasRestored, Ownership, Holds,
     Marked, Interrupt, serverVars, Running, AfterInterrupt, ServerStarts
<1>5. KillsOwnServer'
  BY DEF TypeOK, KillsOwnServer, Ownership, Holds, Marked, Boundary, Interrupt,
     serverVars, Running, AfterInterrupt, ServerStarts
<1>6. NoServerLeft'
  BY DEF TypeOK, NoServerLeft, Ownership, Holds, Marked, Interrupt, serverVars,
     Running, AfterInterrupt, ServerStarts
<1> QED
  BY <1>1, <1>2, <1>3, <1>4, <1>5, <1>6

\* A step that changes no variable changes no conjunct of the invariant.
LEMMA StutterKeeps ==
  ASSUME IInv, UNCHANGED vars
  PROVE  IInv'
<1> USE DEF vars, shellVars, serverVars, history
<1>1. TypeOK'
  BY DEF IInv, TypeOK
<1>2. Ownership'
  BY DEF IInv, Ownership, Holds
<1>3. CorpusStays'
  BY DEF IInv, CorpusStays, Calm
<1>4. (WholeCorpus /\ KillsOwnServer /\ NoServerLeft)'
  BY DEF IInv, WholeCorpus, KillsOwnServer, NoServerLeft
<1> QED
  BY <1>1, <1>2, <1>3, <1>4 DEF IInv

\* Every state of the commands of scripts/entrypoint.sh and their server satisfies
\* the inductive invariant, whatever the signals and the crashes.
THEOREM Invariance == Spec => []IInv
<1>1. ASSUME IInv, [Next]_vars
      PROVE  IInv'
  <2>1. CASE UNCHANGED vars
    BY <1>1, <2>1, StutterKeeps
  <2>2. ASSUME NEW p \in Shells, Give(p) PROVE IInv'
    BY <1>1, <2>2, GiveKeeps
  <2>3. ASSUME NEW p \in Shells, BeginServer(p) PROVE IInv'
    BY <1>1, <2>3, BeginServerKeeps
  <2>4. ASSUME NEW p \in Shells, StartServer(p) PROVE IInv'
    BY <1>1, <2>4, StartServerKeeps
  <2>5. ASSUME NEW p \in Shells, MarkStarted(p) PROVE IInv'
    BY <1>1, <2>5, MarkStartedKeeps
  <2>6. ASSUME NEW p \in Shells, BeginRestore(p) PROVE IInv'
    BY <1>1, <2>6, BeginRestoreKeeps
  <2>7. ASSUME NEW p \in Shells, Restored(p) PROVE IInv'
    BY <1>1, <2>7, RestoredKeeps
  <2>8. ASSUME NEW p \in Shells, RestoreFails(p) PROVE IInv'
    BY <1>1, <2>8, RestoreFailsKeeps
  <2>9. ASSUME NEW p \in Shells, Retry(p) PROVE IInv'
    BY <1>1, <2>9, RetryKeeps
  <2>10. ASSUME NEW p \in Shells, Return(p) PROVE IInv'
    BY <1>1, <2>10, ReturnKeeps
  <2>11. ASSUME NEW p \in Shells, BeginGenerator(p) PROVE IInv'
    BY <1>1, <2>11, BeginGeneratorKeeps
  <2>12. ASSUME NEW p \in Shells, Connect(p) PROVE IInv'
    BY <1>1, <2>12, ConnectKeeps
  <2>13. ASSUME NEW p \in Shells, Generate(p) PROVE IInv'
    BY <1>1, <2>13, GenerateKeeps
  <2>14. ASSUME NEW p \in Shells, Validate(p) PROVE IInv'
    BY <1>1, <2>14, ValidateKeeps
  <2>15. ASSUME NEW p \in Shells, Leave(p) PROVE IInv'
    BY <1>1, <2>15, LeaveKeeps
  <2>16. ASSUME NEW p \in Shells, Trap(p) PROVE IInv'
    BY <1>1, <2>16, TrapKeeps
  <2>17. ASSUME NEW p \in Shells, Exit(p) PROVE IInv'
    BY <1>1, <2>17, ExitKeeps
  <2>18. CASE ServerStops
    BY <1>1, <2>18, ServerStopsKeeps
  <2>19. CASE Crash
    BY <1>1, <2>19, CrashKeeps
  <2>20. ASSUME NEW p \in Shells, Terminate(p) PROVE IInv'
    BY <1>1, <2>20, TerminateKeeps
  <2>21. ASSUME NEW p \in Shells, Interrupt(p) PROVE IInv'
    BY <1>1, <2>21, InterruptKeeps
  <2>22. CASE Finished
    BY <1>1, <2>22, StutterKeeps DEF Finished
  <2> QED
    BY <1>1, <2>1, <2>2, <2>3, <2>4, <2>5, <2>6, <2>7, <2>8, <2>9, <2>10, <2>11,
       <2>12, <2>13, <2>14, <2>15, <2>16, <2>17, <2>18, <2>19, <2>20, <2>21, <2>22 DEF
       Next, Step
<1> QED
  BY <1>1, InitHolds, PTL DEF Spec

\* A generator works on less than the whole corpus only when its server has gone
\* while it read, or when some shell has outlived its server and another is around.
THEOREM CorpusIsWhole == Spec => []WholeCorpus
BY Invariance, PTL DEF IInv

\* cleanup stops another command's server only after its own shell's has ended.
THEOREM OwnServerOnly == Spec => []KillsOwnServer
BY Invariance, PTL DEF IInv

\* A command leaves a server behind only by exec or by an interrupt in mongod.
THEOREM ServersStopped == Spec => []NoServerLeft
BY Invariance, PTL DEF IInv

----------------------------------------------------------------------------
(***************************************************************************)
(* Why the commands end.                                                   *)
(***************************************************************************)

\* The places of a command in the order in which it comes to them, but for the next
\* attempt to restore the corpus and the next run of the generator.
Place(l) ==
  CASE l = "idle" -> 0 [] l = "start" -> 1 [] l = "starting" -> 2
    [] l = "started" -> 3 [] l = "restore" -> 4 [] l = "restoring" -> 5
    [] l = "failing" -> 6 [] l = "sleep" -> 7 [] l = "ready" -> 8
    [] l = "generate" -> 9 [] l = "connecting" -> 10 [] l = "reading" -> 11
    [] l = "validate" -> 12 [] l = "exit" -> 13 [] l = "shell" -> 14
    [] l = "ended" -> 15

\* Shell s comes to its next attempt, else to its next generator, else further on
\* between the two.
Further(s) ==
  \/ attempt'[s] > attempt[s]
  \/ attempt'[s] = attempt[s] /\ left'[s] < left[s]
  \/ attempt'[s] = attempt[s] /\ left'[s] = left[s] /\ Place(pc'[s]) > Place(pc[s])

\* Shell s stays where it is.
Stays(s) == attempt'[s] = attempt[s] /\ left'[s] = left[s] /\ pc'[s] = pc[s]

\* A trap becomes due by one of the signals only.
NoNewTrap(s) == pending'[s] => pending[s] \/ signals' > signals

\* Nothing sets shell s back.
NeverBack(s) == Further(s) \/ (Stays(s) /\ NoNewTrap(s))

\* Shell s gets further, or a trap that was due has run.
Advances(s) == Further(s) \/ (Stays(s) /\ pending[s] /\ ~pending'[s])

\* The values of Place.
LEMMA PlaceFacts ==
  /\ Place("idle") = 0 /\ Place("start") = 1 /\ Place("starting") = 2
  /\ Place("started") = 3 /\ Place("restore") = 4 /\ Place("restoring") = 5
  /\ Place("failing") = 6 /\ Place("sleep") = 7 /\ Place("ready") = 8
  /\ Place("generate") = 9 /\ Place("connecting") = 10 /\ Place("reading") = 11
  /\ Place("validate") = 12 /\ Place("exit") = 13 /\ Place("shell") = 14
  /\ Place("ended") = 15
BY DEF Place

\* A step of a shell brings it further or runs its trap, and leaves the other shells
\* where they are.
LEMMA StepAdvances ==
  ASSUME TypeOK, NEW p \in Shells, Step(p)
  PROVE  /\ Advances(p)
         /\ \A s \in Shells \ {p} : Stays(s) /\ pending'[s] = pending[s]
<1>1. CASE BeginServer(p)
  BY <1>1, PlaceFacts DEF TypeOK, BeginServer, Advances, Further, Stays, Goto, Begin
<1>2. CASE StartServer(p)
  BY <1>2, PlaceFacts DEF TypeOK, StartServer, Advances, Further, Stays, Goto, Begin
<1>3. CASE MarkStarted(p)
  BY <1>3, PlaceFacts DEF TypeOK, MarkStarted, Advances, Further, Stays, Goto, Begin
<1>4. CASE BeginRestore(p)
  BY <1>4, PlaceFacts DEF TypeOK, BeginRestore, Advances, Further, Stays, Goto, Begin
<1>5. CASE Restored(p)
  BY <1>5, PlaceFacts DEF TypeOK, Restored, Advances, Further, Stays, Goto, Begin
<1>6. CASE RestoreFails(p)
  BY <1>6, PlaceFacts DEF TypeOK, RestoreFails, Advances, Further, Stays, Goto, Begin
<1>7. CASE Retry(p)
  BY <1>7, PlaceFacts DEF TypeOK, Retry, Advances, Further, Stays, Goto, Begin
<1>8. CASE Return(p)
  BY <1>8, PlaceFacts DEF TypeOK, Return, AfterStart, Advances, Further, Stays, Goto, Begin
<1>9. CASE BeginGenerator(p)
  BY <1>9, PlaceFacts DEF TypeOK, BeginGenerator, Advances, Further, Stays, Goto, Begin
<1>10. CASE Connect(p)
  BY <1>10, PlaceFacts DEF TypeOK, Connect, AfterFailure, Advances, Further, Stays, Goto, Begin
<1>11. CASE Generate(p)
  BY <1>11, PlaceFacts DEF TypeOK, Generate, AfterFailure, Advances, Further, Stays, Goto, Begin
<1>12. CASE Validate(p)
  BY <1>12, PlaceFacts DEF TypeOK, Validate, Advances, Further, Stays, Goto, Begin
<1>13. CASE Trap(p)
  BY <1>13, PlaceFacts DEF TypeOK, Trap, Advances, Further, Stays, Goto, Begin
<1>14. CASE Exit(p)
  BY <1>14, PlaceFacts DEF TypeOK, Exit, Advances, Further, Stays, Goto, Begin
<1> QED
  BY <1>1, <1>2, <1>3, <1>4, <1>5, <1>6, <1>7, <1>8, <1>9, <1>10, <1>11, <1>12, <1>13, <1>14 DEF Step

\* Neither a signal, the end of the server nor a command that is given sets a shell
\* back.
LEMMA OthersSetNothingBack ==
  ASSUME TypeOK, Ownership, NEW s \in Shells,
         \/ \E p \in Shells : Give(p) \/ Leave(p) \/ Terminate(p) \/ Interrupt(p)
         \/ ServerStops \/ Crash \/ UNCHANGED vars
  PROVE  NeverBack(s)
<1>1. ASSUME NEW p \in Shells, Give(p) PROVE NeverBack(s)
  BY <1>1, PlaceFacts DEF TypeOK, Give, NeverBack, Further, Stays, NoNewTrap, Goto
<1>2. ASSUME NEW p \in Shells, Leave(p) PROVE NeverBack(s)
  BY <1>2, PlaceFacts DEF TypeOK, Leave, NeverBack, Further, Stays, NoNewTrap, Goto
<1>3. ASSUME NEW p \in Shells, Terminate(p) PROVE NeverBack(s)
  <2>1. /\ signals' > signals /\ attempt' = attempt /\ left' = left
        /\ pc'[s] = pc[s] \/ (execd[s] /\ pc'[s] = "ended")
    BY <1>3 DEF TypeOK, Terminate
  <2>2. execd[s] => pc[s] \in {"connecting", "reading", "shell", "ended"}
    BY DEF Ownership
  <2>3. CASE pc'[s] = pc[s]
    BY <2>1, <2>3 DEF NeverBack, Stays, NoNewTrap
  <2>4. CASE pc'[s] # pc[s]
    <3>1. Place(pc'[s]) > Place(pc[s])
      BY <2>1, <2>2, <2>4, PlaceFacts
    <3> QED
      BY <2>1, <3>1 DEF NeverBack, Further
  <2> QED
    BY <2>3, <2>4
<1>4. ASSUME NEW p \in Shells, Interrupt(p) PROVE NeverBack(s)
  <2>1. /\ signals' > signals /\ attempt' = attempt /\ left' = left
        /\ pc'[s] = pc[s] \/ (p = s /\ Running(s) /\ pc'[s] = AfterInterrupt(s))
    BY <1>4 DEF TypeOK, Interrupt
  <2>2. CASE pc'[s] = pc[s]
    BY <2>1, <2>2 DEF NeverBack, Stays, NoNewTrap
  <2>3. CASE pc'[s] # pc[s]
    <3>1. pc[s] \in Locations \ {"idle", "ended", "shell"}
      BY <1>4, <2>1, <2>3 DEF TypeOK, Interrupt, Running
    <3>2. pc'[s] \in {"sleep", "exit", "ended"} /\ (execd[s] => pc'[s] = "ended")
          /\ (pc'[s] = "sleep" => pc[s] \in {"restoring", "failing"})
          /\ (pc'[s] = "exit" => pc[s] # "exit")
      BY <2>1, <2>3 DEF AfterInterrupt
    <3>3. Place(pc'[s]) > Place(pc[s])
      BY <3>1, <3>2, PlaceFacts DEF Locations, Boundary
    <3> QED
      BY <2>1, <3>3 DEF NeverBack, Further
  <2> QED
    BY <2>2, <2>3
<1>5. CASE ServerStops \/ Crash
  <2>1. /\ attempt' = attempt /\ left' = left /\ pending' = pending
        /\ pc'[s] = IF pc[s] = "restoring" THEN "failing" ELSE pc[s]
    BY <1>5 DEF ServerStops, Crash, ServerGone
  <2>2. pc'[s] = pc[s] \/ Place(pc'[s]) > Place(pc[s])
    BY <2>1, PlaceFacts
  <2> QED
    BY <2>1, <2>2 DEF NeverBack, Further, Stays, NoNewTrap
<1>6. CASE UNCHANGED vars
  BY <1>6 DEF vars, shellVars, NeverBack, Stays, NoNewTrap
<1> QED
  BY <1>1, <1>2, <1>3, <1>4, <1>5, <1>6

\* The commands make progress only: a step of a shell brings its command further or
\* runs a trap that was due, and no step of another shell, no signal and no end of
\* the server sets a command back.  As attempts, generators, places and signals are
\* bounded, a command takes finitely many steps.
THEOREM CommandsAdvance ==
  Spec => [][\A s \in Shells : NeverBack(s) /\ (Step(s) => Advances(s))]_vars
<1> DEFINE A == \A s \in Shells : NeverBack(s) /\ (Step(s) => Advances(s))
<1>1. ASSUME IInv, [Next]_vars PROVE A
  <2> SUFFICES ASSUME NEW s \in Shells
               PROVE  NeverBack(s) /\ (Step(s) => Advances(s))
    OBVIOUS
  <2>1. TypeOK /\ Ownership
    BY <1>1 DEF IInv
  <2>2. ASSUME NEW p \in Shells, Step(p) PROVE NeverBack(s)
    <3>1. /\ Advances(p)
          /\ \A t \in Shells \ {p} : Stays(t) /\ pending'[t] = pending[t]
      BY <2>1, <2>2, StepAdvances
    <3>2. CASE s = p
      BY <3>1, <3>2 DEF Advances, NeverBack, NoNewTrap
    <3>3. CASE s # p
      BY <3>1, <3>3 DEF NeverBack, NoNewTrap
    <3> QED
      BY <3>2, <3>3
  <2>3. NeverBack(s)
    BY <1>1, <2>1, <2>2, OthersSetNothingBack DEF Next, Finished
  <2>4. Step(s) => Advances(s)
    BY <2>1, StepAdvances
  <2> QED
    BY <2>3, <2>4
<1>2. IInv /\ [Next]_vars => [A]_vars
  BY <1>1
<1> QED
  BY <1>2, Invariance, PTL DEF Spec

============================================================================
