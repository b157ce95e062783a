----------------------------- MODULE Entrypoint -----------------------------
(***************************************************************************)
(* The commands of scripts/entrypoint.sh and the database server they      *)
(* start: start_database with its attempts to restore the corpus, the      *)
(* generators that read it (load_all_documents of src/bin/ir_generator.rs) *)
(* and the trap that stops the server.                                     *)
(*                                                                         *)
(* A command is a shell of its own.  Several may run at a time or one      *)
(* after the other, in one container or on one machine: they share the     *)
(* port, the data directory and the file with the server's process id.     *)
(* What the commands write is the matter of module Output.                 *)
(*                                                                         *)
(* A signal sent to the shell alone (TERM) waits for the foreground        *)
(* command to end.  Then the trap runs, and the shell goes on with the     *)
(* next command: the trap does not exit.  A signal from the terminal (INT) *)
(* ends the foreground command as well.                                    *)
(***************************************************************************)
EXTENDS Integers, FiniteSets

CONSTANTS
  Shells,       \* the shells that run a command
  Commands,     \* the commands they may be given, each a function on the shells
  MaxAttempts,  \* attempts to restore the corpus, 30 in the code
  MaxSignals,   \* bound: the signals sent
  MaxCrashes    \* bound: the times the server ends by itself

NoShell == "none"

\* The commands that use the database: how many times each runs the generator
\* under the shell, and whether it then replaces the shell.
Generators ==
  [smoke_test |-> 1, single |-> 1, compatible |-> 1, reduced |-> 2, full |-> 2,
   raw |-> 0, shell |-> 0]

ASSUME EntrypointAssumption ==
  /\ NoShell \notin Shells
  /\ Commands \subseteq [Shells -> DOMAIN Generators]
  /\ MaxAttempts \in Nat \ {0}
  /\ MaxSignals \in Nat /\ MaxCrashes \in Nat

VARIABLES
  pc,         \* where each shell is
  cmd,        \* its command
  attempt,    \* the attempt at restoring the corpus
  left,       \* the runs of the generator still to come
  dbStarted,  \* db_started
  pending,    \* a signal has arrived and its trap has not run
  execd,      \* the shell has been replaced by exec
  read,       \* what its generator has got of the corpus, "unread" before
  owner,      \* the shell that has started the server, NoShell: none runs
  stopping,   \* the server has been told to stop
  pidfile,    \* the shell whose server's process id is in DB_PID, or NoShell
  corpus,     \* the collection: "none", "partial" or "full"
  signals, crashes,  \* how many there have been
  torn,       \* the shells whose last generator has lost the server while it read
  bereft,     \* the shells whose server has ended while they were running
  cutShort,   \* the shells interrupted while they were starting the server
  killed      \* who has stopped whose server: pairs of shells
              \* (the last four are history variables)

shellVars == <<pc, cmd, attempt, left, dbStarted, pending, execd>>
serverVars == <<owner, stopping, pidfile, corpus>>
history == <<torn, bereft, cutShort, killed>>
vars == <<shellVars, read, serverVars, signals, crashes, history>>

----------------------------------------------------------------------------
Up == owner # NoShell /\ ~stopping
Reading == {s \in Shells : pc[s] = "reading"}
Running(s) == pc[s] \notin {"idle", "ended"}

\* Where the shell is between two foreground commands, or in one in which it
\* makes no difference whether the trap runs before or after it.
Boundary ==
  {"start", "started", "restore", "sleep", "ready", "generate", "validate", "exit"}

\* Shell s, at the end of what it did at a, goes on at b.
Goto(s, a, b) ==
  /\ pc[s] = a
  /\ pc' = [pc EXCEPT ![s] = b]

\* Shell s begins its next command, for which no trap may be due.
Begin(s, a, b) == ~pending[s] /\ Goto(s, a, b)

\* Generators that were reading have lost the collection: cursor errors are
\* dropped by filter_map(Result::ok), so that they go on with what they have.
CutReaders == read' = [s \in Shells |-> IF s \in Reading THEN "partial" ELSE read[s]]

Init ==
  /\ pc = [s \in Shells |-> "idle"]
  /\ cmd \in Commands
  /\ attempt = [s \in Shells |-> 1]
  /\ left = [s \in Shells |-> Generators[cmd[s]]]
  /\ dbStarted = [s \in Shells |-> FALSE]
  /\ pending = [s \in Shells |-> FALSE]
  /\ execd = [s \in Shells |-> FALSE]
  /\ read = [s \in Shells |-> "unread"]
  /\ owner = NoShell /\ stopping = FALSE
  /\ pidfile = NoShell
  /\ corpus = "none"
  /\ signals = 0 /\ crashes = 0
  /\ torn = {} /\ bereft = {} /\ cutShort = {} /\ killed = {}

----------------------------------------------------------------------------
\* Somebody gives the command.
Give(s) ==
  /\ Goto(s, "idle", "start")
  /\ UNCHANGED <<cmd, attempt, left, dbStarted, pending, execd, read, serverVars,
                 signals, crashes, history>>

\* Broken variant of BeginServer: db_started is set before mongod has returned.
BeginServerMarked(s) ==
  /\ Begin(s, "start", "starting")
  /\ dbStarted' = [dbStarted EXCEPT ![s] = TRUE]
  /\ UNCHANGED <<cmd, attempt, left, pending, execd, read, serverVars, signals,
                 crashes, history>>

\* mongod --fork begins.
BeginServer(s) ==
  /\ Begin(s, "start", "starting")
  /\ UNCHANGED <<cmd, attempt, left, dbStarted, pending, execd, read, serverVars,
                 signals, crashes, history>>

\* mongod: a server that holds the port and the data directory, though it be
\* about to stop, keeps another from starting.
ServerStarts(s) ==
  /\ owner = NoShell
  /\ owner' = s /\ stopping' = FALSE /\ pidfile' = s
  /\ UNCHANGED corpus

\* mongod returns when the server listens, or fails, which ends the shell.
StartServer(s) ==
  /\ \/ Goto(s, "starting", "started") /\ ServerStarts(s)
     \/ Goto(s, "starting", "exit") /\ UNCHANGED serverVars
  /\ UNCHANGED <<cmd, attempt, left, dbStarted, pending, execd, read, signals,
                 crashes, history>>

\* Broken variant of MarkStarted: db_started is never set.
MarkStartedNot(s) ==
  /\ Begin(s, "started", "restore")
  /\ UNCHANGED <<cmd, attempt, left, dbStarted, pending, execd, read, serverVars,
                 signals, crashes, history>>

\* db_started=1
MarkStarted(s) ==
  /\ Begin(s, "started", "restore")
  /\ dbStarted' = [dbStarted EXCEPT ![s] = TRUE]
  /\ UNCHANGED <<cmd, attempt, left, pending, execd, read, serverVars, signals,
                 crashes, history>>

\* mongorestore --drop begins: it drops the collection, or finds no server.
BeginRestore(s) ==
  /\ \/ /\ Up
        /\ Begin(s, "restore", "restoring")
        /\ corpus' = "partial"
        /\ CutReaders
     \/ /\ ~Up
        /\ Begin(s, "restore", "failing")
        /\ UNCHANGED <<corpus, read>>
  /\ UNCHANGED <<cmd, attempt, left, dbStarted, pending, execd, owner, stopping,
                 pidfile, signals, crashes, history>>

\* mongorestore succeeds.  While another one is at work the collection is not whole.
Restored(s) ==
  /\ Up
  /\ Goto(s, "restoring", "ready")
  /\ corpus' = IF \E t \in Shells \ {s} : pc[t] = "restoring" THEN "partial" ELSE "full"
  /\ UNCHANGED <<cmd, attempt, left, dbStarted, pending, execd, read, owner, stopping,
                 pidfile, signals, crashes, history>>

\* What comes after start_database.
AfterStart(s) ==
  IF cmd[s] = "raw" THEN "connecting" ELSE IF cmd[s] = "shell" THEN "shell" ELSE "generate"

\* start_database returns.  raw and shell replace the shell by exec.
Return(s) ==
  /\ Begin(s, "ready", AfterStart(s))
  /\ execd' = [execd EXCEPT ![s] = cmd[s] \in {"raw", "shell"}]
  /\ UNCHANGED <<cmd, attempt, left, dbStarted, pending, read, serverVars, signals,
                 crashes, history>>

\* Broken variant of RestoreFails: the result of mongorestore is not tested.
RestoreFailsUnnoticed(s) ==
  /\ Goto(s, "restoring", "ready") \/ Goto(s, "failing", "ready")
  /\ UNCHANGED <<cmd, attempt, left, dbStarted, pending, execd, read, serverVars,
                 signals, crashes, history>>

\* mongorestore fails, for want of a server or for another reason.
RestoreFails(s) ==
  /\ Goto(s, "restoring", "sleep") \/ Goto(s, "failing", "sleep")
  /\ UNCHANGED <<cmd, attempt, left, dbStarted, pending, execd, read, serverVars,
                 signals, crashes, history>>

\* Broken variant of Retry: until mongorestore succeeds.
RetryForever(s) ==
  /\ Begin(s, "sleep", "restore")
  /\ UNCHANGED <<cmd, attempt, left, dbStarted, pending, execd, read, serverVars,
                 signals, crashes, history>>

\* sleep 1, and the next attempt, or return 1.
Retry(s) ==
  /\ IF attempt[s] < MaxAttempts
     THEN /\ Begin(s, "sleep", "restore")
          /\ attempt' = [attempt EXCEPT ![s] = @ + 1]
     ELSE /\ Begin(s, "sleep", "exit")
          /\ UNCHANGED attempt
  /\ UNCHANGED <<cmd, left, dbStarted, pending, execd, read, serverVars, signals,
                 crashes, history>>

----------------------------------------------------------------------------
\* clir: the shell runs the generator.
BeginGenerator(s) ==
  /\ Begin(s, "generate", "connecting")
  /\ UNCHANGED <<cmd, attempt, left, dbStarted, pending, execd, read, serverVars,
                 signals, crashes, history>>

\* Where a process that fails leaves the shell: set -e, or no shell any more.
AfterFailure(s) == IF execd[s] THEN "ended" ELSE "exit"

\* load_all_documents connects and gets a cursor, or panics.
Connect(s) ==
  /\ \/ /\ Up
        /\ Goto(s, "connecting", "reading")
        /\ read' = [read EXCEPT ![s] = corpus]
        /\ torn' = torn \ {s}
     \/ /\ Goto(s, "connecting", AfterFailure(s))
        /\ UNCHANGED <<read, torn>>
  /\ UNCHANGED <<cmd, attempt, left, dbStarted, pending, execd, serverVars, signals,
                 crashes, bereft, cutShort, killed>>

\* The cursor has ended and the generator goes on to its end without the server.
\* It may fail: what it writes is in module Output.
Generate(s) ==
  /\ \/ Goto(s, "reading", IF execd[s] THEN "ended" ELSE "validate")
     \/ Goto(s, "reading", AfterFailure(s))
  /\ UNCHANGED <<cmd, attempt, left, dbStarted, pending, execd, read, serverVars,
                 signals, crashes, history>>

\* The validator reads the files of the run, and the command goes on to the next
\* generator or to its end.
Validate(s) ==
  /\ \/ /\ left[s] > 1
        /\ Begin(s, "validate", "generate")
        /\ left' = [left EXCEPT ![s] = @ - 1]
     \/ Begin(s, "validate", "exit") /\ UNCHANGED left
  /\ UNCHANGED <<cmd, attempt, dbStarted, pending, execd, read, serverVars, signals,
                 crashes, history>>

\* Somebody leaves the interactive shell.
Leave(s) ==
  /\ Goto(s, "shell", "ended")
  /\ UNCHANGED <<cmd, attempt, left, dbStarted, pending, execd, read, serverVars,
                 signals, crashes, history>>

----------------------------------------------------------------------------
\* The server has gone, by itself or because it was told to.
ServerGone ==
  /\ owner' = NoShell /\ stopping' = FALSE
  /\ pc' = [s \in Shells |-> IF pc[s] = "restoring" THEN "failing" ELSE pc[s]]
  /\ bereft' = bereft \cup {s \in {owner} : Running(s)}

\* Its clients' cursors break.
BreakCursors ==
  /\ CutReaders
  /\ torn' = torn \cup Reading

\* cleanup: kill the process of DB_PID.  The server stops in its own time.
Cleanup(s) ==
  IF dbStarted[s] /\ owner # NoShell /\ pidfile = owner
  THEN /\ stopping' = TRUE
       /\ BreakCursors
       /\ killed' = killed \cup {<<s, owner>>}
  ELSE UNCHANGED <<stopping, read, torn, killed>>

\* The trap of a signal: cleanup, and the shell goes on.
Trap(s) ==
  /\ pending[s] /\ pc[s] \in Boundary
  /\ Cleanup(s)
  /\ pending' = [pending EXCEPT ![s] = FALSE]
  /\ UNCHANGED <<pc, cmd, attempt, left, dbStarted, execd, owner, pidfile, corpus,
                 signals, crashes, bereft, cutShort>>

\* The trap of EXIT: cleanup, and the shell ends.
Exit(s) ==
  /\ Begin(s, "exit", "ended")
  /\ Cleanup(s)
  /\ UNCHANGED <<cmd, attempt, left, dbStarted, pending, execd, owner, pidfile, corpus,
                 signals, crashes, bereft, cutShort>>

\* The server that was told to stop ends.  It may clear the file with its id.
ServerStops ==
  /\ owner # NoShell /\ stopping
  /\ ServerGone
  /\ pidfile' \in {pidfile, NoShell}
  /\ UNCHANGED <<cmd, attempt, left, dbStarted, pending, execd, read, corpus, signals,
                 crashes, torn, cutShort, killed>>

\* The server ends by itself.
Crash ==
  /\ Up /\ crashes < MaxCrashes
  /\ crashes' = crashes + 1
  /\ ServerGone
  /\ BreakCursors
  /\ UNCHANGED <<cmd, attempt, left, dbStarted, pending, execd, pidfile, corpus,
                 signals, cutShort, killed>>

\* A signal to the shell, or to the generator that has replaced it and dies of it.
\* An interactive shell ignores it.
Terminate(s) ==
  /\ Running(s) /\ pc[s] # "shell" /\ signals < MaxSignals
  /\ signals' = signals + 1
  /\ IF execd[s]
     THEN pc' = [pc EXCEPT ![s] = "ended"] /\ UNCHANGED pending
     ELSE pending' = [pending EXCEPT ![s] = TRUE] /\ UNCHANGED pc
  /\ UNCHANGED <<cmd, attempt, left, dbStarted, execd, read, serverVars, crashes, history>>

\* What a shell does after its foreground command has died of a signal.
AfterInterrupt(s) ==
  IF execd[s] THEN "ended"
  ELSE IF pc[s] \in {"restoring", "failing"} THEN "sleep"
  ELSE IF pc[s] \in {"start", "started", "restore", "ready", "generate"} THEN pc[s]
  ELSE "exit"

\* A signal from the terminal: the foreground command dies, and the shell gets
\* the signal as well.  mongod may have forked the server by then.
Interrupt(s) ==
  /\ Running(s) /\ pc[s] # "shell" /\ signals < MaxSignals
  /\ signals' = signals + 1
  /\ pc' = [pc EXCEPT ![s] = AfterInterrupt(s)]
  /\ pending' = [pending EXCEPT ![s] = ~execd[s]]
  /\ \/ pc[s] = "starting" /\ ServerStarts(s) /\ cutShort' = cutShort \cup {s}
     \/ UNCHANGED <<serverVars, cutShort>>
  /\ UNCHANGED <<cmd, attempt, left, dbStarted, execd, read, crashes, torn, bereft, killed>>

----------------------------------------------------------------------------
\* The steps of a shell and of the commands it runs.
Step(s) ==
  \/ BeginServer(s) \/ StartServer(s) \/ MarkStarted(s)
  \/ BeginRestore(s) \/ Restored(s) \/ RestoreFails(s) \/ Retry(s) \/ Return(s)
  \/ BeginGenerator(s) \/ Connect(s) \/ Generate(s) \/ Validate(s)
  \/ Trap(s) \/ Exit(s)

\* Every command has ended, and the server if it was told to.
Finished ==
  /\ \A s \in Shells : pc[s] = "ended"
  /\ ~stopping
  /\ UNCHANGED vars

Next ==
  \/ \E s \in Shells : Give(s) \/ Step(s) \/ Leave(s) \/ Terminate(s) \/ Interrupt(s)
  \/ ServerStops
  \/ Crash
  \/ Finished

\* Processes that are running go on, and a server that was told to stop does.
Fairness == (\A s \in Shells : WF_vars(Step(s))) /\ WF_vars(ServerStops)

Spec == Init /\ [][Next]_vars /\ Fairness

----------------------------------------------------------------------------
Locations ==
  Boundary \cup {"idle", "starting", "restoring", "failing", "connecting", "reading",
                "shell", "ended"}

\* The variables have their types.
TypeOK ==
  /\ pc \in [Shells -> Locations]
  /\ cmd \in Commands
  /\ attempt \in [Shells -> 1..MaxAttempts]
  /\ left \in [Shells -> 0..2]
  /\ dbStarted \in [Shells -> BOOLEAN]
  /\ pending \in [Shells -> BOOLEAN]
  /\ execd \in [Shells -> BOOLEAN]
  /\ read \in [Shells -> {"unread", "none", "partial", "full"}]
  /\ owner \in Shells \cup {NoShell} /\ pidfile \in Shells \cup {NoShell}
  /\ stopping \in BOOLEAN
  /\ corpus \in {"none", "partial", "full"}
  /\ signals \in 0..MaxSignals /\ crashes \in 0..MaxCrashes
  /\ torn \subseteq Shells /\ bereft \subseteq Shells /\ cutShort \subseteq Shells
  /\ killed \subseteq Shells \X Shells

\* A generator works on less than the whole corpus only when its server has gone
\* while it was reading, or when a shell has outlived its own server and there is
\* another one around, whose server it uses: start_database does not return before
\* a restore has succeeded, and one server at a time holds the port.
WholeCorpus ==
  \A s \in Shells : read[s] \in {"none", "partial"} =>
    \/ s \in torn
    \/ bereft # {} /\ \E t \in Shells \ {s} : pc[t] # "idle"

\* cleanup stops the server of another command only when the one its own shell had
\* started has ended before: db_started is set after mongod has returned, and
\* DB_PID names the server that runs.
KillsOwnServer == \A k \in killed : k[1] # k[2] => k[1] \in bereft

\* A command that has ended has left no server behind, unless it was replaced by
\* exec (raw, shell), which drops the trap, or was interrupted from the terminal
\* before mongod had returned and db_started was set.
NoServerLeft ==
  \A s \in Shells : pc[s] = "ended" /\ owner = s /\ ~stopping => execd[s] \/ s \in cutShort

\* The shells that have started a server and not ended, and among them those that
\* have set db_started.
Marked ==
  {"restore", "restoring", "failing", "sleep", "ready", "generate", "connecting",
   "reading", "validate", "shell"}
Holds(s) == pc[s] \in Marked \cup {"started"} \/ (pc[s] = "exit" /\ dbStarted[s])

\* Shell s is the only one, or no shell has outlived its server.
Calm(s) == bereft = {} \/ \A t \in Shells \ {s} : pc[t] = "idle"

\* Where a restore of the shell's own has succeeded.
HasRestored == {"ready", "generate", "connecting", "reading", "validate"}

\* The server that runs is the one of DB_PID, and belongs to the shell that has
\* started one and not lost it, of which there is one at most.
Ownership ==
  /\ owner # NoShell => pidfile = owner
  /\ \A s \in Shells :
       /\ pc[s] \in Marked => dbStarted[s]
       /\ dbStarted[s] => pc[s] \in Marked \cup {"exit", "ended"}
       /\ Holds(s) /\ s \notin bereft => owner = s
       /\ owner = s \/ s \in bereft => pc[s] \notin {"idle", "start", "starting"}
       /\ s \in bereft => owner # s
       /\ pc[s] = "shell" => execd[s]
       /\ execd[s] => pc[s] \in {"connecting", "reading", "shell", "ended"}
       /\ owner = s => pc[s] = "started" \/ dbStarted[s] \/ s \in cutShort

\* What a shell has restored is there while there is a server.
CorpusStays ==
  \A s \in Shells :
    Calm(s) /\ pc[s] \in HasRestored /\ owner # NoShell => corpus = "full"

\* The inductive invariant behind WholeCorpus, KillsOwnServer and NoServerLeft.
IInv ==
  /\ TypeOK
  /\ Ownership
  /\ CorpusStays
  /\ WholeCorpus
  /\ KillsOwnServer
  /\ NoServerLeft

\* Every command ends, but for the interactive shell: the attempts to restore the
\* corpus are bounded, and neither a lost server nor a signal makes it wait for ever.
CommandsEnd == \A s \in Shells : (pc[s] = "start") ~> (pc[s] \in {"ended", "shell"})

============================================================================
