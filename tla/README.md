# CLIR in TLA+

CLIR generates random programs in Cranelift IR (CLIF) to test Cranelift's
back ends. A generated program is only useful if it is valid: every value must
be defined before it is used on every path, every edge must pass what its
target expects, every operand must have the type its instruction takes. CLIR
does not check any of this: it relies on the way the program is built. This
project models how it is built, and the scripts and the database around the
generator. It checks the models with TLC, and proves with TLAPS, for all values of
the constants, every safety property that holds; liveness is left to TLC.

Paths below are relative to the root of the repository.

## 1. Inventory

### Parts and how they interact

    ir_serde ──> MongoDB (corpus) <── start_database, cleanup (entrypoint.sh)
                     │ load_all_documents
                     v
    configs/*.toml ──> config_intersection (compatible mode)
                     │
                     v
    call tree ──> for every function:  cf_construct ──> function_generator
    (cg-constructor)                   (blocks, edges)   ├ dfs, compute_dominators
                                                         ├ populate_block_instructions
                                                         ├ block parameters, arguments
                                                         └ return
                                                              │
                   insert_function_invocation  <──────────────┘
                              │ (callees first, main last)
                              v
                   three .clif files per program and architecture
                              │
                              v
                   validate_output.sh

| Part | Source | State | Operations |
|---|---|---|---|
| Control-flow constructor | `crates/cf-constructor/src/lib.rs` | layout, terminators, condition parameters, the structure built last | `cf_construct`, `update_predecessor`, `update_successor` |
| Dominators | `crates/function-generator/src/dominator_tree.rs` | visited set, postorder, a set per block | `reverse_postorder`, passes of `compute_dominators` |
| Function generator | `crates/function-generator/src/lib.rs` | `dfs_order`, `block_def_values`, `block_ref_values`, block parameters and arguments | first loop (instructions, conditions), second loop (parameters), return, `insert_function_invocation` |
| Instruction selector | `crates/function-generator/src/instruction_selector.rs` | recorded types of the values of a block | one arm of `populate_block_instructions` per opcode |
| Call graph | `crates/cg-constructor/src/lib.rs` | the tree, the counter of names | `generate_function_tree`, `cg_post_order_traversal` |
| Program assembly | `src/bin/ir_generator.rs` | the list in post-order, `func_dominator_ref_map_vec`, the text, `fileid` | `generate_ir`, `generate_ir_intersection` |
| Configurations | `crates/commons/src/types.rs`, `configs/` | `final_config` | `config_intersection`, `Mode::intersect` |
| Commands, validation | `scripts/entrypoint.sh`, `scripts/validate_output.sh` | the output directory | `run_single`, `run_compatible`, validation |
| Corpus writing | `src/bin/ir_serde.rs` | the collection of block documents | `process_dirs_clif`, `traverse_blocks`, `insert_json_into_mongodb` |
| Database lifecycle | `scripts/entrypoint.sh`, `load_all_documents` | `db_started`, the server, `DB_PID`, the collection | the commands, `start_database`, `cleanup` |

### What is hard about it

The generator itself is sequential. What makes it hard to test is randomness and
distance: a draw in one phase is paid for several phases later, in a structure
that thousands of draws have shaped. Around it there is concurrency: commands,
the server they start, signals, and runs of `ir_serde` on one collection.

* The constructor edits a flow graph in place. It reconstructs a terminator from
  the *number and order* of a block's successors, and leaves branch conditions
  that read parameters of removed blocks.
* The value tables (`block_def_values`, the dominator sets) are computed once
  and used by later phases, after the function has changed.
* Several phases unwrap a random choice from a list that nothing in sight
  shows to be non-empty.
* The type recorded for a value is decided by hand in each of 180 arms, and
  must agree with what Cranelift infers.
* The output directory outlives the command that writes it; a command can be
  stopped at any point, and failed writes are ignored.
* Commands share a port, a data directory and a file with a process id. The trap
  that stops the server also runs on a signal, after which the shell goes on.
* `ir_serde` looks for a document and inserts it in two requests, and drops their
  errors.

`PROJECT.json` lists these hazards with the line where each bites and the
properties that cover it.

## 2. Modules

| Module | Models | Checked by | Proved in |
|---|---|---|---|
| `ControlFlow` | cf-constructor | run `skeletons` | `ControlFlowProofs` |
| `Skeleton` | — (what the constructor hands to the generator) | | |
| `Dominance` | — (flow graphs, what "dominates" means) | | |
| `DominatorSpec` | what `compute_dominators` promises | | |
| `Dominators` | dominator_tree.rs | run `dominators` (`MCDominators`) | `DominatorsProofs` |
| `FunctionGenerator` | function-generator/lib.rs | run `generation` (`MCFunctionGenerator`) | `LoopProofs`, `FunctionGeneratorProofs` |
| `InstructionSelector` | instruction_selector.rs | runs `selector`, `selector_icmp` (`MCInstructionSelector`) | `ConfigProofs` |
| `CallGraph` | cg-constructor, assembly of one program | run `call_graph` | `CallGraphProofs` |
| `ConfigIntersection` | config_intersection, `compatible` arm of main | runs `config`, `config_constants` (`MCConfigIntersection`) | `ConfigProofs` |
| `Output` | the loop over programs, files, validation | run `output` (`MCOutput`) | `StorageProofs` |
| `Entrypoint` | commands, database server, trap, reading of the corpus | run `entrypoint` (`MCEntrypoint`) | `EntrypointProofs` |
| `Corpus` | ir_serde.rs | runs `corpus`, `corpus_skip` (`MCCorpus`) | `StorageProofs` |

An `MC…` module only gives constants their values (`MCInstructionSelector` also
states, as an assumption that TLC evaluates, that the shipped configurations are
of the kind the proofs suppose). Definitions whose comment
begins with "Broken variant" are mutations of the definition that follows: with
each of them in its place TLC finds a property violated, which shows that the
property depends on that piece of the code.

### ControlFlow

One step is one call of `cf_construct`. `ConstructRoot` makes entry and end
block with a structure between them; `ConstructNested` replaces a block of the
structure built last (`parent.random` is what `get_random_block` may return) by
a new structure. `Inserted`, `UpdatePredecessor`, `Spliced` are the three edits
of the layout in the order of the code; `Unfit` is the condition of the panics
of `update_successor`. Terminators are records with a function from slots to
targets, so that "the same successors in other slots" is a difference the
properties see. Blocks are numbers in order of allocation, since
`update_successor` sorts by them.

### Dominators

`Dfs…` actions are the recursion of `reverse_postorder`, one frame per active
call; `UpdateNode` is the body of the `for` loop for one block, `EndPass` the
test of `changed`. `Dominates` of module `Dominance` is the reference definition,
by paths that avoid a block, independent of the algorithm. `DominatorSpec` is what
the callers see: one step from the flow graph to the table. `Dominators`
implements it (`KeepsPromise`), with the table as the answer once `pc` is "done".
Graphs are arbitrary: unreachable blocks
and irreducible loops are included, although the constructor makes neither.

### FunctionGenerator

The phases of `function_generator` in their order: `Dfs` (the preorder list),
`Populate` (first loop), `InsertParams`/`SkipParams` (second loop),
`InsertReturn`, and then `InsertCall` for `insert_function_invocation`. A value
is its block, type and kind of definition. Three places of the code behave
differently from what they look like, and the model follows the behaviour:
`pre_blocks.iter().map(…)` (line 593) is lazy and never runs, so the types of
parameters are those the block itself reads; the copy of `value_lists` in the
replacement of operands (line 725) is not written back, so only operands
stored inline change; `for next_instr in next_inst()` (line 926) visits one
instruction. Which opcodes are drawn does not depend on the corpus:
`get_instr_snippet` never looks at the documents it is given. `WellBuilt` of module
`Skeleton` is all that the generator relies on in a skeleton; `ControlFlowProofs`
shows that the constructor makes no other. The skeletons of the run come from the
operators of `ControlFlow`.

### InstructionSelector

All arms, as sets of *plans*: for every choice of types, what the arm looks
for before it draws a value (and gives up without), which operands it takes,
whether it returns an instruction, nothing, or panics, the type it records, the
type Cranelift gives the result, and whether the types go together. Arms that
differ only in the opcode share a definition. `NotFound` is the panic for an opcode
that the configuration has no entry for (`unlisted`). A list that is absent from a
mode is as an empty one, a panic, except for `x86_cvtt2dq`, which returns `None` for
an empty list and panics without one (`has_operand`). `Populate` is one call,
`NextBlock` the step to the next block with any set of dominators that contains
the entry block and itself. `MCInstructionSelector` transcribes the types of the
four configuration files and what `config_intersection` makes of them. `Covers`,
`RecordsTruly` and `ListsGoTogether` say what the arms rely on in a configuration.

Arms that return `None` whatever happens (control flow, dynamic stack, `trap`,
`debugtrap`, `vconst`, `f16const` ...), also those that first emit something that
defines no recorded value (`nop`, `fence`, `stack_addr`, `set_pinned_reg`), are
the plan `None`. The arm of `cls` emits `clz`, and `select` takes the types of all
three operands from `arg0_types`; neither makes a difference to types.

### CallGraph, ConfigIntersection, Output

`CallGraph` is one program: the tree with the shared counter of names, the
traversal as a stack of calls, and the loop that generates, links and writes.
The caller's copies of its callees (`get_child_funcs_clone`) are the reason why
`CalleesWrittenFirst` is about signatures too.

`ConfigIntersection` models options as sets with at most one element. One list
stands for the three lists of a mode, which are treated alike.

`Output` is a sequence of commands on the same directory. `CreateFiles` may fail
at any of the three files, which ends the generator (`unwrap`). `WriteFiles` may
leave each file empty, partial or full, because the results of `write_all` are
ignored. For TLC the constant `MaxLost` bounds this (`Contents`): the three files of
a program end all alike, or no more than `MaxLost` files of the command are
written otherwise than in full, in any way. The proofs hold for every `MaxLost`, so
for every combination in every program. `Stop` ends a command at any moment. In
single mode there is one "architecture", the directory itself.

### Entrypoint

A command is a shell; several run at a time or in turn. The shells share the
port (`owner`), the process id file (`pidfile`) and the collection (`corpus`).
`Step` follows the script: `BeginServer`, `StartServer` and `MarkStarted` are the
three moments of `mongod --fork` and `db_started=1`; `BeginRestore`, `Restored`,
`RestoreFails` and `Retry` the attempts; `BeginGenerator`, `Connect`, `Generate` and
`Validate` a run of the generator and its validation. `Cleanup` is the function of
that name, called by `Trap` and by `Exit`. bash runs a trap between foreground
commands, so a shell with a signal pending can take no step that begins a command
(`Begin`) before `Trap`. The trap does not exit: after TERM the shell stops its server
and goes on. `Interrupt` is Ctrl-C, which also ends the foreground command.
A server that was told to stop keeps the port until `ServerStops`. The commands
`help` and `validate` use no database and are left out. Four history variables
record what the properties speak of: who has lost a server, and who stopped
whose. mongod, mongorestore and bash are not part of the repository and are
modelled from the way the script uses them.

### Corpus

A process goes through the files in any order (`NextFile`), and through the
blocks of the first function of each. `Find`, `Skip`/`NotFound` and `Insert` are
the requests of `insert_json_into_mongodb`; between them other processes may
insert, and a cursor may or may not deliver what came after it was opened.
`RequestFails` and `AnswerLost` are the errors that `traverse_blocks` drops, the
second after the insertion has taken effect. `ToJson` keeps the nesting that
serde gives an enum, because `compare_instrs` depends on it.

## 3. What the runs check

| Run | Bounds | Distinct states | Shows |
|---|---|---|---|
| `skeletons` | depth 2, sequences of 2 or 3, switches of 2 cases | 1 056 | No panic; one exit; distinct targets; conditions where they belong; every block reachable and the end from every block; a splice is a substitution and keeps the roles of targets; the inductive invariant |
| `dominators` | all graphs of four blocks with no edge to the entry block | 76 064 | Implements `DominatorSpec`; exact dominators on return; the inductive invariant; two passes for reducible graphs; termination |
| `generation` | if-else and loop with two callees; a loop with an if-else as condition, two loops, a switch with a loop; one block that reads up to two values and one that defines a value; three types | 479 139 | SSA form after every step; edges match parameters; conditions live; tables current; no failing unwrap; signatures survive calls and forwarded results; the inductive invariant |
| `selector` | the shipped configurations and their intersection; two blocks, two values beyond the constants | 65 994 | No panic; recorded types are Cranelift's types; the types of each instruction go together |
| `selector_icmp` | s390x | — | violated, see below |
| `call_graph` | depth 2, one or two children, two signatures | 6 878 | Callees are written first, with the right signature; each is called once |
| `config` | three architectures, two modes, two types | 32 768 | The intersection is exactly what all have |
| `config_constants` | two architectures | — | violated, see below |
| `output` | two architectures, 0–2 programs, two commands; two files of a command (`MaxLost`), or all three of a program alike, not in full | 516 062 | What passes validation is fresh and complete; a clean command is rejected only for leftovers; every command ends |
| `entrypoint` | two shells (`reduced` with `reduced`, `raw` or `shell`), two attempts, one signal, one crash of the server | 311 494 | When a generator may miss part of the corpus; whose server the trap stops; when a server is left behind; every command ends |
| `corpus` | two processes, three directories of two or three files, one failing request, stops anywhere | 160 985 | Copies come only from overlapping runs; every block has a document the program takes for equal, unless its insertion failed; a run ends |
| `corpus_skip` | as `corpus` | — | violated, see below |

In `selector` the configuration of s390x is taken without i8x16 among the types
of `icmp`; with it `OperandsFit` does not hold, which is what `selector_icmp` shows.

Why the bounds are enough. `skeletons` has the depth of the code, 2, and smaller
structures (the code draws sequences of 2–4 and switches of 6–8 cases), because
reachability enumerates all sets of blocks; the proofs cover all sizes and
depths. Four blocks are enough for nested,
overlapping and irreducible loops, and for the dominators the proofs again cover
every size. The skeletons of `generation` have the joins that matter: a join
inside a loop, a loop header with two predecessors one of which it dominates,
and a branch table whose target is a loop header. One reading and one defining
block suffice because every property relates one use to one definition; the proofs
cover any skeleton, types and callees. In the
selector a wrong recorded type shows up with two values: the first gets it, a
later instruction takes it as an operand in a second block; a choice from an
empty list needs no more than the first instruction; the proofs cover any number of
both. In `call_graph`, depth 2
instead of 4 has siblings, cousins and nested calls; nothing depends on absolute
depth. Two commands suffice for leftovers, since a command sees only the
directory the ones before it left. `MaxLost` = 2 has every way in which two files
end, of one program (full, partial, empty) or of two. In `entrypoint` two shells, one signal and one
crash are enough for every exception the properties name to be needed: a server
lost while another shell waits for the port, a signal between the fork and
`db_started`, a second generator after the server has gone. `reduced` runs two
generators; the other commands that do not exec are the same with one generator
or another number of programs. Two attempts have a first, a next and a last one.
Two processes are a race. For these modules too the proofs cover all sizes.

Fairness. `Dominators` and `Output` assume weak fairness of the program's own
steps: both are sequential loops that the operating system lets run. In `Output`
neither `Start` nor `Stop` is fair: nobody has to give or stop a command.
`Entrypoint` assumes weak fairness of every shell's `Step` and of `ServerStops`: a
process that can go on does, and mongod obeys SIGTERM. Giving a command, leaving
the interactive shell, signals and crashes are not fair. `Corpus` assumes weak
fairness of every process's `Step`: a request is answered or fails. The other
modules state safety only and need no fairness. Deadlock is checked in every run:
a program that has returned stutters explicitly. A generator that has panicked
does not, so that a panic also shows as a deadlock; in `Corpus`, where a file
without a function does make the code panic, the panic is an end of the run.

### Disagreements found

* `config_constants`: the README says that compatible mode "generates shared
  programs for all four architectures", yet `config_intersection` copies
  `operand_types` from the first configuration. With the shipped files, f16 and
  f16x8 constants of x86_64 are in the programs for all.
* `selector_icmp`: comparing i8x16 vectors gives an i8x16 value that is recorded
  as i8. Only the configuration of s390x lists i8x16 for `icmp`.
* `corpus_skip`: `compare_instrs` looks for the opcode in the outer JSON object,
  whose only key is the instruction's format. It compares nothing with nothing:
  two blocks with as many instructions are equal, and all but the first of them
  are skipped as "already exists". `CopiesOnlyFromRaces` and `BlocksKept` are about
  the equality the code computes; the violated `SkippedExists` is about opcodes.

Two observations that contradict no document, and so are not runs:

* A mode whose lists have nothing in common survives the intersection with `None`
  for a list the selector unwraps. The shipped configurations do not run into it:
  run `selector` includes their intersection and shows `NoPanic`.
* A command does not end on TERM. It stops its server and goes on, and most often
  ends later because a generator finds no server. The exceptions in `WholeCorpus`
  and `KillsOwnServer` come from this and from a server that ends by itself: a
  shell without a server may use, and at its end stop, one that another shell has
  started since.

## 4. What is proved

TLC checks small instances. For the modules below TLAPS proves the properties for
every value of the constants; all proofs are complete, and rest on nothing but
the named assumptions of the modules. TLC has checked each inductive invariant
before.

### ControlFlowProofs

Assumption `BoundsAssumption`: the depth is a natural number, a sequence has at
least one block, a switch at least two cases. Both lower bounds are needed by the
code: `sequential` subtracts 1 from an unsigned size, and `update_successor` takes
a branch table with two successors for a `brif`.

Theorems: `Invariance` (`Spec => []IInv`), and from it `TypeCorrect`, `Panics`,
`Exit`, `Targets`, `Conditions`, `EntryKept`, `Reachability` and `WayOut`, and the two
action properties `TerminatorKept` and `Substitution`. `SkeletonKept` puts them
together: what `cf_construct` has built is `WellBuilt`, after each of its calls. This is
the assumption of `FunctionGenerator` about its skeletons, so what is proved there
holds for every function CLIR builds.

The safety properties are not inductive by themselves. Two facts are missing.
(`IInv` also keeps that the entry block ends in a jump, for `SkeletonKept`.)

* `Replaceable`: a block that the next call may replace lists its targets in
  increasing order, and is neither entry nor end. Then the sorted successors
  that `update_successor` works with *are* the slots (`RebuildIsIdentity`), so
  the terminator moves unchanged and the panics are out of reach. A splice does
  break the order of a block that branches to the replaced one, whose target gets
  a larger number; but such a block belongs to the old structure (or is a block
  outside it) and is never a candidate again. The candidates of the next call
  are blocks of the new structure: their own branches are in order of allocation,
  and the last block has inherited a terminator that was in order.
* `NoSelfLoop`: otherwise `update_predecessor` would change the terminator that
  `update_successor` is about to move.

Each of the four structures is shown `WellBuilt` once (`SequentialWellBuilt` ...
`SwitchWellBuilt`); `SpliceFacts` and `SpliceEdges` describe the edges after a
splice of any well-built structure; `NestedReachable` and `NestedReachEnd`
transfer reachability by turning a closed set of new blocks into a closed set
of old ones. Reachability is stated with closed sets rather than with paths, so
that no induction over paths is needed.

### DominatorsProofs

Assumption `GraphAssumption`: blocks are a finite set of numbers with an entry
block, and a graph gives each block successors. Nothing is assumed about
reachability or reducibility.

Theorems: `Invariance` (`Spec => []DInv`), and from it `TypeCorrect`, `Sound`,
`Correct`, `Search` and the action property `Shrinking`; `PassesInvariance`
(`Spec => []IInv`) and from it `TwoPassesSuffice`. `Refinement`: the initial
states and every step are those of `DominatorSpec`, or change nothing a caller
sees; the last step, and no other, returns the answer. That the answer comes at
all, the fairness of `DominatorSpec`, is left to TLC.

`DInv` has three parts. `DfsInv`: a visited block is on the stack or finished,
what a call has dealt with has been visited, nothing unreachable is visited.
`OrderInv`: the list is the visited set. `TableInv`: a set never falls below what
the predecessors allow (`NewDom(n) \subseteq dominators[n]`), and as long as the
pass has changed nothing, the sets before `pos` equal it. When a pass ends
without a change, the table is a fixpoint; `FixpointIsExact` shows that a
fixpoint above the true sets is exact: if `d` is in the set of `n`, the blocks
whose sets do not contain `d` include the entry block (unless it is `d`) and are
closed under every edge that avoids `d`, and `n` is not among them; they are the
witness that `d` dominates `n`.

`IInv` adds `PassInv`, which holds the number of passes down on a reducible graph:
behind the position of the first pass the sets are final, and so the second pass
changes nothing. A predecessor of `n` that the first pass has not come to is left by
the search before `n`, and so, the graph being reducible, `n` dominates it. Such a
predecessor is no way around a block that is on all the other ways to `n`
(`TwoWays`). Hence what `n` gets from the predecessors behind it is what dominates
`n` (`FirstPass`), and `LaterPass` shows that a pass over exact sets leaves them.

Where an argument takes the first or least of something, the lemma `NatMin` (a
non-empty set of naturals has a least element) stands in for induction.

`EveryStepAdvances` is why the loops end: a step enters the next phase, or the search
visits or leaves one block more or has one successor less to look at, or a pass
makes a set smaller, finds nothing more to change, or moves on in the list. No
set ever grows, so each pass that is followed by another has cost a member of one.

### EntrypointProofs

Assumption `EntrypointAssumption`: at least one attempt, and the commands are those
of the script. Any number of shells, attempts, signals and crashes.

Theorems: `Invariance`, `CorpusIsWhole`, `OwnServerOnly`, `ServersStopped`.
`Ownership` is the fact the three properties need: the server that runs is the
one of `DB_PID`, and a shell that has started a server and has not lost it
(`bereft`) is its owner, so that there is one such shell at most. Hence a `cleanup`
hits another's server only from a shell in `bereft`. `CorpusStays`: what a shell has
restored stays whole as long as nobody has lost a server or nobody else is
there, since only a restore of another shell could drop it, and that shell would
have to own a server as well.

`CommandsAdvance` is why the commands end. A shell is `Further` when it comes to a
later attempt, else a later generator, else a later `Place` between the two. Each of
its steps gets it further or runs a trap that was due; and the interference, which
is what a unit test would not reach, never sets it back (`NeverBack`): a crash of the
server, a `kill` from another shell or a new server change what the shell will find,
not where it is, and only a signal makes a new trap due.

### LoopProofs and FunctionGeneratorProofs

Assumption `GeneratorAssumption`: skeletons are `WellBuilt`; there are finitely many
types; the operand types, of which the entry block gets a parameter or constant
each, include i32 and i64, as in all four configurations; signatures draw
parameters from the operand types, and a function returns something. Any
skeletons, types, signatures, lists of callees and numbers of instructions.

Theorems: `Invariance` (`Spec => []IInv`), and from it `NeverPanics`, `GeneratedSSA`,
`BranchesReadLiveConditions`, `EdgesPassParams`, `TableStaysCurrent`,
`CallsKeepSignatures`, `DfsDominatorsFirst` and `GeneratorTypes`. `LoopProofs` has the
lemmas about skeletons, dominators and sequences, and the invariance of the
depth-first list and the two loops. Its lemmas suppose the few facts about finite
sets they need (`SetFacts`); `FunctionGeneratorProofs` extends it by the proof of
those facts (`SetFactsHold`), the return, the calls and the theorems, which suppose
nothing but the assumption above.

The properties need each other and five facts besides.

* `Listing`: a block comes after all that dominate it in the depth-first list,
  because it is reached from a block already listed and what strictly dominates
  it dominates that block too. Hence the first loop finds the tables of all
  dominators filled, although the list is a preorder and not a reverse postorder.
* `Tables`: the entry block has a value of every operand type, and it dominates every
  block, so no choice of a condition, a return value or an argument of a call is
  from an empty list. A type that a block reads comes from a strict dominator,
  which dominates every predecessor: so in the second loop each predecessor has an
  argument for each parameter (`ArgumentsExist`).
* `Readable`: what a populated block reads is in the table, so that clearing the
  parameters of a block that is populated later takes nothing away from it.
* `Parameters`: which blocks have their condition parameter, no parameter or the
  ones of the second loop. The arguments of a block are appended to what is on the
  edge, so `EdgesMatchParams` needs that nothing is there before.
* `Position` ties the loops' counters to the phases.

`PassArgsFacts` is where distinct targets matter: a list goes into the slots of a
terminator that lead to the block, each once. For calls, `Forwarded` says what
replacing operands by results may do to a reader: every new operand is a result of
the call, of a type that was there before, in a block the call site dominates.
`ForwardStep` shows that one such replacement keeps SSA form and signatures.

### ConfigProofs

For `config_intersection`: assumption `ConfigAssumption`, at least one configuration
(the command line requires it), each of the right shape. Theorems: `Invariance`,
`Shared`, `Complete`. The invariant says of the configurations met so far what the
properties say of all.

For the instruction selector: assumption `SelectorAssumption`, configurations list
Cranelift's types. Each theorem also supposes of the configurations what the arms
rely on, and no more. `SelectorNeverPanics` supposes `Covers`: every opcode has an
entry, no list is empty,
a match finds what it expects, and there is a constant of each type an arm draws
without looking. `SelectedOperandsFit` supposes `RecordsTruly`, five conditions on the
types of `pmaddubsw`, `fcmp`, `icmp`, `icmp_imm` and `shuffle`. `SelectedTypesGoTogether`
supposes `ListsGoTogether`. The three are a contract for configuration files: TLC
evaluates (`SuitableConfigs`) that the four shipped ones and their intersection
satisfy it, but for `icmp` on i8x16 of s390x, which is the disagreement of
`selector_icmp`. Any number of blocks, values and instructions, any opcodes.

A plan is `Checked` if it is safe, records the truth and has types that go together,
each under its contract. There is one lemma per kind of arm, and `PlansChecked` puts
them together. What remains is about the values. `SeesConstants`: the constants
of the entry block are in its table, and every block sees them, so that a type for
which there is a constant has a candidate. `RecordedTruly`: all recorded values have
the types recorded for them; an operand is chosen by its recorded type, and so it
has the type the instruction takes.

### CallGraphProofs

Assumption `CallGraphAssumption`: a node makes at least one child below the maximal
depth, and there is a signature to draw. Theorems: `Invariance`, `CalleesFirst`,
`CalledExactlyOnce`, `CallChainsBounded`, `ProgramAdvances`. The invariant has a part per phase. `Tree`: each node but the root
is the child of exactly one node, made before it, and names are distinct. `Walked`:
the traversal has come to the children of the nodes it has pushed and to those
before the next one of its active calls, and to no other; so every node is
pushed once, after its children. `Emitted`: what is written is `Function` of the
nodes of the list, in its order, which uses that the entries of `maps` have
distinct names. The recursion is a stack of calls, so no induction over trees is
needed.

`HeightBounded`: the nodes can be given distances from the root, at most `MaxDepth`,
such that a child is one further than its parent. It is not inductive: a new node
gets the number of active calls for its distance, so the nodes of the active calls
must be as far from the root as there are calls around them (`Layering`), and a call
at `MaxDepth` must have no child to make (`LeavesAtMaxDepth`). `ProgramAdvances` rests on
it: an active call of `generate_function_tree` has one child less to make after each
step, the calls around it are as they were, and there are at most `MaxDepth` + 1 of
them. The traversal comes to a node it had not come to, or leaves one for good.

### StorageProofs

What is written to the output directory, and what to the database.

For the output: assumption `OutputAssumption`, the architectures are distinct, and
the number of programs asked for is bounded. Theorems: `Invariance`, `Passed`,
`Rejected`, `CommandGetsOn`. `Progress`: the files of the programs the command is
past are its own, and there is no file of its own beyond the current program.
Validation counts: the command's files are in the directory, their number is the
one expected (`ExpectedCardinality`), so if the count agrees there is no other
file. `CommandGetsOn`: a step ends the command, or adds one to `fileid` without
passing the number asked for, or gets on with the files of one program; a step
that fails is one that ends it or goes on, never one that is made again.

For the collection of blocks: assumption `CorpusAssumption`, files are of the four
kinds. Any number of processes, files, blocks and failures.

Theorems: `CorpusInvariance`, `NoCopies`, `RepresentedWhenDone`, `EqualMeansAsLong`,
`RunsGetCloser`. `RepresentedWhenDone` does not say that a block is in the collection:
it says that a document is there which `compare_instrs` takes for equal, and by
`EqualMeansAsLong` that is a document with as many instructions. `corpus_skip` shows a
block that is missing for this reason.
`SeenNone`: a process about to insert has seen no equal document among those
present when it asked, and none of the later ones is its own; so an equal one is
of another process, and later than the question. `FilesKept` carries `BlocksKept`
through the middle of a file: a block of a file the process has come to is
represented, has failed, or is still in `blocks`. Documents are never removed, so
what is represented stays so. `RunsGetCloser`: a run comes to a file it had not
come to, else to its next phase, else has one block less to insert, else makes the
next request; an insertion whose request fails is given up, not repeated, and no
other run touches `todo` or `blocks` of this one.

### What stays with TLC

* `Termination`, `KeepsPromise` as a whole, `RunsEnd`, and `CommandsEnd` of `Output` and of
  `Entrypoint`: liveness under fairness is beyond the prover. The part of them that is
  not about fairness is proved: each step makes progress in an order without
  infinite progress, and no step of another process undoes it (`EveryStepAdvances`,
  `RunsGetCloser`, `CommandGetsOn`, `CommandsAdvance`). That the order has no infinite
  progress is an induction, and that a process is never stuck (`ENABLED`) is not in
  the prover's reach either: both are left to TLC.
* The three violated properties of section 3, and that the shipped configurations
  satisfy what `ConfigProofs` supposes (`SuitableConfigs`): both are about given data.

The prover also cannot use recursive operators or induction theorems that take
an operator as a parameter; the modules avoid both.

## 5. What is not modelled

* The bits of constants, immediates, flags, offsets and stack slots: random data
  that no later decision reads.
* The random number generator: every draw is a free choice. The probabilities of
  `select_random_value` are left out; all its outcomes are possible.
* The text of CLIF, the TOML parser, the command-line parser.
* The commands `help` and `validate` of `entrypoint.sh`, and `start.sh`, a wrapper:
  they change no state.
* Cranelift itself, the rest of wasmtime and the ISLE sources, which are vendored
  beside the code. The generator uses Cranelift's data structures for functions
  as a library; the flow graph and the derivation of types, which its
  correctness depends on, are modelled from their source. Cranelift's
  compiler passes, its back ends, the wasmtime runtime and `isle_sources/` are
  never called by CLIR: they are what its output is meant to test.

Of CLIR's own code (`crates/`, `src/`, `scripts/`, `start.sh`) the definitions of the
modules stand for most lines, more than half of them the arms of the instruction
selector. What is left are unit tests, imports, printing, the text at the head of a
file, and the drawing of random data. With the vendored code counted the share is
small: nearly all of the repository is code that CLIR links to or never calls.

## 6. What could come next

1. Composition of `FunctionGenerator` and `InstructionSelector`: the first draws what a
   block reads from the values available there, the second follows the types that
   make an arm look for them. One module for both would show that the plans of the
   selector are the reads of the generator.
2. `Output` under the commands of `Entrypoint`: today a command that loses its server
   and one that writes a directory are in different modules.
3. Contracts for configurations as a test: `Covers`, `RecordsTruly` and
   `ListsGoTogether` are conditions that a loader of the TOML files could check.
