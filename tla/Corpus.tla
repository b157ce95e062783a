------------------------------- MODULE Corpus -------------------------------
(***************************************************************************)
(* The program that fills the corpus, src/bin/ir_serde.rs: it goes through *)
(* the .clif files of a directory, takes the first function of each, and   *)
(* for every block of it inserts a document into the collection unless one *)
(* with the same instructions is there.                                    *)
(*                                                                         *)
(* The test and the insertion are separate requests to the database, which *)
(* other processes that run the program may come between.  A request may   *)
(* fail, and the caller drops the error; an insertion may fail after it    *)
(* has taken effect.  A process may be stopped at any point, and the       *)
(* program run again over the same files.                                  *)
(***************************************************************************)
EXTENDS Integers, Sequences

CONSTANTS
  Procs,        \* the runs of the program
  Directories,  \* the directories the program may be run over
  Format,       \* for each opcode the format of its instructions
  MaxFailures   \* bound: the requests that fail

\* What a block is told by: the opcodes of its instructions.
Block == Seq(DOMAIN Format)

\* A .clif file: it cannot be read, is not CLIF, has no function in it, or has a
\* first function with some blocks.
IsFile(file) ==
  /\ file.kind \in {"unreadable", "unparsable", "empty", "function"}
  /\ file.blocks \in Seq(Block)

ASSUME CorpusAssumption ==
  /\ \A d \in Directories : \A f \in DOMAIN d : IsFile(d[f])
  /\ MaxFailures \in Nat

VARIABLES
  content,   \* the directory: what is in each file
  docs,      \* the collection: a sequence of documents in the order of insertion
  at,        \* where each process is
  todo,      \* the files it has not come to
  blocks,    \* the blocks of the current function still to be inserted
  since,     \* how many documents there were when it asked for them
  failures,  \* how many requests have failed
  failed     \* history: the blocks whose insertion each process has given up

corpusVars == <<content, docs, at, todo, blocks, since, failures, failed>>

----------------------------------------------------------------------------
\* serde_json: an enum is an object whose only key is the variant, an instruction's
\* format; the fields, among them the opcode, are in the object under that key.
ToJson(op) == [format \in {Format[op]} |-> [opcode |-> op]]

\* add_instr for every instruction of the block.
BlockJson(block) == [i \in DOMAIN block |-> ToJson(block[i])]

\* Map::get, an option as a set.
Get(object, key) == {object[k] : k \in DOMAIN object \cap {key}}

\* BlockJson::compare_instrs
CompareInstrs(a, b) ==
  /\ Len(a) = Len(b)
  /\ \A i \in DOMAIN a : Get(a[i], "opcode") = Get(b[i], "opcode")

\* A process that will do no more.
Over == {"ended", "panicked", "stopped"}

CorpusInit ==
  /\ content \in Directories
  /\ docs = <<>>
  /\ at = [p \in Procs |-> "idle"]
  /\ todo = [p \in Procs |-> DOMAIN content]
  /\ blocks = [p \in Procs |-> <<>>]
  /\ since = [p \in Procs |-> 0]
  /\ failures = 0
  /\ failed = [p \in Procs |-> {}]

\* main
StartProc(p) ==
  /\ at[p] = "idle"
  /\ at' = [at EXCEPT ![p] = "files"]
  /\ UNCHANGED <<content, docs, todo, blocks, since, failures, failed>>

----------------------------------------------------------------------------
\* The next file, in the order the directory gives them.  A file that cannot be
\* read ends the traversal, without an error from main; one that does not parse is
\* passed over; ir_funcs[0] panics on one without a function.
NextFile(p) ==
  /\ at[p] = "files"
  /\ \E f \in todo[p] :
       /\ todo' = [todo EXCEPT ![p] = @ \ {f}]
       /\ \/ /\ content[f].kind = "unreadable"
             /\ at' = [at EXCEPT ![p] = "ended"]
             /\ UNCHANGED blocks
          \/ /\ content[f].kind = "unparsable"
             /\ UNCHANGED <<at, blocks>>
          \/ /\ content[f].kind = "empty"
             /\ at' = [at EXCEPT ![p] = "panicked"]
             /\ UNCHANGED blocks
          \/ /\ content[f].kind = "function"
             /\ at' = [at EXCEPT ![p] = "blocks"]
             /\ blocks' = [blocks EXCEPT ![p] = content[f].blocks]
  /\ UNCHANGED <<content, docs, since, failures, failed>>

\* There is no file left.
EndFiles(p) ==
  /\ at[p] = "files" /\ todo[p] = {}
  /\ at' = [at EXCEPT ![p] = "ended"]
  /\ UNCHANGED <<content, docs, todo, blocks, since, failures, failed>>

\* There is no block left.
EndBlocks(p) ==
  /\ at[p] = "blocks" /\ blocks[p] = <<>>
  /\ at' = [at EXCEPT ![p] = "files"]
  /\ UNCHANGED <<content, docs, todo, blocks, since, failures, failed>>

----------------------------------------------------------------------------
Current(p) == Head(blocks[p])

\* Broken variant of NextBlock: traverse_blocks returns after a block.
NextBlockNone(p) ==
  /\ at' = [at EXCEPT ![p] = "blocks"]
  /\ blocks' = [blocks EXCEPT ![p] = <<>>]
  /\ since' = [since EXCEPT ![p] = 0]
  /\ UNCHANGED todo

\* Broken variant of NextBlock: the cursor stays at the block.
NextBlockAgain(p) ==
  /\ at' = [at EXCEPT ![p] = "blocks"]
  /\ since' = [since EXCEPT ![p] = 0]
  /\ UNCHANGED <<todo, blocks>>

\* insert_json_into_mongodb returns, whatever the result, to traverse_blocks.
NextBlock(p) ==
  /\ at' = [at EXCEPT ![p] = "blocks"]
  /\ blocks' = [blocks EXCEPT ![p] = Tail(@)]
  /\ since' = [since EXCEPT ![p] = 0]
  /\ UNCHANGED todo

\* It returns an error, which traverse_blocks drops.
GiveUp(p) ==
  /\ failures < MaxFailures
  /\ failures' = failures + 1
  /\ failed' = [failed EXCEPT ![p] = @ \cup {Current(p)}]
  /\ NextBlock(p)

\* collection.find
Find(p) ==
  /\ at[p] = "blocks" /\ blocks[p] # <<>>
  /\ at' = [at EXCEPT ![p] = "scan"]
  /\ since' = [since EXCEPT ![p] = Len(docs)]
  /\ UNCHANGED <<content, docs, todo, blocks, failures, failed>>

\* Whether the block is among the first n documents.
Among(block, n) == \E i \in 1..n : CompareInstrs(docs[i].instrs, BlockJson(block))

\* The cursor gives the documents there were, and maybe some inserted meanwhile.
\* The block is found and skipped, or is to be inserted.
Skip(p) ==
  /\ at[p] = "scan"
  /\ \E n \in since[p]..Len(docs) : Among(Current(p), n)
  /\ NextBlock(p)
  /\ UNCHANGED <<content, docs, failures, failed>>

\* Broken variant of NotFound: an error of the cursor ends the scan as its end does.
NotFoundEarly(p) ==
  /\ at[p] = "scan"
  /\ \E n \in 0..Len(docs) : ~Among(Current(p), n)
  /\ at' = [at EXCEPT ![p] = "insert"]
  /\ UNCHANGED <<content, docs, todo, blocks, since, failures, failed>>

NotFound(p) ==
  /\ at[p] = "scan"
  /\ \E n \in since[p]..Len(docs) : ~Among(Current(p), n)
  /\ at' = [at EXCEPT ![p] = "insert"]
  /\ UNCHANGED <<content, docs, todo, blocks, since, failures, failed>>

\* The document, with the writer and what it had seen (history).
Document(p) == [instrs |-> BlockJson(Current(p)), by |-> p, since |-> since[p]]

\* collection.insert_one
Insert(p) ==
  /\ at[p] = "insert"
  /\ docs' = Append(docs, Document(p))
  /\ NextBlock(p)
  /\ UNCHANGED <<content, failures, failed>>

\* A request fails: connecting, find, the cursor, or the insertion.
RequestFails(p) ==
  /\ at[p] \in {"scan", "insert"}
  /\ GiveUp(p)
  /\ UNCHANGED <<content, docs>>

\* The insertion takes effect, and its answer is lost.
AnswerLost(p) ==
  /\ at[p] = "insert"
  /\ docs' = Append(docs, Document(p))
  /\ GiveUp(p)
  /\ UNCHANGED <<content>>

\* The process is stopped.
StopProc(p) ==
  /\ at[p] \notin {"idle"} \cup Over
  /\ at' = [at EXCEPT ![p] = "stopped"]
  /\ blocks' = [blocks EXCEPT ![p] = <<>>]
  /\ since' = [since EXCEPT ![p] = 0]
  /\ UNCHANGED <<content, docs, todo, failures, failed>>

----------------------------------------------------------------------------
ProcStep(p) ==
  \/ NextFile(p) \/ EndFiles(p) \/ EndBlocks(p)
  \/ Find(p) \/ Skip(p) \/ NotFound(p) \/ Insert(p) \/ RequestFails(p) \/ AnswerLost(p)

\* Every process is over.
AllOver ==
  /\ \A p \in Procs : at[p] \in Over
  /\ UNCHANGED corpusVars

CorpusNext ==
  \/ \E p \in Procs : StartProc(p) \/ ProcStep(p) \/ StopProc(p)
  \/ AllOver

\* A process that is running goes on: every request is answered or fails.
CorpusSpec == CorpusInit /\ [][CorpusNext]_corpusVars /\ \A p \in Procs : WF_corpusVars(ProcStep(p))

----------------------------------------------------------------------------
Json == {ToJson(op) : op \in DOMAIN Format}

\* The variables have their types.
CorpusTypeOK ==
  /\ content \in Directories
  /\ docs \in Seq([instrs : Seq(Json), by : Procs, since : Nat])
  /\ at \in [Procs -> {"idle", "files", "blocks", "scan", "insert"} \cup Over]
  /\ todo \in [Procs -> SUBSET DOMAIN content]
  /\ blocks \in [Procs -> Seq(Block)]
  /\ since \in [Procs -> Nat]
  /\ failures \in 0..MaxFailures
  /\ failed \in [Procs -> SUBSET Block]

\* The collection holds two documents that the program takes for equal only when
\* two runs overlapped: the later one was inserted by another process, which had
\* asked for the documents before the earlier one was there.  A run that is
\* repeated, after failures too, adds no second copy.
CopiesOnlyFromRaces ==
  \A i, j \in DOMAIN docs :
    i < j /\ CompareInstrs(docs[i].instrs, docs[j].instrs) =>
      docs[i].by # docs[j].by /\ docs[j].since < i

\* When a run has come to the end of the files, every block of every first function
\* is represented by a document the program takes for equal, or is one whose
\* insertion failed in that run: files that do not parse, blocks that were skipped
\* and other runs take nothing away.
BlocksKept ==
  \A p \in Procs : at[p] = "ended" /\ todo[p] = {} =>
    \A f \in DOMAIN content : content[f].kind = "function" =>
      \A i \in DOMAIN content[f].blocks :
        Among(content[f].blocks[i], Len(docs)) \/ content[f].blocks[i] \in failed[p]

\* Why CopiesOnlyFromRaces holds: of the documents there were when it asked, a
\* process has seen none like its block, and none of those added since is its own.
SeenNone ==
  \A p \in Procs : at[p] \in {"scan", "insert"} =>
    /\ blocks[p] # <<>>
    /\ since[p] <= Len(docs)
    /\ \A i \in DOMAIN docs : i > since[p] => docs[i].by # p
    /\ at[p] = "insert" => ~Among(Current(p), since[p])

\* Why BlocksKept holds: a block of a file the process has come to is represented,
\* has failed, or is still to be inserted.
Kept(p, block) == Among(block, Len(docs)) \/ block \in failed[p]
Left(p) ==
  IF at[p] \in {"blocks", "scan", "insert"} THEN {blocks[p][k] : k \in DOMAIN blocks[p]} ELSE {}
FilesKept ==
  \A p \in Procs : at[p] \notin {"panicked", "stopped"} =>
    \A f \in DOMAIN content \ todo[p] : content[f].kind = "function" =>
      \A i \in DOMAIN content[f].blocks :
        Kept(p, content[f].blocks[i]) \/ content[f].blocks[i] \in Left(p)

\* The inductive invariant behind CopiesOnlyFromRaces and BlocksKept.
CorpusIInv == CorpusTypeOK /\ SeenNone /\ CopiesOnlyFromRaces /\ FilesKept

\* A run ends: it comes to the end of the files, or to one that stops it.
RunsEnd == \A p \in Procs : (at[p] = "files") ~> (at[p] \in Over)

\* What the program says when it skips a block, "Document already exists in the
\* collection": a document with the instructions' opcodes is there.
SkippedExists ==
  [][\A p \in Procs : Skip(p) =>
       \E i \in DOMAIN docs : docs[i].instrs = BlockJson(Current(p))]_corpusVars

============================================================================
