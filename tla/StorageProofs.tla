---------------------------- MODULE StorageProofs ---------------------------
(***************************************************************************)
(* Proofs about the two modules whose state is kept outside the program:   *)
(* Output, the directory the commands write their programs to, and Corpus, *)
(* the collection of blocks that runs of the program fill.  Each has a     *)
(* state, and a part of this module, of its own.                           *)
(***************************************************************************)
EXTENDS Output, Corpus, FiniteSetTheorems, TLAPS

----------------------------------------------------------------------------
(***************************************************************************)
(* Proofs about module Output, for any architectures, any numbers of       *)
(* programs and any number of commands: what validate_output.sh finds out  *)
(* by counting files is that the directory holds what the last command has *)
(* written and nothing else.                                               *)
(***************************************************************************)

\* The files a command for n programs is to leave.
Expected(n) ==
  {File(Archs[a], id, Levels[i]) :
     a \in DOMAIN Archs, id \in 0 .. (n - 1), i \in DOMAIN Levels}

\* The three suffixes differ.
LEMMA LevelFacts ==
  /\ DOMAIN Levels = 1 .. 3 /\ Len(Levels) = 3
  /\ \A i, j \in DOMAIN Levels : Levels[i] = Levels[j] => i = j
<1>1. DOMAIN Levels = 1 .. 3 /\ Len(Levels) = 3
  BY DEF Levels
<1>2. Levels[1] = "none" /\ Levels[2] = "speed" /\ Levels[3] = "speed_and_size"
  BY Zenon DEF Levels
<1> QED
  BY <1>1, <1>2

\* The positions of the architectures.
LEMMA ArchFacts ==
  /\ Len(Archs) \in Nat \ {0} /\ DOMAIN Archs = 1 .. Len(Archs)
  /\ 1 \in DOMAIN Archs /\ Len(Archs) \in DOMAIN Archs
<1> DEFINE S == {Archs[a] : a \in DOMAIN Archs}
<1>1. Archs \in Seq(S) /\ Archs # <<>>
  BY OutputAssumption, Zenon
<1> HIDE DEF S
<1>2. Len(Archs) \in Nat /\ DOMAIN Archs = 1 .. Len(Archs) /\ Len(Archs) # 0
  BY <1>1
<1> QED
  BY <1>2

\* A name tells the architecture, the program and the suffix.
LEMMA FileFacts ==
  ASSUME NEW a \in DOMAIN Archs, NEW b \in DOMAIN Archs,
         NEW i \in DOMAIN Levels, NEW j \in DOMAIN Levels, NEW m, NEW n
  PROVE  /\ File(Archs[a], m, Levels[i])[1] = Archs[a]
         /\ File(Archs[a], m, Levels[i])[2] = m
         /\ File(Archs[a], m, Levels[i])[3] = Levels[i]
         /\ File(Archs[a], m, Levels[i]) = File(Archs[b], n, Levels[j]) => a = b /\ m = n /\ i = j
<1>1. File(Archs[a], m, Levels[i]) = File(Archs[b], n, Levels[j]) =>
        Archs[a] = Archs[b] /\ m = n /\ Levels[i] = Levels[j]
  BY Zenon DEF File
<1> QED
  BY <1>1, LevelFacts, OutputAssumption, Zenon DEF File

\* The number of the first n positions.
LEMMA CountFacts ==
  \A n \in Nat : IsFiniteSet(1 .. n) /\ Cardinality(1 .. n) = n
BY FS_Interval

\* The number validate_output.sh computes is that of the files expected.
LEMMA ExpectedCardinality ==
  ASSUME NEW n \in Nat
  PROVE  /\ IsFiniteSet(Expected(n))
         /\ Cardinality(Expected(n)) = n * Len(Levels) * Len(Archs)
<1> DEFINE I == 0 .. (n - 1)
           L == DOMAIN Levels
           A == DOMAIN Archs
           P == (I \X L) \X A
           g == [x \in P |-> File(Archs[x[2]], x[1][1], Levels[x[1][2]])]
<1>1. IsFiniteSet(I) /\ Cardinality(I) = n
  BY FS_Interval
<1>2. IsFiniteSet(L) /\ Cardinality(L) = Len(Levels)
  <2>1. L = 1 .. 3 /\ Len(Levels) = 3
    BY LevelFacts, Zenon
  <2>2. IsFiniteSet(1 .. 3) /\ Cardinality(1 .. 3) = 3
    BY CountFacts, Zenon
  <2> QED
    BY <2>1, <2>2, Zenon
<1>3. IsFiniteSet(A) /\ Cardinality(A) = Len(Archs)
  BY FS_Interval, ArchFacts
<1>4. IsFiniteSet(P) /\ Cardinality(P) = n * Len(Levels) * Len(Archs)
  <2> HIDE DEF I, L, A
  <2>1. IsFiniteSet(I \X L) /\ Cardinality(I \X L) = n * Len(Levels)
    BY <1>1, <1>2, FS_Product, Zenon
  <2> QED
    BY <1>3, <2>1, FS_Product
<1>5. \A x \in P : /\ x = <<<<x[1][1], x[1][2]>>, x[2]>>
                   /\ x[1][1] \in I /\ x[1][2] \in L /\ x[2] \in A
  <2> HIDE DEF I, L, A
  <2> QED
    OBVIOUS
<1>6. \A x, y \in P : g[x] = g[y] => x = y
  <2> TAKE x, y \in P
  <2> HAVE g[x] = g[y]
  <2>1. File(Archs[x[2]], x[1][1], Levels[x[1][2]]) = File(Archs[y[2]], y[1][1], Levels[y[1][2]])
    BY Zenon
  <2> HIDE DEF P, g
  <2>2. x[2] = y[2] /\ x[1][1] = y[1][1] /\ x[1][2] = y[1][2]
    BY <1>5, <2>1, FileFacts
  <2> QED
    BY <1>5, <2>2, Zenon
<1>7. \A f \in Expected(n) : \E x \in P : g[x] = f
  <2> SUFFICES ASSUME NEW a \in A, NEW id \in I, NEW i \in L
               PROVE  \E x \in P : g[x] = File(Archs[a], id, Levels[i])
    BY DEF Expected
  <2> HIDE DEF I, L, A
  <2>1. <<<<id, i>>, a>> \in P
    BY Zenon
  <2>2. g[<<<<id, i>>, a>>] = File(Archs[a], id, Levels[i])
    BY <2>1, Zenon
  <2> QED
    BY <2>1, <2>2, Zenon
<1>8. \A x \in P : g[x] \in Expected(n)
  BY <1>5 DEF Expected
<1>9. g \in Bijection(P, Expected(n))
  <2>1. g \in [P -> Expected(n)]
    BY <1>8, Zenon
  <2> HIDE DEF P, g
  <2> QED
    BY <1>6, <1>7, <2>1, Zenon DEF Bijection, Injection, Surjection, IsInjective
<1>10. ExistsBijection(P, Expected(n))
  BY <1>9, Zenon DEF ExistsBijection
<1> HIDE DEF P
<1> QED
  BY <1>4, <1>10, FS_Bijection, Zenon

\* The counter of the programs has room for one more.
LEMMA BoundFacts ==
  ASSUME TypeOK
  PROVE  num \in Nat /\ IdBound \in Nat /\ num < IdBound
<1> DEFINE m == CHOOSE n \in Nums : \A k \in Nums : k <= n
<1>1. m \in Nums /\ \A k \in Nums : k <= m
  BY OutputAssumption, Zenon
<1> HIDE DEF m
<1>2. m \in Nat /\ num \in Nat /\ num <= m
  BY <1>1, OutputAssumption DEF TypeOK
<1>3. IdBound = 1 + m
  BY Zenon DEF IdBound, m
<1> QED
  BY <1>2, <1>3

\* Init establishes the invariant: the directory is empty.
LEMMA InitInv ==
  ASSUME Init
  PROVE  IInv
<1>1. DOMAIN dir = {} /\ IsFiniteSet({})
  BY FS_EmptySet, Zenon DEF Init
<1>2. TypeOK
  <2>1. DirOK
    BY <1>1, Zenon DEF DirOK
  <2>2. run \in 0 .. MaxRuns /\ num \in Nums \cup {0} /\ fileid \in Nat /\ arch \in DOMAIN Archs
    BY ArchFacts, OutputAssumption DEF Init
  <2>3. /\ pc \in {"idle", "program", "create", "write", "validate"}
        /\ result \in {"none", "passed", "rejected", "stopped"} /\ lost \in Nat
    BY Zenon DEF Init
  <2> QED
    BY <2>1, <2>2, <2>3, Zenon DEF TypeOK
<1> QED
  BY <1>2 DEF Init, IInv, Progress, PassedIsFresh, RejectedOnlyForLeftovers

\* A new command finds only files of earlier ones.
LEMMA StartInv ==
  ASSUME IInv, Start
  PROVE  IInv'
<1>1. /\ pc' = "program" /\ result' = "none" /\ lost' = 0 /\ fileid' = 0
      /\ run' = run + 1 /\ run < MaxRuns /\ num' \in Nums /\ UNCHANGED <<dir, arch>>
  BY Zenon DEF Start
<1>2. /\ run \in Nat /\ run' \in 0 .. MaxRuns
      /\ \A f \in DOMAIN dir : dir[f].run \in Nat /\ dir[f].run <= run /\ dir[f].run < run'
  BY <1>1, OutputAssumption DEF IInv, TypeOK, DirOK
<1>3. DirOK'
  <2>1. 1 .. run \subseteq 1 .. run'
    BY <1>1, <1>2
  <2> QED
    BY <1>1, <2>1, Zenon DEF IInv, TypeOK, DirOK
<1>4. TypeOK'
  BY <1>1, <1>2, <1>3, Zenon DEF IInv, TypeOK
<1>5. Progress'
  <2>1. \A a \in DOMAIN Archs, id \in 0 .. fileid' : ~Past(a, id)'
    BY <1>1 DEF Past
  <2>2. \A f \in DOMAIN dir' : dir'[f].run # run'
    BY <1>1, <1>2
  <2> QED
    BY <1>1, <1>2, <2>1, <2>2 DEF Progress
<1> QED
  BY <1>1, <1>4, <1>5 DEF IInv, PassedIsFresh, RejectedOnlyForLeftovers

\* A program is generated, and the first architecture is next.
LEMMA NewProgramInv ==
  ASSUME IInv, NewProgram
  PROVE  IInv'
<1>1. /\ pc = "program" /\ pc' = "create" /\ arch' = 1
      /\ UNCHANGED <<dir, run, num, fileid, result, lost>>
  BY Zenon DEF NewProgram
<1>2. TypeOK'
  BY <1>1, ArchFacts, Zenon DEF IInv, TypeOK, DirOK
<1>3. Progress'
  <2>1. \A a \in DOMAIN Archs, id \in 0 .. fileid : Past(a, id)' => Past(a, id)
    BY <1>1, ArchFacts DEF Past
  <2>2. \A f : Fresh(f) => Fresh(f)'
    BY <1>1, Zenon DEF Fresh
  <2> QED
    BY <1>1, <2>1, <2>2, Zenon DEF IInv, Progress
<1>4. result' = "none"
  BY <1>1, Zenon DEF IInv, Progress
<1> QED
  BY <1>2, <1>3, <1>4 DEF IInv, PassedIsFresh, RejectedOnlyForLeftovers

\* A stopped command leaves the directory as it is.
LEMMA StopInv ==
  ASSUME IInv, Stop
  PROVE  IInv'
<1>1. pc' = "idle" /\ result' = "stopped" /\ UNCHANGED <<dir, run, num, fileid, arch, lost>>
  BY Zenon DEF Stop
<1>2. TypeOK'
  BY <1>1, Zenon DEF IInv, TypeOK, DirOK
<1> QED
  BY <1>1, <1>2 DEF IInv, Progress, PassedIsFresh, RejectedOnlyForLeftovers

\* Files are created: those of the current program and architecture, none of
\* which the command is past.
LEMMA CreateFilesInv ==
  ASSUME IInv, CreateFiles
  PROVE  IInv'
<1>1. PICK n \in 0 .. Len(Levels) :
        LET new == {Now(Levels[i]) : i \in 1 .. n}
        IN  /\ dir' = [f \in DOMAIN dir \cup new |->
                         IF f \in new
                         THEN [run |-> run, id |-> fileid, content |-> "empty"]
                         ELSE dir[f]]
            /\ IF n = Len(Levels)
               THEN pc' = "write" /\ UNCHANGED result
               ELSE pc' = "idle" /\ result' = "stopped"
  BY Zenon DEF CreateFiles
<1>2. pc = "create" /\ UNCHANGED <<run, num, fileid, arch, lost>>
  BY Zenon DEF CreateFiles
<1> DEFINE new == {Now(Levels[i]) : i \in 1 .. n}
           entry == [run |-> run, id |-> fileid, content |-> "empty"]
<1>3. /\ DOMAIN dir' = DOMAIN dir \cup new
      /\ \A f \in new : dir'[f] = entry
      /\ \A f \in DOMAIN dir \ new : dir'[f] = dir[f]
  BY <1>1, Zenon
<1>4. \A f \in new : \E i \in DOMAIN Levels : f = File(Archs[arch], fileid, Levels[i])
  BY LevelFacts DEF Now
<1>5. /\ run \in Nat /\ run > 0 /\ fileid \in Nat /\ arch \in DOMAIN Archs /\ DirOK
      /\ result = "none"
  BY <1>2 DEF IInv, TypeOK, Progress
<1>6. DirOK'
  <2>1. IsFiniteSet(new)
    <3> DEFINE all == {Now(Levels[1])} \cup {Now(Levels[2])} \cup {Now(Levels[3])}
    <3>1. IsFiniteSet(all)
      BY FS_Singleton, FS_Union, Zenon
    <3>2. new \in SUBSET all
      BY LevelFacts
    <3> HIDE DEF new, all
    <3> QED
      BY <3>1, <3>2, FS_Subset, Zenon
  <2>2. IsFiniteSet(DOMAIN dir')
    <3> DEFINE D == DOMAIN dir
    <3>1. IsFiniteSet(D)
      BY <1>5, Zenon DEF DirOK
    <3>2. DOMAIN dir' = D \cup new
      BY <1>3, Zenon
    <3> HIDE DEF new, D
    <3>3. IsFiniteSet(D \cup new)
      BY <2>1, <3>1, FS_Union, Zenon
    <3> QED
      BY <3>2, <3>3, Zenon
  <2>3. \A f \in new : /\ f[2] = fileid
                       /\ \E i \in DOMAIN Levels : f = File(Archs[arch], f[2], Levels[i])
    BY <1>4, <1>5, FileFacts
  <2>4. entry \in [run : 1 .. run, id : {fileid}, content : {"empty", "partial", "full"}]
    BY <1>5
  <2> HIDE DEF new, entry
  <2>5. \A f \in DOMAIN dir' :
          /\ \E a \in DOMAIN Archs, i \in DOMAIN Levels : f = File(Archs[a], f[2], Levels[i])
          /\ f[2] \in Nat
          /\ dir'[f] \in [run : 1 .. run, id : {f[2]}, content : {"empty", "partial", "full"}]
    <3> TAKE f \in DOMAIN dir'
    <3>1. CASE f \in new
      BY <1>3, <1>5, <2>3, <2>4, <3>1, Zenon
    <3>2. CASE f \notin new
      BY <1>3, <1>5, <3>2, Zenon DEF DirOK
    <3> QED
      BY <3>1, <3>2, Zenon
  <2> QED
    BY <1>2, <2>2, <2>5, Zenon DEF DirOK
<1>7. TypeOK'
  <2>1. pc' \in {"write", "idle"} /\ result' \in {"none", "stopped"}
    BY <1>1, <1>5, Zenon
  <2> QED
    BY <1>2, <1>6, <2>1, Zenon DEF IInv, TypeOK
<1>8. CASE n = Len(Levels)
  <2>1. pc' = "write" /\ result' = "none"
    BY <1>1, <1>5, <1>8, Zenon
  <2>2. \A a \in DOMAIN Archs, id \in 0 .. fileid, i \in DOMAIN Levels :
          Past(a, id)' => Fresh(File(Archs[a], id, Levels[i]))'
    <3> TAKE a \in DOMAIN Archs, id \in 0 .. fileid, i \in DOMAIN Levels
    <3> HAVE Past(a, id)'
    <3> DEFINE f == File(Archs[a], id, Levels[i])
    <3>1. Past(a, id)
      BY <1>2, <2>1, Zenon DEF Past
    <3>2. Fresh(f)
      BY <1>2, <3>1, Zenon DEF IInv, Progress
    <3>3. ~(a = arch /\ id = fileid)
      BY <1>5, <3>1, ArchFacts DEF Past
    <3>4. f \notin new
      <4> SUFFICES ASSUME f \in new PROVE FALSE
        BY Zenon
      <4>1. PICK j \in DOMAIN Levels : f = File(Archs[arch], fileid, Levels[j])
        BY <1>4, Zenon
      <4> QED
        BY <1>5, <3>3, <4>1, FileFacts
    <3> HIDE DEF f, new
    <3>5. Fresh(f)'
      BY <1>2, <1>3, <3>2, <3>4, Zenon DEF Fresh
    <3> QED
      BY <3>5, Zenon DEF f
  <2>3. \A f \in DOMAIN dir' : dir'[f].run = run => f[2] <= fileid
    <3> TAKE f \in DOMAIN dir'
    <3>1. CASE f \in new
      <4>1. f[2] = fileid
        BY <1>4, <1>5, <3>1, FileFacts
      <4> QED
        BY <1>5, <4>1
    <3>2. CASE f \notin new
      BY <1>2, <1>3, <3>2, Zenon DEF IInv, Progress
    <3> QED
      BY <3>1, <3>2, Zenon
  <2>4. \A i \in DOMAIN Levels : Now(Levels[i])' \in DOMAIN dir' /\ dir'[Now(Levels[i])'].run = run
    <3> TAKE i \in DOMAIN Levels
    <3>1. Now(Levels[i])' = Now(Levels[i])
      BY <1>2, Zenon DEF Now, File
    <3>2. Now(Levels[i]) \in new
      BY <1>8, LevelFacts, Zenon
    <3>3. entry.run = run
      BY Zenon
    <3> HIDE DEF new, entry
    <3> QED
      BY <1>3, <3>1, <3>2, <3>3, Zenon
  <2>5. (pc = "write" => \A i \in DOMAIN Levels :
           Now(Levels[i]) \in DOMAIN dir /\ dir[Now(Levels[i])].run = run)'
    BY <1>2, <2>4, Zenon
  <2>6. fileid = 0 \/ fileid < num
    BY <1>2, Zenon DEF IInv, Progress
  <2>7. Progress'
    BY <1>2, <1>5, <2>1, <2>2, <2>3, <2>5, <2>6, Zenon DEF Progress
  <2> QED
    BY <1>7, <2>1, <2>7 DEF IInv, PassedIsFresh, RejectedOnlyForLeftovers
<1>9. CASE n # Len(Levels)
  <2>1. pc' = "idle" /\ result' = "stopped"
    BY <1>1, <1>9, Zenon
  <2> QED
    BY <1>7, <2>1 DEF IInv, Progress, PassedIsFresh, RejectedOnlyForLeftovers
<1> QED
  BY <1>8, <1>9, Zenon

\* An entry of the directory when its file is written.
LEMMA WithContent ==
  ASSUME NEW R, NEW I, NEW C, NEW r \in [run : R, id : I, content : C], NEW x \in C
  PROVE  /\ [r EXCEPT !.content = x] \in [run : R, id : I, content : C]
         /\ [r EXCEPT !.content = x].run = r.run
         /\ [r EXCEPT !.content = x].content = x
BY Zenon

\* The files of the current program and architecture are written, and those of
\* no other.
LEMMA WriteFacts ==
  ASSUME IInv, WriteFiles
  PROVE  /\ DOMAIN dir' = DOMAIN dir
         /\ \A f \in DOMAIN dir : dir'[f].run = dir[f].run
         /\ DirOK' /\ lost' \in Nat
         /\ \A f : Fresh(f) => Fresh(f)'
         /\ \A i \in DOMAIN Levels : \A f \in {Now(Levels[i])} : Fresh(f)'
<1> DEFINE C == {"empty", "partial", "full"}
<1>1. PICK c \in Contents :
        /\ dir' = [f \in DOMAIN dir |->
                     IF \E i \in DOMAIN c : f = Now(Levels[i])
                     THEN [dir[f] EXCEPT !.content =
                             c[CHOOSE i \in DOMAIN c : f = Now(Levels[i])]]
                     ELSE dir[f]]
        /\ lost' = lost + Cardinality(NotFull(c))
  BY Zenon DEF WriteFiles
<1>2. pc = "write" /\ run' = run /\ lost \in Nat
  BY Zenon DEF WriteFiles, IInv, TypeOK
<1>3. DOMAIN c = DOMAIN Levels /\ \A i \in DOMAIN c : c[i] \in C
  <2>1. c \in [1 .. Len(Levels) -> C]
    BY Zenon DEF Contents
  <2> QED
    BY <2>1, LevelFacts, Zenon
<1>4. /\ arch \in DOMAIN Archs /\ DirOK
      /\ \A f \in DOMAIN dir : dir[f] \in [run : 1 .. run, id : {f[2]}, content : C]
      /\ \A i \in DOMAIN Levels : Now(Levels[i]) \in DOMAIN dir /\ dir[Now(Levels[i])].run = run
  BY <1>2, Zenon DEF IInv, TypeOK, DirOK, Progress
<1>5. \A i, j \in DOMAIN Levels : Now(Levels[i]) = Now(Levels[j]) => i = j
  BY <1>4, FileFacts DEF Now
<1>6. ASSUME NEW i \in DOMAIN Levels
      PROVE  dir'[Now(Levels[i])] = [dir[Now(Levels[i])] EXCEPT !.content = c[i]]
  <2> DEFINE f == Now(Levels[i])
             k == CHOOSE j \in DOMAIN c : f = Now(Levels[j])
  <2>1. k \in DOMAIN c /\ f = Now(Levels[k])
    BY <1>3, Zenon
  <2>2. k = i
    BY <1>3, <1>5, <2>1, Zenon
  <2>3. f \in DOMAIN dir /\ \E j \in DOMAIN c : f = Now(Levels[j])
    BY <1>3, <1>4, Zenon
  <2>4. dir'[f] = [dir[f] EXCEPT !.content = c[k]]
    BY <1>1, <2>3, Zenon
  <2> QED
    BY <2>2, <2>4, Zenon
<1>7. ASSUME NEW f \in DOMAIN dir, \A i \in DOMAIN Levels : f # Now(Levels[i])
      PROVE  dir'[f] = dir[f]
  BY <1>1, <1>3, <1>7, Zenon
<1>8. DOMAIN dir' = DOMAIN dir
  BY <1>1, Zenon
<1>9. \A i \in DOMAIN Levels :
        /\ dir'[Now(Levels[i])] \in [run : 1 .. run, id : {Now(Levels[i])[2]}, content : C]
        /\ dir'[Now(Levels[i])].run = dir[Now(Levels[i])].run
        /\ dir'[Now(Levels[i])].content = c[i]
  <2> TAKE i \in DOMAIN Levels
  <2> DEFINE f == Now(Levels[i])
  <2>1. /\ dir[f] \in [run : 1 .. run, id : {f[2]}, content : C] /\ c[i] \in C
        /\ dir'[f] = [dir[f] EXCEPT !.content = c[i]]
    BY <1>3, <1>4, <1>6, Zenon
  <2> HIDE DEF f, C
  <2>2. /\ dir'[f] \in [run : 1 .. run, id : {f[2]}, content : C]
        /\ dir'[f].run = dir[f].run
        /\ dir'[f].content = c[i]
    BY <2>1, WithContent
  <2> QED
    BY <2>2, Zenon DEF f
<1>10. \A f \in DOMAIN dir :
         /\ dir'[f] \in [run : 1 .. run, id : {f[2]}, content : C]
         /\ dir'[f].run = dir[f].run
  <2> TAKE f \in DOMAIN dir
  <2>1. CASE \E i \in DOMAIN Levels : f = Now(Levels[i])
    <3>1. PICK i \in DOMAIN Levels : f = Now(Levels[i])
      BY <2>1, Zenon
    <3> QED
      BY <1>9, <3>1, Zenon
  <2>2. CASE \A i \in DOMAIN Levels : f # Now(Levels[i])
    BY <1>4, <1>7, <2>2, Zenon
  <2> QED
    BY <2>1, <2>2, Zenon
<1>11. DirOK'
  BY <1>2, <1>4, <1>8, <1>10 DEF DirOK
<1>12. /\ lost' \in Nat
       /\ lost' = 0 => lost = 0 /\ \A i \in DOMAIN Levels : c[i] = "full"
  <2> DEFINE S == NotFull(c)
  <2>1. IsFiniteSet(S)
    <3>1. S \subseteq 1 .. 3
      BY <1>3, LevelFacts, Zenon DEF NotFull
    <3>2. IsFiniteSet(1 .. 3)
      <4>1. 1 \in Int /\ 3 \in Int
        OBVIOUS
      <4> QED
        BY <4>1, FS_Interval, Zenon
    <3> QED
      BY <3>1, <3>2, FS_Subset, Zenon
  <2>2. Cardinality(S) \in Nat /\ (Cardinality(S) = 0 => S = {})
    BY <2>1, FS_CardinalityType, FS_EmptySet, Zenon
  <2>3. S = {} => \A i \in DOMAIN Levels : c[i] = "full"
    BY <1>3, Zenon DEF NotFull
  <2> HIDE DEF S
  <2>4. lost' = lost + Cardinality(S)
    BY <1>1, Zenon DEF S
  <2> QED
    BY <1>2, <2>2, <2>3, <2>4
<1>13. \A i \in DOMAIN Levels :
         /\ Now(Levels[i]) \in DOMAIN dir' /\ dir'[Now(Levels[i])].run = run'
         /\ lost' = 0 => dir'[Now(Levels[i])].content = "full"
  BY <1>2, <1>4, <1>8, <1>9, <1>12, Zenon
<1>14. ASSUME NEW f, f \in DOMAIN dir, dir[f].run = run, lost = 0 => dir[f].content = "full"
       PROVE  f \in DOMAIN dir' /\ dir'[f].run = run' /\ (lost' = 0 => dir'[f].content = "full")
  <2>1. CASE \E i \in DOMAIN Levels : f = Now(Levels[i])
    <3>1. PICK i \in DOMAIN Levels : f = Now(Levels[i])
      BY <2>1, Zenon
    <3> QED
      BY <1>13, <3>1, Zenon
  <2>2. CASE \A i \in DOMAIN Levels : f # Now(Levels[i])
    BY <1>2, <1>7, <1>8, <1>12, <1>14, <2>2, Zenon
  <2> QED
    BY <2>1, <2>2, Zenon
<1>15. \A f : Fresh(f) => Fresh(f)'
  BY <1>14, Zenon DEF Fresh
<1>16. \A i \in DOMAIN Levels : \A f \in {Now(Levels[i])} : Fresh(f)'
  BY <1>13, Zenon DEF Fresh
<1> QED
  BY <1>8, <1>10, <1>11, <1>12, <1>15, <1>16, Zenon

\* The command is past one more architecture, or one more program.
LEMMA WriteFilesInv ==
  ASSUME IInv, WriteFiles
  PROVE  IInv'
<1>1. /\ pc = "write" /\ UNCHANGED <<run, num, result>>
      /\ IF arch < Len(Archs)
         THEN arch' = arch + 1 /\ pc' = "create" /\ UNCHANGED fileid
         ELSE /\ fileid' = NextId
              /\ pc' = IF Enough(NextId) THEN "validate" ELSE "program"
              /\ UNCHANGED arch
  BY Zenon DEF WriteFiles
<1>2. /\ result = "none" /\ run > 0 /\ fileid \in Nat /\ num \in Nat
      /\ fileid = 0 \/ fileid < num
      /\ arch \in DOMAIN Archs /\ arch \in 1 .. Len(Archs) /\ Len(Archs) \in Nat
  BY <1>1, BoundFacts, ArchFacts, Zenon DEF IInv, TypeOK, Progress
<1>3. NextId = fileid + 1
  <2>1. fileid < IdBound
    BY <1>2, BoundFacts DEF IInv
  <2> QED
    BY <2>1, Zenon DEF NextId
<1>4. \A f \in DOMAIN dir' : dir'[f].run = run => f[2] <= fileid /\ f[2] \in Nat
  BY <1>1, WriteFacts, Zenon DEF IInv, TypeOK, DirOK, Progress
<1>5. ASSUME NEW a \in DOMAIN Archs, NEW id \in 0 .. fileid, NEW i \in DOMAIN Levels,
             Past(a, id) \/ (a = arch /\ id = fileid)
      PROVE  \A f \in {File(Archs[a], id, Levels[i])} : Fresh(f)'
  <2> DEFINE f == File(Archs[a], id, Levels[i])
  <2>1. CASE Past(a, id)
    <3>1. Fresh(f)
      BY <1>1, <2>1, Zenon DEF IInv, Progress
    <3> QED
      BY <3>1, WriteFacts, Zenon
  <2>2. CASE a = arch /\ id = fileid
    <3>1. f = Now(Levels[i])
      BY <2>2, Zenon DEF Now
    <3> QED
      BY <3>1, WriteFacts, Zenon
  <2> QED
    BY <1>5, <2>1, <2>2, Zenon
<1>6. CASE arch < Len(Archs)
  <2>1. arch' = arch + 1 /\ pc' = "create" /\ fileid' = fileid
    BY <1>1, <1>6, Zenon
  <2>2. arch' \in DOMAIN Archs
    BY <1>2, <1>6, <2>1, ArchFacts
  <2>3. TypeOK'
    BY <1>1, <2>1, <2>2, WriteFacts, Zenon DEF IInv, TypeOK
  <2>4. \A a \in DOMAIN Archs, id \in 0 .. fileid', i \in DOMAIN Levels :
          Past(a, id)' => Fresh(File(Archs[a], id, Levels[i]))'
    <3> TAKE a \in DOMAIN Archs, id \in 0 .. fileid', i \in DOMAIN Levels
    <3> HAVE Past(a, id)'
    <3>1. id \in 0 .. fileid /\ a \in 1 .. Len(Archs)
      BY <2>1, ArchFacts, Zenon
    <3>2. Past(a, id) \/ (a = arch /\ id = fileid)
      BY <1>1, <1>2, <2>1, <3>1 DEF Past
    <3>3. \A f \in {File(Archs[a], id, Levels[i])} : Fresh(f)'
      BY <1>5, <3>1, <3>2, Zenon
    <3> QED
      BY <3>3, Zenon DEF File
  <2>5. Progress'
    BY <1>1, <1>2, <1>4, <2>1, <2>4, Zenon DEF Progress
  <2> QED
    BY <1>1, <1>2, <2>3, <2>5 DEF IInv, PassedIsFresh, RejectedOnlyForLeftovers
<1>7. CASE ~(arch < Len(Archs))
  <2>1. /\ arch' = arch /\ fileid' = fileid + 1 /\ arch = Len(Archs)
        /\ pc' = IF fileid + 1 >= num THEN "validate" ELSE "program"
    BY <1>1, <1>2, <1>3, <1>7 DEF Enough
  <2>2. /\ pc' \in {"validate", "program"} /\ fileid' \in Nat
        /\ pc' # "validate" => fileid' < num'
        /\ pc' = "validate" /\ num' > 0 => fileid' = num'
    BY <1>1, <1>2, <2>1
  <2>3. TypeOK'
    BY <1>1, <2>1, <2>2, WriteFacts, Zenon DEF IInv, TypeOK
  <2>4. \A a \in DOMAIN Archs, id \in 0 .. fileid', i \in DOMAIN Levels :
          Past(a, id)' => Fresh(File(Archs[a], id, Levels[i]))'
    <3> TAKE a \in DOMAIN Archs, id \in 0 .. fileid', i \in DOMAIN Levels
    <3> HAVE Past(a, id)'
    <3>1. id \in 0 .. fileid /\ a \in 1 .. Len(Archs)
      BY <1>2, <2>1, <2>2, ArchFacts DEF Past
    <3>2. Past(a, id) \/ (a = arch /\ id = fileid)
      BY <1>1, <1>2, <2>1, <2>2, <3>1 DEF Past
    <3>3. \A f \in {File(Archs[a], id, Levels[i])} : Fresh(f)'
      BY <1>5, <3>1, <3>2, Zenon
    <3> QED
      BY <3>3, Zenon DEF File
  <2>5. \A f \in DOMAIN dir' : dir'[f].run = run' => f[2] <= fileid' /\ f[2] < fileid'
    BY <1>1, <1>2, <1>4, <2>1
  <2>6. Progress'
    BY <1>1, <1>2, <2>2, <2>4, <2>5, Zenon DEF Progress
  <2> QED
    BY <1>1, <1>2, <2>3, <2>6 DEF IInv, PassedIsFresh, RejectedOnlyForLeftovers
<1> QED
  BY <1>6, <1>7, Zenon

\* When a command for num programs has come to its end, the files expected are
\* there, and the others are of earlier commands and of later programs.
LEMMA EndFacts ==
  ASSUME IInv, pc = "validate", num > 0
  PROVE  /\ \A f \in Expected(num) : Fresh(f)
         /\ \A f \in DOMAIN dir \ Expected(num) : f[2] >= num /\ dir[f].run < run
         /\ CountMatches <=> DOMAIN dir = Expected(num)
<1>1. num \in Nat /\ fileid = num /\ run \in Nat /\ DirOK
  BY BoundFacts DEF IInv, TypeOK, Progress
<1>2. \A f \in Expected(num) : Fresh(f)
  <2> SUFFICES ASSUME NEW a \in DOMAIN Archs, NEW id \in 0 .. (num - 1), NEW i \in DOMAIN Levels
               PROVE  Fresh(File(Archs[a], id, Levels[i]))
    BY DEF Expected
  <2>1. id \in 0 .. fileid /\ Past(a, id)
    BY <1>1 DEF Past
  <2> QED
    BY <2>1, Zenon DEF IInv, Progress
<1>3. ASSUME NEW f \in DOMAIN dir, f \notin Expected(num)
      PROVE  f[2] >= num /\ dir[f].run < run
  <2>1. PICK a \in DOMAIN Archs, i \in DOMAIN Levels : f = File(Archs[a], f[2], Levels[i])
    BY <1>1, Zenon DEF DirOK
  <2>2. f[2] \in Nat /\ dir[f].run \in 1 .. run
    BY <1>1, Zenon DEF DirOK
  <2>3. f[2] \notin 0 .. (num - 1)
    BY <1>3, <2>1 DEF Expected
  <2>4. f[2] >= num
    BY <1>1, <2>2, <2>3
  <2>5. dir[f].run # run
    BY <1>1, <2>2, <2>4 DEF IInv, Progress
  <2> QED
    BY <1>1, <2>2, <2>4, <2>5
<1>4. CountMatches <=> DOMAIN dir = Expected(num)
  <2> DEFINE D == DOMAIN dir
             X == Expected(num)
  <2>1. IsFiniteSet(D) /\ X \in SUBSET D
    BY <1>1, <1>2, Zenon DEF DirOK, Fresh
  <2>2. Cardinality(X) = num * Len(Levels) * Len(Archs)
    BY <1>1, ExpectedCardinality, Zenon
  <2>3. CountMatches <=> Cardinality(D) = Cardinality(X)
    BY <2>2, Zenon DEF CountMatches
  <2> HIDE DEF D, X
  <2>4. Cardinality(D) = Cardinality(X) <=> D = X
    BY <2>1, FS_Subset, Zenon
  <2> QED
    BY <2>3, <2>4, Zenon DEF D, X
<1> QED
  BY <1>2, <1>3, <1>4, Zenon

\* validate_output.sh passes the files expected, and when nothing was lost it
\* rejects only others.
LEMMA ValidateInv ==
  ASSUME IInv, Validate
  PROVE  IInv'
<1> DEFINE ok(found) ==
             /\ num > 0
             /\ \A a \in DOMAIN Archs : \E f \in DOMAIN dir : f[1] = Archs[a]
             /\ CountMatches
             /\ \A f \in DOMAIN dir : dir[f].content # "empty"
             /\ \A i \in DOMAIN Levels : \E f \in DOMAIN dir : f[3] = Levels[i]
             /\ found
<1>1. /\ pc = "validate" /\ pc' = "idle" /\ UNCHANGED <<dir, run, num, fileid, arch, lost>>
      /\ \E found \in DirectiveFound : result' = IF ok(found) THEN "passed" ELSE "rejected"
  BY Zenon DEF Validate
<1>2. PICK found \in DirectiveFound : result' = IF ok(found) THEN "passed" ELSE "rejected"
  BY <1>1, Zenon
<1>3. TypeOK' /\ Progress'
  BY <1>1, <1>2, Zenon DEF IInv, TypeOK, DirOK, Progress
<1>4. PassedIsFresh'
  <2> SUFFICES ASSUME result' = "passed"
               PROVE  /\ DOMAIN dir = Expected(num)
                      /\ \A f \in DOMAIN dir : dir[f].run = run /\ dir[f].content # "empty"
    BY <1>1 DEF PassedIsFresh, Expected, File
  <2>1. num > 0 /\ CountMatches /\ \A f \in DOMAIN dir : dir[f].content # "empty"
    BY <1>2, Zenon
  <2>2. DOMAIN dir = Expected(num) /\ \A f \in Expected(num) : Fresh(f)
    BY <1>1, <2>1, EndFacts, Zenon
  <2> QED
    BY <2>1, <2>2, Zenon DEF Fresh
<1>5. RejectedOnlyForLeftovers'
  <2> SUFFICES ASSUME result' = "rejected", num > 0, lost = 0,
                      ~\E f \in DOMAIN dir : f[2] >= num /\ dir[f].run < run
               PROVE  FALSE
    BY <1>1, Zenon DEF RejectedOnlyForLeftovers
  <2>1. /\ \A f \in Expected(num) : Fresh(f)
        /\ \A f \in DOMAIN dir \ Expected(num) : f[2] >= num /\ dir[f].run < run
        /\ CountMatches <=> DOMAIN dir = Expected(num)
    BY <1>1, EndFacts, Zenon
  <2>2. DOMAIN dir = Expected(num) /\ \A f \in DOMAIN dir : dir[f].content = "full"
    BY <2>1, Zenon DEF Fresh
  <2>3. \A a \in DOMAIN Archs, i \in DOMAIN Levels : File(Archs[a], 0, Levels[i]) \in DOMAIN dir
    <3>1. 0 \in 0 .. (num - 1)
      BY BoundFacts DEF IInv
    <3> QED
      BY <2>2, <3>1 DEF Expected
  <2>4. 1 \in DOMAIN Archs /\ 1 \in DOMAIN Levels
    BY ArchFacts, LevelFacts
  <2>5. \A a \in DOMAIN Archs : \E f \in DOMAIN dir : f[1] = Archs[a]
    <3> TAKE a \in DOMAIN Archs
    <3>1. File(Archs[a], 0, Levels[1])[1] = Archs[a]
      BY <2>4, FileFacts
    <3> QED
      BY <2>3, <2>4, <3>1, Zenon
  <2>6. \A i \in DOMAIN Levels : \E f \in DOMAIN dir : f[3] = Levels[i]
    <3> TAKE i \in DOMAIN Levels
    <3>1. File(Archs[1], 0, Levels[i])[3] = Levels[i]
      BY <2>4, FileFacts
    <3> QED
      BY <2>3, <2>4, <3>1, Zenon
  <2>7. found
    BY <2>2, <2>3, <2>4, Zenon DEF DirectiveFound
  <2>8. CountMatches /\ \A f \in DOMAIN dir : dir[f].content # "empty"
    BY <2>1, <2>2, Zenon
  <2>9. ok(found)
    BY <2>5, <2>6, <2>7, <2>8, Zenon
  <2> QED
    BY <1>2, <2>9, Zenon
<1> QED
  BY <1>3, <1>4, <1>5, Zenon DEF IInv

\* What the directory holds while a command goes on is inductive: the files of
\* the programs it is past are its own, and beyond the current program there are
\* only files of earlier commands.
THEOREM Invariance == Spec => []IInv
<1>1. Init => IInv
  BY InitInv, Zenon
<1>2. IInv /\ [Next]_vars => IInv'
  <2> SUFFICES ASSUME IInv, [Next]_vars
               PROVE  IInv'
    BY Zenon
  <2>1. CASE Start
    BY <2>1, StartInv, Zenon
  <2>2. CASE NewProgram
    BY <2>2, NewProgramInv, Zenon
  <2>3. CASE CreateFiles
    BY <2>3, CreateFilesInv, Zenon
  <2>4. CASE WriteFiles
    BY <2>4, WriteFilesInv, Zenon
  <2>5. CASE Validate
    BY <2>5, ValidateInv, Zenon
  <2>6. CASE Stop
    BY <2>6, StopInv, Zenon
  <2>7. CASE UNCHANGED vars
    <3>1. TypeOK'
      BY <2>7, Zenon DEF vars, IInv, TypeOK, DirOK
    <3>2. Progress'
      BY <2>7, Zenon DEF vars, IInv, Progress, Past, Fresh, Now
    <3>3. PassedIsFresh'
      BY <2>7 DEF vars, IInv, PassedIsFresh
    <3>4. RejectedOnlyForLeftovers'
      BY <2>7, Zenon DEF vars, IInv, RejectedOnlyForLeftovers
    <3> QED
      BY <3>1, <3>2, <3>3, <3>4, Zenon DEF IInv
  <2> QED
    BY <2>1, <2>2, <2>3, <2>4, <2>5, <2>6, <2>7, Zenon DEF Next, Step, Finished
<1> QED
  BY <1>1, <1>2, PTL DEF Spec

\* Whatever commands were given before and wherever they were stopped, a command
\* that validate_output.sh passes has left exactly its own files.
THEOREM Passed == Spec => []PassedIsFresh
<1>1. IInv => PassedIsFresh
  BY Zenon DEF IInv
<1> QED
  BY <1>1, Invariance, PTL

\* A command that loses no write is rejected only for what an earlier one has
\* left behind.
THEOREM Rejected == Spec => []RejectedOnlyForLeftovers
<1>1. IInv => RejectedOnlyForLeftovers
  BY Zenon DEF IInv
<1> QED
  BY <1>1, Invariance, PTL

\* How far the command is with the current program.
Stage ==
  IF pc = "create" THEN 2 * arch ELSE IF pc = "write" THEN 2 * arch + 1 ELSE 0

\* The command ends, else comes to the next of its programs or to the validation,
\* else gets on with the program, whose architectures are finitely many.
GetsOn ==
  /\ num' = num /\ run' = run
  /\ \/ pc' = "idle"
     \/ fileid' = fileid + 1 /\ (fileid' < num \/ pc' = "validate")
     \/ fileid' = fileid /\ Stage' > Stage /\ arch' <= Len(Archs)

\* Every step of a command, whatever fails in it, brings it nearer to its end, for
\* zero programs too: the counter of the programs goes up by one and not beyond
\* the number asked for, except to the validation.
THEOREM CommandGetsOn == Spec => [][Step => GetsOn]_vars
<1>1. ASSUME IInv, Step PROVE GetsOn
  <2>1. /\ arch \in 1 .. Len(Archs) /\ Len(Archs) \in Nat /\ fileid \in Nat
        /\ num \in Nat /\ num < IdBound /\ IdBound \in Nat /\ 1 \in DOMAIN Archs
    BY <1>1, ArchFacts, BoundFacts, Zenon DEF IInv, TypeOK
  <2>2. CASE NewProgram
    BY <2>1, <2>2 DEF NewProgram, GetsOn, Stage
  <2>3. CASE CreateFiles
    <3>1. /\ pc = "create" /\ pc' \in {"write", "idle"}
          /\ UNCHANGED <<run, num, fileid, arch>>
      BY <2>3, Zenon DEF CreateFiles
    <3> QED
      BY <2>1, <3>1 DEF GetsOn, Stage
  <2>4. CASE WriteFiles
    <3>1. pc = "write" /\ UNCHANGED <<run, num>>
      BY <2>4, Zenon DEF WriteFiles
    <3>2. CASE arch < Len(Archs)
      <4>1. arch' = arch + 1 /\ pc' = "create" /\ fileid' = fileid
        BY <2>4, <3>2, Zenon DEF WriteFiles
      <4> QED
        BY <2>1, <3>1, <3>2, <4>1 DEF GetsOn, Stage
    <3>3. CASE ~(arch < Len(Archs))
      <4>1. fileid' = NextId /\ pc' = IF Enough(NextId) THEN "validate" ELSE "program"
        BY <2>4, <3>3, Zenon DEF WriteFiles
      <4>2. fileid = 0 \/ fileid < num
        BY <1>1, <3>1, Zenon DEF IInv, Progress
      <4>3. NextId = fileid + 1
        BY <2>1, <4>2 DEF NextId
      <4> QED
        BY <2>1, <3>1, <4>1, <4>3 DEF GetsOn, Enough
    <3> QED
      BY <3>2, <3>3, Zenon
  <2>5. CASE Validate
    BY <2>5, Zenon DEF Validate, GetsOn
  <2> QED
    BY <1>1, <2>2, <2>3, <2>4, <2>5, Zenon DEF Step
<1>2. IInv /\ [Next]_vars => [Step => GetsOn]_vars
  BY <1>1, Zenon
<1> QED
  BY <1>2, Invariance, PTL DEF Spec

----------------------------------------------------------------------------
(***************************************************************************)
(* Proofs about module Corpus, for any number of runs of the program, any  *)
(* directories and any number of failures: the collection gets a second    *)
(* copy of a document only from runs that overlap, and a run that comes to *)
(* the end loses no block whose insertion did not fail.                    *)
(*                                                                         *)
(* What compare_instrs takes for equal does not matter to the argument, as *)
(* long as a block equals itself: CompareInstrs and BlockJson stay         *)
(* unexpanded but in the two lemmas about them.                            *)
(***************************************************************************)
\* compare_instrs takes a block for equal to itself.
LEMMA EqualToItself == \A a : CompareInstrs(a, a)
BY Zenon DEF CompareInstrs

\* The collection is a sequence.
LEMMA DocsSequence ==
  ASSUME CorpusTypeOK
  PROVE  Len(docs) \in Nat /\ DOMAIN docs = 1..Len(docs)
<1> DEFINE D == [instrs : Seq(Json), by : Procs, since : Nat]
<1>1. docs \in Seq(D)
  BY Zenon DEF CorpusTypeOK
<1> HIDE DEF D
<1> QED
  BY <1>1

\* The instructions of a block become a sequence of JSON objects.
LEMMA BlockJsonType ==
  ASSUME NEW block \in Block
  PROVE  BlockJson(block) \in Seq(Json)
<1>1. \A i \in DOMAIN block : ToJson(block[i]) \in Json
  BY DEF Block, Json
<1> QED
  BY <1>1 DEF BlockJson, Block

\* The block at hand is one, and the document made of it has its type.
LEMMA DocumentType ==
  ASSUME CorpusTypeOK, NEW p \in Procs, blocks[p] # <<>>
  PROVE  /\ Current(p) \in Block
         /\ Document(p) \in [instrs : Seq(Json), by : Procs, since : Nat]
<1>1. Current(p) \in Block
  BY DEF CorpusTypeOK, Current
<1> QED
  BY <1>1, BlockJsonType, Zenon DEF CorpusTypeOK, Document

\* A document more, at the end, takes away none of those there are.
LEMMA AppendKeeps ==
  ASSUME CorpusTypeOK, NEW p \in Procs, blocks[p] # <<>>, docs' = Append(docs, Document(p))
  PROVE  /\ Len(docs') = Len(docs) + 1
         /\ \A i \in DOMAIN docs : i \in DOMAIN docs' /\ docs'[i] = docs[i]
         /\ docs'[Len(docs) + 1] = Document(p)
         /\ DOMAIN docs' = DOMAIN docs \cup {Len(docs) + 1}
<1> DEFINE D == [instrs : Seq(Json), by : Procs, since : Nat]
<1>1. docs \in Seq(D) /\ Document(p) \in D
  BY DocumentType, Zenon DEF CorpusTypeOK
<1> HIDE DEF D
<1>2. /\ Len(docs') = Len(docs) + 1
      /\ DOMAIN docs' = 1..(Len(docs) + 1) /\ DOMAIN docs = 1..Len(docs)
      /\ Len(docs) \in Nat
      /\ docs'[Len(docs) + 1] = Document(p)
      /\ \A i \in 1..Len(docs) : docs'[i] = docs[i]
  BY <1>1
<1> QED
  BY <1>2

\* Nothing is in the collection when the program runs first.
LEMMA CorpusInitHolds == CorpusInit => CorpusIInv
<1> SUFFICES ASSUME CorpusInit PROVE CorpusIInv
  BY Zenon
<1>1. CorpusTypeOK
  BY CorpusAssumption DEF CorpusInit, CorpusTypeOK, Over
<1>2. SeenNone
  BY Zenon DEF CorpusInit, SeenNone
<1>3. CopiesOnlyFromRaces
  BY DEF CorpusInit, CopiesOnlyFromRaces
<1>4. FilesKept
  BY Zenon DEF CorpusInit, FilesKept
<1> QED
  BY <1>1, <1>2, <1>3, <1>4, Zenon DEF CorpusIInv

\* Types: every step keeps them.
LEMMA TypeKept ==
  ASSUME CorpusTypeOK, SeenNone, NEW p \in Procs, StartProc(p) \/ ProcStep(p) \/ StopProc(p)
  PROVE  CorpusTypeOK'
<1> USE CorpusAssumption DEF CorpusTypeOK
<1>1. CASE StartProc(p)
  BY <1>1, Zenon DEF StartProc, Over
<1>2. CASE NextFile(p)
  <2>1. PICK f \in todo[p] :
          /\ todo' = [todo EXCEPT ![p] = @ \ {f}]
          /\ at' \in {at, [at EXCEPT ![p] = "ended"], [at EXCEPT ![p] = "panicked"],
                     [at EXCEPT ![p] = "blocks"]}
          /\ blocks' \in {blocks, [blocks EXCEPT ![p] = content[f].blocks]}
    BY <1>2, Zenon DEF NextFile
  <2>2. content[f].blocks \in Seq(Block)
    BY <2>1, Zenon DEF IsFile
  <2>3. blocks' \in [Procs -> Seq(Block)]
    BY <2>1, <2>2, Zenon
  <2>4. todo' \in [Procs -> SUBSET DOMAIN content]
    BY <2>1, Zenon
  <2>5. at' \in [Procs -> {"idle", "files", "blocks", "scan", "insert"} \cup Over]
    BY <2>1, Zenon DEF Over
  <2> QED
    BY <1>2, <2>3, <2>4, <2>5, Zenon DEF NextFile
<1>3. CASE EndFiles(p) \/ EndBlocks(p)
  BY <1>3, Zenon DEF EndFiles, EndBlocks, Over
<1>4. CASE Find(p) \/ NotFound(p)
  <2>1. since' \in [Procs -> Nat]
    BY <1>4, DocsSequence, Zenon DEF Find, NotFound
  <2>2. at' \in [Procs -> {"idle", "files", "blocks", "scan", "insert"} \cup Over]
    BY <1>4, Zenon DEF Find, NotFound
  <2> QED
    BY <1>4, <2>1, <2>2, Zenon DEF Find, NotFound
<1>5. CASE Skip(p)
  BY <1>5 DEF Skip, NextBlock, SeenNone, Over
<1>6. CASE Insert(p)
  <2>1. docs' \in Seq([instrs : Seq(Json), by : Procs, since : Nat])
    BY <1>6, DocumentType DEF Insert, SeenNone
  <2> QED
    BY <1>6, <2>1 DEF Insert, NextBlock, SeenNone
<1>7. CASE RequestFails(p)
  BY <1>7, DocumentType DEF RequestFails, GiveUp, NextBlock, SeenNone
<1>8. CASE AnswerLost(p)
  <2>1. docs' \in Seq([instrs : Seq(Json), by : Procs, since : Nat])
    BY <1>8, DocumentType DEF AnswerLost, SeenNone
  <2>2. failed' \in [Procs -> SUBSET Block]
    BY <1>8, DocumentType, Zenon DEF AnswerLost, GiveUp, SeenNone
  <2> QED
    BY <1>8, <2>1, <2>2 DEF AnswerLost, GiveUp, NextBlock, SeenNone
<1>9. CASE StopProc(p)
  BY <1>9 DEF StopProc, Over
<1> QED
  BY <1>1, <1>2, <1>3, <1>4, <1>5, <1>6, <1>7, <1>8, <1>9, Zenon DEF ProcStep

\* Insert and AnswerLost: what both do to the collection and to the block.
Adds(p) == at[p] = "insert" /\ docs' = Append(docs, Document(p)) /\ NextBlock(p)

\* The scan of a process that goes on stays true when another one inserts.
LEMMA SeenNoneKept ==
  ASSUME CorpusTypeOK, SeenNone, NEW p \in Procs, StartProc(p) \/ ProcStep(p) \/ StopProc(p)
  PROVE  SeenNone'
<1>1. CASE Adds(p)
  <2> SUFFICES ASSUME NEW q \in Procs, at'[q] \in {"scan", "insert"}
               PROVE  /\ blocks'[q] # <<>>
                      /\ since'[q] <= Len(docs')
                      /\ \A i \in DOMAIN docs' : i > since'[q] => docs'[i].by # q
                      /\ at'[q] = "insert" => ~Among(Current(q), since[q])'
    BY Zenon DEF SeenNone
  <2>1. q # p /\ at[q] = at'[q] /\ blocks[q] = blocks'[q] /\ since[q] = since'[q]
    BY <1>1, Zenon DEF Adds, NextBlock, CorpusTypeOK
  <2>2. blocks[p] # <<>>
    BY <1>1, Zenon DEF Adds, SeenNone
  <2>a. /\ Len(docs') = Len(docs) + 1
        /\ \A i \in DOMAIN docs : i \in DOMAIN docs' /\ docs'[i] = docs[i]
        /\ docs'[Len(docs) + 1] = Document(p)
        /\ DOMAIN docs' = DOMAIN docs \cup {Len(docs) + 1}
    <3>1. docs' = Append(docs, Document(p))
      BY <1>1, Zenon DEF Adds
    <3> QED
      BY <2>2, <3>1, AppendKeeps, Zenon
  <2>b. /\ since[q] <= Len(docs)
        /\ \A i \in DOMAIN docs : i > since[q] => docs[i].by # q
        /\ at[q] = "insert" => ~Among(Current(q), since[q])
    BY <2>1, Zenon DEF SeenNone
  <2>c. since[q] \in Nat /\ Len(docs) \in Nat /\ DOMAIN docs = 1..Len(docs)
    BY DocsSequence, Zenon DEF CorpusTypeOK
  <2>3. since'[q] <= Len(docs')
    BY <2>1, <2>a, <2>b, <2>c
  <2>4. \A i \in DOMAIN docs' : i > since'[q] => docs'[i].by # q
    <3>1. docs'[Len(docs) + 1].by # q
      BY <2>1, <2>a DEF Document
    <3>2. \A i \in DOMAIN docs : i > since'[q] => docs'[i].by # q
      BY <2>1, <2>a, <2>b, Zenon
    <3> QED
      BY <2>a, <3>1, <3>2, Zenon
  <2>5. ASSUME at'[q] = "insert"
        PROVE  ~Among(Current(q), since[q])'
    <3>1. Current(q)' = Current(q)
      BY <2>1, Zenon DEF Current
    <3>2. \A i \in 1..since[q] : docs'[i] = docs[i]
      BY <2>a, <2>b, <2>c
    <3> QED
      BY <2>1, <2>5, <2>b, <3>1, <3>2, Zenon DEF Among
  <2> QED
    BY <2>1, <2>3, <2>4, <2>5, Zenon DEF SeenNone
<1>2. CASE Find(p)
  BY <1>2 DEF Find, SeenNone, CorpusTypeOK, Among, Current
<1>3. CASE NotFound(p)
  <2>1. ~Among(Current(p), since[p])
    BY <1>3 DEF NotFound, Among, SeenNone, CorpusTypeOK
  <2>2. \A q \in Procs : Current(q)' = Current(q)
    BY <1>3, Zenon DEF NotFound, Current
  <2> QED
    BY <1>3, <2>1, <2>2, Zenon DEF NotFound, SeenNone, CorpusTypeOK, Among
<1>4. CASE Skip(p) \/ RequestFails(p)
  BY <1>4, Zenon DEF Skip, RequestFails, GiveUp, NextBlock, SeenNone, CorpusTypeOK, Among, Current
<1>5. CASE StartProc(p) \/ NextFile(p) \/ EndFiles(p) \/ EndBlocks(p) \/ StopProc(p)
  <2>1. CASE StartProc(p)
    BY <2>1, Zenon DEF StartProc, SeenNone, CorpusTypeOK, Among, Current
  <2>2. CASE NextFile(p)
    BY <2>2 DEF NextFile, SeenNone, CorpusTypeOK, Among, Current
  <2>3. CASE EndFiles(p) \/ EndBlocks(p)
    BY <2>3, Zenon DEF EndFiles, EndBlocks, SeenNone, CorpusTypeOK, Among, Current
  <2>4. CASE StopProc(p)
    BY <2>4, Zenon DEF StopProc, SeenNone, CorpusTypeOK, Among, Current
  <2> QED
    BY <1>5, <2>1, <2>2, <2>3, <2>4, Zenon
<1> QED
  BY <1>1, <1>2, <1>3, <1>4, <1>5, Zenon DEF ProcStep, Insert, AnswerLost, GiveUp, Adds

\* A second copy of a document comes only from a process that had asked before the
\* first was there, and has inserted nothing since.
LEMMA CopiesKept ==
  ASSUME CorpusTypeOK, SeenNone, CopiesOnlyFromRaces,
         NEW p \in Procs, StartProc(p) \/ ProcStep(p) \/ StopProc(p)
  PROVE  CopiesOnlyFromRaces'
<1>1. CASE UNCHANGED docs
  BY <1>1, Zenon DEF CopiesOnlyFromRaces
<1>2. CASE Adds(p)
  <2> SUFFICES ASSUME NEW i \in DOMAIN docs', NEW j \in DOMAIN docs', i < j,
                      CompareInstrs(docs'[i].instrs, docs'[j].instrs)
               PROVE  docs'[i].by # docs'[j].by /\ docs'[j].since < i
    BY Zenon DEF CopiesOnlyFromRaces
  <2>1. /\ blocks[p] # <<>> /\ since[p] \in Nat /\ since[p] <= Len(docs)
        /\ \A k \in DOMAIN docs : k > since[p] => docs[k].by # p
        /\ ~Among(Current(p), since[p])
    BY <1>2, Zenon DEF Adds, SeenNone, CorpusTypeOK
  <2>2. i \in DOMAIN docs /\ docs'[i] = docs[i]
    <3>1. DOMAIN docs' = DOMAIN docs \cup {Len(docs) + 1}
      BY <1>2, <2>1, AppendKeeps, Zenon DEF Adds
    <3>2. i \in DOMAIN docs
      BY <3>1, DocsSequence
    <3> QED
      BY <1>2, <2>1, <3>2, AppendKeeps, Zenon DEF Adds
  <2>3. CASE j \in DOMAIN docs
    <3>1. docs'[j] = docs[j]
      BY <1>2, <2>1, <2>3, AppendKeeps, Zenon DEF Adds
    <3>2. CompareInstrs(docs[i].instrs, docs[j].instrs)
      BY <2>2, <3>1, Zenon
    <3>3. docs[i].by # docs[j].by /\ docs[j].since < i
      BY <2>2, <2>3, <3>2, Zenon DEF CopiesOnlyFromRaces
    <3> QED
      BY <2>2, <3>1, <3>3, Zenon
  <2>4. CASE j = Len(docs) + 1
    <3>1. docs'[j] = Document(p)
      BY <1>2, <2>1, <2>4, AppendKeeps, Zenon DEF Adds
    <3>a. /\ Document(p).instrs = BlockJson(Current(p))
          /\ Document(p).by = p
          /\ Document(p).since = since[p]
      BY Zenon DEF Document
    <3>b. /\ docs'[j].instrs = BlockJson(Current(p))
          /\ docs'[j].by = p
          /\ docs'[j].since = since[p]
      BY <3>1, <3>a, Zenon
    <3>2. CompareInstrs(docs[i].instrs, BlockJson(Current(p)))
      BY <2>2, <3>b, Zenon
    <3>3. since[p] < i
      <4>1. i \in 1..Len(docs)
        BY <2>2, DocsSequence, Zenon
      <4>2. i \notin 1..since[p]
        BY <2>1, <3>2, Zenon DEF Among
      <4> QED
        BY <2>1, <4>1, <4>2, DocsSequence
    <3>4. docs[i].by # p
      BY <2>1, <2>2, <3>3, Zenon
    <3>5. docs'[i].by # docs'[j].by
      BY <2>2, <3>b, <3>4, Zenon
    <3>6. docs'[j].since < i
      BY <3>b, <3>3, Zenon
    <3> QED
      BY <3>5, <3>6, Zenon
  <2> QED
    BY <1>2, <2>1, <2>3, <2>4, AppendKeeps, Zenon DEF Adds
<1> QED
  BY <1>1, <1>2, Zenon DEF ProcStep, StartProc, NextFile, EndFiles, EndBlocks, Find, Skip, NotFound,
     Insert, RequestFails, AnswerLost, GiveUp, StopProc, Adds

\* A block that is represented stays so, and so does one whose insertion failed.
LEMMA KeptStays ==
  ASSUME CorpusTypeOK, SeenNone, NEW p \in Procs, StartProc(p) \/ ProcStep(p) \/ StopProc(p),
         NEW q \in Procs, NEW block, Kept(q, block)
  PROVE  Kept(q, block)'
<1>1. \A i \in 1..Len(docs) : i \in 1..Len(docs') /\ docs'[i] = docs[i]
  <2>1. CASE UNCHANGED docs
    BY <2>1, Zenon
  <2>2. CASE Adds(p)
    <3>1. blocks[p] # <<>>
      BY <2>2, Zenon DEF Adds, SeenNone
    <3>2. docs' = Append(docs, Document(p))
      BY <2>2, Zenon DEF Adds
    <3>3. /\ Len(docs') = Len(docs) + 1
          /\ \A i \in DOMAIN docs : docs'[i] = docs[i]
      BY <3>1, <3>2, AppendKeeps, Zenon
    <3> QED
      BY <3>3, DocsSequence
  <2> QED
    BY <2>1, <2>2, Zenon DEF ProcStep, StartProc, NextFile, EndFiles, EndBlocks, Find, Skip, NotFound,
       Insert, RequestFails, AnswerLost, GiveUp, StopProc, Adds
<1>2. failed[q] \subseteq failed'[q]
  BY Zenon DEF ProcStep, StartProc, NextFile, EndFiles, EndBlocks, Find, Skip, NotFound, Insert,
     RequestFails, AnswerLost, GiveUp, StopProc, CorpusTypeOK
<1> QED
  BY <1>1, <1>2, Zenon DEF Kept, Among

\* When the program goes on to the next block, the current one is represented or
\* its insertion has failed.
LEMMA CurrentKept ==
  ASSUME CorpusTypeOK, SeenNone, NEW p \in Procs, NEW block, block = Current(p),
         Skip(p) \/ Insert(p) \/ RequestFails(p) \/ AnswerLost(p)
  PROVE  Kept(p, block)'
<1>1. CASE Skip(p)
  <2>1. PICK n \in since[p]..Len(docs) : Among(block, n)
    BY <1>1, Zenon DEF Skip
  <2>2. Among(block, Len(docs))
    BY <2>1, DocsSequence DEF Among, CorpusTypeOK
  <2> QED
    BY <1>1, <2>2, Zenon DEF Skip, Kept, Among
<1>2. CASE Insert(p)
  <2>1. /\ docs'[Len(docs) + 1] = Document(p)
        /\ Len(docs') = Len(docs) + 1
    BY <1>2, AppendKeeps, Zenon DEF Insert, SeenNone
  <2>2. CompareInstrs(docs'[Len(docs) + 1].instrs, BlockJson(block))
    <3>1. Document(p).instrs = BlockJson(block)
      BY Zenon DEF Document
    <3>2. docs'[Len(docs) + 1].instrs = BlockJson(block)
      BY <2>1, <3>1, Zenon
    <3> QED
      BY <3>2, EqualToItself, Zenon
  <2>3. Len(docs) + 1 \in 1..Len(docs')
    BY <2>1, DocsSequence
  <2> QED
    BY <2>2, <2>3, Zenon DEF Kept, Among
<1>3. CASE RequestFails(p) \/ AnswerLost(p)
  BY <1>3, Zenon DEF RequestFails, AnswerLost, GiveUp, Kept, CorpusTypeOK
<1> QED
  BY <1>1, <1>2, <1>3, Zenon

\* What is left when the program goes on to the next block is all but the current.
LEMMA TailLeft ==
  ASSUME CorpusTypeOK, NEW p \in Procs, blocks[p] # <<>>, NextBlock(p),
         NEW block \in Left(p), block # Current(p)
  PROVE  block \in Left(p)'
<1>1. PICK k \in DOMAIN blocks[p] : block = blocks[p][k]
  BY Zenon DEF Left
<1>2. k # 1
  BY <1>1 DEF Current, CorpusTypeOK
<1>3. blocks'[p] = Tail(blocks[p]) /\ at'[p] = "blocks"
  BY Zenon DEF NextBlock, CorpusTypeOK
<1>4. k - 1 \in DOMAIN Tail(blocks[p]) /\ Tail(blocks[p])[k - 1] = block
  <2>1. blocks[p] \in Seq(Block)
    BY Zenon DEF CorpusTypeOK
  <2> QED
    BY <1>1, <1>2, <2>1
<1> QED
  BY <1>3, <1>4, Zenon DEF Left

\* Every block of a file the process has come to stays kept or left to be inserted.
LEMMA FilesKeptStays ==
  ASSUME CorpusTypeOK, SeenNone, FilesKept, NEW p \in Procs, StartProc(p) \/ ProcStep(p) \/ StopProc(p)
  PROVE  FilesKept'
<1>0. content' = content
  BY Zenon DEF ProcStep, StartProc, NextFile, EndFiles, EndBlocks, Find, Skip, NotFound, Insert,
     RequestFails, AnswerLost, GiveUp, StopProc
<1> SUFFICES ASSUME NEW q \in Procs, at'[q] \notin {"panicked", "stopped"},
                    NEW f \in DOMAIN content \ todo'[q], content[f].kind = "function",
                    NEW i \in DOMAIN content[f].blocks,
                    NEW block, block = content[f].blocks[i]
             PROVE  Kept(q, block)' \/ block \in Left(q)'
  BY <1>0, Zenon DEF FilesKept, Kept, Left, Among
<1>1. ASSUME at[q] \notin {"panicked", "stopped"}, f \notin todo[q]
      PROVE  Kept(q, block) \/ block \in Left(q)
  BY <1>1, Zenon DEF FilesKept
<1>2. CASE q # p
  <2>1. at'[q] = at[q] /\ todo'[q] = todo[q] /\ blocks'[q] = blocks[q]
    BY <1>2, Zenon DEF ProcStep, StartProc, NextFile, EndFiles, EndBlocks, Find, Skip, NotFound, Insert,
       RequestFails, AnswerLost, GiveUp, NextBlock, StopProc, CorpusTypeOK
  <2> QED
    BY <1>1, <2>1, KeptStays, Zenon DEF Left
<1>3. CASE q = p
  <2>1. CASE StartProc(p) \/ EndFiles(p) \/ EndBlocks(p) \/ Find(p) \/ NotFound(p)
    <3>1. /\ todo'[q] = todo[q] /\ at[q] \notin {"panicked", "stopped"}
      BY <1>3, <2>1, Zenon DEF StartProc, EndFiles, EndBlocks, Find, NotFound
    <3>2. Left(q) \subseteq Left(q)'
      <4>1. blocks' = blocks
        BY <2>1, Zenon DEF StartProc, EndFiles, EndBlocks, Find, NotFound
      <4>2. CASE StartProc(p) \/ EndFiles(p)
        <5>1. at[q] \notin {"blocks", "scan", "insert"}
          BY <1>3, <4>2, Zenon DEF StartProc, EndFiles
        <5> QED
          BY <5>1, Zenon DEF Left
      <4>3. CASE EndBlocks(p)
        <5>1. blocks[q] = <<>>
          BY <1>3, <4>3, Zenon DEF EndBlocks
        <5>2. DOMAIN blocks[q] = {}
          BY <5>1
        <5> QED
          BY <5>2, Zenon DEF Left
      <4>4. CASE Find(p) \/ NotFound(p)
        <5>1. at'[q] \in {"blocks", "scan", "insert"}
          BY <1>3, <4>4, Zenon DEF Find, NotFound, CorpusTypeOK
        <5> QED
          BY <4>1, <5>1, Zenon DEF Left
      <4> QED
        BY <2>1, <4>2, <4>3, <4>4, Zenon
    <3> QED
      BY <1>1, <2>1, <3>1, <3>2, KeptStays, Zenon DEF ProcStep
  <2>2. CASE StopProc(p)
    BY <1>3, <2>2, Zenon DEF StopProc, CorpusTypeOK
  <2>3. CASE Skip(p) \/ Insert(p) \/ RequestFails(p) \/ AnswerLost(p)
    <3>1. /\ blocks[p] # <<>> /\ NextBlock(p)
          /\ todo'[p] = todo[p] /\ at[p] \notin {"panicked", "stopped"}
      BY <2>3, Zenon DEF Skip, Insert, RequestFails, AnswerLost, GiveUp, NextBlock, SeenNone
    <3>2. CASE block = Current(p)
      BY <1>3, <2>3, <3>2, CurrentKept, Zenon
    <3>3. CASE block # Current(p)
      BY <1>1, <1>3, <2>3, <3>1, <3>3, KeptStays, TailLeft, Zenon DEF ProcStep
    <3> QED
      BY <3>2, <3>3, Zenon
  <2>4. CASE NextFile(p)
    <3>1. CASE f \notin todo[p]
      <4>1. at[p] = "files"
        BY <2>4, Zenon DEF NextFile
      <4> QED
        BY <1>1, <1>3, <2>4, <3>1, <4>1, KeptStays, Zenon DEF ProcStep, Left
    <3>2. CASE f \in todo[p]
      <4>1. at'[p] = "blocks" /\ blocks'[p] = content[f].blocks
        <5>1. PICK g \in todo[p] :
                /\ todo' = [todo EXCEPT ![p] = @ \ {g}]
                /\ content[g].kind = "function" =>
                     /\ at' = [at EXCEPT ![p] = "blocks"]
                     /\ blocks' = [blocks EXCEPT ![p] = content[g].blocks]
          BY <2>4, Zenon DEF NextFile
        <5>2. p \in DOMAIN todo /\ p \in DOMAIN at /\ p \in DOMAIN blocks
          BY Zenon DEF CorpusTypeOK
        <5>3. f = g
          BY <1>3, <3>2, <5>1, <5>2, Zenon
        <5> QED
          BY <5>1, <5>2, <5>3, Zenon
      <4> QED
        BY <1>3, <4>1, Zenon DEF Left
    <3> QED
      BY <3>1, <3>2, Zenon
  <2> QED
    BY <2>1, <2>2, <2>3, <2>4, Zenon DEF ProcStep
<1> QED
  BY <1>2, <1>3, Zenon

\* Every state of the runs of the program satisfies the inductive invariant,
\* whichever requests fail and wherever a run is stopped.
THEOREM CorpusInvariance == CorpusSpec => []CorpusIInv
<1>1. ASSUME CorpusIInv, [CorpusNext]_corpusVars
      PROVE  CorpusIInv'
  <2>1. ASSUME NEW p \in Procs, StartProc(p) \/ ProcStep(p) \/ StopProc(p)
        PROVE  CorpusIInv'
    BY <1>1, <2>1, TypeKept, SeenNoneKept, CopiesKept, FilesKeptStays, Zenon DEF CorpusIInv
  <2>2. CASE UNCHANGED corpusVars
    <3>1. CorpusTypeOK'
      BY <1>1, <2>2, Zenon DEF corpusVars, CorpusIInv, CorpusTypeOK
    <3>2. SeenNone'
      BY <1>1, <2>2, Zenon DEF corpusVars, CorpusIInv, SeenNone, Among, Current
    <3>3. CopiesOnlyFromRaces'
      BY <1>1, <2>2, Zenon DEF corpusVars, CorpusIInv, CopiesOnlyFromRaces
    <3>4. FilesKept'
      <4>1. \A q \in Procs : Left(q)' = Left(q)
        BY <2>2, Zenon DEF corpusVars, Left
      <4>2. \A q, block : Kept(q, block)' <=> Kept(q, block)
        BY <2>2, Zenon DEF corpusVars, Kept, Among
      <4>3. content' = content /\ todo' = todo /\ at' = at
        BY <2>2, Zenon DEF corpusVars
      <4> QED
        BY <1>1, <4>1, <4>2, <4>3 DEF CorpusIInv, FilesKept
    <3> QED
      BY <3>1, <3>2, <3>3, <3>4, Zenon DEF CorpusIInv
  <2> QED
    BY <1>1, <2>1, <2>2, Zenon DEF CorpusNext, AllOver
<1> QED
  BY <1>1, CorpusInitHolds, PTL DEF CorpusSpec

\* insert_json_into_mongodb adds a second copy of a document only in a race with
\* another run: running the program again, after failures too, adds none.
THEOREM NoCopies == CorpusSpec => []CopiesOnlyFromRaces
BY CorpusInvariance, PTL DEF CorpusIInv

\* What compare_instrs takes for equal: it looks for the opcode beside the format,
\* where it finds none, and so two blocks are equal to it when they have as many
\* instructions.
THEOREM EqualMeansAsLong ==
  ASSUME \A op \in DOMAIN Format : Format[op] # "opcode",
         NEW a \in Seq(Json), NEW b \in Seq(Json)
  PROVE  CompareInstrs(a, b) <=> Len(a) = Len(b)
<1>1. ASSUME NEW j \in Json
      PROVE  Get(j, "opcode") = {}
  <2>1. PICK op \in DOMAIN Format : j = ToJson(op)
    BY Zenon DEF Json
  <2>2. DOMAIN j = {Format[op]}
    BY <2>1, Zenon DEF ToJson
  <2>3. DOMAIN j \cap {"opcode"} = {}
    BY <2>2, Zenon
  <2> QED
    BY <2>3, Zenon DEF Get
<1>2. ASSUME Len(a) = Len(b), NEW i \in DOMAIN a
      PROVE  a[i] \in Json /\ b[i] \in Json
  BY <1>2
<1>3. ASSUME Len(a) = Len(b), NEW i \in DOMAIN a
      PROVE  Get(a[i], "opcode") = Get(b[i], "opcode")
  <2>1. a[i] \in Json /\ b[i] \in Json
    BY <1>2, <1>3, Zenon
  <2> QED
    BY <1>1, <2>1, Zenon
<1> QED
  BY <1>3, Zenon DEF CompareInstrs

\* A run that came to the end of the files leaves, for every block of every first
\* function, a document that compare_instrs takes for equal, unless an insertion of
\* that block failed in the run.  It is not that the block itself is there: by
\* EqualMeansAsLong the document may be that of another block as long.
THEOREM RepresentedWhenDone == CorpusSpec => []BlocksKept
<1>1. CorpusIInv => BlocksKept
  BY Zenon DEF CorpusIInv, FilesKept, BlocksKept, Kept, Left
<1> QED
  BY <1>1, CorpusInvariance, PTL

\* The phases of a run between two files, and the requests of an insertion, in the
\* order in which it comes to them.
Inserting == {"blocks", "scan", "insert"}
Phase(l) ==
  IF l = "idle" THEN 0 ELSE IF l \in Inserting THEN 1 ELSE IF l = "files" THEN 2 ELSE 3
Request(l) == IF l = "blocks" THEN 0 ELSE IF l = "scan" THEN 1 ELSE 2

\* Run p comes to a file it had not come to, else to its next phase, else has one
\* block less to insert, else makes the next request.
Closer(p) ==
  \/ todo'[p] \subseteq todo[p] /\ todo'[p] # todo[p]
  \/ todo'[p] = todo[p] /\ Phase(at'[p]) > Phase(at[p])
  \/ /\ todo'[p] = todo[p] /\ at[p] \in Inserting /\ at'[p] \in Inserting
     /\ \/ Len(blocks'[p]) < Len(blocks[p])
        \/ blocks'[p] = blocks[p] /\ Request(at'[p]) > Request(at[p])

\* Run p stays where it is.
Waits(p) == todo'[p] = todo[p] /\ at'[p] = at[p] /\ blocks'[p] = blocks[p]

\* A run that returns from insert_json_into_mongodb has one block less to insert.
LEMMA NextBlockCloser ==
  ASSUME CorpusIInv, NEW p \in Procs, at[p] \in {"scan", "insert"}, NextBlock(p)
  PROVE  Closer(p) /\ \A q \in Procs \ {p} : Waits(q)
<1>1. /\ at' = [at EXCEPT ![p] = "blocks"] /\ todo' = todo
      /\ blocks' = [blocks EXCEPT ![p] = Tail(blocks[p])]
  BY Zenon DEF NextBlock
<1>2. /\ at \in [Procs -> {"idle", "files", "blocks", "scan", "insert"} \cup Over]
      /\ blocks \in [Procs -> Seq(Block)]
  BY Zenon DEF CorpusIInv, CorpusTypeOK
<1>3. blocks[p] \in Seq(Block) /\ blocks[p] # <<>>
  BY <1>2, Zenon DEF CorpusIInv, SeenNone
<1>4. Len(Tail(blocks[p])) < Len(blocks[p])
  BY <1>3
<1>5. at'[p] = "blocks" /\ blocks'[p] = Tail(blocks[p])
  BY <1>1, <1>2, Zenon
<1>6. Closer(p)
  BY <1>1, <1>4, <1>5, Zenon DEF Closer, Inserting
<1>7. \A q \in Procs \ {p} : Waits(q)
  BY <1>1, <1>2, Zenon DEF Waits
<1> QED
  BY <1>6, <1>7, Zenon

\* Every step of a run brings it nearer to its end and leaves the other runs where
\* they are.
LEMMA ProcCloser ==
  ASSUME CorpusIInv, NEW p \in Procs, StartProc(p) \/ ProcStep(p) \/ StopProc(p)
  PROVE  Closer(p) /\ \A q \in Procs \ {p} : Waits(q)
<1>1. /\ at \in [Procs -> {"idle", "files", "blocks", "scan", "insert"} \cup Over]
      /\ todo \in [Procs -> SUBSET DOMAIN content]
      /\ blocks \in [Procs -> Seq(Block)]
  BY Zenon DEF CorpusIInv, CorpusTypeOK
<1>2. CASE StartProc(p)
  BY <1>1, <1>2 DEF StartProc, Closer, Waits, Phase, Inserting
<1>3. CASE NextFile(p)
  <2>1. PICK f \in todo[p] : todo' = [todo EXCEPT ![p] = todo[p] \ {f}]
    BY <1>3, Zenon DEF NextFile
  <2>2. \A q \in Procs \ {p} : at'[q] = at[q] /\ blocks'[q] = blocks[q]
    BY <1>1, <1>3, Zenon DEF NextFile
  <2>3. todo'[p] = todo[p] \ {f} /\ \A q \in Procs \ {p} : todo'[q] = todo[q]
    BY <1>1, <2>1, Zenon
  <2> QED
    BY <2>1, <2>2, <2>3, Zenon DEF Closer, Waits
<1>4. CASE EndFiles(p)
  BY <1>1, <1>4 DEF EndFiles, Closer, Waits, Phase, Inserting
<1>5. CASE EndBlocks(p)
  BY <1>1, <1>5 DEF EndBlocks, Closer, Waits, Phase, Inserting
<1>6. CASE Find(p)
  BY <1>1, <1>6 DEF Find, Closer, Waits, Request, Inserting
<1>7. CASE NotFound(p)
  BY <1>1, <1>7 DEF NotFound, Closer, Waits, Request, Inserting
<1>8. CASE Skip(p) \/ Insert(p) \/ RequestFails(p) \/ AnswerLost(p)
  <2>1. at[p] \in {"scan", "insert"} /\ NextBlock(p)
    BY <1>8, Zenon DEF Skip, Insert, RequestFails, AnswerLost, GiveUp
  <2> QED
    BY <2>1, NextBlockCloser, Zenon
<1>9. CASE StopProc(p)
  <2>1. at[p] \in {"files", "blocks", "scan", "insert"} /\ at'[p] = "stopped" /\ todo' = todo
    BY <1>1, <1>9, Zenon DEF StopProc, Over
  <2>2. Closer(p)
    BY <2>1 DEF Closer, Phase, Inserting
  <2>3. \A q \in Procs \ {p} : Waits(q)
    BY <1>1, <1>9, Zenon DEF StopProc, Waits
  <2> QED
    BY <2>2, <2>3, Zenon
<1> QED
  BY <1>2, <1>3, <1>4, <1>5, <1>6, <1>7, <1>8, <1>9, Zenon DEF ProcStep

\* The runs of ir_serde make progress only: a step of a run brings it nearer to its
\* end, failed requests and lost answers included, and no step of another run sets
\* it back.  Files, blocks and requests are finitely many.
THEOREM RunsGetCloser ==
  CorpusSpec => [][\A p \in Procs : /\ ProcStep(p) => Closer(p)
                                    /\ Closer(p) \/ Waits(p)]_corpusVars
<1> DEFINE A == \A p \in Procs : /\ ProcStep(p) => Closer(p)
                                 /\ Closer(p) \/ Waits(p)
<1>1. ASSUME CorpusIInv, [CorpusNext]_corpusVars PROVE A
  <2> SUFFICES ASSUME NEW p \in Procs
               PROVE  (ProcStep(p) => Closer(p)) /\ (Closer(p) \/ Waits(p))
    BY Zenon
  <2>1. ProcStep(p) => Closer(p)
    BY <1>1, ProcCloser, Zenon
  <2>2. ASSUME NEW q \in Procs, StartProc(q) \/ ProcStep(q) \/ StopProc(q)
        PROVE  Closer(p) \/ Waits(p)
    BY <1>1, <2>2, ProcCloser, Zenon
  <2>3. CASE UNCHANGED corpusVars
    <3>1. todo' = todo /\ at' = at /\ blocks' = blocks
      BY <2>3, Zenon DEF corpusVars
    <3>2. Waits(p)
      BY <3>1, Zenon DEF Waits
    <3> QED
      BY <2>1, <3>2, Zenon
  <2> QED
    BY <1>1, <2>1, <2>2, <2>3, Zenon DEF CorpusNext, AllOver
<1>2. CorpusIInv /\ [CorpusNext]_corpusVars => [A]_corpusVars
  BY <1>1, Zenon
<1> QED
  BY <1>2, CorpusInvariance, PTL DEF CorpusSpec
=============================================================================
