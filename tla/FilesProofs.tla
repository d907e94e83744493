----------------------------- MODULE FilesProofs -----------------------------
(***************************************************************************)
(* The history of a file: what was saved stays, what is newest is shown,   *)
(* and what is derived is derived from that, for any number of files,      *)
(* requests, versions and jobs.                                            *)
(*                                                                         *)
(* OverwritesApart is the one hypothesis of all three: no WebDAV overwrite *)
(* of the owner's files while a version is being written (the overwrite    *)
(* deletes the versions it has not seen).  The other two also take Overlap *)
(* to be FALSE: a content does not change under the jobs on it.            *)
(***************************************************************************)
EXTENDS MediaJobs, FiniteSetTheorems, TLAPS

\* Steps in which a writer remembers the row it read
Busy == {"reserve", "store", "create", "point", "fresh", "commit", "collapse", "settle", "leaked"}

Writer == [pc : WriteSteps, file : Files \cup {None}, size : Int, seen : FileRow \cup {None}, tries : Nat]
Shapes ==
    /\ file \in [Files -> FileRow \cup {None}]
    /\ write \in [Writers -> Writer]
    /\ intake \in [Fresh -> [pc : IntakeSteps, at : {"folder", "top"}, size : Int, hops : Nat]]
    /\ remux \in [Remuxes -> [pc : {"unsent", "idle", "read", "held", "update", "charge"},
                              row : Videos \cup {None}, seen : FileRow \cup {None}, poster : BOOLEAN]]
    /\ \A q \in Remuxes : remux[q].pc \in {"held", "update"} => remux[q].seen # None

\* Who is at which step
ProgressOf(r, w) ==
    /\ w.pc \in {"create", "point"} => r \in Uploads
    /\ w.pc \in {"fresh", "commit"} => r \in Saves
    /\ w.pc \in {"collapse", "settle"} => r \in Overwrites \ (Uploads \cup Saves)
    /\ w.pc \notin {"unsent", "idle"} => w.file \in Files
    /\ w.pc \in Busy <=> w.seen # None
Progress == \A r \in Writers : ProgressOf(r, write[r])

\* A fresh file comes to be once, and nobody names it before.
FreshOnce ==
    \A f \in Fresh : intake[f].pc # "made" =>
        file[f] = None /\ \A r \in Writers : write[r].file # f

\* Overwrites do not meet writers of versions.
Plain == \A o \in Overwrites : write[o].pc = "unsent"
Alone == Plain \/ \A r \in Uploads \cup Saves : write[r].pc = "unsent"

\* Numbers do not run out: each is owed to a version that was there or to a
\* writer that is done.
Done == {r \in Uploads \cup Saves : write[r].pc = "saved"}
Limit == Len(History) + Cardinality(Done)
Counted ==
    /\ \A f \in Files : file[f] # None => file[f].current <= Limit
    /\ \A r \in Writers : write[r].seen # None => write[r].seen.current <= Limit

Holds(row, r) == row = None \/ \E v \in Numbers : row.versions[v] # None /\ row.versions[v].key = r
Placed ==
    \A r \in Uploads \cup Saves :
        write[r].pc \in {"point", "saved"} => Holds(file[write[r].file], r)

KeptInv == Shapes /\ Progress /\ FreshOnce /\ Alone /\ Counted /\ Placed

-----------------------------------------------------------------------------
\* The workloads in which no overwrite meets a writer of versions.
OverwritesApart ==
    \A sent \in Workloads : sent \cap Overwrites = {} \/ sent \cap (Uploads \cup Saves) = {}

\* The writers of versions are finitely many.
LEMMA WritersFinite ==
    IsFiniteSet(Uploads \cup Saves)
<1>1. IsFiniteSet(Writers) /\ Uploads \cup Saves \subseteq Writers
  BY VersionsAssumption DEF Writers
<1> QED BY <1>1, FS_Subset

\* A file has at least one version, and the versions it starts with have numbers.
LEMMA NumberFacts ==
    /\ Len(History) \in Nat \ {0} /\ \A v \in DOMAIN History : v \in Numbers /\ History[v] \in Int
    /\ DOMAIN History = 1..Len(History)
    /\ Cardinality(Uploads \cup Saves) \in Nat
    /\ \A v \in Int : v \in Numbers <=> 1 <= v /\ v <= Len(History) + Cardinality(Uploads \cup Saves)
<1>1. Len(History) \in Nat /\ DOMAIN History = 1..Len(History) /\ History \in [1..Len(History) -> Sizes]
  BY VersionsAssumption
<1>2. Len(History) # 0
  <2> SUFFICES ASSUME Len(History) = 0 PROVE FALSE
    BY <1>1
  <2> QED BY <1>1, VersionsAssumption
<1>3. Cardinality(Uploads \cup Saves) \in Nat
  BY WritersFinite, FS_CardinalityType
<1>4. \A v \in Int : v \in Numbers <=> 1 <= v /\ v <= Len(History) + Cardinality(Uploads \cup Saves)
  BY <1>1, <1>3 DEF Numbers
<1>5. \A v \in DOMAIN History : v \in Numbers /\ History[v] \in Int
  <2> DEFINE n == Len(History)
             m == Cardinality(Uploads \cup Saves)
  <2>1. n \in Nat /\ m \in Nat /\ History \in [1..n -> Sizes] /\ Sizes \subseteq Nat
    BY <1>1, <1>3, VersionsAssumption
  <2>2. \A v \in Int : 1 <= v /\ v <= n + m => v \in Numbers
    BY <1>4
  <2> HIDE DEF n, m
  <2>3. \A v \in 1..n : v \in Int /\ 1 <= v /\ v <= n + m
    BY <2>1
  <2>5. \A v \in 1..n : History[v] \in Sizes
    BY <2>1
  <2>4. DOMAIN History = 1..n
    BY <2>1
  <2>6. \A s \in Sizes : s \in Int
    BY <2>1
  <2>7. \A v \in 1..n : v \in Numbers /\ History[v] \in Int
    BY <2>2, <2>3, <2>5, <2>6
  <2> QED BY <2>4, <2>7
<1> QED BY <1>1, <1>2, <1>3, <1>4, <1>5

\* Done grows, and stays within the writers.
LEMMA LimitFacts ==
    ASSUME Shapes
    PROVE  /\ Limit \in Nat /\ Limit >= Len(History)
           /\ \A r \in Uploads \cup Saves : write[r].pc # "saved" => Limit + 1 \in Numbers
           /\ \A n \in Nat : n <= Limit /\ n >= 1 => n \in Numbers
<1>1. Done \in SUBSET (Uploads \cup Saves) /\ IsFiniteSet(Uploads \cup Saves)
  BY WritersFinite DEF Done
<1>2. IsFiniteSet(Done) /\ Cardinality(Done) \in Nat /\ Cardinality(Done) <= Cardinality(Uploads \cup Saves)
  BY <1>1, FS_Subset, FS_CardinalityType
<1>3. \A r \in Uploads \cup Saves : write[r].pc # "saved" => Cardinality(Done) + 1 <= Cardinality(Uploads \cup Saves)
  <2> SUFFICES ASSUME NEW r \in Uploads \cup Saves, write[r].pc # "saved"
               PROVE  Cardinality(Done) + 1 <= Cardinality(Uploads \cup Saves)
    OBVIOUS
  <2>1. r \notin Done
    BY DEF Done
  <2>2. Cardinality(Done \cup {r}) = Cardinality(Done) + 1
    BY <1>2, <2>1, FS_AddElement
  <2>3. Done \cup {r} \in SUBSET (Uploads \cup Saves)
    BY <1>1
  <2>4. Cardinality(Done \cup {r}) <= Cardinality(Uploads \cup Saves)
    BY <1>1, <2>3, FS_Subset
  <2> QED BY <2>2, <2>4
<1> DEFINE l == Len(History)
           all == Cardinality(Uploads \cup Saves)
           done == Cardinality(Done)
<1>4. l \in Nat \ {0} /\ all \in Nat /\ done \in Nat /\ done <= all
  BY <1>2, NumberFacts
<1>5. \A v \in Int : 1 <= v /\ v <= l + all => v \in Numbers
  BY NumberFacts
<1>6. \A r \in Uploads \cup Saves : write[r].pc # "saved" => done + 1 <= all
  BY <1>3
<1>7. Limit = l + done
  BY DEF Limit
<1> HIDE DEF l, all, done
<1>8. Limit \in Nat /\ Limit >= l /\ Limit <= l + all
  BY <1>4, <1>7
<1>9. \A r \in Uploads \cup Saves : write[r].pc # "saved" => Limit + 1 \in Int /\ 1 <= Limit + 1 /\ Limit + 1 <= l + all
  BY <1>4, <1>6, <1>7
<1>10. \A n \in Nat : n <= Limit /\ n >= 1 => n \in Int /\ 1 <= n /\ n <= l + all
  BY <1>4, <1>8
<1>11. Limit >= Len(History)
  BY <1>8 DEF l
<1> QED BY <1>5, <1>8, <1>9, <1>10, <1>11

\* The limit never falls, and a writer that is done raises it by one.
LEMMA NextLimit ==
    ASSUME Shapes, Shapes', Done' = Done \/ \E r \in (Uploads \cup Saves) \ Done : Done' = Done \cup {r}
    PROVE  /\ Limit' >= Limit /\ Limit' \in Nat
           /\ Done' # Done => Limit' = Limit + 1
<1>1. Done \in SUBSET (Uploads \cup Saves) /\ IsFiniteSet(Uploads \cup Saves)
  BY WritersFinite DEF Done
<1>2. IsFiniteSet(Done) /\ Cardinality(Done) \in Nat
  BY <1>1, FS_Subset, FS_CardinalityType
<1>3. CASE Done' = Done
  <2>1. Limit' = Limit
    BY <1>3 DEF Limit
  <2> QED BY <1>3, <2>1, LimitFacts
<1>4. CASE \E r \in (Uploads \cup Saves) \ Done : Done' = Done \cup {r}
  <2>1. PICK r \in (Uploads \cup Saves) \ Done : Done' = Done \cup {r}
    BY <1>4
  <2>2. Cardinality(Done \cup {r}) = Cardinality(Done) + 1
    BY <1>2, <2>1, FS_AddElement
  <2>3. Limit' = Limit + 1
    BY <1>2, <2>1, <2>2, NumberFacts DEF Limit
  <2> QED BY <2>3, LimitFacts
<1> QED BY <1>3, <1>4

-----------------------------------------------------------------------------
\* Steps in which rows only go or change their state, or a remux resizes them.
Fades ==
    \A f \in Files :
        \/ file'[f] = None
        \/ /\ file[f] # None /\ file'[f] # None
           /\ file'[f].current = file[f].current
           /\ \A v \in Numbers : file[f].versions[v] # None =>
                 file'[f].versions[v] # None /\ file'[f].versions[v].key = file[f].versions[v].key

\* Such a step keeps the invariant.
LEMMA FadesKeep ==
    ASSUME KeptInv, Shapes', Fades, write' = write,
           \A f \in Fresh : intake'[f].pc # "made" => intake[f].pc # "made"
    PROVE  KeptInv'
<1>1. Done' = Done /\ Limit' = Limit
  BY DEF Done, Limit
<1>2. Progress' /\ Alone'
  BY DEF KeptInv, Progress, Alone, Plain
<1>3. FreshOnce'
  BY VersionsAssumption DEF KeptInv, FreshOnce, Fades
<1>4. Counted'
  BY <1>1 DEF KeptInv, Counted, Fades
<1>5. Placed'
  <2> SUFFICES ASSUME NEW r \in Uploads \cup Saves, write[r].pc \in {"point", "saved"}
               PROVE  Holds(file'[write[r].file], r)
    BY DEF Placed
  <2>1. write[r].file \in Files /\ Holds(file[write[r].file], r)
    BY DEF KeptInv, Placed, Progress, ProgressOf, Writers
  <2> QED BY <2>1 DEF Fades, Holds
<1> QED BY <1>2, <1>3, <1>4, <1>5 DEF KeptInv
-----------------------------------------------------------------------------
\* Steps of one writer that leave the rows alone and add no version.
LEMMA AsideKeeps ==
    ASSUME KeptInv, Shapes', file' = file, intake' = intake,
           NEW r \in Writers, write[r].pc \notin {"unsent", "saved"},
           \A q \in Writers \ {r} : write'[q] = write[q],
           ProgressOf(r, write'[r]), write'[r].pc \notin {"unsent", "point"},
           write'[r].pc = "saved" => r \notin Uploads \cup Saves,
           write'[r].seen # None => write'[r].seen = write[r].seen \/ \E f \in Files : write'[r].seen = file[f],
           write'[r].file # write[r].file => file[write'[r].file] # None
    PROVE  KeptInv'
<1>1. Done' = Done /\ Limit' = Limit
  <2>1. Done' = Done
    BY DEF Done, Writers
  <2> QED BY <2>1 DEF Limit
<1>2. Progress'
  BY DEF KeptInv, Progress
<1>3. Alone'
  BY DEF KeptInv, Alone, Plain, Writers
<1>4. FreshOnce'
  BY DEF KeptInv, FreshOnce
<1>5. Counted'
  BY <1>1 DEF KeptInv, Counted
<1>6. Placed'
  BY DEF KeptInv, Placed, Holds, Writers
<1> QED BY <1>2, <1>3, <1>4, <1>5, <1>6 DEF KeptInv

\* A writer's step as one change of its record
LEMMA Stepped ==
    ASSUME Shapes, NEW r \in Writers, NEW w \in Writer, write' = [write EXCEPT ![r] = w]
    PROVE  write' \in [Writers -> Writer] /\ write'[r] = w /\ \A q \in Writers \ {r} : write'[q] = write[q]
BY DEF Shapes

\* What WriteMove and WriteEnd do to the record of the writer, and of the others.
LEMMA Moved ==
    ASSUME Shapes, NEW r \in Writers, NEW step \in WriteSteps
    PROVE  /\ WriteMove(r, step) =>
                /\ write' \in [Writers -> Writer] /\ \A q \in Writers \ {r} : write'[q] = write[q]
                /\ write'[r].pc = step /\ write'[r].file = write[r].file /\ write'[r].seen = write[r].seen
                /\ write'[r].size = write[r].size
           /\ WriteEnd(r, step) =>
                /\ write' \in [Writers -> Writer] /\ \A q \in Writers \ {r} : write'[q] = write[q]
                /\ write'[r].pc = step /\ write'[r].file = write[r].file /\ write'[r].seen = None
                /\ write'[r].size = write[r].size
<1>1. write \in [Writers -> Writer]
  BY DEF Shapes
<1>2. SUFFICES ASSUME NEW w \in Writer, w = write[r]
               PROVE  [w EXCEPT !.pc = step] \in Writer /\ [w EXCEPT !.pc = step, !.seen = None, !.tries = 0] \in Writer
  <2>1. write[r] \in Writer
    BY <1>1
  <2>2. [write[r] EXCEPT !.pc = step] \in Writer /\ [write[r] EXCEPT !.pc = step, !.seen = None, !.tries = 0] \in Writer
    BY <1>2, <2>1
  <2>3. WriteMove(r, step) => write' = [write EXCEPT ![r] = [write[r] EXCEPT !.pc = step]]
    BY <1>1 DEF WriteMove
  <2>4. WriteEnd(r, step) => write' = [write EXCEPT ![r] = [write[r] EXCEPT !.pc = step, !.seen = None, !.tries = 0]]
    BY <1>1 DEF WriteEnd
  <2>5. DEFINE a == [write[r] EXCEPT !.pc = step]
              b == [write[r] EXCEPT !.pc = step, !.seen = None, !.tries = 0]
  <2>6. /\ a.pc = step /\ a.file = write[r].file /\ a.seen = write[r].seen /\ a.size = write[r].size
        /\ b.pc = step /\ b.file = write[r].file /\ b.seen = None /\ b.size = write[r].size
    BY <2>1 DEF Writer
  <2>7. a \in Writer /\ b \in Writer
    BY <2>2
  <2> HIDE DEF a, b
  <2> QED BY <1>1, <2>3, <2>4, <2>6, <2>7 DEF a, b
<1> QED BY DEF Writer, WriteSteps

Others == UNCHANGED <<intake, remux>>

\* Reservation, storage and what is given back when the write does not become a version.
LEMMA ReserveKeeps ==
    ASSUME KeptInv, Others, NEW r \in Writers, WriteReserve(r) \/ WriteStore(r) \/ StoreFails(r)
    PROVE  KeptInv'
<1>1. PICK step \in {"store", "leaked", "failed", "create", "fresh", "collapse"} :
        /\ WriteMove(r, step) \/ (WriteEnd(r, step) /\ step = "failed")
        /\ step = "failed" => WriteEnd(r, step)
        /\ step = "create" => r \in Uploads
        /\ step = "fresh" => r \in Saves
        /\ step = "collapse" => r \in Overwrites \ (Uploads \cup Saves)
        /\ file' = file /\ write[r].pc \in {"reserve", "store"}
  BY DEF WriteReserve, WriteStore, StoreFails, AfterStore, Writers
<1>2. Shapes /\ ProgressOf(r, write[r])
  BY DEF KeptInv, Progress
<1>3. /\ write' \in [Writers -> Writer] /\ \A q \in Writers \ {r} : write'[q] = write[q]
      /\ write'[r].pc = step /\ write'[r].file = write[r].file
      /\ write'[r].seen = IF step = "failed" THEN None ELSE write[r].seen
  BY <1>1, <1>2, Moved DEF WriteSteps
<1>4. Shapes'
  BY <1>1, <1>2, <1>3 DEF Shapes, Others
<1>5. ProgressOf(r, write'[r])
  BY <1>1, <1>2, <1>3 DEF ProgressOf, Busy
<1> QED BY <1>1, <1>3, <1>4, <1>5, AsideKeeps DEF Others

\* The read that starts a write
LEMMA StartKeeps ==
    ASSUME KeptInv, Others, NEW r \in Writers, NEW f \in Files, NEW n \in Sizes, WriteStart(r, f, n)
    PROVE  KeptInv'
<1> DEFINE w == [pc |-> "reserve", file |-> f, size |-> n, seen |-> file[f], tries |-> 0]
<1>1. Shapes /\ file[f] \in FileRow /\ file[f] # None /\ write[r].pc = "idle" /\ file' = file
  BY NoneAssumption DEF KeptInv, Shapes, WriteStart, Live, Exists
<1>2. write' = [write EXCEPT ![r] = w]
  BY DEF WriteStart
<1>3. w \in Writer /\ w.pc = "reserve" /\ w.file = f /\ w.seen = file[f]
  BY <1>1, VersionsAssumption DEF Writer, WriteSteps
<1> HIDE DEF w
<1>4. write' \in [Writers -> Writer] /\ write'[r] = w /\ \A q \in Writers \ {r} : write'[q] = write[q]
  BY <1>1, <1>2, <1>3, Stepped
<1>5. Shapes'
  BY <1>1, <1>4 DEF Shapes, Others
<1>6. ProgressOf(r, write'[r])
  BY <1>1, <1>3, <1>4 DEF ProgressOf, Busy
<1> QED BY <1>1, <1>3, <1>4, <1>5, <1>6, AsideKeeps DEF Others

\* The ways a write ends, or is tried again, without touching the rows
LEMMA EndKeeps ==
    ASSUME KeptInv, Others, NEW r \in Writers, file' = file,
           write[r].pc \in Busy,
           \/ WriteEnd(r, "failed")
           \/ WriteMove(r, "leaked")
           \/ WriteEnd(r, "saved") /\ r \in Overwrites \ (Uploads \cup Saves)
    PROVE  KeptInv'
<1>1. Shapes /\ ProgressOf(r, write[r])
  BY DEF KeptInv, Progress
<1>2. /\ write' \in [Writers -> Writer] /\ \A q \in Writers \ {r} : write'[q] = write[q]
      /\ write'[r].pc \in {"failed", "leaked", "saved"} /\ write'[r].file = write[r].file
      /\ write'[r].seen = IF write'[r].pc = "leaked" THEN write[r].seen ELSE None
      /\ write'[r].pc = "saved" => r \notin Uploads \cup Saves
  BY <1>1, Moved DEF WriteSteps
<1>3. Shapes'
  BY <1>1, <1>2 DEF Shapes, Others
<1>4. ProgressOf(r, write'[r])
  BY <1>1, <1>2 DEF ProgressOf, Busy
<1> QED BY <1>2, <1>3, <1>4, AsideKeeps DEF Others, Busy

\* A save reads the row again, or gives up.
LEMMA FreshKeeps ==
    ASSUME KeptInv, Others, NEW r \in Writers, SaveFresh(r) PROVE KeptInv'
<1>1. CASE GiveBack(r)
  BY <1>1, EndKeeps DEF SaveFresh, GiveBack, Busy
<1>2. CASE /\ Live(write[r].file) /\ file' = file /\ write[r].pc = "fresh"
           /\ write' = [write EXCEPT ![r].pc = "commit", ![r].seen = Row(r)]
  <2>1. Shapes /\ ProgressOf(r, write[r]) /\ write[r] \in Writer /\ write[r].file \in Files
    BY <1>2 DEF KeptInv, Progress, Shapes, ProgressOf
  <2>2. Row(r) \in FileRow /\ Row(r) # None
    BY <1>2, <2>1, NoneAssumption DEF Shapes, Live, Exists, Row
  <2> DEFINE w == [write[r] EXCEPT !.pc = "commit", !.seen = Row(r)]
  <2>3. w \in Writer /\ w.pc = "commit" /\ w.file = write[r].file /\ w.seen = Row(r)
    BY <2>1, <2>2 DEF Writer, WriteSteps
  <2>4. write' = [write EXCEPT ![r] = w]
    BY <1>2, <2>1 DEF Shapes
  <2> HIDE DEF w
  <2>5. write' \in [Writers -> Writer] /\ write'[r] = w /\ \A q \in Writers \ {r} : write'[q] = write[q]
    BY <2>1, <2>3, <2>4, Stepped
  <2>6. Shapes'
    BY <1>2, <2>1, <2>5 DEF Shapes, Others
  <2>7. ProgressOf(r, write'[r])
    BY <1>2, <2>1, <2>2, <2>3, <2>5 DEF ProgressOf, Busy
  <2>8. Row(r) = file[write[r].file]
    BY DEF Row
  <2> QED BY <1>2, <2>1, <2>3, <2>5, <2>6, <2>7, <2>8, AsideKeeps DEF Others
<1> QED BY <1>1, <1>2 DEF SaveFresh

\* A save whose number was taken goes back to reading.
LEMMA RetryKeeps ==
    ASSUME KeptInv, Others, NEW r \in Writers, file' = file, write[r].pc = "commit",
           write' = [write EXCEPT ![r].pc = "fresh", ![r].tries = @ + 1]
    PROVE  KeptInv'
<1>1. Shapes /\ ProgressOf(r, write[r]) /\ write[r] \in Writer
  BY DEF KeptInv, Progress, Shapes
<1> DEFINE w == [write[r] EXCEPT !.pc = "fresh", !.tries = @ + 1]
<1>2. w \in Writer /\ w.pc = "fresh" /\ w.file = write[r].file /\ w.seen = write[r].seen
  <2>1. write[r].tries \in Nat
    BY <1>1 DEF Writer
  <2>2. write[r].tries + 1 \in Nat
    BY <2>1
  <2> QED BY <1>1, <2>2 DEF Writer, WriteSteps
<1>3. write' = [write EXCEPT ![r] = w]
  BY <1>1 DEF Shapes
<1> HIDE DEF w
<1>4. write' \in [Writers -> Writer] /\ write'[r] = w /\ \A q \in Writers \ {r} : write'[q] = write[q]
  BY <1>1, <1>2, <1>3, Stepped
<1>5. Shapes'
  BY <1>1, <1>4 DEF Shapes, Others
<1>6. ProgressOf(r, write'[r])
  BY <1>1, <1>2, <1>4 DEF ProgressOf, Busy
<1> QED BY <1>2, <1>4, <1>5, <1>6, AsideKeeps DEF Others

-----------------------------------------------------------------------------
\* Steps of one writer that change the row it names
LEMMA RowKeeps ==
    ASSUME KeptInv, Shapes', Others, NEW r \in Writers, NEW f \in Files, f = write[r].file,
           NEW row \in FileRow, file[f] # None, file' = [file EXCEPT ![f] = row],
           write[r].pc \notin {"unsent", "saved"}, write'[r].pc # "unsent", write'[r].file = f,
           \A q \in Writers \ {r} : write'[q] = write[q],
           ProgressOf(r, write'[r]),
           write'[r].seen # None => write'[r].seen = write[r].seen,
           \/ row.current = file[f].current
           \/ row.current <= Limit + 1 /\ write'[r].pc = "saved" /\ r \in Uploads \cup Saves,
           \/ \A v \in Numbers : file[f].versions[v] # None => row.versions[v] = file[f].versions[v]
           \/ \A q \in Uploads \cup Saves : write'[q].pc = "unsent",
           r \in Uploads \cup Saves /\ write'[r].pc \in {"point", "saved"} => Holds(row, r)
    PROVE  KeptInv'
<1>1. Shapes /\ file'[f] = row /\ \A g \in Files \ {f} : file'[g] = file[g]
  BY DEF KeptInv, Shapes
<1>2. Done' = IF write'[r].pc = "saved" /\ r \in Uploads \cup Saves THEN Done \cup {r} ELSE Done
  BY DEF Done, Writers
<1>3. Limit' >= Limit /\ Limit' \in Nat /\ Limit \in Nat /\ (Done' # Done => Limit' = Limit + 1)
  <2>1. Done' = Done \/ \E q \in (Uploads \cup Saves) \ Done : Done' = Done \cup {q}
    BY <1>2 DEF Done
  <2>2. Limit \in Nat
    BY <1>1, LimitFacts
  <2> QED BY <1>1, <2>1, <2>2, NextLimit
<1>4. Progress'
  BY DEF KeptInv, Progress
<1>5. Alone'
  BY DEF KeptInv, Alone, Plain, Writers
<1>6. FreshOnce'
  BY <1>1 DEF KeptInv, FreshOnce, Others
<1>7. Counted'
  <2>1. write'[r].pc = "saved" /\ r \in Uploads \cup Saves => Limit' = Limit + 1
    <3>1. write'[r].pc = "saved" /\ r \in Uploads \cup Saves => r \in Done' /\ r \notin Done
      BY <1>2 DEF Done
    <3> QED BY <1>3, <3>1
  <2>2. \A g \in Files : file[g] # None => file[g].current <= Limit /\ file[g].current \in Int
    BY <1>1, NumberFacts DEF KeptInv, Counted, Shapes, FileRow, Numbers
  <2>3. \A q \in Writers : write[q].seen # None => write[q].seen.current <= Limit /\ write[q].seen.current \in Int
    BY <1>1, NumberFacts DEF KeptInv, Counted, Shapes, Writer, FileRow, Numbers
  <2>4. row.current \in Int
    BY DEF FileRow, Numbers
  <2>5. row.current <= Limit'
    BY <1>3, <2>1, <2>2, <2>4
  <2>6. \A g \in Files : file'[g] # None => file'[g].current <= Limit'
    BY <1>1, <1>3, <2>2, <2>5
  <2>7. \A q \in Writers : write'[q].seen # None => write'[q].seen.current <= Limit'
    BY <1>3, <2>3
  <2> QED BY <2>6, <2>7 DEF Counted
<1>8. Placed'
  <2> SUFFICES ASSUME NEW q \in Uploads \cup Saves, write'[q].pc \in {"point", "saved"}
               PROVE  Holds(file'[write'[q].file], q)
    BY DEF Placed
  <2>1. CASE q = r
    BY <1>1, <2>1
  <2>2. CASE q # r
    <3>1. /\ write'[q] = write[q] /\ write[q].file \in Files /\ Holds(file[write[q].file], q)
          /\ \A v \in Numbers : file[f].versions[v] # None => row.versions[v] = file[f].versions[v]
      BY <2>2 DEF KeptInv, Placed, Progress, ProgressOf, Writers
    <3>2. CASE write[q].file = f
      <4>1. Holds(file[f], q) /\ write'[q].file = f /\ file'[f] = row
        BY <1>1, <3>1, <3>2
      <4>2. PICK v \in Numbers : file[f].versions[v] # None /\ file[f].versions[v].key = q
        BY <4>1 DEF Holds
      <4>3. row.versions[v] # None /\ row.versions[v].key = q
        BY <3>1, <4>2
      <4>4. Holds(row, q)
        BY <4>3 DEF Holds
      <4> QED BY <4>1, <4>4
    <3> QED BY <1>1, <3>1, <3>2
  <2> QED BY <2>1, <2>2
<1> QED BY <1>4, <1>5, <1>6, <1>7, <1>8 DEF KeptInv

\* A writer whose row is there has read one, and the number it wants exists.
LEMMA RowFacts ==
    ASSUME KeptInv, NEW r \in Writers, write[r].pc \in Busy, Row(r) # None
    PROVE  /\ write[r].file \in Files /\ Row(r) = file[write[r].file] /\ Row(r) \in FileRow
           /\ write[r].seen \in FileRow /\ Stored(r) \in Content /\ Stored(r).key = r /\ Stored(r) # None
           /\ r \in Uploads \cup Saves => NextNumber(r) \in Numbers /\ NextNumber(r) <= Limit + 1
           /\ ProgressOf(r, write[r]) /\ Shapes
<1>1. Shapes /\ ProgressOf(r, write[r]) /\ write[r] \in Writer
  BY DEF KeptInv, Progress, Shapes
<1>2. write[r].file \in Files /\ write[r].seen # None /\ write[r].seen \in FileRow
  BY <1>1 DEF ProgressOf, Busy, Writer
<1>3. Row(r) = file[write[r].file] /\ Row(r) \in FileRow
  BY <1>1, <1>2 DEF Row, Shapes
<1>4. Stored(r) \in Content /\ Stored(r).key = r /\ Stored(r) # None
  BY <1>1, NoneAssumption DEF Stored, Content, Writer, Keys
<1>5. r \in Uploads \cup Saves => NextNumber(r) \in Numbers /\ NextNumber(r) <= Limit + 1
  <2> SUFFICES ASSUME r \in Uploads \cup Saves PROVE NextNumber(r) \in Numbers /\ NextNumber(r) <= Limit + 1
    OBVIOUS
  <2>1. Limit \in Nat /\ Limit + 1 \in Numbers /\ \A n \in Nat : n <= Limit /\ n >= 1 => n \in Numbers
    BY <1>1, LimitFacts DEF Busy
  <2>2. write[r].seen.current \in Numbers /\ write[r].seen.current <= Limit
    BY <1>2 DEF KeptInv, Counted, FileRow
  <2>3. write[r].seen.current \in Nat /\ write[r].seen.current >= 1
    BY <2>2 DEF Numbers
  <2>4. NextNumber(r) = write[r].seen.current + 1
    BY DEF NextNumber, Seen
  <2>5. CASE write[r].seen.current = Limit
    BY <2>1, <2>4, <2>5
  <2>6. CASE write[r].seen.current < Limit
    <3>1. NextNumber(r) \in Nat /\ NextNumber(r) >= 1 /\ NextNumber(r) <= Limit /\ NextNumber(r) <= Limit + 1
      BY <2>1, <2>3, <2>4, <2>6
    <3> QED BY <2>1, <3>1
  <2> QED BY <2>1, <2>2, <2>3, <2>5, <2>6
<1> QED BY <1>1, <1>2, <1>3, <1>4, <1>5

\* What a version adds to a row, and what the pointer changes
LEMMA Rows ==
    ASSUME NEW row \in FileRow, NEW r \in Writers, NEW v \in Numbers, Stored(r) \in Content,
           write[r].size \in Int
    PROVE  /\ WithVersion(row, r, v) \in FileRow /\ WithVersion(row, r, v).current = row.current
           /\ WithVersion(row, r, v).key = row.key /\ WithVersion(row, r, v).size = row.size
           /\ WithVersion(row, r, v).versions[v] = Stored(r)
           /\ \A u \in Numbers \ {v} : WithVersion(row, r, v).versions[u] = row.versions[u]
           /\ Pointed(row, r, v) \in FileRow /\ Pointed(row, r, v).current = v
           /\ Pointed(row, r, v).key = r /\ Pointed(row, r, v).size = write[r].size
           /\ Pointed(row, r, v).versions = row.versions
<1>1. r \in Keys
  BY DEF Keys
<1>2. row.versions \in [Numbers -> Content \cup {None}]
  BY DEF FileRow
<1>3. [row.versions EXCEPT ![v] = Stored(r)] \in [Numbers -> Content \cup {None}]
  BY <1>2
<1>4. WithVersion(row, r, v) = [row EXCEPT !.versions = [row.versions EXCEPT ![v] = Stored(r)]]
  BY DEF WithVersion, FileRow
<1> QED BY <1>1, <1>2, <1>3, <1>4 DEF Pointed, FileRow

\* An upload inserts its version, or gives the bytes back.
LEMMA CreateKeeps ==
    ASSUME KeptInv, Others, NEW r \in Writers, UploadCreate(r) PROVE KeptInv'
<1>1. CASE GiveBack(r) /\ file' = file
  BY <1>1, EndKeeps DEF UploadCreate, GiveBack, Busy
<1>2. CASE /\ Free(r) /\ Put(r, WithVersion(Row(r), r, NextNumber(r))) /\ WriteMove(r, "point")
           /\ write[r].pc = "create"
  <2> DEFINE f == write[r].file
             row == WithVersion(Row(r), r, NextNumber(r))
  <2>1. /\ f \in Files /\ Row(r) = file[f] /\ Row(r) \in FileRow /\ Row(r) # None /\ Stored(r) \in Content
        /\ Stored(r) # None /\ Stored(r).key = r /\ r \in Uploads /\ NextNumber(r) \in Numbers
        /\ Shapes /\ ProgressOf(r, write[r]) /\ write[r].size \in Int
    BY <1>2, RowFacts DEF Free, Busy, ProgressOf, Shapes, Writer
  <2>2. /\ row \in FileRow /\ row.current = file[f].current /\ row.versions[NextNumber(r)] = Stored(r)
        /\ \A u \in Numbers \ {NextNumber(r)} : row.versions[u] = file[f].versions[u]
    BY <2>1, Rows
  <2>3. file' = [file EXCEPT ![f] = row] /\ Row(r).versions[NextNumber(r)] = None
    BY <1>2 DEF Put, Free
  <2> HIDE DEF f, row
  <2>4. /\ write' \in [Writers -> Writer] /\ \A q \in Writers \ {r} : write'[q] = write[q]
        /\ write'[r].pc = "point" /\ write'[r].file = write[r].file /\ write'[r].seen = write[r].seen
    BY <1>2, <2>1, Moved DEF WriteSteps
  <2>5. Shapes'
    BY <2>1, <2>2, <2>3, <2>4 DEF Shapes, Others
  <2>6. ProgressOf(r, write'[r])
    BY <1>2, <2>1, <2>4 DEF ProgressOf, Busy
  <2>7. \A v \in Numbers : file[f].versions[v] # None => row.versions[v] = file[f].versions[v]
    BY <2>1, <2>2, <2>3
  <2>8. Holds(row, r)
    BY <2>1, <2>2 DEF Holds
  <2>9. f = write[r].file /\ write'[r].file = f /\ file[f] # None
    BY <2>1, <2>4 DEF f
  <2>10. write[r].pc \notin {"unsent", "saved"}
    BY <1>2
  <2> QED BY <2>1, <2>2, <2>3, <2>4, <2>5, <2>6, <2>7, <2>8, <2>9, <2>10, RowKeeps
<1> QED BY <1>1, <1>2 DEF UploadCreate

\* An upload points the file at its version.
LEMMA PointKeeps ==
    ASSUME KeptInv, Others, NEW r \in Writers, UploadPoint(r) PROVE KeptInv'
<1>1. CASE GiveBack(r) /\ file' = file
  BY <1>1, EndKeeps DEF UploadPoint, GiveBack, Busy
<1>2. CASE /\ Row(r) # None /\ Put(r, Pointed(Row(r), r, NextNumber(r))) /\ WriteEnd(r, "saved")
           /\ write[r].pc = "point"
  <2> DEFINE f == write[r].file
             row == Pointed(Row(r), r, NextNumber(r))
  <2>1. /\ f \in Files /\ Row(r) = file[f] /\ Row(r) \in FileRow /\ Stored(r) \in Content
        /\ r \in Uploads /\ NextNumber(r) \in Numbers /\ NextNumber(r) <= Limit + 1
        /\ Shapes /\ ProgressOf(r, write[r]) /\ write[r].size \in Int
    BY <1>2, RowFacts DEF Busy, ProgressOf, Shapes, Writer
  <2>2. row \in FileRow /\ row.current <= Limit + 1 /\ row.versions = file[f].versions
    BY <2>1, Rows
  <2>3. file' = [file EXCEPT ![f] = row]
    BY <1>2 DEF Put
  <2> HIDE DEF f, row
  <2>4. /\ write' \in [Writers -> Writer] /\ \A q \in Writers \ {r} : write'[q] = write[q]
        /\ write'[r].pc = "saved" /\ write'[r].file = write[r].file /\ write'[r].seen = None
    BY <1>2, <2>1, Moved DEF WriteSteps
  <2>5. Shapes'
    BY <2>1, <2>2, <2>3, <2>4 DEF Shapes, Others
  <2>6. ProgressOf(r, write'[r])
    BY <1>2, <2>1, <2>4 DEF ProgressOf, Busy
  <2>7. f = write[r].file /\ write'[r].file = f /\ file[f] # None
    BY <1>2, <2>1, <2>4 DEF f
  <2>8. Holds(row, r)
    <3>1. Holds(file[f], r)
      BY <1>2, <2>1, <2>7 DEF KeptInv, Placed
    <3> QED BY <2>2, <2>7, <3>1 DEF Holds
  <2>9. write[r].pc \notin {"unsent", "saved"}
    BY <1>2
  <2> QED BY <2>1, <2>2, <2>3, <2>4, <2>5, <2>6, <2>7, <2>8, <2>9, RowKeeps
<1> QED BY <1>1, <1>2 DEF UploadPoint

\* A save commits its version and the pointer, tries again, or gives up.
LEMMA CommitKeeps ==
    ASSUME KeptInv, Others, NEW r \in Writers, SaveCommit(r) PROVE KeptInv'
<1>1. CASE GiveBack(r) /\ file' = file
  BY <1>1, EndKeeps DEF SaveCommit, GiveBack, Busy
<1>2. CASE write' = [write EXCEPT ![r].pc = "fresh", ![r].tries = @ + 1] /\ file' = file
  BY <1>2, RetryKeeps DEF SaveCommit
<1>3. CASE /\ Free(r)
           /\ Put(r, Pointed(WithVersion(Row(r), r, NextNumber(r)), r, NextNumber(r)))
           /\ WriteEnd(r, "saved") /\ write[r].pc = "commit"
  <2> DEFINE f == write[r].file
             mid == WithVersion(Row(r), r, NextNumber(r))
             row == Pointed(mid, r, NextNumber(r))
  <2>1. /\ f \in Files /\ Row(r) = file[f] /\ Row(r) \in FileRow /\ Row(r) # None /\ Stored(r) \in Content
        /\ Stored(r) # None /\ Stored(r).key = r /\ r \in Saves /\ NextNumber(r) \in Numbers
        /\ NextNumber(r) <= Limit + 1 /\ Shapes /\ ProgressOf(r, write[r]) /\ write[r].size \in Int
    BY <1>3, RowFacts DEF Free, Busy, ProgressOf, Shapes, Writer
  <2>2. /\ mid \in FileRow /\ mid.versions[NextNumber(r)] = Stored(r)
        /\ \A u \in Numbers \ {NextNumber(r)} : mid.versions[u] = file[f].versions[u]
    BY <2>1, Rows
  <2>3. file' = [file EXCEPT ![f] = row] /\ Row(r).versions[NextNumber(r)] = None
    BY <1>3 DEF Put, Free
  <2> HIDE DEF f, mid
  <2>4. row \in FileRow /\ row.current <= Limit + 1 /\ row.versions = mid.versions
    BY <2>1, <2>2, Rows
  <2> HIDE DEF row
  <2>5. /\ write' \in [Writers -> Writer] /\ \A q \in Writers \ {r} : write'[q] = write[q]
        /\ write'[r].pc = "saved" /\ write'[r].file = write[r].file /\ write'[r].seen = None
    BY <1>3, <2>1, Moved DEF WriteSteps
  <2>6. Shapes'
    BY <2>1, <2>3, <2>4, <2>5 DEF Shapes, Others
  <2>7. ProgressOf(r, write'[r])
    BY <1>3, <2>1, <2>5 DEF ProgressOf, Busy
  <2>8. \A v \in Numbers : file[f].versions[v] # None => row.versions[v] = file[f].versions[v]
    BY <2>1, <2>2, <2>3, <2>4
  <2>9. Holds(row, r)
    BY <2>1, <2>2, <2>4 DEF Holds
  <2>10. f = write[r].file /\ write'[r].file = f /\ file[f] # None
    BY <2>1, <2>5 DEF f
  <2>11. write[r].pc \notin {"unsent", "saved"}
    BY <1>3
  <2> QED BY <2>1, <2>3, <2>4, <2>5, <2>6, <2>7, <2>8, <2>9, <2>10, <2>11, RowKeeps
<1> QED BY <1>1, <1>2, <1>3 DEF SaveCommit

\* An overwrite replaces the history: no writer of versions is about.
LEMMA CollapseKeeps ==
    ASSUME KeptInv, Others, NEW r \in Writers, OverwriteCollapse(r) PROVE KeptInv'
<1>1. CASE WriteMove(r, "leaked") /\ file' = file
  BY <1>1, EndKeeps DEF OverwriteCollapse, Busy
<1>2. CASE /\ Row(r) # None /\ WriteMove(r, "settle") /\ write[r].pc = "collapse"
           /\ Put(r, [Row(r) EXCEPT !.key = r, !.size = write[r].size, !.versions = Kept(r)])
  <2> DEFINE f == write[r].file
             row == [Row(r) EXCEPT !.key = r, !.size = write[r].size, !.versions = Kept(r)]
  <2>1. /\ f \in Files /\ Row(r) = file[f] /\ Row(r) \in FileRow /\ Stored(r) \in Content
        /\ r \in Overwrites \ (Uploads \cup Saves)
        /\ Shapes /\ ProgressOf(r, write[r]) /\ write[r].size \in Int
    BY <1>2, RowFacts DEF Busy, ProgressOf, Shapes, Writer
  <2>2. row \in FileRow /\ row.current = file[f].current
    <3>1. Kept(r) \in [Numbers -> Content \cup {None}]
      BY <2>1 DEF Kept
    <3> HIDE DEF Kept
    <3>2. r \in Keys
      BY DEF Keys
    <3> QED BY <2>1, <3>1, <3>2 DEF FileRow
  <2>3. file' = [file EXCEPT ![f] = row]
    BY <1>2 DEF Put
  <2> HIDE DEF f, row
  <2>4. /\ write' \in [Writers -> Writer] /\ \A q \in Writers \ {r} : write'[q] = write[q]
        /\ write'[r].pc = "settle" /\ write'[r].file = write[r].file /\ write'[r].seen = write[r].seen
    BY <1>2, <2>1, Moved DEF WriteSteps
  <2>5. Shapes'
    BY <2>1, <2>2, <2>3, <2>4 DEF Shapes, Others
  <2>6. ProgressOf(r, write'[r])
    BY <1>2, <2>1, <2>4 DEF ProgressOf, Busy
  <2>7. f = write[r].file /\ write'[r].file = f /\ file[f] # None
    BY <1>2, <2>1, <2>4 DEF f
  <2>8. \A q \in Uploads \cup Saves : write'[q].pc = "unsent"
    <3>1. ~Plain
      BY <1>2, <2>1 DEF Plain
    <3>2. \A q \in Uploads \cup Saves : write[q].pc = "unsent" /\ q # r /\ q \in Writers
      BY <2>1, <3>1 DEF KeptInv, Alone, Writers
    <3> QED BY <2>4, <3>2
  <2>9. write[r].pc \notin {"unsent", "saved"}
    BY <1>2
  <2> QED BY <2>1, <2>2, <2>3, <2>4, <2>5, <2>6, <2>7, <2>8, <2>9, RowKeeps
<1> QED BY <1>1, <1>2 DEF OverwriteCollapse

\* Every step of a writer
LEMMA WritersKeep ==
    ASSUME KeptInv, Others, NEW r \in Writers, WriterStep(r) PROVE KeptInv'
<1>1. CASE \E f \in Files, n \in Sizes : WriteStart(r, f, n)
  BY <1>1, StartKeeps
<1>2. CASE OverwriteSettle(r)
  <2>1. r \in Overwrites \ (Uploads \cup Saves)
    BY <1>2 DEF KeptInv, Progress, ProgressOf, OverwriteSettle
  <2> QED BY <1>2, <2>1, EndKeeps DEF OverwriteSettle, Busy
<1> QED BY <1>1, <1>2, ReserveKeeps, FreshKeeps, CreateKeeps, PointKeeps, CommitKeeps, CollapseKeeps DEF WriterStep

-----------------------------------------------------------------------------
\* Rows that go: the purges
LEMMA PurgesKeep ==
    ASSUME KeptInv, Others, NEW p \in Purges, PurgeStep(p) PROVE KeptInv'
<1>1. write' = write /\ (file' = file \/ \E fs : file' = Deleted(fs))
  BY DEF PurgeStep, PurgeRead, PurgeRefund, PurgeStrip, HardDrop, EmptyDrop, SweepDrop
<1>2. Shapes
  BY DEF KeptInv
<1>3. /\ file' \in [Files -> FileRow \cup {None}]
      /\ \A f \in Files : file'[f] = None \/ (file[f] # None /\ file'[f] = file[f])
  BY <1>1, <1>2 DEF Deleted, Shapes
<1>4. Shapes'
  BY <1>1, <1>2, <1>3 DEF Shapes, Others
<1>5. Fades
  BY <1>3 DEF Fades
<1> QED BY <1>1, <1>4, <1>5, FadesKeep DEF Others

\* Rows that change their state: the trash, of files and of the folder
LEMMA TrashKeeps ==
    ASSUME KeptInv, Others,
           (\E f \in Files : Trash(f) \/ Restore(f) \/ Expire(f)) \/ FolderTrash
    PROVE  KeptInv'
<1>1. Shapes
  BY DEF KeptInv
<1>2. \A row \in FileRow, st \in {"live", "trashed", "expired"} :
         /\ [row EXCEPT !.state = st] \in FileRow /\ [row EXCEPT !.state = st].current = row.current
         /\ [row EXCEPT !.state = st].versions = row.versions
  BY DEF FileRow
<1>3. /\ write' = write
      /\ \/ \E f \in Files, st \in {"live", "trashed", "expired"} :
               file[f] # None /\ file' = [file EXCEPT ![f].state = st]
         \/ file' = [f \in Files |-> IF Within(f) /\ Live(f) THEN [file[f] EXCEPT !.state = "trashed"] ELSE file[f]]
  BY DEF Trash, Restore, Expire, SetState, FolderTrash, Live, Trashed, Exists
<1>4. \A f \in Files : \/ file'[f] = file[f]
                       \/ /\ file[f] # None
                          /\ \E st \in {"live", "trashed", "expired"} : file'[f] = [file[f] EXCEPT !.state = st]
  BY <1>1, <1>3 DEF Shapes, Live, Exists
<1>5. DOMAIN file' = Files /\ file' = [f \in Files |-> file'[f]]
  BY <1>1, <1>3 DEF Shapes
<1>6. \A f \in Files : file[f] # None => file[f] \in FileRow
  BY <1>1 DEF Shapes
<1>7. \A f \in Files :
         \/ file'[f] = None /\ file[f] = None
         \/ /\ file'[f] \in FileRow /\ file'[f] # None /\ file[f] # None
            /\ file'[f].current = file[f].current /\ file'[f].versions = file[f].versions
  <2> SUFFICES ASSUME NEW f \in Files
               PROVE  \/ file'[f] = None /\ file[f] = None
                      \/ /\ file'[f] \in FileRow /\ file'[f] # None /\ file[f] # None
                         /\ file'[f].current = file[f].current /\ file'[f].versions = file[f].versions
    OBVIOUS
  <2>1. CASE file'[f] = file[f]
    BY <1>6, <2>1
  <2>2. CASE file[f] # None /\ \E st \in {"live", "trashed", "expired"} : file'[f] = [file[f] EXCEPT !.state = st]
    <3>1. PICK st \in {"live", "trashed", "expired"} : file'[f] = [file[f] EXCEPT !.state = st]
      BY <2>2
    <3>2. file[f] \in FileRow
      BY <1>6, <2>2
    <3>3. /\ file'[f] \in FileRow /\ file'[f].current = file[f].current
          /\ file'[f].versions = file[f].versions
      BY ONLY <1>2, <3>1, <3>2
    <3> QED BY <2>2, <3>3, NoneAssumption
  <2> QED BY <1>4, <2>1, <2>2
<1>8. Shapes'
  BY <1>1, <1>3, <1>5, <1>7 DEF Shapes, Others
<1>9. Fades
  BY <1>7 DEF Fades
<1> QED BY <1>3, <1>8, <1>9, FadesKeep DEF Others

-----------------------------------------------------------------------------
\* Steps that leave rows and writers alone
LEMMA StillKeeps ==
    ASSUME KeptInv, file' = file, write' = write,
           intake' \in [Fresh -> [pc : IntakeSteps, at : {"folder", "top"}, size : Int, hops : Nat]],
           \A f \in Fresh : intake'[f].pc # "made" => intake[f].pc # "made",
           remux' \in [Remuxes -> [pc : {"unsent", "idle", "read", "held", "update", "charge"},
                                   row : Videos \cup {None}, seen : FileRow \cup {None}, poster : BOOLEAN]],
           \A q \in Remuxes : remux'[q].pc \in {"held", "update"} => remux'[q].seen # None
    PROVE  KeptInv'
<1>1. Shapes' /\ Fades
  BY DEF KeptInv, Shapes, Fades
<1> QED BY <1>1, FadesKeep

\* What the requests that make files do before and after the row is there
LEMMA IntakesKeep ==
    ASSUME KeptInv, remux' = remux, NEW f \in Files, IntakeStep(f), ~Creates(f) PROVE KeptInv'
<1>1. Shapes
  BY DEF KeptInv
<1>2. file' = file /\ write' = write /\ f \in Fresh /\ intake[f].pc # "made"
  BY DEF IntakeStep, UploadArrives, DavArrives, UrlArrives, UrlHops, UrlFetched, ImportArrives, Downloaded,
         NameFree, VttArrives, UploadWrites, UrlWrites, ImportWrites, DavWrites, VttWrites, Writes, Reserves,
         Stores, Undoes, Undone, Refuse, GoesTo, IntakeAt, vars
<1>3. \/ \E step \in IntakeSteps : intake' = [intake EXCEPT ![f].pc = step]
      \/ \E step \in IntakeSteps, at \in {"folder", "top"}, n \in Int :
            intake' = [intake EXCEPT ![f].pc = step, ![f].at = at, ![f].size = n]
      \/ intake' = [intake EXCEPT ![f].hops = @ + 1]
  <2>1. intake[f].at \in {"folder", "top"}
    BY <1>1, <1>2 DEF Shapes
  <2>2. \A n \in Sizes : n \in Int
    BY VersionsAssumption
  <2>3. VttSize \in Int /\ 0 \in Int
    BY <2>2, NewFilesAssumption
  <2> QED
    BY <2>1, <2>2, <2>3
       DEF IntakeStep, UploadArrives, DavArrives, UrlArrives, UrlHops, UrlFetched, ImportArrives, Downloaded,
           NameFree, VttArrives, UploadWrites, UrlWrites, ImportWrites, DavWrites, VttWrites, Writes, Reserves,
           Stores, Undoes, Undone, Refuse, GoesTo, IntakeMove, IntakeSteps
<1> DEFINE I == [pc : IntakeSteps, at : {"folder", "top"}, size : Int, hops : Nat]
<1>4. intake \in [Fresh -> I]
  BY <1>1 DEF Shapes
<1>5. \A i \in I : /\ \A step \in IntakeSteps : [i EXCEPT !.pc = step] \in I
                   /\ \A step \in IntakeSteps, at \in {"folder", "top"}, n \in Int :
                         [i EXCEPT !.pc = step, !.at = at, !.size = n] \in I
                   /\ [i EXCEPT !.hops = @ + 1] \in I
  <2> SUFFICES ASSUME NEW i \in I
               PROVE  /\ \A step \in IntakeSteps : [i EXCEPT !.pc = step] \in I
                      /\ \A step \in IntakeSteps, at \in {"folder", "top"}, n \in Int :
                            [i EXCEPT !.pc = step, !.at = at, !.size = n] \in I
                      /\ [i EXCEPT !.hops = @ + 1] \in I
    OBVIOUS
  <2>1. \A step \in IntakeSteps : [i EXCEPT !.pc = step] \in I
    OBVIOUS
  <2>2. \A step \in IntakeSteps, at \in {"folder", "top"}, n \in Int :
           [i EXCEPT !.pc = step, !.at = at, !.size = n] \in I
    OBVIOUS
  <2>3. i.hops \in Nat
    OBVIOUS
  <2>4. i.hops + 1 \in Nat
    BY <2>3
  <2>5. [i EXCEPT !.hops = i.hops + 1] \in I
    BY <2>4
  <2> QED BY <2>1, <2>2, <2>5
<1> HIDE DEF I
<1>6. \E i \in I : intake' = [intake EXCEPT ![f] = i]
  <2>1. intake[f] \in I
    BY <1>2, <1>4
  <2>2. CASE \E step \in IntakeSteps : intake' = [intake EXCEPT ![f].pc = step]
    <3>1. PICK step \in IntakeSteps : intake' = [intake EXCEPT ![f].pc = step]
      BY <2>2
    <3>2. intake' = [intake EXCEPT ![f] = [intake[f] EXCEPT !.pc = step]]
      BY <1>2, <1>4, <3>1
    <3> QED BY <1>5, <2>1, <3>2
  <2>3. CASE \E step \in IntakeSteps, at \in {"folder", "top"}, n \in Int :
                intake' = [intake EXCEPT ![f].pc = step, ![f].at = at, ![f].size = n]
    <3>1. PICK step \in IntakeSteps, at \in {"folder", "top"}, n \in Int :
             intake' = [intake EXCEPT ![f].pc = step, ![f].at = at, ![f].size = n]
      BY <2>3
    <3>2. intake' = [intake EXCEPT ![f] = [intake[f] EXCEPT !.pc = step, !.at = at, !.size = n]]
      BY <1>2, <1>4, <3>1
    <3> QED BY <1>5, <2>1, <3>2
  <2>4. CASE intake' = [intake EXCEPT ![f].hops = @ + 1]
    <3>1. intake' = [intake EXCEPT ![f] = [intake[f] EXCEPT !.hops = @ + 1]]
      BY <1>2, <1>4, <2>4
    <3> QED BY <1>5, <2>1, <3>1
  <2> QED BY <1>3, <2>2, <2>3, <2>4
<1>7. intake' \in [Fresh -> I] /\ \A g \in Fresh : intake'[g].pc # "made" => intake[g].pc # "made"
  BY <1>2, <1>4, <1>6
<1> QED BY <1>1, <1>2, <1>7, StillKeeps DEF I, Shapes

\* A request creates the row of a fresh file.
LEMMA CreatesKeep ==
    ASSUME KeptInv, remux' = remux, NEW f \in Fresh, Creates(f) PROVE KeptInv'
<1>1. Shapes /\ f \in Files /\ intake[f].pc = "create" /\ write' = write
  BY VersionsAssumption DEF KeptInv, Creates, IntakeAt
<1>2. file[f] = None /\ \A r \in Writers : write[r].file # f
  BY <1>1 DEF KeptInv, FreshOnce
<1>3. intake[f].size \in Int /\ f \in Keys
  BY <1>1 DEF Shapes, Keys
<1>4. 1 \in Numbers /\ 1 <= Limit
  BY <1>1, NumberFacts, LimitFacts
<1>5. NewRow(f) \in FileRow /\ NewRow(f).current = 1
  <2>1. [key |-> f, size |-> intake[f].size] \in Content
    BY <1>3 DEF Content
  <2>2. [v \in Numbers |-> IF v = 1 THEN [key |-> f, size |-> intake[f].size] ELSE None] \in [Numbers -> Content \cup {None}]
    BY <2>1
  <2> QED BY <1>3, <1>4, <2>2 DEF NewRow, FileRow
<1>6. file' = [file EXCEPT ![f] = NewRow(f)] /\ intake' = [intake EXCEPT ![f].pc = "made"]
  BY DEF Creates, IntakeMove
<1> HIDE DEF NewRow
<1>7. file' \in [Files -> FileRow \cup {None}] /\ \A g \in Files \ {f} : file'[g] = file[g]
  BY <1>1, <1>5, <1>6 DEF Shapes
<1>8. /\ intake' \in [Fresh -> [pc : IntakeSteps, at : {"folder", "top"}, size : Int, hops : Nat]]
      /\ intake'[f].pc = "made" /\ \A g \in Fresh \ {f} : intake'[g] = intake[g]
  BY <1>1, <1>6 DEF Shapes, IntakeSteps
<1>9. Shapes'
  BY <1>1, <1>7, <1>8 DEF Shapes
<1>10. Done' = Done /\ Limit' = Limit
  BY <1>1 DEF Done, Limit
<1>11. Progress' /\ Alone'
  BY <1>1 DEF KeptInv, Progress, Alone, Plain
<1>12. FreshOnce'
  BY <1>1, <1>7, <1>8, VersionsAssumption DEF KeptInv, FreshOnce
<1>13. Counted'
  BY <1>1, <1>4, <1>5, <1>6, <1>7, <1>10 DEF KeptInv, Counted, Shapes
<1>14. Placed'
  BY <1>1, <1>2, <1>7 DEF KeptInv, Placed, Progress, ProgressOf, Writers
<1> QED BY <1>9, <1>11, <1>12, <1>13, <1>14 DEF KeptInv

\* What is left of FileVersions and NewFiles, all of it
LEMMA FilesKeep ==
    ASSUME KeptInv, remux' = remux, NewNext PROVE KeptInv'
<1>1. CASE OldStep
  <2>1. Others
    BY <1>1 DEF OldStep, Others
  <2> QED BY <1>1, <2>1, WritersKeep, PurgesKeep, TrashKeeps DEF OldStep
<1>2. CASE \E f \in Files : IntakeStep(f)
  <2>1. PICK f \in Files : IntakeStep(f)
    BY <1>2
  <2>2. CASE Creates(f)
    <3>1. f \in Fresh
      BY <2>2 DEF Creates, IntakeAt
    <3> QED BY <2>2, <3>1, CreatesKeep
  <2> QED BY <2>1, <2>2, IntakesKeep
<1>3. CASE \E f \in Files : RestoreUp(f)
  <2>1. Others /\ \E f \in Files : Restore(f)
    BY <1>3 DEF RestoreUp, Others
  <2> QED BY <2>1, TrashKeeps
<1>4. CASE FolderTrash
  <2>1. Others
    BY <1>4 DEF FolderTrash, Others
  <2> QED BY <1>4, <2>1, TrashKeeps
<1> QED BY <1>1, <1>2, <1>3, <1>4 DEF NewNext

-----------------------------------------------------------------------------
\* The remux
LEMMA RemuxKeeps ==
    ASSUME KeptInv, NEW q \in Remuxes, RemuxStep(q) PROVE KeptInv'
<1>1. Shapes
  BY DEF KeptInv
<1> DEFINE R == [pc : {"unsent", "idle", "read", "held", "update", "charge"}, row : Videos \cup {None}, seen : FileRow \cup {None}, poster : BOOLEAN]
<1>2. remux \in [Remuxes -> R] /\ \A p \in Remuxes : remux[p].pc \in {"held", "update"} => remux[p].seen # None
  BY <1>1 DEF Shapes
<1>3. \A p \in Remuxes : remux[p] \in R
  BY <1>2
<1>4. \A step \in {"read", "held", "update", "charge"} :
         RemuxTo(q, step) /\ (step \in {"held", "update"} => remux[q].seen # None) =>
            remux' \in [Remuxes -> R] /\ \A p \in Remuxes : remux'[p].pc \in {"held", "update"} => remux'[p].seen # None
  BY <1>2 DEF RemuxTo
<1>5. RemuxEnd(q) => remux' \in [Remuxes -> R] /\ \A p \in Remuxes : remux'[p].pc \in {"held", "update"} => remux'[p].seen # None
  BY <1>2 DEF RemuxEnd, NoRemux
<1>6. CASE \E f \in Videos : RemuxStart(q, f)
  <2>1. PICK f \in Videos : RemuxStart(q, f)
    BY <1>6
  <2>2. f \in Files /\ file[f] \in FileRow \cup {None}
    BY <1>1, MediaAssumption DEF Shapes
  <2> DEFINE poster == remux[q].pc = "idle" /\ derived["thumb"][f] = None
             started == [pc |-> "read", row |-> f, seen |-> file[f], poster |-> poster]
  <2>3. remux' = [remux EXCEPT ![q] = started] /\ UNCHANGED <<file, write, intake>>
    BY <2>1 DEF RemuxStart, newVars, vars
  <2>4. started \in R /\ started.pc = "read"
    <3>1. poster \in BOOLEAN
      OBVIOUS
    <3> HIDE DEF poster
    <3> QED BY <2>2, <3>1
  <2> HIDE DEF started
  <2>5. remux' \in [Remuxes -> R] /\ \A p \in Remuxes : remux'[p].pc \in {"held", "update"} => remux'[p].seen # None
    BY <1>2, <2>3, <2>4
  <2> HIDE DEF R
  <2> QED BY <1>1, <2>3, <2>5, StillKeeps DEF R, Shapes
<1>7. CASE RemuxFetch(q) \/ RemuxPut(q)
  <2>1. UNCHANGED <<file, write, intake>>
    BY <1>7 DEF RemuxFetch, RemuxPut, newVars, vars
  <2>2. RemuxEnd(q) \/ \E step \in {"held", "update"} : RemuxTo(q, step) /\ remux[q].seen # None
    BY <1>2, <1>7 DEF RemuxFetch, RemuxPut
  <2> HIDE DEF R
  <2>3. remux' \in [Remuxes -> R] /\ \A p \in Remuxes : remux'[p].pc \in {"held", "update"} => remux'[p].seen # None
    BY <1>4, <1>5, <2>2
  <2> QED BY <1>1, <2>1, <2>3, StillKeeps DEF R, Shapes
<1>8. CASE RemuxCharge(q)
  <2>1. UNCHANGED <<file, write, intake>> /\ RemuxEnd(q)
    BY <1>8 DEF RemuxCharge
  <2> HIDE DEF R
  <2> QED BY <1>1, <1>5, <2>1, StillKeeps DEF R, Shapes
<1>9. CASE RemuxUpdate(q)
  <2>1. UNCHANGED <<write, intake>> /\ remux[q].pc = "update"
    BY <1>9 DEF RemuxUpdate
  <2>2. CASE RemuxEnd(q) /\ file' = file
    <3> HIDE DEF R
    <3> QED BY <1>1, <1>5, <2>1, <2>2, StillKeeps DEF R, Shapes
  <2>3. CASE ~(RemuxEnd(q) /\ file' = file)
    <3> DEFINE f == remux[q].row
               v == remux[q].seen.current
               old == file[f].versions
               new == [old EXCEPT ![v] = IF @ = None THEN None ELSE [key |-> @.key, size |-> Shrunk(q)]]
               row == [file[f] EXCEPT !.size = Shrunk(q), !.versions = new]
    <3>1. Exists(f) /\ RemuxTo(q, "charge")
      BY <1>9, <2>3 DEF RemuxUpdate
    <3>2. remux[q].row \in Videos \cup {None} /\ remux[q].seen \in FileRow
      BY <1>2, <1>3, <2>1
    <3>3. Shrunk(q) \in Int /\ v \in Numbers
      BY <3>2 DEF Shrunk, FileRow
    <3>4. f \in Files => file[f] \in FileRow /\ file[f] # None
      BY <1>1, <3>1 DEF Shapes, Exists
    <3>5. file' = [file EXCEPT ![f].size = Shrunk(q),
                               ![f].versions[v] = IF @ = None THEN None ELSE [key |-> @.key, size |-> Shrunk(q)]]
      BY <1>9, <3>1 DEF RemuxUpdate
    <3>6. f \in Files => file' = [file EXCEPT ![f] = row]
      BY <1>1, <3>4, <3>5 DEF Shapes, FileRow
    <3>7. f \notin Files => file' = file
      BY <1>1, <3>5 DEF Shapes
    <3>8. f \in Files => /\ new \in [Numbers -> Content \cup {None}]
                         /\ \A u \in Numbers : old[u] # None => new[u] # None /\ new[u].key = old[u].key
      <4> SUFFICES ASSUME f \in Files
                   PROVE  /\ new \in [Numbers -> Content \cup {None}]
                          /\ \A u \in Numbers : old[u] # None => new[u] # None /\ new[u].key = old[u].key
        OBVIOUS
      <4>1. old \in [Numbers -> Content \cup {None}]
        BY <3>4 DEF FileRow
      <4>2. old[v] # None => [key |-> old[v].key, size |-> Shrunk(q)] \in Content
        BY <3>3, <4>1 DEF Content
      <4> DEFINE c == IF old[v] = None THEN None ELSE [key |-> old[v].key, size |-> Shrunk(q)]
      <4>3. c \in Content \cup {None} /\ (old[v] # None => c # None /\ c.key = old[v].key)
        BY <4>2, NoneAssumption
      <4>4. new = [old EXCEPT ![v] = c]
        BY <3>3, <4>1
      <4> HIDE DEF c, old, new
      <4> QED BY <3>3, <4>1, <4>3, <4>4
    <3> HIDE DEF new, old
    <3>9. f \in Files => row \in FileRow /\ row.current = file[f].current /\ row.versions = new
      BY <3>3, <3>4, <3>8 DEF FileRow
    <3>10. UNCHANGED <<write, intake>> /\ remux' \in [Remuxes -> R] /\ \A p \in Remuxes : remux'[p].pc \in {"held", "update"} => remux'[p].seen # None
      BY <1>4, <2>1, <3>1
    <3> HIDE DEF row, f, R
    <3>11. Shapes'
      BY <1>1, <3>6, <3>7, <3>9, <3>10 DEF R, Shapes
    <3>12. Fades
      <4>1. old = file[f].versions
        BY DEF old
      <4> QED BY <1>1, <3>4, <3>6, <3>7, <3>8, <3>9, <4>1, NoneAssumption DEF Fades, Shapes
    <3> QED BY <3>10, <3>11, <3>12, FadesKeep
  <2> QED BY <2>2, <2>3
<1> QED BY <1>6, <1>7, <1>8, <1>9 DEF RemuxStep

\* What the background work does beside the remux leaves rows and writers alone.
LEMMA WorkKeeps ==
    ASSUME KeptInv,
           \/ HlsStep \/ TextStep \/ \E f \in Videos : RenditionsGo(f)
           \/ \E f \in Videos, k \in Keys : ThumbDone(f, k) \/ ChecksumDone(f, k)
    PROVE  KeptInv'
<1>1. Shapes
  BY DEF KeptInv
<1>2. file' = file /\ write' = write /\ remux' = remux /\ (intake' = intake \/ TextSibling)
  BY DEF HlsStep, TextStep, RenditionsGo, ThumbDone, ChecksumDone, MakeDone, HlsTake, HlsRun, HlsPut, HlsFlag,
         JobFails, TextTake, TextRun, TextSibling, TextDone, Take, newVars, vars
<1>3. CASE intake' = intake
  BY <1>1, <1>2, <1>3, StillKeeps DEF Shapes
<1>4. CASE TextSibling
  <2> DEFINE I == [pc : IntakeSteps, at : {"folder", "top"}, size : Int, hops : Nat]
  <2>1. intake' = [intake EXCEPT ![Subtitles] = IF @.pc = "unsent" THEN NoIntake("idle") ELSE @]
    BY <1>4 DEF TextSibling
  <2>2. NoIntake("idle") \in I /\ NoIntake("idle").pc = "idle"
    BY DEF NoIntake, IntakeSteps
  <2>3. intake \in [Fresh -> I]
    BY <1>1 DEF Shapes
  <2> HIDE DEF I, NoIntake
  <2>4. intake' \in [Fresh -> I] /\ \A f \in Fresh : intake'[f].pc # "made" => intake[f].pc # "made"
    BY <2>1, <2>2, <2>3
  <2> QED BY <1>1, <1>2, <2>4, StillKeeps DEF I, Shapes
<1> QED BY <1>2, <1>3, <1>4

\* The invariant holds before any request came.
LEMMA KeptInit ==
    ASSUME OverwritesApart, MediaInit PROVE KeptInv
<1>1. PICK sent \in Workloads : NewInitFor(sent) /\ remux = [q \in Remuxes |-> NoRemux(Starts(q, sent))]
  BY DEF MediaInit
<1> DEFINE there == Named(sent) \ Fresh
<1>2. /\ file = [f \in Files |-> IF f \in there THEN FirstRow(f) ELSE None]
      /\ write = [r \in Writers |-> NoWrite(Starts(r, sent))]
      /\ intake = [f \in Fresh |-> NoIntake(Starts(f, sent))]
  <2>1. InitFor(sent) /\ intake = [f \in Fresh |-> NoIntake(Starts(f, sent))]
    BY <1>1 DEF NewInitFor
  <2>2. file = [f \in Files |-> IF f \in there THEN FirstRow(f) ELSE None]
    BY <2>1 DEF InitFor
  <2>3. write = [r \in Writers |-> NoWrite(Starts(r, sent))]
    BY <2>1 DEF InitFor
  <2> QED BY <2>1, <2>2, <2>3
<1>3. \A f \in Files : FirstRow(f) \in FileRow /\ FirstRow(f).current = Len(History)
  <2> SUFFICES ASSUME NEW f \in Files PROVE FirstRow(f) \in FileRow /\ FirstRow(f).current = Len(History)
    OBVIOUS
  <2>1. \A v \in Numbers : v <= Len(History) => v \in DOMAIN History /\ History[v] \in Int /\ <<f, v>> \in Keys
    BY NumberFacts DEF Keys, Numbers
  <2>2. Len(History) \in DOMAIN History /\ Len(History) \in Numbers /\ History[Len(History)] \in Int /\ <<f, Len(History)>> \in Keys
    BY NumberFacts DEF Keys
  <2>3. [v \in Numbers |-> IF v <= Len(History) THEN [key |-> <<f, v>>, size |-> History[v]] ELSE None]
            \in [Numbers -> Content \cup {None}]
    BY <2>1 DEF Content
  <2> QED BY <2>2, <2>3 DEF FirstRow, FileRow
<1> HIDE DEF FirstRow
<1>4. \A r : Starts(r, sent) \in {"idle", "unsent"}
  BY DEF Starts
<1>5. \A r \in Writers : write[r] \in Writer /\ write[r].pc = Starts(r, sent) /\ write[r].file = None /\ write[r].seen = None
  BY <1>2, <1>4 DEF NoWrite, Writer, WriteSteps
<1>6. \A f \in Fresh : /\ intake[f] \in [pc : IntakeSteps, at : {"folder", "top"}, size : Int, hops : Nat]
                       /\ intake[f].pc # "made"
  BY <1>2, <1>4 DEF NoIntake, IntakeSteps
<1>7. Shapes
  <2>1. file \in [Files -> FileRow \cup {None}]
    BY <1>2, <1>3
  <2>2. write \in [Writers -> Writer]
    BY <1>2, <1>5
  <2>3. intake \in [Fresh -> [pc : IntakeSteps, at : {"folder", "top"}, size : Int, hops : Nat]]
    BY <1>2, <1>6
  <2>4. /\ remux \in [Remuxes -> [pc : {"unsent", "idle", "read", "held", "update", "charge"},
                                  row : Videos \cup {None}, seen : FileRow \cup {None}, poster : BOOLEAN]]
        /\ \A q \in Remuxes : remux[q].pc \in {"held", "update"} => remux[q].seen # None
    BY <1>1, <1>4 DEF NoRemux
  <2> QED BY <2>1, <2>2, <2>3, <2>4 DEF Shapes
<1>8. Progress
  BY <1>4, <1>5 DEF Progress, ProgressOf, Busy
<1>9. FreshOnce
  <2>0. Fresh \subseteq Files /\ None \notin Fresh
    BY VersionsAssumption
  <2>4. \A f \in Fresh : f \notin there
    OBVIOUS
  <2> HIDE DEF there
  <2>1. \A f \in Fresh : f \in Files /\ f \notin there
    BY <2>0, <2>4
  <2>2. \A f \in Fresh : file[f] = None
    BY <1>2, <2>1
  <2> QED BY <1>5, <2>0, <2>2 DEF FreshOnce
<1>10. Alone
  BY <1>5 DEF OverwritesApart, Alone, Plain, Writers, Starts
<1>11. Counted
  <2>1. Limit >= Len(History) /\ Len(History) \in Nat
    BY <1>7, LimitFacts, NumberFacts
  <2>2. \A f \in Files : file[f] # None => file[f].current = Len(History)
    BY <1>2, <1>3
  <2> QED BY <1>5, <2>1, <2>2 DEF Counted
<1>12. Placed
  BY <1>4, <1>5 DEF Placed, Writers
<1> QED BY <1>7, <1>8, <1>9, <1>10, <1>11, <1>12 DEF KeptInv

\* Every step of the system keeps the invariant.
LEMMA KeptStep ==
    ASSUME KeptInv, [MediaNext]_mediaVars PROVE KeptInv'
<1>1. CASE NewNext /\ Follow
  BY <1>1, FilesKeep DEF Follow
<1>2. CASE UNCHANGED mediaVars
  <2>1. file' = file /\ write' = write /\ intake' = intake /\ remux' = remux
    BY <1>2 DEF mediaVars, newVars, vars, jobVars
  <2> QED BY <2>1, StillKeeps DEF KeptInv, Shapes
<1> QED BY <1>1, <1>2, RemuxKeeps, WorkKeeps DEF MediaNext

\* An edit or a version that was answered with success stays in the history of
\* its file as long as the file is there (AckedSaveKept), whatever uploads, saves,
\* purges, imports and background jobs do meanwhile: POST /files/:id/versions and
\* collab-save number, insert and point in separate statements, and retry.
THEOREM SavesAreKept ==
    ASSUME OverwritesApart PROVE MediaSpec => []AckedSaveKept
<1>1. MediaInit => KeptInv
  BY KeptInit
<1>2. KeptInv /\ [MediaNext]_mediaVars => KeptInv'
  BY KeptStep
<1>3. KeptInv => AckedSaveKept
  BY DEF KeptInv, Placed, Holds, AckedSaveKept, Row, Has
<1> QED BY <1>1, <1>2, <1>3, PTL DEF MediaSpec

-----------------------------------------------------------------------------
\* Steps of a writer before its content shows in a row
Before == {"unsent", "idle", "reserve", "store", "create", "fresh", "commit", "collapse"}

\* A content is in one place at most, and in none before its writer put it there.
InPlace(r, f, v) == file[f] # None /\ file[f].versions[v] # None /\ file[f].versions[v].key = r
Distinct ==
    \A r \in Writers, f \in Files, v \in Numbers : InPlace(r, f, v) =>
        /\ write[r].pc \notin Before
        /\ write[r].pc = "point" => f = write[r].file /\ v = NextNumber(r)

Shown(row) == row.versions[row.current] = [key |-> row.key, size |-> row.size]
Current == \A f \in Files : file[f] # None => Shown(file[f])

Points(r, f, v) == r \in Uploads /\ write[r].pc = "point" /\ write[r].file = f /\ NextNumber(r) = v
Newer ==
    \A f \in Files, v \in Numbers :
        file[f] # None /\ v > file[f].current /\ file[f].versions[v] # None => \E r \in Uploads : Points(r, f, v)

Pointing ==
    \A r \in Uploads : write[r].pc = "point" /\ Row(r) # None =>
        NextNumber(r) = Row(r).current + 1 /\ Row(r).versions[NextNumber(r)] = Stored(r)

\* What a writer read is not newer than the row; overwrites leave the number alone.
Tied ==
    \A r \in Writers : write[r].seen # None /\ Row(r) # None =>
        IF Plain THEN write[r].seen.current <= Row(r).current
        ELSE write[r].seen.current = Row(r).current

\* Without overwrites no version up to the current one is missing.
Dense ==
    Plain => \A f \in Files, v \in Numbers :
                file[f] # None /\ v <= file[f].current => file[f].versions[v] # None

NewestInv == Distinct /\ Current /\ Newer /\ Pointing /\ Tied /\ Dense

\* A remux works on the version that is current.
Arrived(f) == f \in Fresh => intake[f].pc = "made"
RemuxTied ==
    /\ \A f \in due : f \in Videos /\ Arrived(f)
    /\ \A q \in Remuxes : remux[q].pc \in {"read", "held", "update"} =>
          /\ remux[q].row \in Videos /\ Arrived(remux[q].row)
          /\ file[remux[q].row] # None =>
                remux[q].seen # None /\ remux[q].seen.current = file[remux[q].row].current

-----------------------------------------------------------------------------
\* The parts of a row have their types.
LEMMA RowNumbers ==
    ASSUME Shapes, NEW f \in Files, file[f] # None
    PROVE  /\ file[f] \in FileRow /\ file[f].current \in Numbers /\ file[f].current \in Nat
           /\ file[f].key \in Keys /\ file[f].size \in Int
           /\ file[f].versions \in [Numbers -> Content \cup {None}]
           /\ \A v \in Numbers : v \in Nat
           /\ Shown(file[f]) => /\ file[f].versions[file[f].current] # None
                                /\ file[f].versions[file[f].current].key = file[f].key
<1>1. file[f] \in FileRow
  BY DEF Shapes
<1>2. /\ file[f].current \in Numbers /\ file[f].key \in Keys /\ file[f].size \in Int
      /\ file[f].versions \in [Numbers -> Content \cup {None}]
  BY <1>1 DEF FileRow
<1>3. \A v \in Numbers : v \in Nat
  BY NumberFacts DEF Numbers
<1>4. [key |-> file[f].key, size |-> file[f].size] \in Content
  BY <1>2 DEF Content
<1>5. [key |-> file[f].key, size |-> file[f].size] # None
  BY <1>4, NoneAssumption
<1> QED BY <1>1, <1>2, <1>3, <1>5 DEF Shown

\* A content that is current was put there by somebody who is done with it.
LEMMA NotYetShown ==
    ASSUME Shapes, NewestInv, NEW r \in Writers, NEW f \in Files, file[f] # None,
           write[r].pc \in Before \/ (write[r].pc = "point" /\ r \in Uploads /\ f = write[r].file)
    PROVE  file[f].key # r
<1> SUFFICES ASSUME file[f].key = r PROVE FALSE
  OBVIOUS
<1>1. /\ file[f].current \in Numbers /\ file[f].current \in Nat /\ file[f].versions[file[f].current] # None
      /\ file[f].versions[file[f].current].key = r
  BY RowNumbers DEF NewestInv, Current
<1>2. InPlace(r, f, file[f].current)
  BY <1>1 DEF InPlace
<1>3. CASE write[r].pc \in Before
  BY <1>1, <1>2, <1>3 DEF NewestInv, Distinct
<1>4. CASE write[r].pc = "point" /\ r \in Uploads /\ f = write[r].file
  <2>1. file[f].current = NextNumber(r)
    BY <1>1, <1>2, <1>4 DEF NewestInv, Distinct
  <2>2. NextNumber(r) = file[f].current + 1
    BY <1>4 DEF NewestInv, Pointing, Row
  <2> QED BY <1>1, <2>1, <2>2
<1> QED BY <1>3, <1>4

-----------------------------------------------------------------------------
\* Steps in which rows only go or change their state
Dims ==
    \A f \in Files :
        \/ file'[f] = None
        \/ /\ file[f] # None /\ file'[f] # None /\ file'[f].key = file[f].key /\ file'[f].size = file[f].size
           /\ file'[f].current = file[f].current /\ file'[f].versions = file[f].versions

\* Such a step keeps what is said of the newest versions.
LEMMA DimsKeep ==
    ASSUME KeptInv, NewestInv, Dims, write' = write PROVE NewestInv'
<1>1. \A r \in Writers : write[r].pc \in Busy => write[r].file \in Files
  BY DEF KeptInv, Progress, ProgressOf, Busy
<1>2. \A r \in Writers : write[r].seen # None => write[r].file \in Files
  BY <1>1 DEF KeptInv, Progress, ProgressOf
<1>3. \A r : NextNumber(r)' = NextNumber(r) /\ Stored(r)' = Stored(r) /\ Row(r)' = file'[write[r].file] /\ Row(r) = file[write[r].file]
  BY DEF NextNumber, Seen, Stored, Row
<1>4. Distinct'
  <2> SUFFICES ASSUME NEW r \in Writers, NEW f \in Files, NEW v \in Numbers, InPlace(r, f, v)'
               PROVE  /\ write[r].pc \notin Before
                      /\ write[r].pc = "point" => f = write[r].file /\ v = NextNumber(r)
    BY <1>3 DEF Distinct
  <2>1. InPlace(r, f, v)
    BY DEF InPlace, Dims
  <2> QED BY <2>1 DEF NewestInv, Distinct
<1>5. Current'
  BY DEF NewestInv, Current, Shown, Dims
<1>6. Newer'
  <2> SUFFICES ASSUME NEW f \in Files, NEW v \in Numbers, file'[f] # None, v > file'[f].current, file'[f].versions[v] # None
               PROVE  \E r \in Uploads : Points(r, f, v)'
    BY DEF Newer
  <2>1. file[f] # None /\ v > file[f].current /\ file[f].versions[v] # None
    BY DEF Dims
  <2>2. PICK r \in Uploads : Points(r, f, v)
    BY <2>1 DEF NewestInv, Newer
  <2> QED BY <1>3, <2>2 DEF Points
<1>7. Pointing'
  <2> SUFFICES ASSUME NEW r \in Uploads, write[r].pc = "point", file'[write[r].file] # None
               PROVE  /\ NextNumber(r) = file'[write[r].file].current + 1
                      /\ file'[write[r].file].versions[NextNumber(r)] = Stored(r)
    BY <1>3 DEF Pointing
  <2>1. write[r].file \in Files
    BY <1>1 DEF Busy, Writers
  <2> QED BY <1>3, <2>1 DEF NewestInv, Pointing, Dims
<1>8. Plain' = Plain
  BY DEF Plain
<1>9. Tied'
  BY <1>2, <1>3, <1>8 DEF NewestInv, Tied, Dims
<1>10. Dense'
  BY <1>8 DEF NewestInv, Dense, Dims
<1> QED BY <1>4, <1>5, <1>6, <1>7, <1>9, <1>10 DEF NewestInv
-----------------------------------------------------------------------------
\* Steps of one writer that leave the rows alone
LEMMA AsideNewest ==
    ASSUME KeptInv, NewestInv, file' = file, NEW r \in Writers,
           \A q \in Writers \ {r} : write'[q] = write[q],
           write[r].pc # "unsent", write'[r].pc \notin {"unsent", "point"},
           write[r].pc \in Before \/ write'[r].pc \notin Before,
           write[r].pc = "point" => Row(r) = None,
           write'[r].seen # None =>
              \/ write'[r].seen = write[r].seen /\ write'[r].file = write[r].file
              \/ write'[r].seen = file[write'[r].file] /\ write'[r].file \in Files
    PROVE  NewestInv'
<1>1. Plain' = Plain
  BY DEF Plain, Writers
<1>2. \A q \in Writers \ {r} : NextNumber(q)' = NextNumber(q) /\ Stored(q)' = Stored(q) /\ Row(q)' = Row(q)
  BY DEF NextNumber, Seen, Stored, Row
<1>3. Distinct'
  <2> SUFFICES ASSUME NEW q \in Writers, NEW f \in Files, NEW v \in Numbers, InPlace(q, f, v)'
               PROVE  /\ write'[q].pc \notin Before
                      /\ write'[q].pc = "point" => f = write'[q].file /\ v = NextNumber(q)'
    BY DEF Distinct
  <2>1. InPlace(q, f, v)
    BY DEF InPlace
  <2>2. CASE q = r
    BY <2>1, <2>2 DEF NewestInv, Distinct
  <2>3. CASE q # r
    BY <1>2, <2>1, <2>3 DEF NewestInv, Distinct
  <2> QED BY <2>2, <2>3
<1>4. Current' /\ Dense'
  BY <1>1 DEF NewestInv, Current, Dense, Shown
<1>5. Newer'
  <2> SUFFICES ASSUME NEW f \in Files, NEW v \in Numbers, file[f] # None, v > file[f].current, file[f].versions[v] # None
               PROVE  \E q \in Uploads : Points(q, f, v)'
    BY DEF Newer
  <2>1. PICK q \in Uploads : Points(q, f, v)
    BY DEF NewestInv, Newer
  <2>2. q # r /\ q \in Writers
    BY <2>1 DEF Points, Row, Writers
  <2> QED BY <1>2, <2>1, <2>2 DEF Points
<1>6. Pointing'
  BY <1>2 DEF NewestInv, Pointing, Writers
<1>7. Tied'
  <2> SUFFICES ASSUME NEW q \in Writers, write'[q].seen # None, file[write'[q].file] # None
               PROVE  IF Plain THEN write'[q].seen.current <= file[write'[q].file].current
                      ELSE write'[q].seen.current = file[write'[q].file].current
    BY <1>1 DEF Tied, Row
  <2>1. CASE q # r
    BY <2>1 DEF NewestInv, Tied, Row
  <2>2. CASE q = r /\ write'[r].seen = write[r].seen /\ write'[r].file = write[r].file
    BY <2>2 DEF NewestInv, Tied, Row
  <2>3. CASE q = r /\ write'[r].seen = file[write'[r].file] /\ write'[r].file \in Files
    BY <2>3, RowNumbers DEF KeptInv
  <2> QED BY <2>1, <2>2, <2>3
<1> QED BY <1>3, <1>4, <1>5, <1>6, <1>7 DEF NewestInv

\* A writer ends without having touched a row.
LEMMA EndsNewest ==
    ASSUME KeptInv, NewestInv, file' = file, NEW r \in Writers, write[r].pc \in Busy,
           write[r].pc = "point" => Row(r) = None,
           NEW step \in {"failed", "saved"}, WriteEnd(r, step)
    PROVE  NewestInv'
<1>1. /\ \A q \in Writers \ {r} : write'[q] = write[q]
      /\ write'[r].pc \in {"failed", "saved"} /\ write'[r].seen = None
  BY Moved DEF WriteSteps, KeptInv
<1> QED BY <1>1, AsideNewest DEF Before, Busy

\* A writer goes on to its next statement.
LEMMA MovesNewest ==
    ASSUME KeptInv, NewestInv, file' = file, NEW r \in Writers,
           write[r].pc \in {"reserve", "store", "collapse"},
           NEW step \in {"store", "leaked", "create", "fresh", "collapse"}, WriteMove(r, step)
    PROVE  NewestInv'
<1>1. /\ \A q \in Writers \ {r} : write'[q] = write[q]
      /\ write'[r].pc = step /\ write'[r].seen = write[r].seen /\ write'[r].file = write[r].file
  BY Moved DEF WriteSteps, KeptInv
<1> QED BY <1>1, AsideNewest DEF Before

\* The statements of a writer that read rows and write none
LEMMA ReadsNewest ==
    ASSUME KeptInv, NewestInv, NEW r \in Writers,
           \/ \E f \in Files, n \in Sizes : WriteStart(r, f, n)
           \/ WriteReserve(r) \/ WriteStore(r) \/ StoreFails(r) \/ SaveFresh(r)
           \/ OverwriteSettle(r)
    PROVE  NewestInv'
<1>1. CASE \E f \in Files, n \in Sizes : WriteStart(r, f, n)
  <2>1. PICK f \in Files, n \in Sizes : WriteStart(r, f, n)
    BY <1>1
  <2> DEFINE w == [pc |-> "reserve", file |-> f, size |-> n, seen |-> file[f], tries |-> 0]
  <2>2. write' = [write EXCEPT ![r] = w] /\ write[r].pc = "idle" /\ file' = file
    BY <2>1 DEF WriteStart
  <2>3. w.pc = "reserve" /\ w.file = f /\ w.seen = file[f]
    OBVIOUS
  <2> HIDE DEF w
  <2>4. write'[r] = w /\ \A q \in Writers \ {r} : write'[q] = write[q]
    BY <2>2 DEF KeptInv, Shapes
  <2> QED BY <2>2, <2>3, <2>4, AsideNewest DEF Before
<1>2. CASE WriteReserve(r)
  BY <1>2, MovesNewest, EndsNewest DEF WriteReserve, Busy
<1>3. CASE WriteStore(r)
  <2>1. AfterStore(r) \in {"create", "fresh", "collapse"}
    BY DEF AfterStore
  <2> QED BY <1>3, <2>1, MovesNewest DEF WriteStore
<1>4. CASE StoreFails(r)
  BY <1>4, EndsNewest DEF StoreFails, Busy
<1>5. CASE OverwriteSettle(r)
  BY <1>5, EndsNewest DEF OverwriteSettle, Busy
<1>6. CASE SaveFresh(r)
  <2>1. CASE GiveBack(r)
    BY <1>6, <2>1, EndsNewest DEF SaveFresh, GiveBack, Busy
  <2>2. CASE write' = [write EXCEPT ![r].pc = "commit", ![r].seen = Row(r)]
    <3>1. write[r].pc = "fresh" /\ file' = file
      BY <1>6 DEF SaveFresh
    <3>2. write[r] \in Writer /\ write[r].file \in Files
      BY <3>1 DEF KeptInv, Shapes, Progress, ProgressOf
    <3> DEFINE w == [write[r] EXCEPT !.pc = "commit", !.seen = Row(r)]
    <3>3. w.pc = "commit" /\ w.file = write[r].file /\ w.seen = file[write[r].file]
      BY <3>2 DEF Writer, Row
    <3>4. write' = [write EXCEPT ![r] = w]
      BY <2>2, <3>2 DEF KeptInv, Shapes
    <3> HIDE DEF w
    <3>5. write'[r] = w /\ \A q \in Writers \ {r} : write'[q] = write[q]
      BY <3>4 DEF KeptInv, Shapes
    <3> QED BY <3>1, <3>2, <3>3, <3>5, AsideNewest DEF Before
  <2> QED BY <1>6, <2>1, <2>2 DEF SaveFresh
<1> QED BY <1>1, <1>2, <1>3, <1>4, <1>5, <1>6

-----------------------------------------------------------------------------
\* A writer that finds its number free is next: it read the row as it is now,
\* and nobody else is about to point at a version of it.
LEMMA NextInLine ==
    ASSUME KeptInv, NewestInv, NEW r \in Uploads \cup Saves, write[r].pc \in {"create", "commit"}, Free(r)
    PROVE  /\ Plain /\ Row(r) # None /\ NextNumber(r) \in Numbers
           /\ NextNumber(r) = Row(r).current + 1 /\ Row(r).versions[NextNumber(r)] = None
           /\ \A q \in Uploads : write[q].pc = "point" => write[q].file # write[r].file
<1>1. r \in Writers /\ Row(r) # None /\ Row(r).versions[NextNumber(r)] = None
  BY DEF Writers, Free
<1>2. Plain
  BY DEF KeptInv, Alone
<1>3. /\ write[r].file \in Files /\ Row(r) = file[write[r].file] /\ write[r].seen \in FileRow
      /\ NextNumber(r) \in Numbers /\ Shapes
  BY <1>1, RowFacts DEF Busy
<1>4. write[r].seen.current \in Nat /\ Row(r).current \in Nat /\ \A v \in Numbers : v \in Nat
  <2>1. write[r].seen.current \in Numbers
    BY <1>3 DEF FileRow
  <2> QED BY <1>1, <1>3, <2>1, RowNumbers
<1>5. write[r].seen.current <= Row(r).current
  <2>1. write[r].seen # None
    BY <1>3, NoneAssumption
  <2> QED BY <1>1, <1>2, <2>1 DEF NewestInv, Tied
<1>6. NextNumber(r) = write[r].seen.current + 1
  BY DEF NextNumber, Seen
<1>7. ~(NextNumber(r) <= Row(r).current)
  BY <1>1, <1>2, <1>3 DEF NewestInv, Dense
<1>8. NextNumber(r) = Row(r).current + 1
  BY <1>4, <1>5, <1>6, <1>7
<1>9. ASSUME NEW q \in Uploads, write[q].pc = "point", write[q].file = write[r].file
      PROVE  FALSE
  <2>1. q \in Writers /\ Row(q) = Row(r) /\ Row(q) # None
    BY <1>1, <1>9 DEF Writers, Row
  <2>2. Stored(q) # None
    BY <1>9, <2>1, RowFacts DEF Busy
  <2>3. NextNumber(q) = Row(r).current + 1 /\ Row(r).versions[NextNumber(q)] = Stored(q)
    BY <1>9, <2>1 DEF NewestInv, Pointing
  <2> QED BY <1>1, <1>8, <2>2, <2>3
<1> QED BY <1>1, <1>2, <1>3, <1>8, <1>9

\* A writer's next record with the same file and content
LEMMA SameWriters ==
    ASSUME NEW r, \A q \in Writers \ {r} : write'[q] = write[q]
    PROVE  \A q \in Writers \ {r} : /\ NextNumber(q)' = NextNumber(q) /\ Stored(q)' = Stored(q)
                                    /\ Row(q)' = file'[write[q].file]
BY DEF NextNumber, Seen, Stored, Row

\* An upload inserts the version after the current one ...
LEMMA CreateNewest ==
    ASSUME KeptInv, NewestInv, Others, NEW r \in Writers, UploadCreate(r) PROVE NewestInv'
<1>1. CASE GiveBack(r) /\ file' = file
  BY <1>1, EndsNewest DEF UploadCreate, GiveBack, Busy
<1>2. CASE /\ Free(r) /\ Put(r, WithVersion(Row(r), r, NextNumber(r))) /\ WriteMove(r, "point")
           /\ write[r].pc = "create"
  <2> DEFINE f == write[r].file
             n == NextNumber(r)
             row == WithVersion(Row(r), r, n)
  <2>1. /\ f \in Files /\ Row(r) = file[f] /\ Row(r) \in FileRow /\ Row(r) # None /\ Stored(r) \in Content
        /\ Stored(r) # None /\ Stored(r).key = r /\ r \in Uploads /\ n \in Numbers
        /\ Shapes /\ write[r].size \in Int
    BY <1>2, RowFacts DEF Free, Busy, ProgressOf, Shapes, Writer
  <2>2. /\ row \in FileRow /\ row.current = file[f].current /\ row.versions[n] = Stored(r)
        /\ row.key = file[f].key /\ row.size = file[f].size
        /\ \A u \in Numbers \ {n} : row.versions[u] = file[f].versions[u]
    BY <2>1, Rows
  <2>3. /\ Plain /\ n = file[f].current + 1 /\ file[f].versions[n] = None
        /\ \A q \in Uploads : write[q].pc = "point" => write[q].file # f
    BY <1>2, <2>1, NextInLine
  <2>4. /\ \A q \in Writers \ {r} : write'[q] = write[q]
        /\ write'[r].pc = "point" /\ write'[r].file = f /\ write'[r].seen = write[r].seen
        /\ write'[r].size = write[r].size
    BY <1>2, <2>1, Moved DEF WriteSteps
  <2>5. NextNumber(r)' = n /\ Stored(r)' = Stored(r) /\ Row(r)' = file'[f]
    BY <2>4 DEF NextNumber, Seen, Stored, Row
  <2>6. file'[f] = row /\ row # None /\ \A g \in Files \ {f} : file'[g] = file[g]
    BY <1>2, <2>1, <2>2, NoneAssumption DEF Put, Shapes
  <2>7. \A q \in Writers \ {r} : /\ NextNumber(q)' = NextNumber(q) /\ Stored(q)' = Stored(q)
                                 /\ Row(q)' = file'[write[q].file]
    BY <2>4, SameWriters
  <2>8. Plain'
    BY <1>2, <2>3, <2>4 DEF Plain, Writers
  <2>9. file[f].current \in Nat /\ file[f].current \in Numbers /\ file[f].current # n
    <3>1. file[f].current \in Nat /\ file[f].current \in Numbers
      BY <2>1, RowNumbers
    <3> QED BY <2>3, <3>1
  <2> HIDE DEF row, n, f
  <2>10. Distinct'
    <3> SUFFICES ASSUME NEW q \in Writers, NEW g \in Files, NEW v \in Numbers, InPlace(q, g, v)'
                 PROVE  /\ write'[q].pc \notin Before
                        /\ write'[q].pc = "point" => g = write'[q].file /\ v = NextNumber(q)'
      BY DEF Distinct
    <3>1. CASE g = f /\ v = n
      <4>1. q = r
        BY <2>1, <2>2, <2>6, <3>1 DEF InPlace
      <4> QED BY <2>4, <2>5, <3>1, <4>1 DEF Before
    <3>2. CASE ~(g = f /\ v = n)
      <4>1. InPlace(q, g, v)
        BY <2>1, <2>2, <2>6, <3>2 DEF InPlace
      <4>2. q # r
        BY <1>2, <4>1 DEF NewestInv, Distinct, Before
      <4> QED BY <2>4, <2>7, <4>1, <4>2 DEF NewestInv, Distinct
    <3> QED BY <3>1, <3>2
  <2>11. Current'
    <3>1. Shown(row)
      BY <2>1, <2>2, <2>9 DEF NewestInv, Current, Shown
    <3> QED BY <2>6, <3>1 DEF NewestInv, Current
  <2>12. Newer'
    <3> SUFFICES ASSUME NEW g \in Files, NEW v \in Numbers, file'[g] # None, v > file'[g].current, file'[g].versions[v] # None
                 PROVE  \E q \in Uploads : Points(q, g, v)'
      BY DEF Newer
    <3>1. CASE g = f /\ v = n
      BY <2>1, <2>4, <2>5, <3>1 DEF Points
    <3>2. CASE ~(g = f /\ v = n)
      <4>1. file[g] # None /\ v > file[g].current /\ file[g].versions[v] # None
        BY <2>1, <2>2, <2>6, <3>2
      <4>2. PICK q \in Uploads : Points(q, g, v)
        BY <4>1 DEF NewestInv, Newer
      <4>3. q # r /\ q \in Writers
        BY <1>2, <4>2 DEF Points, Writers
      <4> QED BY <2>4, <2>7, <4>2, <4>3 DEF Points
    <3> QED BY <3>1, <3>2
  <2>13. Pointing'
    <3> SUFFICES ASSUME NEW q \in Uploads, write'[q].pc = "point", Row(q)' # None
                 PROVE  NextNumber(q)' = Row(q)'.current + 1 /\ Row(q)'.versions[NextNumber(q)'] = Stored(q)'
      BY DEF Pointing
    <3>1. CASE q = r
      BY <2>2, <2>3, <2>5, <2>6, <3>1
    <3>2. CASE q # r
      <4>1. q \in Writers /\ write[q].pc = "point" /\ write[q].file \in Files
        BY <2>4, <3>2 DEF KeptInv, Progress, ProgressOf, Writers
      <4>2. write[q].file # f
        BY <2>3, <4>1
      <4>3. Row(q)' = Row(q)
        BY <2>6, <2>7, <3>2, <4>1, <4>2 DEF Row
      <4> QED BY <2>7, <3>2, <4>1, <4>3 DEF NewestInv, Pointing
    <3> QED BY <3>1, <3>2
  <2>14. Tied'
    <3> SUFFICES ASSUME NEW q \in Writers, write'[q].seen # None, Row(q)' # None
                 PROVE  write'[q].seen.current <= Row(q)'.current
      BY <2>8 DEF Tied
    <3>1. write'[q].seen = write[q].seen /\ write[q].seen # None /\ write[q].file \in Files /\ Row(q)' = file'[write[q].file]
      BY <2>4, <2>5, <2>7 DEF KeptInv, Progress, ProgressOf, Busy, f
    <3>2. file[write[q].file] # None /\ file'[write[q].file].current = file[write[q].file].current
      BY <2>1, <2>2, <2>6, <3>1
    <3>3. write[q].seen.current <= file[write[q].file].current
      BY <2>3, <3>1, <3>2 DEF NewestInv, Tied, Row
    <3> QED BY <3>1, <3>2, <3>3
  <2>15. Dense'
    <3> SUFFICES ASSUME NEW g \in Files, NEW v \in Numbers, file'[g] # None, v <= file'[g].current
                 PROVE  file'[g].versions[v] # None
      BY DEF Dense
    <3>1. file[g] # None /\ v <= file[g].current
      BY <2>1, <2>2, <2>6
    <3>2. file[g].versions[v] # None
      BY <2>3, <3>1 DEF NewestInv, Dense
    <3> QED BY <2>1, <2>2, <2>6, <3>2
  <2> QED BY <2>10, <2>11, <2>12, <2>13, <2>14, <2>15 DEF NewestInv
<1> QED BY <1>1, <1>2 DEF UploadCreate

\* The pointer moves to the next version.
LEMMA AdvanceNewest ==
    ASSUME KeptInv, NewestInv, NEW r \in Uploads \cup Saves, NEW f \in Files, f = write[r].file,
           NEW n \in Numbers, n = file[f].current + 1, NEW row \in FileRow, file[f] # None, row # None,
           file'[f] = row, \A g \in Files \ {f} : file'[g] = file[g],
           row.current = n, row.key = r, row.size = write[r].size, row.versions[n] = Stored(r), Stored(r) # None,
           \A u \in Numbers \ {n} : row.versions[u] = file[f].versions[u],
           write[r].pc \in {"point", "commit"}, write[r].pc = "point" => n = NextNumber(r),
           \A q \in Writers \ {r} : write'[q] = write[q],
           write'[r].pc = "saved", write'[r].seen = None,
           Plain, \A q \in Uploads \ {r} : write[q].pc = "point" => write[q].file # f
    PROVE  NewestInv'
<1>1. r \in Writers /\ Shapes
  BY DEF Writers, KeptInv
<1>2. \A q \in Writers \ {r} : /\ NextNumber(q)' = NextNumber(q) /\ Stored(q)' = Stored(q)
                               /\ Row(q)' = file'[write[q].file]
  BY SameWriters
<1>3. Plain'
  BY DEF Plain, Writers
<1>4. file[f].current \in Nat /\ file[f].current # n /\ \A v \in Numbers : v \in Nat
  <2>1. file[f].current \in Nat /\ \A v \in Numbers : v \in Nat
    BY <1>1, RowNumbers
  <2> QED BY <2>1
<1>5. \A v \in Numbers : v > n => v > file[f].current
  BY <1>4
<1>6. \A v \in Numbers : v <= n => v <= file[f].current \/ v = n
  BY <1>4
<1>7. Distinct'
  <2> SUFFICES ASSUME NEW q \in Writers, NEW g \in Files, NEW v \in Numbers, InPlace(q, g, v)'
               PROVE  /\ write'[q].pc \notin Before
                      /\ write'[q].pc = "point" => g = write'[q].file /\ v = NextNumber(q)'
    BY DEF Distinct
  <2>1. CASE q = r
    BY <2>1 DEF Before
  <2>2. CASE q # r
    <3>1. ~(g = f /\ v = n)
      BY <2>2 DEF InPlace, Stored
    <3>2. InPlace(q, g, v)
      BY <3>1 DEF InPlace
    <3> QED BY <1>2, <2>2, <3>2 DEF NewestInv, Distinct
  <2> QED BY <2>1, <2>2
<1>8. Current'
  <2>1. Shown(row)
    BY DEF Shown, Stored
  <2> QED BY <2>1 DEF NewestInv, Current
<1>9. Newer'
  <2> SUFFICES ASSUME NEW g \in Files, NEW v \in Numbers, file'[g] # None, v > file'[g].current, file'[g].versions[v] # None
               PROVE  \E q \in Uploads : Points(q, g, v)'
    BY DEF Newer
  <2>1. CASE g = f
    <3>1. v # n /\ v > file[f].current /\ file[f].versions[v] # None
      BY <1>4, <1>5, <2>1
    <3>2. PICK q \in Uploads : Points(q, f, v)
      BY <3>1 DEF NewestInv, Newer
    <3>3. q = r
      BY <3>2 DEF Points
    <3> QED BY <3>1, <3>2, <3>3 DEF Points
  <2>2. CASE g # f
    <3>1. PICK q \in Uploads : Points(q, g, v)
      BY <2>2 DEF NewestInv, Newer
    <3>2. q # r /\ q \in Writers
      BY <2>2, <3>1 DEF Points, Writers
    <3> QED BY <1>2, <3>1, <3>2 DEF Points
  <2> QED BY <2>1, <2>2
<1>10. Pointing'
  <2> SUFFICES ASSUME NEW q \in Uploads, write'[q].pc = "point", Row(q)' # None
               PROVE  NextNumber(q)' = Row(q)'.current + 1 /\ Row(q)'.versions[NextNumber(q)'] = Stored(q)'
    BY DEF Pointing
  <2>1. q # r /\ q \in Writers /\ write[q].pc = "point" /\ write[q].file \in Files
    BY DEF KeptInv, Progress, ProgressOf, Writers
  <2>2. Row(q)' = Row(q)
    BY <1>2, <2>1 DEF Row
  <2> QED BY <1>2, <2>1, <2>2 DEF NewestInv, Pointing
<1>11. Tied'
  <2> SUFFICES ASSUME NEW q \in Writers, write'[q].seen # None, Row(q)' # None
               PROVE  write'[q].seen.current <= Row(q)'.current
    BY <1>3 DEF Tied
  <2>1. q # r /\ write[q].seen # None /\ write[q].file \in Files /\ Row(q)' = file'[write[q].file]
    BY <1>2 DEF KeptInv, Progress, ProgressOf, Busy
  <2>2. file[write[q].file] # None
    BY <2>1
  <2>3. write[q].seen.current <= file[write[q].file].current
    BY <2>1, <2>2 DEF NewestInv, Tied, Row
  <2>4. write[q].seen.current \in Nat
    <3>1. write[q].seen \in FileRow
      BY <1>1, <2>1 DEF Shapes, Writer
    <3> QED BY <1>4, <3>1 DEF FileRow
  <2>5. CASE write[q].file = f
    BY <1>4, <2>1, <2>3, <2>4, <2>5
  <2> QED BY <2>1, <2>3, <2>5
<1>12. Dense'
  <2> SUFFICES ASSUME NEW g \in Files, NEW v \in Numbers, file'[g] # None, v <= file'[g].current
               PROVE  file'[g].versions[v] # None
    BY DEF Dense
  <2>1. CASE g = f
    BY <1>6, <2>1 DEF NewestInv, Dense
  <2>2. CASE g # f
    BY <2>2 DEF NewestInv, Dense
  <2> QED BY <2>1, <2>2
<1> QED BY <1>7, <1>8, <1>9, <1>10, <1>11, <1>12 DEF NewestInv

\* ... and points the file at it.
LEMMA PointNewest ==
    ASSUME KeptInv, NewestInv, NEW r \in Writers, UploadPoint(r) PROVE NewestInv'
<1>1. CASE GiveBack(r) /\ file' = file /\ Row(r) = None
  BY <1>1, EndsNewest DEF UploadPoint, GiveBack, Busy
<1>2. CASE /\ Row(r) # None /\ Put(r, Pointed(Row(r), r, NextNumber(r))) /\ WriteEnd(r, "saved")
           /\ write[r].pc = "point"
  <2> DEFINE f == write[r].file
             n == NextNumber(r)
             row == Pointed(Row(r), r, n)
  <2>1. /\ f \in Files /\ Row(r) = file[f] /\ Row(r) \in FileRow /\ Stored(r) \in Content /\ Stored(r) # None
        /\ Stored(r).key = r /\ r \in Uploads /\ n \in Numbers /\ Shapes /\ write[r].size \in Int
    BY <1>2, RowFacts DEF Busy, ProgressOf, Shapes, Writer
  <2>2. /\ row \in FileRow /\ row.current = n /\ row.versions = file[f].versions
        /\ row.key = r /\ row.size = write[r].size
    BY <2>1, Rows
  <2>3. file'[f] = row /\ row # None /\ \A g \in Files \ {f} : file'[g] = file[g]
    BY <1>2, <2>1, <2>2, NoneAssumption DEF Put, Shapes
  <2>4. /\ \A q \in Writers \ {r} : write'[q] = write[q]
        /\ write'[r].pc = "saved" /\ write'[r].seen = None
    BY <1>2, <2>1, Moved DEF WriteSteps
  <2>5. n = file[f].current + 1 /\ file[f].versions[n] = Stored(r)
    BY <1>2, <2>1 DEF NewestInv, Pointing
  <2>6. Plain
    BY <1>2, <2>1 DEF KeptInv, Alone
  <2>7. ASSUME NEW q \in Uploads \ {r}, write[q].pc = "point", write[q].file = f PROVE FALSE
    <3>1. q \in Writers /\ Row(q) = Row(r)
      BY <2>7 DEF Writers, Row
    <3>2. NextNumber(q) = n /\ Row(q).versions[n] = Stored(q)
      BY <1>2, <2>1, <2>5, <2>7, <3>1 DEF NewestInv, Pointing
    <3>3. Stored(q) = Stored(r)
      BY <2>1, <2>5, <3>1, <3>2
    <3> QED BY <2>1, <3>3 DEF Stored
  <2>8. f = write[r].file /\ file[f] # None /\ r \in Uploads \cup Saves /\ n = NextNumber(r)
    BY <1>2, <2>1
  <2> HIDE DEF row, n, f
  <2> QED BY <1>2, <2>1, <2>2, <2>3, <2>4, <2>5, <2>6, <2>7, <2>8, AdvanceNewest
<1> QED BY <1>1, <1>2 DEF UploadPoint

\* A save does both at once.
LEMMA CommitNewest ==
    ASSUME KeptInv, NewestInv, NEW r \in Writers, SaveCommit(r) PROVE NewestInv'
<1>1. CASE GiveBack(r) /\ file' = file
  BY <1>1, EndsNewest DEF SaveCommit, GiveBack, Busy
<1>2. CASE write' = [write EXCEPT ![r].pc = "fresh", ![r].tries = @ + 1] /\ file' = file /\ write[r].pc = "commit"
  <2>1. write[r] \in Writer
    BY DEF KeptInv, Shapes
  <2>2. /\ write'[r].pc = "fresh" /\ write'[r].file = write[r].file /\ write'[r].seen = write[r].seen
        /\ \A q \in Writers \ {r} : write'[q] = write[q]
    BY <1>2, <2>1 DEF KeptInv, Shapes, Writer
  <2> QED BY <1>2, <2>2, AsideNewest DEF Before
<1>3. CASE /\ Free(r)
           /\ Put(r, Pointed(WithVersion(Row(r), r, NextNumber(r)), r, NextNumber(r)))
           /\ WriteEnd(r, "saved") /\ write[r].pc = "commit"
  <2> DEFINE f == write[r].file
             n == NextNumber(r)
             mid == WithVersion(Row(r), r, n)
             row == Pointed(mid, r, n)
  <2>1. /\ f \in Files /\ Row(r) = file[f] /\ Row(r) \in FileRow /\ Row(r) # None /\ Stored(r) \in Content
        /\ Stored(r) # None /\ Stored(r).key = r /\ r \in Saves /\ n \in Numbers
        /\ Shapes /\ write[r].size \in Int
    BY <1>3, RowFacts DEF Free, Busy, ProgressOf, Shapes, Writer
  <2>2. /\ mid \in FileRow /\ mid.versions[n] = Stored(r)
        /\ \A u \in Numbers \ {n} : mid.versions[u] = file[f].versions[u]
    BY <2>1, Rows
  <2>3. /\ row \in FileRow /\ row.current = n /\ row.versions = mid.versions
        /\ row.key = r /\ row.size = write[r].size
    BY <2>1, <2>2, Rows
  <2>4. file'[f] = row /\ row # None /\ \A g \in Files \ {f} : file'[g] = file[g]
    BY <1>3, <2>1, <2>3, NoneAssumption DEF Put, Shapes
  <2>5. /\ \A q \in Writers \ {r} : write'[q] = write[q]
        /\ write'[r].pc = "saved" /\ write'[r].seen = None
    BY <1>3, <2>1, Moved DEF WriteSteps
  <2>6. /\ Plain /\ n = file[f].current + 1
        /\ \A q \in Uploads : write[q].pc = "point" => write[q].file # f
    BY <1>3, <2>1, NextInLine
  <2>7. f = write[r].file /\ file[f] # None /\ r \in Uploads \cup Saves
    BY <2>1
  <2> HIDE DEF row, mid, n, f
  <2>8. row.versions[n] = Stored(r) /\ \A u \in Numbers \ {n} : row.versions[u] = file[f].versions[u]
    BY <2>2, <2>3
  <2> QED BY <1>3, <2>1, <2>3, <2>4, <2>5, <2>6, <2>7, <2>8, AdvanceNewest
<1> QED BY <1>1, <1>2, <1>3 DEF SaveCommit

\* An overwrite keeps one version, the current one.
LEMMA CollapseNewest ==
    ASSUME KeptInv, NewestInv, NEW r \in Writers, OverwriteCollapse(r) PROVE NewestInv'
<1>1. CASE WriteMove(r, "leaked") /\ file' = file
  BY <1>1, MovesNewest DEF OverwriteCollapse
<1>2. CASE /\ Row(r) # None /\ WriteMove(r, "settle") /\ write[r].pc = "collapse"
           /\ Put(r, [Row(r) EXCEPT !.key = r, !.size = write[r].size, !.versions = Kept(r)])
  <2> DEFINE f == write[r].file
             row == [Row(r) EXCEPT !.key = r, !.size = write[r].size, !.versions = Kept(r)]
  <2>1. /\ f \in Files /\ Row(r) = file[f] /\ Row(r) \in FileRow /\ file[f] # None /\ Stored(r) # None
        /\ r \in Overwrites \ (Uploads \cup Saves) /\ Shapes /\ write[r].seen \in FileRow /\ write[r].seen # None
    BY <1>2, RowFacts, NoneAssumption DEF Busy, ProgressOf
  <2>2. ~Plain /\ \A q \in Uploads \cup Saves : write[q].pc = "unsent"
    <3>1. ~Plain
      BY <1>2, <2>1 DEF Plain
    <3> QED BY <3>1 DEF KeptInv, Alone
  <2>3. write[r].seen.current = file[f].current
    BY <1>2, <2>1, <2>2 DEF NewestInv, Tied
  <2>4. file[f].current \in Numbers /\ file[f].versions[file[f].current] # None
    BY <2>1, RowNumbers DEF NewestInv, Current
  <2>5. Kept(r) = [v \in Numbers |-> IF v = file[f].current THEN Stored(r) ELSE None]
    BY <2>1, <2>3, <2>4 DEF Kept, Seen
  <2>6. /\ row.current = file[f].current /\ row.key = r /\ row.size = write[r].size
        /\ row.versions[file[f].current] = Stored(r)
        /\ \A v \in Numbers \ {file[f].current} : row.versions[v] = None
    <3> HIDE DEF Kept
    <3>1. row.versions = Kept(r) /\ row.current = file[f].current /\ row.key = r /\ row.size = write[r].size
      BY <2>1 DEF FileRow
    <3> QED BY <2>4, <2>5, <3>1
  <2>7. file'[f] = row /\ \A g \in Files \ {f} : file'[g] = file[g]
    BY <1>2, <2>1 DEF Put, Shapes
  <2>8. /\ \A q \in Writers \ {r} : write'[q] = write[q]
        /\ write'[r].pc = "settle" /\ write'[r].file = f /\ write'[r].seen = write[r].seen
        /\ write'[r].size = write[r].size
    BY <1>2, <2>1, Moved DEF WriteSteps
  <2> HIDE DEF row, f
  <2>9. ~Plain' /\ \A q \in Uploads \cup Saves : write'[q].pc = "unsent"
    <3>1. ~Plain'
      BY <2>1, <2>8 DEF Plain
    <3>2. \A q \in Uploads \cup Saves : q \in Writers \ {r}
      BY <2>1 DEF Writers
    <3> QED BY <2>2, <2>8, <3>1, <3>2
  <2>10. Distinct'
    <3> SUFFICES ASSUME NEW q \in Writers, NEW g \in Files, NEW v \in Numbers, InPlace(q, g, v)'
                 PROVE  /\ write'[q].pc \notin Before
                        /\ write'[q].pc = "point" => g = write'[q].file /\ v = NextNumber(q)'
      BY DEF Distinct
    <3>0. write'[q].pc # "point"
      <4>1. CASE q = r
        BY <2>8, <4>1
      <4>2. CASE q # r
        BY <2>2, <2>8, <4>2 DEF KeptInv, Progress, ProgressOf
      <4> QED BY <4>1, <4>2
    <3>1. CASE q = r
      BY <2>8, <3>1 DEF Before
    <3>2. CASE q # r
      <4>1. InPlace(q, g, v)
        <5>1. CASE g = f
          <6>1. v = file[f].current
            BY <2>6, <2>7, <5>1 DEF InPlace
          <6> QED BY <2>6, <2>7, <3>2, <5>1, <6>1 DEF InPlace, Stored
        <5> QED BY <2>7, <5>1 DEF InPlace
      <4> QED BY <2>8, <3>0, <3>2, <4>1 DEF NewestInv, Distinct
    <3> QED BY <3>1, <3>2
  <2>11. Current'
    <3>1. Shown(row)
      BY <2>6 DEF Shown, Stored
    <3> QED BY <2>7, <3>1 DEF NewestInv, Current
  <2>12. Newer'
    <3> SUFFICES ASSUME NEW g \in Files, NEW v \in Numbers, file'[g] # None, v > file'[g].current, file'[g].versions[v] # None
                 PROVE  FALSE
      BY DEF Newer
    <3>1. CASE g = f
      <4>1. v = file[f].current /\ v > file[f].current /\ file[f].current \in Nat
        BY <2>1, <2>6, <2>7, <3>1, RowNumbers
      <4> QED BY <4>1
    <3>2. CASE g # f
      BY <2>2, <2>7, <3>2 DEF NewestInv, Newer, Points
    <3> QED BY <3>1, <3>2
  <2>13. Pointing'
    BY <2>9 DEF Pointing
  <2>14. Tied'
    <3> SUFFICES ASSUME NEW q \in Writers, write'[q].seen # None, Row(q)' # None
                 PROVE  write'[q].seen.current = Row(q)'.current
      BY <2>9 DEF Tied
    <3>1. write'[q].seen = write[q].seen /\ write[q].seen # None /\ write[q].file \in Files /\ Row(q)' = file'[write[q].file]
      BY <2>8 DEF KeptInv, Progress, ProgressOf, Busy, Row, f
    <3>2. file[write[q].file] # None /\ file'[write[q].file].current = file[write[q].file].current
      BY <2>1, <2>6, <2>7, <3>1
    <3> QED BY <2>2, <3>1, <3>2 DEF NewestInv, Tied, Row
  <2>15. Dense'
    BY <2>9 DEF Dense
  <2> QED BY <2>10, <2>11, <2>12, <2>13, <2>14, <2>15 DEF NewestInv
<1> QED BY <1>1, <1>2 DEF OverwriteCollapse

\* A fresh file starts with the version it shows.
LEMMA CreatesNewest ==
    ASSUME KeptInv, NewestInv, NEW f \in Fresh, Creates(f) PROVE NewestInv'
<1>1. Shapes /\ f \in Files /\ intake[f].pc = "create" /\ write' = write
  BY VersionsAssumption DEF KeptInv, Creates, IntakeAt
<1>2. file[f] = None /\ \A r \in Writers : write[r].file # f
  BY <1>1 DEF KeptInv, FreshOnce
<1>3. intake[f].size \in Int /\ f \in Keys /\ 1 \in Numbers
  BY <1>1, NumberFacts DEF Shapes, Keys
<1> DEFINE row == NewRow(f)
<1>4. /\ row.current = 1 /\ row.key = f /\ row.size = intake[f].size
      /\ row.versions[1] = [key |-> f, size |-> intake[f].size]
      /\ \A v \in Numbers \ {1} : row.versions[v] = None
      /\ [key |-> f, size |-> intake[f].size] # None
  <2>1. [key |-> f, size |-> intake[f].size] \in Content
    BY <1>3 DEF Content
  <2> QED BY <1>3, <2>1, NoneAssumption DEF NewRow
<1>5. file'[f] = row /\ \A g \in Files \ {f} : file'[g] = file[g]
  BY <1>1 DEF Creates, Shapes
<1> HIDE DEF row
<1>6. \A r : NextNumber(r)' = NextNumber(r) /\ Stored(r)' = Stored(r) /\ Row(r)' = file'[write[r].file] /\ Row(r) = file[write[r].file]
  BY <1>1 DEF NextNumber, Seen, Stored, Row
<1>7. Plain' = Plain
  BY <1>1 DEF Plain
<1>8. f \notin Writers
  BY VersionsAssumption
<1>9. Distinct'
  <2> SUFFICES ASSUME NEW q \in Writers, NEW g \in Files, NEW v \in Numbers, InPlace(q, g, v)'
               PROVE  /\ write[q].pc \notin Before
                      /\ write[q].pc = "point" => g = write[q].file /\ v = NextNumber(q)
    BY <1>1, <1>6 DEF Distinct
  <2>1. g # f
    BY <1>4, <1>5, <1>8 DEF InPlace
  <2>2. InPlace(q, g, v)
    BY <1>5, <2>1 DEF InPlace
  <2> QED BY <2>2 DEF NewestInv, Distinct
<1>10. Current'
  <2>1. Shown(row)
    BY <1>4 DEF Shown
  <2> QED BY <1>5, <2>1 DEF NewestInv, Current
<1>11. Newer'
  <2> SUFFICES ASSUME NEW g \in Files, NEW v \in Numbers, file'[g] # None, v > file'[g].current, file'[g].versions[v] # None
               PROVE  \E q \in Uploads : Points(q, g, v)'
    BY DEF Newer
  <2>1. g # f
    <3>1. CASE g = f
      <4>1. v = 1 /\ v > 1
        BY <1>4, <1>5, <3>1
      <4> QED BY <4>1
    <3> QED BY <3>1
  <2>2. PICK q \in Uploads : Points(q, g, v)
    BY <1>5, <2>1 DEF NewestInv, Newer
  <2> QED BY <1>1, <1>6, <2>2 DEF Points
<1>12. Pointing'
  <2> SUFFICES ASSUME NEW q \in Uploads, write[q].pc = "point", file'[write[q].file] # None
               PROVE  /\ NextNumber(q) = file'[write[q].file].current + 1
                      /\ file'[write[q].file].versions[NextNumber(q)] = Stored(q)
    BY <1>1, <1>6 DEF Pointing
  <2>1. q \in Writers /\ write[q].file \in Files /\ write[q].file # f
    BY <1>2 DEF KeptInv, Progress, ProgressOf, Writers
  <2> QED BY <1>5, <1>6, <2>1 DEF NewestInv, Pointing
<1>13. Tied'
  <2> SUFFICES ASSUME NEW q \in Writers, write[q].seen # None, file'[write[q].file] # None
               PROVE  IF Plain THEN write[q].seen.current <= file'[write[q].file].current
                      ELSE write[q].seen.current = file'[write[q].file].current
    BY <1>1, <1>6, <1>7 DEF Tied
  <2>1. write[q].file \in Files /\ write[q].file # f
    BY <1>2 DEF KeptInv, Progress, ProgressOf, Busy
  <2> QED BY <1>5, <1>6, <2>1 DEF NewestInv, Tied
<1>14. Dense'
  <2> SUFFICES ASSUME Plain, NEW g \in Files, NEW v \in Numbers, file'[g] # None, v <= file'[g].current
               PROVE  file'[g].versions[v] # None
    BY <1>7 DEF Dense
  <2>1. CASE g = f
    <3>1. v <= 1 /\ v \in Nat /\ v # 0
      BY <1>4, <1>5, <2>1, NumberFacts DEF Numbers
    <3>2. v = 1
      BY <3>1
    <3> QED BY <1>4, <1>5, <2>1, <3>2
  <2>2. CASE g # f
    BY <1>5, <2>2 DEF NewestInv, Dense
  <2> QED BY <2>1, <2>2
<1> QED BY <1>9, <1>10, <1>11, <1>12, <1>13, <1>14 DEF NewestInv

\* A remux changes the size of the current version and of the row alike.
LEMMA RemuxNewest ==
    ASSUME KeptInv, NewestInv, RemuxTied, NEW q \in Remuxes, RemuxUpdate(q) PROVE NewestInv'
<1>1. write' = write /\ remux[q].pc = "update" /\ Shapes
  BY DEF RemuxUpdate, KeptInv
<1>2. CASE file' = file
  <2>1. Dims
    BY <1>2 DEF Dims
  <2> QED BY <1>1, <2>1, DimsKeep
<1>3. CASE file' # file
  <2> DEFINE f == remux[q].row
             v == remux[q].seen.current
             old == file[f].versions
             c == [key |-> old[v].key, size |-> Shrunk(q)]
             row == [file[f] EXCEPT !.size = Shrunk(q), !.versions[v] = c]
  <2>1. Exists(f) /\ file' = [file EXCEPT ![f].size = Shrunk(q),
                               ![f].versions[v] = IF @ = None THEN None ELSE [key |-> @.key, size |-> Shrunk(q)]]
    BY <1>3 DEF RemuxUpdate
  <2>2. f \in Files /\ file[f] # None /\ remux[q].seen # None /\ v = file[f].current
    BY <1>1, <2>1, MediaAssumption DEF RemuxTied, Exists
  <2>3. /\ file[f] \in FileRow /\ v \in Numbers /\ v \in Nat /\ old \in [Numbers -> Content \cup {None}]
        /\ old[v] # None /\ old[v].key = file[f].key
    BY <1>1, <2>2, RowNumbers DEF NewestInv, Current
  <2>4. c # None
    <3>1. remux[q].seen \in FileRow
      BY <1>1, <2>2 DEF Shapes
    <3>2. Shrunk(q) \in Int
      BY <3>1 DEF Shrunk, FileRow
    <3>3. old[v].key \in Keys
      BY <2>3 DEF FileRow
    <3> QED BY <3>2, <3>3, NoneAssumption DEF Content
  <2>5. file' = [file EXCEPT ![f] = row]
    <3>1. [old EXCEPT ![v] = IF @ = None THEN None ELSE [key |-> @.key, size |-> Shrunk(q)]] = [old EXCEPT ![v] = c]
      BY <2>3
    <3>2. file' = [file EXCEPT ![f] = [file[f] EXCEPT !.size = Shrunk(q), !.versions =
                      [old EXCEPT ![v] = IF @ = None THEN None ELSE [key |-> @.key, size |-> Shrunk(q)]]]]
      BY <1>1, <2>1, <2>2, <2>3 DEF Shapes, FileRow
    <3>3. row = [file[f] EXCEPT !.size = Shrunk(q), !.versions = [old EXCEPT ![v] = c]]
      BY <2>3 DEF FileRow
    <3> HIDE DEF row, c, v, old
    <3> QED BY <3>1, <3>2, <3>3
  <2>6. /\ row.current = v /\ row.key = file[f].key /\ row.size = Shrunk(q) /\ row.versions[v] = c
        /\ \A u \in Numbers \ {v} : row.versions[u] = old[u]
    <3> HIDE DEF c
    <3>1. row.versions = [old EXCEPT ![v] = c]
      BY <2>3 DEF FileRow
    <3>2. row.current = v /\ row.key = file[f].key /\ row.size = Shrunk(q)
      BY <2>2, <2>3 DEF FileRow
    <3> HIDE DEF row
    <3> QED BY <2>3, <3>1, <3>2
  <2>7. c.key = file[f].key /\ c = [key |-> file[f].key, size |-> Shrunk(q)]
    BY <2>3
  <2> HIDE DEF row, c
  <2>8. file'[f] = row /\ \A g \in Files \ {f} : file'[g] = file[g]
    BY <1>1, <2>2, <2>5 DEF Shapes
  <2>9. \A u \in Numbers : /\ row.versions[u] # None <=> old[u] # None
                           /\ old[u] # None => row.versions[u].key = old[u].key
    <3> SUFFICES ASSUME NEW u \in Numbers
                 PROVE  /\ row.versions[u] # None <=> old[u] # None
                        /\ old[u] # None => row.versions[u].key = old[u].key
      OBVIOUS
    <3>1. CASE u = v
      BY <2>3, <2>4, <2>6, <2>7, <3>1
    <3> QED BY <2>6, <3>1
  <2>10. \A r : NextNumber(r)' = NextNumber(r) /\ Stored(r)' = Stored(r) /\ Row(r)' = file'[write[r].file] /\ Row(r) = file[write[r].file]
    BY <1>1 DEF NextNumber, Seen, Stored, Row
  <2>11. Plain' = Plain
    BY <1>1 DEF Plain
  <2>12. \A g \in Files : (file'[g] # None => file[g] # None /\ file'[g].current = file[g].current)
    BY <2>2, <2>6, <2>8
  <2>13. \A g \in Files, u \in Numbers : file[g] # None =>
            /\ file'[g].versions[u] # None <=> file[g].versions[u] # None
            /\ file[g].versions[u] # None => file'[g].versions[u].key = file[g].versions[u].key
    BY <2>8, <2>9
  <2> HIDE DEF old, v, f
  <2>14. Distinct'
    <3> SUFFICES ASSUME NEW r \in Writers, NEW g \in Files, NEW u \in Numbers, InPlace(r, g, u)'
                 PROVE  /\ write[r].pc \notin Before
                        /\ write[r].pc = "point" => g = write[r].file /\ u = NextNumber(r)
      BY <1>1, <2>10 DEF Distinct
    <3>1. InPlace(r, g, u)
      BY <2>12, <2>13 DEF InPlace
    <3> QED BY <3>1 DEF NewestInv, Distinct
  <2>15. Current'
    <3>1. Shown(row)
      BY <2>6, <2>7 DEF Shown
    <3> QED BY <2>8, <3>1 DEF NewestInv, Current
  <2>16. Newer'
    <3> SUFFICES ASSUME NEW g \in Files, NEW u \in Numbers, file'[g] # None, u > file'[g].current, file'[g].versions[u] # None
                 PROVE  \E r \in Uploads : Points(r, g, u)'
      BY DEF Newer
    <3>1. PICK r \in Uploads : Points(r, g, u)
      BY <2>12, <2>13 DEF NewestInv, Newer
    <3> QED BY <1>1, <2>10, <3>1 DEF Points
  <2>17. Pointing'
    <3> SUFFICES ASSUME NEW r \in Uploads, write[r].pc = "point", file'[write[r].file] # None
                 PROVE  /\ NextNumber(r) = file'[write[r].file].current + 1
                        /\ file'[write[r].file].versions[NextNumber(r)] = Stored(r)
      BY <1>1, <2>10 DEF Pointing
    <3>1. r \in Writers /\ write[r].file \in Files
      BY DEF KeptInv, Progress, ProgressOf, Writers
    <3>2. /\ file[write[r].file] # None /\ NextNumber(r) = file[write[r].file].current + 1
          /\ file[write[r].file].versions[NextNumber(r)] = Stored(r)
      BY <2>10, <2>12, <3>1 DEF NewestInv, Pointing
    <3>3. NextNumber(r) \in Numbers
      BY <2>10, <3>1, <3>2, RowFacts DEF Busy
    <3>4. CASE write[r].file = f
      <4>1. NextNumber(r) # v
        BY <2>2, <2>3, <3>2, <3>4
      <4> QED BY <2>6, <2>8, <2>12, <3>1, <3>2, <3>3, <3>4, <4>1 DEF old
    <3> QED BY <2>8, <3>1, <3>2, <3>4
  <2>18. Tied'
    <3> SUFFICES ASSUME NEW r \in Writers, write[r].seen # None, file'[write[r].file] # None
                 PROVE  IF Plain THEN write[r].seen.current <= file'[write[r].file].current
                        ELSE write[r].seen.current = file'[write[r].file].current
      BY <1>1, <2>10, <2>11 DEF Tied
    <3>1. write[r].file \in Files
      BY DEF KeptInv, Progress, ProgressOf, Busy
    <3> QED BY <2>10, <2>12, <3>1 DEF NewestInv, Tied
  <2>19. Dense'
    BY <2>11, <2>12, <2>13 DEF NewestInv, Dense
  <2> QED BY <2>14, <2>15, <2>16, <2>17, <2>18, <2>19 DEF NewestInv
<1> QED BY <1>2, <1>3

-----------------------------------------------------------------------------
\* Purges delete rows, the trash changes their state.
LEMMA GoneOrSame ==
    ASSUME Shapes,
           \/ \E p \in Purges : PurgeStep(p)
           \/ \E f \in Files : Trash(f) \/ Restore(f) \/ Expire(f)
           \/ FolderTrash
    PROVE  Dims /\ write' = write
<1>1. CASE \E p \in Purges : PurgeStep(p)
  <2>1. write' = write /\ (file' = file \/ \E fs : file' = Deleted(fs))
    BY <1>1 DEF PurgeStep, PurgeRead, PurgeRefund, PurgeStrip, HardDrop, EmptyDrop, SweepDrop
  <2>2. \A f \in Files : file'[f] = None \/ (file[f] # None /\ file'[f] = file[f])
    BY <2>1 DEF Deleted
  <2> QED BY <2>1, <2>2 DEF Dims
<1>2. CASE (\E f \in Files : Trash(f) \/ Restore(f) \/ Expire(f)) \/ FolderTrash
  <2>1. \A row \in FileRow, st \in {"live", "trashed", "expired"} :
           /\ [row EXCEPT !.state = st] \in FileRow
           /\ [row EXCEPT !.state = st].key = row.key /\ [row EXCEPT !.state = st].size = row.size
           /\ [row EXCEPT !.state = st].current = row.current /\ [row EXCEPT !.state = st].versions = row.versions
    BY DEF FileRow
  <2>2. /\ write' = write
        /\ \/ \E f \in Files, st \in {"live", "trashed", "expired"} :
                 file[f] # None /\ file' = [file EXCEPT ![f].state = st]
           \/ file' = [f \in Files |-> IF Within(f) /\ Live(f) THEN [file[f] EXCEPT !.state = "trashed"] ELSE file[f]]
    BY <1>2 DEF Trash, Restore, Expire, SetState, FolderTrash, Live, Trashed, Exists
  <2>3. \A f \in Files : \/ file'[f] = file[f]
                         \/ /\ file[f] # None
                            /\ \E st \in {"live", "trashed", "expired"} : file'[f] = [file[f] EXCEPT !.state = st]
    BY <2>2 DEF Shapes, Live, Exists
  <2>4. \A f \in Files : file[f] # None => file[f] \in FileRow
    BY DEF Shapes
  <2>5. ASSUME NEW f \in Files
        PROVE  \/ file'[f] = None
               \/ /\ file[f] # None /\ file'[f] # None /\ file'[f].key = file[f].key /\ file'[f].size = file[f].size
                  /\ file'[f].current = file[f].current /\ file'[f].versions = file[f].versions
    <3>1. CASE file'[f] = file[f]
      BY <3>1
    <3>2. CASE file[f] # None /\ \E st \in {"live", "trashed", "expired"} : file'[f] = [file[f] EXCEPT !.state = st]
      <4>1. PICK st \in {"live", "trashed", "expired"} : file'[f] = [file[f] EXCEPT !.state = st]
        BY <3>2
      <4>2. file[f] \in FileRow
        BY <2>4, <3>2
      <4>3. /\ file'[f] \in FileRow /\ file'[f].key = file[f].key /\ file'[f].size = file[f].size
            /\ file'[f].current = file[f].current /\ file'[f].versions = file[f].versions
        BY ONLY <4>1, <4>2 DEF FileRow
      <4>4. file'[f] # None
        BY <4>3, NoneAssumption
      <4> QED BY ONLY <3>2, <4>3, <4>4
    <3> QED BY <2>3, <3>1, <3>2
  <2> QED BY <2>2, <2>5 DEF Dims
<1> QED BY <1>1, <1>2

\* What the requests that make files do beside creating the row
LEMMA BesideRow ==
    ASSUME NEW f \in Files, IntakeStep(f), ~Creates(f)
    PROVE  /\ file' = file /\ write' = write /\ f \in Fresh /\ intake[f].pc # "made"
           /\ \E i : intake' = [intake EXCEPT ![f] = i]
<1>1. file' = file /\ write' = write /\ f \in Fresh /\ intake[f].pc # "made"
  BY DEF IntakeStep, UploadArrives, DavArrives, UrlArrives, UrlHops, UrlFetched, ImportArrives, Downloaded,
         NameFree, VttArrives, UploadWrites, UrlWrites, ImportWrites, DavWrites, VttWrites, Writes, Reserves,
         Stores, Undoes, Undone, Refuse, GoesTo, IntakeAt, vars
<1> QED BY <1>1
       DEF IntakeStep, UploadArrives, DavArrives, UrlArrives, UrlHops, UrlFetched, ImportArrives, Downloaded,
           NameFree, VttArrives, UploadWrites, UrlWrites, ImportWrites, DavWrites, VttWrites, Writes, Reserves,
           Stores, Undoes, Undone, Refuse, GoesTo, IntakeMove

\* Every step of FileVersions and NewFiles
LEMMA FilesNewest ==
    ASSUME KeptInv, NewestInv, remux' = remux, NewNext PROVE NewestInv'
<1>0. Shapes
  BY DEF KeptInv
<1>1. ASSUME Dims, write' = write PROVE NewestInv'
  BY <1>1, DimsKeep
<1>2. ASSUME file' = file, write' = write PROVE NewestInv'
  <2>1. Dims
    BY <1>2 DEF Dims
  <2> QED BY <1>2, <2>1, DimsKeep
<1>3. CASE OldStep
  <2>1. Others
    BY <1>3 DEF OldStep, Others
  <2>2. CASE \E r \in Writers : WriterStep(r)
    <3>1. PICK r \in Writers : WriterStep(r)
      BY <2>2
    <3> QED BY <2>1, <3>1, ReadsNewest, CreateNewest, PointNewest, CommitNewest, CollapseNewest DEF WriterStep
  <2> QED BY <1>0, <1>1, <1>3, <2>2, GoneOrSame DEF OldStep
<1>4. CASE \E f \in Files : IntakeStep(f)
  <2>1. PICK f \in Files : IntakeStep(f)
    BY <1>4
  <2>2. CASE Creates(f)
    <3>1. f \in Fresh
      BY <2>2 DEF Creates, IntakeAt
    <3> QED BY <2>2, <3>1, CreatesNewest
  <2> QED BY <1>2, <2>1, <2>2, BesideRow
<1>5. CASE (\E f \in Files : RestoreUp(f)) \/ FolderTrash
  BY <1>0, <1>1, <1>5, GoneOrSame DEF RestoreUp
<1> QED BY <1>3, <1>4, <1>5 DEF NewNext

-----------------------------------------------------------------------------
\* What a step may do to a row: it goes, keeps its number and size, gets new
\* content, or a fresh file's row appears.
Onward ==
    \A f \in Files : file'[f] # None =>
        \/ /\ file[f] # None
           /\ file'[f].key = file[f].key => file'[f].current = file[f].current /\ file'[f].size = file[f].size
        \/ f \in Fresh /\ intake[f].pc # "made"

MadeStays == \A f \in Fresh : intake[f].pc = "made" => intake'[f].pc = "made"

\* A writer changes the number of a row only together with its content.
LEMMA WritersOnward ==
    ASSUME KeptInv, NewestInv, Others, NEW r \in Writers, WriterStep(r) PROVE Onward
<1>1. Shapes
  BY DEF KeptInv
<1>2. CASE file' = file
  BY <1>2 DEF Onward
<1>3. CASE file' # file
  <2> DEFINE f == write[r].file
  <2>1. \E row : /\ write[r].pc \in {"create", "point", "commit", "collapse"} /\ Row(r) # None /\ Put(r, row)
                 /\ \/ row = WithVersion(Row(r), r, NextNumber(r)) /\ write[r].pc = "create"
                    \/ row = Pointed(Row(r), r, NextNumber(r)) /\ write[r].pc = "point"
                    \/ /\ row = Pointed(WithVersion(Row(r), r, NextNumber(r)), r, NextNumber(r))
                       /\ write[r].pc = "commit"
                    \/ /\ row = [Row(r) EXCEPT !.key = r, !.size = write[r].size, !.versions = Kept(r)]
                       /\ write[r].pc = "collapse"
    BY <1>3 DEF WriterStep, WriteStart, WriteReserve, WriteStore, StoreFails, SaveFresh, OverwriteSettle,
                UploadCreate, UploadPoint, SaveCommit, OverwriteCollapse, Free
  <2>2. PICK row : /\ write[r].pc \in {"create", "point", "commit", "collapse"} /\ Row(r) # None /\ Put(r, row)
                   /\ \/ row = WithVersion(Row(r), r, NextNumber(r)) /\ write[r].pc = "create"
                      \/ row = Pointed(Row(r), r, NextNumber(r)) /\ write[r].pc = "point"
                      \/ /\ row = Pointed(WithVersion(Row(r), r, NextNumber(r)), r, NextNumber(r))
                         /\ write[r].pc = "commit"
                      \/ /\ row = [Row(r) EXCEPT !.key = r, !.size = write[r].size, !.versions = Kept(r)]
                         /\ write[r].pc = "collapse"
    BY <2>1
  <2>3. /\ f \in Files /\ Row(r) = file[f] /\ Row(r) \in FileRow /\ Stored(r) \in Content
        /\ write[r].size \in Int /\ r \in Keys
    BY <1>1, <2>2, RowFacts DEF Busy, Shapes, Writer, Keys
  <2>4. \A old \in FileRow : Pointed(old, r, NextNumber(r)).key = r
    BY DEF Pointed, FileRow
  <2>5. /\ WithVersion(Row(r), r, NextNumber(r)) \in FileRow
        /\ WithVersion(Row(r), r, NextNumber(r)).current = Row(r).current
        /\ WithVersion(Row(r), r, NextNumber(r)).size = Row(r).size
        /\ [Row(r) EXCEPT !.key = r, !.size = write[r].size, !.versions = Kept(r)].key = r
    BY <2>3 DEF WithVersion, FileRow
  <2>6. write[r].pc = "point" => r \in Uploads
    BY DEF KeptInv, Progress, ProgressOf
  <2>7. \/ row.current = file[f].current /\ row.size = file[f].size
        \/ file[f].key # r /\ row.key = r
    <3>1. CASE write[r].pc = "create"
      <4>1. row = WithVersion(Row(r), r, NextNumber(r))
        BY <2>2, <3>1
      <4> HIDE DEF WithVersion
      <4> QED BY <2>3, <2>5, <4>1
    <3>2. CASE write[r].pc \in {"point", "commit", "collapse"}
      <4>1. row.key = r
        <5>1. CASE write[r].pc = "collapse"
          BY <2>2, <2>5, <5>1
        <5>2. CASE write[r].pc \in {"point", "commit"}
          BY <2>2, <2>3, <2>4, <2>5, <5>2
        <5> QED BY <3>2, <5>1, <5>2
      <4>2. file[f].key # r
        BY <1>1, <2>2, <2>3, <2>6, <3>2, NotYetShown DEF Before
      <4> QED BY <4>1, <4>2
    <3> QED BY <2>2, <3>1, <3>2
  <2>8. file'[f] = row /\ \A g \in Files \ {f} : file'[g] = file[g]
    BY <1>1, <2>2, <2>3 DEF Put, Shapes
  <2> HIDE DEF f
  <2> QED BY <2>2, <2>3, <2>7, <2>8 DEF Onward
<1> QED BY <1>2, <1>3

\* So does every other step of FileVersions and NewFiles.
LEMMA FilesOnward ==
    ASSUME KeptInv, NewestInv, remux' = remux, NewNext PROVE Onward /\ MadeStays
<1>0. Shapes
  BY DEF KeptInv
<1>1. CASE OldStep
  <2>1. Others /\ intake' = intake
    BY <1>1 DEF OldStep, Others
  <2> QED BY <1>0, <1>1, <2>1, WritersOnward, GoneOrSame DEF OldStep, Dims, Onward, MadeStays
<1>2. CASE \E f \in Files : IntakeStep(f)
  <2>1. PICK f \in Files : IntakeStep(f)
    BY <1>2
  <2>2. CASE Creates(f)
    <3>1. /\ f \in Fresh /\ intake[f].pc = "create" /\ intake' = [intake EXCEPT ![f].pc = "made"]
          /\ \A g \in Files \ {f} : file'[g] = file[g]
      BY <1>0, <2>2 DEF Creates, IntakeAt, IntakeMove, Shapes
    <3>2. \A g \in Fresh \ {f} : intake'[g] = intake[g]
      BY <1>0, <3>1 DEF Shapes
    <3> QED BY <3>1, <3>2 DEF Onward, MadeStays
  <2>3. CASE ~Creates(f)
    <3>1. /\ file' = file /\ f \in Fresh /\ intake[f].pc # "made"
          /\ \E i : intake' = [intake EXCEPT ![f] = i]
      BY <2>1, <2>3, BesideRow
    <3>2. \A g \in Fresh \ {f} : intake'[g] = intake[g]
      BY <1>0, <3>1 DEF Shapes
    <3> QED BY <3>1, <3>2 DEF Onward, MadeStays
  <2> QED BY <2>2, <2>3
<1>3. CASE (\E f \in Files : RestoreUp(f)) \/ FolderTrash
  <2>1. intake' = intake
    BY <1>3 DEF RestoreUp, FolderTrash
  <2> QED BY <1>0, <1>3, <2>1, GoneOrSame DEF RestoreUp, Dims, Onward, MadeStays
<1> QED BY <1>1, <1>2, <1>3 DEF NewNext

-----------------------------------------------------------------------------
\* While no content changes under a remux, what it read stays the current version.
LEMMA TiedFollows ==
    ASSUME KeptInv, KeptInv', RemuxTied, Onward, MadeStays, Follow, Undisturbed, ~Overlap PROVE RemuxTied'
<1>1. /\ remux' = remux
      /\ \A f \in due' : f \in due \/ (f \in Videos /\ (Rewritten(f) \/ Appears(f)))
  BY DEF Follow, Launch
<1>2. \A f \in Files : Arrived(f) => Arrived(f)'
  BY DEF Arrived, MadeStays
<1>3. \A f \in Videos : f \in Files /\ (file'[f] # None => Arrived(f)')
  BY MediaAssumption DEF KeptInv, FreshOnce, Arrived
<1>4. \A f \in due' : f \in Videos /\ Arrived(f)'
  BY <1>1, <1>2, <1>3 DEF RemuxTied, Rewritten, Appears
<1>5. ASSUME NEW q \in Remuxes, remux[q].pc \in {"read", "held", "update"}
      PROVE  /\ remux[q].row \in Videos /\ Arrived(remux[q].row)'
             /\ file'[remux[q].row] # None =>
                   remux[q].seen # None /\ remux[q].seen.current = file'[remux[q].row].current
  <2>1. /\ remux[q].row \in Videos /\ remux[q].row \in Files /\ Arrived(remux[q].row)
        /\ file[remux[q].row] # None =>
              remux[q].seen # None /\ remux[q].seen.current = file[remux[q].row].current
    BY <1>3, <1>5 DEF RemuxTied
  <2>2. ~Quiet(remux[q].row)
    BY <1>5 DEF Quiet
  <2>3. Rewritten(remux[q].row) => file'[remux[q].row] = file[remux[q].row]
    BY <2>1, <2>2 DEF Undisturbed
  <2>4. ~Rewritten(remux[q].row)
    BY <2>3 DEF Rewritten
  <2>5. file'[remux[q].row] # None =>
            file[remux[q].row] # None /\ file'[remux[q].row].current = file[remux[q].row].current
    BY <2>1, <2>4 DEF Onward, Rewritten, Exists, Arrived
  <2> QED BY <1>1, <1>2, <2>1, <2>5
<1> QED BY <1>1, <1>4, <1>5 DEF RemuxTied

\* A step that leaves rows and remuxes alone leaves them tied.
LEMMA RemuxTiedStill ==
    ASSUME RemuxTied, file' = file, remux' = remux, due' = due, MadeStays PROVE RemuxTied'
BY DEF RemuxTied, Arrived, MadeStays

\* The steps of a remux themselves
LEMMA RemuxTiedStep ==
    ASSUME KeptInv, RemuxTied, NEW r \in Remuxes, RemuxStep(r) PROVE RemuxTied'
<1>1. Shapes /\ intake' = intake
  BY DEF KeptInv, RemuxStep, RemuxStart, RemuxFetch, RemuxPut, RemuxUpdate, RemuxCharge, newVars
<1>2. \A f : Arrived(f)' = Arrived(f)
  BY <1>1 DEF Arrived
<1>3. ASSUME NEW step \in {"held", "update", "charge"}, RemuxTo(r, step), write' = write PROVE
        /\ remux'[r].pc = step /\ remux'[r].row = remux[r].row /\ remux'[r].seen = remux[r].seen
        /\ \A q \in Remuxes \ {r} : remux'[q] = remux[q]
  BY <1>1, <1>3 DEF RemuxTo, Shapes
<1>4. RemuxEnd(r) => remux'[r].pc = "unsent" /\ \A q \in Remuxes \ {r} : remux'[q] = remux[q]
  BY <1>1 DEF RemuxEnd, NoRemux, Shapes
<1>5. CASE \E f \in Videos : RemuxStart(r, f)
  <2>1. PICK f \in Videos : RemuxStart(r, f)
    BY <1>5
  <2>2. /\ remux'[r].pc = "read" /\ remux'[r].row = f /\ remux'[r].seen = file[f]
        /\ \A q \in Remuxes \ {r} : remux'[q] = remux[q]
        /\ file' = file /\ due' \subseteq due /\ (f \in due \/ Live(f))
    BY <1>1, <2>1 DEF RemuxStart, Shapes, newVars, vars
  <2>3. Arrived(f)
    BY <2>2 DEF KeptInv, FreshOnce, Arrived, Live, Exists, RemuxTied
  <2> QED BY <1>2, <2>2, <2>3 DEF RemuxTied
<1>6. CASE RemuxFetch(r) \/ RemuxPut(r)
  <2>1. /\ file' = file /\ due' = due /\ write' = write /\ remux[r].pc \in {"read", "held"}
        /\ (RemuxTo(r, "held") \/ RemuxTo(r, "update") \/ RemuxEnd(r))
    BY <1>6 DEF RemuxFetch, RemuxPut, newVars, vars
  <2> QED BY <1>2, <1>3, <1>4, <2>1 DEF RemuxTied
<1>7. CASE RemuxCharge(r)
  <2>1. file' = file /\ due' = due /\ RemuxEnd(r)
    BY <1>7 DEF RemuxCharge
  <2> QED BY <1>2, <1>4, <2>1 DEF RemuxTied
<1>8. CASE RemuxUpdate(r)
  <2>1. due' = due /\ write' = write /\ (RemuxTo(r, "charge") \/ RemuxEnd(r))
    BY <1>8 DEF RemuxUpdate
  <2>2. \A f \in Files : file'[f] # None => file[f] # None /\ file'[f].current = file[f].current
    <3>1. CASE file' = file
      BY <3>1
    <3>2. CASE file' # file
      <4> DEFINE f == remux[r].row
                 v == remux[r].seen.current
      <4>1. Exists(f) /\ file' = [file EXCEPT ![f].size = Shrunk(r),
                               ![f].versions[v] = IF @ = None THEN None ELSE [key |-> @.key, size |-> Shrunk(r)]]
        BY <1>8, <3>2 DEF RemuxUpdate
      <4>2. \A g \in Files : g # f => file'[g] = file[g]
        BY <1>1, <4>1 DEF Shapes
      <4>3. f \in Files => file[f] \in FileRow /\ file[f] # None
        BY <1>1, <4>1 DEF Shapes, Exists
      <4>4. f \in Files => file'[f].current = file[f].current
        BY <1>1, <4>1, <4>3 DEF Shapes, FileRow
      <4> HIDE DEF f, v
      <4> QED BY <4>2, <4>3, <4>4
    <3> QED BY <3>1, <3>2
  <2>3. \A q \in Remuxes : remux'[q].pc \in {"read", "held", "update"} => remux'[q] = remux[q]
    BY <1>3, <1>4, <2>1
  <2>4. \A q \in Remuxes : remux[q].pc \in {"read", "held", "update"} => remux[q].row \in Files
    BY MediaAssumption DEF RemuxTied
  <2> QED BY <1>2, <2>1, <2>2, <2>3, <2>4 DEF RemuxTied
<1> QED BY <1>5, <1>6, <1>7, <1>8 DEF RemuxStep

\* The renditions, transcripts, posters and checksums leave rows and remuxes alone.
LEMMA WorkTied ==
    ASSUME KeptInv, RemuxTied,
           \/ HlsStep \/ TextStep \/ \E f \in Videos : RenditionsGo(f)
           \/ \E f \in Videos, k \in Keys : ThumbDone(f, k) \/ ChecksumDone(f, k)
    PROVE  RemuxTied' /\ file' = file /\ write' = write
<1>1. /\ file' = file /\ write' = write /\ remux' = remux /\ due' = due
      /\ \/ intake' = intake
         \/ intake' = [intake EXCEPT ![Subtitles] = IF @.pc = "unsent" THEN NoIntake("idle") ELSE @]
  BY DEF HlsStep, TextStep, RenditionsGo, ThumbDone, ChecksumDone, MakeDone, HlsTake, HlsRun, HlsPut, HlsFlag,
         JobFails, TextTake, TextRun, TextSibling, TextDone, Take, newVars, vars
<1>2. MadeStays
  BY <1>1 DEF KeptInv, Shapes, MadeStays
<1> QED BY <1>1, <1>2, RemuxTiedStill

-----------------------------------------------------------------------------
\* Both hold before any request came.
LEMMA NewestInit ==
    ASSUME OverwritesApart, MediaInit PROVE NewestInv /\ RemuxTied
<1>0. KeptInv
  BY KeptInit
<1>1. PICK sent \in Workloads :
        /\ NewInitFor(sent) /\ due = {}
        /\ remux = [q \in Remuxes |-> NoRemux(Starts(q, sent))]
  BY DEF MediaInit
<1> DEFINE there == Named(sent) \ Fresh
<1>2. InitFor(sent)
  BY <1>1 DEF NewInitFor
<1>3. file = [f \in Files |-> IF f \in there THEN FirstRow(f) ELSE None]
  BY <1>2 DEF InitFor
<1>4. write = [r \in Writers |-> NoWrite(Starts(r, sent))]
  BY <1>2 DEF InitFor
<1>5. \A r : Starts(r, sent) \in {"idle", "unsent"}
  BY DEF Starts
<1>6. \A r \in Writers : write[r].pc \in {"idle", "unsent"} /\ write[r].seen = None
  BY <1>4, <1>5 DEF NoWrite
<1>7. \A f \in Files : file[f] # None => file[f] = FirstRow(f)
  BY <1>3
<1> HIDE DEF there
<1>8. ASSUME NEW f \in Files, file[f] # None
      PROVE  /\ file[f].current = Len(History) /\ file[f].key = <<f, Len(History)>>
             /\ file[f].size = History[Len(History)]
             /\ \A v \in Numbers : /\ v <= Len(History) => file[f].versions[v] = [key |-> <<f, v>>, size |-> History[v]]
                                   /\ ~(v <= Len(History)) => file[f].versions[v] = None
  <2>1. Len(History) \in Nat
    BY NumberFacts
  <2>2. file[f] = FirstRow(f)
    BY <1>7, <1>8
  <2>3. file[f].current = Len(History) /\ file[f].key = <<f, Len(History)>> /\ file[f].size = History[Len(History)]
    BY <2>2 DEF FirstRow
  <2>4. file[f].versions = [v \in Numbers |->
                              IF v <= Len(History) THEN [key |-> <<f, v>>, size |-> History[v]] ELSE None]
    BY <2>2 DEF FirstRow
  <2> QED BY ONLY <2>3, <2>4
<1>9. ASSUME NEW f \in Files, NEW v \in Numbers, v <= Len(History)
      PROVE  [key |-> <<f, v>>, size |-> History[v]] # None /\ v \in DOMAIN History
  <2>1. v \in DOMAIN History /\ History[v] \in Int
    BY <1>9, NumberFacts DEF Numbers
  <2>2. [key |-> <<f, v>>, size |-> History[v]] \in Content
    BY <2>1 DEF Content, Keys
  <2> QED BY <2>1, <2>2, NoneAssumption
<1>10. Len(History) \in Numbers /\ Len(History) \in Nat /\ \A v \in Numbers : v \in Nat
  BY NumberFacts DEF Numbers
<1>11. Distinct
  <2> SUFFICES ASSUME NEW r \in Writers, NEW f \in Files, NEW v \in Numbers, InPlace(r, f, v) PROVE FALSE
    BY DEF Distinct
  <2>1. file[f] # None /\ v <= Len(History) /\ r = <<f, v>>
    <3>1. file[f] # None /\ file[f].versions[v] # None /\ file[f].versions[v].key = r
      BY DEF InPlace
    <3>2. v <= Len(History)
      BY <1>8, <3>1
    <3>3. file[f].versions[v] = [key |-> <<f, v>>, size |-> History[v]]
      BY <1>8, <3>1, <3>2
    <3> QED BY <3>1, <3>2, <3>3
  <2>2. r \in Files \X DOMAIN History
    BY <1>9, <2>1
  <2> QED BY <2>2, VersionsAssumption
<1>12. Current
  <2> SUFFICES ASSUME NEW f \in Files, file[f] # None PROVE Shown(file[f])
    BY DEF Current
  <2>1. Len(History) <= Len(History)
    BY <1>10
  <2>2. file[f].versions[Len(History)] = [key |-> <<f, Len(History)>>, size |-> History[Len(History)]]
    BY <1>8, <1>10, <2>1
  <2> QED BY <1>8, <2>2 DEF Shown
<1>13. Newer
  <2> SUFFICES ASSUME NEW f \in Files, NEW v \in Numbers, file[f] # None, v > file[f].current, file[f].versions[v] # None
               PROVE  FALSE
    BY DEF Newer
  <2>1. ~(v <= Len(History))
    BY <1>8, <1>10
  <2> QED BY <1>8, <2>1
<1>14. Pointing /\ Tied
  BY <1>6 DEF Pointing, Tied, Writers
<1>15. Dense
  BY <1>8, <1>9 DEF Dense
<1>16. RemuxTied
  BY <1>1, <1>5 DEF RemuxTied, NoRemux
<1> QED BY <1>11, <1>12, <1>13, <1>14, <1>15, <1>16 DEF NewestInv

\* What the invariant says of a file is what a reader of it needs.
LEMMA NewestShown ==
    ASSUME NewestInv PROVE CurrentIsNewest
<1> SUFFICES ASSUME NEW f \in Files, file[f] # None
             PROVE  /\ file[f].versions[file[f].current] = [key |-> file[f].key, size |-> file[f].size]
                    /\ \A v \in Numbers : v > file[f].current /\ v \in Has(file[f]) =>
                          \E r \in Uploads : /\ write[r].pc = "point" /\ write[r].file = f
                                             /\ file[f].versions[v] = Stored(r)
  BY DEF CurrentIsNewest, Exists
<1>1. Shown(file[f])
  BY DEF NewestInv, Current
<1>2. ASSUME NEW v \in Numbers, v > file[f].current, v \in Has(file[f])
      PROVE  \E r \in Uploads : /\ write[r].pc = "point" /\ write[r].file = f
                                /\ file[f].versions[v] = Stored(r)
  <2>1. file[f].versions[v] # None
    BY <1>2 DEF Has
  <2>2. PICK r \in Uploads : Points(r, f, v)
    BY <1>2, <2>1 DEF NewestInv, Newer
  <2>3. write[r].pc = "point" /\ write[r].file = f /\ NextNumber(r) = v /\ Row(r) = file[f]
    BY <2>2 DEF Points, Row
  <2>4. Row(r).versions[NextNumber(r)] = Stored(r)
    BY <2>3 DEF NewestInv, Pointing
  <2> QED BY <2>3, <2>4
<1> QED BY <1>1, <1>2 DEF Shown

\* While no content changes under a remux, every step keeps both.
LEMMA NewestStep ==
    ASSUME KeptInv, NewestInv, RemuxTied, ~Overlap, [MediaNext]_mediaVars PROVE KeptInv' /\ NewestInv' /\ RemuxTied'
<1>0. KeptInv'
  BY KeptStep
<1>1. CASE NewNext /\ Follow /\ Undisturbed
  <2>1. NewestInv' /\ Onward /\ MadeStays
    BY <1>1, FilesNewest, FilesOnward DEF Follow
  <2> QED BY <1>0, <1>1, <2>1, TiedFollows
<1>2. CASE \E r \in Remuxes : RemuxStep(r)
  <2>1. PICK r \in Remuxes : RemuxStep(r)
    BY <1>2
  <2>2. RemuxTied'
    BY <2>1, RemuxTiedStep
  <2>3. NewestInv'
    <3>1. CASE RemuxUpdate(r)
      BY <3>1, RemuxNewest
    <3>2. CASE ~RemuxUpdate(r)
      <4>1. file' = file /\ write' = write
        BY <2>1, <3>2 DEF RemuxStep, RemuxStart, RemuxFetch, RemuxPut, RemuxCharge, newVars, vars
      <4> QED BY <4>1, DimsKeep DEF Dims
    <3> QED BY <3>1, <3>2
  <2> QED BY <1>0, <2>2, <2>3
<1>3. CASE \/ HlsStep \/ TextStep \/ \E f \in Videos : RenditionsGo(f)
           \/ \E f \in Videos, k \in Keys : ThumbDone(f, k) \/ ChecksumDone(f, k)
  <2>1. RemuxTied' /\ file' = file /\ write' = write
    BY <1>3, WorkTied
  <2>2. NewestInv'
    BY <2>1, DimsKeep DEF Dims
  <2> QED BY <1>0, <2>1, <2>2
<1>4. CASE UNCHANGED mediaVars
  <2>1. file' = file /\ write' = write /\ intake' = intake /\ remux' = remux /\ due' = due
    BY <1>4 DEF mediaVars, newVars, vars, jobVars
  <2>2. NewestInv'
    BY <2>1, DimsKeep DEF Dims
  <2>3. RemuxTied'
    BY <2>1, RemuxTiedStill DEF MadeStays
  <2> QED BY <1>0, <2>2, <2>3
<1> QED BY <1>1, <1>2, <1>3, <1>4 DEF MediaNext

\* A file shows the content of the version it calls current, and a newer version
\* exists only while its upload is about to point the file at it
\* (CurrentIsNewest), although uploads insert and point in two statements, saves
\* retry, overwrites collapse the history and a remux rewrites size and version.
THEOREM NewestIsCurrent ==
    ASSUME OverwritesApart, ~Overlap PROVE MediaSpec => []CurrentIsNewest
<1> DEFINE I == KeptInv /\ NewestInv /\ RemuxTied
<1>1. MediaInit => I
  BY KeptInit, NewestInit
<1>2. I /\ [MediaNext]_mediaVars => I'
  BY NewestStep
<1>3. I => CurrentIsNewest
  BY NewestShown
<1> QED BY <1>1, <1>2, <1>3, PTL DEF MediaSpec

-----------------------------------------------------------------------------
(* What is derived from the content of a file *)

DerivedShapes ==
    /\ DOMAIN derived = Made /\ \A what \in Made : DOMAIN derived[what] = Videos
    /\ rendition \in [Videos -> [of : Keys \cup {None}, whole : BOOLEAN]]
    /\ ready \in [Videos -> BOOLEAN]
    /\ DOMAIN job = Workers /\ DOMAIN queue = Workers
    /\ job["hls"] \in [pc : {"idle", "run", "put", "flag"}, file : Videos \cup {None}, key : Keys \cup {None}]
    /\ queue["hls"] \in Seq(Videos)
    /\ \A q \in Remuxes : remux[q].pc \in {"read", "held", "update", "charge"} => remux[q].row \in Videos

\* The file is there, or was, and while it is there it has that content.
Shows(f, k) == Arrived(f) /\ (file[f] # None => file[f].key = k)

\* Renditions that are announced are whole and of the content; nobody is about to
\* remove them.
Announced ==
    \A f \in Videos : ready[f] =>
        file[f] # None /\ rendition[f] = [of |-> file[f].key, whole |-> TRUE] /\ f \notin dropping

\* Posters and checksums, made or being made, are of the content.
Posters == \A f \in Videos, what \in {"thumb", "sum"} : derived[what][f] # None => Shows(f, derived[what][f])
Making == \A what, f, k : <<what, f, k>> \in making => f \in Videos /\ Shows(f, k)

\* So are the renditions a job stores, which nobody announced and nobody removes.
Packaging ==
    LET f == job["hls"].file k == job["hls"].key
    IN  /\ job["hls"].pc # "idle" => f \in Videos /\ Shows(f, k) /\ ~ready[f]
        /\ job["hls"].pc \in {"put", "flag"} => f \notin dropping /\ rendition[f].of = k
        /\ job["hls"].pc = "flag" => rendition[f].whole

\* So is what a remux will have a poster made of.
Asked(q) ==
    remux[q].poster => /\ remux[q].pc \in {"read", "held", "update", "charge"}
                       /\ remux[q].row \in Videos /\ Shows(remux[q].row, remux[q].seen.key)
Asking == \A q \in Remuxes : Asked(q)

DerivedInv == DerivedShapes /\ Announced /\ Posters /\ Making /\ Packaging /\ Asking

\* Content shows until it is rewritten, however the file comes and goes.
LEMMA ShowsOn ==
    ASSUME Onward, MadeStays, NEW f \in Videos, ~Rewritten(f), NEW k, Shows(f, k) PROVE Shows(f, k)'
<1>1. f \in Files /\ Arrived(f)
  BY MediaAssumption DEF Shows
<1>2. Arrived(f)'
  BY <1>1 DEF Arrived, MadeStays
<1>3. file'[f] # None => file[f] # None /\ file'[f].key = file[f].key
  BY <1>1 DEF Onward, Arrived, Rewritten, Exists
<1> QED BY <1>2, <1>3 DEF Shows

\* No content is rewritten under a job.
LEMMA NotUnderJobs ==
    ASSUME Undisturbed, ~Overlap, NEW f \in Videos, Rewritten(f) PROVE Quiet(f)
BY DEF Undisturbed, Rewritten

\* A step of the files: new content forgets what was made of the old.
LEMMA FilesDerived ==
    ASSUME KeptInv, KeptInv', DerivedInv, Onward, MadeStays, Follow, Undisturbed, ~Overlap PROVE DerivedInv'
<1>0. DerivedShapes /\ Videos \subseteq Files
  BY MediaAssumption DEF DerivedInv
<1>1. UNCHANGED <<remux, queue, job, rendition>>
  BY DEF Follow
<1>2. /\ ready' = [f \in Videos |-> ready[f] /\ file'[f] # None /\ ~Rewritten(f)]
      /\ dropping' = dropping \cup {f \in Videos : Rewritten(f) /\ ready[f]}
      /\ derived' = [what \in Made |->
                       [f \in Videos |->
                          CASE what = "sum" /\ (Rewritten(f) \/ (Appears(f) /\ Kind[f] # "import")) -> file'[f].key
                            [] what = "thumb" /\ Rewritten(f) -> None
                            [] OTHER -> derived[what][f]]]
  BY DEF Follow, Forget
<1>3. \A f \in Files : file'[f] # None => Arrived(f)'
  BY DEF KeptInv, FreshOnce, Arrived
<1>4. DerivedShapes'
  BY <1>0, <1>1, <1>2 DEF DerivedShapes
<1>5. Announced'
  <2> SUFFICES ASSUME NEW f \in Videos, ready'[f]
      PROVE file'[f] # None /\ rendition[f] = [of |-> file'[f].key, whole |-> TRUE] /\ f \notin dropping'
    BY <1>1 DEF Announced
  <2>1. ready[f] /\ file'[f] # None /\ ~Rewritten(f)
    BY <1>2
  <2>2. file[f] # None /\ rendition[f] = [of |-> file[f].key, whole |-> TRUE] /\ f \notin dropping
    BY <2>1 DEF DerivedInv, Announced
  <2> QED BY <1>2, <2>1, <2>2 DEF Rewritten, Exists
<1>6. Posters'
  <2> SUFFICES ASSUME NEW f \in Videos, NEW what \in {"thumb", "sum"}, NEW k, k = derived'[what][f], k # None
      PROVE Shows(f, k)'
    BY DEF Posters, Shows, Arrived
  <2>1. CASE what = "sum" /\ (Rewritten(f) \/ (Appears(f) /\ Kind[f] # "import"))
    <3>1. k = file'[f].key /\ file'[f] # None
      BY <1>2, <2>1 DEF Made, Rewritten, Appears
    <3> QED BY <1>0, <1>3, <3>1 DEF Shows
  <2>2. CASE what = "thumb" /\ Rewritten(f)
    BY <1>2, <2>2 DEF Made
  <2>3. CASE ~Rewritten(f) /\ ~(what = "sum" /\ Appears(f) /\ Kind[f] # "import")
    <3>1. k = derived[what][f]
      BY <1>2, <2>3 DEF Made
    <3>2. Shows(f, k)
      BY <3>1 DEF DerivedInv, Posters
    <3> QED BY <2>3, <3>2, ShowsOn
  <2> QED BY <2>1, <2>2, <2>3
<1>7. Making'
  <2> SUFFICES ASSUME NEW what, NEW f, NEW k, <<what, f, k>> \in making' PROVE f \in Videos /\ Shows(f, k)'
    BY DEF Making
  <2>1. CASE <<what, f, k>> \in making
    <3>1. f \in Videos /\ Shows(f, k)
      BY <2>1 DEF DerivedInv, Making
    <3>2. ~Quiet(f)
      <4>1. PICK m \in making : m = <<what, f, k>>
        BY <2>1
      <4>2. m[2] = f
        BY <4>1
      <4> QED BY <4>1, <4>2 DEF Quiet
    <3>3. ~Rewritten(f)
      BY <3>1, <3>2, NotUnderJobs
    <3> QED BY <3>1, <3>3, ShowsOn
  <2>2. CASE <<what, f, k>> \notin making
    <3>1. \E g \in Videos : (Rewritten(g) \/ Appears(g)) /\ <<what, f, k>> \in {<<"thumb", g, file'[g].key>>, <<"sum", g, file'[g].key>>}
      BY <2>2 DEF Follow, Launch
    <3>2. f \in Videos /\ file'[f] # None /\ k = file'[f].key
      BY <3>1 DEF Rewritten, Appears
    <3> QED BY <1>0, <1>3, <3>2 DEF Shows
  <2> QED BY <2>1, <2>2
<1>8. Packaging'
  <2>1. CASE job["hls"].pc = "idle"
    BY <1>1, <2>1 DEF Packaging
  <2>2. CASE job["hls"].pc # "idle"
    <3> DEFINE f == job["hls"].file k == job["hls"].key
    <3>1. f \in Videos /\ Shows(f, k) /\ ~ready[f]
      BY <2>2 DEF DerivedInv, Packaging
    <3>2. ~Quiet(f)
      BY DEF Quiet, Workers
    <3> HIDE DEF f, k
    <3>3. ~Rewritten(f)
      BY <3>1, <3>2, NotUnderJobs
    <3>4. \A g, h : g = f /\ h = k => Shows(g, h)'
      BY <3>1, <3>3, ShowsOn
    <3>5. Shows(job["hls"].file, job["hls"].key)'
      BY <1>1, <3>4 DEF Shows, Arrived, f, k
    <3>6. ~ready'[f] /\ (f \in dropping' => f \in dropping)
      BY <1>2, <3>1, <3>3
    <3> QED BY <1>1, <3>1, <3>5, <3>6 DEF DerivedInv, Packaging, f, k
  <2> QED BY <2>1, <2>2
<1>9. Asking'
  <2> SUFFICES ASSUME NEW q \in Remuxes, remux[q].poster
               PROVE  /\ remux[q].pc \in {"read", "held", "update", "charge"}
                      /\ remux[q].row \in Videos /\ Shows(remux[q].row, remux[q].seen.key)'
    BY <1>1 DEF Asking, Asked, Shows, Arrived
  <2>1. /\ remux[q].pc \in {"read", "held", "update", "charge"}
        /\ remux[q].row \in Videos /\ Shows(remux[q].row, remux[q].seen.key)
    BY DEF DerivedInv, Asking, Asked
  <2>2. PICK f, k : f = remux[q].row /\ k = remux[q].seen.key
    OBVIOUS
  <2>3. ~Rewritten(f)
    BY <2>1, <2>2, NotUnderJobs DEF Quiet
  <2>4. Shows(f, k)'
    BY <2>1, <2>2, <2>3, ShowsOn
  <2> QED BY <1>1, <2>1, <2>2, <2>4 DEF Shows, Arrived
<1> QED BY <1>4, <1>5, <1>6, <1>7, <1>8, <1>9 DEF DerivedInv

\* The rows keep their content, and none comes or goes.
ContentStays ==
    \A f \in Files : /\ file'[f] = None <=> file[f] = None
                     /\ file[f] # None => file'[f].key = file[f].key

\* What is said of the workers stays while rows keep their content.
LEMMA DerivedStays ==
    ASSUME Announced, Posters, Making, Packaging, MadeStays, Videos \subseteq Files, ContentStays,
           UNCHANGED <<job, rendition, ready, derived, making, dropping>>
    PROVE  Announced' /\ Posters' /\ Making' /\ Packaging'
<1>1. \A f \in Videos : \A k : Shows(f, k) => Arrived(f)' /\ (file'[f] # None => file'[f].key = k)
  BY DEF Shows, Arrived, MadeStays, ContentStays
<1>2. Announced'
  BY DEF Announced, ContentStays
<1>3. Posters'
  BY <1>1 DEF Posters, Shows, Arrived
<1>4. Making'
  BY <1>1 DEF Making, Shows, Arrived
<1>5. Packaging'
  BY <1>1 DEF Packaging, Shows, Arrived
<1> QED BY <1>2, <1>3, <1>4, <1>5

\* A remux settles sizes: a row keeps its content.
LEMMA RemuxSame ==
    ASSUME Shapes, RemuxTied, NEW r \in Remuxes, RemuxStep(r)
    PROVE  ContentStays
<1>1. CASE file' = file
  BY <1>1 DEF ContentStays
<1>2. CASE file' # file
  <2> DEFINE f == remux[r].row
             v == remux[r].seen.current
             old == file[f].versions
             new == [old EXCEPT ![v] = IF @ = None THEN None ELSE [key |-> @.key, size |-> Shrunk(r)]]
             row == [file[f] EXCEPT !.size = Shrunk(r), !.versions = new]
  <2>1. /\ remux[r].pc = "update" /\ Exists(f)
        /\ file' = [file EXCEPT ![f].size = Shrunk(r),
                       ![f].versions[v] = IF @ = None THEN None ELSE [key |-> @.key, size |-> Shrunk(r)]]
    BY <1>2 DEF RemuxStep, RemuxStart, RemuxFetch, RemuxPut, RemuxUpdate, RemuxCharge, newVars, vars
  <2>2. f \in Files /\ file[f] \in FileRow /\ file[f] # None
    BY <2>1, MediaAssumption DEF Shapes, Exists, RemuxTied
  <2>3. remux[r].seen \in FileRow
    BY <2>1 DEF Shapes
  <2>4. Shrunk(r) \in Int /\ old \in [Numbers -> Content \cup {None}]
    BY <2>2, <2>3 DEF Shrunk, FileRow
  <2>5. file' = [file EXCEPT ![f] = row]
    BY <2>1, <2>2 DEF Shapes, FileRow
  <2>6. new \in [Numbers -> Content \cup {None}]
    <3>1. \A c \in Content : [key |-> c.key, size |-> Shrunk(r)] \in Content
      BY <2>4 DEF Content
    <3> QED BY <2>4, <3>1
  <2> HIDE DEF new
  <2>7. row \in FileRow /\ row.key = file[f].key
    BY <2>2, <2>4, <2>6 DEF FileRow
  <2> HIDE DEF row, f
  <2>8. file'[f] = row /\ \A g \in Files \ {f} : file'[g] = file[g]
    BY <2>2, <2>5 DEF Shapes
  <2> QED BY <2>2, <2>7, <2>8, NoneAssumption DEF ContentStays
<1> QED BY <1>1, <1>2

\* A step of a remux starts one, goes on with it, or ends it and hands the file on
\* to the workers.
LEMMA RemuxMoves ==
    ASSUME Shapes, DerivedShapes, Asking, NEW r \in Remuxes, RemuxStep(r)
    PROVE  /\ UNCHANGED <<intake, job, rendition, ready, derived, dropping>>
           /\ \A q \in Remuxes \ {r} : remux'[q] = remux[q]
           /\ \/ /\ remux'[r].pc \in {"read", "held", "update", "charge"} /\ remux'[r].row \in Videos
                 /\ UNCHANGED <<queue, making>>
                 /\ \/ /\ remux'[r].row = remux[r].row /\ remux'[r].seen = remux[r].seen
                       /\ remux'[r].poster = remux[r].poster
                    \/ /\ remux'[r].seen = file[remux'[r].row] /\ (remux'[r].poster => Live(remux'[r].row))
                       /\ file' = file
              \/ /\ remux'[r].pc = "unsent" /\ ~remux'[r].poster /\ remux[r].row \in Videos
                 /\ queue' = [w \in Workers |-> Append(queue[w], remux[r].row)]
                 /\ \/ making' = making
                    \/ /\ making' = making \cup {<<"thumb", remux[r].row, remux[r].seen.key>>}
                       /\ Shows(remux[r].row, remux[r].seen.key)
<1>1. UNCHANGED <<intake, job, rendition, ready, derived, dropping>>
  BY DEF RemuxStep, RemuxStart, RemuxFetch, RemuxPut, RemuxUpdate, RemuxCharge, newVars, vars, dataVars
<1>2. CASE \E f \in Videos : RemuxStart(r, f)
  <2>1. PICK f \in Videos : RemuxStart(r, f)
    BY <1>2
  <2> DEFINE poster == remux[r].pc = "idle" /\ derived["thumb"][f] = None
             started == [pc |-> "read", row |-> f, seen |-> file[f], poster |-> poster]
  <2>2. remux' = [remux EXCEPT ![r] = started] /\ UNCHANGED <<queue, making, file>> /\ (poster => Live(f))
    BY <2>1 DEF RemuxStart, newVars, vars
  <2>3. started.pc = "read" /\ started.row = f /\ started.seen = file[f] /\ (started.poster <=> poster)
    OBVIOUS
  <2> HIDE DEF started, poster
  <2>4. remux'[r] = started /\ \A q \in Remuxes \ {r} : remux'[q] = remux[q]
    BY <2>2 DEF Shapes
  <2> QED BY <1>1, <2>2, <2>3, <2>4
<1>3. CASE RemuxFetch(r) \/ RemuxPut(r) \/ RemuxUpdate(r) \/ RemuxCharge(r)
  <2>1. /\ remux[r].pc \in {"read", "held", "update", "charge"}
        /\ RemuxEnd(r) \/ \E step \in {"held", "update", "charge"} : RemuxTo(r, step)
    BY <1>3 DEF RemuxFetch, RemuxPut, RemuxUpdate, RemuxCharge
  <2>2. remux[r].row \in Videos
    BY <2>1 DEF DerivedShapes
  <2>3. CASE RemuxEnd(r)
    <3>1. remux'[r].pc = "unsent" /\ ~remux'[r].poster /\ \A q \in Remuxes \ {r} : remux'[q] = remux[q]
      BY <2>3 DEF RemuxEnd, NoRemux, Shapes
    <3>2. /\ queue' = [w \in Workers |-> Append(queue[w], remux[r].row)]
          /\ \/ making' = making
             \/ /\ making' = making \cup {<<"thumb", remux[r].row, remux[r].seen.key>>}
                /\ Shows(remux[r].row, remux[r].seen.key)
      BY <2>3 DEF RemuxEnd, Asking, Asked
    <3> QED BY <1>1, <2>2, <3>1, <3>2
  <2>4. CASE \E step \in {"held", "update", "charge"} : RemuxTo(r, step)
    <3>1. /\ remux'[r].pc \in {"held", "update", "charge"} /\ remux'[r].row = remux[r].row
          /\ remux'[r].seen = remux[r].seen /\ remux'[r].poster = remux[r].poster
          /\ \A q \in Remuxes \ {r} : remux'[q] = remux[q]
          /\ UNCHANGED <<queue, making>>
      BY <2>4 DEF RemuxTo, Shapes
    <3> QED BY <1>1, <2>2, <3>1
  <2> QED BY <2>1, <2>3, <2>4
<1> QED BY <1>2, <1>3 DEF RemuxStep

\* A remux leaves the content a row has its key.
LEMMA RemuxDerived ==
    ASSUME KeptInv, RemuxTied, DerivedInv, NEW r \in Remuxes, RemuxStep(r) PROVE DerivedInv'
<1>0. Shapes /\ DerivedShapes /\ Videos \subseteq Files /\ Asking
  BY MediaAssumption DEF KeptInv, DerivedInv
<1>1. UNCHANGED <<intake, job, rendition, ready, derived, dropping>>
  BY <1>0, RemuxMoves
<1>2. ContentStays
  BY <1>0, RemuxSame
<1>3. \A f \in Videos : \A k : Shows(f, k) =>
         Arrived(f) /\ Arrived(f)' /\ (file'[f] # None => file'[f].key = k)
  BY <1>0, <1>1, <1>2 DEF Shows, Arrived, ContentStays
<1>4. DerivedShapes'
  <2>1. \A q \in Remuxes : remux'[q].pc \in {"read", "held", "update", "charge"} => remux'[q].row \in Videos
    <3> SUFFICES ASSUME NEW q \in Remuxes, remux'[q].pc \in {"read", "held", "update", "charge"}
                 PROVE  remux'[q].row \in Videos
      OBVIOUS
    <3>1. CASE q = r
      BY <1>0, <3>1, RemuxMoves
    <3>2. CASE q # r
      BY <1>0, <3>2, RemuxMoves DEF DerivedShapes
    <3> QED BY <3>1, <3>2
  <2>2. DOMAIN queue' = Workers /\ queue'["hls"] \in Seq(Videos)
    <3>1. CASE queue' = queue
      BY <1>0, <3>1 DEF DerivedShapes
    <3>2. CASE queue' = [w \in Workers |-> Append(queue[w], remux[r].row)] /\ remux[r].row \in Videos
      <4>1. PICK row \in Videos : row = remux[r].row
        BY <3>2
      <4>2. queue' = [w \in Workers |-> Append(queue[w], row)]
        BY <3>2, <4>1
      <4>3. DOMAIN queue' = Workers /\ queue'["hls"] = Append(queue["hls"], row)
        BY <4>2 DEF Workers
      <4> QED BY <1>0, <4>3 DEF DerivedShapes
    <3> QED BY <1>0, <3>1, <3>2, RemuxMoves
  <2> QED BY <1>0, <1>1, <2>1, <2>2 DEF DerivedShapes
<1>5. Announced' /\ Posters' /\ Packaging'
  <2>1. Announced'
    BY <1>0, <1>1, <1>2 DEF Announced, ContentStays, DerivedInv
  <2>2. Posters'
    BY <1>1, <1>3 DEF Posters, Shows, Arrived, DerivedInv
  <2>3. Packaging'
    BY <1>1, <1>3 DEF Packaging, Shows, Arrived, DerivedInv
  <2> QED BY <2>1, <2>2, <2>3
<1>6. Making'
  <2> SUFFICES ASSUME NEW what, NEW f, NEW k, <<what, f, k>> \in making' PROVE f \in Videos /\ Shows(f, k)'
    BY DEF Making
  <2>1. f \in Videos /\ Shows(f, k)
    <3>1. CASE <<what, f, k>> \in making
      BY <3>1 DEF DerivedInv, Making
    <3>2. CASE <<what, f, k>> \notin making
      <4>1. /\ remux[r].row \in Videos /\ Shows(remux[r].row, remux[r].seen.key)
            /\ <<what, f, k>> = <<"thumb", remux[r].row, remux[r].seen.key>>
        BY <1>0, <3>2, RemuxMoves
      <4> QED BY <4>1
    <3> QED BY <3>1, <3>2
  <2> QED BY <1>3, <2>1 DEF Shows, Arrived
<1>7. Asking'
  <2> SUFFICES ASSUME NEW q \in Remuxes, NEW now, now = remux'[q], now.poster
               PROVE  /\ now.pc \in {"read", "held", "update", "charge"}
                      /\ now.row \in Videos /\ Arrived(now.row)'
                      /\ file'[now.row] # None => file'[now.row].key = now.seen.key
    BY Zenon DEF Asking, Asked, Shows, Arrived
  <2>0. Asked(q)
    BY <1>0 DEF Asking
  <2>1. CASE now = remux[q]
    BY <1>3, <2>0, <2>1 DEF Asked
  <2>2. CASE /\ now.pc \in {"read", "held", "update", "charge"} /\ now.row = remux[q].row
             /\ now.seen = remux[q].seen /\ now.poster = remux[q].poster
    <3>1. remux[q].poster
      BY <2>2
    <3> QED BY <1>3, <2>0, <2>2, <3>1 DEF Asked
  <2>3. CASE /\ now.pc \in {"read", "held", "update", "charge"} /\ now.row \in Videos
             /\ now.seen = file[now.row] /\ Live(now.row) /\ file' = file
    <3>1. file[now.row] # None
      BY <2>3 DEF Live, Exists
    <3>2. Arrived(now.row)'
      BY <1>0, <1>1, <2>3, <3>1 DEF KeptInv, FreshOnce, Arrived
    <3> QED BY <2>3, <3>2
  <2>4. q # r => now = remux[q]
    BY <1>0, RemuxMoves
  <2> QED BY <1>0, <2>1, <2>2, <2>3, <2>4, RemuxMoves
<1> QED BY <1>4, <1>5, <1>6, <1>7 DEF DerivedInv

\* What posters and checksums were made of stays where no row changes.
LEMMA MadeAlike ==
    ASSUME Posters, Making, MadeStays, Videos \subseteq Files, file' = file, derived' = derived, making' = making
    PROVE  Posters' /\ Making'
<1>1. \A f \in Videos : \A k : Shows(f, k) => Arrived(f)' /\ (file'[f] # None => file'[f].key = k)
  BY DEF Shows, Arrived, MadeStays
<1>2. Posters'
  BY <1>1 DEF Posters, Shows, Arrived
<1>3. Making'
  BY <1>1 DEF Making, Shows, Arrived
<1> QED BY <1>2, <1>3

\* The workers store and announce what they made of the content they read.
LEMMA WorkDerived ==
    ASSUME KeptInv, DerivedInv, ~Overlap,
           \/ HlsStep \/ TextStep \/ \E f \in Videos : RenditionsGo(f)
           \/ \E f \in Videos, k \in Keys : ThumbDone(f, k) \/ ChecksumDone(f, k)
    PROVE  DerivedInv'
<1>0. Shapes /\ DerivedShapes /\ Videos \subseteq Files /\ Announced /\ Posters /\ Making /\ Packaging /\ Asking
  BY MediaAssumption DEF KeptInv, DerivedInv
<1>1. file' = file /\ remux' = remux /\ MadeStays
  <2>1. /\ file' = file /\ remux' = remux
        /\ \/ intake' = intake
           \/ intake' = [intake EXCEPT ![Subtitles] = IF @.pc = "unsent" THEN NoIntake("idle") ELSE @]
    BY DEF HlsStep, TextStep, RenditionsGo, ThumbDone, ChecksumDone, MakeDone, HlsTake, HlsRun, HlsPut, HlsFlag,
           JobFails, TextTake, TextRun, TextSibling, TextDone, Take, newVars, vars
  <2> QED BY <1>0, <2>1 DEF Shapes, MadeStays
<1>2. \A f \in Videos : \A k : Shows(f, k) => Arrived(f)' /\ (file'[f] # None => file'[f].key = k)
  BY <1>0, <1>1 DEF Shows, Arrived, MadeStays
<1>9. Asking'
  BY <1>0, <1>1, <1>2 DEF Asking, Asked, Shows, Arrived
<1>3. CASE HlsTake
  <2> DEFINE f == Head(queue["hls"])
  <2>1. /\ job["hls"].pc = "idle" /\ queue["hls"] # <<>> /\ queue' = [queue EXCEPT !["hls"] = Tail(@)]
        /\ job' = IF Live(f) /\ ~ready[f] /\ file[f].size >= MinHls
                    THEN [job EXCEPT !["hls"] = [pc |-> "run", file |-> f, key |-> file[f].key]] ELSE job
        /\ UNCHANGED <<intake, dataVars, making, dropping>>
    BY <1>3 DEF HlsTake, Take, newVars
  <2>2. f \in Videos /\ Tail(queue["hls"]) \in Seq(Videos)
    BY <1>0, <2>1 DEF DerivedShapes
  <2>3. queue'["hls"] \in Seq(Videos) /\ DOMAIN queue' = Workers
    BY <1>0, <2>1, <2>2 DEF DerivedShapes, Workers
  <2>4. Live(f) => Arrived(f) /\ file[f] # None /\ file[f].key \in Keys
    BY <1>0, <2>2 DEF Live, Exists, KeptInv, FreshOnce, Arrived, Shapes, FileRow
  <2> HIDE DEF f
  <2>5. job' = job \/ (job'["hls"] = [pc |-> "run", file |-> f, key |-> file[f].key] /\ DOMAIN job' = Workers /\ Live(f) /\ ~ready[f])
    BY <1>0, <2>1 DEF DerivedShapes, Workers
  <2>6. DerivedShapes'
    BY <1>0, <1>1, <2>1, <2>2, <2>3, <2>4, <2>5 DEF DerivedShapes, dataVars
  <2>7. Packaging'
    <3>1. job'["hls"].pc # "idle" => job'["hls"].pc = "run" /\ job'["hls"].file = f /\ job'["hls"].key = file[f].key /\ Live(f) /\ ~ready[f]
      BY <2>1, <2>5
    <3>2. job'["hls"].pc # "idle" => job'["hls"].file \in Videos /\ Shows(job["hls"].file, job["hls"].key)' /\ ~ready'[job'["hls"].file]
      BY <1>1, <2>1, <2>2, <2>4, <3>1 DEF Shows, Arrived, dataVars
    <3> QED BY <3>1, <3>2 DEF Packaging
  <2>8. Announced' /\ Posters' /\ Making'
    BY <1>0, <1>1, <1>2, <2>1 DEF Announced, Posters, Making, dataVars, Shows, Arrived
  <2> QED BY <1>9, <2>6, <2>7, <2>8 DEF DerivedInv
<1>4. CASE HlsRun \/ HlsPut
  <2>0. PICK f, k : f = job["hls"].file /\ k = job["hls"].key
    OBVIOUS
  <2>1. /\ \/ /\ job["hls"].pc = "run" /\ f \notin dropping /\ job' = [job EXCEPT !["hls"].pc = "put"]
              /\ rendition' = [rendition EXCEPT ![f] = [of |-> k, whole |-> FALSE]]
           \/ /\ job["hls"].pc = "put" /\ job' = [job EXCEPT !["hls"].pc = "flag"]
              /\ rendition' = [rendition EXCEPT ![f].whole = TRUE]
        /\ UNCHANGED <<queue, ready, derived, making, dropping>>
    BY <1>4, <2>0 DEF HlsRun, HlsPut, Doing, Does
  <2>2. /\ f \in Videos /\ Shows(f, k) /\ ~ready[f] /\ f \notin dropping
        /\ job["hls"].pc = "put" => rendition[f].of = k
    BY <1>0, <2>0, <2>1 DEF Packaging
  <2>3. k \in Keys \cup {None} /\ rendition[f] \in [of : Keys \cup {None}, whole : BOOLEAN]
    BY <1>0, <2>0, <2>2 DEF DerivedShapes
  <2>4. /\ DOMAIN job' = Workers /\ job'["hls"].file = f /\ job'["hls"].key = k
        /\ job'["hls"].pc \in {"put", "flag"}
        /\ job'["hls"] \in [pc : {"idle", "run", "put", "flag"}, file : Videos \cup {None}, key : Keys \cup {None}]
    <3>1. PICK now \in [pc : {"idle", "run", "put", "flag"}, file : Videos \cup {None}, key : Keys \cup {None}] :
              now = job["hls"]
      BY <1>0 DEF DerivedShapes
    <3>2. PICK pc \in {"put", "flag"} : job' = [job EXCEPT !["hls"].pc = pc]
      BY <2>1
    <3>3. DOMAIN job' = Workers /\ job'["hls"] = [now EXCEPT !.pc = pc]
      BY <1>0, <3>1, <3>2 DEF DerivedShapes, Workers
    <3> QED BY <2>0, <3>1, <3>3
  <2>5. job'["hls"].pc = "flag" => job["hls"].pc = "put"
    BY <1>0, <2>1 DEF DerivedShapes, Workers
  <2>6. /\ \A g \in Videos \ {f} : rendition'[g] = rendition[g]
        /\ rendition'[f].of = k /\ (job["hls"].pc = "put" => rendition'[f].whole)
        /\ rendition' \in [Videos -> [of : Keys \cup {None}, whole : BOOLEAN]]
    <3>1. PICK old \in [of : Keys \cup {None}, whole : BOOLEAN] : old = rendition[f]
      BY <2>3
    <3>2. PICK new \in [of : Keys \cup {None}, whole : BOOLEAN] :
              /\ rendition' = [rendition EXCEPT ![f] = new]
              /\ new.of = k /\ (job["hls"].pc = "put" => new.whole)
      <4>1. CASE job["hls"].pc = "run"
        <5>1. rendition' = [rendition EXCEPT ![f] = [of |-> k, whole |-> FALSE]]
          BY <2>1, <4>1
        <5>2. [of |-> k, whole |-> FALSE] \in [of : Keys \cup {None}, whole : BOOLEAN]
          BY <2>3
        <5> QED BY <4>1, <5>1, <5>2
      <4>2. CASE job["hls"].pc = "put"
        <5>1. rendition' = [rendition EXCEPT ![f] = [old EXCEPT !.whole = TRUE]] /\ old.of = k
          BY <1>0, <2>1, <2>2, <3>1, <4>2 DEF DerivedShapes
        <5>2. [old EXCEPT !.whole = TRUE] \in [of : Keys \cup {None}, whole : BOOLEAN]
          BY <3>1
        <5> QED BY <5>1, <5>2
      <4> QED BY <2>1, <4>1, <4>2
    <3> QED BY <1>0, <2>2, <3>2 DEF DerivedShapes
  <2>7. DerivedShapes'
    BY <1>0, <1>1, <2>1, <2>4, <2>6 DEF DerivedShapes
  <2>8. Announced'
    BY <1>0, <1>1, <2>1, <2>2, <2>6 DEF Announced
  <2>9. Posters' /\ Making'
    BY <1>0, <1>1, <2>1, MadeAlike
  <2>10. Packaging'
    <3>1. Arrived(f)' /\ (file'[f] # None => file'[f].key = k) /\ ~ready'[f] /\ f \notin dropping'
      BY <1>2, <2>1, <2>2 DEF Arrived
    <3>2. Shows(job["hls"].file, job["hls"].key)'
      BY <2>4, <3>1 DEF Shows, Arrived
    <3> QED BY <2>2, <2>4, <2>5, <2>6, <3>1, <3>2 DEF Packaging
  <2> QED BY <1>9, <2>7, <2>8, <2>9, <2>10 DEF DerivedInv
<1>5. CASE HlsFlag \/ JobFails("hls")
  <2>0. PICK f, k : f = job["hls"].file /\ k = job["hls"].key
    OBVIOUS
  <2>1. /\ job' = [job EXCEPT !["hls"] = Idle]
        /\ \/ ready' = ready
           \/ job["hls"].pc = "flag" /\ ready' = [ready EXCEPT ![f] = Exists(f)]
        /\ UNCHANGED <<queue, rendition, derived, making, dropping>>
    BY <1>5, <2>0 DEF HlsFlag, JobFails, Doing, dataVars
  <2>2. DOMAIN job' = Workers /\ job'["hls"] = Idle
    BY <1>0, <2>1 DEF DerivedShapes, Workers
  <2>3. job["hls"].pc = "flag" =>
            /\ f \in Videos /\ Shows(f, k) /\ f \notin dropping
            /\ rendition[f] = [of |-> k, whole |-> TRUE]
    <3>1. SUFFICES ASSUME job["hls"].pc = "flag"
          PROVE  /\ f \in Videos /\ Shows(f, k) /\ f \notin dropping
                 /\ rendition[f] = [of |-> k, whole |-> TRUE]
      OBVIOUS
    <3>2. f \in Videos /\ Shows(f, k) /\ f \notin dropping /\ rendition[f].of = k /\ rendition[f].whole
      BY <1>0, <2>0, <3>1 DEF Packaging
    <3>3. rendition[f] \in [of : Keys \cup {None}, whole : BOOLEAN]
      BY <1>0, <3>2 DEF DerivedShapes
    <3> QED BY <3>2, <3>3
  <2>4. DerivedShapes'
    <3>1. ready' \in [Videos -> BOOLEAN]
      BY <1>0, <2>1 DEF DerivedShapes, Exists
    <3>2. job'["hls"] \in [pc : {"idle", "run", "put", "flag"}, file : Videos \cup {None}, key : Keys \cup {None}]
      BY <2>2 DEF Idle
    <3> QED BY <1>0, <1>1, <2>1, <2>2, <3>1, <3>2 DEF DerivedShapes
  <2>5. Announced'
    <3> SUFFICES ASSUME NEW g \in Videos, ready'[g]
        PROVE file[g] # None /\ rendition[g] = [of |-> file[g].key, whole |-> TRUE] /\ g \notin dropping
      BY <1>1, <2>1 DEF Announced
    <3>1. CASE ready[g]
      BY <1>0, <3>1 DEF Announced
    <3>2. CASE ~ready[g]
      <4>1. job["hls"].pc = "flag" /\ g = f /\ Exists(g)
        BY <1>0, <2>1, <3>2 DEF DerivedShapes
      <4> QED BY <2>3, <4>1 DEF Shows, Exists
    <3> QED BY <3>1, <3>2
  <2>6. Posters' /\ Making'
    BY <1>0, <1>1, <2>1, MadeAlike
  <2>7. Packaging'
    BY <2>2 DEF Packaging, Idle
  <2> QED BY <1>9, <2>4, <2>5, <2>6, <2>7 DEF DerivedInv
<1>6. CASE TextStep
  <2>1. /\ DOMAIN job' = Workers /\ DOMAIN queue' = Workers
        /\ job'["hls"] = job["hls"] /\ queue'["hls"] = queue["hls"]
        /\ DOMAIN derived' = Made /\ \A what \in Made : DOMAIN derived'[what] = Videos
        /\ derived'["thumb"] = derived["thumb"] /\ derived'["sum"] = derived["sum"]
        /\ UNCHANGED <<rendition, ready, making, dropping>>
    <3>1. CASE TextTake
      <4>1. /\ queue' = [queue EXCEPT !["text"] = Tail(@)] /\ (job' = job \/ \E j : job' = [job EXCEPT !["text"] = j])
            /\ UNCHANGED <<derived, rendition, ready, making, dropping>>
        BY <3>1 DEF TextTake, Take, dataVars
      <4> QED BY <1>0, <4>1 DEF DerivedShapes, Workers
    <3>2. CASE TextRun \/ TextSibling \/ TextDone \/ JobFails("text")
      <4>1. /\ \E j : job' = [job EXCEPT !["text"] = j]
            /\ derived' = derived \/ derived' = [derived EXCEPT !["text"][job["text"].file] = job["text"].key]
            /\ UNCHANGED <<queue, rendition, ready, making, dropping>>
        <5>1. CASE TextRun
          BY <5>1, Zenon DEF TextRun, Does
        <5>2. CASE TextSibling
          BY <5>2, Zenon DEF TextSibling, Does, dataVars
        <5>3. CASE TextDone \/ JobFails("text")
          BY <5>3, Zenon DEF TextDone, JobFails, dataVars
        <5> QED BY <3>2, <5>1, <5>2, <5>3
      <4>2. DOMAIN job' = Workers /\ job'["hls"] = job["hls"]
        BY <1>0, <4>1 DEF DerivedShapes, Workers
      <4>3. /\ DOMAIN derived' = Made /\ \A what \in Made : DOMAIN derived'[what] = Videos
            /\ derived'["thumb"] = derived["thumb"] /\ derived'["sum"] = derived["sum"]
        BY <1>0, <4>1 DEF DerivedShapes, Made
      <4> QED BY <1>0, <4>1, <4>2, <4>3 DEF DerivedShapes
    <3> QED BY <1>6, <3>1, <3>2 DEF TextStep
  <2>2. DerivedShapes'
    BY <1>0, <1>1, <2>1 DEF DerivedShapes
  <2>3. Announced' /\ Making'
    BY <1>0, <1>1, <1>2, <2>1 DEF Announced, Making, Shows
  <2>4. Posters'
    BY <1>0, <1>2, <2>1 DEF Posters, Shows, Arrived
  <2>5. Packaging'
    BY <1>0, <1>2, <2>1 DEF Packaging, Shows
  <2> QED BY <1>9, <2>2, <2>3, <2>4, <2>5 DEF DerivedInv
<1>7. CASE \E f \in Videos : RenditionsGo(f)
  <2>1. PICK f \in Videos : RenditionsGo(f)
    BY <1>7
  <2>2. /\ f \in dropping /\ dropping' = dropping \ {f}
        /\ rendition' = rendition \/ rendition' = [rendition EXCEPT ![f] = [of |-> None, whole |-> FALSE]]
        /\ UNCHANGED <<ready, derived, queue, job, making>>
    BY <2>1 DEF RenditionsGo
  <2>3. /\ \A g \in Videos \ {f} : rendition'[g] = rendition[g]
        /\ rendition' \in [Videos -> [of : Keys \cup {None}, whole : BOOLEAN]]
    <3>1. CASE rendition' = rendition
      BY <1>0, <3>1 DEF DerivedShapes
    <3>2. CASE rendition' = [rendition EXCEPT ![f] = [of |-> None, whole |-> FALSE]]
      BY <1>0, <3>2 DEF DerivedShapes
    <3> QED BY <2>2, <3>1, <3>2
  <2>4. DerivedShapes'
    BY <1>0, <1>1, <2>2, <2>3 DEF DerivedShapes
  <2>5. Announced'
    BY <1>0, <1>1, <2>2, <2>3 DEF Announced
  <2>6. Posters' /\ Making'
    BY <1>0, <1>1, <2>2, MadeAlike
  <2>7. Packaging'
    BY <1>0, <1>2, <2>2, <2>3 DEF Packaging, Shows
  <2> QED BY <1>9, <2>4, <2>5, <2>6, <2>7 DEF DerivedInv
<1>8. CASE \E f \in Videos, k \in Keys : ThumbDone(f, k) \/ ChecksumDone(f, k)
  <2>1. PICK f \in Videos, k \in Keys, what \in {"thumb", "sum"} : MakeDone(what, f, k)
    BY <1>8 DEF ThumbDone, ChecksumDone
  <2>2. /\ <<what, f, k>> \in making /\ making' \subseteq making
        /\ derived' = derived \/ derived' = [derived EXCEPT ![what][f] = k]
        /\ UNCHANGED <<rendition, ready, queue, job, dropping>>
    BY <2>1 DEF MakeDone
  <2>3. Shows(f, k)
    BY <1>0, <2>2 DEF Making
  <2>4. /\ DOMAIN derived' = Made /\ \A m \in Made : DOMAIN derived'[m] = Videos
        /\ \A g \in Videos, m \in {"thumb", "sum"} : derived'[m][g] = derived[m][g] \/ (g = f /\ derived'[m][g] = k)
    BY <1>0, <2>2 DEF DerivedShapes, Made
  <2>5. DerivedShapes'
    BY <1>0, <1>1, <2>2, <2>4 DEF DerivedShapes
  <2>6. Announced' /\ Making'
    BY <1>0, <1>1, <1>2, <2>2 DEF Announced, Making, Shows
  <2>7. Posters'
    <3> SUFFICES ASSUME NEW g \in Videos, NEW m \in {"thumb", "sum"}, NEW c, c = derived'[m][g], c # None
        PROVE Shows(g, c)'
      BY DEF Posters, Shows, Arrived
    <3>1. Shows(g, c)
      BY <1>0, <2>3, <2>4 DEF Posters
    <3> QED BY <1>2, <3>1 DEF Shows, Arrived
  <2>8. Packaging'
    BY <1>0, <1>2, <2>2 DEF Packaging, Shows
  <2> QED BY <1>9, <2>5, <2>6, <2>7, <2>8 DEF DerivedInv
<1> QED BY <1>3, <1>4, <1>5, <1>6, <1>7, <1>8 DEF HlsStep

LEMMA DerivedInit ==
    ASSUME MediaInit, KeptInv PROVE DerivedInv
<1>0. Shapes /\ Videos \subseteq Files
  BY MediaAssumption DEF KeptInv
<1>1. PICK done \in BOOLEAN :
        /\ making = {} /\ dropping = {}
        /\ queue = [w \in Workers |-> <<>>] /\ job = [w \in Workers |-> Idle]
        /\ ready = [f \in Videos |-> done /\ Exists(f)]
        /\ rendition = [f \in Videos |-> [of |-> IF ready[f] THEN file[f].key ELSE None, whole |-> ready[f]]]
        /\ derived = [what \in Made |-> [f \in Videos |-> IF ready[f] THEN file[f].key ELSE None]]
        /\ \E sent : remux = [r \in Remuxes |-> NoRemux(Starts(r, sent))]
  BY DEF MediaInit
<1>2. \A f \in Videos : ready[f] => file[f] # None /\ file[f].key \in Keys
  BY <1>0, <1>1 DEF Shapes, FileRow, Exists
<1>3. \A f \in Videos : ready[f] => Arrived(f)
  BY <1>2 DEF KeptInv, FreshOnce, Arrived
<1>4. DerivedShapes
  <2>1. \A q \in Remuxes : remux[q].pc \in {"unsent", "idle"}
    BY <1>1 DEF Starts, NoRemux
  <2>2. rendition \in [Videos -> [of : Keys \cup {None}, whole : BOOLEAN]] /\ ready \in [Videos -> BOOLEAN]
    BY <1>1, <1>2 DEF Exists
  <2>3. /\ DOMAIN job = Workers /\ DOMAIN queue = Workers /\ queue["hls"] = <<>>
        /\ job["hls"] \in [pc : {"idle", "run", "put", "flag"}, file : Videos \cup {None}, key : Keys \cup {None}]
    BY <1>1 DEF Workers, Idle
  <2>4. <<>> \in Seq(Videos)
    OBVIOUS
  <2>5. DOMAIN derived = Made /\ \A what \in Made : DOMAIN derived[what] = Videos
    BY <1>1
  <2> QED BY <2>1, <2>2, <2>3, <2>4, <2>5 DEF DerivedShapes
<1>5. Announced
  BY <1>1, <1>2 DEF Announced
<1>6. Posters
  BY <1>1, <1>3 DEF Posters, Shows, Made
<1>7. Making /\ Packaging
  BY <1>1 DEF Making, Packaging, Idle, Workers
<1>8. Asking
  BY <1>1 DEF Asking, Asked, NoRemux
<1> QED BY <1>4, <1>5, <1>6, <1>7, <1>8 DEF DerivedInv

LEMMA DerivedStep ==
    ASSUME KeptInv, KeptInv', NewestInv, RemuxTied, DerivedInv, ~Overlap, [MediaNext]_mediaVars PROVE DerivedInv'
<1>1. CASE NewNext /\ Follow /\ Undisturbed
  <2>1. Onward /\ MadeStays
    BY <1>1, FilesOnward DEF Follow
  <2> QED BY <1>1, <2>1, FilesDerived
<1>2. CASE \E r \in Remuxes : RemuxStep(r)
  BY <1>2, RemuxDerived
<1>3. CASE \/ HlsStep \/ TextStep \/ \E f \in Videos : RenditionsGo(f)
           \/ \E f \in Videos, k \in Keys : ThumbDone(f, k) \/ ChecksumDone(f, k)
  BY <1>3, WorkDerived
<1>4. CASE UNCHANGED mediaVars
  <2>1. UNCHANGED <<file, intake, remux, queue, job, rendition, ready, derived, making, dropping>>
    BY <1>4 DEF mediaVars, newVars, vars, jobVars, dataVars
  <2>2. MadeStays /\ Videos \subseteq Files
    BY <2>1, MediaAssumption DEF MadeStays
  <2>3. DerivedShapes'
    BY <2>1 DEF DerivedInv, DerivedShapes
  <2>4. Asking'
    BY <2>1 DEF DerivedInv, Asking, Asked, Shows, Arrived
  <2> QED BY <2>1, <2>2, <2>3, <2>4, DerivedStays DEF DerivedInv, ContentStays
<1> QED BY <1>1, <1>2, <1>3, <1>4 DEF MediaNext

\* Overwritten content is never shown through what was made of it (DerivedCurrent):
\* the renditions a player is sent to are whole and, like the poster and the
\* checksum, were made from the content the file has, whichever job finished last.
\* Jobs write by file id alone, so this rests on content and jobs of a file not
\* overlapping; run media_stale shows what the code does when they do.
THEOREM DerivedIsCurrent ==
    ASSUME OverwritesApart, ~Overlap PROVE MediaSpec => []DerivedCurrent
<1> DEFINE I == KeptInv /\ NewestInv /\ RemuxTied /\ DerivedInv
<1>1. MediaInit => I
  BY KeptInit, NewestInit, DerivedInit
<1>2. I /\ [MediaNext]_mediaVars => I'
  BY KeptStep, NewestStep, DerivedStep
<1>3. I => DerivedCurrent
  BY DEF DerivedInv, Announced, Posters, Shows, Exists, DerivedCurrent
<1> QED BY <1>1, <1>2, <1>3, PTL DEF MediaSpec
=============================================================================
