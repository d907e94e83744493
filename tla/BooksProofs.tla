---------------------------- MODULE BooksProofs -----------------------------
(***************************************************************************)
(* The balance of the owner against the versions of all files, and these   *)
(* against the objects in MinIO, for any number of files, uploads, saves,  *)
(* overwrites, purges, imports, remuxes and HLS packagings:  BooksMatch    *)
(* and ObjectsMatch.                                                       *)
(*                                                                         *)
(* The hypotheses are the ones under which the code keeps its books.  No   *)
(* content is empty, no content changes under a remux (~Overlap), and      *)
(* requests that race for the same bytes are apart (BooksApart): an        *)
(* overwrite is alone, and a purge is alone or meets only hard deletes;    *)
(* files are trashed and restored, imported, remuxed and packaged under    *)
(* them all the same, any call may fail, and what a failure leaves behind  *)
(* is told apart: reserved bytes stay counted, objects are no orphans.     *)
(***************************************************************************)
EXTENDS FilesProofs, SumProofs

-----------------------------------------------------------------------------
\* What a file occupies, as the sum over all numbers
SizeAt(row, v) == IF row.versions[v] = None THEN 0 ELSE row.versions[v].size

\* No size of a row is negative.
Sound(row) == row # None => \A v \in Numbers : row.versions[v] # None => row.versions[v].size \in Nat

\* Version numbers are finitely many, and 1 is one.
LEMMA NumbersFinite ==
    IsFiniteSet(Numbers) /\ 1 \in Numbers
<1>1. Len(History) + Cardinality(Uploads \cup Saves) \in Nat
  BY NumberFacts
<1>2. IsFiniteSet(Numbers)
  BY <1>1, FS_Interval DEF Numbers
<1>3. 1 \in Numbers
  <2> DEFINE n == Len(History)
             m == Cardinality(Uploads \cup Saves)
  <2>1. n \in Nat \ {0} /\ m \in Nat
    BY NumberFacts
  <2>2. \A v \in Int : 1 <= v /\ v <= n + m => v \in Numbers
    BY NumberFacts
  <2> HIDE DEF n, m
  <2> QED BY <2>1, <2>2
<1> QED BY <1>2, <1>3

\* What a row occupies is the sum of what its numbers do.
LEMMA BytesSum ==
    ASSUME NEW row \in FileRow
    PROVE  /\ \A v \in Numbers : SizeAt(row, v) \in Int
           /\ Bytes(row) = SumFunction([v \in Numbers |-> SizeAt(row, v)])
<1> DEFINE s == [v \in Numbers |-> SizeAt(row, v)]
           t == [v \in Has(row) |-> row.versions[v].size]
<1>1. row.versions \in [Numbers -> Content \cup {None}] /\ row # None
  BY NoneAssumption DEF FileRow
<1>2. \A v \in Numbers : row.versions[v] # None => row.versions[v].size \in Int
  BY <1>1 DEF Content
<1>3. \A v \in Numbers : SizeAt(row, v) \in Int
  BY <1>2 DEF SizeAt
<1>4. Has(row) \in SUBSET Numbers /\ \A v \in Has(row) : row.versions[v] # None
  BY DEF Has
<1>5. \A v \in Numbers \ Has(row) : s[v] = 0
  BY DEF Has, SizeAt
<1>6. \A v \in Has(row) : t[v] = s[v]
  BY <1>4 DEF SizeAt
<1>7. IsFiniteSet(Has(row)) /\ IsFiniteSet(Numbers \ Has(row))
  BY <1>4, NumbersFinite, FS_Subset
<1>8. SumFunctionOnSet(s, Numbers) = SumFunctionOnSet(s, Has(row)) + SumFunctionOnSet(s, Numbers \ Has(row))
  <2>1. \A v \in Numbers : s[v] \in Int
    BY <1>3
  <2> HIDE DEF s
  <2> QED BY <1>4, <2>1, NumbersFinite, SumParts
<1>9. SumFunctionOnSet(s, Numbers \ Has(row)) = 0
  <2> HIDE DEF s
  <2> QED BY <1>5, <1>7, SumZero
<1>10. SumFunctionOnSet(t, Has(row)) = SumFunctionOnSet(s, Has(row)) /\ SumFunctionOnSet(s, Has(row)) \in Int
  <2>1. \A v \in Has(row) : s[v] \in Int
    BY <1>3, <1>4
  <2> HIDE DEF s, t
  <2> QED BY <1>6, <1>7, <2>1, SumSame, SumType
<1>11. Bytes(row) = SumFunctionOnSet(t, Has(row))
  BY <1>1 DEF Bytes, SumFunction
<1>12. SumFunction(s) = SumFunctionOnSet(s, Numbers)
  BY DEF SumFunction
<1> HIDE DEF s, t
<1>13. SumFunction(s) = Bytes(row)
  BY <1>8, <1>9, <1>10, <1>11, <1>12
<1> QED BY <1>3, <1>13 DEF s

\* A row takes as many bytes as its sizes say, and no bytes when there is none.
LEMMA BytesNat ==
    ASSUME NEW row \in FileRow \cup {None}, Sound(row) PROVE Bytes(row) \in Nat
<1>1. CASE row = None
  BY <1>1 DEF Bytes
<1>2. CASE row # None
  <2>1. \A v \in Numbers : SizeAt(row, v) \in Nat
    BY <1>2 DEF Sound, SizeAt
  <2> DEFINE s == [v \in Numbers |-> SizeAt(row, v)]
  <2>2. s \in [Numbers -> Nat]
    BY <2>1
  <2>3. Bytes(row) = SumFunction(s)
    BY <1>2, BytesSum
  <2> HIDE DEF s
  <2> QED BY <2>2, <2>3, NumbersFinite, TotalNat
<1> QED BY <1>1, <1>2

\* Only the versions count.
LEMMA BytesSame ==
    ASSUME NEW a, NEW b, a # None, b # None, a.versions = b.versions
    PROVE  Bytes(a) = Bytes(b) /\ (Sound(a) => Sound(b))
BY DEF Bytes, Has, Sound

\* One version changes.
LEMMA BytesChange ==
    ASSUME NEW a \in FileRow, NEW b \in FileRow, NEW v \in Numbers,
           \A u \in Numbers \ {v} : b.versions[u] = a.versions[u]
    PROVE  Bytes(b) = Bytes(a) - SizeAt(a, v) + SizeAt(b, v) /\ Bytes(a) \in Int
<1> DEFINE s == [u \in Numbers |-> SizeAt(a, u)]
           t == [u \in Numbers |-> SizeAt(b, u)]
<1>1. s \in [Numbers -> Int] /\ t \in [Numbers -> Int] /\ Bytes(a) = SumFunction(s) /\ Bytes(b) = SumFunction(t)
  BY BytesSum
<1>2. \A u \in Numbers \ {v} : t[u] = s[u]
  BY DEF SizeAt
<1>3. s[v] = SizeAt(a, v) /\ t[v] = SizeAt(b, v)
  OBVIOUS
<1> HIDE DEF s, t
<1>4. SumFunction(t) = SumFunction(s) - s[v] + t[v] /\ SumFunction(s) \in Int
  BY <1>1, <1>2, NumbersFinite, TotalUpdate, TotalType
<1> QED BY <1>1, <1>3, <1>4

\* A row with one version takes that one's bytes.
LEMMA BytesOne ==
    ASSUME NEW row \in FileRow, NEW v \in Numbers, row.versions[v] # None,
           \A u \in Numbers \ {v} : row.versions[u] = None
    PROVE  Bytes(row) = row.versions[v].size
<1> DEFINE s == [u \in Numbers |-> SizeAt(row, u)]
           z == [u \in Numbers |-> 0]
<1>1. s \in [Numbers -> Int] /\ Bytes(row) = SumFunction(s)
  BY BytesSum
<1>2. z \in [Numbers -> Int] /\ SumFunction(z) = 0
  BY NumbersFinite, TotalZero
<1>3. (\A u \in Numbers \ {v} : s[u] = z[u]) /\ s[v] = row.versions[v].size /\ z[v] = 0
  BY DEF SizeAt
<1> HIDE DEF s, z
<1>4. SumFunction(s) = SumFunction(z) - z[v] + s[v]
  BY <1>1, <1>2, <1>3, NumbersFinite, TotalUpdate
<1> QED BY <1>1, <1>2, <1>3, <1>4

-----------------------------------------------------------------------------
(* The invariant of the balance.  A purge is sent without writers, intakes  *)
(* and remuxes, an overwrite alone (BooksApart below).                      *)

Purging == \E p \in Purges : purge[p].pc # "unsent"

\* Nothing is made, remuxed or waiting for it.
Dormant ==
    /\ due = {} /\ \A q \in Remuxes : remux[q].pc = "unsent"
    /\ \A w \in Workers : queue[w] = <<>> /\ job[w].pc = "idle"
    /\ \A f \in Fresh : intake[f].pc = "unsent"

\* Hard deletes may come together, another purge comes by itself.
PurgesAlone ==
    Purging => /\ Dormant /\ \A r \in Writers : write[r].pc = "unsent"
               /\ \A p \in Purges \ HardDeletes, q \in Purges :
                     purge[p].pc # "unsent" /\ purge[q].pc # "unsent" => p = q

\* What a purge has listed is what it deletes.
PurgeRecord == [pc : PurgeSteps, rows : [Files -> FileRow \cup {None}],
                strip : SUBSET Files, drop : SUBSET Files]
ListedOf(p, q) ==
    /\ \A f \in Files : Sound(q.rows[f])
    /\ q.pc # "delete" => q.drop = {}
    /\ q.pc = "delete" =>
          /\ \A f \in q.drop : q.rows[f] # None /\ (file[f] # None => file[f].versions = q.rows[f].versions)
          /\ p \notin Sweeps => \A f \in Files \ q.drop : q.rows[f] = None
          /\ p \notin HardDeletes => \A f \in q.drop : file[f] # None
          /\ p \in HardDeletes => \E f \in Files : q.drop \subseteq {f}
Listed == purge \in [Purges -> PurgeRecord] /\ \A p \in Purges : ListedOf(p, purge[p])

\* An overwrite replaces the versions it has seen.
OverwriteAlone ==
    \A o \in Overwrites : write[o].pc # "unsent" =>
        /\ \A r \in Writers \ {o} : write[r].pc = "unsent"
        /\ write[o].pc \in {"idle", "reserve", "store", "collapse"} => Dormant
        /\ write[o].pc \in {"reserve", "store", "collapse"} => Row(o) # None /\ Row(o).versions = Seen(o).versions

\* The rows of requests and jobs in flight are there, and what a remux works on
\* is the content the row has.
Matches(seen, row) ==
    /\ row # None /\ seen # None
    /\ seen.key = row.key /\ seen.size = row.size /\ seen.current = row.current
Alive ==
    ~Purging =>
        /\ \A r \in Writers : write[r].pc \notin {"unsent", "idle"} => Row(r) # None
        /\ \A f \in due : file[f] # None
        /\ \A q \in Remuxes : remux[q].pc \in {"read", "held", "update"} => Matches(remux[q].seen, file[remux[q].row])

\* No two remuxes work on one file.
RemuxApart ==
    \A p, q \in Remuxes : p # q /\ remux[p].pc \in {"read", "held", "update"} => remux[p].row # remux[q].row

\* A content has bytes to lose while its index is not in front.
SoundContent(c) ==
    /\ c.size \in Nat
    /\ c.key \in slow => c.size >= 1
    /\ c.key \in Fresh => intake[c.key].pc = "made"
Heavy ==
    /\ \A r \in Writers : /\ write[r].pc \notin {"unsent", "idle"} => write[r].size \in Sizes
                          /\ Sound(write[r].seen)
    /\ \A f \in Fresh : intake[f].pc \in {"check", "reserve", "store", "create"} => intake[f].size \in Sizes
    /\ \A f \in Files, v \in Numbers :
          file[f] # None /\ file[f].versions[v] # None => SoundContent(file[f].versions[v])
    /\ \A q \in Remuxes : /\ remux[q].pc \in {"held", "update"} => remux[q].seen.size >= 1
                          /\ remux[q].pc = "update" => remux[q].seen.key \notin slow

\* Every term of the balance is a natural.
Terms ==
    /\ \A f \in Files : Bytes(file[f]) \in Nat
    /\ \A r \in Writers : Held(r) \in Nat
    /\ \A p \in Purges : Owed(p) \in Nat
    /\ \A f \in Fresh : IntakeHeld(f) \in Nat
    /\ \A q \in Remuxes : RemuxOwed(q) \in Nat

OfFiles == SumFunction([f \in Files |-> Bytes(file[f])])
OfWriters == SumFunction([r \in Writers |-> Held(r)])
OfPurges == SumFunction([p \in Purges |-> Owed(p)])
OfIntakes == SumFunction([f \in Fresh |-> IntakeHeld(f)])
OfRemuxes == SumFunction([q \in Remuxes |-> RemuxOwed(q)])
Balanced == used = OfFiles + OfWriters + OfPurges + OfIntakes + OfRemuxes

Lively == PurgesAlone /\ OverwriteAlone /\ Alive /\ RemuxApart
BooksInv == Lively /\ Listed /\ Heavy /\ Balanced

-----------------------------------------------------------------------------
\* Sizes are byte counts.
LEMMA SizesNat ==
    \A n \in Sizes : n \in Nat /\ n \in Int
<1>1. Sizes \subseteq Nat
  BY VersionsAssumption
<1> QED BY <1>1

\* What a writer holds
LEMMA ChargeFacts ==
    ASSUME Shapes, Progress, Heavy, NEW r \in Writers, write[r].pc \in Busy
    PROVE  /\ Charge(r) \in Nat /\ Bytes(Seen(r)) \in Nat /\ write[r].size \in Nat
           /\ r \notin Overwrites => Charge(r) = write[r].size
           /\ r \in Overwrites => /\ Unsettled(r) \in Nat
                                  /\ Unsettled(r) = Bytes(Seen(r)) - write[r].size + Charge(r)
<1>1. write[r].size \in Nat
  BY SizesNat DEF Heavy, Busy
<1>2. Bytes(Seen(r)) \in Nat
  <2>1. write[r].seen \in FileRow \cup {None} /\ Sound(write[r].seen)
    BY DEF Shapes, Writer, Heavy
  <2> QED BY <2>1, BytesNat DEF Seen
<1> DEFINE b == Bytes(Seen(r))
<1>3. b \in Nat
  BY <1>2
<1>4. Charge(r) = IF r \in Overwrites THEN (IF write[r].size > b THEN write[r].size - b ELSE 0) ELSE write[r].size
  BY DEF Charge, NetCost, Seen
<1>5. Unsettled(r) = b - write[r].size + Charge(r)
  BY DEF Unsettled
<1> HIDE DEF b
<1>6. Charge(r) \in Nat /\ (r \notin Overwrites => Charge(r) = write[r].size)
  BY <1>1, <1>3, <1>4
<1>7. r \in Overwrites => Unsettled(r) \in Nat
  BY <1>1, <1>3, <1>4, <1>5
<1> QED BY <1>1, <1>2, <1>5, <1>6, <1>7 DEF b

\* What a purge has listed occupies a count of bytes.
LEMMA ListedBytes ==
    ASSUME Listed, NEW p \in Purges
    PROVE  /\ \A f \in Files : Bytes(purge[p].rows[f]) \in Nat
           /\ \A fs \in SUBSET Files : BytesListed(p, fs) \in Nat
<1>1. \A f \in Files : purge[p].rows[f] \in FileRow \cup {None} /\ Sound(purge[p].rows[f])
  BY DEF Listed, ListedOf, PurgeRecord
<1>2. \A f \in Files : Bytes(purge[p].rows[f]) \in Nat
  BY <1>1, BytesNat
<1>3. ASSUME NEW fs \in SUBSET Files PROVE BytesListed(p, fs) \in Nat
  <2> DEFINE b == [f \in fs |-> Bytes(purge[p].rows[f])]
  <2>1. b \in [fs -> Nat]
    BY <1>2
  <2>2. IsFiniteSet(fs)
    BY VersionsAssumption, FS_Subset
  <2>3. BytesListed(p, fs) = SumFunction(b)
    BY DEF BytesListed
  <2> HIDE DEF b
  <2> QED BY <2>1, <2>2, <2>3, TotalNat
<1> QED BY <1>2, <1>3

\* Every term of the balance is a count of bytes.
LEMMA TermTypes == Shapes /\ Progress /\ Listed /\ Heavy => Terms
<1> SUFFICES ASSUME Shapes, Progress, Listed, Heavy PROVE Terms
  OBVIOUS
<1>1. ASSUME NEW f \in Files PROVE Bytes(file[f]) \in Nat
  <2>1. file[f] \in FileRow \cup {None}
    BY DEF Shapes
  <2>2. Sound(file[f])
    BY DEF Sound, Heavy, SoundContent
  <2> QED BY <2>1, <2>2, BytesNat
<1>2. ASSUME NEW r \in Writers PROVE Held(r) \in Nat
  <2>1. CASE write[r].pc \in {"store", "create", "fresh", "commit", "collapse", "leaked"}
    BY <2>1, ChargeFacts DEF Held, Busy
  <2>2. CASE write[r].pc = "settle"
    <3>1. r \in Overwrites
      BY <2>2 DEF Progress, ProgressOf
    <3> QED BY <2>2, <3>1, ChargeFacts DEF Held, Busy
  <2> QED BY <2>1, <2>2 DEF Held
<1>3. ASSUME NEW p \in Purges PROVE Owed(p) \in Nat
  <2>1. purge[p].drop \in SUBSET Files /\ (Files \ purge[p].drop) \in SUBSET Files /\ Files \in SUBSET Files
    BY DEF Listed, PurgeRecord
  <2> QED BY <2>1, ListedBytes DEF Owed
<1>4. ASSUME NEW f \in Fresh PROVE IntakeHeld(f) \in Nat
  BY SizesNat DEF Heavy, IntakeHeld
<1>5. ASSUME NEW q \in Remuxes PROVE RemuxOwed(q) \in Nat
  BY DEF RemuxOwed
<1> QED BY <1>1, <1>2, <1>3, <1>4, <1>5 DEF Terms

\* The sums are naturals, and none of their terms exceeds the balance.
LEMMA Covered ==
    ASSUME Terms, Balanced
    PROVE  /\ OfFiles \in Nat /\ OfWriters \in Nat /\ OfPurges \in Nat /\ OfIntakes \in Nat /\ OfRemuxes \in Nat
           /\ used \in Nat
           /\ \A r \in Writers : Held(r) <= used
           /\ \A p \in Purges : Owed(p) <= used
           /\ \A f \in Fresh : IntakeHeld(f) <= used
           /\ \A q \in Remuxes : RemuxOwed(q) <= used
<1> DEFINE files == [f \in Files |-> Bytes(file[f])]
           writers == [r \in Writers |-> Held(r)]
           purges == [p \in Purges |-> Owed(p)]
           intakes == [f \in Fresh |-> IntakeHeld(f)]
           remuxes == [q \in Remuxes |-> RemuxOwed(q)]
<1>1. /\ files \in [Files -> Nat] /\ writers \in [Writers -> Nat] /\ purges \in [Purges -> Nat]
      /\ intakes \in [Fresh -> Nat] /\ remuxes \in [Remuxes -> Nat]
  BY DEF Terms
<1>2. IsFiniteSet(Files) /\ IsFiniteSet(Writers) /\ IsFiniteSet(Purges) /\ IsFiniteSet(Fresh) /\ IsFiniteSet(Remuxes)
  BY VersionsAssumption, MediaAssumption, FS_Subset
<1>3. /\ OfFiles = SumFunction(files) /\ OfWriters = SumFunction(writers) /\ OfPurges = SumFunction(purges)
      /\ OfIntakes = SumFunction(intakes) /\ OfRemuxes = SumFunction(remuxes)
  BY DEF OfFiles, OfWriters, OfPurges, OfIntakes, OfRemuxes
<1>4. /\ \A r \in Writers : Held(r) = writers[r]
      /\ \A p \in Purges : Owed(p) = purges[p]
      /\ \A f \in Fresh : IntakeHeld(f) = intakes[f]
      /\ \A q \in Remuxes : RemuxOwed(q) = remuxes[q]
  OBVIOUS
<1> HIDE DEF files, writers, purges, intakes, remuxes
<1>5. /\ OfFiles \in Nat /\ OfWriters \in Nat /\ OfPurges \in Nat /\ OfIntakes \in Nat /\ OfRemuxes \in Nat
  BY <1>1, <1>2, <1>3, TotalNat
<1>6. /\ \A r \in Writers : Held(r) <= OfWriters /\ Held(r) \in Nat
      /\ \A p \in Purges : Owed(p) <= OfPurges /\ Owed(p) \in Nat
      /\ \A f \in Fresh : IntakeHeld(f) <= OfIntakes /\ IntakeHeld(f) \in Nat
      /\ \A q \in Remuxes : RemuxOwed(q) <= OfRemuxes /\ RemuxOwed(q) \in Nat
  <2>1. \A r \in Writers : writers[r] <= SumFunction(writers)
    BY <1>1, <1>2, TotalCovers
  <2>2. \A p \in Purges : purges[p] <= SumFunction(purges)
    BY <1>1, <1>2, TotalCovers
  <2>3. \A f \in Fresh : intakes[f] <= SumFunction(intakes)
    BY <1>1, <1>2, TotalCovers
  <2>4. \A q \in Remuxes : remuxes[q] <= SumFunction(remuxes)
    BY <1>1, <1>2, TotalCovers
  <2> QED BY <1>3, <1>4, <2>1, <2>2, <2>3, <2>4 DEF Terms
<1>7. OfWriters <= used /\ OfPurges <= used /\ OfIntakes <= used /\ OfRemuxes <= used /\ used \in Nat
  BY <1>5 DEF Balanced
<1> QED BY <1>5, <1>6, <1>7

-----------------------------------------------------------------------------
(* How a sum changes when one of its terms does *)

\* One file changes: the bytes of all files change by its own.
LEMMA FilesChange ==
    ASSUME Terms, Terms', NEW f \in Files, \A g \in Files \ {f} : file'[g] = file[g]
    PROVE  OfFiles' = OfFiles - Bytes(file[f]) + Bytes(file'[f])
<1> DEFINE a == [g \in Files |-> Bytes(file[g])]
           b == [g \in Files |-> Bytes(file'[g])]
<1>1. a \in [Files -> Int] /\ b \in [Files -> Int] /\ a[f] = Bytes(file[f]) /\ b[f] = Bytes(file'[f])
  BY DEF Terms
<1>2. \A g \in Files \ {f} : b[g] = a[g]
  OBVIOUS
<1>3. OfFiles = SumFunction(a) /\ OfFiles' = SumFunction(b)
  BY DEF OfFiles
<1> HIDE DEF a, b
<1> QED BY <1>1, <1>2, <1>3, VersionsAssumption, TotalUpdate

\* The bytes of all files are the same while each file's are.
LEMMA FilesSame ==
    ASSUME \A f \in Files : Bytes(file'[f]) = Bytes(file[f]) PROVE OfFiles' = OfFiles
<1> DEFINE a == [g \in Files |-> Bytes(file[g])]
           b == [g \in Files |-> Bytes(file'[g])]
<1>1. a = b
  OBVIOUS
<1>2. OfFiles = SumFunction(a) /\ OfFiles' = SumFunction(b)
  BY DEF OfFiles
<1> HIDE DEF a, b
<1> QED BY <1>1, <1>2

\* One writer moves: what writers hold changes by what it holds.
LEMMA WritersChange ==
    ASSUME Terms, Terms', NEW r \in Writers, \A q \in Writers \ {r} : write'[q] = write[q]
    PROVE  OfWriters' = OfWriters - Held(r) + Held(r)'
<1> DEFINE a == [q \in Writers |-> Held(q)]
           b == [q \in Writers |-> Held(q)']
<1>1. a \in [Writers -> Int] /\ b \in [Writers -> Int] /\ a[r] = Held(r) /\ b[r] = Held(r)'
  BY DEF Terms
<1>2. \A q \in Writers \ {r} : Held(q)' = Held(q)
  BY DEF Held, Charge, Unsettled, Seen
<1>3. \A q \in Writers \ {r} : b[q] = a[q]
  BY <1>2
<1>4. OfWriters = SumFunction(a) /\ OfWriters' = SumFunction(b)
  BY DEF OfWriters
<1> HIDE DEF a, b
<1> QED BY <1>1, <1>3, <1>4, VersionsAssumption, TotalUpdate

\* One purge moves: what purges owe changes by what it owes.
LEMMA PurgesChange ==
    ASSUME Terms, Terms', NEW p \in Purges, \A q \in Purges \ {p} : purge'[q] = purge[q]
    PROVE  OfPurges' = OfPurges - Owed(p) + Owed(p)'
<1> DEFINE a == [q \in Purges |-> Owed(q)]
           b == [q \in Purges |-> Owed(q)']
<1>1. a \in [Purges -> Int] /\ b \in [Purges -> Int] /\ a[p] = Owed(p) /\ b[p] = Owed(p)'
  BY DEF Terms
<1>2. \A q \in Purges \ {p} : Owed(q)' = Owed(q)
  BY DEF Owed, BytesListed
<1>3. \A q \in Purges \ {p} : b[q] = a[q]
  BY <1>2
<1>4. OfPurges = SumFunction(a) /\ OfPurges' = SumFunction(b)
  BY DEF OfPurges
<1> HIDE DEF a, b
<1> QED BY <1>1, <1>3, <1>4, VersionsAssumption, TotalUpdate

\* One import moves: what imports hold changes by what it holds.
LEMMA IntakesChange ==
    ASSUME Terms, Terms', NEW f \in Fresh, \A g \in Fresh \ {f} : intake'[g] = intake[g]
    PROVE  OfIntakes' = OfIntakes - IntakeHeld(f) + IntakeHeld(f)'
<1> DEFINE a == [g \in Fresh |-> IntakeHeld(g)]
           b == [g \in Fresh |-> IntakeHeld(g)']
<1>1. a \in [Fresh -> Int] /\ b \in [Fresh -> Int] /\ a[f] = IntakeHeld(f) /\ b[f] = IntakeHeld(f)'
  BY DEF Terms
<1>2. \A g \in Fresh \ {f} : IntakeHeld(g)' = IntakeHeld(g)
  BY DEF IntakeHeld
<1>3. \A g \in Fresh \ {f} : b[g] = a[g]
  BY <1>2
<1>4. OfIntakes = SumFunction(a) /\ OfIntakes' = SumFunction(b)
  BY DEF OfIntakes
<1>5. IsFiniteSet(Fresh)
  BY VersionsAssumption, FS_Subset
<1> HIDE DEF a, b
<1> QED BY <1>1, <1>3, <1>4, <1>5, TotalUpdate

\* One remux moves: what remuxes owe changes by what it owes.
LEMMA RemuxesChange ==
    ASSUME Terms, Terms', NEW r \in Remuxes, \A q \in Remuxes \ {r} : remux'[q] = remux[q]
    PROVE  OfRemuxes' = OfRemuxes - RemuxOwed(r) + RemuxOwed(r)'
<1> DEFINE a == [q \in Remuxes |-> RemuxOwed(q)]
           b == [q \in Remuxes |-> RemuxOwed(q)']
<1>1. a \in [Remuxes -> Int] /\ b \in [Remuxes -> Int] /\ a[r] = RemuxOwed(r) /\ b[r] = RemuxOwed(r)'
  BY DEF Terms
<1>2. \A q \in Remuxes \ {r} : RemuxOwed(q)' = RemuxOwed(q)
  BY DEF RemuxOwed
<1>3. \A q \in Remuxes \ {r} : b[q] = a[q]
  BY <1>2
<1>4. OfRemuxes = SumFunction(a) /\ OfRemuxes' = SumFunction(b)
  BY DEF OfRemuxes
<1> HIDE DEF a, b
<1> QED BY <1>1, <1>3, <1>4, MediaAssumption, TotalUpdate

\* What does not change does not change its sum.
LEMMA SumsSame ==
    /\ write' = write => OfWriters' = OfWriters
    /\ purge' = purge => OfPurges' = OfPurges
    /\ intake' = intake => OfIntakes' = OfIntakes
    /\ remux' = remux => OfRemuxes' = OfRemuxes
<1>1. write' = write => OfWriters' = OfWriters
  BY DEF OfWriters, Held, Charge, Unsettled, Seen
<1>2. purge' = purge => OfPurges' = OfPurges
  BY DEF OfPurges, Owed, BytesListed
<1>3. intake' = intake => OfIntakes' = OfIntakes
  BY DEF OfIntakes, IntakeHeld
<1>4. remux' = remux => OfRemuxes' = OfRemuxes
  BY DEF OfRemuxes, RemuxOwed
<1> QED BY <1>1, <1>2, <1>3, <1>4

-----------------------------------------------------------------------------
(* The writers *)

\* The balance and the rows change by what the writer holds less or more.
LEMMA WriterBalance ==
    ASSUME Terms, Terms', Balanced, Others, purge' = purge, NEW r \in Writers,
           \A q \in Writers \ {r} : write'[q] = write[q],
           NEW d \in Int, OfFiles' = OfFiles + d, used' = used + d + Held(r)' - Held(r)
    PROVE  Balanced'
<1>1. OfWriters' = OfWriters - Held(r) + Held(r)'
  BY WritersChange
<1>2. OfPurges' = OfPurges /\ OfIntakes' = OfIntakes /\ OfRemuxes' = OfRemuxes
  BY SumsSame DEF Others
<1>3. /\ OfFiles \in Nat /\ OfWriters \in Nat /\ OfPurges \in Nat /\ OfIntakes \in Nat /\ OfRemuxes \in Nat
  BY Covered
<1>4. Held(r) \in Int /\ Held(r)' \in Int
  BY DEF Terms
<1>5. used = OfFiles + OfWriters + OfPurges + OfIntakes + OfRemuxes
  BY DEF Balanced
<1>6. used' = OfFiles' + OfWriters' + OfPurges' + OfIntakes' + OfRemuxes'
  <2> DEFINE h == Held(r)
             i == Held(r)'
  <2>1. h \in Int /\ i \in Int /\ OfWriters' = OfWriters - h + i /\ used' = used + d + i - h
    BY <1>1, <1>4
  <2> HIDE DEF h, i
  <2> QED BY <1>2, <1>3, <1>5, <2>1
<1> QED BY <1>6 DEF Balanced

\* The rows are left alone.
LEMMA WriterAside ==
    ASSUME Terms, Terms', Balanced, Others, purge' = purge, file' = file, NEW r \in Writers,
           \A q \in Writers \ {r} : write'[q] = write[q], used' = used + Held(r)' - Held(r)
    PROVE  Balanced'
<1>1. OfFiles' = OfFiles /\ OfFiles \in Nat /\ used \in Nat /\ Held(r) \in Int /\ Held(r)' \in Int
  BY Covered, FilesSame DEF Terms
<1>2. 0 \in Int /\ OfFiles' = OfFiles + 0 /\ used' = used + 0 + Held(r)' - Held(r)
  <2> DEFINE h == Held(r)
             i == Held(r)'
  <2>1. h \in Int /\ i \in Int /\ used' = used + i - h
    BY <1>1
  <2> HIDE DEF h, i
  <2>2. used' = used + 0 + i - h
    BY <1>1, <2>1
  <2> QED BY <1>1, <2>2 DEF h, i
<1> QED BY <1>2, WriterBalance

\* A write that comes to nothing gives back what it holds.
LEMMA GiveBackBooks ==
    ASSUME Shapes, Terms, Terms', Balanced, Others, purge' = purge, file' = file, NEW r \in Writers,
           write[r].pc \in {"store", "create", "fresh", "commit", "collapse"},
           used' = Refunded(used, Charge(r)), WriteEnd(r, "failed")
    PROVE  Balanced'
<1>1. Held(r) = Charge(r) /\ Held(r) \in Nat /\ Held(r) <= used /\ used \in Nat
  BY Covered DEF Held, Terms
<1>2. used' = used - Held(r)
  BY <1>1 DEF Refunded
<1>3. WriteEnd(r, "failed") /\ "failed" \in WriteSteps
  BY DEF WriteSteps
<1>4. write'[r].pc = "failed" /\ \A q \in Writers \ {r} : write'[q] = write[q]
  BY <1>3, Moved
<1>5. Held(r)' = 0
  BY <1>4 DEF Held
<1>6. used' = used + Held(r)' - Held(r)
  BY <1>1, <1>2, <1>5
<1> QED BY <1>4, <1>6, WriterAside

\* Reading, reserving, storing
LEMMA ReserveBooks ==
    ASSUME Shapes, Progress, Heavy, Terms, Terms', Balanced, Others, purge' = purge, NEW r \in Writers,
           \/ \E f \in Files, n \in Sizes : WriteStart(r, f, n)
           \/ WriteReserve(r) \/ WriteStore(r) \/ StoreFails(r) \/ SaveFresh(r)
    PROVE  Balanced'
<1>0. used \in Nat
  BY Covered
<1>1. CASE \E f \in Files, n \in Sizes : WriteStart(r, f, n)
  <2>1. PICK f \in Files, n \in Sizes : WriteStart(r, f, n)
    BY <1>1
  <2>2. /\ write'[r].pc = "reserve" /\ \A q \in Writers \ {r} : write'[q] = write[q]
        /\ write[r].pc = "idle" /\ used' = used /\ file' = file
    BY <2>1 DEF WriteStart, Shapes
  <2>3. Held(r) = 0 /\ Held(r)' = 0
    BY <2>2 DEF Held
  <2> QED BY <1>0, <2>2, <2>3, WriterAside
<1>2. CASE WriteReserve(r)
  <2>1. write[r].pc = "reserve" /\ file' = file /\ Held(r) = 0
    BY <1>2 DEF WriteReserve, Held
  <2>2. CASE WriteMove(r, "store") /\ used' = used + Charge(r)
    <3>1. /\ write'[r].pc = "store" /\ \A q \in Writers \ {r} : write'[q] = write[q]
          /\ write'[r].size = write[r].size /\ write'[r].seen = write[r].seen
      BY <2>2, Moved DEF WriteSteps
    <3>2. Held(r)' = Charge(r) /\ Charge(r) \in Nat
      BY <2>1, <3>1, ChargeFacts DEF Held, Charge, Seen, Busy
    <3> QED BY <1>0, <2>1, <2>2, <3>1, <3>2, WriterAside
  <2>4. CASE WriteMove(r, "leaked") /\ used' = used + Charge(r)
    <3>1. /\ write'[r].pc = "leaked" /\ \A q \in Writers \ {r} : write'[q] = write[q]
          /\ write'[r].size = write[r].size /\ write'[r].seen = write[r].seen
      BY <2>4, Moved DEF WriteSteps
    <3>2. Held(r)' = Charge(r) /\ Charge(r) \in Nat
      BY <2>1, <3>1, ChargeFacts DEF Held, Charge, Seen, Busy
    <3> QED BY <1>0, <2>1, <2>4, <3>1, <3>2, WriterAside
  <2>3. CASE WriteEnd(r, "failed") /\ used' = used
    <3>1. write'[r].pc = "failed" /\ \A q \in Writers \ {r} : write'[q] = write[q]
      BY <2>3, Moved DEF WriteSteps
    <3>2. Held(r)' = 0
      BY <3>1 DEF Held
    <3> QED BY <1>0, <2>1, <2>3, <3>1, <3>2, WriterAside
  <2> QED BY <1>2, <2>2, <2>3, <2>4 DEF WriteReserve
<1>3. CASE WriteStore(r)
  <2>1. /\ write[r].pc = "store" /\ file' = file /\ used' = used /\ WriteMove(r, AfterStore(r))
        /\ AfterStore(r) \in {"create", "fresh", "collapse"}
    BY <1>3 DEF WriteStore, AfterStore
  <2>2. /\ write'[r].pc \in {"create", "fresh", "collapse"} /\ \A q \in Writers \ {r} : write'[q] = write[q]
        /\ write'[r].size = write[r].size /\ write'[r].seen = write[r].seen
    BY <2>1, Moved DEF WriteSteps
  <2>3. Held(r)' = Charge(r) /\ Held(r) = Charge(r) /\ Charge(r) \in Nat
    BY <2>1, <2>2, ChargeFacts DEF Held, Charge, Seen, Busy
  <2> QED BY <1>0, <2>1, <2>2, <2>3, WriterAside
<1>4. CASE StoreFails(r)
  BY <1>4, GiveBackBooks DEF StoreFails
<1>5. CASE SaveFresh(r)
  <2>1. CASE GiveBack(r)
    BY <1>5, <2>1, GiveBackBooks DEF SaveFresh, GiveBack
  <2>2. CASE write' = [write EXCEPT ![r].pc = "commit", ![r].seen = Row(r)] /\ used' = used
    <3>1. write[r].pc = "fresh" /\ file' = file /\ r \notin Overwrites
      BY <1>5, VersionsAssumption DEF SaveFresh, Progress, ProgressOf
    <3>2. /\ write'[r].pc = "commit" /\ write'[r].size = write[r].size /\ \A q \in Writers \ {r} : write'[q] = write[q]
      BY <2>2 DEF Shapes, Writer
    <3>3. Held(r)' = write[r].size /\ Held(r) = write[r].size /\ write[r].size \in Nat
      BY <3>1, <3>2, ChargeFacts DEF Held, Charge, Busy
    <3>4. used' = used + Held(r)' - Held(r)
      BY <1>0, <2>2, <3>3
    <3>5. file' = file /\ \A q \in Writers \ {r} : write'[q] = write[q]
      BY <3>1, <3>2
    <3> QED BY <3>4, <3>5, WriterAside
  <2> QED BY <1>5, <2>1, <2>2 DEF SaveFresh
<1> QED BY <1>1, <1>2, <1>3, <1>4, <1>5

\* The row of a writer takes the bytes the writer stops to hold.
LEMMA RowBalance ==
    ASSUME Shapes, Terms, Terms', Balanced, Others, purge' = purge, used' = used, NEW r \in Writers,
           \A q \in Writers \ {r} : write'[q] = write[q],
           write[r].file \in Files, NEW row, Put(r, row),
           Bytes(row) - Bytes(Row(r)) = Held(r) - Held(r)'
    PROVE  Balanced'
<1> DEFINE f == write[r].file
           d == Bytes(row) - Bytes(Row(r))
<1>1. file'[f] = row /\ (\A g \in Files \ {f} : file'[g] = file[g]) /\ Row(r) = file[f] /\ f \in Files
  BY DEF Put, Shapes, Row
<1>2. Bytes(row) \in Nat /\ Bytes(Row(r)) \in Nat /\ Held(r) \in Nat /\ Held(r)' \in Nat
  BY <1>1 DEF Terms
<1>3. OfFiles' = OfFiles - Bytes(Row(r)) + Bytes(row)
  <2> HIDE DEF f
  <2> QED BY <1>1, FilesChange
<1>4. OfFiles \in Nat /\ used \in Nat
  BY Covered
<1>5. d \in Int /\ OfFiles' = OfFiles + d /\ used' = used + d + Held(r)' - Held(r)
  <2> DEFINE h == Held(r)
             i == Held(r)'
             a == Bytes(row)
             b == Bytes(Row(r))
  <2>1. h \in Nat /\ i \in Nat /\ a \in Nat /\ b \in Nat /\ a - b = h - i /\ OfFiles' = OfFiles - b + a
    BY <1>2, <1>3
  <2> HIDE DEF h, i, a, b
  <2>2. a - b \in Int /\ OfFiles' = OfFiles + (a - b) /\ used' = used + (a - b) + i - h
    BY <1>4, <2>1
  <2> QED BY <2>2 DEF h, i, a, b
<1> HIDE DEF d
<1> QED BY <1>5, WriterBalance

\* A new version takes what was reserved for it, and pointing at it nothing more.
LEMMA VersionBooks ==
    ASSUME KeptInv, Heavy, Terms, Terms', Balanced, Others, purge' = purge, NEW r \in Writers,
           write[r].pc \in Busy => Row(r) # None,
           UploadCreate(r) \/ UploadPoint(r) \/ SaveCommit(r)
    PROVE  Balanced'
<1>0. Shapes /\ Progress /\ write[r].pc \in Busy
  BY DEF KeptInv, UploadCreate, UploadPoint, SaveCommit, Busy
<1>1. /\ write[r].file \in Files /\ Row(r) = file[write[r].file] /\ Row(r) \in FileRow /\ Row(r) # None
      /\ Stored(r) \in Content /\ Stored(r) # None /\ r \in Uploads \cup Saves /\ NextNumber(r) \in Numbers
      /\ ProgressOf(r, write[r])
  <2>1. r \in Uploads \cup Saves
    BY <1>0 DEF Progress, ProgressOf, UploadCreate, UploadPoint, SaveCommit
  <2> QED BY <1>0, <2>1, RowFacts
<1>2. r \notin Overwrites
  BY <1>1, VersionsAssumption
<1>3. write[r].size \in Nat /\ write[r].size \in Int /\ Charge(r) = write[r].size
  BY <1>0, <1>2, ChargeFacts
<1> DEFINE v == NextNumber(r)
           with == WithVersion(Row(r), r, v)
<1>4. /\ with \in FileRow /\ with.versions[v] = Stored(r)
      /\ \A u \in Numbers \ {v} : with.versions[u] = Row(r).versions[u]
      /\ Pointed(with, r, v) \in FileRow /\ Pointed(with, r, v).versions = with.versions
      /\ Pointed(Row(r), r, v) \in FileRow /\ Pointed(Row(r), r, v).versions = Row(r).versions
  <2>1. \A row \in FileRow :
          /\ WithVersion(row, r, v) \in FileRow /\ WithVersion(row, r, v).versions[v] = Stored(r)
          /\ \A u \in Numbers \ {v} : WithVersion(row, r, v).versions[u] = row.versions[u]
          /\ Pointed(row, r, v) \in FileRow /\ Pointed(row, r, v).versions = row.versions
    <3> SUFFICES ASSUME NEW row \in FileRow
                 PROVE  /\ WithVersion(row, r, v) \in FileRow /\ WithVersion(row, r, v).versions[v] = Stored(r)
                        /\ \A u \in Numbers \ {v} : WithVersion(row, r, v).versions[u] = row.versions[u]
                        /\ Pointed(row, r, v) \in FileRow /\ Pointed(row, r, v).versions = row.versions
      OBVIOUS
    <3>1. v \in Numbers
      BY <1>1
    <3> HIDE DEF v
    <3> QED BY <1>1, <1>3, <3>1, Rows
  <2>2. Row(r) \in FileRow /\ with \in FileRow
    BY <1>1, <2>1
  <2> QED BY <2>1, <2>2
<1>5. Row(r).versions[v] = None => /\ Bytes(with) = Bytes(Row(r)) + write[r].size /\ Bytes(Row(r)) \in Int
                                   /\ Bytes(Pointed(with, r, v)) = Bytes(with)
  <2> SUFFICES ASSUME Row(r).versions[v] = None
               PROVE  /\ Bytes(with) = Bytes(Row(r)) + write[r].size /\ Bytes(Row(r)) \in Int
                      /\ Bytes(Pointed(with, r, v)) = Bytes(with)
    OBVIOUS
  <2>1. SizeAt(Row(r), v) = 0 /\ SizeAt(with, v) = write[r].size
    <3>1. Stored(r).size = write[r].size
      BY DEF Stored
    <3> HIDE DEF with, v
    <3> QED BY <1>1, <1>4, <3>1 DEF SizeAt
  <2>2. Bytes(with) = Bytes(Row(r)) - SizeAt(Row(r), v) + SizeAt(with, v) /\ Bytes(Row(r)) \in Int
    <3> HIDE DEF with, v
    <3> QED BY <1>1, <1>4, BytesChange DEF v
  <2>3. Bytes(Pointed(with, r, v)) = Bytes(with)
    <3>1. Pointed(with, r, v) # None /\ with # None
      BY <1>4, NoneAssumption
    <3> HIDE DEF with, v
    <3> QED BY <1>4, <3>1, BytesSame
  <2> HIDE DEF with, v
  <2> QED BY <1>3, <2>1, <2>2, <2>3
<1>6. Bytes(Pointed(Row(r), r, v)) = Bytes(Row(r)) /\ Bytes(Row(r)) \in Nat
  <2>1. Pointed(Row(r), r, v) # None /\ Row(r) # None
    BY <1>4, <1>1, NoneAssumption
  <2> HIDE DEF with, v
  <2> QED BY <1>1, <1>4, <2>1, BytesSame DEF Terms
<1>7. CASE GiveBack(r) /\ file' = file /\ write[r].pc # "point"
  BY <1>0, <1>7, GiveBackBooks DEF UploadCreate, UploadPoint, SaveCommit, GiveBack
<1>8. CASE Free(r) /\ Put(r, with) /\ WriteMove(r, "point") /\ write[r].pc = "create" /\ used' = used
  <2>1. write'[r].pc = "point" /\ \A q \in Writers \ {r} : write'[q] = write[q]
    BY <1>0, <1>8, Moved DEF WriteSteps
  <2>2. Held(r) = write[r].size /\ Held(r)' = 0
    BY <1>3, <1>8, <2>1 DEF Held
  <2>3. Row(r).versions[v] = None
    BY <1>8 DEF Free
  <2> HIDE DEF with, v
  <2>4. Bytes(with) - Bytes(Row(r)) = Held(r) - Held(r)'
    BY <1>3, <1>5, <2>2, <2>3
  <2> QED BY <1>0, <1>1, <1>8, <2>1, <2>4, RowBalance
<1>9. CASE Put(r, Pointed(Row(r), r, v)) /\ WriteEnd(r, "saved") /\ write[r].pc = "point" /\ used' = used
  <2>1. write'[r].pc = "saved" /\ \A q \in Writers \ {r} : write'[q] = write[q]
    BY <1>0, <1>9, Moved DEF WriteSteps
  <2>2. Held(r) = 0 /\ Held(r)' = 0
    BY <1>9, <2>1 DEF Held
  <2> HIDE DEF with, v
  <2>3. Bytes(Pointed(Row(r), r, v)) - Bytes(Row(r)) = Held(r) - Held(r)'
    BY <1>6, <2>2
  <2> QED BY <1>0, <1>1, <1>9, <2>1, <2>3, RowBalance
<1>10. CASE Free(r) /\ Put(r, Pointed(with, r, v)) /\ WriteEnd(r, "saved") /\ write[r].pc = "commit" /\ used' = used
  <2>1. write'[r].pc = "saved" /\ \A q \in Writers \ {r} : write'[q] = write[q]
    BY <1>0, <1>10, Moved DEF WriteSteps
  <2>2. Held(r) = write[r].size /\ Held(r)' = 0
    BY <1>3, <1>10, <2>1 DEF Held
  <2>3. Row(r).versions[v] = None
    BY <1>10 DEF Free
  <2> HIDE DEF with, v
  <2>4. Bytes(Pointed(with, r, v)) - Bytes(Row(r)) = Held(r) - Held(r)'
    BY <1>3, <1>5, <2>2, <2>3
  <2> QED BY <1>0, <1>1, <1>10, <2>1, <2>4, RowBalance
<1>11. CASE /\ write' = [write EXCEPT ![r].pc = "fresh", ![r].tries = @ + 1]
            /\ used' = used /\ file' = file /\ write[r].pc = "commit"
  <2>1. /\ write'[r].pc = "fresh" /\ write'[r].size = write[r].size /\ \A q \in Writers \ {r} : write'[q] = write[q]
    BY <1>0, <1>11 DEF Shapes, Writer
  <2>2. Held(r)' = write[r].size /\ Held(r) = write[r].size
    BY <1>2, <1>3, <1>11, <2>1 DEF Held, Charge
  <2>3. used \in Nat
    BY Covered
  <2>4. used' = used + Held(r)' - Held(r)
    BY <1>3, <1>11, <2>2, <2>3
  <2>5. file' = file /\ \A q \in Writers \ {r} : write'[q] = write[q]
    BY <1>11, <2>1
  <2> QED BY <2>4, <2>5, WriterAside
<1>12. CASE UploadCreate(r)
  BY <1>7, <1>8, <1>12 DEF UploadCreate
<1>13. CASE UploadPoint(r)
  BY <1>1, <1>9, <1>13 DEF UploadPoint
<1>14. CASE SaveCommit(r)
  BY <1>7, <1>10, <1>11, <1>14 DEF SaveCommit
<1> QED BY <1>12, <1>13, <1>14

\* An overwrite leaves one version, and refunds what that is smaller by.
LEMMA OverwriteBooks ==
    ASSUME KeptInv, NewestInv, Heavy, Terms, Terms', Balanced, Others, purge' = purge, NEW r \in Writers,
           write[r].pc = "collapse" => Row(r) # None /\ Row(r).versions = Seen(r).versions,
           OverwriteCollapse(r) \/ OverwriteSettle(r)
    PROVE  Balanced'
<1>0. Shapes /\ Progress /\ write[r].pc \in Busy /\ r \in Overwrites
  BY DEF KeptInv, OverwriteCollapse, OverwriteSettle, Busy, Progress, ProgressOf
<1>1. CASE OverwriteSettle(r)
  <2>1. write[r].pc = "settle" /\ Held(r) = Unsettled(r) /\ Held(r) \in Nat /\ Held(r) <= used /\ used \in Nat
    BY <1>1, Covered DEF OverwriteSettle, Held, Terms
  <2>2. used' = used - Held(r)
    BY <1>1, <2>1 DEF OverwriteSettle, Refunded
  <2>3. write'[r].pc = "saved" /\ \A q \in Writers \ {r} : write'[q] = write[q]
    BY <1>0, <1>1, Moved DEF OverwriteSettle, WriteSteps
  <2>4. Held(r)' = 0
    BY <2>3 DEF Held
  <2>5. used' = used + Held(r)' - Held(r)
    BY <2>1, <2>2, <2>4
  <2> QED BY <1>1, <2>3, <2>5, WriterAside DEF OverwriteSettle
<1>2. CASE OverwriteCollapse(r)
  <2> DEFINE f == write[r].file
             v == Seen(r).current
             row == [Row(r) EXCEPT !.key = r, !.size = write[r].size, !.versions = Kept(r)]
  <2>1. write[r].pc = "collapse" /\ Row(r) # None /\ Row(r).versions = Seen(r).versions
    BY <1>2 DEF OverwriteCollapse
  <2>2. /\ f \in Files /\ Row(r) = file[f] /\ Row(r) \in FileRow /\ Seen(r) \in FileRow
        /\ Stored(r) \in Content /\ Stored(r) # None /\ Seen(r) # None
    BY <1>0, <2>1, RowFacts, NoneAssumption DEF Seen
  <2>3. Put(r, row) /\ WriteMove(r, "settle") /\ used' = used
    BY <1>2, <2>1 DEF OverwriteCollapse
  <2>4. /\ write'[r].pc = "settle" /\ \A q \in Writers \ {r} : write'[q] = write[q]
        /\ write'[r].size = write[r].size /\ write'[r].seen = write[r].seen
    BY <1>0, <2>3, Moved DEF WriteSteps
  <2>5. v = Row(r).current /\ v \in Numbers /\ Row(r).versions[v] # None
    <3>1. ~Plain
      BY <1>0, <2>1 DEF Plain
    <3>2. v = Row(r).current
      BY <2>1, <2>2, <3>1 DEF NewestInv, Tied, Seen
    <3>3. file[f].versions[file[f].current] # None /\ file[f].current \in Numbers
      <4>1. Shown(file[f])
        BY <2>1, <2>2 DEF NewestInv, Current
      <4> HIDE DEF f
      <4> QED BY <1>0, <2>1, <2>2, <4>1, RowNumbers
    <3> QED BY <2>2, <3>2, <3>3
  <2>6. row \in FileRow /\ row.versions = Kept(r)
    <3>1. Kept(r) \in [Numbers -> Content \cup {None}] /\ r \in Keys /\ write[r].size \in Int
      BY <1>0, <2>2 DEF Kept, Keys, Shapes, Writer
    <3> QED BY <2>2, <3>1 DEF FileRow
  <2>7. Kept(r)[v] = Stored(r) /\ \A u \in Numbers \ {v} : Kept(r)[u] = None
    BY <2>5 DEF Kept
  <2>8. Bytes(row) = write[r].size
    <3>1. Stored(r).size = write[r].size
      BY DEF Stored
    <3>2. row.versions[v] # None /\ row.versions[v].size = write[r].size /\ \A u \in Numbers \ {v} : row.versions[u] = None
      BY <2>2, <2>6, <2>7, <3>1
    <3> HIDE DEF row, v
    <3> QED BY <2>5, <2>6, <3>2, BytesOne
  <2>9. Bytes(Row(r)) = Bytes(Seen(r))
    BY <2>1, <2>2, BytesSame
  <2>10. /\ Held(r) = Charge(r) /\ Held(r)' = Unsettled(r)
    <3>1. Held(r)' = Unsettled(r)'
      BY <2>4 DEF Held
    <3>2. Unsettled(r)' = Unsettled(r)
      BY <2>4 DEF Unsettled, Charge, Seen
    <3> QED BY <2>1, <3>1, <3>2 DEF Held
  <2>11. /\ Charge(r) \in Nat /\ Bytes(Seen(r)) \in Nat /\ write[r].size \in Nat
         /\ Unsettled(r) = Bytes(Seen(r)) - write[r].size + Charge(r)
    BY <1>0, ChargeFacts
  <2> HIDE DEF row, v, f
  <2>12. Bytes(row) - Bytes(Row(r)) = Held(r) - Held(r)'
    <3> DEFINE b == Bytes(Seen(r))
               c == Charge(r)
    <3>1. /\ b \in Nat /\ c \in Nat /\ Held(r) = c /\ Held(r)' = b - write[r].size + c
          /\ Bytes(row) = write[r].size /\ Bytes(Row(r)) = b
      BY <2>8, <2>9, <2>10, <2>11
    <3> HIDE DEF b, c
    <3> QED BY <2>11, <3>1
  <2> QED BY <1>0, <2>2, <2>3, <2>4, <2>12, RowBalance DEF f
<1> QED BY <1>1, <1>2

-----------------------------------------------------------------------------
(* The requests that make files *)

\* The balance and the rows change by what the import holds less or more.
LEMMA IntakeBalance ==
    ASSUME Terms, Terms', Balanced, write' = write, purge' = purge, remux' = remux, NEW f \in Fresh,
           \A g \in Fresh \ {f} : intake'[g] = intake[g],
           NEW d \in Int, OfFiles' = OfFiles + d, used' = used + d + IntakeHeld(f)' - IntakeHeld(f)
    PROVE  Balanced'
<1>1. OfIntakes' = OfIntakes - IntakeHeld(f) + IntakeHeld(f)'
  BY IntakesChange
<1>2. OfPurges' = OfPurges /\ OfWriters' = OfWriters /\ OfRemuxes' = OfRemuxes
  BY SumsSame
<1>3. /\ OfFiles \in Nat /\ OfWriters \in Nat /\ OfPurges \in Nat /\ OfIntakes \in Nat /\ OfRemuxes \in Nat
  BY Covered
<1>4. IntakeHeld(f) \in Int /\ IntakeHeld(f)' \in Int
  BY DEF Terms
<1>5. used = OfFiles + OfWriters + OfPurges + OfIntakes + OfRemuxes
  BY DEF Balanced
<1>6. used' = OfFiles' + OfWriters' + OfPurges' + OfIntakes' + OfRemuxes'
  <2> DEFINE h == IntakeHeld(f)
             i == IntakeHeld(f)'
  <2>1. h \in Int /\ i \in Int /\ OfIntakes' = OfIntakes - h + i /\ used' = used + d + i - h
    BY <1>1, <1>4
  <2> HIDE DEF h, i
  <2> QED BY <1>2, <1>3, <1>5, <2>1
<1> QED BY <1>6 DEF Balanced

\* An import that touches no row: the balance changes by what it holds.
LEMMA IntakeAside ==
    ASSUME Terms, Terms', Balanced, write' = write, purge' = purge, remux' = remux, file' = file, NEW f \in Fresh,
           \A g \in Fresh \ {f} : intake'[g] = intake[g], used' = used + IntakeHeld(f)' - IntakeHeld(f)
    PROVE  Balanced'
<1>1. OfFiles' = OfFiles /\ OfFiles \in Nat /\ used \in Nat /\ IntakeHeld(f) \in Int /\ IntakeHeld(f)' \in Int
  BY Covered, FilesSame DEF Terms
<1>2. 0 \in Int /\ OfFiles' = OfFiles + 0 /\ used' = used + 0 + IntakeHeld(f)' - IntakeHeld(f)
  <2> DEFINE h == IntakeHeld(f)
             i == IntakeHeld(f)'
  <2>1. h \in Int /\ i \in Int /\ used' = used + i - h
    BY <1>1
  <2> HIDE DEF h, i
  <2>2. used' = used + 0 + i - h
    BY <1>1, <2>1
  <2> QED BY <1>1, <2>2 DEF h, i
<1> QED BY <1>2, IntakeBalance

\* How each step moves the record of its request
LEMMA IntakeMoves ==
    ASSUME Shapes, NEW f \in Fresh, NEW step \in IntakeSteps, IntakeMove(f, step)
    PROVE  /\ intake'[f].pc = step /\ intake'[f].size = intake[f].size /\ intake'[f].at = intake[f].at
           /\ \A g \in Fresh \ {f} : intake'[g] = intake[g]
<1>1. intake[f] \in [pc : IntakeSteps, at : {"folder", "top"}, size : Int, hops : Nat]
  BY DEF Shapes
<1>2. intake' = [intake EXCEPT ![f] = [intake[f] EXCEPT !.pc = step]]
  BY DEF IntakeMove, Shapes
<1>3. DEFINE i == [intake[f] EXCEPT !.pc = step]
<1>4. i.pc = step /\ i.size = intake[f].size /\ i.at = intake[f].at
  BY <1>1
<1> HIDE DEF i
<1>5. intake'[f] = i /\ \A g \in Fresh \ {f} : intake'[g] = intake[g]
  BY <1>2 DEF Shapes, i
<1> QED BY <1>4, <1>5

\* What comes before the reservation: nothing is held, before or after.
LEMMA ArrivalBooks ==
    ASSUME Shapes, NEW f \in Files, IntakeStep(f), ~Writes(f)
    PROVE  /\ UNCHANGED vars /\ f \in Fresh /\ \A g \in Fresh \ {f} : intake'[g] = intake[g]
           /\ intake[f].pc \in {"idle", "fetch", "check"}
           /\ intake'[f].pc \in {"fetch", "check", "reserve", "refused"}
           /\ intake'[f].pc \in {"check", "reserve"} => intake'[f].size \in Sizes \/
                 (intake[f].pc = "check" /\ intake'[f].size = intake[f].size)
<1>0. intake[f] \in [pc : IntakeSteps, at : {"folder", "top"}, size : Int, hops : Nat] \/ f \notin Fresh
  BY DEF Shapes
<1>1. ASSUME NEW at, NEW n, NEW step, GoesTo(f, at, n, step), f \in Fresh
      PROVE  /\ UNCHANGED vars /\ \A g \in Fresh \ {f} : intake'[g] = intake[g]
             /\ intake'[f].pc = step /\ intake'[f].size = n
  <2> DEFINE i == [intake[f] EXCEPT !.pc = step, !.at = at, !.size = n]
  <2>1. intake' = [intake EXCEPT ![f] = i] /\ UNCHANGED vars
    BY <1>1 DEF GoesTo, Shapes
  <2>2. i.pc = step /\ i.size = n
    BY <1>0, <1>1
  <2> HIDE DEF i
  <2> QED BY <1>1, <2>1, <2>2 DEF Shapes
<1>2. ASSUME Refuse(f), f \in Fresh
      PROVE  /\ UNCHANGED vars /\ \A g \in Fresh \ {f} : intake'[g] = intake[g]
             /\ intake'[f].pc = "refused"
  BY <1>2, IntakeMoves DEF Refuse, IntakeSteps
<1>3. CASE UploadArrives(f) \/ DavArrives(f) \/ UrlArrives(f) \/ UrlFetched(f) \/ ImportArrives(f) \/ Downloaded(f) \/ VttArrives(f)
  <2>1. f \in Fresh /\ intake[f].pc \in {"idle", "fetch"}
    BY <1>3 DEF UploadArrives, DavArrives, UrlArrives, UrlFetched, ImportArrives, Downloaded, VttArrives, IntakeAt
  <2>2. \/ Refuse(f)
        \/ \E at, n : /\ \E step \in {"fetch", "check", "reserve"} : GoesTo(f, at, n, step) /\ (step # "fetch" => n \in Sizes)
    BY <1>3, NewFilesAssumption DEF UploadArrives, DavArrives, UrlArrives, UrlFetched, ImportArrives, Downloaded, VttArrives
  <2>3. CASE Refuse(f)
    BY <1>2, <2>1, <2>3
  <2>4. CASE \E at, n : \E step \in {"fetch", "check", "reserve"} : GoesTo(f, at, n, step) /\ (step # "fetch" => n \in Sizes)
    <3>0. PICK at, n : \E step \in {"fetch", "check", "reserve"} : GoesTo(f, at, n, step) /\ (step # "fetch" => n \in Sizes)
      BY <2>4
    <3>1. PICK step \in {"fetch", "check", "reserve"} : GoesTo(f, at, n, step) /\ (step # "fetch" => n \in Sizes)
      BY <3>0
    <3> QED BY <1>1, <2>1, <3>1
  <2> QED BY <2>2, <2>3, <2>4
<1>4. CASE UrlHops(f)
  <2>1. f \in Fresh /\ intake[f].pc = "fetch" /\ UNCHANGED vars
    BY <1>4 DEF UrlHops, IntakeAt
  <2>2. CASE intake' = [intake EXCEPT ![f].hops = @ + 1]
    <3>1. intake'[f].pc = "fetch" /\ \A g \in Fresh \ {f} : intake'[g] = intake[g]
      BY <1>0, <2>1, <2>2 DEF Shapes
    <3> QED BY <2>1, <3>1
  <2>3. CASE IntakeMove(f, "refused")
    BY <2>1, <2>3, IntakeMoves DEF IntakeSteps
  <2> QED BY <1>4, <2>2, <2>3 DEF UrlHops
<1>5. CASE NameFree(f)
  <2>1. f \in Fresh /\ intake[f].pc = "check" /\ UNCHANGED vars
    BY <1>5 DEF NameFree, IntakeAt
  <2> QED BY <1>5, <2>1, IntakeMoves DEF NameFree, IntakeSteps
<1> QED BY <1>3, <1>4, <1>5 DEF IntakeStep, UploadWrites, UrlWrites, ImportWrites, DavWrites, VttWrites

\* A new file takes what was reserved for it.
LEMMA IntakeBooks ==
    ASSUME KeptInv, Heavy, Terms, Terms', Balanced, remux' = remux, NEW f \in Files, IntakeStep(f)
    PROVE  Balanced'
<1>0. Shapes /\ used \in Nat
  BY Covered DEF KeptInv
<1>1. CASE ~Writes(f)
  <2>1. /\ UNCHANGED vars /\ f \in Fresh /\ \A g \in Fresh \ {f} : intake'[g] = intake[g]
        /\ intake[f].pc \in {"idle", "fetch", "check"} /\ intake'[f].pc \in {"fetch", "check", "reserve", "refused"}
    BY <1>0, <1>1, ArrivalBooks
  <2>2. IntakeHeld(f) = 0 /\ IntakeHeld(f)' = 0
    BY <2>1 DEF IntakeHeld
  <2> QED BY <1>0, <2>1, <2>2, IntakeAside DEF vars
<1>2. CASE Reserves(f)
  <2>1. /\ f \in Fresh /\ intake[f].pc = "reserve" /\ file' = file /\ write' = write /\ purge' = purge
        /\ IntakeHeld(f) = 0 /\ intake[f].size \in Nat
    BY <1>2, SizesNat DEF Reserves, IntakeAt, IntakeHeld, Heavy
  <2>2. CASE used' = used + intake[f].size /\ IntakeMove(f, "store")
    <3>1. /\ intake'[f].pc = "store" /\ intake'[f].size = intake[f].size /\ \A g \in Fresh \ {f} : intake'[g] = intake[g]
      BY <1>0, <2>1, <2>2, IntakeMoves DEF IntakeSteps
    <3>2. used' = used + IntakeHeld(f)' - IntakeHeld(f)
      BY <1>0, <2>1, <2>2, <3>1 DEF IntakeHeld
    <3> QED BY <2>1, <3>1, <3>2, IntakeAside
  <2>3. CASE IntakeMove(f, "refused") /\ used' = used
    <3>1. intake'[f].pc = "refused" /\ \A g \in Fresh \ {f} : intake'[g] = intake[g]
      BY <1>0, <2>1, <2>3, IntakeMoves DEF IntakeSteps
    <3>2. used' = used + IntakeHeld(f)' - IntakeHeld(f)
      BY <1>0, <2>1, <2>3, <3>1 DEF IntakeHeld
    <3> QED BY <2>1, <3>1, <3>2, IntakeAside
  <2> QED BY <1>2, <2>2, <2>3 DEF Reserves
<1>3. CASE Stores(f)
  <2>1. /\ f \in Fresh /\ intake[f].pc = "store" /\ file' = file /\ write' = write /\ purge' = purge /\ used' = used
        /\ intake[f].size \in Nat /\ IntakeMove(f, "create")
    BY <1>3, SizesNat DEF Stores, IntakeAt, Heavy
  <2>2. /\ intake'[f].pc = "create" /\ intake'[f].size = intake[f].size /\ \A g \in Fresh \ {f} : intake'[g] = intake[g]
    BY <1>0, <2>1, IntakeMoves DEF IntakeSteps
  <2>3. used' = used + IntakeHeld(f)' - IntakeHeld(f)
    BY <1>0, <2>1, <2>2 DEF IntakeHeld
  <2> QED BY <2>1, <2>2, <2>3, IntakeAside
<1>4. CASE Creates(f)
  <2>1. /\ f \in Fresh /\ intake[f].pc = "create" /\ write' = write /\ purge' = purge /\ used' = used
        /\ intake[f].size \in Nat /\ intake[f].size \in Int /\ IntakeMove(f, "made") /\ file' = [file EXCEPT ![f] = NewRow(f)]
    BY <1>4, SizesNat DEF Creates, IntakeAt, Heavy
  <2>2. /\ intake'[f].pc = "made" /\ \A g \in Fresh \ {f} : intake'[g] = intake[g]
    BY <1>0, <2>1, IntakeMoves DEF IntakeSteps
  <2>3. IntakeHeld(f) = intake[f].size /\ IntakeHeld(f)' = 0
    BY <2>1, <2>2 DEF IntakeHeld
  <2>4. file[f] = None
    BY <2>1 DEF KeptInv, FreshOnce
  <2> DEFINE row == NewRow(f)
             c == [key |-> f, size |-> intake[f].size]
  <2>5. c \in Content /\ c # None /\ c.size = intake[f].size
    BY <2>1, NoneAssumption DEF Content, Keys
  <2>6. row.versions = [v \in Numbers |-> IF v = 1 THEN c ELSE None]
    BY DEF NewRow
  <2>7. row \in FileRow
    <3>1. [v \in Numbers |-> IF v = 1 THEN c ELSE None] \in [Numbers -> Content \cup {None}]
      BY <2>5
    <3>2. f \in Keys /\ 1 \in Numbers
      BY <2>1, NumbersFinite DEF Keys
    <3> QED BY <2>1, <3>1, <3>2 DEF NewRow, FileRow
  <2>8. Bytes(row) = intake[f].size
    <3>1. 1 \in Numbers /\ row.versions[1] = c /\ \A u \in Numbers \ {1} : row.versions[u] = None
      BY <2>6, NumbersFinite
    <3> HIDE DEF row, c
    <3> QED BY <2>5, <2>7, <3>1, BytesOne
  <2> HIDE DEF row
  <2>9. file'[f] = row /\ \A g \in Files \ {f} : file'[g] = file[g]
    BY <1>0, <2>1 DEF Shapes, row
  <2>10. OfFiles' = OfFiles - Bytes(file[f]) + Bytes(file'[f])
    BY <2>9, FilesChange
  <2>11. Bytes(file[f]) = 0
    BY <2>4 DEF Bytes
  <2>12. OfFiles \in Nat
    BY Covered
  <2>13. OfFiles' = OfFiles + intake[f].size
    BY <2>1, <2>8, <2>9, <2>10, <2>11, <2>12
  <2>14. used' = used + intake[f].size + IntakeHeld(f)' - IntakeHeld(f)
    BY <1>0, <2>1, <2>3
  <2> QED BY <2>1, <2>2, <2>13, <2>14, IntakeBalance
<1>5. CASE Undoes(f)
  <2>1. /\ f \in Fresh /\ intake[f].pc \in {"store", "create"} /\ file' = file /\ write' = write /\ purge' = purge
        /\ used' = Refunded(used, intake[f].size) /\ IntakeMove(f, "refused")
    BY <1>5 DEF Undoes, Undone, IntakeAt
  <2>2. /\ intake'[f].pc = "refused" /\ \A g \in Fresh \ {f} : intake'[g] = intake[g]
    BY <1>0, <2>1, IntakeMoves DEF IntakeSteps
  <2>3. IntakeHeld(f) = intake[f].size /\ IntakeHeld(f)' = 0 /\ IntakeHeld(f) \in Nat /\ IntakeHeld(f) <= used
    BY <2>1, <2>2, Covered DEF IntakeHeld, Terms
  <2>4. used' = used + IntakeHeld(f)' - IntakeHeld(f)
    BY <1>0, <2>1, <2>3 DEF Refunded
  <2> QED BY <2>1, <2>2, <2>4, IntakeAside
<1> QED BY <1>1, <1>2, <1>3, <1>4, <1>5 DEF Writes

\* The trash changes no size.
LEMMA TrashBooks ==
    ASSUME Dims, Balanced, write' = write, purge' = purge, intake' = intake, remux' = remux, used' = used,
           \A f \in Files : file[f] # None => file'[f] # None
    PROVE  Balanced'
<1>1. ASSUME NEW f \in Files PROVE Bytes(file'[f]) = Bytes(file[f])
  <2>1. CASE file[f] = None
    BY <2>1 DEF Dims
  <2>2. CASE file[f] # None
    <3>1. file'[f] # None /\ file'[f].versions = file[f].versions
      BY <2>2 DEF Dims
    <3> QED BY <2>2, <3>1, BytesSame
  <2> QED BY <2>1, <2>2
<1>2. OfFiles' = OfFiles
  BY <1>1, FilesSame
<1> QED BY <1>2, SumsSame DEF Balanced

-----------------------------------------------------------------------------
(* The purges *)

\* The balance and the rows change by what the purge owes less or more.
LEMMA PurgeBalance ==
    ASSUME Terms, Terms', Balanced, write' = write, intake' = intake, remux' = remux, NEW p \in Purges,
           \A q \in Purges \ {p} : purge'[q] = purge[q],
           NEW d \in Int, OfFiles' = OfFiles - d, used' = used - d + Owed(p)' - Owed(p)
    PROVE  Balanced'
<1>1. OfPurges' = OfPurges - Owed(p) + Owed(p)'
  BY PurgesChange
<1>2. OfIntakes' = OfIntakes /\ OfWriters' = OfWriters /\ OfRemuxes' = OfRemuxes
  BY SumsSame
<1>3. /\ OfFiles \in Nat /\ OfWriters \in Nat /\ OfPurges \in Nat /\ OfIntakes \in Nat /\ OfRemuxes \in Nat
  BY Covered
<1>4. Owed(p) \in Int /\ Owed(p)' \in Int
  BY DEF Terms
<1>5. used = OfFiles + OfWriters + OfPurges + OfIntakes + OfRemuxes
  BY DEF Balanced
<1>6. used' = OfFiles' + OfWriters' + OfPurges' + OfIntakes' + OfRemuxes'
  <2> DEFINE h == Owed(p)
             i == Owed(p)'
  <2>1. h \in Int /\ i \in Int /\ OfPurges' = OfPurges - h + i /\ used' = used - d + i - h
    BY <1>1, <1>4
  <2> HIDE DEF h, i
  <2> QED BY <1>2, <1>3, <1>5, <2>1
<1> QED BY <1>6 DEF Balanced

\* Reading, stripping and failing delete no row and owe nothing.
LEMMA PurgeAside ==
    ASSUME Terms, Terms', Balanced, write' = write, intake' = intake, remux' = remux, file' = file, NEW p \in Purges,
           \A q \in Purges \ {p} : purge'[q] = purge[q], used' = used, Owed(p)' = Owed(p)
    PROVE  Balanced'
<1>1. OfFiles' = OfFiles /\ OfFiles \in Nat /\ used \in Nat /\ Owed(p) \in Int
  BY Covered, FilesSame DEF Terms
<1>2. 0 \in Int /\ OfFiles' = OfFiles - 0 /\ used' = used - 0 + Owed(p)' - Owed(p)
  <2> DEFINE h == Owed(p)
  <2>1. h \in Int /\ Owed(p)' = h
    BY <1>1
  <2> HIDE DEF h
  <2>2. used' = used - 0 + h - h /\ OfFiles' = OfFiles - 0
    BY <1>1, <2>1
  <2> QED BY <2>1, <2>2 DEF h
<1> QED BY <1>2, PurgeBalance

\* A purge's record after a step of it
LEMMA PurgeMoved ==
    ASSUME Listed, NEW p \in Purges, NEW q, purge' = [purge EXCEPT ![p] = q]
    PROVE  purge'[p] = q /\ \A o \in Purges \ {p} : purge'[o] = purge[o]
BY DEF Listed

\* Rows that go, as a sum
LEMMA RowsGo ==
    ASSUME Terms, Listed, NEW p \in Purges, NEW fs \in SUBSET Files, file' = Deleted(fs),
           \A f \in fs : purge[p].rows[f] # None /\ file[f] # None /\ file[f].versions = purge[p].rows[f].versions,
           \A f \in Files \ fs : purge[p].rows[f] = None
    PROVE  OfFiles' = OfFiles - BytesListed(p, Files) /\ BytesListed(p, Files) \in Nat
<1> DEFINE a == [f \in Files |-> Bytes(file[f])]
           b == [f \in Files |-> Bytes(file'[f])]
           c == [f \in Files |-> Bytes(purge[p].rows[f])]
<1>1. \A f \in Files : a[f] \in Nat /\ a[f] \in Int
  BY DEF Terms
<1>2. \A f \in Files : c[f] \in Nat /\ c[f] \in Int
  BY ListedBytes
<1>3. \A f \in fs : c[f] = a[f] /\ b[f] = 0 /\ b[f] \in Int
  <2> SUFFICES ASSUME NEW f \in fs PROVE c[f] = a[f] /\ b[f] = 0 /\ b[f] \in Int
    OBVIOUS
  <2>1. Bytes(purge[p].rows[f]) = Bytes(file[f])
    BY BytesSame
  <2>2. file'[f] = None
    BY DEF Deleted
  <2>3. Bytes(file'[f]) = 0
    BY <2>2 DEF Bytes
  <2> QED BY <2>1, <2>3
<1>4. \A f \in Files \ fs : c[f] = 0 /\ b[f] = a[f] /\ b[f] \in Int
  <2> SUFFICES ASSUME NEW f \in Files \ fs PROVE c[f] = 0 /\ b[f] = a[f] /\ b[f] \in Int
    OBVIOUS
  <2>1. file'[f] = file[f] /\ Bytes(None) = 0
    BY DEF Deleted, Bytes
  <2> QED BY <1>1, <2>1
<1>5. OfFiles = SumFunctionOnSet(a, Files) /\ OfFiles' = SumFunctionOnSet(b, Files) /\ BytesListed(p, Files) = SumFunctionOnSet(c, Files)
  BY DEF OfFiles, BytesListed, SumFunction
<1>6. IsFiniteSet(Files) /\ IsFiniteSet(fs) /\ IsFiniteSet(Files \ fs)
  BY VersionsAssumption, FS_Subset
<1> HIDE DEF a, b, c
<1>7. /\ SumFunctionOnSet(a, Files) = SumFunctionOnSet(a, fs) + SumFunctionOnSet(a, Files \ fs)
      /\ SumFunctionOnSet(c, Files) = SumFunctionOnSet(c, fs) + SumFunctionOnSet(c, Files \ fs)
      /\ SumFunctionOnSet(b, Files) = SumFunctionOnSet(b, fs) + SumFunctionOnSet(b, Files \ fs)
  <2>1. \A f \in Files : b[f] \in Int
    BY <1>3, <1>4
  <2> QED BY <1>1, <1>2, <1>6, <2>1, SumParts
<1>8. SumFunctionOnSet(c, fs) = SumFunctionOnSet(a, fs) /\ SumFunctionOnSet(b, Files \ fs) = SumFunctionOnSet(a, Files \ fs)
  BY <1>3, <1>4, <1>6, SumSame
<1>9. SumFunctionOnSet(b, fs) = 0 /\ SumFunctionOnSet(c, Files \ fs) = 0
  BY <1>3, <1>4, <1>6, SumZero
<1>10. SumFunctionOnSet(a, fs) \in Nat /\ SumFunctionOnSet(a, Files \ fs) \in Nat
  BY <1>1, <1>6, SumNat
<1> QED BY <1>5, <1>7, <1>8, <1>9, <1>10

\* Every step of a purge
LEMMA PurgeBooks ==
    ASSUME Shapes, Listed, Terms, Terms', Balanced, write' = write, intake' = intake, remux' = remux,
           NEW p \in Purges, PurgeStep(p)
    PROVE  Balanced'
<1>0. purge[p] \in PurgeRecord /\ ListedOf(p, purge[p]) /\ used \in Nat
  BY Covered DEF Listed
<1>1. CASE PurgeRead(p)
  <2>1. PICK listed \in Listing(p) \ {{}} : purge' = [purge EXCEPT ![p] =
                      [pc |-> "delete", strip |-> listed, drop |-> listed,
                       rows |-> [f \in Files |-> IF f \in listed THEN file[f] ELSE None]]]
    BY <1>1 DEF PurgeRead
  <2>2. purge[p].pc = "idle" /\ used' = used /\ file' = file
    BY <1>1 DEF PurgeRead
  <2>3. /\ purge'[p] = [pc |-> "delete", strip |-> listed, drop |-> listed,
                       rows |-> [f \in Files |-> IF f \in listed THEN file[f] ELSE None]]
        /\ \A q \in Purges \ {p} : purge'[q] = purge[q]
    BY <2>1, PurgeMoved
  <2>4. Owed(p) = 0
    BY <2>2 DEF Owed
  <2>5. BytesListed(p, Files \ listed)' = 0
    <3> DEFINE b == [f \in Files \ listed |-> Bytes(purge'[p].rows[f])]
    <3>1. \A f \in Files \ listed : purge'[p].rows[f] = None
      BY <2>3
    <3>2. \A f \in Files \ listed : b[f] = 0
      BY <3>1 DEF Bytes
    <3>3. BytesListed(p, Files \ listed)' = SumFunctionOnSet(b, Files \ listed)
      BY DEF BytesListed, SumFunction
    <3>4. IsFiniteSet(Files \ listed)
      BY VersionsAssumption, FS_Subset
    <3> HIDE DEF b
    <3> QED BY <3>2, <3>3, <3>4, SumZero
  <2>6. Owed(p)' = 0
    <3>1. purge'[p].pc = "delete" /\ purge'[p].drop = listed
      BY <2>3
    <3>2. Owed(p)' = IF p \in Sweeps THEN BytesListed(p, Files \ listed)' ELSE 0
      BY <3>1 DEF Owed, BytesListed
    <3> QED BY <2>5, <3>2
  <2> QED BY <2>2, <2>3, <2>4, <2>6, PurgeAside
<1>3. CASE PurgeRefund(p)
  <2> DEFINE q == [purge[p] EXCEPT !.pc = "done"]
  <2>1. /\ purge[p].pc = "refund" /\ used' = Refunded(used, BytesListed(p, Files)) /\ file' = file
        /\ purge' = [purge EXCEPT ![p] = q]
    BY <1>3 DEF PurgeRefund, Listed
  <2>2. q.pc = "done"
    BY <1>0 DEF PurgeRecord
  <2> HIDE DEF q
  <2>3. purge'[p] = q /\ \A o \in Purges \ {p} : purge'[o] = purge[o]
    BY <2>1, PurgeMoved
  <2>4. Owed(p)' = 0
    BY <2>2, <2>3 DEF Owed
  <2>5. Owed(p) = BytesListed(p, Files) /\ Owed(p) \in Nat /\ Owed(p) <= used
    BY <2>1, Covered DEF Owed, Terms
  <2>6. OfFiles' = OfFiles /\ OfFiles \in Nat
    BY <2>1, FilesSame, Covered
  <2>7. 0 \in Int /\ OfFiles' = OfFiles - 0 /\ used' = used - 0 + Owed(p)' - Owed(p)
    BY <1>0, <2>1, <2>4, <2>5, <2>6 DEF Refunded
  <2> QED BY <2>3, <2>7, PurgeBalance
<1>4. CASE \E f \in Files : PurgeStrip(p, f)
  <2>1. PICK f \in Files : PurgeStrip(p, f)
    BY <1>4
  <2> DEFINE q == [purge[p] EXCEPT !.strip = @ \ {f}]
  <2>2. used' = used /\ file' = file /\ purge' = [purge EXCEPT ![p] = q]
    BY <2>1 DEF PurgeStrip, Listed
  <2>3. q.pc = purge[p].pc /\ q.rows = purge[p].rows /\ q.drop = purge[p].drop
    BY <1>0 DEF PurgeRecord
  <2> HIDE DEF q
  <2>4. purge'[p] = q /\ \A o \in Purges \ {p} : purge'[o] = purge[o]
    BY <2>2, PurgeMoved
  <2>5. Owed(p)' = Owed(p)
    BY <2>3, <2>4 DEF Owed, BytesListed
  <2> QED BY <2>2, <2>4, <2>5, PurgeAside
<1>5. CASE (HardDrop(p) \/ EmptyDrop(p)) /\ \A f \in purge[p].drop : file[f] # None
  <2> DEFINE q == [purge[p] EXCEPT !.pc = "refund", !.drop = {}]
             fs == purge[p].drop
  <2>1. /\ purge[p].pc = "delete" /\ p \notin Sweeps /\ file' = Deleted(fs) /\ used' = used
        /\ purge' = [purge EXCEPT ![p] = q]
    BY <1>5, VersionsAssumption DEF HardDrop, EmptyDrop, Exists, Listed
  <2>2. q.pc = "refund" /\ q.rows = purge[p].rows
    BY <1>0 DEF PurgeRecord
  <2> HIDE DEF q
  <2>3. purge'[p] = q /\ \A o \in Purges \ {p} : purge'[o] = purge[o]
    BY <2>1, PurgeMoved
  <2>4. Owed(p) = 0 /\ Owed(p)' = BytesListed(p, Files)
    BY <2>1, <2>2, <2>3 DEF Owed, BytesListed
  <2>5. fs \in SUBSET Files /\ \A f \in Files \ fs : purge[p].rows[f] = None
    BY <1>0, <2>1 DEF PurgeRecord, ListedOf
  <2>6. \A f \in fs : purge[p].rows[f] # None /\ file[f] # None /\ file[f].versions = purge[p].rows[f].versions
    BY <1>0, <1>5, <2>1 DEF ListedOf
  <2>7. OfFiles' = OfFiles - BytesListed(p, Files) /\ BytesListed(p, Files) \in Nat
    <3> HIDE DEF fs
    <3> QED BY <2>1, <2>5, <2>6, RowsGo
  <2> DEFINE d == BytesListed(p, Files)
  <2>8. d \in Int /\ OfFiles' = OfFiles - d /\ used' = used - d + Owed(p)' - Owed(p)
    <3>1. d \in Nat /\ Owed(p)' = d /\ Owed(p) = 0 /\ OfFiles' = OfFiles - d /\ used' = used
      BY <2>1, <2>4, <2>7
    <3> HIDE DEF d
    <3> QED BY <1>0, <3>1
  <2> HIDE DEF d
  <2> QED BY <2>3, <2>8, PurgeBalance
<1>6. CASE HardDrop(p) /\ ~\A f \in purge[p].drop : file[f] # None
  <2> DEFINE q == [purge[p] EXCEPT !.pc = "done", !.drop = {}]
             fs == purge[p].drop
  <2>1. /\ purge[p].pc = "delete" /\ p \notin Sweeps /\ file' = Deleted(fs) /\ used' = used
        /\ purge' = [purge EXCEPT ![p] = q] /\ p \in HardDeletes
    BY <1>6, VersionsAssumption DEF HardDrop, Exists, Listed
  <2>2. q.pc = "done"
    BY <1>0 DEF PurgeRecord
  <2> HIDE DEF q
  <2>3. purge'[p] = q /\ \A o \in Purges \ {p} : purge'[o] = purge[o]
    BY <2>1, PurgeMoved
  <2>4. Owed(p) = 0 /\ Owed(p)' = 0
    BY <2>1, <2>2, <2>3 DEF Owed
  <2>5. \A f \in fs : file[f] = None
    BY <1>0, <1>6, <2>1 DEF ListedOf
  <2>6. file' = file
    BY <2>1, <2>5 DEF Deleted, Shapes
  <2> QED BY <2>1, <2>3, <2>4, <2>6, PurgeAside
<1>7. CASE SweepDrop(p)
  <2>1. PICK f \in purge[p].drop \ purge[p].strip :
          /\ file' = Deleted({f})
          /\ purge' = [purge EXCEPT ![p].drop = @ \ {f},
                          ![p].pc = IF purge[p].drop = {f} THEN "refund" ELSE @]
    BY <1>7 DEF SweepDrop
  <2> DEFINE drop == purge[p].drop
             q == [purge[p] EXCEPT !.drop = @ \ {f}, !.pc = IF drop = {f} THEN "refund" ELSE @]
  <2>2. /\ p \in Sweeps /\ p \notin HardDeletes /\ used' = used /\ purge' = [purge EXCEPT ![p] = q] /\ f \in drop
        /\ purge[p].pc = "delete" /\ f \in Files /\ drop \in SUBSET Files
    <3>1. p \in Sweeps /\ p \notin HardDeletes /\ used' = used
      BY <1>7, VersionsAssumption DEF SweepDrop
    <3>2. purge' = [purge EXCEPT ![p] = q]
      BY <2>1 DEF Listed
    <3>3. f \in drop /\ drop \in SUBSET Files /\ f \in Files
      BY <1>0, <2>1 DEF PurgeRecord
    <3>4. purge[p].pc = "delete"
      BY <1>0, <2>1 DEF ListedOf
    <3> QED BY <3>1, <3>2, <3>3, <3>4
  <2>3. q.rows = purge[p].rows /\ q.drop = drop \ {f} /\ q.pc = IF drop = {f} THEN "refund" ELSE "delete"
    BY <1>0, <2>2 DEF PurgeRecord
  <2>4. file[f] # None /\ purge[p].rows[f] # None /\ file[f].versions = purge[p].rows[f].versions
    BY <1>0, <2>2 DEF ListedOf
  <2> HIDE DEF q
  <2>5. purge'[p] = q /\ \A o \in Purges \ {p} : purge'[o] = purge[o]
    BY <2>2, PurgeMoved
  <2> DEFINE c == [g \in Files |-> Bytes(purge[p].rows[g])]
             d == Bytes(file[f])
  <2>6. Owed(p) = SumFunctionOnSet(c, Files \ drop)
    <3> DEFINE e == [g \in Files \ drop |-> Bytes(purge[p].rows[g])]
    <3>1. Owed(p) = SumFunctionOnSet(e, Files \ drop)
      BY <2>2 DEF Owed, BytesListed, SumFunction
    <3>2. \A g \in Files \ drop : e[g] = c[g]
      OBVIOUS
    <3>3. IsFiniteSet(Files \ drop)
      BY VersionsAssumption, FS_Subset
    <3> HIDE DEF c, e, drop
    <3> QED BY <3>1, <3>2, <3>3, SumSame
  <2>7. Owed(p)' = SumFunctionOnSet(c, Files \ (drop \ {f}))
    <3> DEFINE rest == Files \ (drop \ {f})
               e == [g \in rest |-> Bytes(purge[p].rows[g])]
    <3>1. rest = IF drop = {f} THEN Files ELSE Files \ (drop \ {f})
      OBVIOUS
    <3>2. purge'[p].rows = purge[p].rows /\ purge'[p].drop = drop \ {f} /\ purge'[p].pc = IF drop = {f} THEN "refund" ELSE "delete"
      BY <2>3, <2>5
    <3>3. Owed(p)' = SumFunction([g \in rest |-> Bytes(purge'[p].rows[g])])
      <4>1. CASE drop = {f}
        <5>1. Owed(p)' = SumFunction([g \in Files |-> Bytes(purge'[p].rows[g])])
          BY <3>2, <4>1 DEF Owed, BytesListed
        <5>2. rest = Files
          BY <4>1
        <5> HIDE DEF rest
        <5> QED BY <5>1, <5>2
      <4>2. CASE drop # {f}
        <5>1. purge'[p].pc = "delete" /\ Files \ purge'[p].drop = rest
          BY <3>2, <4>2
        <5> HIDE DEF rest
        <5> QED BY <2>2, <5>1 DEF Owed, BytesListed
      <4> QED BY <4>1, <4>2
    <3>4. Owed(p)' = SumFunctionOnSet(e, rest)
      BY <3>2, <3>3 DEF SumFunction
    <3>5. \A g \in rest : e[g] = c[g]
      OBVIOUS
    <3>6. IsFiniteSet(rest)
      BY VersionsAssumption, FS_Subset
    <3> HIDE DEF c, e
    <3>7. SumFunctionOnSet(e, rest) = SumFunctionOnSet(c, rest)
      <4> HIDE DEF rest
      <4> QED BY <3>5, <3>6, SumSame
    <3> QED BY <3>4, <3>7
  <2>8. \A g \in Files : c[g] \in Int
    BY ListedBytes
  <2>9. c[f] = d /\ d \in Nat
    <3>1. Bytes(purge[p].rows[f]) = Bytes(file[f])
      BY <2>4, BytesSame
    <3> QED BY <2>2, <3>1 DEF Terms
  <2>10. SumFunctionOnSet(c, Files \ (drop \ {f})) = c[f] + SumFunctionOnSet(c, Files \ drop)
    <3> DEFINE rest == Files \ (drop \ {f})
    <3>1. rest \in SUBSET Files /\ f \in rest /\ rest \ {f} = Files \ drop
      BY <2>2
    <3>2. IsFiniteSet(rest) /\ \A g \in rest : c[g] \in Int
      BY <2>8, <3>1, VersionsAssumption, FS_Subset
    <3> HIDE DEF c, rest
    <3>3. SumFunctionOnSet(c, rest) = c[f] + SumFunctionOnSet(c, rest \ {f})
      BY <3>1, <3>2, SumRemove
    <3> QED BY <3>1, <3>3 DEF rest
  <2>11. file'[f] = None /\ \A g \in Files \ {f} : file'[g] = file[g]
    BY <2>1, <2>2 DEF Deleted
  <2>12. OfFiles' = OfFiles - d + 0
    <3>1. Bytes(file'[f]) = 0
      BY <2>11 DEF Bytes
    <3> QED BY <2>2, <2>11, <3>1, FilesChange
  <2>13. OfFiles \in Nat /\ Owed(p) \in Nat /\ Owed(p)' \in Nat
    BY Covered DEF Terms
  <2> HIDE DEF c, d, drop
  <2>14. Owed(p)' = d + Owed(p)
    BY <2>6, <2>7, <2>9, <2>10
  <2>15. d \in Int /\ OfFiles' = OfFiles - d /\ used' = used - d + Owed(p)' - Owed(p)
    <3> DEFINE h == Owed(p)
               i == Owed(p)'
    <3>1. h \in Nat /\ i \in Nat /\ i = d + h
      BY <2>13, <2>14
    <3> HIDE DEF h, i
    <3>2. used' = used - d + i - h
      BY <1>0, <2>2, <2>9, <3>1
    <3> QED BY <2>9, <2>12, <2>13, <3>2 DEF h, i
  <2> QED BY <2>5, <2>15, PurgeBalance
<1>8. EmptyDrop(p) => \A f \in purge[p].drop : file[f] # None
  BY <1>0, VersionsAssumption DEF EmptyDrop, ListedOf
<1> QED BY <1>1, <1>3, <1>4, <1>5, <1>6, <1>7, <1>8 DEF PurgeStep

-----------------------------------------------------------------------------
(* The remuxes *)

\* A remux's record after a step of it
LEMMA RemuxMoved ==
    ASSUME Shapes, NEW r \in Remuxes
    PROVE  /\ \A step \in {"held", "update", "charge"} : RemuxTo(r, step) =>
                /\ remux'[r].pc = step /\ remux'[r].row = remux[r].row /\ remux'[r].seen = remux[r].seen
                /\ \A q \in Remuxes \ {r} : remux'[q] = remux[q]
           /\ RemuxEnd(r) => /\ remux'[r].pc = "unsent" /\ remux'[r].row = None
                             /\ \A q \in Remuxes \ {r} : remux'[q] = remux[q]
BY DEF RemuxTo, RemuxEnd, NoRemux, Shapes

\* The record of a remux that starts
LEMMA RemuxBegun ==
    ASSUME Shapes, NEW r \in Remuxes, NEW f \in Videos, RemuxStart(r, f)
    PROVE  /\ remux'[r].pc = "read" /\ remux'[r].row = f /\ remux'[r].seen = file[f]
           /\ \A q \in Remuxes \ {r} : remux'[q] = remux[q]
<1> DEFINE started == [pc |-> "read", row |-> f, seen |-> file[f],
                       poster |-> remux[r].pc = "idle" /\ derived["thumb"][f] = None]
<1>1. remux' = [remux EXCEPT ![r] = started]
  BY DEF RemuxStart
<1>2. started.pc = "read" /\ started.row = f /\ started.seen = file[f]
  OBVIOUS
<1> HIDE DEF started
<1> QED BY <1>1, <1>2 DEF Shapes

\* What settling a remux makes of the row it read
LEMMA RemuxRow ==
    ASSUME KeptInv, Shapes', NewestInv, RemuxTied, NEW r \in Remuxes, RemuxUpdate(r),
           Matches(remux[r].seen, file[remux[r].row])
    PROVE  LET f == remux[r].row v == remux[r].seen.current
           IN  /\ f \in Files /\ v \in Numbers /\ file[f] \in FileRow /\ file'[f] \in FileRow
               /\ \A g \in Files \ {f} : file'[g] = file[g]
               /\ file[f].versions[v] = [key |-> file[f].key, size |-> remux[r].seen.size]
               /\ file'[f].versions[v] = [key |-> file[f].key, size |-> remux[r].seen.size - 1]
               /\ \A u \in Numbers \ {v} : file'[f].versions[u] = file[f].versions[u]
               /\ file'[f].key = file[f].key /\ file'[f].current = file[f].current
               /\ file[f] # None /\ file'[f] # None /\ RemuxTo(r, "charge") /\ v = file[f].current
               /\ remux[r].seen.size \in Int
<1> DEFINE f == remux[r].row
           v == remux[r].seen.current
           old == file[f].versions
           new == [old EXCEPT ![v] = IF @ = None THEN None ELSE [key |-> @.key, size |-> Shrunk(r)]]
           row == [file[f] EXCEPT !.size = Shrunk(r), !.versions = new]
<1>1. Shapes /\ remux[r].pc = "update"
  BY DEF KeptInv, RemuxUpdate
<1>2. /\ file[f] # None /\ remux[r].seen # None /\ v = file[f].current /\ remux[r].seen.size = file[f].size
      /\ f \in Files
  BY <1>1, MediaAssumption DEF Matches, RemuxTied
<1>3. Shown(file[f])
  BY <1>2 DEF NewestInv, Current
<1>4. /\ file[f] \in FileRow /\ v \in Numbers /\ old \in [Numbers -> Content \cup {None}]
      /\ old[v] # None /\ old[v].key = file[f].key /\ file[f].size \in Int
      /\ old[v] = [key |-> file[f].key, size |-> file[f].size]
  <2> HIDE DEF f
  <2> QED BY <1>1, <1>2, <1>3, RowNumbers DEF Shown
<1>5. Shrunk(r) = remux[r].seen.size - 1
  BY DEF Shrunk
<1>6. file' = [file EXCEPT ![f] = row] /\ RemuxTo(r, "charge")
  <2>1. Exists(f)
    BY <1>2 DEF Exists
  <2>2. /\ file' = [file EXCEPT ![f].size = Shrunk(r),
                       ![f].versions[v] = IF @ = None THEN None ELSE [key |-> @.key, size |-> Shrunk(r)]]
        /\ RemuxTo(r, "charge")
    BY <2>1 DEF RemuxUpdate
  <2> QED BY <1>1, <1>2, <1>4, <2>2 DEF Shapes, FileRow
<1>7. /\ new[v] = [key |-> file[f].key, size |-> Shrunk(r)]
      /\ \A u \in Numbers \ {v} : new[u] = old[u]
  BY <1>4
<1>8. row.key = file[f].key /\ row.current = file[f].current /\ row.versions = new
  <2> HIDE DEF new
  <2> QED BY <1>4 DEF FileRow
<1> HIDE DEF row, new
<1>9. file'[f] = row /\ \A g \in Files \ {f} : file'[g] = file[g]
  BY <1>1, <1>2, <1>6 DEF Shapes
<1>10. file'[f] \in FileRow \cup {None}
  BY <1>2 DEF Shapes
<1>11. file'[f] # None
  <2>1. row \in FileRow
    <3>1. [key |-> file[f].key, size |-> Shrunk(r)] \in Content /\ Shrunk(r) \in Int
      BY <1>2, <1>4, <1>5 DEF Content, FileRow
    <3>2. new \in [Numbers -> Content \cup {None}]
      BY <1>4, <1>7, <3>1 DEF new
    <3> QED BY <1>4, <3>1, <3>2 DEF row, FileRow
  <2> QED BY <1>9, <2>1, NoneAssumption
<1> QED BY <1>2, <1>4, <1>5, <1>6, <1>7, <1>8, <1>9, <1>10, <1>11

\* The balance and the rows change by what the remux owes less or more.
LEMMA RemuxBalance ==
    ASSUME Terms, Terms', Balanced, write' = write, purge' = purge, intake' = intake, NEW r \in Remuxes,
           \A q \in Remuxes \ {r} : remux'[q] = remux[q],
           NEW d \in Int, OfFiles' = OfFiles + d, used' = used + d + RemuxOwed(r)' - RemuxOwed(r)
    PROVE  Balanced'
<1>1. OfRemuxes' = OfRemuxes - RemuxOwed(r) + RemuxOwed(r)'
  BY RemuxesChange
<1>2. OfPurges' = OfPurges /\ OfWriters' = OfWriters /\ OfIntakes' = OfIntakes
  BY SumsSame
<1>3. /\ OfFiles \in Nat /\ OfWriters \in Nat /\ OfPurges \in Nat /\ OfIntakes \in Nat /\ OfRemuxes \in Nat
  BY Covered
<1>4. RemuxOwed(r) \in Int /\ RemuxOwed(r)' \in Int
  BY DEF Terms
<1>5. used = OfFiles + OfWriters + OfPurges + OfIntakes + OfRemuxes
  BY DEF Balanced
<1>6. used' = OfFiles' + OfWriters' + OfPurges' + OfIntakes' + OfRemuxes'
  <2> DEFINE h == RemuxOwed(r)
             i == RemuxOwed(r)'
  <2>1. h \in Int /\ i \in Int /\ OfRemuxes' = OfRemuxes - h + i /\ used' = used + d + i - h
    BY <1>1, <1>4
  <2> HIDE DEF h, i
  <2> QED BY <1>2, <1>3, <1>5, <2>1
<1> QED BY <1>6 DEF Balanced

\* A remux takes its byte from the row and owes it to the balance until it
\* refunds it.
LEMMA RemuxBooks ==
    ASSUME KeptInv, Shapes', NewestInv, RemuxTied, Terms, Terms', Balanced, NEW r \in Remuxes, RemuxStep(r),
           remux[r].pc = "update" => Matches(remux[r].seen, file[remux[r].row])
    PROVE  Balanced'
<1>0. Shapes /\ used \in Nat /\ OfFiles \in Nat
  BY Covered DEF KeptInv
<1>1. ASSUME file' = file PROVE 0 \in Int /\ OfFiles' = OfFiles + 0
  BY <1>0, <1>1, FilesSame
<1>2. CASE \E f \in Videos : RemuxStart(r, f)
  <2>1. PICK f \in Videos : RemuxStart(r, f)
    BY <1>2
  <2>2. /\ remux[r].pc \in {"idle", "unsent"} /\ UNCHANGED newVars /\ remux'[r].pc = "read"
        /\ \A q \in Remuxes \ {r} : remux'[q] = remux[q]
    BY <1>0, <2>1, RemuxBegun DEF RemuxStart
  <2>3. RemuxOwed(r) = 0 /\ RemuxOwed(r)' = 0
    BY <2>2 DEF RemuxOwed
  <2>4. write' = write /\ purge' = purge /\ intake' = intake /\ file' = file /\ used' = used + 0 + RemuxOwed(r)' - RemuxOwed(r)
    BY <1>0, <2>2, <2>3 DEF newVars, vars
  <2> QED BY <1>1, <2>2, <2>4, RemuxBalance
<1>3. CASE RemuxFetch(r) \/ RemuxPut(r)
  <2>1. /\ remux[r].pc \in {"read", "held"} /\ UNCHANGED <<used, file, write, purge, intake>>
        /\ RemuxTo(r, "held") \/ RemuxTo(r, "update") \/ RemuxEnd(r)
    BY <1>3 DEF RemuxFetch, RemuxPut, newVars, vars
  <2>2. remux'[r].pc \in {"held", "update", "unsent"} /\ \A q \in Remuxes \ {r} : remux'[q] = remux[q]
    BY <1>0, <2>1, RemuxMoved
  <2>3. RemuxOwed(r) = 0 /\ RemuxOwed(r)' = 0
    BY <2>1, <2>2 DEF RemuxOwed
  <2>4. write' = write /\ purge' = purge /\ intake' = intake /\ file' = file /\ used' = used + 0 + RemuxOwed(r)' - RemuxOwed(r)
    BY <1>0, <2>1, <2>3
  <2> QED BY <1>1, <2>2, <2>4, RemuxBalance
<1>4. CASE RemuxCharge(r)
  <2>1. /\ remux[r].pc = "charge" /\ used' = Refunded(used, 1) /\ RemuxEnd(r)
        /\ write' = write /\ purge' = purge /\ intake' = intake /\ file' = file
    BY <1>4 DEF RemuxCharge
  <2>2. remux'[r].pc = "unsent" /\ \A q \in Remuxes \ {r} : remux'[q] = remux[q]
    BY <1>0, <2>1, RemuxMoved
  <2>3. RemuxOwed(r) = 1 /\ RemuxOwed(r)' = 0 /\ RemuxOwed(r) <= used
    BY <2>1, <2>2, Covered DEF RemuxOwed
  <2>4. used' = used + 0 + RemuxOwed(r)' - RemuxOwed(r)
    BY <1>0, <2>1, <2>3 DEF Refunded
  <2> QED BY <1>1, <2>1, <2>2, <2>4, RemuxBalance
<1>5. CASE RemuxUpdate(r)
  <2> DEFINE f == remux[r].row
             v == remux[r].seen.current
             n == remux[r].seen.size
  <2>1. /\ remux[r].pc = "update" /\ used' = used /\ write' = write /\ purge' = purge /\ intake' = intake
    BY <1>5 DEF RemuxUpdate
  <2>2. /\ f \in Files /\ v \in Numbers /\ file[f] \in FileRow /\ file'[f] \in FileRow
        /\ \A g \in Files \ {f} : file'[g] = file[g]
        /\ file[f].versions[v] = [key |-> file[f].key, size |-> n]
        /\ file'[f].versions[v] = [key |-> file[f].key, size |-> n - 1]
        /\ \A u \in Numbers \ {v} : file'[f].versions[u] = file[f].versions[u]
        /\ RemuxTo(r, "charge") /\ n \in Int
    BY <1>5, <2>1, RemuxRow
  <2>3. remux'[r].pc = "charge" /\ \A q \in Remuxes \ {r} : remux'[q] = remux[q]
    BY <1>0, <2>2, RemuxMoved
  <2>4. RemuxOwed(r) = 0 /\ RemuxOwed(r)' = 1
    BY <2>1, <2>3 DEF RemuxOwed
  <2>5. SizeAt(file[f], v) = n /\ SizeAt(file'[f], v) = n - 1
    <3>1. file[f].key \in Keys
      BY <2>2 DEF FileRow
    <3>2. [key |-> file[f].key, size |-> n] \in Content /\ [key |-> file[f].key, size |-> n - 1] \in Content
      BY <2>2, <3>1 DEF Content
    <3> HIDE DEF f, v, n
    <3> QED BY <2>2, <3>2, NoneAssumption DEF SizeAt
  <2> HIDE DEF f, v, n
  <2>6. Bytes(file'[f]) = Bytes(file[f]) - n + (n - 1) /\ Bytes(file[f]) \in Int
    BY <2>2, <2>5, BytesChange
  <2>7. OfFiles' = OfFiles - Bytes(file[f]) + Bytes(file'[f])
    BY <2>2, FilesChange
  <2>8. -1 \in Int /\ OfFiles' = OfFiles + (-1)
    <3> DEFINE b == Bytes(file[f])
    <3>1. b \in Int /\ OfFiles' = OfFiles - b + (b - n + (n - 1))
      BY <2>6, <2>7
    <3> HIDE DEF b
    <3> QED BY <1>0, <2>2, <3>1
  <2>9. used' = used + (-1) + RemuxOwed(r)' - RemuxOwed(r)
    BY <1>0, <2>1, <2>4
  <2> QED BY <2>1, <2>3, <2>8, <2>9, RemuxBalance
<1> QED BY <1>2, <1>3, <1>4, <1>5 DEF RemuxStep

\* Renditions, transcripts and posters cost nothing; subtitles are asked for.
LEMMA WorkBooks ==
    ASSUME Shapes, Balanced,
           \/ HlsStep \/ TextStep \/ \E f \in Videos : RenditionsGo(f)
           \/ \E f \in Videos, k \in Keys : ThumbDone(f, k) \/ ChecksumDone(f, k)
    PROVE  /\ Balanced' /\ UNCHANGED <<vars, remux, due, slow>>
           /\ \A f \in Fresh : intake'[f] = intake[f] \/ (intake[f].pc = "unsent" /\ intake'[f].pc = "idle")
<1>1. /\ UNCHANGED <<vars, remux, due, slow>>
      /\ \/ intake' = intake
         \/ intake' = [intake EXCEPT ![Subtitles] = IF @.pc = "unsent" THEN NoIntake("idle") ELSE @]
  BY DEF HlsStep, TextStep, RenditionsGo, ThumbDone, ChecksumDone, MakeDone, HlsTake, HlsRun, HlsPut, HlsFlag,
         JobFails, TextTake, TextRun, TextSibling, TextDone, Take, newVars, vars, dataVars
<1>2. \A f \in Fresh : intake'[f] = intake[f] \/ (intake[f].pc = "unsent" /\ intake'[f].pc = "idle")
  BY <1>1 DEF Shapes, NoIntake
<1>3. \A f \in Fresh : IntakeHeld(f)' = IntakeHeld(f)
  BY <1>2 DEF IntakeHeld
<1>4. OfIntakes' = OfIntakes
  <2> DEFINE a == [f \in Fresh |-> IntakeHeld(f)]
             b == [f \in Fresh |-> IntakeHeld(f)']
  <2>1. a = b
    BY <1>3
  <2>2. OfIntakes = SumFunction(a) /\ OfIntakes' = SumFunction(b)
    BY DEF OfIntakes
  <2> HIDE DEF a, b
  <2> QED BY <2>1, <2>2
<1>5. used' = used /\ file' = file /\ write' = write /\ purge' = purge
  BY <1>1 DEF vars
<1>6. OfFiles' = OfFiles
  BY <1>5, FilesSame
<1> QED BY <1>1, <1>2, <1>4, <1>5, <1>6, SumsSame DEF Balanced

-----------------------------------------------------------------------------
(* What the balance rests on, step by step *)

\* No row goes.
Persist == \A f \in Files : file[f] # None => file'[f] # None

\* What purges have listed while none of them acts
LEMMA ListedKeeps ==
    ASSUME Listed, purge' = purge, Purging => Dims /\ Persist PROVE Listed'
<1>1. ASSUME NEW p \in Purges PROVE ListedOf(p, purge[p])'
  <2>1. ListedOf(p, purge[p]) /\ purge[p].drop \subseteq Files
    BY DEF Listed, PurgeRecord
  <2>2. CASE purge[p].pc # "delete"
    BY <2>1, <2>2 DEF ListedOf
  <2>3. CASE purge[p].pc = "delete"
    <3>1. Dims /\ Persist
      BY <2>3 DEF Purging
    <3>2. \A f \in purge[p].drop : f \in Files
      BY <2>1
    <3> QED BY <2>1, <2>3, <3>1, <3>2 DEF ListedOf, Dims, Persist
  <2> QED BY <2>2, <2>3
<1> QED BY <1>1 DEF Listed

\* A purge's own step, with the others' lists
LEMMA ListedSteps ==
    ASSUME Shapes, PurgesAlone, Listed, Heavy, NEW p \in Purges, PurgeStep(p)
    PROVE  Listed' /\ \A q \in Purges : purge'[q].pc = "unsent" <=> purge[q].pc = "unsent"
<1>0. purge[p] \in PurgeRecord /\ ListedOf(p, purge[p]) /\ Dims
  BY GoneOrSame DEF Listed
<1>1. SUFFICES ASSUME NEW q \in PurgeRecord, purge' = [purge EXCEPT ![p] = q],
                      ListedOf(p, q)', purge[p].pc # "unsent", q.pc # "unsent"
               PROVE  Listed' /\ \A o \in Purges : purge'[o].pc = "unsent" <=> purge[o].pc = "unsent"
  <2>1. CASE PurgeRead(p)
    <3>1. PICK listed \in Listing(p) \ {{}} : purge' = [purge EXCEPT ![p] =
                        [pc |-> "delete", strip |-> listed, drop |-> listed,
                         rows |-> [f \in Files |-> IF f \in listed THEN file[f] ELSE None]]]
      BY <2>1 DEF PurgeRead
    <3> DEFINE rows == [f \in Files |-> IF f \in listed THEN file[f] ELSE None]
    <3>q. PICK q : q = [pc |-> "delete", strip |-> listed, drop |-> listed, rows |-> rows]
      OBVIOUS
    <3>2. purge[p].pc = "idle" /\ file' = file
      BY <2>1 DEF PurgeRead
    <3>3. /\ listed \in SUBSET Files /\ \A f \in listed : file[f] # None
          /\ p \in HardDeletes => \E f \in Files : listed \subseteq {f}
      <4>1. CASE p \in HardDeletes
        <5>1. PICK f \in {f \in Targets[p] : Trashed(f)} : listed = {f}
          BY <4>1 DEF Listing
        <5>2. Targets[p] \subseteq Files
          BY VersionsAssumption
        <5> QED BY <5>1, <5>2 DEF Trashed, Exists
      <4>2. CASE p \notin HardDeletes
        <5>1. listed = {f \in Files : Trashed(f)} \/ listed = {f \in Files : Exists(f) /\ file[f].state = "expired"}
          BY <4>2 DEF Listing
        <5> QED BY <4>2, <5>1 DEF Trashed, Exists
      <4> QED BY <4>1, <4>2
    <3>4. \A f \in Files : file[f] \in FileRow \cup {None} /\ Sound(file[f])
      BY DEF Shapes, Heavy, Sound, SoundContent
    <3>5. rows \in [Files -> FileRow \cup {None}] /\ \A f \in Files : Sound(rows[f])
      BY <3>4 DEF Sound
    <3>6. (\A f \in listed : rows[f] = file[f]) /\ \A f \in Files \ listed : rows[f] = None
      BY <3>3
    <3> HIDE DEF rows
    <3>7. q \in PurgeRecord
      BY <3>q, <3>3, <3>5 DEF PurgeRecord, PurgeSteps
    <3>8. ListedOf(p, q)'
      <4>1. q.pc = "delete" /\ q.drop = listed /\ q.rows = rows
        BY <3>q
      <4> QED BY <3>2, <3>3, <3>5, <3>6, <4>1 DEF ListedOf
    <3> QED BY <1>1, <3>q, <3>1, <3>2, <3>7, <3>8 DEF rows
  <2>2. CASE PurgeRefund(p)
    <3>q. PICK q : q = [purge[p] EXCEPT !.pc = "done"]
      OBVIOUS
    <3>1. purge[p].pc = "refund" /\ purge' = [purge EXCEPT ![p] = q]
      BY <2>2, <3>q DEF PurgeRefund, Listed
    <3>2. q \in PurgeRecord /\ q.pc = "done" /\ q.rows = purge[p].rows /\ q.drop = {}
      BY <1>0, <3>q, <3>1 DEF PurgeRecord, PurgeSteps, ListedOf
    <3>3. ListedOf(p, q)'
      BY <1>0, <3>2 DEF ListedOf
    <3> QED BY <1>1, <3>1, <3>2, <3>3
  <2>3. CASE \E f \in Files : PurgeStrip(p, f)
    <3>1. PICK f \in Files : PurgeStrip(p, f)
      BY <2>3
    <3>q. PICK q : q = [purge[p] EXCEPT !.strip = @ \ {f}]
      OBVIOUS
    <3>2. purge[p].pc = "delete" /\ purge' = [purge EXCEPT ![p] = q] /\ file' = file
      BY <3>q, <3>1 DEF PurgeStrip, Listed
    <3>3. q \in PurgeRecord /\ q.pc = "delete" /\ q.rows = purge[p].rows /\ q.drop = purge[p].drop
      BY <1>0, <3>q, <3>2 DEF PurgeRecord
    <3>4. ListedOf(p, q)'
      BY <1>0, <3>2, <3>3 DEF ListedOf
    <3> QED BY <1>1, <3>2, <3>3, <3>4
  <2>4. CASE HardDrop(p) \/ EmptyDrop(p)
    <3> DEFINE step == IF EmptyDrop(p) \/ \A f \in purge[p].drop : Exists(f) THEN "refund" ELSE "done"
    <3>q. PICK q : q = [purge[p] EXCEPT !.pc = step, !.drop = {}]
      OBVIOUS
    <3>1. purge[p].pc = "delete" /\ purge' = [purge EXCEPT ![p] = q]
      <4>1. ~(p \in HardDeletes /\ p \in Empties)
        BY VersionsAssumption
      <4> QED BY <2>4, <3>q, <4>1 DEF HardDrop, EmptyDrop, Listed
    <3>2. q \in PurgeRecord /\ q.pc \in {"refund", "done"} /\ q.rows = purge[p].rows /\ q.drop = {}
      <4>1. step \in {"refund", "done"}
        OBVIOUS
      <4> HIDE DEF step
      <4> QED BY <1>0, <3>q, <4>1 DEF PurgeRecord, PurgeSteps
    <3>3. ListedOf(p, q)'
      BY <1>0, <3>2 DEF ListedOf
    <3> QED BY <1>1, <3>1, <3>2, <3>3
  <2>5. CASE SweepDrop(p)
    <3>1. PICK f \in purge[p].drop \ purge[p].strip :
              /\ file' = Deleted({f})
              /\ purge' = [purge EXCEPT ![p].drop = @ \ {f}, ![p].pc = IF purge[p].drop = {f} THEN "refund" ELSE @]
      BY <2>5 DEF SweepDrop
    <3> DEFINE step == IF purge[p].drop = {f} THEN "refund" ELSE purge[p].pc
    <3>q. PICK q : q = [purge[p] EXCEPT !.drop = @ \ {f}, !.pc = step]
      OBVIOUS
    <3>2. purge' = [purge EXCEPT ![p] = q] /\ p \in Sweeps /\ f \in purge[p].drop /\ f \in Files
      BY <1>0, <2>5, <3>q, <3>1 DEF SweepDrop, Listed, PurgeRecord
    <3>3. purge[p].pc = "delete"
      BY <1>0, <3>2 DEF ListedOf
    <3>4. q \in PurgeRecord /\ q.pc = step /\ q.rows = purge[p].rows /\ q.drop = purge[p].drop \ {f}
      BY <1>0, <3>q, <3>2, <3>3 DEF PurgeRecord, PurgeSteps
    <3>5. step \in {"delete", "refund"} /\ (step # "delete" => purge[p].drop \ {f} = {})
      BY <3>3
    <3>6. \A g \in Files \ {f} : file'[g] = file[g]
      BY <3>1 DEF Deleted
    <3>7. p \notin HardDeletes
      BY <3>2, VersionsAssumption
    <3> HIDE DEF step
    <3>8. \A g \in q.drop : g \in Files \ {f} /\ g \in purge[p].drop
      BY <1>0, <3>4 DEF PurgeRecord
    <3>9. ListedOf(p, q)'
      BY <1>0, <3>2, <3>3, <3>4, <3>5, <3>6, <3>7, <3>8 DEF ListedOf
    <3> QED BY <1>1, <3>2, <3>3, <3>4, <3>5, <3>9
  <2> QED BY <2>1, <2>2, <2>3, <2>4, <2>5 DEF PurgeStep
<1>2. purge'[p] = q /\ (\A o \in Purges \ {p} : purge'[o] = purge[o]) /\ purge' \in [Purges -> PurgeRecord]
  BY <1>1 DEF Listed
<1>3. ASSUME NEW o \in Purges, o # p PROVE ListedOf(o, purge[o])'
  <2>1. ListedOf(o, purge[o]) /\ purge[o].drop \subseteq Files /\ purge'[o] = purge[o]
    BY <1>2, <1>3 DEF Listed, PurgeRecord
  <2>2. CASE purge[o].pc # "delete"
    BY <2>1, <2>2 DEF ListedOf
  <2>3. CASE purge[o].pc = "delete"
    <3>1. o \in HardDeletes
      BY <1>1, <1>3, <2>3 DEF PurgesAlone, Purging
    <3>2. \A f \in purge[o].drop : f \in Files
      BY <2>1
    <3> QED BY <1>0, <2>1, <2>3, <3>1, <3>2 DEF ListedOf, Dims
  <2> QED BY <2>2, <2>3
<1> QED BY <1>1, <1>2, <1>3 DEF Listed

-----------------------------------------------------------------------------
\* Nothing is made or remuxed behind a step that brings no content.
LEMMA DormantFollows ==
    ASSUME Dormant, Dims, Follow, intake' = intake PROVE Dormant'
<1>1. \A f \in Videos : f \in Files /\ ~Rewritten(f) /\ ~Appears(f)
  BY MediaAssumption DEF Rewritten, Appears, Exists, Dims
<1>2. due' = {} /\ UNCHANGED <<remux, queue, job>>
  BY <1>1 DEF Follow, Launch, Dormant
<1> QED BY <1>2 DEF Dormant

\* The workers have nothing to do then.
LEMMA DormantWork ==
    ASSUME Dormant,
           \/ HlsStep \/ TextStep \/ \E f \in Videos : RenditionsGo(f)
           \/ \E f \in Videos, k \in Keys : ThumbDone(f, k) \/ ChecksumDone(f, k)
    PROVE  Dormant'
<1>1. "hls" \in Workers /\ "text" \in Workers
  BY DEF Workers
<1>2. ~HlsStep /\ ~TextStep
  BY <1>1 DEF Dormant, HlsStep, TextStep, HlsTake, HlsRun, HlsPut, HlsFlag, JobFails, TextTake, TextRun, TextSibling,
              TextDone, Take, Doing
<1>3. UNCHANGED <<due, remux, queue, job, intake>>
  BY <1>2 DEF RenditionsGo, ThumbDone, ChecksumDone, MakeDone, newVars
<1> QED BY <1>3 DEF Dormant

\* Writers, intakes and remuxes are not there while a purge is.
LEMMA Actors ==
    ASSUME PurgesAlone
    PROVE  /\ \A r \in Writers : WriterStep(r) => ~Purging
           /\ \A f \in Files : IntakeStep(f) => ~Dormant
           /\ \A q \in Remuxes : RemuxStep(q) => ~Dormant
           /\ ~Dormant => ~Purging
<1>1. \A r \in Writers : WriterStep(r) => write[r].pc # "unsent"
  BY DEF WriterStep, WriteStart, WriteReserve, WriteStore, StoreFails, UploadCreate, UploadPoint, SaveFresh, SaveCommit,
         OverwriteCollapse, OverwriteSettle
<1>2. \A f \in Files : IntakeStep(f) => f \in Fresh /\ intake[f].pc # "unsent"
  BY DEF IntakeStep, UploadArrives, DavArrives, UrlArrives, UrlHops, UrlFetched, ImportArrives, Downloaded,
         NameFree, VttArrives, UploadWrites, UrlWrites, ImportWrites, DavWrites, VttWrites, Writes, Reserves,
         Stores, Creates, Undoes, IntakeAt
<1>3. \A q \in Remuxes : RemuxStep(q) => remux[q].pc # "unsent" \/ due # {}
  BY DEF RemuxStep, RemuxStart, RemuxFetch, RemuxPut, RemuxUpdate, RemuxCharge
<1> QED BY <1>1, <1>2, <1>3 DEF PurgesAlone, Dormant

\* Purges stay by themselves.
LEMMA AloneKeeps ==
    ASSUME PurgesAlone, \A p \in Purges : purge'[p].pc = "unsent" <=> purge[p].pc = "unsent",
           Purging => Dormant' /\ write' = write
    PROVE  PurgesAlone' /\ (Purging' <=> Purging)
<1>1. Purging' <=> Purging
  BY DEF Purging
<1> QED BY <1>1 DEF PurgesAlone

\* So does an overwrite, while it does not act.
LEMMA OverwriteKeeps ==
    ASSUME KeptInv, OverwriteAlone, write' = write, Dormant => Dormant' /\ Dims /\ Persist PROVE OverwriteAlone'
<1> SUFFICES ASSUME NEW o \in Overwrites, write[o].pc # "unsent"
             PROVE  /\ write[o].pc \in {"idle", "reserve", "store", "collapse"} => Dormant'
                    /\ write[o].pc \in {"reserve", "store", "collapse"} => Row(o)' # None /\ Row(o)'.versions = Seen(o).versions
  <2>1. \A o : Seen(o)' = Seen(o)
    BY DEF Seen
  <2> QED BY <2>1 DEF OverwriteAlone
<1>2. o \in Writers
  BY DEF Writers
<1>3. CASE write[o].pc \in {"idle", "reserve", "store", "collapse"}
  <2>1. Dormant' /\ Dims /\ Persist
    BY <1>3 DEF OverwriteAlone
  <2>2. CASE write[o].pc \in {"reserve", "store", "collapse"}
    <3>1. write[o].file \in Files
      BY <1>2, <2>2 DEF KeptInv, Progress, ProgressOf
    <3>2. Row(o) = file[write[o].file] /\ Row(o)' = file'[write[o].file]
      BY DEF Row
    <3>3. Row(o) # None /\ Row(o).versions = Seen(o).versions
      BY <2>2 DEF OverwriteAlone
    <3> QED BY <2>1, <3>1, <3>2, <3>3 DEF Dims, Persist
  <2> QED BY <2>1, <2>2
<1> QED BY <1>3

\* What a writer does to the rows
LEMMA WriterRows ==
    ASSUME KeptInv, NEW r \in Writers, WriterStep(r), file' # file
    PROVE  LET f == write[r].file
           IN  /\ f \in Files /\ file[f] \in FileRow /\ file'[f] \in FileRow
               /\ write[r].pc \in {"create", "point", "commit", "collapse"}
               /\ \A g \in Files \ {f} : file'[g] = file[g]
               /\ \A v \in Numbers : file'[f].versions[v] \in {None, Stored(r), file[f].versions[v]}
<1> DEFINE f == write[r].file
<1>1. \E row : /\ write[r].pc \in {"create", "point", "commit", "collapse"} /\ Row(r) # None /\ Put(r, row)
               /\ \/ row = WithVersion(Row(r), r, NextNumber(r)) /\ r \in Uploads
                  \/ row = Pointed(Row(r), r, NextNumber(r)) /\ r \in Uploads
                  \/ row = Pointed(WithVersion(Row(r), r, NextNumber(r)), r, NextNumber(r)) /\ r \in Saves
                  \/ row = [Row(r) EXCEPT !.key = r, !.size = write[r].size, !.versions = Kept(r)]
  BY DEF WriterStep, WriteStart, WriteReserve, WriteStore, StoreFails, SaveFresh, OverwriteSettle, KeptInv, Progress,
         ProgressOf, UploadCreate, UploadPoint, SaveCommit, OverwriteCollapse, Free
<1>2. PICK row : /\ write[r].pc \in {"create", "point", "commit", "collapse"} /\ Row(r) # None /\ Put(r, row)
                 /\ \/ row = WithVersion(Row(r), r, NextNumber(r)) /\ r \in Uploads
                    \/ row = Pointed(Row(r), r, NextNumber(r)) /\ r \in Uploads
                    \/ row = Pointed(WithVersion(Row(r), r, NextNumber(r)), r, NextNumber(r)) /\ r \in Saves
                    \/ row = [Row(r) EXCEPT !.key = r, !.size = write[r].size, !.versions = Kept(r)]
  BY <1>1
<1>3. /\ f \in Files /\ Row(r) = file[f] /\ Row(r) \in FileRow /\ Stored(r) \in Content /\ Shapes
      /\ r \in Uploads \cup Saves => NextNumber(r) \in Numbers
      /\ write[r].size \in Int /\ r \in Keys
  BY <1>2, RowFacts DEF Busy, Shapes, Writer, Keys
<1>4. \A old \in FileRow : r \in Uploads \cup Saves =>
         /\ Pointed(old, r, NextNumber(r)) \in FileRow /\ Pointed(old, r, NextNumber(r)).versions = old.versions
         /\ WithVersion(old, r, NextNumber(r)) \in FileRow
         /\ \A v \in Numbers : WithVersion(old, r, NextNumber(r)).versions[v] \in {Stored(r), old.versions[v]}
  BY <1>3 DEF Pointed, WithVersion, FileRow
<1>5. DEFINE last == [Row(r) EXCEPT !.key = r, !.size = write[r].size, !.versions = Kept(r)]
<1>6. last \in FileRow /\ \A v \in Numbers : last.versions[v] \in {None, Stored(r)}
  <2>1. Kept(r) \in [Numbers -> Content \cup {None}] /\ \A v \in Numbers : Kept(r)[v] \in {None, Stored(r)}
    BY <1>3 DEF Kept
  <2> HIDE DEF Kept
  <2> QED BY <1>3, <2>1 DEF FileRow
<1>7. row \in FileRow /\ \A v \in Numbers : row.versions[v] \in {None, Stored(r), Row(r).versions[v]}
  <2>1. CASE row = last
    <3> HIDE DEF last
    <3> QED BY <1>6, <2>1
  <2>2. CASE row # last
    <3>1. \/ row = WithVersion(Row(r), r, NextNumber(r)) /\ r \in Uploads
          \/ row = Pointed(Row(r), r, NextNumber(r)) /\ r \in Uploads
          \/ row = Pointed(WithVersion(Row(r), r, NextNumber(r)), r, NextNumber(r)) /\ r \in Saves
      BY <1>2, <2>2
    <3> HIDE DEF last
    <3> QED BY <1>3, <1>4, <3>1
  <2> QED BY <2>1, <2>2
<1>8. file'[f] = row /\ \A g \in Files \ {f} : file'[g] = file[g]
  BY <1>2, <1>3 DEF Put, Shapes
<1> HIDE DEF f, last
<1> QED BY <1>2, <1>3, <1>7, <1>8 DEF f

\* A writer deletes no row, and goes on with the file it began with.
LEMMA WriterOn ==
    ASSUME KeptInv, NEW r \in Writers, WriterStep(r)
    PROVE  /\ Persist
           /\ \A q \in Writers \ {r} : write'[q] = write[q]
           /\ write[r].pc # "unsent" /\ write'[r].pc \notin {"unsent", "idle"}
           /\ \/ \E f \in Files, n \in Sizes : WriteStart(r, f, n)
              \/ write[r].pc \in Busy /\ write'[r].file = write[r].file /\ write'[r].size = write[r].size
<1>1. Shapes
  BY DEF KeptInv
<1>2. Persist
  <2>1. CASE file' = file
    BY <2>1 DEF Persist
  <2>2. CASE file' # file
    <3> DEFINE f == write[r].file
    <3>1. f \in Files /\ file'[f] \in FileRow /\ \A g \in Files \ {f} : file'[g] = file[g]
      BY <2>2, WriterRows
    <3> HIDE DEF f
    <3>2. file'[f] # None
      BY <3>1, NoneAssumption
    <3> QED BY <3>1, <3>2 DEF Persist
  <2> QED BY <2>1, <2>2
<1>3. CASE \E f \in Files, n \in Sizes : WriteStart(r, f, n)
  <2>1. /\ \A q \in Writers \ {r} : write'[q] = write[q]
        /\ write[r].pc = "idle" /\ write'[r].pc = "reserve"
    BY <1>1, <1>3 DEF WriteStart, Shapes
  <2> QED BY <1>2, <1>3, <2>1
<1>4. CASE ~\E f \in Files, n \in Sizes : WriteStart(r, f, n)
  <2>1. write[r].pc \in Busy /\ write[r].pc # "unsent"
    BY <1>4 DEF WriterStep, WriteReserve, WriteStore, StoreFails, UploadCreate, UploadPoint, SaveFresh, SaveCommit,
                OverwriteCollapse, OverwriteSettle, Busy
  <2>2. CASE SaveFresh(r) \/ SaveCommit(r)
    <3>1. \/ WriteEnd(r, "failed") \/ WriteEnd(r, "saved")
          \/ write' = [write EXCEPT ![r].pc = "commit", ![r].seen = Row(r)]
          \/ write' = [write EXCEPT ![r].pc = "fresh", ![r].tries = @ + 1]
      BY <2>2 DEF SaveFresh, SaveCommit, GiveBack
    <3>2. CASE WriteEnd(r, "failed") \/ WriteEnd(r, "saved")
      BY <1>1, <1>2, <2>1, <3>2, Moved DEF WriteSteps
    <3>3. CASE write' = [write EXCEPT ![r].pc = "commit", ![r].seen = Row(r)]
      BY <1>1, <1>2, <2>1, <3>3 DEF Shapes, Writer
    <3>4. CASE write' = [write EXCEPT ![r].pc = "fresh", ![r].tries = @ + 1]
      BY <1>1, <1>2, <2>1, <3>4 DEF Shapes, Writer
    <3> QED BY <3>1, <3>2, <3>3, <3>4
  <2>3. CASE ~SaveFresh(r) /\ ~SaveCommit(r)
    <3>1. \E step \in WriteSteps \ {"unsent", "idle"} : WriteMove(r, step) \/ WriteEnd(r, step)
      BY <1>4, <2>3 DEF WriterStep, WriteReserve, WriteStore, StoreFails, UploadCreate, UploadPoint, OverwriteCollapse,
                        OverwriteSettle, GiveBack, AfterStore, WriteSteps
    <3>2. PICK step \in WriteSteps \ {"unsent", "idle"} : WriteMove(r, step) \/ WriteEnd(r, step)
      BY <3>1
    <3> QED BY <1>1, <1>2, <2>1, <3>2, Moved
  <2> QED BY <2>2, <2>3
<1> QED BY <1>3, <1>4

\* An overwrite that acts is the only one to do so.
LEMMA OverwriteActs ==
    ASSUME KeptInv, OverwriteAlone, NEW r \in Writers, WriterStep(r), Follow, intake' = intake
    PROVE  OverwriteAlone'
<1>0. Shapes
  BY DEF KeptInv
<1>1. (\A q \in Writers \ {r} : write'[q] = write[q]) /\ write[r].pc # "unsent" /\ write'[r].pc # "unsent"
  BY WriterOn
<1> SUFFICES ASSUME NEW o \in Overwrites, write'[o].pc # "unsent"
             PROVE  /\ \A q \in Writers \ {o} : write'[q].pc = "unsent"
                    /\ write'[o].pc \in {"idle", "reserve", "store", "collapse"} => Dormant'
                    /\ write'[o].pc \in {"reserve", "store", "collapse"} =>
                          Row(o)' # None /\ Row(o)'.versions = write'[o].seen.versions
  <2>1. \A o : Seen(o)' = write'[o].seen
    BY DEF Seen
  <2> QED BY <2>1 DEF OverwriteAlone
<1>2. o = r /\ \A q \in Writers \ {o} : write[q].pc = "unsent"
  BY <1>1 DEF OverwriteAlone, Writers
<1>3. \A q \in Writers \ {o} : write'[q].pc = "unsent"
  BY <1>1, <1>2
<1>4. CASE write'[o].pc \in {"idle", "reserve", "store", "collapse"}
  <2>1. /\ file' = file /\ write[o].pc \in {"idle", "reserve", "store"}
        /\ \/ \E f \in Files, n \in Sizes : WriteStart(o, f, n)
           \/ write[o].pc \in {"reserve", "store"} /\ write'[o].file = write[o].file /\ write'[o].seen = write[o].seen
    <3>1. o \notin Uploads \cup Saves
      BY VersionsAssumption
    <3>2. CASE \E f \in Files, n \in Sizes : WriteStart(o, f, n)
      BY <3>2 DEF WriteStart
    <3>3. CASE WriteReserve(o) \/ WriteStore(o)
      <4>1. write[o].pc \in {"reserve", "store"} /\ file' = file
        BY <3>3 DEF WriteReserve, WriteStore
      <4>2. WriteMove(o, "store") \/ WriteMove(o, AfterStore(o)) \/ WriteEnd(o, "failed")
        BY <3>1, <3>3 DEF WriteReserve, WriteStore
      <4>3. AfterStore(o) \in WriteSteps
        BY DEF AfterStore, WriteSteps
      <4>4. write'[o].file = write[o].file /\ (write'[o].seen = write[o].seen \/ write'[o].pc = "failed")
        BY <1>0, <1>2, <4>2, <4>3, Moved DEF WriteSteps
      <4> QED BY <1>4, <4>1, <4>4
    <3>4. CASE StoreFails(o) \/ OverwriteCollapse(o) \/ OverwriteSettle(o)
      <4>1. WriteEnd(o, "failed") \/ WriteEnd(o, "saved") \/ WriteMove(o, "settle") \/ WriteMove(o, "leaked")
        BY <3>4 DEF StoreFails, OverwriteCollapse, OverwriteSettle
      <4>2. write'[o].pc \in {"failed", "saved", "settle", "leaked"}
        BY <1>0, <1>2, <4>1, Moved DEF WriteSteps
      <4> QED BY <1>4, <4>2
    <3>5. ~(UploadCreate(o) \/ UploadPoint(o) \/ SaveFresh(o) \/ SaveCommit(o))
      BY <1>2, <3>1 DEF KeptInv, Progress, ProgressOf, UploadCreate, UploadPoint, SaveFresh, SaveCommit
    <3> QED BY <1>2, <3>2, <3>3, <3>4, <3>5 DEF WriterStep
  <2>2. Dormant
    BY <1>1, <1>2, <2>1 DEF OverwriteAlone
  <2>3. Dormant'
    BY <2>1, <2>2, DormantFollows DEF Dims
  <2>4. write'[o].pc \in {"reserve", "store", "collapse"} => Row(o)' # None /\ Row(o)'.versions = write'[o].seen.versions
    <3>1. CASE \E f \in Files, n \in Sizes : WriteStart(o, f, n)
      <4>1. PICK f \in Files, n \in Sizes : WriteStart(o, f, n)
        BY <3>1
      <4>2. write'[o].file = f /\ write'[o].seen = file[f] /\ file[f] # None
        BY <1>0, <1>2, <4>1 DEF WriteStart, Shapes, Live, Exists
      <4> QED BY <2>1, <4>2 DEF Row
    <3>2. CASE write[o].pc \in {"reserve", "store"} /\ write'[o].file = write[o].file /\ write'[o].seen = write[o].seen
      BY <2>1, <3>2 DEF OverwriteAlone, Row, Seen
    <3> QED BY <2>1, <3>1, <3>2
  <2> QED BY <1>3, <2>3, <2>4
<1> QED BY <1>3, <1>4

-----------------------------------------------------------------------------
\* A row stays, and a remux in flight still works on what the row shows.
LEMMA AliveFollows ==
    ASSUME KeptInv, RemuxTied, Alive, Onward, Follow, Undisturbed, ~Overlap, Persist, ~Purging,
           \A r \in Writers : write'[r].pc \notin {"unsent", "idle"} => Row(r)' # None
    PROVE  Alive'
<1>1. /\ remux' = remux
      /\ \A f \in due' : f \in due \/ (f \in Videos /\ (Rewritten(f) \/ Appears(f)))
  BY DEF Follow, Launch
<1>2. \A f \in Videos : f \in Files
  BY MediaAssumption
<1>3. \A f \in due' : file'[f] # None
  BY <1>1, <1>2 DEF Alive, Persist, Rewritten, Appears, RemuxTied
<1>4. ASSUME NEW q \in Remuxes, remux[q].pc \in {"read", "held", "update"}
      PROVE  Matches(remux[q].seen, file'[remux[q].row])
  <2>1. /\ remux[q].row \in Videos /\ remux[q].row \in Files /\ Arrived(remux[q].row)
        /\ Matches(remux[q].seen, file[remux[q].row])
    BY <1>2, <1>4 DEF RemuxTied, Alive
  <2>2. ~Quiet(remux[q].row)
    BY <1>4 DEF Quiet
  <2>3. Rewritten(remux[q].row) => file'[remux[q].row] = file[remux[q].row]
    BY <2>1, <2>2 DEF Undisturbed
  <2>4. ~Rewritten(remux[q].row)
    BY <2>3 DEF Rewritten
  <2>5. file'[remux[q].row] # None /\ file[remux[q].row] # None
    BY <2>1 DEF Persist, Matches
  <2>6. file'[remux[q].row].key = file[remux[q].row].key
    BY <2>4, <2>5 DEF Rewritten, Exists
  <2>7. file'[remux[q].row].current = file[remux[q].row].current /\ file'[remux[q].row].size = file[remux[q].row].size
    BY <2>1, <2>5, <2>6 DEF Onward, Arrived
  <2> QED BY <2>1, <2>5, <2>6, <2>7 DEF Matches
<1> QED BY <1>1, <1>3, <1>4 DEF Alive

\* A remux matches the row it reads, and leaves the rows of the others alone.
LEMMA AliveRemux ==
    ASSUME KeptInv, Shapes', NewestInv, RemuxTied, Alive, RemuxApart, ~Overlap, ~Purging, NEW r \in Remuxes, RemuxStep(r)
    PROVE  Alive' /\ RemuxApart' /\ Persist
<1>0. Shapes /\ write' = write /\ \A f \in Videos : f \in Files /\ f # None
  BY MediaAssumption, VersionsAssumption DEF KeptInv, RemuxStep, RemuxStart, RemuxFetch, RemuxPut, RemuxUpdate, RemuxCharge, newVars, vars
<1>1. \A w \in Writers : write'[w].pc \notin {"unsent", "idle"} => write[w].file \in Files /\ Row(w) # None
  BY <1>0 DEF Alive, KeptInv, Progress, ProgressOf
<1>2. \A f \in due : f \in Files /\ file[f] # None
  BY <1>0 DEF Alive, RemuxTied
<1>3. SUFFICES ASSUME Persist, due' \subseteq due, \A q \in Remuxes \ {r} : remux'[q] = remux[q],
                      \A q \in Remuxes \ {r} : remux[q].pc \in {"read", "held", "update"} =>
                          file'[remux[q].row] = file[remux[q].row] /\ remux'[r].row # remux[q].row,
                      remux'[r].pc \in {"read", "held", "update"} =>
                          /\ Matches(remux'[r].seen, file'[remux'[r].row])
                          /\ \A q \in Remuxes \ {r} : remux[q].row # remux'[r].row
               PROVE  Alive' /\ RemuxApart'
  <2>1. ASSUME RemuxEnd(r) PROVE remux'[r].pc = "unsent" /\ remux'[r].row = None /\ \A q \in Remuxes \ {r} : remux'[q] = remux[q]
    BY <1>0, <2>1, RemuxMoved
  <2>2. ASSUME NEW step \in {"held", "update", "charge"}, RemuxTo(r, step)
        PROVE  /\ remux'[r].pc = step /\ remux'[r].row = remux[r].row /\ remux'[r].seen = remux[r].seen
               /\ \A q \in Remuxes \ {r} : remux'[q] = remux[q]
    BY <1>0, <2>2, RemuxMoved
  <2>3. \A q \in Remuxes : remux[q].pc \in {"read", "held", "update"} => remux[q].row # None /\ remux[q].row \in Files
    BY <1>0 DEF RemuxTied
  <2>4. CASE \E f \in Videos : RemuxStart(r, f)
    <3>1. PICK f \in Videos : RemuxStart(r, f)
      BY <2>4
    <3>2. /\ file' = file /\ due' \subseteq due /\ remux'[r].row = f /\ remux'[r].seen = file[f]
          /\ (\A q \in Remuxes \ {r} : remux'[q] = remux[q]) /\ \A q \in Remuxes : remux[q].row # f
          /\ f \in due \/ Live(f)
      BY <1>0, <3>1, RemuxBegun DEF RemuxStart, newVars, vars
    <3>3. file[f] # None
      BY <1>2, <3>2 DEF Live, Exists
    <3> QED BY <1>3, <3>2, <3>3 DEF Persist, Matches
  <2>5. CASE RemuxFetch(r) \/ RemuxPut(r) \/ RemuxCharge(r)
    <3>1. /\ file' = file /\ due' = due
          /\ RemuxEnd(r) \/ ((RemuxTo(r, "held") \/ RemuxTo(r, "update")) /\ remux[r].pc \in {"read", "held"})
      BY <2>5 DEF RemuxFetch, RemuxPut, RemuxCharge, newVars, vars
    <3>2. CASE RemuxEnd(r)
      BY <1>3, <2>1, <2>3, <3>1, <3>2 DEF Persist
    <3>3. CASE (RemuxTo(r, "held") \/ RemuxTo(r, "update")) /\ remux[r].pc \in {"read", "held"}
      <4>1. Matches(remux[r].seen, file[remux[r].row]) /\ \A q \in Remuxes \ {r} : remux[q].row # remux[r].row
        BY <3>3 DEF Alive, RemuxApart
      <4> QED BY <1>3, <2>2, <3>1, <3>3, <4>1 DEF Persist
    <3> QED BY <3>1, <3>2, <3>3
  <2>6. CASE RemuxUpdate(r)
    <3>1. remux[r].pc = "update" /\ due' = due
      BY <2>6 DEF RemuxUpdate
    <3>2. Matches(remux[r].seen, file[remux[r].row]) /\ \A q \in Remuxes \ {r} : remux[q].row # remux[r].row
      BY <3>1 DEF Alive, RemuxApart
    <3> DEFINE f == remux[r].row
    <3>3. f \in Files /\ (\A g \in Files \ {f} : file'[g] = file[g]) /\ file'[f] # None /\ RemuxTo(r, "charge")
      BY <2>6, <3>2, RemuxRow
    <3>4. remux'[r].pc = "charge" /\ remux'[r].row = f /\ \A q \in Remuxes \ {r} : remux'[q] = remux[q]
      BY <2>2, <3>3
    <3>5. f = remux[r].row
      OBVIOUS
    <3> HIDE DEF f
    <3> QED BY <1>3, <2>3, <3>1, <3>2, <3>3, <3>4, <3>5 DEF Persist
  <2> QED BY <2>4, <2>5, <2>6 DEF RemuxStep
<1>4. \A f \in due' : file'[f] # None
  BY <1>2, <1>3 DEF Persist
<1>5. \A w \in Writers : write'[w].pc \notin {"unsent", "idle"} => Row(w)' # None
  BY <1>0, <1>1, <1>3 DEF Row, Persist
<1>6. \A q \in Remuxes : remux'[q].pc \in {"read", "held", "update"} => Matches(remux'[q].seen, file'[remux'[q].row])
  BY <1>3 DEF Alive
<1>7. RemuxApart'
  BY <1>3 DEF RemuxApart
<1> QED BY <1>4, <1>5, <1>6, <1>7 DEF Alive

-----------------------------------------------------------------------------
\* A removal takes nothing else away, and what it fails to remove is left behind.
LEMMA Cleared ==
    ASSUME NEW keys, Removes(keys) \/ Refused(keys)
    PROVE  object' \subseteq object /\ object' \ keys = object \ keys /\ Tended' = Tended \ keys
<1>1. PICK lost \in SUBSET (keys \cap object) : object' = object \ (keys \ lost) /\ left' = (left \ keys) \cup lost
  BY DEF Removes, Refused
<1> QED BY <1>1 DEF Tended

\* New objects come from a writer or an intake that stores one.
LEMMA NewKeysFrom ==
    ASSUME KeptInv, NewNext, NEW k \in NewKeys
    PROVE  (k \in Writers /\ write[k].pc = "store") \/ (k \in Fresh /\ intake[k].pc = "store")
<1>1. CASE OldStep
  <2>1. CASE \E r \in Writers : WriterStep(r)
    <3>1. PICK r \in Writers : WriterStep(r)
      BY <2>1
    <3>2. CASE WriteStore(r)
      BY <3>2 DEF WriteStore, StoreObject, NewKeys
    <3>3. CASE ~WriteStore(r)
      <4>1. object' \subseteq object
        BY <3>1, <3>3, Cleared DEF WriterStep, WriteStart, WriteReserve, StoreFails, UploadCreate, UploadPoint, SaveFresh,
                          SaveCommit, OverwriteCollapse, OverwriteSettle, GiveBack
      <4> QED BY <4>1 DEF NewKeys
    <3> QED BY <3>2, <3>3
  <2>2. CASE \E p \in Purges : PurgeStep(p)
    BY <2>2, Cleared DEF PurgeStep, PurgeRead, PurgeRefund, PurgeStrip, HardDrop, EmptyDrop, SweepDrop, NewKeys
  <2>3. CASE \E f \in Files : Trash(f) \/ Expire(f)
    BY <2>3 DEF Trash, Expire, SetState, NewKeys
  <2> QED BY <1>1, <2>1, <2>2, <2>3 DEF OldStep
<1>2. CASE \E f \in Files : IntakeStep(f)
  <2>1. PICK f \in Files : IntakeStep(f)
    BY <1>2
  <2>2. CASE Stores(f)
    BY <2>2 DEF Stores, StoreObject, IntakeAt, NewKeys
  <2>3. CASE ~Stores(f)
    <3>1. object' \subseteq object
      BY <2>1, <2>3, Cleared
         DEF IntakeStep, UploadArrives, DavArrives, UrlArrives, UrlHops, UrlFetched, ImportArrives, Downloaded,
             NameFree, VttArrives, UploadWrites, UrlWrites, ImportWrites, DavWrites, VttWrites, Writes, Reserves,
             Creates, Undoes, Undone, Refuse, GoesTo, IntakeMove, vars
    <3> QED BY <3>1 DEF NewKeys
  <2> QED BY <2>2, <2>3
<1>3. CASE (\E f \in Files : RestoreUp(f)) \/ FolderTrash
  BY <1>3 DEF RestoreUp, Restore, SetState, FolderTrash, NewKeys
<1> QED BY <1>1, <1>2, <1>3 DEF NewNext

\* They are not those of the versions that are there.
LEMMA OldNotNew ==
    ASSUME KeptInv, NewestInv, Heavy, NewNext, NEW f \in Files, NEW v \in Numbers, file[f] # None, file[f].versions[v] # None
    PROVE  file[f].versions[v].key \notin NewKeys
<1> SUFFICES ASSUME file[f].versions[v].key \in NewKeys PROVE FALSE
  OBVIOUS
<1> DEFINE k == file[f].versions[v].key
<1>1. CASE k \in Writers /\ write[k].pc = "store"
  <2>1. InPlace(k, f, v)
    BY DEF InPlace
  <2>2. write[k].pc \notin Before
    BY <1>1, <2>1 DEF NewestInv, Distinct
  <2> QED BY <1>1, <2>2 DEF Before
<1>2. CASE k \in Fresh /\ intake[k].pc = "store"
  BY <1>2 DEF Heavy, SoundContent
<1> QED BY <1>1, <1>2, NewKeysFrom

\* What a step leaves in the versions: what was there, what its writer stored, or
\* the content of a fresh file.
Contents ==
    \A f \in Files, v \in Numbers : file'[f] # None /\ file'[f].versions[v] # None =>
        \/ file[f] # None /\ file[f].versions[v] # None /\ file'[f].versions[v] = file[f].versions[v]
        \/ \E r \in Writers : write[r].size \in Sizes /\ file'[f].versions[v] = Stored(r)
        \/ f \in Fresh /\ intake'[f].pc = "made" /\ intake[f].size \in Sizes
              /\ file'[f].versions[v] = [key |-> f, size |-> intake[f].size]

\* The sizes of requests in flight
InFlight ==
    /\ \A r \in Writers : /\ write[r].pc \notin {"unsent", "idle"} => write[r].size \in Sizes
                          /\ Sound(write[r].seen)
    /\ \A f \in Fresh : intake[f].pc \in {"check", "reserve", "store", "create"} => intake[f].size \in Sizes

\* Contents that come are sound, contents that stay remain so.
LEMMA HeavyFollows ==
    ASSUME KeptInv, NewestInv, RemuxTied, PurgesAlone, Alive, Heavy, NewNext, Follow, Contents, MadeStays, 0 \notin Sizes, InFlight'
    PROVE  Heavy'
<1>1. /\ \A k \in slow' : k \in slow \/ k \in NewKeys
      /\ remux' = remux
  BY DEF Follow
<1>2. ASSUME NEW f \in Files, NEW v \in Numbers, file'[f] # None, NEW c, c = file'[f].versions[v], c # None
      PROVE  /\ c.size \in Nat /\ (c.key \in slow' => c.size >= 1)
             /\ c.key \in Fresh => intake'[c.key].pc = "made"
  <2>2. CASE file[f] # None /\ file[f].versions[v] # None /\ c = file[f].versions[v]
    <3>1. SoundContent(c) /\ c.key \notin NewKeys
      <4>1. SoundContent(file[f].versions[v]) /\ file[f].versions[v].key \notin NewKeys
        BY <2>2, OldNotNew DEF Heavy
      <4> QED BY <2>2, <4>1 DEF SoundContent
    <3> QED BY <1>1, <3>1 DEF SoundContent, MadeStays
  <2>3. ASSUME NEW r \in Writers, write[r].size \in Sizes, c = Stored(r)
        PROVE  /\ c.size \in Nat /\ (c.key \in slow' => c.size >= 1)
               /\ c.key \in Fresh => intake'[c.key].pc = "made"
    <3>1. c.size = write[r].size /\ c.key = r
      BY <2>3 DEF Stored
    <3>2. write[r].size \in Nat /\ write[r].size # 0
      BY <2>3, SizesNat
    <3>3. r \notin Fresh
      BY VersionsAssumption
    <3> QED BY <3>1, <3>2, <3>3
  <2>4. CASE f \in Fresh /\ intake'[f].pc = "made" /\ intake[f].size \in Sizes /\ c = [key |-> f, size |-> intake[f].size]
    <3>1. c.size = intake[f].size /\ c.key = f
      BY <2>4
    <3>2. intake[f].size \in Nat /\ intake[f].size # 0
      BY <2>4, SizesNat
    <3> QED BY <2>4, <3>1, <3>2
  <2> QED BY <1>2, <2>2, <2>3, <2>4 DEF Contents
<1>3. ASSUME NEW q \in Remuxes, remux[q].pc = "update" PROVE remux[q].seen.size >= 1 /\ remux[q].seen.key \notin slow'
  <2>1. remux[q].seen.size >= 1 /\ remux[q].seen.key \notin slow
    BY <1>3 DEF Heavy
  <2>2. ~Purging
    BY <1>3 DEF PurgesAlone, Dormant
  <2>3. Matches(remux[q].seen, file[remux[q].row])
    BY <1>3, <2>2 DEF Alive
  <2> DEFINE f == remux[q].row
  <2>4. f \in Files /\ file[f] # None /\ remux[q].seen.key = file[f].key
    BY <1>3, <2>3, MediaAssumption DEF RemuxTied, Matches
  <2>5. /\ file[f].current \in Numbers /\ file[f].versions[file[f].current] # None
        /\ file[f].versions[file[f].current].key = file[f].key
    BY <2>4, RowNumbers DEF KeptInv, NewestInv, Current
  <2>6. file[f].key \notin NewKeys
    BY <2>4, <2>5, OldNotNew
  <2> QED BY <1>1, <2>1, <2>4, <2>6
<1>4. \A f \in Files, v \in Numbers : file'[f] # None /\ file'[f].versions[v] # None =>
         LET c == file'[f].versions[v]
         IN  /\ c.size \in Nat /\ (c.key \in slow' => c.size >= 1)
             /\ c.key \in Fresh => intake'[c.key].pc = "made"
  BY <1>2
<1> QED BY <1>1, <1>3, <1>4 DEF Heavy, InFlight, SoundContent

\* Rows that go or change their state keep their contents.
LEMMA DimContents ==
    ASSUME Dims PROVE Contents
BY DEF Dims, Contents

\* So do rows a writer adds its content to.
LEMMA WriterContents ==
    ASSUME KeptInv, Heavy, NEW r \in Writers, WriterStep(r)
    PROVE  /\ Contents
           /\ write'[r].size \in Sizes /\ Sound(write'[r].seen)
<1>0. Shapes
  BY DEF KeptInv
<1>1. Contents
  <2>1. CASE file' = file
    BY <2>1 DEF Contents
  <2>2. CASE file' # file
    <3> DEFINE f == write[r].file
    <3>1. /\ f \in Files /\ file[f] \in FileRow /\ write[r].pc \in {"create", "point", "commit", "collapse"}
          /\ \A g \in Files \ {f} : file'[g] = file[g]
          /\ \A v \in Numbers : file'[f].versions[v] \in {None, Stored(r), file[f].versions[v]}
      BY <2>2, WriterRows
    <3>2. write[r].size \in Sizes /\ file[f] # None
      BY <3>1, NoneAssumption DEF Heavy
    <3> HIDE DEF f
    <3> QED BY <3>1, <3>2 DEF Contents
  <2> QED BY <2>1, <2>2
<1>2. \A f \in Files : Sound(file[f])
  BY DEF Heavy, Sound, SoundContent
<1>3. CASE \E f \in Files, n \in Sizes : WriteStart(r, f, n)
  <2>1. PICK f \in Files, n \in Sizes : WriteStart(r, f, n)
    BY <1>3
  <2>2. write'[r].size = n /\ write'[r].seen = file[f]
    BY <1>0, <2>1 DEF WriteStart, Shapes
  <2> QED BY <1>1, <1>2, <2>1, <2>2
<1>4. CASE ~\E f \in Files, n \in Sizes : WriteStart(r, f, n)
  <2>1. write[r].pc \in Busy /\ write'[r].size = write[r].size
    BY <1>4, WriterOn
  <2>2. write[r].size \in Sizes
    BY <2>1 DEF Heavy, Busy
  <2>3. write'[r].seen \in {None, write[r].seen, Row(r)}
    <3>1. CASE SaveFresh(r) \/ SaveCommit(r)
      <4>1. \/ WriteEnd(r, "failed") \/ WriteEnd(r, "saved")
            \/ write' = [write EXCEPT ![r].pc = "commit", ![r].seen = Row(r)]
            \/ write' = [write EXCEPT ![r].pc = "fresh", ![r].tries = @ + 1]
        BY <3>1 DEF SaveFresh, SaveCommit, GiveBack
      <4>2. CASE WriteEnd(r, "failed") \/ WriteEnd(r, "saved")
        BY <1>0, <4>2, Moved DEF WriteSteps
      <4>3. CASE write' = [write EXCEPT ![r].pc = "commit", ![r].seen = Row(r)]
        BY <1>0, <4>3 DEF Shapes, Writer
      <4>4. CASE write' = [write EXCEPT ![r].pc = "fresh", ![r].tries = @ + 1]
        BY <1>0, <4>4 DEF Shapes, Writer
      <4> QED BY <4>1, <4>2, <4>3, <4>4
    <3>2. CASE ~SaveFresh(r) /\ ~SaveCommit(r)
      <4>1. \E step \in WriteSteps \ {"unsent", "idle"} : WriteMove(r, step) \/ WriteEnd(r, step)
        BY <1>4, <3>2 DEF WriterStep, WriteReserve, WriteStore, StoreFails, UploadCreate, UploadPoint, OverwriteCollapse,
                          OverwriteSettle, GiveBack, AfterStore, WriteSteps
      <4>2. PICK step \in WriteSteps \ {"unsent", "idle"} : WriteMove(r, step) \/ WriteEnd(r, step)
        BY <4>1
      <4> QED BY <1>0, <4>2, Moved
    <3> QED BY <3>1, <3>2
  <2>4. write[r].file \in Files
    BY <2>1 DEF KeptInv, Progress, ProgressOf, Busy
  <2>5. Sound(write[r].seen) /\ Sound(Row(r)) /\ Sound(None)
    BY <1>2, <2>4 DEF Heavy, Row, Sound
  <2> QED BY <1>1, <2>1, <2>2, <2>3, <2>5
<1> QED BY <1>3, <1>4

\* And the rows of fresh files
LEMMA IntakeContents ==
    ASSUME KeptInv, Heavy, NEW f \in Files, IntakeStep(f)
    PROVE  /\ Contents /\ Persist /\ write' = write /\ purge' = purge
           /\ \A g \in Fresh : intake'[g].pc \in {"check", "reserve", "store", "create"} => intake'[g].size \in Sizes
<1>0. Shapes /\ \A g \in Fresh : intake[g].pc \in {"check", "reserve", "store", "create"} => intake[g].size \in Sizes
  BY DEF KeptInv, Heavy
<1>1. CASE Creates(f)
  <2>1. /\ f \in Fresh /\ intake[f].pc = "create" /\ write' = write /\ purge' = purge
        /\ intake[f].size \in Sizes /\ intake[f].size \in Int /\ IntakeMove(f, "made") /\ file' = [file EXCEPT ![f] = NewRow(f)]
    BY <1>1, SizesNat DEF Creates, IntakeAt, Heavy
  <2>2. /\ intake'[f].pc = "made" /\ \A g \in Fresh \ {f} : intake'[g] = intake[g]
    BY <1>0, <2>1, IntakeMoves DEF IntakeSteps
  <2>3. file[f] = None
    BY <2>1 DEF KeptInv, FreshOnce
  <2>4. PICK c : c = [key |-> f, size |-> intake[f].size]
    OBVIOUS
  <2>5. \A v \in Numbers : NewRow(f).versions[v] \in {None, c}
    BY <2>4 DEF NewRow
  <2>6. NewRow(f) # None
    <3>1. c \in Content
      BY <2>1, <2>4 DEF Content, Keys
    <3>2. [v \in Numbers |-> IF v = 1 THEN c ELSE None] \in [Numbers -> Content \cup {None}]
      BY <3>1
    <3>3. f \in Keys /\ 1 \in Numbers
      BY <2>1, NumbersFinite DEF Keys
    <3>4. NewRow(f) \in FileRow
      BY <2>1, <2>4, <3>2, <3>3 DEF NewRow, FileRow
    <3> QED BY <3>4, NoneAssumption
  <2>7. file'[f] = NewRow(f) /\ \A g \in Files \ {f} : file'[g] = file[g]
    BY <1>0, <2>1 DEF Shapes
  <2>8. Contents
    BY <2>1, <2>2, <2>4, <2>5, <2>7 DEF Contents
  <2>9. Persist
    BY <2>6, <2>7 DEF Persist
  <2> QED BY <1>0, <2>1, <2>2, <2>8, <2>9
<1>2. CASE ~Creates(f)
  <2>1. /\ file' = file /\ write' = write /\ f \in Fresh
    BY <1>2, BesideRow
  <2>2. Contents /\ Persist
    BY <2>1 DEF Contents, Persist
  <2>3. CASE ~Writes(f)
    <3>1. /\ UNCHANGED vars /\ (\A g \in Fresh \ {f} : intake'[g] = intake[g])
          /\ intake'[f].pc \in {"fetch", "check", "reserve", "refused"}
          /\ intake'[f].pc \in {"check", "reserve"} => intake'[f].size \in Sizes \/
                 (intake[f].pc = "check" /\ intake'[f].size = intake[f].size)
      BY <1>0, <2>3, ArrivalBooks
    <3>2. intake'[f].pc \in {"check", "reserve", "store", "create"} => intake'[f].size \in Sizes
      BY <1>0, <2>1, <3>1
    <3> QED BY <1>0, <2>1, <2>2, <3>1, <3>2 DEF vars
  <2>4. CASE Reserves(f) \/ Stores(f) \/ Undoes(f)
    <3>1. /\ purge' = purge /\ intake[f].pc \in {"reserve", "store", "create"}
          /\ \E step \in {"store", "create", "refused"} : IntakeMove(f, step)
      BY <2>4 DEF Reserves, Stores, Undoes, Undone, IntakeAt
    <3>2. PICK step \in {"store", "create", "refused"} : IntakeMove(f, step)
      BY <3>1
    <3>3. intake'[f].size = intake[f].size /\ \A g \in Fresh \ {f} : intake'[g] = intake[g]
      BY <1>0, <2>1, <3>2, IntakeMoves DEF IntakeSteps
    <3> QED BY <1>0, <2>1, <2>2, <3>1, <3>3
  <2> QED BY <1>2, <2>3, <2>4 DEF Writes
<1> QED BY <1>1, <1>2

-----------------------------------------------------------------------------
\* A remux takes one byte from a content that has one, and only once.
LEMMA HeavyRemux ==
    ASSUME KeptInv, Shapes', NewestInv, RemuxTied, Alive, Heavy, ~Purging, NEW r \in Remuxes, RemuxStep(r)
    PROVE  Heavy'
<1>0. Shapes /\ write' = write /\ intake' = intake /\ \A f \in Videos : f \in Files
  BY MediaAssumption DEF KeptInv, RemuxStep, RemuxStart, RemuxFetch, RemuxPut, RemuxUpdate, RemuxCharge, newVars, vars
<1>1. SUFFICES ASSUME slow' \subseteq slow, \A q \in Remuxes \ {r} : remux'[q] = remux[q],
                      remux'[r].pc \in {"held", "update"} => remux'[r].seen.size >= 1,
                      remux'[r].pc = "update" => remux'[r].seen.key \notin slow',
                      \A f \in Files, v \in Numbers : file'[f] # None /\ file'[f].versions[v] # None =>
                          \/ file[f] # None /\ file[f].versions[v] # None /\ file'[f].versions[v] = file[f].versions[v]
                          \/ LET c == file'[f].versions[v] IN
                                 c.size \in Nat /\ c.key \notin slow' /\ (c.key \in Fresh => intake[c.key].pc = "made")
               PROVE  Heavy'
  <2>1. ASSUME RemuxEnd(r) PROVE remux'[r].pc = "unsent" /\ \A q \in Remuxes \ {r} : remux'[q] = remux[q]
    BY <1>0, <2>1, RemuxMoved
  <2>2. ASSUME NEW step \in {"held", "update", "charge"}, RemuxTo(r, step)
        PROVE  /\ remux'[r].pc = step /\ remux'[r].seen = remux[r].seen
               /\ \A q \in Remuxes \ {r} : remux'[q] = remux[q]
    BY <1>0, <2>2, RemuxMoved
  <2>3. CASE \E f \in Videos : RemuxStart(r, f)
    <3>1. PICK f \in Videos : RemuxStart(r, f)
      BY <2>3
    <3>2. /\ file' = file /\ slow' = slow /\ remux'[r].pc = "read"
          /\ (\A q \in Remuxes \ {r} : remux'[q] = remux[q])
      BY <1>0, <3>1, RemuxBegun DEF RemuxStart, newVars, vars, dataVars
    <3> QED BY <1>1, <3>2
  <2>4. CASE RemuxFetch(r) /\ ~RemuxEnd(r)
    <3>1. /\ remux[r].pc = "read" /\ remux[r].seen.key \in slow /\ slow' = slow
          /\ RemuxTo(r, "held") /\ file' = file
      BY <2>4 DEF RemuxFetch, newVars, vars, dataVars
    <3> DEFINE f == remux[r].row
    <3>2. f \in Files /\ Matches(remux[r].seen, file[f])
      BY <1>0, <3>1 DEF RemuxTied, Alive
    <3>3. file[f] # None /\ remux[r].seen.key = file[f].key /\ remux[r].seen.size = file[f].size
      BY <3>2 DEF Matches
    <3>4. Shown(file[f]) /\ file[f].current \in Numbers /\ file[f].versions[file[f].current] # None
      BY <1>0, <3>2, <3>3, RowNumbers DEF NewestInv, Current
    <3>5. SoundContent(file[f].versions[file[f].current])
      BY <3>2, <3>3, <3>4 DEF Heavy
    <3>6. file[f].versions[file[f].current].key = file[f].key /\ file[f].versions[file[f].current].size = file[f].size
      BY <3>4 DEF Shown
    <3>7. remux[r].seen.size >= 1
      BY <3>1, <3>3, <3>5, <3>6 DEF SoundContent
    <3> HIDE DEF f
    <3>8. /\ remux'[r].pc = "held" /\ remux'[r].seen = remux[r].seen
          /\ \A q \in Remuxes \ {r} : remux'[q] = remux[q]
      BY <2>2, <3>1
    <3> QED BY <1>1, <3>1, <3>7, <3>8
  <2>7. CASE RemuxPut(r) /\ ~RemuxEnd(r)
    <3>1. /\ remux[r].pc = "held" /\ slow' = slow \ {remux[r].seen.key}
          /\ RemuxTo(r, "update") /\ file' = file
      BY <2>7 DEF RemuxPut
    <3>2. /\ remux'[r].pc = "update" /\ remux'[r].seen = remux[r].seen
          /\ \A q \in Remuxes \ {r} : remux'[q] = remux[q]
      BY <2>2, <3>1
    <3>3. remux[r].seen.size >= 1
      BY <3>1 DEF Heavy
    <3>4. remux[r].seen.key \notin slow' /\ slow' \subseteq slow
      BY <3>1
    <3> QED BY <1>1, <3>1, <3>2, <3>3, <3>4
  <2>5. CASE RemuxEnd(r) /\ (RemuxFetch(r) \/ RemuxPut(r) \/ RemuxCharge(r))
    <3>1. slow' \subseteq slow /\ file' = file
      BY <2>5 DEF RemuxFetch, RemuxPut, RemuxCharge, newVars, vars, dataVars
    <3> QED BY <1>1, <2>1, <2>5, <3>1
  <2>6. CASE RemuxUpdate(r)
    <3>1. remux[r].pc = "update" /\ slow' = slow
      BY <2>6 DEF RemuxUpdate, dataVars
    <3>2. Matches(remux[r].seen, file[remux[r].row])
      BY <3>1 DEF Alive
    <3>3. remux[r].seen.size >= 1 /\ remux[r].seen.key \notin slow
      BY <3>1 DEF Heavy
    <3> DEFINE f == remux[r].row
               v == remux[r].seen.current
    <3>4. /\ f \in Files /\ v \in Numbers /\ file'[f] \in FileRow
          /\ \A g \in Files \ {f} : file'[g] = file[g]
          /\ file[f].versions[v] = [key |-> file[f].key, size |-> remux[r].seen.size]
          /\ file'[f].versions[v] = [key |-> file[f].key, size |-> remux[r].seen.size - 1]
          /\ \A u \in Numbers \ {v} : file'[f].versions[u] = file[f].versions[u]
          /\ file[f] \in FileRow /\ file[f] # None /\ RemuxTo(r, "charge") /\ remux[r].seen.size \in Int
          /\ v = file[f].current
      BY <2>6, <3>2, RemuxRow
    <3>5. remux'[r].pc = "charge" /\ \A q \in Remuxes \ {r} : remux'[q] = remux[q]
      BY <2>2, <3>4
    <3>6. file[f].key = remux[r].seen.key
      BY <3>2 DEF Matches
    <3> HIDE DEF f, v
    <3>7. file'[f].versions[v].size \in Nat /\ file'[f].versions[v].key = remux[r].seen.key
      BY <3>3, <3>4, <3>6
    <3>8. file[f].versions[v] # None /\ file[f].versions[v].key = remux[r].seen.key
      BY <1>0, <3>4, <3>6, RowNumbers DEF NewestInv, Current
    <3>9. remux[r].seen.key \in Fresh => intake[remux[r].seen.key].pc = "made"
      BY <3>4, <3>8 DEF Heavy, SoundContent
    <3>10. \A u \in Numbers : \/ file'[f].versions[u] = file[f].versions[u]
                             \/ LET c == file'[f].versions[u] IN
                                 c.size \in Nat /\ c.key \notin slow' /\ (c.key \in Fresh => intake[c.key].pc = "made")
      BY <3>1, <3>3, <3>4, <3>7, <3>9
    <3> QED BY <1>1, <3>1, <3>4, <3>5, <3>10
  <2> QED BY <2>3, <2>4, <2>5, <2>6, <2>7 DEF RemuxStep, RemuxCharge
<1>2. ASSUME NEW f \in Files, NEW v \in Numbers, file'[f] # None, NEW c, c = file'[f].versions[v], c # None
      PROVE  /\ c.size \in Nat /\ (c.key \in slow' => c.size >= 1)
             /\ c.key \in Fresh => intake[c.key].pc = "made"
  <2>1. CASE file[f] # None /\ file[f].versions[v] # None /\ c = file[f].versions[v]
    <3>1. SoundContent(c)
      <4>1. SoundContent(file[f].versions[v])
        BY <2>1 DEF Heavy
      <4> QED BY <2>1, <4>1
    <3> QED BY <1>1, <3>1 DEF SoundContent
  <2> QED BY <1>1, <1>2, <2>1
<1>3. \A f \in Files, v \in Numbers : file'[f] # None /\ file'[f].versions[v] # None =>
         LET c == file'[f].versions[v]
         IN  /\ c.size \in Nat /\ (c.key \in slow' => c.size >= 1)
             /\ c.key \in Fresh => intake[c.key].pc = "made"
  BY <1>2
<1>4. \A q \in Remuxes : /\ remux'[q].pc \in {"held", "update"} => remux'[q].seen.size >= 1
                         /\ remux'[q].pc = "update" => remux'[q].seen.key \notin slow'
  BY <1>1 DEF Heavy
<1>5. InFlight
  BY DEF Heavy, InFlight
<1> QED BY <1>0, <1>3, <1>4, <1>5 DEF Heavy, InFlight, SoundContent

-----------------------------------------------------------------------------
\* What holds before and after a step, but for the balance, carries the balance's
\* terms over.
LEMMA TermsNow ==
    ASSUME KeptInv, KeptInv', Listed, Listed', Heavy, Heavy' PROVE Terms /\ Terms'
<1>1. Terms
  BY TermTypes DEF KeptInv
<1>2. Shapes' /\ Progress'
  BY DEF KeptInv
<1>3. Terms'
  BY <1>2, TermTypes, PTL
<1> QED BY <1>1, <1>3

\* A writer's step
LEMMA WriterBooks ==
    ASSUME KeptInv, KeptInv', NewestInv, RemuxTied, BooksInv, NEW r \in Writers, WriterStep(r),
           UNCHANGED <<intake, folder>>, NewNext, Follow, Undisturbed, ~Overlap, 0 \notin Sizes
    PROVE  BooksInv'
<1>1. /\ PurgesAlone /\ OverwriteAlone /\ Alive /\ RemuxApart /\ Listed /\ Heavy /\ Balanced /\ Shapes /\ Progress
      /\ remux' = remux /\ intake' = intake
  BY DEF BooksInv, Lively, KeptInv, Follow
<1>2. Others /\ ~Purging /\ purge' = purge
  BY <1>1, Actors
     DEF Others, WriterStep, WriteStart, WriteReserve, WriteStore, StoreFails, UploadCreate, UploadPoint, SaveFresh, SaveCommit,
         OverwriteCollapse, OverwriteSettle
<1>3. PurgesAlone' /\ ~Purging'
  BY <1>1, <1>2, AloneKeeps
<1>4. OverwriteAlone'
  BY <1>1, OverwriteActs
<1>5. /\ Persist /\ (\A q \in Writers \ {r} : write'[q] = write[q])
      /\ \/ \E f \in Files, n \in Sizes : WriteStart(r, f, n)
         \/ write[r].pc \in Busy /\ write'[r].file = write[r].file /\ write'[r].size = write[r].size
  BY WriterOn
<1>6. \A q \in Writers : write'[q].pc \notin {"unsent", "idle"} => Row(q)' # None
  <2>1. ASSUME NEW q \in Writers, write[q].pc \notin {"unsent", "idle"} PROVE file'[write[q].file] # None
    <3>1. write[q].file \in Files
      BY <1>1, <2>1 DEF Progress, ProgressOf
    <3>2. file[write[q].file] # None
      BY <1>1, <1>2, <2>1 DEF Alive, Row
    <3> QED BY <1>5, <3>1, <3>2 DEF Persist
  <2>2. \A q \in Writers \ {r} : write'[q].pc \notin {"unsent", "idle"} => Row(q)' # None
    BY <1>5, <2>1 DEF Row
  <2>3. CASE write[r].pc \in Busy /\ write'[r].file = write[r].file
    BY <2>1, <2>2, <2>3 DEF Row, Busy
  <2>4. CASE \E f \in Files, n \in Sizes : WriteStart(r, f, n)
    <3>1. PICK f \in Files, n \in Sizes : WriteStart(r, f, n)
      BY <2>4
    <3>2. write'[r].file = f /\ file[f] # None
      BY <1>1, <3>1 DEF WriteStart, Shapes, Live, Exists
    <3> QED BY <1>5, <2>2, <3>2 DEF Persist, Row
  <2> QED BY <1>5, <2>3, <2>4
<1>7. Onward /\ MadeStays
  BY <1>1, FilesOnward
<1>8. Alive'
  BY <1>1, <1>2, <1>5, <1>6, <1>7, AliveFollows
<1>9. RemuxApart'
  BY <1>1 DEF RemuxApart
<1>10. Listed'
  BY <1>1, <1>2, ListedKeeps
<1>11. Contents /\ InFlight'
  <2>1. Contents /\ write'[r].size \in Sizes /\ Sound(write'[r].seen)
    BY <1>1, WriterContents
  <2>2. \A q \in Writers \ {r} : (write'[q].pc \notin {"unsent", "idle"} => write'[q].size \in Sizes) /\ Sound(write'[q].seen)
    BY <1>1, <1>5 DEF Heavy
  <2>3. \A f \in Fresh : intake'[f].pc \in {"check", "reserve", "store", "create"} => intake'[f].size \in Sizes
    BY <1>1 DEF Heavy
  <2> QED BY <2>1, <2>2, <2>3 DEF InFlight, Sound
<1>12. Heavy'
  BY <1>1, <1>7, <1>11, HeavyFollows
<1>13. Terms /\ Terms'
  BY <1>1, <1>10, <1>12, TermsNow
<1>14. write[r].pc \in Busy => Row(r) # None
  BY <1>1, <1>2 DEF Alive, Busy
<1>15. write[r].pc = "collapse" => Row(r) # None /\ Row(r).versions = Seen(r).versions
  BY <1>1 DEF OverwriteAlone, Progress, ProgressOf
<1>16. Balanced'
  <2>1. CASE (\E f \in Files, n \in Sizes : WriteStart(r, f, n)) \/ WriteReserve(r) \/ WriteStore(r) \/ StoreFails(r) \/ SaveFresh(r)
    BY <1>1, <1>2, <1>13, <2>1, ReserveBooks
  <2>2. CASE UploadCreate(r) \/ UploadPoint(r) \/ SaveCommit(r)
    BY <1>1, <1>2, <1>13, <1>14, <2>2, VersionBooks
  <2>3. CASE OverwriteCollapse(r) \/ OverwriteSettle(r)
    BY <1>1, <1>2, <1>13, <1>15, <2>3, OverwriteBooks
  <2> QED BY <2>1, <2>2, <2>3 DEF WriterStep
<1> QED BY <1>3, <1>4, <1>8, <1>9, <1>10, <1>12, <1>16 DEF BooksInv, Lively

\* The trash deletes no row.
LEMMA TrashPersists ==
    ASSUME Shapes, (\E f \in Files : Trash(f) \/ Restore(f) \/ Expire(f)) \/ FolderTrash PROVE Persist
<1>1. \A row \in FileRow, st \in {"live", "trashed", "expired"} : [row EXCEPT !.state = st] # None
  <2>1. \A row \in FileRow, st \in {"live", "trashed", "expired"} : [row EXCEPT !.state = st] \in FileRow
    BY DEF FileRow
  <2> QED BY <2>1, NoneAssumption
<1>2. \/ \E f \in Files, st \in {"live", "trashed", "expired"} : file' = [file EXCEPT ![f].state = st]
      \/ file' = [f \in Files |-> IF Within(f) /\ Live(f) THEN [file[f] EXCEPT !.state = "trashed"] ELSE file[f]]
  BY DEF Trash, Restore, Expire, SetState, FolderTrash
<1>3. \A f \in Files : \/ file'[f] = file[f]
                       \/ \E st \in {"live", "trashed", "expired"} : file'[f] = [file[f] EXCEPT !.state = st]
  BY <1>2 DEF Shapes
<1>4. \A f \in Files : file[f] # None => file[f] \in FileRow
  BY DEF Shapes
<1> QED BY <1>1, <1>3, <1>4 DEF Persist

\* A step in which rows go or change their state: a purge, or the trash
LEMMA DimBooks ==
    ASSUME KeptInv, KeptInv', NewestInv, RemuxTied, BooksInv, NewNext, Follow, Undisturbed, ~Overlap, 0 \notin Sizes,
           \/ \E p \in Purges : PurgeStep(p)
           \/ \E f \in Files : Trash(f) \/ Restore(f) \/ Expire(f)
           \/ FolderTrash,
           intake' = intake
    PROVE  BooksInv'
<1>1. /\ PurgesAlone /\ OverwriteAlone /\ Alive /\ RemuxApart /\ Listed /\ Heavy /\ Balanced /\ Shapes /\ Progress
      /\ remux' = remux /\ Dims /\ write' = write
  BY GoneOrSame DEF BooksInv, Lively, KeptInv, Follow
<1>2. Dormant => Dormant'
  BY <1>1, DormantFollows
<1>3. RemuxApart' /\ Contents /\ Onward /\ MadeStays
  BY <1>1, DimContents, FilesOnward DEF RemuxApart
<1>4. InFlight'
  BY <1>1 DEF InFlight, Heavy
<1>5. Heavy'
  BY <1>1, <1>3, <1>4, HeavyFollows
<1>6. CASE \E p \in Purges : PurgeStep(p)
  <2>1. PICK p \in Purges : PurgeStep(p)
    BY <1>6
  <2>2. Listed' /\ \A q \in Purges : purge'[q].pc = "unsent" <=> purge[q].pc = "unsent"
    BY <1>1, <2>1, ListedSteps
  <2>3. Purging
    <3>1. purge[p].pc # "unsent"
      BY <1>1, <2>1 DEF PurgeStep, PurgeRead, PurgeRefund, PurgeStrip, HardDrop, EmptyDrop, SweepDrop, Listed, ListedOf
    <3> QED BY <3>1 DEF Purging
  <2>4. PurgesAlone' /\ Purging'
    BY <1>1, <1>2, <2>2, <2>3, AloneKeeps DEF PurgesAlone
  <2>5. Alive' /\ OverwriteAlone'
    <3>1. \A r \in Writers : write'[r].pc = "unsent"
      BY <1>1, <2>3 DEF PurgesAlone
    <3> QED BY <2>4, <3>1 DEF Alive, OverwriteAlone, Writers
  <2>6. Terms /\ Terms'
    BY <1>1, <1>5, <2>2, TermsNow
  <2>7. Balanced'
    BY <1>1, <2>1, <2>6, PurgeBooks
  <2> QED BY <1>3, <1>5, <2>2, <2>4, <2>5, <2>7 DEF BooksInv, Lively
<1>7. CASE (\E f \in Files : Trash(f) \/ Restore(f) \/ Expire(f)) \/ FolderTrash
  <2>1. used' = used /\ purge' = purge
    BY <1>7 DEF Trash, Restore, Expire, SetState, FolderTrash
  <2>2. Persist
    BY <1>1, <1>7, TrashPersists
  <2>3. Listed'
    BY <1>1, <2>1, <2>2, ListedKeeps
  <2>4. PurgesAlone' /\ (Purging' <=> Purging)
    BY <1>1, <1>2, <2>1, AloneKeeps DEF PurgesAlone
  <2>5. OverwriteAlone'
    BY <1>1, <1>2, <2>2, OverwriteKeeps
  <2>6. Alive'
    <3>1. CASE Purging
      BY <2>4, <3>1 DEF Alive
    <3>2. CASE ~Purging
      <4>1. \A r \in Writers : write'[r].pc \notin {"unsent", "idle"} => Row(r)' # None
        BY <1>1, <2>2, <3>2 DEF Alive, Row, Persist, Progress, ProgressOf
      <4> QED BY <1>1, <1>3, <2>2, <3>2, <4>1, AliveFollows
    <3> QED BY <3>1, <3>2
  <2>7. Balanced'
    BY <1>1, <2>1, <2>2, TrashBooks DEF Persist
  <2> QED BY <1>3, <1>5, <2>3, <2>4, <2>5, <2>6, <2>7 DEF BooksInv, Lively
<1> QED BY <1>6, <1>7

\* A step of a request that makes a file
LEMMA FreshBooks ==
    ASSUME KeptInv, KeptInv', NewestInv, RemuxTied, BooksInv, NewNext, Follow, Undisturbed, ~Overlap, 0 \notin Sizes,
           NEW f \in Files, IntakeStep(f)
    PROVE  BooksInv'
<1>1. /\ PurgesAlone /\ OverwriteAlone /\ Alive /\ RemuxApart /\ Listed /\ Heavy /\ Balanced /\ Shapes /\ Progress
      /\ remux' = remux
  BY DEF BooksInv, Lively, KeptInv, Follow
<1>2. ~Dormant /\ ~Purging
  BY <1>1, Actors
<1>3. /\ Contents /\ Persist /\ write' = write /\ purge' = purge
      /\ \A g \in Fresh : intake'[g].pc \in {"check", "reserve", "store", "create"} => intake'[g].size \in Sizes
  BY <1>1, IntakeContents
<1>4. InFlight' /\ Onward /\ MadeStays
  BY <1>1, <1>3, FilesOnward DEF InFlight, Heavy
<1>5. Heavy'
  BY <1>1, <1>3, <1>4, HeavyFollows
<1>6. Listed'
  BY <1>1, <1>2, <1>3, ListedKeeps
<1>7. PurgesAlone'
  BY <1>1, <1>2, <1>3, AloneKeeps
<1>8. OverwriteAlone'
  BY <1>1, <1>2, <1>3, OverwriteKeeps
<1>9. Alive'
  <2>1. \A r \in Writers : write'[r].pc \notin {"unsent", "idle"} => Row(r)' # None
    BY <1>1, <1>2, <1>3 DEF Alive, Row, Persist, Progress, ProgressOf
  <2> QED BY <1>1, <1>2, <1>3, <1>4, <2>1, AliveFollows
<1>10. RemuxApart'
  BY <1>1 DEF RemuxApart
<1>11. Terms /\ Terms'
  BY <1>1, <1>5, <1>6, TermsNow
<1>12. Balanced'
  BY <1>1, <1>11, IntakeBooks
<1> QED BY <1>5, <1>6, <1>7, <1>8, <1>9, <1>10, <1>12 DEF BooksInv, Lively

-----------------------------------------------------------------------------
\* A remux's step
LEMMA RemuxAllBooks ==
    ASSUME KeptInv, KeptInv', NewestInv, RemuxTied, BooksInv, NEW r \in Remuxes, RemuxStep(r), ~Overlap
    PROVE  BooksInv'
<1>1. /\ PurgesAlone /\ OverwriteAlone /\ Alive /\ RemuxApart /\ Listed /\ Heavy /\ Balanced /\ Shapes /\ Shapes' /\ Progress
  BY DEF BooksInv, Lively, KeptInv
<1>2. ~Dormant /\ ~Purging
  BY <1>1, Actors
<1>3. write' = write /\ purge' = purge
  BY DEF RemuxStep, RemuxStart, RemuxFetch, RemuxPut, RemuxUpdate, RemuxCharge, newVars, vars
<1>4. Alive' /\ RemuxApart' /\ Persist
  BY <1>1, <1>2, AliveRemux
<1>5. Heavy'
  BY <1>1, <1>2, HeavyRemux
<1>6. Listed'
  BY <1>1, <1>2, <1>3, ListedKeeps
<1>7. PurgesAlone'
  BY <1>1, <1>2, <1>3, AloneKeeps
<1>8. OverwriteAlone'
  BY <1>1, <1>2, <1>3, OverwriteKeeps
<1>9. Terms /\ Terms'
  BY <1>1, <1>5, <1>6, TermsNow
<1>10. remux[r].pc = "update" => Matches(remux[r].seen, file[remux[r].row])
  BY <1>1, <1>2 DEF Alive
<1>11. Balanced'
  BY <1>1, <1>9, <1>10, RemuxBooks
<1> QED BY <1>4, <1>5, <1>6, <1>7, <1>8, <1>11 DEF BooksInv, Lively

\* The renditions, transcripts, posters and checksums leave it all alone, but for
\* the subtitles that are about to come.
LEMMA WorkAllBooks ==
    ASSUME KeptInv, BooksInv,
           \/ HlsStep \/ TextStep \/ \E f \in Videos : RenditionsGo(f)
           \/ \E f \in Videos, k \in Keys : ThumbDone(f, k) \/ ChecksumDone(f, k)
    PROVE  BooksInv'
<1>1. /\ PurgesAlone /\ OverwriteAlone /\ Alive /\ RemuxApart /\ Listed /\ Heavy /\ Balanced /\ Shapes
  BY DEF BooksInv, Lively, KeptInv
<1>2. /\ Balanced' /\ UNCHANGED <<vars, remux, due, slow>>
      /\ \A f \in Fresh : intake'[f] = intake[f] \/ (intake[f].pc = "unsent" /\ intake'[f].pc = "idle")
  BY <1>1, WorkBooks
<1>3. Dormant => Dormant'
  BY DormantWork
<1>4. file' = file /\ write' = write /\ purge' = purge /\ Dims /\ Persist
  BY <1>2 DEF vars, Dims, Persist
<1>5. PurgesAlone' /\ (Purging' <=> Purging)
  BY <1>1, <1>3, <1>4, AloneKeeps DEF PurgesAlone
<1>6. OverwriteAlone'
  BY <1>1, <1>3, <1>4, OverwriteKeeps
<1>7. Listed'
  BY <1>1, <1>4, ListedKeeps
<1>8. Alive' /\ RemuxApart'
  BY <1>1, <1>2, <1>4, <1>5 DEF Alive, RemuxApart, Row
<1>9. Heavy'
  BY <1>1, <1>2, <1>4 DEF Heavy, SoundContent
<1> QED BY <1>2, <1>5, <1>6, <1>7, <1>8, <1>9 DEF BooksInv, Lively

\* A step that changes nothing
LEMMA StillBooks ==
    ASSUME BooksInv, UNCHANGED mediaVars PROVE BooksInv'
<1>1. UNCHANGED <<used, file, write, purge, intake, due, remux, queue, job, slow>>
  BY DEF mediaVars, newVars, vars, jobVars, dataVars
<1>2. Purging' = Purging /\ Dormant' = Dormant /\ Listed' = Listed
  BY <1>1 DEF Purging, Dormant, Listed, ListedOf
<1>3. PurgesAlone' = PurgesAlone /\ OverwriteAlone' = OverwriteAlone /\ Alive' = Alive /\ RemuxApart' = RemuxApart
  BY <1>1, <1>2 DEF PurgesAlone, OverwriteAlone, Alive, RemuxApart, Row, Seen
<1>4. Heavy' = Heavy
  BY <1>1 DEF Heavy, SoundContent
<1>5. Balanced' = Balanced
  BY <1>1, FilesSame, SumsSame DEF Balanced
<1> QED BY <1>2, <1>3, <1>4, <1>5 DEF BooksInv, Lively

-----------------------------------------------------------------------------
\* The workloads in which a purge meets no other request but trashing and
\* restoring, hard deletes each other, and an overwrite no other request.
BooksApart ==
    \A sent \in Workloads :
        /\ sent \cap Purges # {} => sent \subseteq HardDeletes \/ \E p \in Purges : sent = {p}
        /\ \A o \in sent \cap Overwrites : sent = {o}

\* Requests that are apart for the books are apart for the history.
LEMMA BooksWritersApart ==
    ASSUME BooksApart PROVE OverwritesApart
<1> SUFFICES ASSUME NEW sent \in Workloads, NEW o \in sent \cap Overwrites PROVE sent \cap (Uploads \cup Saves) = {}
  BY DEF OverwritesApart
<1>1. sent = {o} /\ o \notin Uploads \cup Saves
  BY VersionsAssumption DEF BooksApart
<1> QED BY <1>1

\* The balance matches before any request came.
LEMMA BooksInit ==
    ASSUME BooksApart, 0 \notin Sizes, MediaInit PROVE BooksInv
<1>0. KeptInv
  BY BooksWritersApart, KeptInit
<1>1. PICK sent \in Workloads :
        /\ NewInitFor(sent) /\ due = {} /\ queue = [w \in Workers |-> <<>>] /\ job = [w \in Workers |-> Idle]
        /\ remux = [q \in Remuxes |-> NoRemux(Starts(q, sent))]
  BY DEF MediaInit
<1> DEFINE there == Named(sent) \ Fresh
<1>2. InitFor(sent) /\ intake = [f \in Fresh |-> NoIntake(Starts(f, sent))]
  BY <1>1 DEF NewInitFor
<1>3. /\ file = [f \in Files |-> IF f \in there THEN FirstRow(f) ELSE None]
      /\ used = SumFunction([f \in there |-> Bytes(FirstRow(f))])
      /\ write = [r \in Writers |-> NoWrite(Starts(r, sent))]
      /\ purge = [p \in Purges |-> NoPurge(Starts(p, sent))]
  <2>1. file = [f \in Files |-> IF f \in there THEN FirstRow(f) ELSE None]
    BY <1>2 DEF InitFor
  <2>2. used = SumFunction([f \in there |-> Bytes(FirstRow(f))])
    BY <1>2 DEF InitFor
  <2>3. write = [r \in Writers |-> NoWrite(Starts(r, sent))]
    BY <1>2 DEF InitFor
  <2>4. purge = [p \in Purges |-> NoPurge(Starts(p, sent))]
    BY <1>2 DEF InitFor
  <2> QED BY <2>1, <2>2, <2>3, <2>4
<1>4. \A r : Starts(r, sent) \in {"idle", "unsent"} /\ (Starts(r, sent) = "unsent" <=> r \notin sent)
  BY DEF Starts
<1>5. /\ \A r \in Writers : write[r].pc = Starts(r, sent) /\ write[r].seen = None
      /\ \A f \in Fresh : intake[f].pc = Starts(f, sent)
      /\ \A q \in Remuxes : remux[q].pc = Starts(q, sent)
      /\ \A w \in Workers : queue[w] = <<>> /\ job[w].pc = "idle"
  BY <1>1, <1>2, <1>3 DEF NoWrite, NoIntake, Idle, NoRemux
<1>6. /\ purge \in [Purges -> PurgeRecord]
      /\ \A p \in Purges : /\ purge[p].pc = Starts(p, sent) /\ purge[p].drop = {}
                           /\ \A f \in Files : purge[p].rows[f] = None
  BY <1>3, <1>4 DEF NoPurge, PurgeRecord, PurgeSteps
<1>7. /\ Writers \cap Purges = {} /\ Fresh \cap (Writers \cup Purges) = {} /\ Remuxes \cap (Fresh \cup Writers \cup Purges) = {}
      /\ HardDeletes \subseteq Purges /\ Overwrites \subseteq Writers
  BY VersionsAssumption, MediaAssumption DEF Purges, Writers
<1>8. ASSUME NEW x \in sent, x \in Purges \/ x \in Overwrites, sent \subseteq HardDeletes \/ sent = {x}
      PROVE  Dormant
  <2>1. \A y \in sent : y \in Purges \cup Overwrites
    BY <1>7, <1>8
  <2>2. \A y \in Remuxes \cup Fresh : y \notin sent
    BY <1>7, <2>1
  <2> QED BY <1>1, <1>4, <1>5, <2>2 DEF Dormant
<1>9. PurgesAlone
  <2> SUFFICES ASSUME NEW p \in Purges, purge[p].pc # "unsent"
               PROVE  /\ Dormant /\ \A r \in Writers : write[r].pc = "unsent"
                      /\ \A p1 \in Purges \ HardDeletes, q \in Purges : purge[p1].pc # "unsent" /\ purge[q].pc # "unsent" => p1 = q
    BY DEF PurgesAlone, Purging
  <2>1. p \in sent
    BY <1>4, <1>6
  <2>2. sent \subseteq HardDeletes \/ sent = {p}
    BY <2>1 DEF BooksApart
  <2>3. Dormant
    BY <1>8, <2>1, <2>2
  <2>4. \A r \in Writers : r \notin sent
    BY <1>7, <2>2
  <2>5. \A q \in Purges : purge[q].pc # "unsent" => q \in sent
    BY <1>4, <1>6
  <2> QED BY <1>4, <1>5, <2>2, <2>3, <2>4, <2>5
<1>10. OverwriteAlone
  <2> SUFFICES ASSUME NEW o \in Overwrites, write[o].pc # "unsent"
               PROVE  Dormant /\ write[o].pc = "idle" /\ \A r \in Writers \ {o} : write[r].pc = "unsent"
    BY DEF OverwriteAlone
  <2>1. o \in sent /\ write[o].pc = "idle"
    BY <1>4, <1>5, <1>7
  <2>2. sent = {o}
    BY <2>1 DEF BooksApart
  <2>3. Dormant
    BY <1>8, <2>1, <2>2
  <2> QED BY <1>4, <1>5, <2>1, <2>2, <2>3
<1>11. Alive /\ RemuxApart
  <2>1. (\A r \in Writers : write[r].pc \in {"unsent", "idle"}) /\ \A q \in Remuxes : remux[q].pc \in {"unsent", "idle"}
    BY <1>4, <1>5
  <2> QED BY <1>1, <2>1 DEF Alive, RemuxApart
<1>12. Listed
  <2>1. \A p \in Purges : purge[p].pc # "delete"
    BY <1>4, <1>6
  <2> QED BY <1>6, <2>1 DEF Listed, ListedOf, Sound
<1>13. ASSUME NEW f \in Files, NEW v \in Numbers, file[f] # None, file[f].versions[v] # None
       PROVE  SoundContent(file[f].versions[v])
  <2>1. file[f] = FirstRow(f)
    BY <1>3, <1>13
  <2>2. file[f].versions[v] = IF v <= Len(History) THEN [key |-> <<f, v>>, size |-> History[v]] ELSE None
    BY <2>1 DEF FirstRow
  <2>3. v <= Len(History) /\ file[f].versions[v] = [key |-> <<f, v>>, size |-> History[v]]
    BY <1>13, <2>2
  <2>4. v \in DOMAIN History
    <3> DEFINE n == Len(History)
    <3>1. n \in Nat /\ DOMAIN History = 1..n /\ v \in Int /\ 1 <= v
      BY NumberFacts DEF Numbers
    <3>2. v <= n
      BY <2>3
    <3> HIDE DEF n
    <3> QED BY <3>1, <3>2
  <2>5. History[v] \in Sizes
    <3>1. History \in Seq(Sizes)
      BY VersionsAssumption
    <3> QED BY <2>4, <3>1
  <2>6. History[v] \in Nat /\ History[v] # 0
    BY <2>5, SizesNat
  <2>7. <<f, v>> \notin Fresh
    BY <2>4, VersionsAssumption
  <2>8. PICK c : c = file[f].versions[v]
    OBVIOUS
  <2>9. c.key = <<f, v>> /\ c.size = History[v]
    BY <2>3, <2>8
  <2>10. SoundContent(c)
    BY <2>6, <2>7, <2>9 DEF SoundContent
  <2> QED BY <2>8, <2>10
<1>14. Heavy
  <2>1. \A q \in Remuxes : remux[q].pc \notin {"held", "update"}
    BY <1>4, <1>5
  <2> QED BY <1>4, <1>5, <1>13, <2>1 DEF Heavy, Sound
<1>15. Terms
  BY <1>0, <1>12, <1>14, TermTypes DEF KeptInv
<1>16. OfFiles = used
  <2> DEFINE s == [f \in Files |-> Bytes(file[f])]
             t == [f \in there |-> Bytes(FirstRow(f))]
  <2>1. there \in SUBSET Files
    <3>1. \A r \in DOMAIN Targets : Targets[r] \subseteq Files
      BY VersionsAssumption
    <3> QED BY <3>1 DEF Named
  <2>2. s \in [Files -> Int] /\ \A f \in Files : s[f] \in Int
    BY <1>15 DEF Terms
  <2>3. \A f \in there : t[f] = s[f]
    BY <1>3, <2>1
  <2>4. \A f \in Files \ there : s[f] = 0
    <3>1. \A f \in Files \ there : file[f] = None
      BY <1>3
    <3> QED BY <3>1 DEF Bytes
  <2>5. used = SumFunctionOnSet(t, there) /\ OfFiles = SumFunctionOnSet(s, Files)
    BY <1>3 DEF OfFiles, SumFunction
  <2> HIDE DEF s, t, there
  <2>6. IsFiniteSet(Files) /\ IsFiniteSet(there) /\ IsFiniteSet(Files \ there)
    BY <2>1, VersionsAssumption, FS_Subset
  <2>7. SumFunctionOnSet(s, Files) = SumFunctionOnSet(s, there) + SumFunctionOnSet(s, Files \ there)
    BY <2>1, <2>2, <2>6, SumParts
  <2>8. SumFunctionOnSet(s, Files \ there) = 0
    BY <2>4, <2>6, SumZero
  <2>9. \A f \in there : s[f] \in Int
    BY <2>1, <2>2
  <2>10. SumFunctionOnSet(t, there) = SumFunctionOnSet(s, there) /\ SumFunctionOnSet(s, there) \in Int
    BY <2>3, <2>6, <2>9, SumSame, SumType
  <2> QED BY <2>5, <2>7, <2>8, <2>10
<1>17. OfWriters = 0 /\ OfPurges = 0 /\ OfIntakes = 0 /\ OfRemuxes = 0
  <2>1. \A r \in Writers : Held(r) = 0
    BY <1>4, <1>5 DEF Held
  <2>2. \A p \in Purges : Owed(p) = 0
    BY <1>4, <1>6 DEF Owed
  <2>3. \A f \in Fresh : IntakeHeld(f) = 0
    BY <1>4, <1>5 DEF IntakeHeld
  <2>4. \A q \in Remuxes : RemuxOwed(q) = 0
    BY <1>4, <1>5 DEF RemuxOwed
  <2>5. /\ [r \in Writers |-> Held(r)] = [r \in Writers |-> 0]
        /\ [p \in Purges |-> Owed(p)] = [p \in Purges |-> 0]
        /\ [f \in Fresh |-> IntakeHeld(f)] = [f \in Fresh |-> 0]
        /\ [q \in Remuxes |-> RemuxOwed(q)] = [q \in Remuxes |-> 0]
    BY <2>1, <2>2, <2>3, <2>4
  <2>6. IsFiniteSet(Writers) /\ IsFiniteSet(Purges) /\ IsFiniteSet(Fresh) /\ IsFiniteSet(Remuxes)
    BY VersionsAssumption, MediaAssumption, FS_Subset
  <2>7. \A S : IsFiniteSet(S) => SumFunction([x \in S |-> 0]) = 0
    BY TotalZero
  <2> QED BY <2>5, <2>6, <2>7 DEF OfWriters, OfPurges, OfIntakes, OfRemuxes
<1>18. Balanced
  <2>1. OfFiles \in Int
    <3> DEFINE s == [f \in Files |-> Bytes(file[f])]
    <3>1. s \in [Files -> Int] /\ OfFiles = SumFunction(s)
      BY <1>15 DEF Terms, OfFiles
    <3> HIDE DEF s
    <3> QED BY <3>1, VersionsAssumption, TotalType
  <2> QED BY <1>16, <1>17, <2>1 DEF Balanced
<1> QED BY <1>9, <1>10, <1>11, <1>12, <1>14, <1>18 DEF BooksInv, Lively

\* The history, the newest version, the remuxes and the balance are kept together.
LEMMA TogetherStep ==
    ASSUME KeptInv, NewestInv, RemuxTied, BooksInv, 0 \notin Sizes, ~Overlap, [MediaNext]_mediaVars
    PROVE  KeptInv' /\ NewestInv' /\ RemuxTied' /\ BooksInv'
<1>1. KeptInv' /\ NewestInv' /\ RemuxTied'
  BY KeptStep, NewestStep
<1>2. CASE NewNext /\ Follow /\ Undisturbed
  <2>1. CASE OldStep /\ \E r \in Writers : WriterStep(r)
    BY <1>1, <1>2, <2>1, WriterBooks DEF OldStep
  <2>2. CASE OldStep /\ ~\E r \in Writers : WriterStep(r)
    BY <1>1, <1>2, <2>2, DimBooks DEF OldStep
  <2>3. CASE \E f \in Files : IntakeStep(f)
    BY <1>1, <1>2, <2>3, FreshBooks
  <2>4. CASE (\E f \in Files : RestoreUp(f)) \/ FolderTrash
    <3>1. intake' = intake
      BY <2>4 DEF RestoreUp, FolderTrash
    <3> QED BY <1>1, <1>2, <2>4, <3>1, DimBooks DEF RestoreUp
  <2> QED BY <1>2, <2>1, <2>2, <2>3, <2>4 DEF NewNext
<1>3. CASE \E r \in Remuxes : RemuxStep(r)
  BY <1>1, <1>3, RemuxAllBooks
<1>4. CASE \/ HlsStep \/ TextStep \/ \E f \in Videos : RenditionsGo(f)
           \/ \E f \in Videos, k \in Keys : ThumbDone(f, k) \/ ChecksumDone(f, k)
  BY <1>1, <1>4, WorkAllBooks
<1>5. CASE UNCHANGED mediaVars
  BY <1>1, <1>5, StillBooks
<1> QED BY <1>2, <1>3, <1>4, <1>5 DEF MediaNext

BooksKept == KeptInv /\ NewestInv /\ RemuxTied /\ BooksInv

\* Between any two statements the owner's balance is what the versions of the
\* files occupy and the requests and jobs in flight still hold or owe (BooksMatch),
\* the bytes an upload refused after reserving never gives back among those,
\* for uploads, saves, intakes, remuxes and the trash in any number and order; an
\* overwrite or a purge meets only trashing and restoring (hard deletes each other
\* too), no content is empty, and none changes under a remux of it.
THEOREM BooksAreMatched ==
    ASSUME BooksApart, 0 \notin Sizes, ~Overlap PROVE MediaSpec => []BooksMatch
<1>1. MediaInit => BooksKept
  BY BooksWritersApart, KeptInit, NewestInit, BooksInit DEF BooksKept
<1>2. BooksKept /\ [MediaNext]_mediaVars => BooksKept'
  BY TogetherStep DEF BooksKept
<1>3. BooksKept => BooksMatch
  <2> SUFFICES ASSUME KeptInv, BooksInv PROVE BooksMatch
    BY DEF BooksKept
  <2>1. Balanced /\ Terms
    BY TermTypes DEF BooksInv, KeptInv
  <2> QED BY <2>1 DEF Balanced, BooksMatch, Accounted, OfFiles, OfWriters, OfPurges, OfIntakes, OfRemuxes
<1> QED BY <1>1, <1>2, <1>3, PTL DEF MediaSpec

-----------------------------------------------------------------------------
(* The objects of the versions: each has one, and each object is somebody's. *)

\* Whose content an object is: of the file its writer shows it in, of the fresh
\* file it is named after, or of the file that started with it.
Of(f, k) ==
    \/ k \in Writers /\ write[k].pc \notin Before /\ write[k].file = f
    \/ k \in Fresh /\ k = f /\ intake[f].pc = "made"
    \/ k \in Files \X DOMAIN History /\ k[1] = f

OwnedRow(f, row) == row # None => \A v \in Has(row) : Of(f, row.versions[v].key)
Owned ==
    /\ \A f \in Files : OwnedRow(f, file[f])
    /\ \A p \in Purges, f \in Files : OwnedRow(f, purge[p].rows[f])

\* A file shows an object under one number.
OneNumber ==
    \A f \in Files : file[f] # None =>
        \A u, v \in Has(file[f]) : file[f].versions[u].key = file[f].versions[v].key => u = v

\* Before a request for a file has stored its object
Bare == {"unsent", "idle", "fetch", "check", "reserve", "store"}

\* The object a request will show is there as it was stored, and not before.
Stowed ==
    /\ \A r \in Writers :
          /\ write[r].pc \in {"create", "fresh", "commit", "collapse"} => r \in Tended /\ length[r] = write[r].size
          /\ write[r].pc \in {"unsent", "idle", "reserve", "store"} => r \notin object
    /\ \A f \in Fresh :
          /\ intake[f].pc = "create" => f \in Tended /\ length[f] = intake[f].size
          /\ intake[f].pc \in Bare => f \notin object

\* A purge removes the objects of a file before its row.
Gone(row) == ObjectsOf(row) \cap Tended = {}
StrippedOf(p) ==
    /\ purge[p].pc \in {"unsent", "idle"} => \A f \in Files : purge[p].rows[f] = None
    /\ purge[p].pc # "delete" => purge[p].strip = {}
    /\ purge[p].pc = "delete" =>
          /\ purge[p].strip \subseteq purge[p].drop
          /\ \A f \in Files \cap purge[p].drop :
                f \notin purge[p].strip \/ file[f] = None => Gone(purge[p].rows[f])
Stripped == \A p \in Purges : StrippedOf(p)

\* An overwrite that is about to settle shows its own content only, and removes
\* what the file had.
ReplacedOf(o) ==
    /\ write[o].seen # None => Shown(Seen(o))
    /\ write[o].pc = "settle" =>
          /\ Row(o) # None /\ Has(Row(o)) # {}
          /\ \A v \in Has(Row(o)) : Row(o).versions[v].key = o
          /\ \A k \in StaleKeys(Seen(o)) : Of(write[o].file, k) /\ k # o
Replaced == \A o \in Overwrites : ReplacedOf(o)

\* A remux has rewritten the object before it settles the size.
Shortened ==
    /\ length \in [Keys -> Int]
    /\ \A q \in Remuxes : remux[q].pc = "update" => length[remux[q].seen.key] = remux[q].seen.size - 1

ObjectsInv == Owned /\ OneNumber /\ Stowed /\ Stripped /\ Replaced /\ Shortened /\ NoOrphans /\ VersionsStored

-----------------------------------------------------------------------------
\* The names of objects: versions a file starts with, writers, fresh files
LEMMA KeyKinds ==
    /\ \A r \in Writers : r \notin Fresh /\ r \notin Files \X DOMAIN History /\ r \in Keys
    /\ \A f \in Fresh : f \notin Writers /\ f \notin Files \X DOMAIN History /\ f \in Keys
    /\ Keys = (Files \X DOMAIN History) \cup Writers \cup Fresh
BY VersionsAssumption DEF Keys, Writers, Purges

\* A writer and a fresh file may name an object.
LEMMA NameKeys == (\A q \in Writers : q \in Keys) /\ \A g \in Fresh : g \in Keys
BY KeyKinds

\* So may what a remux works on.
LEMMA RemuxedKeys ==
    ASSUME KeptInv PROVE \A q \in Remuxes : remux[q].pc = "update" => remux[q].seen.key \in Keys
<1>1. \A q \in Remuxes : remux[q].pc = "update" => remux[q].seen \in FileRow
  BY DEF KeptInv, Shapes
<1> QED BY <1>1 DEF FileRow

\* A version names one.
LEMMA VersionKeys ==
    ASSUME KeptInv
    PROVE  \A g \in Files : file[g] # None => \A v \in Has(file[g]) : file[g].versions[v].key \in Keys
<1> SUFFICES ASSUME NEW g \in Files, file[g] # None, NEW v \in Has(file[g]) PROVE file[g].versions[v].key \in Keys
  OBVIOUS
<1>1. file[g].versions[v] \in Content \cup {None} /\ file[g].versions[v] # None
  BY RowNumbers DEF KeptInv, Has
<1> QED BY <1>1 DEF Content

\* An object is of one file.
LEMMA OfOne ==
    ASSUME NEW f, NEW g, NEW k, Of(f, k), Of(g, k) PROVE f = g
BY KeyKinds DEF Of

\* An object that is to be shown yet is of none.
LEMMA OfNone ==
    /\ \A r \in Writers : write[r].pc \in Before => \A f : ~Of(f, r)
    /\ \A g \in Fresh : intake[g].pc # "made" => \A f : ~Of(f, g)
BY KeyKinds DEF Of

\* It stays with that file.
OfStays == \A f, k : Of(f, k) => Of(f, k)'
LEMMA OfLater ==
    ASSUME \A r \in Writers : write[r].pc \notin Before => write'[r].pc \notin Before /\ write'[r].file = write[r].file,
           MadeStays
    PROVE  OfStays
BY DEF Of, MadeStays, OfStays

\* So do the objects of the file a writer goes on with.
LEMMA OfHere ==
    ASSUME OfStays, NEW r \in Writers, write'[r].file = write[r].file
    PROVE  \A k : Of(write[r].file, k) => Of(write[r].file, k)'
<1>1. PICK f : f = write[r].file
  OBVIOUS
<1>2. \A k : Of(f, k) => Of(f, k)'
  BY DEF OfStays
<1> QED BY <1>1, <1>2 DEF Of

\* A writer that shows its content goes on with the file it has.
LEMMA WriterOf ==
    ASSUME KeptInv, NEW r \in Writers, WriterStep(r), MadeStays PROVE OfStays
<1>1. /\ \A q \in Writers \ {r} : write'[q] = write[q]
      /\ \/ \E f \in Files, n \in Sizes : WriteStart(r, f, n)
         \/ write'[r].file = write[r].file
  BY WriterOn
<1>2. CASE write[r].pc \in Before
  BY <1>1, <1>2, OfLater
<1>3. CASE write[r].pc \notin Before
  <2>1. ~\E f \in Files, n \in Sizes : WriteStart(r, f, n)
    BY <1>3 DEF WriteStart, Before
  <2>2. \E step \in {"failed", "saved"} : WriteEnd(r, step)
    BY <1>3, <2>1 DEF WriterStep, WriteReserve, WriteStore, StoreFails, UploadCreate, UploadPoint, SaveFresh, SaveCommit,
                OverwriteCollapse, OverwriteSettle, GiveBack, Before
  <2>3. write'[r].pc \in {"failed", "saved"}
    BY <2>2, Moved DEF KeptInv, WriteSteps
  <2>4. write'[r].pc \notin Before
    BY <2>3 DEF Before
  <2> QED BY <1>1, <2>1, <2>4, OfLater
<1> QED BY <1>2, <1>3

\* What MinIO has of an object that is not new
LEMMA Lengths ==
    ASSUME KeptInv, Shortened, NewNext, Follow
    PROVE  /\ length' \in [Keys -> Int]
           /\ \A k \in Keys : k \notin NewKeys => length'[k] = length[k]
           /\ \A k \in Keys : k \in NewKeys => length'[k] = SizeOf(k)
<1>1. length' = [k \in Keys |-> IF k \in NewKeys THEN SizeOf(k) ELSE length[k]]
  BY DEF Follow
<1>2. ASSUME NEW k \in NewKeys PROVE SizeOf(k) \in Int
  <2>1. (k \in Writers /\ k \notin Fresh) \/ k \in Fresh
    BY <1>2, NewKeysFrom, KeyKinds
  <2> QED BY <2>1 DEF SizeOf, KeptInv, Shapes, Writer
<1>3. length \in [Keys -> Int]
  BY DEF Shortened
<1> QED BY <1>1, <1>2, <1>3

\* The objects of a row, and of a row a purge has listed, are of its file.
LEMMA OwnedKeys ==
    ASSUME Owned, NEW f \in Files
    PROVE  /\ \A k \in ObjectsOf(file[f]) : Of(f, k)
           /\ \A p \in Purges : \A k \in ObjectsOf(purge[p].rows[f]) : Of(f, k)
BY DEF Owned, OwnedRow, ObjectsOf

\* While no purge came, none has listed a file.
LEMMA NoneListed ==
    ASSUME Stripped, ~Purging
    PROVE  \A p \in Purges : purge[p].strip = {} /\ purge[p].pc = "unsent" /\ \A f \in Files : purge[p].rows[f] = None
BY DEF Stripped, StrippedOf, Purging

\* Rows with the same versions have the same objects.
LEMMA SameRow ==
    ASSUME NEW a, NEW b, a = None <=> b = None, a # None => a.versions = b.versions
    PROVE  ObjectsOf(a) = ObjectsOf(b) /\ (a # None => Has(a) = Has(b))
BY DEF ObjectsOf, Has

\* Steps that leave objects, writers and purges alone, and the keys of the rows.
LEMMA StillObjects ==
    ASSUME ObjectsInv, Dims, Persist, object' = object /\ Tended' = Tended, length' = length, write' = write, purge' = purge,
           \A r \in Writers : write[r].pc = "settle" => write[r].file \in Files,
           \A f \in Fresh : \/ intake'[f] = intake[f]
                            \/ intake[f].pc = "unsent" /\ intake'[f].pc = "idle",
           \A q \in Remuxes : /\ remux'[q].pc = "update" <=> remux[q].pc = "update"
                              /\ remux[q].pc = "update" => remux'[q].seen = remux[q].seen
    PROVE  ObjectsInv'
<1>1. OfStays
  BY OfLater DEF MadeStays
<1>2. \A f \in Files : /\ file'[f] = None <=> file[f] = None
                       /\ file[f] # None => file'[f].versions = file[f].versions
  BY DEF Dims, Persist
<1>3. \A f \in Files : /\ ObjectsOf(file'[f]) = ObjectsOf(file[f])
                       /\ file[f] # None => Has(file'[f]) = Has(file[f])
  BY <1>2, SameRow
<1>4. Owned'
  BY <1>1, <1>2, <1>3 DEF ObjectsInv, Owned, OwnedRow, OfStays
<1>5. OneNumber'
  BY <1>2, <1>3 DEF ObjectsInv, OneNumber
<1>6. Stowed'
  BY DEF ObjectsInv, Stowed, Bare
<1>7. Stripped'
  <2>1. \A p \in Purges, f \in Files : Gone(purge[p].rows[f])' <=> Gone(purge[p].rows[f])
    BY DEF Gone
  <2> QED BY <1>2, <2>1 DEF ObjectsInv, Stripped, StrippedOf
<1>8. Replaced'
  <2> SUFFICES ASSUME NEW o \in Overwrites PROVE ReplacedOf(o)'
    BY DEF Replaced
  <2>0. write'[o] = write[o] /\ Seen(o)' = Seen(o) /\ ReplacedOf(o)
    BY DEF ObjectsInv, Replaced, Seen
  <2>1. CASE write[o].pc = "settle"
    <3>1. write[o].file \in Files /\ Row(o) # None
      BY <2>0, <2>1 DEF ReplacedOf, Writers
    <3>2. Row(o)' # None /\ Row(o)'.versions = Row(o).versions /\ Has(Row(o)') = Has(Row(o))
      BY <1>2, <1>3, <3>1 DEF Row
    <3>3. \A k \in StaleKeys(Seen(o)) : Of(write[o].file, k)' /\ k # o
      BY <1>1, <2>0, <2>1, OfHere DEF ReplacedOf, Writers
    <3> QED BY <2>0, <2>1, <3>2, <3>3 DEF ReplacedOf
  <2> QED BY <2>0, <2>1 DEF ReplacedOf
<1>9. Shortened'
  BY DEF ObjectsInv, Shortened
<1>10. NoOrphans'
  BY <1>3 DEF ObjectsInv, NoOrphans, Seen
<1>11. VersionsStored'
  <2> SUFFICES ASSUME NEW f \in Files, \A p \in Purges : purge[p].rows[f] = None,
                      file'[f] # None, NEW v \in Has(file'[f])
      PROVE LET c == file'[f].versions[v]
            IN  /\ c.key \in Tended
                /\ \/ length[c.key] = c.size
                   \/ \E q \in Remuxes : remux'[q].pc = "update" /\ remux'[q].seen.key = c.key
    BY DEF VersionsStored, Exists
  <2>1. file[f] # None /\ v \in Has(file[f]) /\ file'[f].versions[v] = file[f].versions[v]
    BY <1>2, <1>3
  <2> QED BY <2>1 DEF ObjectsInv, VersionsStored, Exists
<1> QED BY <1>4, <1>5, <1>6, <1>7, <1>8, <1>9, <1>10, <1>11 DEF ObjectsInv

\* What a remux in flight has seen is the object of the row it works on.
LEMMA RemuxKey ==
    ASSUME KeptInv, NewestInv, RemuxTied, BooksInv, Owned, NEW q \in Remuxes, remux[q].pc \in {"read", "held", "update"}
    PROVE  LET f == remux[q].row k == remux[q].seen.key
           IN  /\ f \in Files /\ file[f] # None /\ k = file[f].key /\ ~Purging /\ k \in Keys
               /\ file[f].current \in Has(file[f]) /\ file[f].versions[file[f].current] = [key |-> k, size |-> remux[q].seen.size]
               /\ Of(f, k)
<1>1. ~Dormant
  BY DEF Dormant
<1>2. ~Purging /\ Matches(remux[q].seen, file[remux[q].row])
  BY <1>1 DEF BooksInv, Lively, PurgesAlone, Alive
<1>3. remux[q].row \in Files
  BY MediaAssumption DEF RemuxTied
<1>4. file[remux[q].row] # None
  BY <1>2 DEF Matches
<1>5. Shown(file[remux[q].row])
  BY <1>3, <1>4 DEF NewestInv, Current
<1>6. /\ file[remux[q].row].current \in Numbers /\ file[remux[q].row].key \in Keys
      /\ file[remux[q].row].versions[file[remux[q].row].current] # None
  BY <1>3, <1>4, <1>5, RowNumbers DEF KeptInv
<1>7. file[remux[q].row].current \in Has(file[remux[q].row])
  BY <1>6 DEF Has
<1>8. file[remux[q].row].versions[file[remux[q].row].current] = [key |-> remux[q].seen.key, size |-> remux[q].seen.size]
  BY <1>2, <1>5 DEF Matches, Shown
<1>9. Of(remux[q].row, file[remux[q].row].versions[file[remux[q].row].current].key)
  BY <1>3, <1>4, <1>7 DEF Owned, OwnedRow
<1> QED BY <1>2, <1>3, <1>4, <1>6, <1>7, <1>8, <1>9 DEF Matches

\* What is said of the owners of rows and lists, row by row
LEMMA OwnedLater ==
    ASSUME Owned, OfStays,
           \A p \in Purges, g \in Files : purge'[p].rows[g] \in {purge[p].rows[g], file[g], None},
           \A g \in Files : file'[g] # None =>
               \A v \in Has(file'[g]) : \A k : k = file'[g].versions[v].key => Of(g, k)'
    PROVE  Owned'
<1>1. \A g \in Files : OwnedRow(g, file[g])'
  BY DEF OwnedRow, Of
<1>2. \A p \in Purges, g \in Files : OwnedRow(g, purge[p].rows[g])'
  <2>1. ASSUME NEW p \in Purges, NEW g \in Files, purge'[p].rows[g] # None, NEW v \in Has(purge'[p].rows[g]),
               NEW k, k = purge'[p].rows[g].versions[v].key
        PROVE  Of(g, k)'
    <3>1. CASE purge'[p].rows[g] = purge[p].rows[g]
      <4>1. OwnedRow(g, purge[p].rows[g])
        BY DEF Owned
      <4>2. Of(g, k)
        BY <2>1, <3>1, <4>1 DEF OwnedRow
      <4> QED BY <4>2 DEF OfStays
    <3>2. CASE purge'[p].rows[g] = file[g]
      <4>1. OwnedRow(g, file[g])
        BY DEF Owned
      <4>2. Of(g, k)
        BY <2>1, <3>2, <4>1 DEF OwnedRow
      <4> QED BY <4>2 DEF OfStays
    <3> QED BY <2>1, <3>1, <3>2
  <2> QED BY <2>1 DEF OwnedRow, Of
<1> QED BY <1>1, <1>2 DEF Owned

\* Rows with the keys they had keep what is said of overwrites that do not act.
LEMMA ReplacedStays ==
    ASSUME NEW o \in Overwrites, ReplacedOf(o), OfStays, write'[o] = write[o],
           write[o].pc = "settle" => Row(o)' = Row(o)
    PROVE  ReplacedOf(o)'
<1>1. Seen(o)' = Seen(o) /\ o \in Writers
  BY DEF Seen, Writers
<1>2. CASE write[o].pc = "settle"
  <2>1. \A k \in StaleKeys(Seen(o)) : Of(write[o].file, k)' /\ k # o
    BY <1>1, <1>2, OfHere DEF ReplacedOf
  <2> QED BY <1>1, <1>2, <2>1 DEF ReplacedOf
<1> QED BY <1>1, <1>2 DEF ReplacedOf

\* Steps that store or remove one object nobody shows yet, and leave the rows
\* alone: what is said of rows and versions stays.
LEMMA OneObject ==
    ASSUME KeptInv, NewestInv, RemuxTied, BooksInv, ObjectsInv, file' = file, purge' = purge, remux' = remux, OfStays,
           NEW o \in Keys, \A f : ~Of(f, o),
           Tended' \ {o} = Tended \ {o}, length' \in [Keys -> Int], \A k \in Keys : k # o => length'[k] = length[k]
    PROVE  Owned' /\ OneNumber' /\ Stripped' /\ Shortened' /\ VersionsStored'
<1>1. Owned'
  BY DEF ObjectsInv, Owned, OwnedRow, OfStays
<1>2. OneNumber'
  BY DEF ObjectsInv, OneNumber
<1>3. Stripped'
  <2>1. ASSUME NEW p \in Purges, NEW f \in Files, Gone(purge[p].rows[f]) PROVE Gone(purge[p].rows[f])'
    <3>1. o \notin ObjectsOf(purge[p].rows[f])
      BY OwnedKeys DEF ObjectsInv
    <3> QED BY <2>1, <3>1 DEF Gone
  <2> QED BY <2>1 DEF ObjectsInv, Stripped, StrippedOf
<1>4. Shortened'
  <2>1. ASSUME NEW q \in Remuxes, remux[q].pc = "update" PROVE remux[q].seen.key # o /\ remux[q].seen.key \in Keys
    BY <2>1, RemuxKey DEF ObjectsInv
  <2> QED BY <2>1 DEF ObjectsInv, Shortened
<1>5. VersionsStored'
  <2> SUFFICES ASSUME NEW f \in Files, \A p \in Purges : purge[p].rows[f] = None,
                      file[f] # None, NEW v \in Has(file[f])
      PROVE LET c == file[f].versions[v]
            IN  /\ c.key \in Tended'
                /\ \/ length'[c.key] = c.size
                   \/ \E q \in Remuxes : remux[q].pc = "update" /\ remux[q].seen.key = c.key
    BY DEF VersionsStored, Exists
  <2>1. file[f].versions[v].key # o
    BY DEF ObjectsInv, Owned, OwnedRow
  <2>2. file[f].versions[v].key \in Keys
    BY VersionKeys
  <2>3. LET c == file[f].versions[v]
        IN  /\ c.key \in Tended
            /\ \/ length[c.key] = c.size
               \/ \E q \in Remuxes : remux[q].pc = "update" /\ remux[q].seen.key = c.key
    BY DEF ObjectsInv, VersionsStored, Exists
  <2> QED BY <2>1, <2>2, <2>3
<1> QED BY <1>1, <1>2, <1>3, <1>4, <1>5

\* A writer that has not shown its content: it stores its object, or removes it
\* and ends.
LEMMA WriterObject ==
    ASSUME KeptInv, NewestInv, RemuxTied, BooksInv, ObjectsInv, file' = file, purge' = purge, remux' = remux, OfStays,
           intake' = intake, NEW r \in Writers, \A q \in Writers \ {r} : write'[q] = write[q],
           object' \ {r} = object \ {r}, Tended' \ {r} = Tended \ {r}, length' \in [Keys -> Int], \A k \in Keys : k # r => length'[k] = length[k],
           write[r].pc \in Before,
           write'[r].pc \in {"reserve", "store", "create", "fresh", "commit", "collapse", "failed", "leaked"},
           write'[r].pc \in {"reserve", "store"} => r \notin object',
           write'[r].pc \in {"reserve", "store", "failed", "leaked"} => r \notin Tended',
           write'[r].pc \in {"create", "fresh", "commit", "collapse"} => r \in Tended' /\ length'[r] = write'[r].size,
           write'[r].seen # None /\ r \in Overwrites => Shown(write'[r].seen)
    PROVE  ObjectsInv'
<1>1. r \in Keys /\ r \notin Fresh /\ \A f : ~Of(f, r)
  BY KeyKinds, OfNone
<1>2. Owned' /\ OneNumber' /\ Stripped' /\ Shortened' /\ VersionsStored'
  BY <1>1, OneObject
<1>3. Stowed'
  <2>1. \A f \in Fresh : f # r /\ f \in Keys
    BY KeyKinds
  <2>2. \A q \in Writers : q \in Keys
    BY KeyKinds
  <2> QED BY <2>1, <2>2 DEF ObjectsInv, Stowed
<1>4. Replaced'
  <2> SUFFICES ASSUME NEW o \in Overwrites PROVE ReplacedOf(o)'
    BY DEF Replaced
  <2>1. CASE o = r
    BY <2>1 DEF ReplacedOf, Seen
  <2>2. CASE o # r
    BY <2>2, ReplacedStays DEF ObjectsInv, Replaced, Writers, Row
  <2> QED BY <2>1, <2>2
<1>5. NoOrphans'
  <2> SUFFICES ASSUME NEW k \in Tended'
      PROVE \/ \E f \in Files : k \in ObjectsOf(file[f])
            \/ \E q \in Writers : \/ (k = q /\ write'[q].pc \notin {"saved", "failed", "leaked"})
                                  \/ (write'[q].pc = "settle" /\ k \in StaleKeys(write'[q].seen))
            \/ k \in Fresh /\ intake[k].pc = "create"
            \/ \E p \in Purges : \E f \in purge[p].strip : k \in ObjectsOf(purge[p].rows[f])
    BY DEF NoOrphans, Seen
  <2>1. CASE k = r
    BY <2>1
  <2>2. CASE k # r
    <3>1. k \in Tended
      BY <2>2
    <3>2. write[r].pc # "settle"
      BY DEF Before
    <3> QED BY <2>2, <3>1, <3>2 DEF ObjectsInv, NoOrphans, Seen
  <2> QED BY <2>1, <2>2
<1> QED BY <1>2, <1>3, <1>4, <1>5 DEF ObjectsInv

\* A request whose file is not there yet, the same
LEMMA FreshObject ==
    ASSUME KeptInv, NewestInv, RemuxTied, BooksInv, ObjectsInv, file' = file, purge' = purge, remux' = remux, OfStays,
           write' = write, NEW g \in Fresh, \A f \in Fresh \ {g} : intake'[f] = intake[f],
           object' \ {g} = object \ {g}, Tended' \ {g} = Tended \ {g}, length' \in [Keys -> Int], \A k \in Keys : k # g => length'[k] = length[k],
           intake[g].pc # "made", intake'[g].pc # "made",
           intake'[g].pc # "create" => g \notin Tended', intake'[g].pc \in Bare => g \notin object',
           intake'[g].pc = "create" => g \in Tended' /\ length'[g] = intake'[g].size
    PROVE  ObjectsInv'
<1>1. g \in Keys /\ g \notin Writers /\ \A f : ~Of(f, g)
  BY KeyKinds, OfNone
<1>2. Owned' /\ OneNumber' /\ Stripped' /\ Shortened' /\ VersionsStored'
  BY <1>1, OneObject
<1>3. Stowed'
  <2>1. \A q \in Writers : q # g /\ q \in Keys
    BY KeyKinds
  <2>2. \A f \in Fresh : f \in Keys
    BY KeyKinds
  <2> QED BY <2>1, <2>2 DEF ObjectsInv, Stowed, Bare
<1>4. Replaced'
  BY ReplacedStays DEF ObjectsInv, Replaced, Row
<1>5. NoOrphans'
  <2> SUFFICES ASSUME NEW k \in Tended'
      PROVE \/ \E f \in Files : k \in ObjectsOf(file[f])
            \/ \E q \in Writers : \/ (k = q /\ write[q].pc \notin {"saved", "failed", "leaked"})
                                  \/ (write[q].pc = "settle" /\ k \in StaleKeys(write[q].seen))
            \/ k \in Fresh /\ intake'[k].pc = "create"
            \/ \E p \in Purges : \E f \in purge[p].strip : k \in ObjectsOf(purge[p].rows[f])
    BY DEF NoOrphans, Seen
  <2>1. CASE k = g
    BY <2>1
  <2>2. CASE k # g
    <3>1. k \in Tended
      BY <2>2
    <3> QED BY <2>2, <3>1 DEF ObjectsInv, NoOrphans, Seen
  <2> QED BY <2>1, <2>2
<1> QED BY <1>2, <1>3, <1>4, <1>5 DEF ObjectsInv

-----------------------------------------------------------------------------
(* The writers *)

\* What a step that stores nothing new leaves in MinIO
LEMMA SameLengths ==
    ASSUME KeptInv, ObjectsInv, NewNext, Follow, object' \subseteq object
    PROVE  length' \in [Keys -> Int] /\ \A k \in Keys : length'[k] = length[k]
<1>1. \A k : k \notin NewKeys
  BY DEF NewKeys
<1> QED BY <1>1, Lengths DEF ObjectsInv

\* A write that comes to nothing takes its object with it.
LEMMA GiveBackObject ==
    ASSUME KeptInv, NewestInv, RemuxTied, BooksInv, ObjectsInv, NewNext, Follow, Others, OfStays,
           file' = file, purge' = purge, NEW r \in Writers, write[r].pc \in Before, GiveBack(r)
    PROVE  ObjectsInv'
<1>1. /\ object' \subseteq object /\ object' \ {r} = object \ {r} /\ Tended' = Tended \ {r}
      /\ WriteEnd(r, "failed")
  BY Cleared DEF GiveBack
<1>2. write'[r].pc = "failed" /\ write'[r].seen = None /\ \A q \in Writers \ {r} : write'[q] = write[q]
  BY <1>1, Moved DEF KeptInv, WriteSteps
<1>3. \A k : k \notin NewKeys
  BY <1>1 DEF NewKeys
<1>4. length' \in [Keys -> Int] /\ \A k \in Keys : length'[k] = length[k]
  BY <1>3, Lengths DEF ObjectsInv
<1> QED BY <1>1, <1>2, <1>4, WriterObject DEF Others

\* The statements of a writer that leave the rows alone
LEMMA AsideObjects ==
    ASSUME KeptInv, NewestInv, RemuxTied, BooksInv, ObjectsInv, NewNext, Follow, Others, OfStays, NEW r \in Writers,
           \/ \E f \in Files, n \in Sizes : WriteStart(r, f, n)
           \/ WriteReserve(r) \/ WriteStore(r) \/ StoreFails(r) \/ SaveFresh(r)
    PROVE  ObjectsInv'
<1>0. Shapes
  BY DEF KeptInv
<1>1. r \in Keys /\ r \notin Fresh
  BY KeyKinds
<1>2. CASE object' = object /\ left' = left /\ ~WriteStore(r) /\ ~GiveBack(r)
  <2>0. object' = object /\ Tended' = Tended
    BY <1>2 DEF Tended
  <2>1. length' \in [Keys -> Int] /\ \A k \in Keys : length'[k] = length[k]
    BY <1>2, SameLengths
  <2>2. CASE \E f \in Files, n \in Sizes : WriteStart(r, f, n)
    <3>1. PICK f \in Files, n \in Sizes : WriteStart(r, f, n)
      BY <2>2
    <3>2. /\ file' = file /\ purge' = purge /\ file[f] # None /\ write[r].pc = "idle"
          /\ write'[r] = [pc |-> "reserve", file |-> f, size |-> n, seen |-> file[f], tries |-> 0]
          /\ \A q \in Writers \ {r} : write'[q] = write[q]
      BY <1>0, <3>1 DEF WriteStart, Shapes, Live, Exists
    <3>3. Shown(file[f])
      BY <3>2 DEF NewestInv, Current
    <3>4. r \notin object /\ r \notin Tended
      BY <3>2 DEF ObjectsInv, Stowed, Tended
    <3>5. write[r].pc \in Before
      BY <3>2 DEF Before
    <3> QED BY <2>0, <2>1, <3>2, <3>3, <3>4, <3>5, WriterObject DEF Others
  <2>3. CASE WriteReserve(r) \/ StoreFails(r)
    <3>1. /\ file' = file /\ purge' = purge /\ write[r].pc \in {"reserve", "store"}
          /\ WriteMove(r, "store") \/ WriteMove(r, "leaked") \/ WriteEnd(r, "failed")
      BY <2>3 DEF WriteReserve, StoreFails
    <3>2. /\ \A q \in Writers \ {r} : write'[q] = write[q]
          /\ write'[r].pc \in {"store", "failed", "leaked"} /\ write'[r].seen \in {None, write[r].seen}
      BY <1>0, <3>1, Moved DEF WriteSteps
    <3>3. r \notin object /\ r \notin Tended /\ write[r].pc \in Before
      BY <3>1 DEF ObjectsInv, Stowed, Before, Tended
    <3>4. r \in Overwrites /\ write[r].seen # None => Shown(write[r].seen)
      BY DEF ObjectsInv, Replaced, ReplacedOf, Seen
    <3> QED BY <2>0, <2>1, <3>1, <3>2, <3>3, <3>4, WriterObject DEF Others
  <2>4. CASE SaveFresh(r)
    <3>1. /\ file' = file /\ purge' = purge /\ write[r].pc = "fresh"
          /\ write' = [write EXCEPT ![r].pc = "commit", ![r].seen = Row(r)]
      BY <1>2, <2>4 DEF SaveFresh
    <3>2. /\ \A q \in Writers \ {r} : write'[q] = write[q]
          /\ write'[r].pc = "commit" /\ write'[r].size = write[r].size
      BY <1>0, <3>1 DEF Shapes, Writer
    <3>3. r \in Tended /\ length[r] = write[r].size /\ write[r].pc \in Before
      BY <3>1 DEF ObjectsInv, Stowed, Before
    <3>4. r \notin Overwrites
      BY <3>1, VersionsAssumption DEF KeptInv, Progress, ProgressOf
    <3> QED BY <1>1, <2>0, <2>1, <3>1, <3>2, <3>3, <3>4, WriterObject DEF Others
  <2> QED BY <1>2, <2>2, <2>3, <2>4
<1>3. CASE WriteStore(r)
  <2>1. /\ write[r].pc = "store" /\ object' = object \cup {r} /\ Tended' = Tended \cup {r}
        /\ WriteMove(r, AfterStore(r)) /\ file' = file /\ purge' = purge
    BY <1>3 DEF WriteStore, StoreObject, Tended
  <2>2. AfterStore(r) \in {"create", "fresh", "collapse"}
    BY DEF AfterStore
  <2>3. PICK step \in {"create", "fresh", "collapse"} : step = AfterStore(r)
    BY <2>2
  <2>4. step \in WriteSteps
    BY DEF WriteSteps
  <2>5. /\ \A q \in Writers \ {r} : write'[q] = write[q]
        /\ write'[r].pc = step /\ write'[r].seen = write[r].seen /\ write'[r].size = write[r].size
    BY <1>0, <2>1, <2>3, <2>4, Moved
  <2>6. r \notin object /\ write[r].pc \in Before
    BY <2>1 DEF ObjectsInv, Stowed, Before
  <2>7. r \in NewKeys /\ \A k : k # r => k \notin NewKeys
    BY <2>1, <2>6 DEF NewKeys
  <2>8. /\ length' \in [Keys -> Int] /\ \A k \in Keys : k # r => length'[k] = length[k]
        /\ length'[r] = write[r].size
    BY <1>1, <2>7, Lengths DEF ObjectsInv, SizeOf
  <2>9. r \in Overwrites /\ write[r].seen # None => Shown(write[r].seen)
    BY DEF ObjectsInv, Replaced, ReplacedOf, Seen
  <2> QED BY <2>1, <2>5, <2>6, <2>8, <2>9, WriterObject DEF Others
<1>4. CASE GiveBack(r) /\ SaveFresh(r)
  BY <1>4, GiveBackObject DEF SaveFresh, Before
<1>5. GiveBack(r) => SaveFresh(r) \/ write[r].pc \in {"idle", "reserve", "store"}
  BY DEF WriteStart, WriteReserve, WriteStore, StoreFails
<1>6. CASE GiveBack(r) /\ write[r].pc \in {"idle", "reserve", "store"} /\ file' = file /\ purge' = purge
  BY <1>6, GiveBackObject DEF Before
<1> QED BY <1>2, <1>3, <1>4, <1>5, <1>6 DEF WriteStart, WriteReserve, WriteStore, SaveFresh, StoreFails

\* A row shows a writer's content under a number that was free, or shows it already.
LEMMA VersionObject ==
    ASSUME KeptInv, NewestInv, ObjectsInv, OfStays, Others, object' = object /\ Tended' = Tended, purge' = purge,
           length' \in [Keys -> Int], \A k \in Keys : length'[k] = length[k],
           NEW r \in Uploads \cup Saves, NEW f \in Files, f = write[r].file, NEW n \in Numbers, Stored(r) # None,
           file[f] # None, file'[f] # None, \A g \in Files \ {f} : file'[g] = file[g],
           \A u \in Numbers \ {n} : file'[f].versions[u] = file[f].versions[u], file'[f].versions[n] = Stored(r),
           \/ file[f].versions[n] = None /\ write[r].pc \in {"create", "commit"}
           \/ file[f].versions[n] = Stored(r) /\ write[r].pc = "point",
           \A q \in Writers \ {r} : write'[q] = write[q], write'[r].pc \in {"point", "saved"}, write'[r].file = f,
           Plain
    PROVE  ObjectsInv'
<1>0. /\ r \in Writers /\ r \notin Overwrites /\ r \in Keys /\ r \notin Fresh
      /\ Stored(r).key = r /\ Stored(r).size = write[r].size
  BY KeyKinds, VersionsAssumption DEF Writers, Stored
<1>1. write'[r].pc \notin Before /\ Of(f, r)'
  BY <1>0 DEF Before, Of
<1>2. /\ Has(file'[f]) = Has(file[f]) \cup {n} /\ ObjectsOf(file'[f]) = ObjectsOf(file[f]) \cup {r}
      /\ n \in Has(file'[f])
  <2>1. Has(file'[f]) = Has(file[f]) \cup {n}
    BY DEF Has
  <2>2. \A u \in Has(file[f]) : file'[f].versions[u] = file[f].versions[u]
    BY DEF Has
  <2> QED BY <1>0, <2>1, <2>2 DEF ObjectsOf
<1>3. Owned'
  <2>1. ASSUME NEW g \in Files, file'[g] # None, NEW v \in Has(file'[g]), NEW k, k = file'[g].versions[v].key
        PROVE  Of(g, k)'
    <3>1. CASE g = f /\ v = n
      <4>1. k = r
        BY <1>0, <2>1, <3>1
      <4> QED BY <1>1, <3>1, <4>1
    <3>2. CASE g # f \/ v # n
      <4>1. file[g] # None /\ v \in Has(file[g]) /\ file'[g].versions[v] = file[g].versions[v]
        BY <1>2, <2>1, <3>2 DEF Has
      <4> QED BY <2>1, <4>1 DEF OfStays, ObjectsInv, Owned, OwnedRow
    <3> QED BY <3>1, <3>2
  <2> QED BY <2>1, OwnedLater DEF ObjectsInv
<1>4. OneNumber'
  <2> SUFFICES ASSUME NEW g \in Files, file'[g] # None, NEW u \in Has(file'[g]), NEW v \in Has(file'[g]),
                      file'[g].versions[u].key = file'[g].versions[v].key
      PROVE u = v
    BY DEF OneNumber
  <2>1. CASE g = f
    <3>1. CASE file[f].versions[n] = Stored(r)
      <4>1. n \in Has(file[f])
        BY <3>1 DEF Has
      <4>2. u \in Has(file[f]) /\ v \in Has(file[f])
        BY <1>2, <2>1, <4>1
      <4>3. file'[f].versions[u] = file[f].versions[u] /\ file'[f].versions[v] = file[f].versions[v]
        BY <3>1, <4>2 DEF Has
      <4> QED BY <2>1, <4>2, <4>3 DEF ObjectsInv, OneNumber
    <3>2. CASE file[f].versions[n] = None /\ write[r].pc \in {"create", "commit"}
      <4>1. \A w \in Numbers : file[f].versions[w] # None => file[f].versions[w].key # r
        BY <1>0, <3>2 DEF NewestInv, Distinct, InPlace, Before
      <4>2. \A w \in Has(file'[f]) \ {n} : w \in Has(file[f]) /\ file'[f].versions[w] = file[f].versions[w]
                                           /\ file'[f].versions[w].key # r
        BY <1>2, <4>1 DEF Has
      <4>3. file'[f].versions[n].key = r
        BY <1>0
      <4>4. file'[f].versions[u].key = file'[f].versions[v].key /\ u \in Has(file'[f]) /\ v \in Has(file'[f])
        BY <2>1
      <4>5. CASE u = n \/ v = n
        BY <4>2, <4>3, <4>4, <4>5
      <4>6. CASE u # n /\ v # n
        <5>1. u \in Has(file[f]) /\ v \in Has(file[f]) /\ file[f].versions[u].key = file[f].versions[v].key
          BY <4>2, <4>4, <4>6
        <5> QED BY <5>1 DEF ObjectsInv, OneNumber
      <4> QED BY <4>5, <4>6
    <3> QED BY <3>1, <3>2
  <2>2. CASE g # f
    BY <2>2 DEF ObjectsInv, OneNumber
  <2> QED BY <2>1, <2>2
<1>5. Stowed'
  BY <1>0, NameKeys DEF ObjectsInv, Stowed, Others
<1>6. Stripped'
  <2>1. \A p \in Purges, g \in Files : Gone(purge[p].rows[g])' <=> Gone(purge[p].rows[g])
    BY DEF Gone
  <2> QED BY <2>1 DEF ObjectsInv, Stripped, StrippedOf
<1>7. Replaced'
  <2> SUFFICES ASSUME NEW o \in Overwrites PROVE ReplacedOf(o)'
    BY DEF Replaced
  <2>1. write'[o] = write[o] /\ write[o].pc = "unsent" /\ ReplacedOf(o)
    BY <1>0 DEF ObjectsInv, Replaced, Writers, Plain
  <2> QED BY <2>1, ReplacedStays
<1>8. Shortened'
  BY RemuxedKeys DEF ObjectsInv, Shortened, Others
<1>9. NoOrphans'
  <2> SUFFICES ASSUME NEW k \in Tended
      PROVE \/ \E g \in Files : k \in ObjectsOf(file'[g])
            \/ \E q \in Writers : \/ (k = q /\ write'[q].pc \notin {"saved", "failed", "leaked"})
                                  \/ (write'[q].pc = "settle" /\ k \in StaleKeys(write'[q].seen))
            \/ k \in Fresh /\ intake[k].pc = "create"
            \/ \E p \in Purges : \E g \in purge[p].strip : k \in ObjectsOf(purge[p].rows[g])
    BY DEF NoOrphans, Seen, Others
  <2>1. CASE k = r
    BY <1>2, <2>1
  <2>2. CASE k # r
    <3>1. write[r].pc # "settle"
      OBVIOUS
    <3>2. \A g \in Files : ObjectsOf(file[g]) \subseteq ObjectsOf(file'[g])
      BY <1>2
    <3> QED BY <2>2, <3>1, <3>2 DEF ObjectsInv, NoOrphans, Seen
  <2> QED BY <2>1, <2>2
<1>10. VersionsStored'
  <2> SUFFICES ASSUME NEW g \in Files, \A p \in Purges : purge[p].rows[g] = None,
                      file'[g] # None, NEW v \in Has(file'[g])
      PROVE LET c == file'[g].versions[v]
            IN  /\ c.key \in Tended
                /\ \/ length'[c.key] = c.size
                   \/ \E q \in Remuxes : remux[q].pc = "update" /\ remux[q].seen.key = c.key
    BY DEF VersionsStored, Exists, Others
  <2>1. CASE g = f /\ v = n /\ file[f].versions[n] # Stored(r)
    BY <1>0, <2>1 DEF ObjectsInv, Stowed
  <2>2. CASE ~(g = f /\ v = n /\ file[f].versions[n] # Stored(r))
    <3>1. file[g] # None /\ v \in Has(file[g]) /\ file'[g].versions[v] = file[g].versions[v]
      BY <1>2, <2>2 DEF Has
    <3>2. LET c == file[g].versions[v]
          IN  /\ c.key \in Tended
              /\ \/ length[c.key] = c.size
                 \/ \E q \in Remuxes : remux[q].pc = "update" /\ remux[q].seen.key = c.key
      BY <3>1 DEF ObjectsInv, VersionsStored, Exists
    <3>3. file[g].versions[v].key \in Keys
      BY <3>1, VersionKeys
    <3> QED BY <3>1, <3>2, <3>3
  <2> QED BY <2>1, <2>2
<1> QED BY <1>3, <1>4, <1>5, <1>6, <1>7, <1>8, <1>9, <1>10 DEF ObjectsInv

\* A version comes, and the file points at it; or the write is tried again or ends.
LEMMA VersionObjects ==
    ASSUME KeptInv, NewestInv, RemuxTied, BooksInv, ObjectsInv, NewNext, Follow, Others, OfStays, NEW r \in Writers,
           UploadCreate(r) \/ UploadPoint(r) \/ SaveCommit(r)
    PROVE  ObjectsInv'
<1>0. Shapes
  BY DEF KeptInv
<1>1. /\ write[r].pc \in Busy /\ write[r].pc \in {"create", "point", "commit"} /\ r \in Uploads \cup Saves
      /\ purge' = purge
  BY DEF UploadCreate, UploadPoint, SaveCommit, Busy, KeptInv, Progress, ProgressOf
<1>2. Plain
  BY <1>1 DEF KeptInv, Alone
<1>3. ~Purging
  BY Actors DEF BooksInv, Lively, WriterStep
<1>4. Row(r) # None
  BY <1>1, <1>3 DEF BooksInv, Lively, Alive, Busy
<1>5. /\ write[r].file \in Files /\ Row(r) = file[write[r].file] /\ Row(r) \in FileRow
      /\ Stored(r) \in Content /\ Stored(r) # None /\ NextNumber(r) \in Numbers
  BY <1>1, <1>4, RowFacts
<1> DEFINE f == write[r].file
           n == NextNumber(r)
<1>6. write[r].size \in Int /\ DOMAIN file = Files
  BY <1>0 DEF Shapes, Writer
<1>7. CASE write[r].pc = "create" /\ Free(r) /\ UploadCreate(r)
  <2>1. /\ file' = [file EXCEPT ![f] = WithVersion(Row(r), r, n)] /\ WriteMove(r, "point") /\ object' = object /\ Tended' = Tended
    BY <1>7 DEF UploadCreate, Put, Tended
  <2>2. /\ WithVersion(Row(r), r, n) \in FileRow /\ WithVersion(Row(r), r, n).versions[n] = Stored(r)
        /\ \A u \in Numbers \ {n} : WithVersion(Row(r), r, n).versions[u] = Row(r).versions[u]
    BY <1>5, <1>6, Rows
  <2>3. /\ \A q \in Writers \ {r} : write'[q] = write[q]
        /\ write'[r].pc = "point" /\ write'[r].file = f
    BY <1>0, <2>1, Moved DEF WriteSteps
  <2>4. file'[f] = WithVersion(Row(r), r, n) /\ \A g \in Files \ {f} : file'[g] = file[g]
    BY <1>5, <1>6, <2>1
  <2>5. file[f].versions[n] = None
    BY <1>5, <1>7 DEF Free
  <2>6. file'[f] # None
    BY <2>2, <2>4, NoneAssumption
  <2>7. length' \in [Keys -> Int] /\ \A k \in Keys : length'[k] = length[k]
    BY <2>1, SameLengths
  <2> HIDE DEF f, n
  <2> QED BY <1>1, <1>2, <1>4, <1>5, <1>7, <2>1, <2>2, <2>3, <2>4, <2>5, <2>6, <2>7, VersionObject DEF f, n
<1>8. CASE write[r].pc = "point" /\ UploadPoint(r)
  <2>1. /\ file' = [file EXCEPT ![f] = Pointed(Row(r), r, n)] /\ WriteEnd(r, "saved") /\ object' = object /\ Tended' = Tended
        /\ r \in Uploads
    BY <1>4, <1>8 DEF UploadPoint, Put, KeptInv, Progress, ProgressOf, Tended
  <2>2. Pointed(Row(r), r, n) \in FileRow /\ Pointed(Row(r), r, n).versions = Row(r).versions
    BY <1>5, <1>6, Rows
  <2>3. /\ \A q \in Writers \ {r} : write'[q] = write[q]
        /\ write'[r].pc = "saved" /\ write'[r].file = f
    BY <1>0, <2>1, Moved DEF WriteSteps
  <2>4. file'[f] = Pointed(Row(r), r, n) /\ \A g \in Files \ {f} : file'[g] = file[g]
    BY <1>5, <1>6, <2>1
  <2>5. file[f].versions[n] = Stored(r)
    BY <1>4, <1>5, <1>8, <2>1 DEF NewestInv, Pointing
  <2>6. file'[f] # None
    BY <2>2, <2>4, NoneAssumption
  <2>7. length' \in [Keys -> Int] /\ \A k \in Keys : length'[k] = length[k]
    BY <2>1, SameLengths
  <2> HIDE DEF f, n
  <2> QED BY <1>1, <1>2, <1>4, <1>5, <1>8, <2>1, <2>2, <2>3, <2>4, <2>5, <2>6, <2>7, VersionObject DEF f, n
<1>9. CASE /\ write[r].pc = "commit" /\ Free(r) /\ SaveCommit(r)
           /\ Put(r, Pointed(WithVersion(Row(r), r, n), r, n)) /\ WriteEnd(r, "saved") /\ object' = object /\ Tended' = Tended
  <2>1. file' = [file EXCEPT ![f] = Pointed(WithVersion(Row(r), r, n), r, n)]
    BY <1>9 DEF Put
  <2>2. /\ WithVersion(Row(r), r, n) \in FileRow /\ WithVersion(Row(r), r, n).versions[n] = Stored(r)
        /\ \A u \in Numbers \ {n} : WithVersion(Row(r), r, n).versions[u] = Row(r).versions[u]
    BY <1>5, <1>6, Rows
  <2>3. /\ Pointed(WithVersion(Row(r), r, n), r, n) \in FileRow
        /\ Pointed(WithVersion(Row(r), r, n), r, n).versions = WithVersion(Row(r), r, n).versions
    BY <1>5, <1>6, <2>2, Rows
  <2>4. /\ \A q \in Writers \ {r} : write'[q] = write[q]
        /\ write'[r].pc = "saved" /\ write'[r].file = f
    BY <1>0, <1>9, Moved DEF WriteSteps
  <2>5. file'[f] = Pointed(WithVersion(Row(r), r, n), r, n) /\ \A g \in Files \ {f} : file'[g] = file[g]
    BY <1>5, <1>6, <2>1
  <2>6. file[f].versions[n] = None
    BY <1>5, <1>9 DEF Free
  <2>7. file'[f] # None
    BY <2>3, <2>5, NoneAssumption
  <2>8. length' \in [Keys -> Int] /\ \A k \in Keys : length'[k] = length[k]
    BY <1>9, SameLengths
  <2>9. /\ \A u \in Numbers \ {n} : file'[f].versions[u] = file[f].versions[u]
        /\ file'[f].versions[n] = Stored(r)
    BY <1>5, <2>2, <2>3, <2>5
  <2> HIDE DEF f, n
  <2> QED BY <1>1, <1>2, <1>4, <1>5, <1>9, <2>4, <2>5, <2>6, <2>7, <2>8, <2>9, VersionObject DEF f, n
<1>10. CASE GiveBack(r) /\ file' = file /\ write[r].pc \in {"create", "commit"}
  BY <1>1, <1>10, GiveBackObject DEF Before
<1>11. CASE /\ write[r].pc = "commit" /\ file' = file /\ object' = object /\ Tended' = Tended
            /\ write' = [write EXCEPT ![r].pc = "fresh", ![r].tries = @ + 1]
  <2>1. /\ \A q \in Writers \ {r} : write'[q] = write[q]
        /\ write'[r].pc = "fresh" /\ write'[r].size = write[r].size
    BY <1>0, <1>11 DEF Shapes, Writer
  <2>2. r \in Tended /\ length[r] = write[r].size /\ write[r].pc \in Before /\ r \in Keys
    BY <1>11, KeyKinds DEF ObjectsInv, Stowed, Before
  <2>3. r \notin Overwrites
    BY <1>1, VersionsAssumption
  <2>4. length' \in [Keys -> Int] /\ \A k \in Keys : length'[k] = length[k]
    BY <1>11, SameLengths
  <2> HIDE DEF f, n
  <2> QED BY <1>1, <1>11, <2>1, <2>2, <2>3, <2>4, WriterObject DEF Others
<1> QED BY <1>4, <1>7, <1>8, <1>9, <1>10, <1>11 DEF UploadCreate, UploadPoint, SaveCommit, Tended

\* Removing objects of one file, which its row does not show or a purge has listed
LEMMA RemovedObjects ==
    ASSUME KeptInv, NewestInv, ObjectsInv, OfStays, Others, file' = file,
           \A p \in Purges : purge'[p].rows = purge[p].rows,
           NEW f \in Files, NEW keys, \A k \in keys : Of(f, k), object' \subseteq object, Tended' = Tended \ keys,
           length' \in [Keys -> Int], \A k \in Keys : length'[k] = length[k],
           \A q \in Writers : write'[q] = write[q] \/ write'[q].pc = "saved",
           (\A p \in Purges : purge[p].rows[f] = None) => keys \cap ObjectsOf(file[f]) = {}
    PROVE  Owned' /\ OneNumber' /\ Stowed' /\ Shortened' /\ VersionsStored'
<1>1. Owned'
  BY OwnedLater DEF ObjectsInv, Owned, OwnedRow, OfStays
<1>2. OneNumber'
  BY DEF ObjectsInv, OneNumber
<1>3. Stowed'
  <2>1. \A q \in Writers : q \in Keys /\ (write[q].pc \in Before => q \notin keys)
    BY KeyKinds, OfNone
  <2>2. \A g \in Fresh : g \in Keys /\ (intake[g].pc # "made" => g \notin keys)
    BY KeyKinds, OfNone
  <2> QED BY <2>1, <2>2 DEF ObjectsInv, Stowed, Others, Before, Bare
<1>4. Shortened'
  BY RemuxedKeys DEF ObjectsInv, Shortened, Others
<1>5. VersionsStored'
  <2> SUFFICES ASSUME NEW g \in Files, \A p \in Purges : purge[p].rows[g] = None,
                      file[g] # None, NEW v \in Has(file[g])
      PROVE LET c == file[g].versions[v]
            IN  /\ c.key \in Tended'
                /\ \/ length'[c.key] = c.size
                   \/ \E q \in Remuxes : remux[q].pc = "update" /\ remux[q].seen.key = c.key
    BY DEF VersionsStored, Exists, Others
  <2>1. file[g].versions[v].key \in Keys
    BY VersionKeys
  <2>2. file[g].versions[v].key \notin keys
    <3>1. CASE g = f
      BY <3>1 DEF ObjectsOf
    <3>2. CASE g # f
      <4>1. Of(g, file[g].versions[v].key)
        BY DEF ObjectsInv, Owned, OwnedRow
      <4> QED BY <3>2, <4>1, OfOne
    <3> QED BY <3>1, <3>2
  <2>3. LET c == file[g].versions[v]
        IN  /\ c.key \in Tended
            /\ \/ length[c.key] = c.size
               \/ \E q \in Remuxes : remux[q].pc = "update" /\ remux[q].seen.key = c.key
    BY DEF ObjectsInv, VersionsStored, Exists
  <2> QED BY <2>1, <2>2, <2>3
<1> QED BY <1>1, <1>2, <1>3, <1>4, <1>5

\* An overwrite removes what it has replaced.
LEMMA SettleObjects ==
    ASSUME KeptInv, NewestInv, RemuxTied, BooksInv, ObjectsInv, NewNext, Follow, Others, OfStays, NEW r \in Writers,
           OverwriteSettle(r)
    PROVE  ObjectsInv'
<1>0. Shapes
  BY DEF KeptInv
<1>1. /\ write[r].pc = "settle" /\ WriteEnd(r, "saved") /\ file' = file /\ purge' = purge
      /\ object' \subseteq object /\ Tended' = Tended \ StaleKeys(Seen(r))
  BY Cleared DEF OverwriteSettle
<1>2. /\ r \in Overwrites /\ write[r].file \in Files
  BY <1>1 DEF KeptInv, Progress, ProgressOf
<1>3. /\ \A q \in Writers \ {r} : write'[q] = write[q] /\ write[q].pc = "unsent"
      /\ write'[r].pc = "saved" /\ write'[r].seen = None
  BY <1>0, <1>1, <1>2, Moved DEF WriteSteps, BooksInv, Lively, OverwriteAlone
<1>4. /\ Row(r) # None /\ Has(Row(r)) # {} /\ \A v \in Has(Row(r)) : Row(r).versions[v].key = r
      /\ \A k \in StaleKeys(Seen(r)) : Of(write[r].file, k) /\ k # r
  BY <1>1, <1>2 DEF ObjectsInv, Replaced, ReplacedOf
<1>5. length' \in [Keys -> Int] /\ \A k \in Keys : length'[k] = length[k]
  BY <1>1, SameLengths
<1>6. ObjectsOf(Row(r)) = {r}
  BY <1>4 DEF ObjectsOf
<1>7. Owned' /\ OneNumber' /\ Stowed' /\ Shortened' /\ VersionsStored'
  <2>1. StaleKeys(Seen(r)) \cap ObjectsOf(file[write[r].file]) = {}
    BY <1>4, <1>6 DEF Row
  <2>2. PICK keys : keys = StaleKeys(Seen(r))
    OBVIOUS
  <2> QED BY <1>1, <1>2, <1>3, <1>4, <1>5, <2>1, <2>2, RemovedObjects
<1>8. Stripped'
  <2>1. \A p \in Purges, f \in Files : Gone(purge[p].rows[f]) => Gone(purge[p].rows[f])'
    BY <1>1 DEF Gone
  <2> QED BY <1>1, <2>1 DEF ObjectsInv, Stripped, StrippedOf
<1>9. Replaced'
  <2> SUFFICES ASSUME NEW o \in Overwrites PROVE ReplacedOf(o)'
    BY DEF Replaced
  <2>1. CASE o = r
    BY <1>3, <2>1 DEF ReplacedOf, Seen
  <2>2. CASE o # r
    BY <1>3, <2>2, ReplacedStays DEF ObjectsInv, Replaced, Writers
  <2> QED BY <2>1, <2>2
<1>10. NoOrphans'
  <2> SUFFICES ASSUME NEW k \in Tended, k \notin StaleKeys(Seen(r))
      PROVE \/ \E f \in Files : k \in ObjectsOf(file[f])
            \/ \E q \in Writers : \/ (k = q /\ write'[q].pc \notin {"saved", "failed", "leaked"})
                                  \/ (write'[q].pc = "settle" /\ k \in StaleKeys(write'[q].seen))
            \/ k \in Fresh /\ intake[k].pc = "create"
            \/ \E p \in Purges : \E f \in purge[p].strip : k \in ObjectsOf(purge[p].rows[f])
    BY <1>1 DEF NoOrphans, Seen, Others
  <2>1. CASE k = r
    BY <1>2, <1>6, <2>1 DEF Row
  <2>2. CASE k # r
    <3>1. \/ \E f \in Files : k \in ObjectsOf(file[f])
          \/ \E q \in Writers : \/ (k = q /\ write[q].pc \notin {"saved", "failed", "leaked"})
                                \/ (write[q].pc = "settle" /\ k \in StaleKeys(Seen(q)))
          \/ k \in Fresh /\ intake[k].pc = "create"
          \/ \E p \in Purges : \E f \in purge[p].strip : k \in ObjectsOf(purge[p].rows[f])
      BY DEF ObjectsInv, NoOrphans
    <3>2. \A q \in Writers : write[q].pc = "settle" => q = r
      BY <1>3
    <3> QED BY <1>3, <2>2, <3>1, <3>2
  <2> QED BY <2>1, <2>2
<1> QED BY <1>7, <1>8, <1>9, <1>10 DEF ObjectsInv

\* An overwrite leaves its own content only, and remembers what it replaced.
LEMMA CollapseObjects ==
    ASSUME KeptInv, NewestInv, RemuxTied, BooksInv, ObjectsInv, NewNext, Follow, Others, OfStays, NEW r \in Writers,
           OverwriteCollapse(r)
    PROVE  ObjectsInv'
<1>0. Shapes
  BY DEF KeptInv
<1>1. write[r].pc = "collapse" /\ purge' = purge /\ object' = object /\ write[r].pc \in Busy
  BY DEF OverwriteCollapse, Busy
<1>2. r \in Overwrites /\ write[r].file \in Files /\ r \in Keys /\ write[r].size \in Int
  BY <1>0, <1>1, KeyKinds DEF KeptInv, Progress, ProgressOf, Shapes, Writer
<1>3. \A q \in Writers \ {r} : write[q].pc = "unsent"
  BY <1>1, <1>2 DEF BooksInv, Lively, OverwriteAlone
<1>4. Row(r) # None /\ Row(r).versions = Seen(r).versions
  BY <1>1, <1>2 DEF BooksInv, Lively, OverwriteAlone
<1>t. Tended' = Tended
  BY <1>1, <1>4 DEF OverwriteCollapse, Tended
<1> DEFINE f == write[r].file
           m == Seen(r).current
<1>5. Row(r) = file[f] /\ Row(r) \in FileRow /\ Seen(r) \in FileRow /\ Stored(r) \in Content /\ Stored(r) # None
  BY <1>1, <1>4, RowFacts DEF Seen
<1>6. Shown(Seen(r))
  BY <1>2, <1>5, NoneAssumption DEF ObjectsInv, Replaced, ReplacedOf, Seen
<1>7. /\ m \in Numbers /\ Seen(r).versions[m] \in Content /\ Seen(r).versions[m].key = Seen(r).key
      /\ Seen(r).versions[m] # None
  <2>1. m \in Numbers /\ Seen(r).key \in Keys /\ Seen(r).size \in Int
    BY <1>5 DEF FileRow
  <2>2. Seen(r).versions[m] = [key |-> Seen(r).key, size |-> Seen(r).size]
    BY <1>6 DEF Shown
  <2> QED BY <2>1, <2>2, NoneAssumption DEF Content
<1>8. /\ WriteMove(r, "settle") /\ Kept(r) = [v \in Numbers |-> IF v = m THEN Stored(r) ELSE None]
      /\ file' = [file EXCEPT ![f] = [Row(r) EXCEPT !.key = r, !.size = write[r].size, !.versions = Kept(r)]]
  <2>1. Kept(r) = [v \in Numbers |-> IF v = m THEN Stored(r) ELSE None]
    BY <1>4, <1>7 DEF Kept
  <2> QED BY <1>4, <2>1 DEF OverwriteCollapse, Put
<1>9. /\ \A q \in Writers \ {r} : write'[q] = write[q]
      /\ write'[r].pc = "settle" /\ write'[r].file = f /\ write'[r].seen = write[r].seen
  BY <1>0, <1>8, Moved DEF WriteSteps
<1>10. /\ file'[f] # None /\ \A g \in Files \ {f} : file'[g] = file[g]
       /\ file'[f].versions = [v \in Numbers |-> IF v = m THEN Stored(r) ELSE None]
  <2>1. DOMAIN file = Files
    BY <1>0 DEF Shapes
  <2>2. Kept(r) \in [Numbers -> Content \cup {None}]
    BY <1>5, <1>8
  <2>3. [Row(r) EXCEPT !.key = r, !.size = write[r].size, !.versions = Kept(r)] \in FileRow
    BY <1>2, <1>5, <2>2 DEF FileRow
  <2>4. [Row(r) EXCEPT !.key = r, !.size = write[r].size, !.versions = Kept(r)].versions = Kept(r)
    BY <1>5 DEF FileRow
  <2> QED BY <1>2, <1>8, <2>1, <2>3, <2>4, NoneAssumption
<1>11. Has(file'[f]) = {m} /\ ObjectsOf(file'[f]) = {r} /\ file'[f].versions[m] = Stored(r)
  <2>1. Has(file'[f]) = {m} /\ file'[f].versions[m] = Stored(r)
    BY <1>5, <1>7, <1>10 DEF Has
  <2>2. Stored(r).key = r
    BY DEF Stored
  <2> QED BY <1>10, <2>1, <2>2 DEF ObjectsOf
<1>12. \A v \in Has(Row(r)) : Row(r).versions[v].key \in StaleKeys(Seen(r))
  BY <1>4, <1>7 DEF StaleKeys, Has
<1>13. \A k \in StaleKeys(Seen(r)) : Of(f, k) /\ k # r
  <2>1. \A k \in StaleKeys(Seen(r)) : \E v \in Has(Row(r)) : k = Row(r).versions[v].key
    BY <1>4, <1>7 DEF StaleKeys, Has
  <2>2. \A v \in Has(Row(r)) : Of(f, Row(r).versions[v].key)
    BY <1>2, <1>4, <1>5 DEF ObjectsInv, Owned, OwnedRow
  <2>3. ~Of(f, r)
    BY <1>1, OfNone DEF Before
  <2> HIDE DEF f
  <2> QED BY <2>1, <2>2, <2>3
<1>14. length' \in [Keys -> Int] /\ \A k \in Keys : length'[k] = length[k]
  BY <1>1, SameLengths
<1>15. Owned'
  <2>1. Of(f, r)'
    BY <1>9 DEF Of, Before
  <2>2. ASSUME NEW g \in Files, file'[g] # None, NEW v \in Has(file'[g]), NEW k, k = file'[g].versions[v].key
        PROVE  Of(g, k)'
    <3>1. CASE g = f
      <4>1. k = r
        BY <1>11, <2>2, <3>1 DEF Stored
      <4> QED BY <1>9, <3>1, <4>1 DEF Of, Before
    <3>2. CASE g # f
      BY <1>10, <2>2, <3>2 DEF OfStays, ObjectsInv, Owned, OwnedRow
    <3> QED BY <3>1, <3>2
  <2> QED BY <1>1, <2>2, OwnedLater DEF ObjectsInv
<1>16. OneNumber'
  <2> SUFFICES ASSUME NEW g \in Files, file'[g] # None, NEW u \in Has(file'[g]), NEW v \in Has(file'[g]),
                      file'[g].versions[u].key = file'[g].versions[v].key
      PROVE u = v
    BY DEF OneNumber
  <2> HIDE DEF f
  <2> QED BY <1>10, <1>11 DEF ObjectsInv, OneNumber
<1>17. Stowed'
  <2>1. \A q \in Writers : q \in Keys
    BY KeyKinds
  <2>2. \A g \in Fresh : g \in Keys
    BY KeyKinds
  <2> HIDE DEF f
  <2> QED BY <1>1, <1>t, <1>9, <1>14, <2>1, <2>2 DEF ObjectsInv, Stowed, Others
<1>18. Stripped'
  <2>1. \A p \in Purges, g \in Files : Gone(purge[p].rows[g])' <=> Gone(purge[p].rows[g])
    BY <1>1, <1>t DEF Gone
  <2>2. \A g \in Files : file'[g] = None => file[g] = None
    BY <1>10
  <2> QED BY <1>1, <2>1, <2>2 DEF ObjectsInv, Stripped, StrippedOf
<1>19. Replaced'
  <2> SUFFICES ASSUME NEW o \in Overwrites PROVE ReplacedOf(o)'
    BY DEF Replaced
  <2>1. CASE o = r
    <3>1. Seen(r)' = Seen(r) /\ Row(r)' = file'[f]
      BY <1>9 DEF Seen, Row
    <3>2. \A k \in StaleKeys(Seen(r)) : Of(write[r].file, k)' /\ k # r
      BY <1>9, <1>13, OfHere
    <3>3. Row(r)' # None /\ Has(Row(r)') # {} /\ \A v \in Has(Row(r)') : Row(r)'.versions[v].key = r
      BY <1>10, <1>11, <3>1 DEF Stored
    <3> QED BY <1>6, <2>1, <3>1, <3>2, <3>3 DEF ReplacedOf
  <2>2. CASE o # r
    BY <1>3, <1>9, <2>2, ReplacedStays DEF ObjectsInv, Replaced, Writers
  <2> QED BY <2>1, <2>2
<1>20. Shortened'
  BY <1>14, RemuxedKeys DEF ObjectsInv, Shortened, Others
<1>21. NoOrphans'
  <2> SUFFICES ASSUME NEW k \in Tended
      PROVE \/ \E g \in Files : k \in ObjectsOf(file'[g])
            \/ \E q \in Writers : \/ (k = q /\ write'[q].pc \notin {"saved", "failed", "leaked"})
                                  \/ (write'[q].pc = "settle" /\ k \in StaleKeys(write'[q].seen))
            \/ k \in Fresh /\ intake[k].pc = "create"
            \/ \E p \in Purges : \E g \in purge[p].strip : k \in ObjectsOf(purge[p].rows[g])
    BY <1>1, <1>t DEF NoOrphans, Seen, Others
  <2> HIDE DEF f
  <2>1. CASE k \in ObjectsOf(file[f])
    <3>1. k \in StaleKeys(Seen(r))
      BY <1>4, <1>5, <1>12, <2>1 DEF ObjectsOf
    <3> QED BY <1>9, <3>1 DEF Seen
  <2>2. CASE k \notin ObjectsOf(file[f])
    <3>1. \/ \E g \in Files : k \in ObjectsOf(file[g])
          \/ \E q \in Writers : \/ (k = q /\ write[q].pc \notin {"saved", "failed", "leaked"})
                                \/ (write[q].pc = "settle" /\ k \in StaleKeys(Seen(q)))
          \/ k \in Fresh /\ intake[k].pc = "create"
          \/ \E p \in Purges : \E g \in purge[p].strip : k \in ObjectsOf(purge[p].rows[g])
      BY DEF ObjectsInv, NoOrphans
    <3>2. \A q \in Writers : write[q].pc # "settle"
      BY <1>1, <1>3
    <3> QED BY <1>9, <1>10, <2>2, <3>1, <3>2
  <2> QED BY <2>1, <2>2
<1>22. VersionsStored'
  <2> SUFFICES ASSUME NEW g \in Files, \A p \in Purges : purge[p].rows[g] = None,
                      file'[g] # None, NEW v \in Has(file'[g])
      PROVE LET c == file'[g].versions[v]
            IN  /\ c.key \in Tended
                /\ \/ length'[c.key] = c.size
                   \/ \E q \in Remuxes : remux[q].pc = "update" /\ remux[q].seen.key = c.key
    BY <1>1, <1>t DEF VersionsStored, Exists, Others
  <2>1. CASE g = f
    BY <1>1, <1>2, <1>11, <1>14, <2>1 DEF ObjectsInv, Stowed, Stored
  <2>2. CASE g # f
    <3>1. file'[g] = file[g]
      BY <1>10, <2>2
    <3>2. LET c == file[g].versions[v]
          IN  /\ c.key \in Tended
              /\ \/ length[c.key] = c.size
                 \/ \E q \in Remuxes : remux[q].pc = "update" /\ remux[q].seen.key = c.key
      BY <3>1 DEF ObjectsInv, VersionsStored, Exists
    <3>3. file[g].versions[v].key \in Keys
      BY <3>1, VersionKeys
    <3> QED BY <1>14, <3>1, <3>2, <3>3
  <2> QED BY <2>1, <2>2
<1> QED BY <1>15, <1>16, <1>17, <1>18, <1>19, <1>20, <1>21, <1>22 DEF ObjectsInv

-----------------------------------------------------------------------------
(* The purges *)

\* Rows that go: the versions of the others stay as they are.
LEMMA FewerRows ==
    ASSUME KeptInv, NewestInv, ObjectsInv, OfStays, Others, write' = write, object' = object /\ Tended' = Tended,
           \A p \in Purges : purge'[p].rows = purge[p].rows,
           length' \in [Keys -> Int], \A k \in Keys : length'[k] = length[k],
           \A f \in Files : file'[f] \in {file[f], None}
    PROVE  Owned' /\ OneNumber' /\ Stowed' /\ Shortened' /\ VersionsStored'
<1>1. Owned'
  BY OwnedLater DEF ObjectsInv, Owned, OwnedRow, OfStays
<1>2. OneNumber'
  BY DEF ObjectsInv, OneNumber
<1>3. Stowed'
  BY NameKeys DEF ObjectsInv, Stowed, Others
<1>4. Shortened'
  BY RemuxedKeys DEF ObjectsInv, Shortened, Others
<1>5. VersionsStored'
  <2> SUFFICES ASSUME NEW g \in Files, \A p \in Purges : purge[p].rows[g] = None,
                      file'[g] # None, NEW v \in Has(file'[g])
      PROVE LET c == file'[g].versions[v]
            IN  /\ c.key \in Tended
                /\ \/ length'[c.key] = c.size
                   \/ \E q \in Remuxes : remux[q].pc = "update" /\ remux[q].seen.key = c.key
    BY DEF VersionsStored, Exists, Others
  <2>1. file'[g] = file[g]
    OBVIOUS
  <2>2. file[g].versions[v].key \in Keys
    BY <2>1, VersionKeys
  <2>3. LET c == file[g].versions[v]
        IN  /\ c.key \in Tended
            /\ \/ length[c.key] = c.size
               \/ \E q \in Remuxes : remux[q].pc = "update" /\ remux[q].seen.key = c.key
    BY <2>1 DEF ObjectsInv, VersionsStored, Exists
  <2> QED BY <2>1, <2>2, <2>3
<1> QED BY <1>1, <1>2, <1>3, <1>4, <1>5

\* A purge acts: no writer is about.
LEMMA PurgeActs ==
    ASSUME BooksInv, NEW p \in Purges, PurgeStep(p)
    PROVE  purge[p] \in PurgeRecord /\ Purging /\ \A r \in Writers : write[r].pc = "unsent"
<1>1. purge[p] \in PurgeRecord /\ ListedOf(p, purge[p]) /\ purge \in [Purges -> PurgeRecord]
  BY DEF BooksInv, Listed
<1>2. purge[p].pc # "unsent"
  <2>1. CASE SweepDrop(p)
    BY <1>1, <2>1 DEF SweepDrop, ListedOf
  <2>2. CASE ~SweepDrop(p)
    BY <2>2 DEF PurgeStep, PurgeRead, PurgeRefund, PurgeStrip, HardDrop, EmptyDrop
  <2> QED BY <2>1, <2>2
<1> QED BY <1>1, <1>2 DEF BooksInv, Lively, PurgesAlone, Purging

\* A purge lists the rows it will delete.
LEMMA ReadObjects ==
    ASSUME KeptInv, NewestInv, BooksInv, ObjectsInv, NewNext, Follow, Others, OfStays, write' = write,
           NEW p \in Purges, PurgeRead(p)
    PROVE  ObjectsInv'
<1>1. /\ purge[p] \in PurgeRecord /\ purge \in [Purges -> PurgeRecord]
      /\ \A r \in Writers : write[r].pc = "unsent"
  BY PurgeActs DEF PurgeStep, BooksInv, Listed
<1>2. purge[p].pc = "idle" /\ file' = file /\ object' = object /\ Tended' = Tended
  BY DEF PurgeRead, Tended
<1>3. PICK listed \in Listing(p) \ {{}} : purge' = [purge EXCEPT ![p] =
                    [pc |-> "delete", strip |-> listed, drop |-> listed,
                     rows |-> [f \in Files |-> IF f \in listed THEN file[f] ELSE None]]]
  BY DEF PurgeRead
<1>4. /\ purge'[p].pc = "delete" /\ purge'[p].strip = listed /\ purge'[p].drop = listed
      /\ \A f \in Files : purge'[p].rows[f] = IF f \in listed THEN file[f] ELSE None
      /\ \A q \in Purges \ {p} : purge'[q] = purge[q]
  BY <1>1, <1>3
<1>5. \A f \in listed : f \in Files /\ file[f] # None
  <2>1. CASE p \in HardDeletes
    <3>1. PICK f \in {f \in Targets[p] : Trashed(f)} : listed = {f}
      BY <2>1 DEF Listing
    <3>2. Targets[p] \subseteq Files
      BY VersionsAssumption
    <3> QED BY <3>1, <3>2 DEF Trashed, Exists
  <2>2. CASE p \notin HardDeletes
    <3>1. listed = {f \in Files : Trashed(f)} \/ listed = {f \in Files : Exists(f) /\ file[f].state = "expired"}
      BY <2>2 DEF Listing
    <3> QED BY <2>2, <3>1 DEF Trashed, Exists
  <2> QED BY <2>1, <2>2
<1>6. length' \in [Keys -> Int] /\ \A k \in Keys : length'[k] = length[k]
  BY <1>2, SameLengths
<1>7. (\A f \in Files : purge[p].rows[f] = None) /\ purge[p].strip = {}
  BY <1>2 DEF ObjectsInv, Stripped, StrippedOf
<1>8. Owned'
  <2>1. \A q \in Purges, g \in Files : purge'[q].rows[g] \in {purge[q].rows[g], file[g], None}
    BY <1>4
  <2>2. \A g \in Files : file'[g] # None =>
            \A v \in Has(file'[g]) : \A k : k = file'[g].versions[v].key => Of(g, k)'
    BY <1>2 DEF ObjectsInv, Owned, OwnedRow, OfStays
  <2> QED BY <2>1, <2>2, OwnedLater DEF ObjectsInv
<1>9. OneNumber'
  BY <1>2 DEF ObjectsInv, OneNumber
<1>10. Stowed'
  BY <1>2, <1>6, NameKeys DEF ObjectsInv, Stowed, Others
<1>11. Stripped'
  <2> SUFFICES ASSUME NEW q \in Purges PROVE StrippedOf(q)'
    BY DEF Stripped
  <2>1. CASE q = p
    BY <1>2, <1>4, <1>5, <2>1 DEF StrippedOf
  <2>2. CASE q # p
    <3>1. \A f \in Files : Gone(purge[q].rows[f])' <=> Gone(purge[q].rows[f])
      BY <1>2, <1>4, <2>2 DEF Gone
    <3> QED BY <1>2, <1>4, <2>2, <3>1 DEF ObjectsInv, Stripped, StrippedOf
  <2> QED BY <2>1, <2>2
<1>12. Replaced'
  <2>1. \A o \in Overwrites : write[o].pc = "unsent"
    BY <1>1 DEF Writers
  <2> QED BY <2>1, ReplacedStays DEF ObjectsInv, Replaced
<1>13. Shortened'
  BY <1>6, RemuxedKeys DEF ObjectsInv, Shortened, Others
<1>14. NoOrphans'
  <2>1. \A q \in Purges : \A f \in purge[q].strip : f \in purge'[q].strip /\ purge'[q].rows = purge[q].rows
    BY <1>4, <1>7
  <2> QED BY <1>2, <2>1 DEF ObjectsInv, NoOrphans, Seen, Others
<1>15. VersionsStored'
  <2> SUFFICES ASSUME NEW g \in Files, \A q \in Purges : purge'[q].rows[g] = None,
                      file[g] # None, NEW v \in Has(file[g])
      PROVE LET c == file[g].versions[v]
            IN  /\ c.key \in Tended
                /\ \/ length'[c.key] = c.size
                   \/ \E q \in Remuxes : remux[q].pc = "update" /\ remux[q].seen.key = c.key
    BY <1>2 DEF VersionsStored, Exists, Others
  <2>1. \A q \in Purges : purge[q].rows[g] = None
    BY <1>4, <1>7
  <2>2. file[g].versions[v].key \in Keys
    BY VersionKeys
  <2> QED BY <1>6, <2>1, <2>2 DEF ObjectsInv, VersionsStored, Exists
<1> QED BY <1>8, <1>9, <1>10, <1>11, <1>12, <1>13, <1>14, <1>15 DEF ObjectsInv

\* A purge removes the objects of a file it has listed.
LEMMA StripObjects ==
    ASSUME KeptInv, NewestInv, BooksInv, ObjectsInv, NewNext, Follow, Others, OfStays, write' = write,
           NEW p \in Purges, NEW f \in Files, PurgeStrip(p, f)
    PROVE  ObjectsInv'
<1>1. /\ purge[p] \in PurgeRecord /\ purge \in [Purges -> PurgeRecord]
      /\ \A r \in Writers : write[r].pc = "unsent"
  BY PurgeActs DEF PurgeStep, BooksInv, Listed
<1>2. /\ purge[p].pc = "delete" /\ f \in purge[p].strip /\ file' = file
      /\ object' \subseteq object /\ Tended' = Tended \ ObjectsOf(purge[p].rows[f])
      /\ purge' = [purge EXCEPT ![p] = [purge[p] EXCEPT !.strip = @ \ {f}]]
  BY <1>1, Cleared DEF PurgeStrip
<1>3. /\ purge'[p].pc = "delete" /\ purge'[p].strip = purge[p].strip \ {f} /\ purge'[p].drop = purge[p].drop
      /\ purge'[p].rows = purge[p].rows /\ \A q \in Purges \ {p} : purge'[q] = purge[q]
  BY <1>1, <1>2 DEF PurgeRecord
<1>4. length' \in [Keys -> Int] /\ \A k \in Keys : length'[k] = length[k]
  BY <1>2, SameLengths
<1>5. Owned' /\ OneNumber' /\ Stowed' /\ Shortened' /\ VersionsStored'
  <2>1. PICK keys : keys = ObjectsOf(purge[p].rows[f])
    OBVIOUS
  <2>2. \A k \in keys : Of(f, k)
    BY <2>1, OwnedKeys DEF ObjectsInv
  <2>3. (\A q \in Purges : purge[q].rows[f] = None) => keys \cap ObjectsOf(file[f]) = {}
    BY <2>1 DEF ObjectsOf
  <2>4. \A q \in Purges : purge'[q].rows = purge[q].rows
    BY <1>3
  <2> QED BY <1>2, <1>4, <2>1, <2>2, <2>3, <2>4, RemovedObjects
<1>6. Stripped'
  <2> SUFFICES ASSUME NEW q \in Purges PROVE StrippedOf(q)'
    BY DEF Stripped
  <2>1. \A g \in Files : Gone(purge[q].rows[g]) => Gone(purge[q].rows[g])'
    <3>1. purge'[q].rows = purge[q].rows
      BY <1>3
    <3> QED BY <1>2, <3>1 DEF Gone
  <2>2. StrippedOf(q)
    BY DEF ObjectsInv, Stripped
  <2>3. CASE q = p
    <3>1. Gone(purge[p].rows[f])'
      BY <1>2, <1>3 DEF Gone
    <3>2. \A g \in Files \cap purge[p].drop : (g \notin purge[p].strip \ {f} \/ file[g] = None) => Gone(purge[p].rows[g])'
      BY <1>2, <2>1, <2>2, <2>3, <3>1 DEF StrippedOf
    <3> QED BY <1>2, <1>3, <2>2, <2>3, <3>2 DEF StrippedOf
  <2>4. CASE q # p
    BY <1>2, <1>3, <2>1, <2>2, <2>4 DEF StrippedOf
  <2> QED BY <2>3, <2>4
<1>7. Replaced'
  <2>1. \A o \in Overwrites : write[o].pc = "unsent"
    BY <1>1 DEF Writers
  <2> QED BY <2>1, ReplacedStays DEF ObjectsInv, Replaced
<1>8. NoOrphans'
  <2> SUFFICES ASSUME NEW k \in Tended, k \notin ObjectsOf(purge[p].rows[f])
      PROVE \/ \E g \in Files : k \in ObjectsOf(file[g])
            \/ \E q \in Writers : \/ (k = q /\ write[q].pc \notin {"saved", "failed", "leaked"})
                                  \/ (write[q].pc = "settle" /\ k \in StaleKeys(write[q].seen))
            \/ k \in Fresh /\ intake[k].pc = "create"
            \/ \E q \in Purges : \E g \in purge'[q].strip : k \in ObjectsOf(purge'[q].rows[g])
    BY <1>2 DEF NoOrphans, Seen, Others
  <2>1. ASSUME NEW q \in Purges, NEW g \in purge[q].strip, k \in ObjectsOf(purge[q].rows[g])
        PROVE  g \in purge'[q].strip /\ purge'[q].rows = purge[q].rows
    BY <1>3, <2>1
  <2> QED BY <2>1 DEF ObjectsInv, NoOrphans, Seen
<1> QED BY <1>5, <1>6, <1>7, <1>8 DEF ObjectsInv

\* What a purge has listed is what is there, or it is gone with its objects.
LEMMA ListedObjects ==
    ASSUME BooksInv, ObjectsInv, NEW p \in Purges, purge[p].pc = "delete", NEW f \in purge[p].drop
    PROVE  /\ f \in Files /\ purge[p].rows[f] # None
           /\ file[f] # None => ObjectsOf(file[f]) = ObjectsOf(purge[p].rows[f])
           /\ f \notin purge[p].strip \/ file[f] = None => Gone(purge[p].rows[f])
<1>1. ListedOf(p, purge[p]) /\ purge[p] \in PurgeRecord
  BY DEF BooksInv, Listed
<1>2. f \in Files /\ purge[p].rows[f] # None /\ (file[f] # None => file[f].versions = purge[p].rows[f].versions)
  BY <1>1 DEF ListedOf, PurgeRecord
<1>3. f \notin purge[p].strip \/ file[f] = None => Gone(purge[p].rows[f])
  BY <1>2 DEF ObjectsInv, Stripped, StrippedOf
<1> QED BY <1>2, <1>3, SameRow

\* A purge deletes the rows whose objects it has removed, or refunds.
LEMMA DropObjects ==
    ASSUME KeptInv, NewestInv, BooksInv, ObjectsInv, NewNext, Follow, Others, OfStays, write' = write, object' = object /\ Tended' = Tended,
           NEW p \in Purges, PurgeStep(p), NEW q \in PurgeRecord, purge' = [purge EXCEPT ![p] = q],
           NEW gone \in SUBSET purge[p].drop, file' = Deleted(gone), q.rows = purge[p].rows,
           gone \cap purge[p].strip = {}, gone # {} => purge[p].pc = "delete",
           q.pc \notin {"unsent", "idle"},
           \/ q.pc # "delete" /\ q.strip = {} /\ (purge[p].strip # {} => purge[p].pc = "delete")
           \/ q.pc = "delete" /\ purge[p].pc = "delete" /\ q.strip = purge[p].strip /\ q.drop = purge[p].drop \ gone
    PROVE  ObjectsInv'
<1>1. /\ purge[p] \in PurgeRecord /\ purge \in [Purges -> PurgeRecord] /\ Purging
      /\ \A r \in Writers : write[r].pc = "unsent"
  BY PurgeActs DEF BooksInv, Listed
<1>2. purge'[p] = q /\ \A o \in Purges \ {p} : purge'[o] = purge[o]
  BY <1>1
<1>3. \A o \in Purges : purge'[o].rows = purge[o].rows
  BY <1>2
<1>4. length' \in [Keys -> Int] /\ \A k \in Keys : length'[k] = length[k]
  BY SameLengths
<1>5. \A f \in Files : file'[f] = IF f \in gone THEN None ELSE file[f]
  BY DEF Deleted
<1>6. \A f \in gone : f \in Files /\ Gone(purge[p].rows[f]) /\ (file[f] # None => Gone(file[f]))
  BY ListedObjects DEF Gone
<1>7. Owned' /\ OneNumber' /\ Stowed' /\ Shortened' /\ VersionsStored'
  BY <1>3, <1>4, <1>5, FewerRows
<1>8. Stripped'
  <2> SUFFICES ASSUME NEW o \in Purges PROVE StrippedOf(o)'
    BY DEF Stripped
  <2>1. StrippedOf(o) /\ \A f \in Files : Gone(purge[o].rows[f])' <=> Gone(purge[o].rows[f])
    BY <1>3 DEF ObjectsInv, Stripped, Gone
  <2>2. CASE o = p
    <3>1. CASE q.pc # "delete"
      BY <1>2, <2>2, <3>1 DEF StrippedOf
    <3>2. CASE q.pc = "delete"
      <4>1. \A f \in purge[p].drop \ gone : f \in Files => file'[f] = file[f]
        BY <1>5
      <4>2. purge[p].strip \subseteq purge[p].drop \ gone
        BY <2>1, <2>2, <3>2 DEF StrippedOf
      <4> QED BY <1>2, <2>1, <2>2, <3>2, <4>1, <4>2 DEF StrippedOf
    <3> QED BY <3>1, <3>2
  <2>3. CASE o # p
    <3>1. ASSUME NEW f \in Files \cap purge[o].drop, purge[o].pc = "delete", f \in gone
          PROVE  Gone(purge[o].rows[f])
      <4>1. CASE file[f] = None
        BY <3>1, <4>1, ListedObjects
      <4>2. CASE file[f] # None
        <5>1. ObjectsOf(file[f]) = ObjectsOf(purge[o].rows[f])
          BY <3>1, <4>2, ListedObjects
        <5> QED BY <1>6, <3>1, <4>2, <5>1 DEF Gone
      <4> QED BY <4>1, <4>2
    <3> QED BY <1>2, <1>5, <2>1, <2>3, <3>1 DEF StrippedOf
  <2> QED BY <2>2, <2>3
<1>9. Replaced'
  <2>1. \A o \in Overwrites : write[o].pc = "unsent"
    BY <1>1 DEF Writers
  <2> QED BY <2>1, ReplacedStays DEF ObjectsInv, Replaced
<1>10. NoOrphans'
  <2> SUFFICES ASSUME NEW k \in Tended
      PROVE \/ \E f \in Files : k \in ObjectsOf(file'[f])
            \/ \E r \in Writers : \/ (k = r /\ write[r].pc \notin {"saved", "failed", "leaked"})
                                  \/ (write[r].pc = "settle" /\ k \in StaleKeys(Seen(r)))
            \/ k \in Fresh /\ intake[k].pc = "create"
            \/ \E o \in Purges : \E f \in purge'[o].strip : k \in ObjectsOf(purge'[o].rows[f])
    BY DEF NoOrphans, Seen, Others
  <2>1. ASSUME NEW f \in Files, k \in ObjectsOf(file[f]) PROVE k \in ObjectsOf(file'[f])
    <3>1. file[f] # None
      BY <2>1 DEF ObjectsOf
    <3>2. f \notin gone
      BY <1>6, <2>1, <3>1 DEF Gone
    <3> QED BY <1>5, <2>1, <3>2
  <2>2. ASSUME NEW f \in purge[p].strip, k \in ObjectsOf(purge[p].rows[f]), q.strip # purge[p].strip
        PROVE  f \in Files /\ k \in ObjectsOf(file[f])
    <3>1. purge[p].pc = "delete"
      BY <2>2
    <3>2. f \in purge[p].drop
      BY <2>2, <3>1 DEF ObjectsInv, Stripped, StrippedOf
    <3> QED BY <2>2, <3>1, <3>2, ListedObjects DEF Gone
  <2>3. \/ \E f \in Files : k \in ObjectsOf(file[f])
        \/ \E r \in Writers : \/ (k = r /\ write[r].pc \notin {"saved", "failed", "leaked"})
                              \/ (write[r].pc = "settle" /\ k \in StaleKeys(Seen(r)))
        \/ k \in Fresh /\ intake[k].pc = "create"
        \/ \E o \in Purges : \E f \in purge[o].strip : k \in ObjectsOf(purge[o].rows[f])
    BY DEF ObjectsInv, NoOrphans
  <2> QED BY <1>2, <1>3, <2>1, <2>2, <2>3
<1> QED BY <1>7, <1>8, <1>9, <1>10 DEF ObjectsInv

\* Every step of a purge
LEMMA PurgeObjects ==
    ASSUME KeptInv, NewestInv, BooksInv, ObjectsInv, NewNext, Follow, Others, OfStays, write' = write,
           NEW p \in Purges, PurgeStep(p)
    PROVE  ObjectsInv'
<1>1. /\ purge[p] \in PurgeRecord /\ purge \in [Purges -> PurgeRecord] /\ ListedOf(p, purge[p])
      /\ StrippedOf(p) /\ Shapes
  BY PurgeActs DEF BooksInv, Listed, ObjectsInv, Stripped, KeptInv
<1>2. file \in [Files -> FileRow \cup {None}]
  BY <1>1 DEF Shapes
<1>3. file = Deleted({})
  BY <1>2 DEF Deleted
<1>4. CASE PurgeRead(p)
  BY <1>4, ReadObjects
<1>5. CASE \E f \in Files : PurgeStrip(p, f)
  BY <1>5, StripObjects
<1>6. CASE PurgeRefund(p)
  <2>q. PICK q : q = [purge[p] EXCEPT !.pc = "done"]
    OBVIOUS
  <2>1. /\ purge[p].pc = "refund" /\ purge' = [purge EXCEPT ![p] = q]
        /\ file' = file /\ object' = object /\ Tended' = Tended
    BY <1>1, <1>6, <2>q DEF PurgeRefund, Tended
  <2>2. q \in PurgeRecord /\ q.pc = "done" /\ q.rows = purge[p].rows /\ q.strip = purge[p].strip
    BY <1>1, <2>q DEF PurgeRecord, PurgeSteps
  <2>3. purge[p].strip = {}
    BY <1>1, <2>1 DEF StrippedOf
  <2>4. PICK gone \in SUBSET purge[p].drop : gone = {}
    OBVIOUS
  <2> QED BY <1>3, <2>1, <2>2, <2>3, <2>4, DropObjects
<1>7. CASE HardDrop(p) \/ EmptyDrop(p)
  <2> DEFINE step == IF EmptyDrop(p) \/ \A f \in purge[p].drop : Exists(f) THEN "refund" ELSE "done"
  <2>q. PICK q : q = [purge[p] EXCEPT !.pc = step, !.drop = {}]
    OBVIOUS
  <2>1. /\ purge[p].pc = "delete" /\ purge' = [purge EXCEPT ![p] = q] /\ purge[p].strip = {}
        /\ file' = Deleted(purge[p].drop) /\ object' = object /\ Tended' = Tended
    <3>1. ~(p \in HardDeletes /\ p \in Empties)
      BY VersionsAssumption
    <3> QED BY <1>1, <1>7, <2>q, <3>1 DEF HardDrop, EmptyDrop, Tended
  <2>2. step \in {"refund", "done"}
    OBVIOUS
  <2> HIDE DEF step
  <2>3. q \in PurgeRecord /\ q.pc \in {"refund", "done"} /\ q.rows = purge[p].rows /\ q.strip = purge[p].strip
    BY <1>1, <2>q, <2>2 DEF PurgeRecord, PurgeSteps
  <2>4. PICK gone \in SUBSET purge[p].drop : gone = purge[p].drop
    OBVIOUS
  <2> QED BY <2>1, <2>3, <2>4, DropObjects
<1>8. CASE SweepDrop(p)
  <2>1. PICK f \in purge[p].drop \ purge[p].strip :
            /\ file' = Deleted({f})
            /\ purge' = [purge EXCEPT ![p].drop = @ \ {f}, ![p].pc = IF purge[p].drop = {f} THEN "refund" ELSE @]
    BY <1>8 DEF SweepDrop
  <2>2. object' = object /\ Tended' = Tended
    BY <1>8 DEF SweepDrop, Tended
  <2> DEFINE step == IF purge[p].drop = {f} THEN "refund" ELSE purge[p].pc
  <2>q. PICK q : q = [purge[p] EXCEPT !.drop = @ \ {f}, !.pc = step]
    OBVIOUS
  <2>3. purge' = [purge EXCEPT ![p] = q] /\ f \in purge[p].drop
    BY <1>1, <2>1, <2>q DEF PurgeRecord
  <2>4. purge[p].pc = "delete"
    BY <1>1, <2>3 DEF ListedOf
  <2>5. q \in PurgeRecord /\ q.pc = step /\ q.rows = purge[p].rows /\ q.drop = purge[p].drop \ {f}
        /\ q.strip = purge[p].strip
    BY <1>1, <2>q, <2>4 DEF PurgeRecord, PurgeSteps
  <2>6. \/ step = "delete"
        \/ step = "refund" /\ purge[p].drop = {f}
    BY <2>4
  <2> HIDE DEF step
  <2>7. step = "refund" => purge[p].strip = {}
    BY <1>1, <2>1, <2>4, <2>6 DEF StrippedOf
  <2>8. PICK gone \in SUBSET purge[p].drop : gone = {f}
    BY <2>3
  <2>9. gone \cap purge[p].strip = {}
    BY <2>1, <2>8
  <2> QED BY <2>1, <2>2, <2>3, <2>4, <2>5, <2>6, <2>7, <2>8, <2>9, DropObjects
<1> QED BY <1>4, <1>5, <1>6, <1>7, <1>8 DEF PurgeStep

-----------------------------------------------------------------------------
(* The trash and the requests that make files *)

\* Trashing and restoring changes no version and no object.
LEMMA TrashObjects ==
    ASSUME KeptInv, ObjectsInv, NewNext, Follow, Others,
           (\E f \in Files : Trash(f) \/ Restore(f) \/ Expire(f)) \/ FolderTrash
    PROVE  ObjectsInv'
<1>1. Dims /\ Persist /\ write' = write
  BY GoneOrSame, TrashPersists DEF KeptInv
<1>2. object' = object /\ Tended' = Tended /\ purge' = purge
  BY DEF Trash, Restore, Expire, SetState, FolderTrash, Tended
<1>3. length' = length
  BY <1>2, SameLengths DEF ObjectsInv, Shortened
<1>4. \A r \in Writers : write[r].pc = "settle" => write[r].file \in Files
  BY DEF KeptInv, Progress, ProgressOf
<1> QED BY <1>1, <1>2, <1>3, <1>4, StillObjects DEF Others

\* The row of a fresh file
LEMMA NewRowFacts ==
    ASSUME NEW f \in Fresh, intake[f].size \in Int
    PROVE  /\ NewRow(f) # None /\ Has(NewRow(f)) = {1} /\ ObjectsOf(NewRow(f)) = {f}
           /\ NewRow(f).versions[1] = [key |-> f, size |-> intake[f].size]
<1> DEFINE c == [key |-> f, size |-> intake[f].size]
<1>1. f \in Keys /\ 1 \in Numbers
  BY KeyKinds, NumbersFinite
<1>2. c \in Content /\ c # None /\ c.key = f
  BY <1>1, NoneAssumption DEF Content
<1>3. NewRow(f).versions = [v \in Numbers |-> IF v = 1 THEN c ELSE None]
  BY DEF NewRow
<1>4. NewRow(f) # None
  <2>1. [v \in Numbers |-> IF v = 1 THEN c ELSE None] \in [Numbers -> Content \cup {None}]
    BY <1>2
  <2>2. NewRow(f) \in FileRow
    BY <1>1, <2>1 DEF NewRow, FileRow
  <2> QED BY <2>2, NoneAssumption
<1> HIDE DEF c
<1>5. Has(NewRow(f)) = {1} /\ NewRow(f).versions[1] = c
  BY <1>1, <1>2, <1>3 DEF Has
<1>6. ObjectsOf(NewRow(f)) = {f}
  BY <1>2, <1>4, <1>5 DEF ObjectsOf
<1> QED BY <1>4, <1>5, <1>6 DEF c

\* A fresh file shows the object stored for it.
LEMMA CreatesObjects ==
    ASSUME KeptInv, NewestInv, BooksInv, ObjectsInv, NewNext, Follow, OfStays, remux' = remux, NEW f \in Fresh, Creates(f)
    PROVE  ObjectsInv'
<1>0. Shapes
  BY DEF KeptInv
<1>1. /\ intake[f].pc = "create" /\ file' = [file EXCEPT ![f] = NewRow(f)] /\ IntakeMove(f, "made")
      /\ object' = object /\ Tended' = Tended /\ write' = write /\ purge' = purge
  BY DEF Creates, IntakeAt, Tended
<1>2. intake'[f].pc = "made" /\ \A g \in Fresh \ {f} : intake'[g] = intake[g]
  BY <1>0, <1>1, IntakeMoves DEF IntakeSteps
<1>3. /\ file[f] = None /\ f \in Files /\ f \in Keys /\ f \in Tended /\ length[f] = intake[f].size
      /\ \A r \in Writers : write[r].file # f
  BY <1>1, VersionsAssumption, KeyKinds DEF KeptInv, FreshOnce, ObjectsInv, Stowed
<1>4. /\ file'[f] # None /\ Has(file'[f]) = {1} /\ ObjectsOf(file'[f]) = {f}
      /\ file'[f].versions[1] = [key |-> f, size |-> intake[f].size]
      /\ \A g \in Files \ {f} : file'[g] = file[g]
  <2>1. intake[f].size \in Int /\ file'[f] = NewRow(f) /\ \A g \in Files \ {f} : file'[g] = file[g]
    BY <1>0, <1>1, <1>3 DEF Shapes
  <2> QED BY <2>1, NewRowFacts
<1>5. length' \in [Keys -> Int] /\ \A k \in Keys : length'[k] = length[k]
  BY <1>1, SameLengths
<1>6. Owned'
  <2>1. ASSUME NEW g \in Files, file'[g] # None, NEW v \in Has(file'[g]), NEW k, k = file'[g].versions[v].key
        PROVE  Of(g, k)'
    <3>1. CASE g = f
      <4>1. k = f
        BY <1>4, <2>1, <3>1
      <4> QED BY <1>2, <3>1, <4>1 DEF Of
    <3>2. CASE g # f
      BY <1>4, <2>1, <3>2 DEF OfStays, ObjectsInv, Owned, OwnedRow
    <3> QED BY <3>1, <3>2
  <2> QED BY <1>1, <2>1, OwnedLater DEF ObjectsInv
<1>7. OneNumber'
  BY <1>4 DEF ObjectsInv, OneNumber
<1>8. Stowed'
  BY <1>1, <1>2, <1>5, NameKeys DEF ObjectsInv, Stowed, Bare
<1>9. Stripped'
  <2>1. \A p \in Purges, g \in Files : Gone(purge[p].rows[g])' <=> Gone(purge[p].rows[g])
    BY <1>1 DEF Gone
  <2>2. \A g \in Files : file'[g] = None => file[g] = None
    BY <1>4
  <2> QED BY <1>1, <2>1, <2>2 DEF ObjectsInv, Stripped, StrippedOf
<1>10. Replaced'
  <2> SUFFICES ASSUME NEW o \in Overwrites PROVE ReplacedOf(o)'
    BY DEF Replaced
  <2>1. write[o].pc = "settle" => write[o].file \in Files \ {f}
    BY <1>3 DEF KeptInv, Progress, ProgressOf, Writers
  <2> QED BY <1>1, <1>4, <2>1, ReplacedStays DEF ObjectsInv, Replaced, Row
<1>11. Shortened'
  BY <1>5, RemuxedKeys DEF ObjectsInv, Shortened
<1>12. NoOrphans'
  <2> SUFFICES ASSUME NEW k \in Tended
      PROVE \/ \E g \in Files : k \in ObjectsOf(file'[g])
            \/ \E q \in Writers : \/ (k = q /\ write[q].pc \notin {"saved", "failed", "leaked"})
                                  \/ (write[q].pc = "settle" /\ k \in StaleKeys(Seen(q)))
            \/ k \in Fresh /\ intake'[k].pc = "create"
            \/ \E p \in Purges : \E g \in purge[p].strip : k \in ObjectsOf(purge[p].rows[g])
    BY <1>1 DEF NoOrphans, Seen
  <2>1. CASE k = f
    BY <1>3, <1>4, <2>1
  <2>2. CASE k # f
    <3>1. ObjectsOf(file[f]) = {}
      BY <1>3 DEF ObjectsOf
    <3> QED BY <1>2, <1>4, <2>2, <3>1 DEF ObjectsInv, NoOrphans
  <2> QED BY <2>1, <2>2
<1>13. VersionsStored'
  <2> SUFFICES ASSUME NEW g \in Files, \A p \in Purges : purge[p].rows[g] = None,
                      file'[g] # None, NEW v \in Has(file'[g])
      PROVE LET c == file'[g].versions[v]
            IN  /\ c.key \in Tended
                /\ \/ length'[c.key] = c.size
                   \/ \E q \in Remuxes : remux[q].pc = "update" /\ remux[q].seen.key = c.key
    BY <1>1 DEF VersionsStored, Exists
  <2>1. CASE g = f
    BY <1>3, <1>4, <1>5, <2>1
  <2>2. CASE g # f
    <3>1. file'[g] = file[g]
      BY <1>4, <2>2
    <3>2. file[g].versions[v].key \in Keys
      BY <3>1, VersionKeys
    <3> QED BY <1>5, <3>1, <3>2 DEF ObjectsInv, VersionsStored, Exists
  <2> QED BY <2>1, <2>2
<1> QED BY <1>6, <1>7, <1>8, <1>9, <1>10, <1>11, <1>12, <1>13 DEF ObjectsInv

\* Every step of a request that makes a file
LEMMA IntakeObjects ==
    ASSUME KeptInv, NewestInv, RemuxTied, BooksInv, ObjectsInv, NewNext, Follow, OfStays, remux' = remux,
           NEW f \in Files, IntakeStep(f)
    PROVE  ObjectsInv'
<1>0. Shapes
  BY DEF KeptInv
<1>1. CASE ~Writes(f)
  <2>1. /\ UNCHANGED vars /\ f \in Fresh /\ \A g \in Fresh \ {f} : intake'[g] = intake[g]
        /\ intake[f].pc \in {"idle", "fetch", "check"} /\ intake'[f].pc \in {"fetch", "check", "reserve", "refused"}
    BY <1>0, <1>1, ArrivalBooks
  <2>2. file' = file /\ object' = object /\ Tended' = Tended /\ write' = write /\ purge' = purge /\ f \notin object /\ f \notin Tended
    BY <2>1 DEF vars, ObjectsInv, Stowed, Bare, Tended
  <2>3. length' \in [Keys -> Int] /\ \A k \in Keys : length'[k] = length[k]
    BY <2>2, SameLengths
  <2> QED BY <2>1, <2>2, <2>3, FreshObject
<1>2. CASE Reserves(f)
  <2>1. /\ f \in Fresh /\ intake[f].pc = "reserve" /\ file' = file /\ write' = write /\ purge' = purge /\ object' = object /\ Tended' = Tended
        /\ IntakeMove(f, "store") \/ IntakeMove(f, "refused")
    BY <1>2 DEF Reserves, IntakeAt, Tended
  <2>2. intake'[f].pc \in {"store", "refused"} /\ \A g \in Fresh \ {f} : intake'[g] = intake[g]
    BY <1>0, <2>1, IntakeMoves DEF IntakeSteps
  <2>3. /\ f \notin object /\ f \notin Tended
        /\ length' \in [Keys -> Int] /\ \A k \in Keys : length'[k] = length[k]
    BY <2>1, SameLengths DEF ObjectsInv, Stowed, Bare, Tended
  <2> QED BY <2>1, <2>2, <2>3, FreshObject
<1>3. CASE Stores(f)
  <2>1. /\ f \in Fresh /\ intake[f].pc = "store" /\ file' = file /\ write' = write /\ purge' = purge
        /\ object' = object \cup {f} /\ Tended' = Tended \cup {f} /\ IntakeMove(f, "create")
    BY <1>3 DEF Stores, StoreObject, IntakeAt, Tended
  <2>2. /\ intake'[f].pc = "create" /\ intake'[f].size = intake[f].size /\ \A g \in Fresh \ {f} : intake'[g] = intake[g]
    BY <1>0, <2>1, IntakeMoves DEF IntakeSteps
  <2>3. f \notin object /\ f \in Keys
    BY <2>1, KeyKinds DEF ObjectsInv, Stowed, Bare
  <2>4. f \in NewKeys /\ \A k : k # f => k \notin NewKeys
    BY <2>1, <2>3 DEF NewKeys
  <2>5. /\ length' \in [Keys -> Int] /\ \A k \in Keys : k # f => length'[k] = length[k]
        /\ length'[f] = intake[f].size
    BY <2>1, <2>3, <2>4, Lengths DEF ObjectsInv, SizeOf
  <2> QED BY <2>1, <2>2, <2>5, FreshObject DEF Bare
<1>4. CASE Creates(f)
  BY <1>4, CreatesObjects DEF Creates, IntakeAt
<1>5. CASE Undoes(f)
  <2>1. /\ f \in Fresh /\ intake[f].pc \in {"store", "create"} /\ file' = file /\ write' = write /\ purge' = purge
        /\ object' \subseteq object /\ object' \ {f} = object \ {f} /\ Tended' = Tended \ {f} /\ IntakeMove(f, "refused")
    BY <1>5, Cleared DEF Undoes, Undone, IntakeAt
  <2>2. /\ intake'[f].pc = "refused" /\ \A g \in Fresh \ {f} : intake'[g] = intake[g]
    BY <1>0, <2>1, IntakeMoves DEF IntakeSteps
  <2>3. length' \in [Keys -> Int] /\ \A k \in Keys : length'[k] = length[k]
    BY <2>1, SameLengths
  <2> QED BY <2>1, <2>2, <2>3, FreshObject DEF Bare
<1> QED BY <1>1, <1>2, <1>3, <1>4, <1>5 DEF Writes

-----------------------------------------------------------------------------
(* The remuxes, the workers, and all steps together *)

\* What is said of rows and objects stays while those do.
LEMMA SameShown ==
    ASSUME Owned, OneNumber, Stripped, Replaced, NoOrphans, UNCHANGED <<file, write, purge, intake>>, Tended' = Tended
    PROVE  Owned' /\ OneNumber' /\ Stripped' /\ Replaced' /\ NoOrphans'
<1>1. OfStays /\ \A g \in Files : OwnedRow(g, file[g])
  BY DEF OfStays, Of, Owned
<1>2. Owned'
  BY <1>1, OwnedLater DEF OwnedRow, OfStays
<1>3. OneNumber'
  BY DEF OneNumber
<1>4. Stripped'
  BY DEF Stripped, StrippedOf, Gone
<1>5. Replaced'
  BY <1>1, ReplacedStays DEF Replaced, Row
<1>6. NoOrphans'
  BY DEF NoOrphans, Seen
<1> QED BY <1>2, <1>3, <1>4, <1>5, <1>6

\* A remux that begins, gives up or ends
LEMMA RemuxAsideObjects ==
    ASSUME KeptInv, ObjectsInv, NEW r \in Remuxes,
           UNCHANGED <<file, object, left, length, write, purge, intake>>, remux[r].pc # "update", remux'[r].pc # "update",
           \A q \in Remuxes \ {r} : remux'[q] = remux[q]
    PROVE  ObjectsInv'
<1>1. \A w \in Writers : write[w].pc = "settle" => write[w].file \in Files
  BY DEF KeptInv, Progress, ProgressOf
<1>2. Dims /\ Persist
  BY DEF Dims, Persist
<1>3. \A q \in Remuxes : /\ remux'[q].pc = "update" <=> remux[q].pc = "update"
                         /\ remux[q].pc = "update" => remux'[q].seen = remux[q].seen
  OBVIOUS
<1>4. object' = object /\ Tended' = Tended
  BY DEF Tended
<1> QED BY <1>1, <1>2, <1>3, <1>4, StillObjects

\* A remux works on the object of one file, and nobody else does.
LEMMA RemuxOnly ==
    ASSUME KeptInv, NewestInv, RemuxTied, BooksInv, Owned, NEW r \in Remuxes, remux[r].pc \in {"read", "held", "update"},
           NEW q \in Remuxes, remux[q].pc \in {"read", "held", "update"}, remux[q].seen.key = remux[r].seen.key
    PROVE  q = r
<1>1. Of(remux[r].row, remux[r].seen.key) /\ Of(remux[q].row, remux[q].seen.key)
  BY RemuxKey
<1>2. remux[r].row = remux[q].row
  BY <1>1, OfOne
<1> QED BY <1>2 DEF BooksInv, Lively, RemuxApart

\* A remux rewrites the object, which is there.
LEMMA RewriteObjects ==
    ASSUME KeptInv, NewestInv, RemuxTied, BooksInv, ObjectsInv, NEW r \in Remuxes, RemuxPut(r), ~RemuxEnd(r)
    PROVE  ObjectsInv'
<1> DEFINE f == remux[r].row
           k == remux[r].seen.key
           m == file[f].current
<1>0. /\ Shapes /\ remux[r].pc = "held" /\ UNCHANGED <<file, write, purge, intake>>
      /\ object' = object \cup {k} /\ left' = left \cup ({k} \ object)
      /\ RemuxTo(r, "update") /\ length' = [length EXCEPT ![k] = Shrunk(r)]
  BY DEF KeptInv, RemuxPut
<1>1. /\ remux'[r].pc = "update" /\ remux'[r].seen = remux[r].seen
      /\ \A q \in Remuxes \ {r} : remux'[q] = remux[q]
  BY <1>0, RemuxMoved
<1>2. /\ f \in Files /\ file[f] # None /\ ~Purging /\ k \in Keys /\ Of(f, k)
      /\ m \in Has(file[f]) /\ file[f].versions[m] = [key |-> k, size |-> remux[r].seen.size]
  BY <1>0, RemuxKey DEF ObjectsInv
<1>3. \A q \in Remuxes \ {r} : remux[q].pc = "update" => remux[q].seen.key # k /\ remux[q].seen.key \in Keys
  BY <1>0, RemuxOnly, RemuxKey DEF ObjectsInv
<1>n. remux[r].seen.size \in Int
  <2>1. file[f] \in FileRow
    BY <1>0, <1>2 DEF Shapes
  <2>2. m \in Numbers /\ file[f].versions[m] \in Content \cup {None} /\ file[f].versions[m] # None
    BY <1>2, <2>1 DEF Has, FileRow
  <2>3. file[f].versions[m].size \in Int
    BY <2>2 DEF Content
  <2> QED BY <1>2, <2>3
<1>4. \A g \in Keys : length'[g] = IF g = k THEN remux[r].seen.size - 1 ELSE length[g]
  BY <1>0 DEF ObjectsInv, Shortened, Shrunk
<1>5. length' \in [Keys -> Int]
  BY <1>0, <1>2, <1>n DEF ObjectsInv, Shortened, Shrunk
<1>6. k \in Tended
  <2>1. \A p \in Purges : purge[p].rows[f] = None
    BY <1>2, NoneListed DEF ObjectsInv
  <2>2. LET c == file[f].versions[m] IN c.key \in Tended
    BY <1>2, <2>1 DEF ObjectsInv, VersionsStored, Exists
  <2> HIDE DEF f, m
  <2> QED BY <1>2, <2>2
<1>t. object' = object /\ Tended' = Tended
  BY <1>0, <1>6 DEF Tended
<1>7. Owned' /\ OneNumber' /\ Stripped' /\ Replaced' /\ NoOrphans'
  BY <1>0, <1>t, SameShown DEF ObjectsInv
<1>8. Stowed'
  <2>1. \A q \in Writers : q \in Keys /\ (write[q].pc \in Before => q # k)
    BY <1>2, KeyKinds, OfNone
  <2>2. \A g \in Fresh : g \in Keys /\ (intake[g].pc # "made" => g # k)
    BY <1>2, KeyKinds, OfNone
  <2> HIDE DEF f, k, m
  <2> QED BY <1>0, <1>t, <1>4, <2>1, <2>2 DEF ObjectsInv, Stowed, Before
<1>9. Shortened'
  <2>1. length'[remux'[r].seen.key] = remux'[r].seen.size - 1
    BY <1>1, <1>2, <1>4
  <2>2. ASSUME NEW q \in Remuxes \ {r}, remux'[q].pc = "update" PROVE length'[remux'[q].seen.key] = remux'[q].seen.size - 1
    <3>1. remux'[q] = remux[q] /\ remux[q].seen.key # k /\ remux[q].seen.key \in Keys
      BY <1>1, <1>3, <2>2
    <3> HIDE DEF f, k, m
    <3> QED BY <1>4, <2>2, <3>1 DEF ObjectsInv, Shortened
  <2> QED BY <1>5, <2>1, <2>2 DEF Shortened
<1>10. VersionsStored'
  <2> SUFFICES ASSUME NEW g \in Files, \A p \in Purges : purge[p].rows[g] = None,
                      file[g] # None, NEW v \in Has(file[g])
      PROVE LET c == file[g].versions[v]
            IN  /\ c.key \in Tended
                /\ \/ length'[c.key] = c.size
                   \/ \E q \in Remuxes : remux'[q].pc = "update" /\ remux'[q].seen.key = c.key
    BY <1>0, <1>t DEF VersionsStored, Exists
  <2>1. file[g].versions[v].key \in Keys
    BY VersionKeys
  <2>2. LET c == file[g].versions[v]
        IN  /\ c.key \in Tended
            /\ \/ length[c.key] = c.size
               \/ \E q \in Remuxes : remux[q].pc = "update" /\ remux[q].seen.key = c.key
    BY DEF ObjectsInv, VersionsStored, Exists
  <2>3. CASE file[g].versions[v].key = k
    BY <1>1, <2>2, <2>3
  <2>4. CASE file[g].versions[v].key # k
    <3>1. \A q \in Remuxes : remux[q].pc = "update" => remux'[q] = remux[q]
      BY <1>0, <1>1
    <3> HIDE DEF f, k, m
    <3> QED BY <1>4, <2>1, <2>2, <2>4, <3>1
  <2> QED BY <2>3, <2>4
<1> QED BY <1>7, <1>8, <1>9, <1>10 DEF ObjectsInv

\* A remux settles the size in the row.
LEMMA SettledObjects ==
    ASSUME KeptInv, Shapes', NewestInv, RemuxTied, BooksInv, ObjectsInv, NEW r \in Remuxes, RemuxUpdate(r)
    PROVE  ObjectsInv'
<1>0. /\ Shapes /\ remux[r].pc = "update"
      /\ object' = object /\ Tended' = Tended /\ UNCHANGED <<length, write, purge, intake>>
  BY DEF KeptInv, RemuxUpdate, dataVars, Tended
<1> DEFINE f == remux[r].row
           k == remux[r].seen.key
           m == remux[r].seen.current
<1>1. /\ f \in Files /\ file[f] # None /\ ~Purging /\ k \in Keys /\ Of(f, k) /\ k = file[f].key
  BY <1>0, RemuxKey DEF ObjectsInv
<1>2. Matches(remux[r].seen, file[remux[r].row])
  BY <1>0, <1>1 DEF BooksInv, Lively, Alive
<1>3. /\ m \in Numbers
      /\ \A g \in Files \ {f} : file'[g] = file[g]
      /\ file[f].versions[m] = [key |-> k, size |-> remux[r].seen.size]
      /\ file'[f].versions[m] = [key |-> k, size |-> remux[r].seen.size - 1]
      /\ \A u \in Numbers \ {m} : file'[f].versions[u] = file[f].versions[u]
      /\ file'[f] # None /\ RemuxTo(r, "charge") /\ remux[r].seen.size \in Int
  BY <1>1, <1>2, RemuxRow
<1>4. remux'[r].pc = "charge" /\ \A q \in Remuxes \ {r} : remux'[q] = remux[q]
  BY <1>0, <1>3, RemuxMoved
<1> HIDE DEF f, k, m
<1>5. /\ file[f].versions[m] # None /\ file'[f].versions[m] # None
      /\ Has(file'[f]) = Has(file[f]) /\ m \in Has(file[f])
      /\ \A v \in Has(file[f]) : file'[f].versions[v].key = file[f].versions[v].key
  <2>1. file[f].versions[m] \in Content /\ file'[f].versions[m] \in Content
    BY <1>1, <1>3 DEF Content
  <2>2. file[f].versions[m] # None /\ file'[f].versions[m] # None
    BY <2>1, NoneAssumption
  <2>3. Has(file'[f]) = Has(file[f]) /\ m \in Has(file[f])
    BY <1>3, <2>2 DEF Has
  <2> QED BY <1>3, <2>2, <2>3 DEF Has
<1>6. \A g \in Files : /\ file'[g] = None <=> file[g] = None
                       /\ ObjectsOf(file'[g]) = ObjectsOf(file[g])
  <2>1. ObjectsOf(file'[f]) = ObjectsOf(file[f])
    BY <1>1, <1>3, <1>5 DEF ObjectsOf
  <2> QED BY <1>1, <1>3, <2>1
<1>7. \A g \in Files : file'[g] # None => /\ Has(file'[g]) = Has(file[g])
                                          /\ \A v \in Has(file[g]) : file'[g].versions[v].key = file[g].versions[v].key
  BY <1>3, <1>5
<1>8. OfStays
  BY <1>0 DEF OfStays, Of
<1>9. Owned'
  BY <1>0, <1>6, <1>7, <1>8, OwnedLater DEF ObjectsInv, Owned, OwnedRow, OfStays
<1>10. OneNumber'
  BY <1>6, <1>7 DEF ObjectsInv, OneNumber
<1>11. Stowed'
  BY <1>0 DEF ObjectsInv, Stowed
<1>12. Stripped'
  <2>1. \A p \in Purges, g \in Files : Gone(purge[p].rows[g])' <=> Gone(purge[p].rows[g])
    BY <1>0 DEF Gone
  <2> QED BY <1>0, <1>6, <2>1 DEF ObjectsInv, Stripped, StrippedOf
<1>13. Replaced'
  <2> SUFFICES ASSUME NEW o \in Overwrites PROVE ReplacedOf(o)'
    BY DEF Replaced
  <2>1. write'[o] = write[o] /\ Seen(o)' = Seen(o) /\ ReplacedOf(o) /\ o \in Writers
    BY <1>0 DEF ObjectsInv, Replaced, Seen, Writers
  <2>2. CASE write[o].pc = "settle"
    <3>1. write[o].file \in Files /\ Row(o) # None
      BY <2>1, <2>2 DEF ReplacedOf, KeptInv, Progress, ProgressOf
    <3>2. Row(o)' # None /\ Has(Row(o)') = Has(Row(o)) /\ \A v \in Has(Row(o)) : Row(o)'.versions[v].key = Row(o).versions[v].key
      BY <1>0, <1>6, <1>7, <3>1 DEF Row
    <3>3. \A j \in StaleKeys(Seen(o)) : Of(write[o].file, j)' /\ j # o
      BY <1>8, <2>1, <2>2, OfHere DEF ReplacedOf
    <3> QED BY <2>1, <2>2, <3>2, <3>3 DEF ReplacedOf
  <2> QED BY <2>1, <2>2 DEF ReplacedOf
<1>14. Shortened'
  BY <1>0, <1>4 DEF ObjectsInv, Shortened
<1>15. NoOrphans'
  BY <1>0, <1>6 DEF ObjectsInv, NoOrphans, Seen
<1>16. VersionsStored'
  <2> SUFFICES ASSUME NEW g \in Files, \A p \in Purges : purge[p].rows[g] = None,
                      file'[g] # None, NEW v \in Has(file'[g])
      PROVE LET c == file'[g].versions[v]
            IN  /\ c.key \in Tended
                /\ \/ length[c.key] = c.size
                   \/ \E q \in Remuxes : remux'[q].pc = "update" /\ remux'[q].seen.key = c.key
    BY <1>0 DEF VersionsStored, Exists
  <2>1. file[g] # None /\ v \in Has(file[g]) /\ file'[g].versions[v].key = file[g].versions[v].key
    BY <1>6, <1>7
  <2>2. LET c == file[g].versions[v]
        IN  /\ c.key \in Tended
            /\ \/ length[c.key] = c.size
               \/ \E q \in Remuxes : remux[q].pc = "update" /\ remux[q].seen.key = c.key
    BY <2>1 DEF ObjectsInv, VersionsStored, Exists
  <2>3. CASE g = f /\ v = m
    <3>1. length[k] = remux[r].seen.size - 1
      BY <1>0 DEF ObjectsInv, Shortened, k
    <3> QED BY <1>3, <2>1, <2>2, <2>3, <3>1
  <2>4. CASE ~(g = f /\ v = m)
    <3>1. file'[g].versions[v] = file[g].versions[v]
      BY <1>3, <2>1, <2>4 DEF Has
    <3>2. file[g].versions[v].key # k
      <4>1. CASE g = f
        <5>1. file[f].versions[m].key = k
          BY <1>3
        <5> QED BY <1>1, <1>5, <2>1, <2>4, <4>1, <5>1 DEF ObjectsInv, OneNumber
      <4>2. CASE g # f
        <5>1. Of(g, file[g].versions[v].key)
          BY <2>1 DEF ObjectsInv, Owned, OwnedRow
        <5> QED BY <1>1, <4>2, <5>1, OfOne
      <4> QED BY <4>1, <4>2
    <3>3. \A q \in Remuxes : remux[q].pc = "update" /\ remux[q].seen.key # k => remux'[q] = remux[q]
      BY <1>4 DEF k
    <3> QED BY <2>2, <3>1, <3>2, <3>3
  <2> QED BY <2>3, <2>4
<1> QED BY <1>9, <1>10, <1>11, <1>12, <1>13, <1>14, <1>15, <1>16 DEF ObjectsInv

\* Every step of a remux
LEMMA RemuxObjects ==
    ASSUME KeptInv, Shapes', NewestInv, RemuxTied, BooksInv, ObjectsInv, NEW r \in Remuxes, RemuxStep(r)
    PROVE  ObjectsInv'
<1>0. Shapes
  BY DEF KeptInv
<1>1. CASE \E f \in Videos : RemuxStart(r, f)
  <2>1. PICK f \in Videos : RemuxStart(r, f)
    BY <1>1
  <2>2. /\ remux[r].pc \in {"idle", "unsent"} /\ UNCHANGED <<newVars, dataVars>> /\ remux'[r].pc = "read"
        /\ \A q \in Remuxes \ {r} : remux'[q] = remux[q]
    BY <1>0, <2>1, RemuxBegun DEF RemuxStart
  <2> QED BY <2>2, RemuxAsideObjects DEF newVars, vars, dataVars
<1>2. CASE RemuxPut(r) /\ ~RemuxEnd(r)
  BY <1>2, RewriteObjects
<1>3. CASE /\ RemuxEnd(r) \/ RemuxTo(r, "held")
           /\ remux[r].pc # "update" /\ UNCHANGED <<file, object, left, length, write, purge, intake>>
  <2>1. remux'[r].pc \in {"unsent", "held"} /\ \A q \in Remuxes \ {r} : remux'[q] = remux[q]
    BY <1>0, <1>3, RemuxMoved
  <2> QED BY <1>3, <2>1, RemuxAsideObjects
<1>4. CASE RemuxUpdate(r)
  BY <1>4, SettledObjects
<1>5. CASE RemuxPut(r) /\ RemuxEnd(r)
  <2>1. remux[r].pc = "held" /\ UNCHANGED <<file, write, purge, intake>>
    BY <1>5 DEF RemuxPut
  <2>2. remux'[r].pc = "unsent"
    BY <1>0, <1>5, RemuxMoved
  <2>3. ~RemuxTo(r, "update")
    BY <1>0, <2>2, RemuxMoved
  <2>4. UNCHANGED <<object, left, length>>
    BY <1>5, <2>3 DEF RemuxPut
  <2> QED BY <1>3, <1>5, <2>1, <2>4
<1>6. RemuxFetch(r) \/ RemuxCharge(r) =>
        /\ RemuxEnd(r) \/ RemuxTo(r, "held")
        /\ remux[r].pc # "update" /\ UNCHANGED <<file, object, left, length, write, purge, intake>>
  BY DEF RemuxFetch, RemuxCharge, newVars, vars, dataVars
<1> QED BY <1>1, <1>2, <1>3, <1>4, <1>5, <1>6 DEF RemuxStep

\* Renditions, transcripts, posters and checksums are not versions.
LEMMA WorkObjects ==
    ASSUME KeptInv, BooksInv, ObjectsInv,
           \/ HlsStep \/ TextStep \/ \E f \in Videos : RenditionsGo(f)
           \/ \E f \in Videos, k \in Keys : ThumbDone(f, k) \/ ChecksumDone(f, k)
    PROVE  ObjectsInv'
<1>1. /\ UNCHANGED <<vars, remux, due, slow>>
      /\ \A f \in Fresh : intake'[f] = intake[f] \/ (intake[f].pc = "unsent" /\ intake'[f].pc = "idle")
  BY WorkBooks DEF KeptInv, BooksInv
<1>2. length' = length
  BY DEF HlsStep, TextStep, RenditionsGo, ThumbDone, ChecksumDone, MakeDone, HlsTake, HlsRun, HlsPut, HlsFlag,
         JobFails, TextTake, TextRun, TextSibling, TextDone, Take, dataVars
<1>3. file' = file /\ object' = object /\ Tended' = Tended /\ write' = write /\ purge' = purge /\ remux' = remux /\ Dims /\ Persist
  BY <1>1 DEF vars, Dims, Persist, Tended
<1>4. \A r \in Writers : write[r].pc = "settle" => write[r].file \in Files
  BY DEF KeptInv, Progress, ProgressOf
<1> QED BY <1>1, <1>2, <1>3, <1>4, StillObjects

\* Every step of a writer
LEMMA WritersObjects ==
    ASSUME KeptInv, NewestInv, RemuxTied, BooksInv, ObjectsInv, NewNext, Follow, Others, NEW r \in Writers, WriterStep(r)
    PROVE  ObjectsInv'
<1>1. OfStays
  <2>1. MadeStays
    BY DEF MadeStays, Others
  <2> QED BY <2>1, WriterOf
<1> QED BY <1>1, AsideObjects, VersionObjects, CollapseObjects, SettleObjects DEF WriterStep

\* A step that changes nothing
LEMMA SameObjects ==
    ASSUME ObjectsInv, UNCHANGED mediaVars PROVE ObjectsInv'
<1>1. UNCHANGED <<file, write, purge, intake, length, remux>> /\ object' = object /\ Tended' = Tended
  BY DEF mediaVars, newVars, vars, jobVars, dataVars, Tended
<1>2. Owned' /\ OneNumber' /\ Stripped' /\ Replaced' /\ NoOrphans'
  BY <1>1, SameShown DEF ObjectsInv
<1>3. Stowed' /\ Shortened' /\ VersionsStored'
  BY <1>1 DEF ObjectsInv, Stowed, Shortened, VersionsStored, Exists
<1> QED BY <1>2, <1>3 DEF ObjectsInv

\* All steps
LEMMA ObjectsStep ==
    ASSUME KeptInv, KeptInv', NewestInv, RemuxTied, BooksInv, ObjectsInv, [MediaNext]_mediaVars PROVE ObjectsInv'
<1>1. CASE NewNext /\ Follow /\ Undisturbed
  <2>1. remux' = remux
    BY <1>1 DEF Follow
  <2>2. MadeStays
    BY <1>1, <2>1, FilesOnward
  <2>3. CASE OldStep /\ \E r \in Writers : WriterStep(r)
    BY <1>1, <2>1, <2>3, WritersObjects DEF OldStep, Others
  <2>4. CASE OldStep /\ \E p \in Purges : PurgeStep(p)
    <3>1. Others /\ write' = write
      BY <2>1, <2>4, GoneOrSame DEF OldStep, Others, KeptInv
    <3>2. OfStays
      BY <2>2, <3>1, OfLater
    <3> QED BY <1>1, <2>4, <3>1, <3>2, PurgeObjects
  <2>5. CASE OldStep /\ \E f \in Files : Trash(f) \/ Expire(f)
    BY <1>1, <2>1, <2>5, TrashObjects DEF OldStep, Others
  <2>6. CASE \E f \in Files : IntakeStep(f)
    <3>1. PICK f \in Files : IntakeStep(f)
      BY <2>6
    <3>2. write' = write
      BY <3>1, IntakeContents DEF BooksInv
    <3>3. OfStays
      BY <2>2, <3>2, OfLater
    <3> QED BY <1>1, <2>1, <3>1, <3>3, IntakeObjects
  <2>7. CASE (\E f \in Files : RestoreUp(f)) \/ FolderTrash
    <3>1. Others
      BY <2>1, <2>7 DEF RestoreUp, FolderTrash, Others
    <3> QED BY <1>1, <2>7, <3>1, TrashObjects DEF RestoreUp
  <2> QED BY <1>1, <2>3, <2>4, <2>5, <2>6, <2>7 DEF NewNext, OldStep
<1>2. CASE \E r \in Remuxes : RemuxStep(r)
  BY <1>2, RemuxObjects DEF KeptInv
<1>3. CASE \/ HlsStep \/ TextStep \/ \E f \in Videos : RenditionsGo(f)
           \/ \E f \in Videos, k \in Keys : ThumbDone(f, k) \/ ChecksumDone(f, k)
  BY <1>3, WorkObjects
<1>4. CASE UNCHANGED mediaVars
  BY <1>4, SameObjects
<1> QED BY <1>1, <1>2, <1>3, <1>4 DEF MediaNext

\* The files that are there when the requests come have an object per version.
LEMMA ObjectsInit == MediaInit => ObjectsInv
<1> SUFFICES ASSUME MediaInit PROVE ObjectsInv
  OBVIOUS
<1>1. PICK sent \in Workloads :
        /\ NewInitFor(sent) /\ length = [k \in Keys |-> IF k \in object THEN History[k[2]] ELSE 0]
        /\ remux = [q \in Remuxes |-> NoRemux(Starts(q, sent))]
  BY DEF MediaInit
<1> DEFINE there == Named(sent) \ Fresh
<1>2. InitFor(sent) /\ intake = [f \in Fresh |-> NoIntake(Starts(f, sent))]
  BY <1>1 DEF NewInitFor
<1>3. file = [f \in Files |-> IF f \in there THEN FirstRow(f) ELSE None]
  BY <1>2 DEF InitFor
<1>4. write = [r \in Writers |-> NoWrite(Starts(r, sent))]
  BY <1>2 DEF InitFor
<1>5. purge = [p \in Purges |-> NoPurge(Starts(p, sent))]
  BY <1>2 DEF InitFor
<1>6. object = there \X DOMAIN History /\ Tended = object
  BY <1>2 DEF InitFor, Tended
<1>7. \A r : Starts(r, sent) \in {"idle", "unsent"}
  BY DEF Starts
<1>8. /\ \A r \in Writers : write[r].pc \in {"idle", "unsent"} /\ write[r].seen = None
      /\ \A f \in Fresh : intake[f].pc \in {"idle", "unsent"}
      /\ \A q \in Remuxes : remux[q].pc \in {"idle", "unsent"}
  BY <1>1, <1>2, <1>4, <1>7 DEF NoWrite, NoIntake, NoRemux
<1>9. \A p \in Purges : /\ purge[p].pc \in {"idle", "unsent"} /\ purge[p].strip = {}
                        /\ \A f \in Files : purge[p].rows[f] = None
  BY <1>5, <1>7 DEF NoPurge
<1>10. there \in SUBSET Files
  <2>1. \A r \in DOMAIN Targets : Targets[r] \subseteq Files
    BY VersionsAssumption
  <2> QED BY <2>1 DEF Named
<1>11. \A f \in Files : IF f \in there THEN file[f] = FirstRow(f) ELSE file[f] = None
  BY <1>3
<1> HIDE DEF there
<1>12. /\ \A v \in DOMAIN History : v \in Numbers /\ v <= Len(History) /\ History[v] \in Int
       /\ \A v \in Numbers : v <= Len(History) => v \in DOMAIN History
  <2> DEFINE n == Len(History)
  <2>1. n \in Nat /\ DOMAIN History = 1..n /\ \A v \in DOMAIN History : v \in Numbers /\ History[v] \in Int
    BY NumberFacts
  <2>2. \A v \in Numbers : v \in Int /\ 1 <= v
    BY NumberFacts DEF Numbers
  <2> HIDE DEF n
  <2>3. (\A v \in DOMAIN History : v <= n) /\ \A v \in Numbers : v <= n => v \in DOMAIN History
    BY <2>1, <2>2
  <2> QED BY <2>1, <2>3 DEF n
<1>13. ASSUME NEW f \in Files, file[f] # None, NEW v \in Has(file[f])
       PROVE  f \in there /\ v \in DOMAIN History /\ file[f].versions[v].key = <<f, v>> /\ file[f].versions[v].size = History[v]
  <2>1. f \in there /\ file[f] = FirstRow(f)
    BY <1>11, <1>13
  <2>2. file[f].versions = [u \in Numbers |->
                              IF u <= Len(History) THEN [key |-> <<f, u>>, size |-> History[u]] ELSE None]
    BY <2>1 DEF FirstRow
  <2>3. v \in Numbers /\ file[f].versions[v] # None
    BY <1>13 DEF Has
  <2>4. v <= Len(History) /\ file[f].versions[v] = [key |-> <<f, v>>, size |-> History[v]]
    BY <2>2, <2>3
  <2>5. PICK k : k = <<f, v>>
    OBVIOUS
  <2>6. file[f].versions[v].key = k /\ file[f].versions[v].size = History[v]
    BY <2>4, <2>5
  <2> QED BY <1>12, <2>1, <2>3, <2>4, <2>5, <2>6
<1>14. \A r \in Writers \cup Fresh : r \notin object
  BY <1>6, <1>10, KeyKinds
<1>15. \A f \in there, v \in DOMAIN History : <<f, v>> \in Keys /\ <<f, v>> \in object /\ length[<<f, v>>] = History[v]
  <2> SUFFICES ASSUME NEW f \in there, NEW v \in DOMAIN History
               PROVE  <<f, v>> \in Keys /\ <<f, v>> \in object /\ length[<<f, v>>] = History[v]
    OBVIOUS
  <2>1. <<f, v>> \in Keys
    BY <1>10, KeyKinds
  <2>2. <<f, v>> \in object
    BY <1>6
  <2>3. PICK k : k = <<f, v>>
    OBVIOUS
  <2>4. length[k] = History[k[2]] /\ k[2] = v
    BY <1>1, <2>1, <2>2, <2>3
  <2> QED BY <2>1, <2>2, <2>3, <2>4
<1>16. Owned
  <2>1. ASSUME NEW f \in Files, file[f] # None, NEW v \in Has(file[f]) PROVE Of(f, file[f].versions[v].key)
    <3>1. file[f].versions[v].key = <<f, v>> /\ v \in DOMAIN History
      BY <1>13, <2>1
    <3>2. PICK k : k = <<f, v>>
      OBVIOUS
    <3>3. k \in Files \X DOMAIN History /\ k[1] = f
      BY <3>1, <3>2
    <3> QED BY <3>1, <3>2, <3>3 DEF Of
  <2> QED BY <1>9, <2>1 DEF Owned, OwnedRow
<1>17. OneNumber
  <2> SUFFICES ASSUME NEW f \in Files, file[f] # None, NEW u \in Has(file[f]), NEW v \in Has(file[f]),
                      file[f].versions[u].key = file[f].versions[v].key
               PROVE  u = v
    BY DEF OneNumber
  <2>1. file[f].versions[u].key = <<f, u>> /\ file[f].versions[v].key = <<f, v>>
    BY <1>13
  <2>2. <<f, u>> = <<f, v>>
    BY ONLY <2>1, file[f].versions[u].key = file[f].versions[v].key
  <2> QED BY ONLY <2>2
<1>18. Stowed
  BY <1>8, <1>14 DEF Stowed, Bare
<1>19. Stripped
  BY <1>9 DEF Stripped, StrippedOf
<1>20. Replaced
  BY <1>8 DEF Replaced, ReplacedOf, Seen, Writers
<1>21. Shortened
  <2>1. ASSUME NEW k \in object PROVE History[k[2]] \in Int
    BY <1>6, <1>12, <2>1
  <2> QED BY <1>1, <1>8, <2>1 DEF Shortened
<1>22. NoOrphans
  <2> SUFFICES ASSUME NEW k \in Tended PROVE \E f \in Files : k \in ObjectsOf(file[f])
    BY DEF NoOrphans
  <2>1. PICK f \in there, v \in DOMAIN History : k = <<f, v>>
    BY <1>6
  <2>2. f \in Files /\ file[f] = FirstRow(f) /\ v \in Numbers /\ v <= Len(History) /\ History[v] \in Int
    BY <1>10, <1>11, <1>12, <2>1
  <2>3. file[f].versions = [u \in Numbers |->
                              IF u <= Len(History) THEN [key |-> <<f, u>>, size |-> History[u]] ELSE None]
    BY <2>2 DEF FirstRow
  <2>4. file[f].versions[v] = [key |-> k, size |-> History[v]]
    BY <2>1, <2>2, <2>3
  <2>5. k \in Keys
    BY <1>15, <2>1
  <2>6. [key |-> k, size |-> History[v]] \in Content
    BY <2>2, <2>5 DEF Content
  <2>7. file[f].versions[v] # None /\ file[f].versions[v].key = k
    BY <2>4, <2>6, NoneAssumption
  <2>8. v \in Has(file[f])
    BY <2>2, <2>7 DEF Has
  <2>9. file[f] # None
    <3>1. Len(History) \in Numbers /\ Len(History) \in DOMAIN History /\ History[Len(History)] \in Int
      <4>1. Len(History) \in DOMAIN History
        BY NumberFacts
      <4> QED BY <1>12, <4>1
    <3>2. <<f, Len(History)>> \in Keys
      BY <1>15, <2>1, <3>1
    <3>3. \A u \in Numbers : IF u <= Len(History) THEN [key |-> <<f, u>>, size |-> History[u]] \in Content ELSE TRUE
      BY <1>12, <1>15, <2>1 DEF Content
    <3>4. file[f].versions \in [Numbers -> Content \cup {None}]
      BY <2>3, <3>3
    <3>5. FirstRow(f) \in FileRow
      BY <2>2, <3>1, <3>2, <3>4 DEF FirstRow, FileRow
    <3> QED BY <2>2, <3>5, NoneAssumption
  <2> QED BY <2>2, <2>7, <2>8, <2>9 DEF ObjectsOf
<1>23. VersionsStored
  <2> SUFFICES ASSUME NEW f \in Files, file[f] # None, NEW v \in Has(file[f])
               PROVE  LET c == file[f].versions[v] IN c.key \in Tended /\ length[c.key] = c.size
    BY DEF VersionsStored, Exists
  <2>1. f \in there /\ v \in DOMAIN History /\ file[f].versions[v].key = <<f, v>> /\ file[f].versions[v].size = History[v]
    BY <1>13
  <2>2. <<f, v>> \in object /\ length[<<f, v>>] = History[v]
    BY <1>15, <2>1
  <2> QED BY <1>6, <2>1, <2>2
<1> QED BY <1>16, <1>17, <1>18, <1>19, <1>20, <1>21, <1>22, <1>23 DEF ObjectsInv

-----------------------------------------------------------------------------
\* Every object in MinIO that no failed removal left behind belongs to a version, to a
\* request that will use or remove it, or to a purge that listed it, and every version
\* that no purge has listed has its object, of the size it is billed for unless a remux
\* is about to settle that (ObjectsMatch); any removal may fail and a remux fetches and
\* puts in two steps; over the same workloads as the balance.
THEOREM ObjectsAreMatched ==
    ASSUME BooksApart, 0 \notin Sizes, ~Overlap PROVE MediaSpec => []ObjectsMatch
<1> DEFINE Inv == BooksKept /\ ObjectsInv
<1>1. MediaInit => Inv
  BY BooksWritersApart, KeptInit, NewestInit, BooksInit, ObjectsInit DEF BooksKept
<1>2. Inv /\ [MediaNext]_mediaVars => Inv'
  <2> SUFFICES ASSUME KeptInv, NewestInv, RemuxTied, BooksInv, ObjectsInv, [MediaNext]_mediaVars PROVE Inv'
    BY DEF BooksKept
  <2>1. KeptInv' /\ NewestInv' /\ RemuxTied' /\ BooksInv'
    BY TogetherStep
  <2>2. ObjectsInv'
    BY <2>1, ObjectsStep
  <2> QED BY <2>1, <2>2 DEF BooksKept
<1>3. Inv => ObjectsMatch
  BY DEF ObjectsInv, ObjectsMatch
<1> HIDE DEF Inv
<1> QED BY <1>1, <1>2, <1>3, PTL DEF MediaSpec

=============================================================================
