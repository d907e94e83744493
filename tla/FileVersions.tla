---------------------------- MODULE FileVersions ----------------------------
(***************************************************************************)
(* A file's version chain, its stay in the trash and the owner's balance:  *)
(*                                                                         *)
(*   POST /files/:id/versions      uploads a version        (Uploads)      *)
(*   POST /files/:id/collab-save   saves an edited text     (Saves)        *)
(*   PUT  /webdav/...              overwrites the file      (Overwrites)   *)
(*   DELETE /trash/file/:id        deletes one trashed file (HardDeletes)  *)
(*   POST /trash/empty             deletes all of them      (Empties)      *)
(*   purgeExpiredTrash             deletes the expired ones (Sweeps)       *)
(*                                                                         *)
(* and the single statements that trash and restore a file.  One action is *)
(* one SQL statement or transaction, or one call to MinIO (removing the    *)
(* objects of one file counts as one, and some of them may stay behind).   *)
(* reserveQuota, subUsage and releaseQuota are one step each: the module   *)
(* Quota shows they act so.                                                *)
(***************************************************************************)
EXTENDS Accounting, FiniteSets, Functions, Sequences

CONSTANTS
    Files,          \* files of one owner, in the top folder
    Fresh,          \* those of them that are not there yet
    Uploads, Saves, Overwrites, HardDeletes, Empties, Sweeps,   \* requests
    Workloads,      \* the sets of requests that may come together
    Targets,        \* the files a request may name
    Sizes,          \* sizes of a content, standing for its checksum too
    History,        \* sizes of the versions each file starts with
    Quota,          \* User.quotaBytes
    SaveAttempts,   \* tries of collab-save's loop (4 in the code)
    MaxFailures,    \* bound: calls that fail
    None            \* no row

Writers == Uploads \cup Saves \cup Overwrites
Purges  == HardDeletes \cup Empties \cup Sweeps

ASSUME VersionsAssumption ==
    /\ Fresh \subseteq Files
    /\ \A r \in Writers \cup Purges \cup DOMAIN Targets : Targets[r] \subseteq Files
    /\ \A sent \in Workloads : sent \subseteq DOMAIN Targets \cup Fresh
    /\ Sizes \subseteq Nat
    /\ History \in Seq(Sizes) /\ History # <<>>
    /\ {Quota, MaxFailures} \subseteq Nat
    /\ SaveAttempts \in Nat \ {0}
    /\ IsFiniteSet(Files) /\ IsFiniteSet(Writers) /\ IsFiniteSet(Purges)
    /\ Writers \cap Purges = {} /\ Fresh \cap (Writers \cup Purges) = {}
    /\ Overwrites \cap (Uploads \cup Saves) = {} /\ Uploads \cap Saves = {}
    /\ HardDeletes \cap (Empties \cup Sweeps) = {} /\ Empties \cap Sweeps = {}
    /\ (Files \X DOMAIN History) \cap (Writers \cup Fresh) = {}
    /\ None \notin Files \cup Writers

VARIABLES
    used,       \* User.usedBytes
    file,       \* File rows, each with its FileVersion rows
    object,     \* keys of the objects in MinIO
    left,       \* history: those a removal that failed, or nobody, took away
    write,      \* progress of each writer
    purge,      \* progress of each purge
    failures    \* calls that failed so far

vars == <<used, file, object, left, write, purge, failures>>

\* An object is named after the request that stored it, or after the file and
\* the version it starts with; a fresh file's first one after the file.
Keys == (Files \X DOMAIN History) \cup Writers \cup Fresh
Numbers == 1..(Len(History) + Cardinality(Uploads \cup Saves))
\* A remux makes a content smaller, so that its size need not be one of Sizes.
Content == [key : Keys, size : Int]

FileRow == [state : {"live", "trashed", "expired"}, key : Keys, size : Int,
            current : Numbers, versions : [Numbers -> Content \cup {None}]]

ASSUME NoneAssumption == None \notin Content /\ None \notin FileRow

Has(row) == {v \in Numbers : row.versions[v] # None}

\* What a file occupies and every delete refunds: the sum over its versions.
Bytes(row) ==
    IF row = None THEN 0
    ELSE SumFunction([v \in Has(row) |-> row.versions[v].size])

ObjectsOf(row) == IF row = None THEN {} ELSE {row.versions[v].key : v \in Has(row)}

WriteSteps == {"unsent", "idle", "reserve", "store", "create", "point", "fresh",
               "commit", "collapse", "settle", "saved", "failed", "leaked"}
PurgeSteps == {"unsent", "idle", "delete", "refund", "done"}

NoWrite(step) == [pc |-> step, file |-> None, size |-> 0, seen |-> None, tries |-> 0]
NoPurge(step) ==
    [pc |-> step, rows |-> [f \in Files |-> None], strip |-> {}, drop |-> {}]

\* The rows, locals and counters have their types.
TypeOK ==
    /\ used \in Nat
    /\ DOMAIN file = Files
    /\ \A f \in Files : file[f] \in FileRow \cup {None}
    /\ left \subseteq object /\ object \subseteq Keys
    /\ \A r \in Writers :
          write[r] \in [pc : WriteSteps, file : Files \cup {None}, size : Sizes \cup {0},
                        seen : FileRow \cup {None}, tries : 0..(SaveAttempts - 1)]
    /\ \A p \in Purges :
          /\ purge[p].pc \in PurgeSteps
          /\ \A f \in Files : purge[p].rows[f] \in FileRow \cup {None}
          /\ purge[p].strip \subseteq purge[p].drop /\ purge[p].drop \subseteq Files
    /\ failures \in 0..MaxFailures

FirstRow(f) ==
    LET last == Len(History)
    IN  [state |-> "live", key |-> <<f, last>>, size |-> History[last], current |-> last,
         versions |-> [v \in Numbers |->
                         IF v <= last THEN [key |-> <<f, v>>, size |-> History[v]]
                         ELSE None]]

Starts(r, sent) == IF r \in sent THEN "idle" ELSE "unsent"

Named(sent) == UNION {Targets[r] : r \in sent \cap DOMAIN Targets}

\* The files the requests may name are there, and no other.
InitFor(sent) ==
    LET there == Named(sent) \ Fresh
    IN  /\ file = [f \in Files |-> IF f \in there THEN FirstRow(f) ELSE None]
        /\ used = SumFunction([f \in there |-> Bytes(FirstRow(f))])
        /\ object = there \X DOMAIN History /\ left = {}
        /\ write = [r \in Writers |-> NoWrite(Starts(r, sent))]
        /\ purge = [p \in Purges |-> NoPurge(Starts(p, sent))]
        /\ failures = 0

Init == \E sent \in Workloads : InitFor(sent)

Exists(f) == file[f] # None
Live(f) == Exists(f) /\ file[f].state = "live"
Trashed(f) == Exists(f) /\ file[f].state # "live"

-----------------------------------------------------------------------------
(* Objects *)

StoreObject(k) == object' = object \cup {k} /\ left' = left \ {k}

\* removeObject catches every error, so that what it cannot remove stays.
Removes(keys) ==
    \E lost \in SUBSET (keys \cap object) :
        /\ lost = {} \/ failures < MaxFailures
        /\ object' = object \ (keys \ lost)
        /\ left' = (left \ keys) \cup lost
        /\ failures' = IF lost = {} THEN failures ELSE failures + 1

\* The objects that no failure left behind.
Tended == object \ left

-----------------------------------------------------------------------------
(* Writers *)

WriteMove(r, step) == write' = [write EXCEPT ![r].pc = step]
WriteEnd(r, step) ==
    write' = [write EXCEPT ![r].pc = step, ![r].seen = None, ![r].tries = 0]

\* The row is read while the file is live; a save of the text it already has
\* returns at once.
WriteStart(r, f, n) ==
    /\ write[r].pc = "idle"
    /\ f \in Targets[r]
    /\ Live(f)
    /\ r \in Saves => n # file[f].size
    /\ write' = [write EXCEPT ![r] = [pc |-> "reserve", file |-> f, size |-> n,
                                      seen |-> file[f], tries |-> 0]]
    /\ UNCHANGED <<used, file, object, left, purge, failures>>

\* A version is charged whole, an overwrite net of the versions it replaces.
Charge(r) ==
    IF r \in Overwrites THEN NetCost(write[r].size, Bytes(write[r].seen))
    ELSE write[r].size

\* A version upload checks the name it came under only after it has reserved,
\* and gives nothing back when it refuses that name.
WriteReserve(r) ==
    /\ write[r].pc = "reserve"
    /\ IF Charge(r) = 0 \/ Fits(used, Charge(r), Quota)
         THEN /\ used' = used + Charge(r)
              /\ WriteMove(r, "store") \/ (r \in Uploads /\ WriteMove(r, "leaked"))
         ELSE WriteEnd(r, "failed") /\ UNCHANGED used
    /\ UNCHANGED <<file, object, left, purge, failures>>

AfterStore(r) ==
    IF r \in Uploads THEN "create" ELSE IF r \in Saves THEN "fresh" ELSE "collapse"

WriteStore(r) ==
    /\ write[r].pc = "store"
    /\ StoreObject(r)
    /\ WriteMove(r, AfterStore(r))
    /\ UNCHANGED <<used, file, purge, failures>>

StoreFails(r) ==
    /\ write[r].pc = "store"
    /\ failures < MaxFailures
    /\ failures' = failures + 1
    /\ used' = Refunded(used, Charge(r))
    /\ WriteEnd(r, "failed")
    /\ UNCHANGED <<file, object, left, purge>>

\* The write does not become a version: release the bytes, remove the object.
GiveBack(r) ==
    /\ used' = Refunded(used, Charge(r))
    /\ Removes({r})
    /\ WriteEnd(r, "failed")

Seen(r) == write[r].seen
Row(r) == file[write[r].file]
Stored(r) == [key |-> r, size |-> write[r].size]

\* (fileId, version) is unique, and a version needs its file.
NextNumber(r) == Seen(r).current + 1
Free(r) == Row(r) # None /\ Row(r).versions[NextNumber(r)] = None

\* The row once it shows the content of r as version v.
Pointed(row, r, v) == [row EXCEPT !.key = r, !.size = write[r].size, !.current = v]
WithVersion(row, r, v) == [row EXCEPT !.versions[v] = Stored(r)]

Put(r, row) == file' = [file EXCEPT ![write[r].file] = row]

\* A version upload inserts the version it numbered from its first read ...
UploadCreate(r) ==
    /\ write[r].pc = "create"
    /\ IF Free(r)
         THEN /\ Put(r, WithVersion(Row(r), r, NextNumber(r)))
              /\ WriteMove(r, "point")
              /\ UNCHANGED <<used, object, left, failures>>
         ELSE GiveBack(r) /\ UNCHANGED file
    /\ UNCHANGED purge

\* ... and points the file at it in a statement of its own.
UploadPoint(r) ==
    /\ write[r].pc = "point"
    /\ IF Row(r) # None
         THEN /\ Put(r, Pointed(Row(r), r, NextNumber(r)))
              /\ WriteEnd(r, "saved")
              /\ UNCHANGED <<used, object, left, failures>>
         ELSE GiveBack(r) /\ UNCHANGED file
    /\ UNCHANGED purge

\* A save reads the row again on each try; the text may be there by now.
SaveFresh(r) ==
    /\ write[r].pc = "fresh"
    /\ IF Live(write[r].file) /\ Row(r).size # write[r].size
         THEN /\ write' = [write EXCEPT ![r].pc = "commit", ![r].seen = Row(r)]
              /\ UNCHANGED <<used, object, left, failures>>
         ELSE GiveBack(r)
    /\ UNCHANGED <<file, purge>>

\* Mutation: the version is inserted or replaced (an upsert).
SaveCommitBlind(r) ==
    /\ write[r].pc = "commit"
    /\ Row(r) # None
    /\ Put(r, Pointed(WithVersion(Row(r), r, NextNumber(r)), r, NextNumber(r)))
    /\ WriteEnd(r, "saved")
    /\ UNCHANGED <<used, object, left, purge, failures>>

\* Mutation: the pointer is moved whether or not the version was inserted.
SaveCommitSplit(r) ==
    /\ write[r].pc = "commit"
    /\ Row(r) # None
    /\ Put(r, Pointed(Row(r), r, NextNumber(r)))
    /\ WriteEnd(r, "saved")
    /\ UNCHANGED <<used, object, left, purge, failures>>

\* One transaction inserts the version and moves the pointer.  A number taken
\* by another writer is tried again, up to SaveAttempts times.
SaveCommit(r) ==
    /\ write[r].pc = "commit"
    /\ \/ /\ Free(r)
          /\ Put(r, Pointed(WithVersion(Row(r), r, NextNumber(r)), r, NextNumber(r)))
          /\ WriteEnd(r, "saved")
          /\ UNCHANGED <<used, object, left, failures>>
       \/ /\ Row(r) # None /\ ~Free(r) /\ write[r].tries + 1 < SaveAttempts
          /\ write' = [write EXCEPT ![r].pc = "fresh", ![r].tries = @ + 1]
          /\ UNCHANGED <<used, file, object, left, failures>>
       \/ /\ ~Free(r) /\ (Row(r) = None \/ write[r].tries + 1 = SaveAttempts)
          /\ GiveBack(r)
          /\ UNCHANGED file
    /\ UNCHANGED purge

\* What an overwrite leaves of the history: the version it saw as current,
\* if that is still there, with the new content.
Kept(r) ==
    [v \in Numbers |->
        IF v = Seen(r).current /\ Row(r).versions[v] # None THEN Stored(r) ELSE None]

\* An overwrite's transaction; when the row is gone it throws, and neither the
\* reservation nor the object is given back.
OverwriteCollapse(r) ==
    /\ write[r].pc = "collapse"
    /\ IF Row(r) # None
         THEN /\ Put(r, [Row(r) EXCEPT !.key = r, !.size = write[r].size,
                                       !.versions = Kept(r)])
              /\ WriteMove(r, "settle") /\ UNCHANGED left
         ELSE WriteMove(r, "leaked") /\ left' = left \cup {r} /\ UNCHANGED file
    /\ UNCHANGED <<used, object, purge, failures>>

\* The part of the replaced bytes the net reservation did not absorb.
Unsettled(r) == Bytes(Seen(r)) - write[r].size + Charge(r)

\* The superseded object and those of the older versions.
StaleKeys(row) ==
    {row.versions[v].key : v \in Has(row) \ {row.current}} \cup {row.key}

OverwriteSettle(r) ==
    /\ write[r].pc = "settle"
    /\ used' = IF Unsettled(r) > 0 THEN Refunded(used, Unsettled(r)) ELSE used
    /\ Removes(StaleKeys(Seen(r)))
    /\ WriteEnd(r, "saved")
    /\ UNCHANGED <<file, purge>>

-----------------------------------------------------------------------------
(* Purges: each removes objects, then rows, then refunds, from the rows it *)
(* listed first.                                                           *)

\* A hard delete names one trashed file, an empty-trash takes all of them, the
\* sweep those trashed for long enough.
Listing(p) ==
    IF p \in HardDeletes THEN {{f} : f \in {f \in Targets[p] : Trashed(f)}}
    ELSE IF p \in Empties THEN {{f \in Files : Trashed(f)}}
    ELSE {{f \in Files : Exists(f) /\ file[f].state = "expired"}}

PurgeRead(p) ==
    /\ purge[p].pc = "idle"
    /\ \E listed \in Listing(p) \ {{}} :
          purge' = [purge EXCEPT ![p] =
                      [pc |-> "delete", strip |-> listed, drop |-> listed,
                       rows |-> [f \in Files |-> IF f \in listed THEN file[f] ELSE None]]]
    /\ UNCHANGED <<used, file, object, left, write, failures>>

\* The sweep deletes a file's row before it turns to the next file.
PurgeStrip(p, f) ==
    /\ purge[p].pc = "delete"
    /\ f \in purge[p].strip
    /\ p \in Sweeps => purge[p].drop = purge[p].strip
    /\ Removes(ObjectsOf(purge[p].rows[f]))
    /\ purge' = [purge EXCEPT ![p].strip = @ \ {f}]
    /\ UNCHANGED <<used, file, write>>

Deleted(fs) == [f \in Files |-> IF f \in fs THEN None ELSE file[f]]

\* Deleting one row throws when it is gone.
HardDrop(p) ==
    /\ p \in HardDeletes
    /\ purge[p].pc = "delete" /\ purge[p].strip = {}
    /\ LET found == \A f \in purge[p].drop : Exists(f)
       IN  purge' = [purge EXCEPT ![p].pc = IF found THEN "refund" ELSE "done",
                                  ![p].drop = {}]
    /\ file' = Deleted(purge[p].drop)
    /\ UNCHANGED <<used, object, left, write, failures>>

\* One statement deletes what is left of the listed rows.
EmptyDrop(p) ==
    /\ p \in Empties
    /\ purge[p].pc = "delete" /\ purge[p].strip = {}
    /\ file' = Deleted(purge[p].drop)
    /\ purge' = [purge EXCEPT ![p].pc = "refund", ![p].drop = {}]
    /\ UNCHANGED <<used, object, left, write, failures>>

\* The sweep deletes row by row and ignores errors.
SweepDrop(p) ==
    /\ p \in Sweeps
    /\ \E f \in purge[p].drop \ purge[p].strip :
          /\ file' = Deleted({f})
          /\ purge' = [purge EXCEPT ![p].drop = @ \ {f},
                          ![p].pc = IF purge[p].drop = {f} THEN "refund" ELSE @]
    /\ UNCHANGED <<used, object, left, write, failures>>

BytesListed(p, fs) == SumFunction([f \in fs |-> Bytes(purge[p].rows[f])])

PurgeRefund(p) ==
    /\ purge[p].pc = "refund"
    /\ used' = Refunded(used, BytesListed(p, Files))
    /\ purge' = [purge EXCEPT ![p].pc = "done"]
    /\ UNCHANGED <<file, object, left, write, failures>>

-----------------------------------------------------------------------------
(* The trash *)

SetState(f, state) ==
    /\ file' = [file EXCEPT ![f].state = state]
    /\ UNCHANGED <<used, object, left, write, purge, failures>>

Trash(f) == Live(f) /\ SetState(f, "trashed")
Restore(f) == Trashed(f) /\ SetState(f, "live")
\* The retention window of a trashed file passes; only a sweep can tell.
Expire(f) ==
    /\ Trashed(f) /\ file[f].state = "trashed"
    /\ \E p \in Sweeps : purge[p].pc # "unsent"
    /\ SetState(f, "expired")

WriterStep(r) ==
    \/ \E f \in Files, n \in Sizes : WriteStart(r, f, n)
    \/ WriteReserve(r) \/ WriteStore(r) \/ StoreFails(r)
    \/ UploadCreate(r) \/ UploadPoint(r)
    \/ SaveFresh(r) \/ SaveCommit(r)
    \/ OverwriteCollapse(r) \/ OverwriteSettle(r)

PurgeStep(p) ==
    \/ PurgeRead(p) \/ PurgeRefund(p)
    \/ \E f \in Files : PurgeStrip(p, f)
    \/ HardDrop(p) \/ EmptyDrop(p) \/ SweepDrop(p)

TrashStep(f) == Trash(f) \/ Restore(f) \/ Expire(f)

Next ==
    \/ \E r \in Writers : WriterStep(r)
    \/ \E p \in Purges : PurgeStep(p)
    \/ \E f \in Files : TrashStep(f)

Spec == Init /\ [][Next]_vars

-----------------------------------------------------------------------------
(* Properties *)

\* Bytes a writer has reserved and not put in a row or given back, those it
\* will never give back included.
Held(r) ==
    IF write[r].pc \in {"store", "create", "fresh", "commit", "collapse", "leaked"} THEN Charge(r)
    ELSE IF write[r].pc = "settle" THEN Unsettled(r)
    ELSE 0

\* Bytes of the rows a purge has deleted and not yet refunded.
Owed(p) ==
    IF purge[p].pc = "refund" THEN BytesListed(p, Files)
    ELSE IF purge[p].pc = "delete" /\ p \in Sweeps THEN BytesListed(p, Files \ purge[p].drop)
    ELSE 0

Accounted ==
    SumFunction([f \in Files |-> Bytes(file[f])])
        + SumFunction([r \in Writers |-> Held(r)])
        + SumFunction([p \in Purges |-> Owed(p)])

\* An edit or version answered with success stays in the file's history, with
\* the object it stored, whoever writes at the same time.
AckedSaveKept ==
    \A r \in Uploads \cup Saves :
        write[r].pc = "saved" /\ Row(r) # None =>
            \E v \in Has(Row(r)) : Row(r).versions[v].key = r

\* A file shows the content of the version it calls current, and a newer
\* version exists only while its upload is about to point the file at it.
CurrentIsNewest ==
    \A f \in Files : Exists(f) =>
        /\ file[f].versions[file[f].current] = [key |-> file[f].key, size |-> file[f].size]
        /\ \A v \in Numbers : v > file[f].current /\ v \in Has(file[f]) =>
              \E r \in Uploads : /\ write[r].pc = "point" /\ write[r].file = f
                                 /\ file[f].versions[v] = Stored(r)
=============================================================================
