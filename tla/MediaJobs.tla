----------------------------- MODULE MediaJobs -----------------------------
(***************************************************************************)
(* What the server does to a media file's content in the background, over  *)
(* NewFiles: a fast-start remux rewrites the object in place and settles   *)
(* sizes and balance; then the video is transcoded to HLS renditions and   *)
(* transcribed, one file at a time in each queue, the subtitles becoming a *)
(* file of their own; posters and checksums are derived beside that.       *)
(*                                                                         *)
(* A job works on the row it read and writes to whatever row has that id   *)
(* when it is done.                                                        *)
(***************************************************************************)
EXTENDS NewFiles

CONSTANTS
    Videos,     \* the files with background work
    Sibling,    \* the subtitles of each video, a fresh file
    Remuxes,    \* optimizeFileVideo calls: requests, and runs after a write
    MinHls,     \* env.hls.minBytes
    Overlap     \* may content change, or two remuxes run, while jobs on the
                \* file are in flight?

ASSUME MediaAssumption ==
    /\ Videos \subseteq Files /\ Sibling \in [Videos -> Fresh]
    /\ \A f \in Videos : Kind[Sibling[f]] = "vtt"
    /\ \A r \in Remuxes : Targets[r] \subseteq Videos
    /\ \A r \in Saves : Targets[r] \cap Videos = {}
    /\ IsFiniteSet(Remuxes) /\ Remuxes \cap (Fresh \cup Writers \cup Purges) = {}
    /\ MinHls \in Nat /\ Overlap \in BOOLEAN

VARIABLES
    slow,       \* videos in MinIO whose index is not in front yet
    length,     \* the size of every object as MinIO has it
    due,        \* videos whose post-processing is about to start
    remux,      \* progress of each remux
    queue,      \* the files waiting for each worker, "hls" and "text"
    job,        \* what each worker is doing
    rendition,  \* h/<file>/: the content it was made from, and whether all of it
    ready,      \* File.hlsReady
    derived,    \* the content File.thumbnailKey, checksum and ocrText are made from
    making,     \* posters and checksums being made: what, file, content
    dropping    \* files whose renditions are about to be removed

jobVars == <<due, remux, queue, job, making, dropping>>
dataVars == <<slow, length, rendition, ready, derived>>
mediaVars == <<newVars, jobVars, dataVars>>

Workers == {"hls", "text"}
Made == {"thumb", "sum", "text"}
Idle == [pc |-> "idle", file |-> None, key |-> None]
NoRemux(step) == [pc |-> step, row |-> None, seen |-> None, poster |-> FALSE]

MediaTypeOK ==
    /\ NewFilesTypeOK
    /\ slow \subseteq Keys /\ length \in [Keys -> Nat]
    /\ due \subseteq Videos /\ dropping \subseteq Videos
    /\ \A r \in Remuxes : remux[r].pc \in {"unsent", "idle", "read", "held", "update", "charge"}
    /\ queue \in [Workers -> Seq(Videos)]
    /\ \A w \in Workers : job[w].pc \in {"idle", "run", "put", "flag", "sibling", "wait"}
    /\ ready \in [Videos -> BOOLEAN]
    /\ derived \in [Made -> [Videos -> Keys \cup {None}]]
    /\ making \subseteq Made \X Videos \X Keys

-----------------------------------------------------------------------------
(* How a step of NewFiles shows in the derived data *)

NewKeys == object' \ object
SizeOf(k) == IF k \in Fresh THEN intake[k].size ELSE write[k].size

\* The row has other content after the step, or is new.
Rewritten(f) == Exists(f) /\ file'[f] # None /\ file'[f].key # file[f].key
Appears(f) == ~Exists(f) /\ file'[f] # None

\* Mutation: an upload leaves File.hlsReady and the thumbnail key as they are.
ForgetNothing ==
    /\ ready' = [f \in Videos |-> ready[f] /\ file'[f] # None]
    /\ derived' = [derived EXCEPT !["sum"] = [f \in Videos |-> IF Rewritten(f) THEN file'[f].key ELSE @[f]]]
    /\ dropping' = dropping \cup {f \in Videos : Rewritten(f) /\ ready[f]}

\* New content clears hlsReady and the thumbnail key (a save clears neither, of a
\* text that has none) and carries its own checksum; an import has none yet.
\* The renditions are removed afterwards.
Forget ==
    /\ ready' = [f \in Videos |-> ready[f] /\ file'[f] # None /\ ~Rewritten(f)]
    /\ derived' =
          [what \in Made |->
             [f \in Videos |->
                CASE what = "sum" /\ (Rewritten(f) \/ (Appears(f) /\ Kind[f] # "import")) -> file'[f].key
                  [] what = "thumb" /\ Rewritten(f) -> None
                  [] OTHER -> derived[what][f]]]
    /\ dropping' = dropping \cup {f \in Videos : Rewritten(f) /\ ready[f]}

\* A file that is new, or has a version uploaded, starts its background work; one
\* that comes or is overwritten through WebDAV does not.
Launch ==
    LET fresh == {f \in Videos : \/ Rewritten(f) /\ file'[f].key \in Uploads
                                 \/ Appears(f) /\ Kind[f] \in {"upload", "url", "import"}}
    IN  /\ due' = due \cup fresh
        /\ making' = making \cup {<<"thumb", f, file'[f].key>> : f \in fresh}
                            \cup {<<"sum", f, file'[f].key>> : f \in {f \in fresh \cap Fresh : Kind[f] = "import"}}

Follow ==
    /\ slow' = slow \cup {k \in NewKeys : \E f \in Videos : k = f \/ \E r \in Writers : k = r /\ write[r].file = f}
    /\ length' = [k \in Keys |-> IF k \in NewKeys THEN SizeOf(k) ELSE length[k]]
    /\ Forget /\ Launch
    /\ UNCHANGED <<remux, queue, job, rendition>>

\* No job has read the file and is not done with it.
Quiet(f) ==
    /\ f \notin due \cup dropping
    /\ \A w \in Workers : job[w].file # f /\ \A i \in DOMAIN queue[w] : queue[w][i] # f
    /\ \A r \in Remuxes : remux[r].pc \in {"unsent", "idle"} \/ remux[r].row # f
    /\ \A m \in making : m[2] # f

Undisturbed == Overlap \/ \A f \in Videos : file'[f] # file[f] /\ Rewritten(f) => Quiet(f)

-----------------------------------------------------------------------------
(* Fast start *)

RemuxTo(r, step) ==
    remux' = [remux EXCEPT ![r].pc = step] /\ UNCHANGED <<queue, making>>

\* Whatever came of it, renditions and a transcript follow, and the poster that a
\* request found missing.
RemuxEnd(r) ==
    /\ remux' = [remux EXCEPT ![r] = NoRemux("unsent")]
    /\ queue' = [w \in Workers |-> Append(queue[w], remux[r].row)]
    /\ making' = IF remux[r].poster THEN making \cup {<<"thumb", remux[r].row, remux[r].seen.key>>}
                 ELSE making

\* POST /files/:id/optimize, or the work that follows an upload.
RemuxStart(r, f) ==
    /\ \/ remux[r].pc = "idle" /\ f \in Targets[r] /\ Live(f) /\ UNCHANGED due
       \/ remux[r].pc = "unsent" /\ f \in due /\ due' = due \ {f}
    /\ Overlap \/ \A q \in Remuxes : remux[q].row # f
    /\ remux' = [remux EXCEPT ![r] = [pc |-> "read", row |-> f, seen |-> file[f],
                    poster |-> remux[r].pc = "idle" /\ derived["thumb"][f] = None]]
    /\ UNCHANGED <<newVars, dataVars, queue, job, making, dropping>>

\* The object is fetched, unless there is none or its index is in front.
RemuxFetch(r) ==
    /\ remux[r].pc = "read"
    /\ \/ /\ remux[r].seen # None /\ remux[r].seen.key \in object \cap slow
          /\ RemuxTo(r, "held")
       \/ RemuxEnd(r)
    /\ UNCHANGED <<newVars, dataVars, due, job, dropping>>

Shrunk(r) == remux[r].seen.size - 1

\* ffmpeg and the put may fail, and the object that is put, smaller, may be one
\* that was removed since.
RemuxPut(r) ==
    /\ remux[r].pc = "held"
    /\ LET k == remux[r].seen.key
       IN  \/ /\ object' = object \cup {k} /\ left' = left \cup ({k} \ object)
              /\ length' = [length EXCEPT ![k] = Shrunk(r)]
              /\ slow' = slow \ {k}
              /\ RemuxTo(r, "update")
           \/ RemuxEnd(r) /\ UNCHANGED <<object, left, length, slow>>
    /\ UNCHANGED <<used, file, write, purge, failures, intake, folder, rendition, ready, derived, due, job, dropping>>

\* Mutation: only File.size is settled.
RemuxUpdateFileOnly(r) ==
    /\ remux[r].pc = "update"
    /\ file' = [file EXCEPT ![remux[r].row].size = Shrunk(r)]
    /\ RemuxTo(r, "charge")
    /\ UNCHANGED <<used, object, left, write, purge, failures, intake, folder, dataVars, due, job, dropping>>

\* One transaction settles File.size and the row of the version it had.
RemuxUpdate(r) ==
    /\ remux[r].pc = "update"
    /\ LET f == remux[r].row v == remux[r].seen.current
       IN  IF Exists(f)
             THEN /\ file' = [file EXCEPT ![f].size = Shrunk(r),
                                ![f].versions[v] = IF @ = None THEN None
                                                   ELSE [key |-> @.key, size |-> Shrunk(r)]]
                  /\ RemuxTo(r, "charge")
             ELSE RemuxEnd(r) /\ UNCHANGED file
    /\ UNCHANGED <<used, object, left, write, purge, failures, intake, folder, dataVars, due, job, dropping>>

RemuxCharge(r) ==
    /\ remux[r].pc = "charge"
    /\ used' = Refunded(used, 1)
    /\ RemuxEnd(r)
    /\ UNCHANGED <<file, object, left, write, purge, failures, intake, folder, dataVars, due, job, dropping>>

-----------------------------------------------------------------------------
(* Renditions and transcripts: one file at a time, whatever becomes of it *)

Take(w, wanted(_)) ==
    /\ job[w].pc = "idle" /\ queue[w] # <<>>
    /\ LET f == Head(queue[w])
       IN  /\ queue' = [queue EXCEPT ![w] = Tail(@)]
           /\ job' = IF Live(f) /\ wanted(f)
                       THEN [job EXCEPT ![w] = [pc |-> "run", file |-> f, key |-> file[f].key]] ELSE job
    /\ UNCHANGED <<newVars, dataVars, due, remux, making, dropping>>

HlsTake == LET wanted(f) == ~ready[f] /\ file[f].size >= MinHls IN Take("hls", wanted)
TextTake == LET wanted(f) == derived["text"][f] = None IN Take("text", wanted)

Doing(w, step) == job[w].pc = step
Does(w, step) == job' = [job EXCEPT ![w].pc = step]

\* Mutation: a job that fails leaves its worker's queue rejected.
JobFailsForGood(w) ==
    /\ job[w].pc \in {"run", "put"} /\ Does(w, "failed")
    /\ UNCHANGED <<newVars, dataVars, due, remux, queue, making, dropping>>

\* ffmpeg, whisper or MinIO fails: the job ends and the next one is taken.
JobFails(w) ==
    /\ job[w].pc \in {"run", "put"}
    /\ job' = [job EXCEPT ![w] = Idle]
    /\ UNCHANGED <<newVars, dataVars, due, remux, queue, making, dropping>>

\* The renditions are stored one by one ...
HlsRun ==
    /\ Doing("hls", "run") /\ job["hls"].key \in object
    /\ Overlap \/ job["hls"].file \notin dropping
    /\ rendition' = [rendition EXCEPT ![job["hls"].file] = [of |-> job["hls"].key, whole |-> FALSE]]
    /\ Does("hls", "put")
    /\ UNCHANGED <<newVars, slow, length, ready, derived, due, remux, queue, making, dropping>>

HlsPut ==
    /\ Doing("hls", "put")
    /\ rendition' = [rendition EXCEPT ![job["hls"].file].whole = TRUE]
    /\ Does("hls", "flag")
    /\ UNCHANGED <<newVars, slow, length, ready, derived, due, remux, queue, making, dropping>>

\* ... and announced once all are there, if the file still is.
HlsFlag ==
    /\ Doing("hls", "flag")
    /\ ready' = [ready EXCEPT ![job["hls"].file] = Exists(job["hls"].file)]
    /\ job' = [job EXCEPT !["hls"] = Idle]
    /\ UNCHANGED <<newVars, slow, length, rendition, derived, due, remux, queue, making, dropping>>

\* removeHls, which may fail and leave them.
RenditionsGo(f) ==
    /\ f \in dropping /\ dropping' = dropping \ {f}
    /\ rendition' \in {rendition, [rendition EXCEPT ![f] = [of |-> None, whole |-> FALSE]]}
    /\ UNCHANGED <<newVars, slow, length, ready, derived, due, remux, queue, job, making>>

\* The transcript goes to the row, then its subtitles become a file.
TextRun ==
    /\ Doing("text", "run") /\ job["text"].key \in object
    /\ IF Exists(job["text"].file)
         THEN /\ derived' = [derived EXCEPT !["text"][job["text"].file] = job["text"].key]
              /\ Does("text", "sibling")
         ELSE job' = [job EXCEPT !["text"] = Idle] /\ UNCHANGED derived
    /\ UNCHANGED <<newVars, slow, length, rendition, ready, due, remux, queue, making, dropping>>

Subtitles == Sibling[job["text"].file]
TextSibling ==
    /\ Doing("text", "sibling")
    /\ intake' = [intake EXCEPT ![Subtitles] = IF @.pc = "unsent" THEN NoIntake("idle") ELSE @]
    /\ Does("text", "wait")
    /\ UNCHANGED <<vars, folder, dataVars, due, remux, queue, making, dropping>>

TextDone ==
    /\ Doing("text", "wait") /\ intake[Subtitles].pc \in {"made", "refused"}
    /\ job' = [job EXCEPT !["text"] = Idle]
    /\ UNCHANGED <<newVars, dataVars, due, remux, queue, making, dropping>>

\* A poster or a checksum of the content that was there is written to the row.
MakeDone(what, f, k) ==
    /\ <<what, f, k>> \in making
    /\ making' = making \ {<<what, f, k>>}
    /\ derived' = IF Exists(f) /\ k \in object THEN [derived EXCEPT ![what][f] = k] ELSE derived
    /\ UNCHANGED <<newVars, slow, length, rendition, ready, due, remux, queue, job, dropping>>

ThumbDone(f, k) == MakeDone("thumb", f, k)
ChecksumDone(f, k) == MakeDone("sum", f, k)

-----------------------------------------------------------------------------
\* The videos that are there may have been processed before.
MediaInit ==
    \E sent \in Workloads, done \in BOOLEAN :
        /\ NewInitFor(sent)
        /\ slow = IF done THEN {} ELSE {k \in object : k[1] \in Videos}
        /\ length = [k \in Keys |-> IF k \in object THEN History[k[2]] ELSE 0]
        /\ due = {} /\ making = {} /\ dropping = {}
        /\ remux = [r \in Remuxes |-> NoRemux(Starts(r, sent))]
        /\ queue = [w \in Workers |-> <<>>] /\ job = [w \in Workers |-> Idle]
        /\ ready = [f \in Videos |-> done /\ Exists(f)]
        /\ rendition = [f \in Videos |-> [of |-> IF ready[f] THEN file[f].key ELSE None, whole |-> ready[f]]]
        /\ derived = [what \in Made |-> [f \in Videos |-> IF ready[f] THEN file[f].key ELSE None]]

RemuxStep(r) ==
    \/ \E f \in Videos : RemuxStart(r, f)
    \/ RemuxFetch(r) \/ RemuxPut(r) \/ RemuxUpdate(r) \/ RemuxCharge(r)

HlsStep == HlsTake \/ HlsRun \/ HlsPut \/ HlsFlag \/ JobFails("hls")
TextStep == TextTake \/ TextRun \/ TextSibling \/ TextDone \/ JobFails("text")

MediaNext ==
    \/ NewNext /\ Follow /\ Undisturbed
    \/ \E r \in Remuxes : RemuxStep(r)
    \/ HlsStep \/ TextStep
    \/ \E f \in Videos : RenditionsGo(f)
    \/ \E f \in Videos, k \in Keys : ThumbDone(f, k) \/ ChecksumDone(f, k)

SiblingStep == \E f \in Fresh : (VttArrives(f) \/ VttWrites(f)) /\ Follow

\* The workers get on, and the subtitles one of them waits for.
MediaSpec ==
    /\ MediaInit /\ [][MediaNext]_mediaVars
    /\ WF_mediaVars(HlsStep) /\ WF_mediaVars(TextStep)
    /\ WF_mediaVars(SiblingStep)

-----------------------------------------------------------------------------
(* Properties of the files, their jobs and the balance together *)

\* Bytes an intake holds, and those a remux has freed and not yet refunded.
IntakeHeld(f) == IF intake[f].pc \in {"store", "create"} THEN intake[f].size ELSE 0
RemuxOwed(r) == IF remux[r].pc = "charge" THEN 1 ELSE 0

\* Between any two statements the owner's balance is what the versions of the
\* files occupy and the requests and jobs in flight still hold or owe.
BooksMatch ==
    used = Accounted + SumFunction([f \in Fresh |-> IntakeHeld(f)])
                     + SumFunction([r \in Remuxes |-> RemuxOwed(r)])

\* Every object in MinIO that no failed removal left behind belongs to a version,
\* to a request that will use or remove it, or to a purge that listed it.
NoOrphans ==
    \A k \in Tended :
        \/ \E f \in Files : k \in ObjectsOf(file[f])
        \/ \E r \in Writers : \/ (k = r /\ write[r].pc \notin {"saved", "failed", "leaked"})
                             \/ (write[r].pc = "settle" /\ k \in StaleKeys(Seen(r)))
        \/ k \in Fresh /\ intake[k].pc = "create"
        \/ \E p \in Purges : \E f \in purge[p].strip : k \in ObjectsOf(purge[p].rows[f])

\* Every version has its object, except in files a purge has listed, of the
\* size it is billed for, unless a remux is about to settle it; and no removal
\* was tried of it.
VersionsStored ==
    \A f \in Files :
        (\A p \in Purges : purge[p].rows[f] = None) =>
            \A v \in IF Exists(f) THEN Has(file[f]) ELSE {} :
                LET c == file[f].versions[v]
                IN  /\ c.key \in Tended
                    /\ \/ length[c.key] = c.size
                       \/ \E r \in Remuxes : remux[r].pc = "update" /\ remux[r].seen.key = c.key

ObjectsMatch == NoOrphans /\ VersionsStored

\* "New content invalidates the old renditions (they'd play stale video) ... and
\* the thumbnail, for exactly the same reason" (files.routes.js:1012): what the
\* player, the preview and the duplicate search are given was made, whole, from
\* the content the file has.
DerivedCurrent ==
    \A f \in Videos : Exists(f) =>
        /\ ready[f] => rendition[f] = [of |-> file[f].key, whole |-> TRUE]
        /\ \A what \in {"thumb", "sum"} : derived[what][f] \in {None, file[f].key}

\* Whatever fails in a job, the files queued behind it are served.
QueueServed == \A w \in Workers : queue[w] # <<>> ~> queue[w] = <<>>
=============================================================================
