------------------------------ MODULE NewFiles ------------------------------
(***************************************************************************)
(* The ways a file comes to be in one request, over the versions and the   *)
(* trash of FileVersions:                                                  *)
(*                                                                         *)
(*   upload   POST /files               the body of the request            *)
(*   url      POST /files/from-url      fetched, redirect by redirect      *)
(*   import   POST /files/from-youtube  downloaded by a child process      *)
(*   dav      PUT /webdav/...           a path no live file has            *)
(*   vtt      createVttSibling          the subtitles of a transcribed one *)
(*                                                                         *)
(* All go into one folder, which may be trashed and restored meanwhile.    *)
(* Each checks the folder and the name, reserves the bytes, stores the     *)
(* object and creates the row, and undoes what it did when that fails.     *)
(***************************************************************************)
EXTENDS FileVersions

CONSTANTS
    Kind,       \* how each fresh file comes
    VttSize,    \* size of a video's subtitles
    MaxHops     \* redirects from-url follows (5 in the code)

ASSUME NewFilesAssumption ==
    /\ Kind \in [Fresh -> {"upload", "url", "import", "dav", "vtt"}]
    /\ VttSize \in Sizes /\ MaxHops \in Nat

VARIABLES
    intake,     \* progress of the request that makes each fresh file
    folder      \* the folder the files go into: "live" or "trashed"

newVars == <<vars, intake, folder>>
IntakeSteps == {"unsent", "idle", "fetch", "check", "reserve", "store", "create", "made", "refused"}

\* The folder an intake writes to, or the top one; and the size it has.
NoIntake(step) == [pc |-> step, at |-> "top", size |-> 0, hops |-> 0]

NewFilesTypeOK ==
    /\ TypeOK
    /\ intake \in [Fresh -> [pc : IntakeSteps, at : {"folder", "top"}, size : Sizes \cup {0},
                             hops : 0..MaxHops]]
    /\ folder \in {"live", "trashed"}

IntakeAt(f, step) == f \in Fresh /\ intake[f].pc = step
IntakeMove(f, step) == intake' = [intake EXCEPT ![f].pc = step]

Refuse(f) == IntakeMove(f, "refused") /\ UNCHANGED <<vars, folder>>
GoesTo(f, at, n, step) ==
    /\ intake' = [intake EXCEPT ![f].pc = step, ![f].at = at, ![f].size = n]
    /\ UNCHANGED <<vars, folder>>

\* The request names the folder, or the top one, and is refused when the folder
\* is in the trash.
Admits(f, at) == at = "folder" => folder = "live"

-----------------------------------------------------------------------------
(* What each way does before it has the bytes and the name *)

\* Folder, then name, then the reservation; a folder may hold the name.
UploadArrives(f) ==
    /\ IntakeAt(f, "idle") /\ Kind[f] = "upload"
    /\ \/ \E at \in {"folder", "top"}, n \in Sizes : Admits(f, at) /\ GoesTo(f, at, n, "reserve")
       \/ Refuse(f)

DavArrives(f) ==
    /\ IntakeAt(f, "idle") /\ Kind[f] = "dav"
    /\ \/ \E at \in {"folder", "top"}, n \in Sizes : Admits(f, at) /\ GoesTo(f, at, n, "reserve")
       \/ Refuse(f)

UrlArrives(f) ==
    /\ IntakeAt(f, "idle") /\ Kind[f] = "url"
    /\ \/ \E at \in {"folder", "top"} : Admits(f, at) /\ GoesTo(f, at, 0, "fetch")
       \/ Refuse(f)

\* fetchFollowingSafely: every hop is checked before it is fetched.
UrlHops(f) ==
    /\ IntakeAt(f, "fetch") /\ Kind[f] = "url"
    /\ \/ intake[f].hops < MaxHops /\ intake' = [intake EXCEPT ![f].hops = @ + 1]
       \/ IntakeMove(f, "refused")
    /\ UNCHANGED <<vars, folder>>

\* The answer is read whole; one that does not fit is refused before that.
UrlFetched(f) ==
    /\ IntakeAt(f, "fetch") /\ Kind[f] = "url"
    /\ \E n \in Sizes :
          IF Fits(used, n, Quota) THEN GoesTo(f, intake[f].at, n, "check") ELSE Refuse(f)

ImportArrives(f) ==
    /\ IntakeAt(f, "idle") /\ Kind[f] = "import"
    /\ \/ \E at \in {"folder", "top"} : Admits(f, at) /\ GoesTo(f, at, 0, "fetch")
       \/ Refuse(f)

\* yt-dlp ends, fails or is killed after its time.
Downloaded(f) ==
    /\ IntakeAt(f, "fetch") /\ Kind[f] = "import"
    /\ \/ \E n \in Sizes : GoesTo(f, intake[f].at, n, "check")
       \/ Refuse(f)

\* The name is known only now, and a folder may hold it.
NameFree(f) ==
    /\ IntakeAt(f, "check")
    /\ \/ IntakeMove(f, "reserve") \/ IntakeMove(f, "refused")
    /\ UNCHANGED <<vars, folder>>

\* Subtitles go beside their video, or to the top when its folder is in the
\* trash by now; they are skipped when a file or a folder has their name.
VttArrives(f) ==
    /\ IntakeAt(f, "idle") /\ Kind[f] = "vtt"
    /\ \/ GoesTo(f, IF folder = "live" THEN "folder" ELSE "top", VttSize, "reserve")
       \/ Refuse(f)

-----------------------------------------------------------------------------
(* What all of them do then *)

Reserves(f) ==
    /\ IntakeAt(f, "reserve")
    /\ IF Fits(used, intake[f].size, Quota)
         THEN used' = used + intake[f].size /\ IntakeMove(f, "store")
         ELSE IntakeMove(f, "refused") /\ UNCHANGED used
    /\ UNCHANGED <<file, object, left, write, purge, failures, folder>>

Stores(f) ==
    /\ IntakeAt(f, "store")
    /\ StoreObject(f)
    /\ IntakeMove(f, "create")
    /\ UNCHANGED <<used, file, write, purge, failures, folder>>

NewRow(f) ==
    [state |-> "live", key |-> f, size |-> intake[f].size, current |-> 1,
     versions |-> [v \in Numbers |-> IF v = 1 THEN [key |-> f, size |-> intake[f].size]
                                     ELSE None]]

Creates(f) ==
    /\ IntakeAt(f, "create")
    /\ file' = [file EXCEPT ![f] = NewRow(f)]
    /\ IntakeMove(f, "made")
    /\ UNCHANGED <<used, object, left, write, purge, failures, folder>>

\* One mishap: a call is refused, and with it perhaps the removal that follows.
Refused(keys) ==
    /\ failures < MaxFailures /\ failures' = failures + 1
    /\ \E lost \in SUBSET (keys \cap object) :
          object' = object \ (keys \ lost) /\ left' = (left \ keys) \cup lost

\* Mutation: the object goes, the bytes stay charged.
UndoneObject(f) ==
    /\ Refused({f})
    /\ IntakeMove(f, "refused")
    /\ UNCHANGED <<used, file, write, purge, folder>>

\* The object or the row is refused: the bytes are released, and the object is
\* removed unless that fails as well.
Undone(f) ==
    /\ Refused({f})
    /\ used' = Refunded(used, intake[f].size)
    /\ IntakeMove(f, "refused")
    /\ UNCHANGED <<file, write, purge, folder>>

Undoes(f) == (IntakeAt(f, "store") \/ IntakeAt(f, "create")) /\ Undone(f)

\* Each way has these statements in a handler of its own.
Writes(f) == Reserves(f) \/ Stores(f) \/ Creates(f) \/ Undoes(f)
UploadWrites(f) == f \in Fresh /\ Kind[f] = "upload" /\ Writes(f)
UrlWrites(f) == f \in Fresh /\ Kind[f] = "url" /\ Writes(f)
ImportWrites(f) == f \in Fresh /\ Kind[f] = "import" /\ Writes(f)
DavWrites(f) == f \in Fresh /\ Kind[f] = "dav" /\ Writes(f)
VttWrites(f) == f \in Fresh /\ Kind[f] = "vtt" /\ Writes(f)

-----------------------------------------------------------------------------
(* The folder, with the files in it *)

Within(f) == f \in Fresh /\ intake[f].at = "folder"

FolderTrash ==
    /\ folder = "live" /\ folder' = "trashed"
    /\ file' = [f \in Files |-> IF Within(f) /\ Live(f) THEN [file[f] EXCEPT !.state = "trashed"]
                                ELSE file[f]]
    /\ UNCHANGED <<used, object, left, write, purge, failures, intake>>

\* Restoring a file brings its folder back.
RestoreUp(f) ==
    /\ Restore(f)
    /\ folder' = IF Within(f) THEN "live" ELSE folder
    /\ UNCHANGED intake

IntakeStep(f) ==
    \/ UploadArrives(f) \/ DavArrives(f) \/ UrlArrives(f) \/ UrlHops(f) \/ UrlFetched(f)
    \/ ImportArrives(f) \/ Downloaded(f) \/ NameFree(f) \/ VttArrives(f)
    \/ UploadWrites(f) \/ UrlWrites(f) \/ ImportWrites(f) \/ DavWrites(f) \/ VttWrites(f)

OldStep ==
    /\ \/ \E r \in Writers : WriterStep(r)
       \/ \E p \in Purges : PurgeStep(p)
       \/ \E f \in Files : Trash(f) \/ Expire(f)
    /\ UNCHANGED <<intake, folder>>

NewInitFor(sent) ==
    /\ InitFor(sent)
    /\ intake = [f \in Fresh |-> NoIntake(Starts(f, sent))]
    /\ folder = "live"

NewInit == \E sent \in Workloads : NewInitFor(sent)

NewNext ==
    \/ OldStep
    \/ \E f \in Files : IntakeStep(f) \/ RestoreUp(f)
    \/ FolderTrash

NewSpec == NewInit /\ [][NewNext]_newVars
=============================================================================
