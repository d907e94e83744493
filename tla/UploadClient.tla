---------------------------- MODULE UploadClient ----------------------------
(***************************************************************************)
(* The browser's side of the chunked upload: chunkedUpload (api/upload.js),*)
(* the uploader's entries with pause and retry (components/Uploader.jsx),  *)
(* and the offline outbox (lib/outbox.js) that a page flushes.  Requests   *)
(* may fail on the way there or on the way back.  The server is a handler  *)
(* per request here; ChunkedUpload has its statements.                     *)
(***************************************************************************)
EXTENDS Integers, FiniteSets, Sequences

CONSTANTS
    Items,     \* files added while offline
    Entries,   \* files added while online
    Pages,     \* mounts of the uploader, one after the other
    Total,     \* parts of a file
    Lossy,     \* requests whose answer may get lost
    MaxFaults, \* bound: requests and IndexedDB calls that fail, pauses, and times
               \* the network goes
    Nothing

ASSUME ClientAssumption ==
    /\ Items \cap Entries = {} /\ (Items \cup Entries) \cap Pages = {} /\ Pages # {}
    /\ Total \in Nat /\ MaxFaults \in Nat /\ IsFiniteSet(Pages)
    /\ Lossy \subseteq {"info", "init", "part", "complete"} /\ Nothing \notin Pages \cup Items

VARIABLES
    online,   \* navigator.onLine
    outbox,   \* IndexedDB: ids of the queued items
    page,     \* the mounted uploader; what an earlier one runs goes on
    waiting,  \* by page: items its flush has yet to do (flushingRef is flush # "idle")
    flush,    \* by page: where its flush is, "new" before the mount
    flushed,  \* by page: flushedIdsRef
    entry,    \* by entry: its status and the session it may resume
    call,     \* by page or entry: its chunkedUpload
    session,  \* the server's upload sessions, in order
    made,     \* by file: how many File rows it became
    faults,
    missed,   \* history, by page: items its last flush could not upload or remove
    unsure    \* history, by file: how often nobody could know that it was uploaded

clientVars == <<online, outbox, page, waiting, flush, flushed, entry, call, session, made, faults,
                missed, unsure>>
queueVars == <<outbox, page, waiting, flush, flushed, missed>>   \* of the outbox
serverVars == <<session, made, unsure>>

Callers == Pages \cup Entries
PartNumbers == 1..Total
NoCall == [at |-> "none", file |-> Nothing, sess |-> 0, done |-> {}]

ClientInit ==
    /\ online \in BOOLEAN /\ outbox = {} /\ page \in Pages
    /\ waiting = [p \in Pages |-> {}]
    /\ flush = [p \in Pages |-> CASE p # page -> "new" [] online -> "reading" [] OTHER -> "idle"]
    /\ flushed = [p \in Pages |-> {}] /\ missed = [p \in Pages |-> {}]
    /\ entry = [e \in Entries |-> [status |-> "new", sess |-> 0]]
    /\ call = [c \in Callers |-> NoCall]
    /\ session = <<>> /\ faults = 0
    /\ made = [f \in Items \cup Entries |-> 0] /\ unsure = made

-----------------------------------------------------------------------------
(* chunkedUpload *)

\* A part is sent once: those the server has, or has just acknowledged, are skipped.
NextPart(c) == CHOOSE n \in PartNumbers \ call[c].done : \A m \in PartNumbers \ call[c].done : n <= m
Sent(c) == PartNumbers \subseteq call[c].done

Called(file, sess) ==
    [at |-> IF sess = 0 THEN "init" ELSE "info", file |-> file, sess |-> sess, done |-> {}]

\* Where a call goes on after its parts are known.
Onward(k) == [k EXCEPT !.at = IF PartNumbers \subseteq k.done THEN "complete" ELSE "part"]

\* GET /:id, for a resume: a session that is completed or not found is left alone.
Info(c) ==
    LET k == call[c]
        s == session[k.sess]
    IN  /\ k.at = "info"
        /\ call' = [call EXCEPT ![c] = IF s.completed THEN [k EXCEPT !.at = "init", !.sess = 0]
                                       ELSE Onward([k EXCEPT !.done = s.held])]
        /\ UNCHANGED <<online, queueVars, entry, serverVars, faults>>

\* POST /init
Start(c) ==
    /\ call[c].at = "init"
    /\ session' = Append(session, [file |-> call[c].file, held |-> {}, completed |-> FALSE])
    /\ call' = [call EXCEPT ![c] = Onward([call[c] EXCEPT !.sess = Len(session) + 1])]
    /\ UNCHANGED <<online, queueVars, entry, made, unsure, faults>>

\* PUT /:id/part
Put(c) ==
    /\ call[c].at = "part"
    /\ session' = [session EXCEPT ![call[c].sess].held = @ \cup {NextPart(c)}]
    /\ call' = [call EXCEPT ![c] = Onward([call[c] EXCEPT !.done = @ \cup {NextPart(c)}])]
    /\ UNCHANGED <<online, queueVars, entry, made, unsure, faults>>

\* POST /:id/complete, which the server refuses when parts are missing.
Accepted(k) == ~session[k.sess].completed /\ session[k.sess].held = PartNumbers
Stored(k) ==
    /\ session' = [session EXCEPT ![k.sess].completed = TRUE]
    /\ made' = [made EXCEPT ![k.file] = @ + 1]
Complete(c) ==
    /\ call[c].at = "complete" /\ Accepted(call[c]) /\ Stored(call[c])
    /\ call' = [call EXCEPT ![c].at = "done"]
    /\ UNCHANGED <<online, queueVars, entry, unsure, faults>>

\* What an error leaves: after a lost GET a fresh session; after a part an error
\* that names the session; after init or complete one that does not.
\* Mutation: a part that was refused is taken for sent.
BrokenBlind(c) ==
    CASE call[c].at = "info" -> [call[c] EXCEPT !.at = "init", !.sess = 0]
      [] call[c].at = "part" -> Onward([call[c] EXCEPT !.done = @ \cup {NextPart(c)}])
      [] OTHER -> [call[c] EXCEPT !.at = "failed", !.sess = 0]

Broken(c) ==
    CASE call[c].at = "info" -> [call[c] EXCEPT !.at = "init", !.sess = 0]
      [] call[c].at = "part" -> [call[c] EXCEPT !.at = "failed"]
      [] OTHER -> [call[c] EXCEPT !.at = "failed", !.sess = 0]

\* A request is lost or refused without effect, or its answer is lost; a completion
\* that fails on the server may use up its session without making a file.
Fault(c) ==
    /\ call[c].at \in {"info", "init", "part", "complete"} /\ faults < MaxFaults
    /\ faults' = faults + 1 /\ call' = [call EXCEPT ![c] = Broken(c)]
    /\ \/ UNCHANGED serverVars
       \/ /\ call[c].at \in Lossy \cap {"init", "part"} /\ UNCHANGED <<made, unsure>>
          /\ session' = IF call[c].at = "init"
                          THEN Append(session, [file |-> call[c].file, held |-> {}, completed |-> FALSE])
                          ELSE [session EXCEPT ![call[c].sess].held = @ \cup {NextPart(c)}]
       \/ /\ call[c].at = "complete" /\ Accepted(call[c]) /\ UNCHANGED <<made, unsure>>
          /\ session' = [session EXCEPT ![call[c].sess].completed = TRUE]
       \/ /\ call[c].at \in Lossy \cap {"complete"} /\ Accepted(call[c]) /\ Stored(call[c])
          /\ unsure' = [unsure EXCEPT ![call[c].file] = @ + 1]
    /\ UNCHANGED <<online, queueVars, entry>>

-----------------------------------------------------------------------------
(* The uploader's entries *)

\* addFiles while online, and the retry of an entry that is paused or failed
StartEntry(e) ==
    /\ entry[e].status \in {"paused", "error"} \/ (entry[e].status = "new" /\ online)
    /\ entry' = [entry EXCEPT ![e].status = "uploading"]
    /\ call' = [call EXCEPT ![e] = Called(e, entry[e].sess)]
    /\ UNCHANGED <<online, queueVars, serverVars, faults>>

\* Pause: the controller's signal ends the loop or the part being sent, which
\* may have arrived; a request without the signal goes on.
Pause(e) ==
    /\ entry[e].status = "uploading" /\ call[e].at = "part" /\ faults < MaxFaults
    /\ faults' = faults + 1
    /\ \/ UNCHANGED session
       \/ session' = [session EXCEPT ![call[e].sess].held = @ \cup {NextPart(e)}]
    /\ entry' = [entry EXCEPT ![e] = [status |-> "paused", sess |-> call[e].sess]]
    /\ call' = [call EXCEPT ![e] = NoCall]
    /\ UNCHANGED <<online, queueVars, made, unsure>>

\* The end of startEntry: the session of a failed attempt is remembered.
EndEntry(e) ==
    /\ call[e].at \in {"done", "failed"}
    /\ entry' = [entry EXCEPT ![e] =
                   IF call[e].at = "done" THEN [@ EXCEPT !.status = "done"]
                   ELSE [status |-> "error", sess |-> IF call[e].sess # 0 THEN call[e].sess ELSE @.sess]]
    /\ call' = [call EXCEPT ![e] = NoCall]
    /\ UNCHANGED <<online, queueVars, serverVars, faults>>

-----------------------------------------------------------------------------
(* The outbox *)

\* addFiles while offline.  An earlier page that is about to read the queue will find
\* the item too.
Enqueue(i) ==
    /\ ~online /\ i \notin outbox /\ made[i] = 0 /\ \A c \in Callers : call[c].file # i
    /\ \A p \in Pages : i \notin flushed[p] \cup waiting[p]
    /\ outbox' = outbox \cup {i}
    /\ unsure' = [unsure EXCEPT ![i] = Cardinality({p \in Pages \ {page} : flush[p] = "reading"})]
    /\ UNCHANGED <<online, page, waiting, flush, flushed, missed, entry, call, session, made, faults>>

\* flush starts at the mount, at the online event and with every new identity of
\* onUploaded, which any render of the parent may bring; one flush of a page at a time.
\* Mutation: flushingRef is not looked at.
TriggerAgain(p) ==
    /\ page = p /\ online
    /\ flush' = [flush EXCEPT ![p] = "reading"]
    /\ UNCHANGED <<online, outbox, page, waiting, flushed, missed, entry, call, serverVars, faults>>

Trigger(p) ==
    /\ page = p /\ online /\ flush[p] = "idle"
    /\ flush' = [flush EXCEPT ![p] = "reading"]
    /\ UNCHANGED <<online, outbox, page, waiting, flushed, missed, entry, call, serverVars, faults>>

\* allItems, less those this page has already uploaded, whose rows linger; or it fails.
\* Mutation: flushingRef stays set when the queue cannot be read.
ReadQueueStuck(p) ==
    /\ flush[p] = "reading"
    /\ \/ /\ waiting' = [waiting EXCEPT ![p] = outbox \ flushed[p]]
          /\ missed' = [missed EXCEPT ![p] = outbox \cap flushed[p]]
          /\ flush' = [flush EXCEPT ![p] = "uploading"] /\ UNCHANGED faults
       \/ /\ faults < MaxFaults /\ faults' = faults + 1
          /\ missed' = [missed EXCEPT ![p] = outbox]
          /\ flush' = [flush EXCEPT ![p] = "left"] /\ UNCHANGED waiting
    /\ UNCHANGED <<online, outbox, page, flushed, entry, call, serverVars>>

ReadQueue(p) ==
    /\ flush[p] = "reading"
    /\ \/ /\ waiting' = [waiting EXCEPT ![p] = outbox \ flushed[p]]
          /\ missed' = [missed EXCEPT ![p] = outbox \cap flushed[p]]
          /\ flush' = [flush EXCEPT ![p] = "uploading"] /\ UNCHANGED faults
       \/ /\ faults < MaxFaults /\ faults' = faults + 1
          /\ missed' = [missed EXCEPT ![p] = outbox]
          /\ flush' = [flush EXCEPT ![p] = "idle"] /\ UNCHANGED waiting
    /\ UNCHANGED <<online, outbox, page, flushed, entry, call, serverVars>>

\* The next item, or the end of the flush
NextItem(p) ==
    /\ flush[p] = "uploading" /\ call[p].at = "none"
    /\ \/ \E i \in waiting[p] :
             /\ waiting' = [waiting EXCEPT ![p] = @ \ {i}]
             /\ call' = [call EXCEPT ![p] = Called(i, 0)] /\ UNCHANGED flush
       \/ /\ waiting[p] = {} /\ flush' = [flush EXCEPT ![p] = "idle"] /\ UNCHANGED <<waiting, call>>
    /\ UNCHANGED <<online, outbox, page, flushed, missed, entry, serverVars, faults>>

\* An upload that failed stays queued; one that is done is remembered before its row goes.
EndItem(p) ==
    /\ \/ call[p].at = "failed" /\ call' = [call EXCEPT ![p] = NoCall]
          /\ missed' = [missed EXCEPT ![p] = @ \cup {call[p].file}] /\ UNCHANGED flushed
       \/ call[p].at = "done" /\ call' = [call EXCEPT ![p].at = "clear"]
          /\ flushed' = [flushed EXCEPT ![p] = @ \cup {call[p].file}] /\ UNCHANGED missed
    /\ UNCHANGED <<online, outbox, page, waiting, flush, entry, serverVars, faults>>

\* removeItem, whose failure is swallowed and leaves the row.
Clear(p) ==
    /\ call[p].at = "clear" /\ call' = [call EXCEPT ![p] = NoCall]
    /\ \/ outbox' = outbox \ {call[p].file} /\ UNCHANGED <<missed, faults>>
       \/ /\ faults < MaxFaults /\ faults' = faults + 1 /\ UNCHANGED outbox
          /\ missed' = [missed EXCEPT ![p] = @ \cup {call[p].file}]
    /\ UNCHANGED <<online, page, waiting, flush, flushed, entry, serverVars>>

\* The user leaves the page and comes back: new refs, while the old flush goes on.
\* What the old page has uploaded or still may, the new one cannot know.
MayStill(p) ==
    {i \in outbox : i \in waiting[p] \cup flushed[p] \/ call[p].file = i \/ flush[p] = "reading"}
Remount(p) ==
    /\ flush[p] = "new" /\ page' = p
    /\ flush' = [flush EXCEPT ![p] = IF online THEN "reading" ELSE "idle"]
    /\ unsure' = [f \in Items \cup Entries |-> IF f \in MayStill(page) THEN unsure[f] + 1 ELSE unsure[f]]
    /\ UNCHANGED <<online, outbox, waiting, flushed, missed, entry, call, session, made, faults>>

\* The online event, which a flush under way ignores.
GoOnline ==
    /\ ~online /\ online' = TRUE
    /\ flush' = IF flush[page] = "idle" THEN [flush EXCEPT ![page] = "reading"] ELSE flush
    /\ UNCHANGED <<outbox, page, waiting, flushed, missed, entry, call, serverVars, faults>>
GoOffline ==
    /\ online /\ faults < MaxFaults /\ online' = FALSE /\ faults' = faults + 1
    /\ UNCHANGED <<queueVars, entry, call, serverVars>>

-----------------------------------------------------------------------------
Progress(c) == Info(c) \/ Start(c) \/ Put(c) \/ Complete(c)
Queue(p) == Trigger(p) \/ ReadQueue(p) \/ NextItem(p) \/ EndItem(p) \/ Clear(p) \/ Remount(p)

EntryNext ==
    \/ \E e \in Entries : Progress(e) \/ Fault(e) \/ StartEntry(e) \/ Pause(e) \/ EndEntry(e)
OutboxNext ==
    \/ \E p \in Pages : Progress(p) \/ Fault(p) \/ Queue(p)
    \/ \E i \in Items : Enqueue(i)
    \/ GoOnline \/ GoOffline
ClientNext == EntryNext \/ OutboxNext

\* A flush that has begun goes on: the requests it waits for come to an end.  Nothing
\* promises that one begins.
FlushFairness ==
    \A p \in Pages :
       /\ WF_clientVars(Progress(p))
       /\ WF_clientVars(ReadQueue(p)) /\ WF_clientVars(NextItem(p))
       /\ WF_clientVars(EndItem(p)) /\ WF_clientVars(Clear(p))

ClientSpec == ClientInit /\ [][ClientNext]_clientVars /\ FlushFairness

-----------------------------------------------------------------------------
(* Properties *)

\* A file is uploaded once, whatever is paused, fails and is tried again, and however
\* often the queue is flushed: "uploaded the same file again, creating duplicates that
\* each cost the user quota" (Uploader.jsx:176) is what the guards are for.  It is
\* uploaded again only when nobody could know: once for every completion whose answer
\* was lost, and once for every remount that found its row in the queue although the
\* page before had uploaded it or still might.
UploadedOnce == \A f \in Items \cup Entries : made[f] <= 1 + unsure[f]

\* A completion is asked for only when the session holds every part of that
\* file, those sent before a pause or a failure included.
AsksWhole ==
    \A c \in Callers : call[c].at = "complete" =>
        LET s == session[call[c].sess] IN s.held = PartNumbers /\ s.file = call[c].file

\* A flush that has begun ends, and by then what was queued has arrived and left the
\* queue, but for the items whose upload or removal failed.
QueueDrains ==
    \A p \in Pages, i \in Items :
        flush[p] = "reading" /\ i \in outbox
          ~> flush[p] = "idle" /\ (i \in missed[p] \/ (made[i] > 0 /\ i \notin outbox))
=============================================================================
