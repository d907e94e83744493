--------------------------- MODULE ChunkedUpload ----------------------------
(***************************************************************************)
(* backend/src/routes/upload.routes.js: the chunked, resumable upload.     *)
(*                                                                         *)
(* One owner uploads files in sessions: POST /init opens a session and a   *)
(* MinIO multipart upload, PUT /:id/part stores parts, POST /:id/complete  *)
(* assembles them into a File row, DELETE /:id gives up.  Each request is  *)
(* a process whose statements (one SQL statement, one MinIO call)          *)
(* interleave with those of every other request; a client may send any     *)
(* request at any time, and the same one again.                            *)
(*                                                                         *)
(* reserveQuota, subUsage and addUsage are one step each: the module Quota *)
(* shows their statements act as one.  Folder placement and the name of    *)
(* the file are left to the folder modules; a file's versions are          *)
(* represented by the sum of their sizes, the figure every refund uses.    *)
(***************************************************************************)
EXTENDS Accounting, FiniteSets, Functions

CONSTANTS
    Sessions,        \* ids of UploadSession rows
    Puts,            \* PUT /:id/part requests
    Completes,       \* POST /:id/complete requests
    Deletes,         \* DELETE /:id requests
    PartNumbers,     \* part numbers in use (1..MAX_PART_NUMBER in the code)
    Sizes,           \* sizes of a part's body, standing for its content too
    Declared,        \* sizes clients declare at init
    Slack,           \* PART_SIZE_SLACK
    Quota,           \* User.quotaBytes
    OldFile,         \* a file the owner already has
    OldBytes,        \* the bytes of its versions
    Replacers,       \* sessions that may replace a file
    PartAttempts,    \* tries of the part route's recording loop (5 in the code)
    MaxInterrupts,   \* bound: completions cut short by a failure or a restart
    None             \* no file, no object, no session

ASSUME UploadAssumption ==
    /\ PartNumbers # {} /\ IsFiniteSet(PartNumbers) /\ PartNumbers = 1..Cardinality(PartNumbers)
    /\ IsFiniteSet(Completes)
    /\ Sizes \subseteq Nat \ {0}
    /\ Declared \subseteq Nat
    /\ {Slack, Quota, OldBytes, MaxInterrupts} \subseteq Nat
    /\ PartAttempts \in Nat \ {0}
    /\ Replacers \subseteq Sessions
    /\ OldFile \notin Sessions \cup Completes
    /\ None \notin Sessions \cup Completes \cup {OldFile}
    /\ None \notin [key : Sessions \cup {OldFile}, size : Nat]
    /\ None \notin [PartNumbers -> Sizes \cup {0}]

VARIABLES
    used,        \* User.usedBytes
    session,     \* UploadSession rows
    mpu,         \* MinIO: the multipart upload of each session
    object,      \* MinIO: the object under each key
    file,        \* File rows (with the sum of their versions' sizes)
    put,         \* progress of each PUT
    comp,        \* progress of each POST complete
    del,         \* progress of each DELETE
    interrupts   \* completions cut short so far

vars == <<used, session, mpu, object, file, put, comp, del, interrupts>>

\* A file is named after the request that created its row; an object key is
\* the session it was minted for.
Files == Completes \cup {OldFile}
Keys  == Sessions \cup {OldFile}

\* A parts list: the size recorded for each part number, 0 for no entry.
Parts   == [PartNumbers -> Sizes \cup {0}]
NoParts == [n \in PartNumbers |-> 0]
Total(parts) == SumFunction(parts)

\* The sum of the versions of a replace target that is still there.
RefundFor(f) == IF f # None /\ file[f] # None THEN file[f].size ELSE 0

-----------------------------------------------------------------------------
SessionRow == [state : {"absent", "live", "deleted"}, completed : BOOLEAN,
               size : Declared \cup {0}, replaces : Files \cup {None},
               parts : Parts]
NoSession == [state |-> "absent", completed |-> FALSE, size |-> 0,
              replaces |-> None, parts |-> NoParts]

NoUpload == [open |-> FALSE, parts |-> NoParts]

PutSteps == {"idle", "upload", "record", "reread", "stored", "refused"}
CompSteps == {"idle", "claim", "abort", "refund", "reserve", "assemble",
              "findOld", "deleteOld", "create", "settle", "cleanup", "done"}
DelSteps == {"idle", "abort", "remove", "row", "done"}

IdlePut  == [pc |-> "idle", sess |-> None, n |-> 1, size |-> 0,
             list |-> NoParts, tries |-> 0]
IdleComp == [pc |-> "idle", sess |-> None, list |-> NoParts, refund |-> 0,
             reserve |-> 0, old |-> 0, oldKey |-> None]
IdleDel  == [pc |-> "idle", sess |-> None]

TypeOK ==
    /\ used \in Nat
    /\ session \in [Sessions -> SessionRow]
    /\ mpu \in [Sessions -> [open : BOOLEAN, parts : Parts]]
    /\ object \in [Keys -> Parts \cup {None}]
    /\ file \in [Files -> [key : Keys, size : Nat] \cup {None}]
    /\ put \in [Puts -> [pc : PutSteps, sess : Sessions \cup {None},
                         n : PartNumbers, size : Sizes \cup {0},
                         list : Parts, tries : 0..(PartAttempts - 1)]]
    /\ comp \in [Completes -> [pc : CompSteps, sess : Sessions \cup {None},
                               list : Parts, refund : Nat, reserve : Nat,
                               old : Nat, oldKey : Keys \cup {None}]]
    /\ del \in [Deletes -> [pc : DelSteps, sess : Sessions \cup {None}]]
    /\ interrupts \in 0..MaxInterrupts

Init ==
    /\ used = OldBytes
    /\ session = [s \in Sessions |-> NoSession]
    /\ mpu = [s \in Sessions |-> NoUpload]
    /\ object = [k \in Keys |-> IF k = OldFile THEN NoParts ELSE None]
    /\ file = [f \in Files |->
                 IF f = OldFile THEN [key |-> OldFile, size |-> OldBytes] ELSE None]
    /\ put = [p \in Puts |-> IdlePut]
    /\ comp = [c \in Completes |-> IdleComp]
    /\ del = [d \in Deletes |-> IdleDel]
    /\ interrupts = 0

-----------------------------------------------------------------------------
(* POST /init *)

\* The quota is only checked here, not reserved; the session row appears
\* together with its multipart upload.
OpenSession(s, size, f) ==
    /\ session[s].state = "absent"
    /\ f # None => s \in Replacers /\ file[f] # None
    /\ Fits(used, NetCost(size, RefundFor(f)), Quota)
    /\ session' = [session EXCEPT ![s] =
                     [state |-> "live", completed |-> FALSE, size |-> size,
                      replaces |-> f, parts |-> NoParts]]
    /\ mpu' = [mpu EXCEPT ![s] = [open |-> TRUE, parts |-> NoParts]]
    /\ UNCHANGED <<used, object, file, put, comp, del, interrupts>>

-----------------------------------------------------------------------------
(* PUT /:id/part *)

Live(s) == session[s].state = "live"
Open(s) == Live(s) /\ ~session[s].completed

\* The recorded bytes once this body replaces part n's, against the declared size.
Projected(list, n, size) == Total([list EXCEPT ![n] = size])
WithinDeclared(s, list, n, size) ==
    Projected(list, n, size) <= session[s].size + Slack

PutMove(p, step) == put' = [put EXCEPT ![p].pc = step]
PutEnd(p, step) ==
    put' = [put EXCEPT ![p] = [IdlePut EXCEPT !.pc = step, !.sess = put[p].sess,
                                              !.n = put[p].n]]

\* Read the session and check the bounds; a refused request changes nothing.
PutStart(p, s, n, size) ==
    /\ put[p].pc = "idle"
    /\ Open(s)
    /\ WithinDeclared(s, session[s].parts, n, size)
    /\ Fits(used, NetCost(Projected(session[s].parts, n, size),
                          RefundFor(session[s].replaces)), Quota)
    /\ put' = [put EXCEPT ![p] = [pc |-> "upload", sess |-> s, n |-> n,
                                  size |-> size, list |-> session[s].parts,
                                  tries |-> 0]]
    /\ UNCHANGED <<used, session, mpu, object, file, comp, del, interrupts>>

\* uploadPart: the last body stored under a part number stays; an upload that
\* was completed or aborted is unknown to MinIO.
PutUpload(p) ==
    LET s == put[p].sess IN
    /\ put[p].pc = "upload"
    /\ IF mpu[s].open
         THEN /\ mpu' = [mpu EXCEPT ![s].parts[put[p].n] = put[p].size]
              /\ PutMove(p, "record")
         ELSE PutEnd(p, "refused") /\ UNCHANGED mpu
    /\ UNCHANGED <<used, session, object, file, comp, del, interrupts>>

\* Mutation: the parts list is written back without comparing it with the row.
PutRecordBlind(p) ==
    LET s == put[p].sess IN
    /\ put[p].pc = "record"
    /\ IF WithinDeclared(s, put[p].list, put[p].n, put[p].size) /\ Open(s)
         THEN /\ session' = [session EXCEPT ![s].parts =
                               [put[p].list EXCEPT ![put[p].n] = put[p].size]]
              /\ PutEnd(p, "stored")
         ELSE PutEnd(p, "refused") /\ UNCHANGED session
    /\ UNCHANGED <<used, mpu, object, file, comp, del, interrupts>>

\* Mutation: the bound is checked when the request starts, not when it records.
PutRecordUnbounded(p) ==
    LET s == put[p].sess IN
    /\ put[p].pc = "record"
    /\ IF Open(s) /\ session[s].parts = put[p].list
         THEN /\ session' = [session EXCEPT ![s].parts[put[p].n] = put[p].size]
              /\ PutEnd(p, "stored")
         ELSE PutMove(p, "reread") /\ UNCHANGED session
    /\ UNCHANGED <<used, mpu, object, file, comp, del, interrupts>>

\* UPDATE ... SET parts WHERE parts = <the list read> AND completed = false.
PutRecord(p) ==
    LET s == put[p].sess IN
    /\ put[p].pc = "record"
    /\ IF ~WithinDeclared(s, put[p].list, put[p].n, put[p].size)
         THEN PutEnd(p, "refused") /\ UNCHANGED session
         ELSE IF Open(s) /\ session[s].parts = put[p].list
           THEN /\ session' = [session EXCEPT ![s].parts[put[p].n] = put[p].size]
                /\ PutEnd(p, "stored")
           ELSE PutMove(p, "reread") /\ UNCHANGED session
    /\ UNCHANGED <<used, mpu, object, file, comp, del, interrupts>>

\* Another request changed the row: read it again, up to PartAttempts times.
PutReread(p) ==
    LET s == put[p].sess IN
    /\ put[p].pc = "reread"
    /\ IF Open(s) /\ put[p].tries + 1 < PartAttempts
         THEN put' = [put EXCEPT ![p].pc = "record",
                                 ![p].list = session[s].parts,
                                 ![p].tries = @ + 1]
         ELSE PutEnd(p, "refused")
    /\ UNCHANGED <<used, session, mpu, object, file, comp, del, interrupts>>

-----------------------------------------------------------------------------
(* POST /:id/complete *)

CompMove(c, step) == comp' = [comp EXCEPT ![c].pc = step]
CompEnd(c) ==
    comp' = [comp EXCEPT ![c] = [IdleComp EXCEPT !.pc = "done", !.sess = comp[c].sess]]

\* Read the session; the parts list of this read is the one that is assembled.
CompStart(c, s) ==
    /\ comp[c].pc = "idle"
    /\ Open(s)
    /\ comp' = [comp EXCEPT ![c] = [IdleComp EXCEPT !.pc = "claim", !.sess = s,
                                                    !.list = session[s].parts]]
    /\ UNCHANGED <<used, session, mpu, object, file, put, del, interrupts>>

\* Mutation: only the total is compared with the declared size.
WholeWithHoles(list, size) ==
    Total(list) <= size + Slack /\ size <= Total(list) + Slack

\* The parts are 1..N without a hole and reach the declared size, give or take
\* the slack.
Contiguous(list) == \A n \in PartNumbers : list[n] # 0 => \A m \in 1..n : list[m] # 0
Whole(list, size) ==
    /\ Total(list) <= size + Slack
    /\ Contiguous(list)
    /\ size <= Total(list) + Slack

\* Mutation: the claim looks at the session as read, not at the row it updates.
CompClaimBlind(c) ==
    LET s == comp[c].sess IN
    /\ comp[c].pc = "claim"
    /\ session' = [session EXCEPT ![s].completed = TRUE]
    /\ CompMove(c, IF Whole(comp[c].list, session[s].size) THEN "refund" ELSE "abort")
    /\ UNCHANGED <<used, mpu, object, file, put, del, interrupts>>

\* UPDATE ... SET completed = true WHERE completed = false claims the session;
\* the checks that follow look only at the list read before it.  A session
\* without parts fails here and nothing is aborted for it.
CompClaim(c) ==
    LET s == comp[c].sess
        list == comp[c].list
    IN
    /\ comp[c].pc = "claim"
    /\ IF ~Open(s)
         THEN CompEnd(c) /\ UNCHANGED session
         ELSE /\ session' = [session EXCEPT ![s].completed = TRUE]
              /\ IF list = NoParts /\ session[s].size > 0
                   THEN CompEnd(c)
                   ELSE CompMove(c, IF Whole(list, session[s].size)
                                      THEN "refund" ELSE "abort")
    /\ UNCHANGED <<used, mpu, object, file, put, del, interrupts>>

\* Mutation: a failed session hands back bytes it never reserved.
CompAbortReleasing(c) ==
    /\ comp[c].pc = "abort"
    /\ mpu' = [mpu EXCEPT ![comp[c].sess] = NoUpload]
    /\ used' = Refunded(used, Total(comp[c].list))
    /\ CompEnd(c)
    /\ UNCHANGED <<session, object, file, put, del, interrupts>>

\* failSession, and the exception that follows it.
CompAbort(c) ==
    /\ comp[c].pc = "abort"
    /\ mpu' = [mpu EXCEPT ![comp[c].sess] = NoUpload]
    /\ CompEnd(c)
    /\ UNCHANGED <<used, session, object, file, put, del, interrupts>>

CompRefund(c) ==
    /\ comp[c].pc = "refund"
    /\ comp' = [comp EXCEPT ![c].pc = "reserve",
                            ![c].refund = RefundFor(session[comp[c].sess].replaces)]
    /\ UNCHANGED <<used, session, mpu, object, file, put, del, interrupts>>

\* Mutation: the bytes are charged without looking at the quota.
CompReserveUnchecked(c) ==
    LET need == NetCost(Total(comp[c].list), comp[c].refund) IN
    /\ comp[c].pc = "reserve"
    /\ used' = used + need
    /\ comp' = [comp EXCEPT ![c].pc = "assemble", ![c].reserve = need]
    /\ UNCHANGED <<session, mpu, object, file, put, del, interrupts>>

CompReserve(c) ==
    LET need == NetCost(Total(comp[c].list), comp[c].refund) IN
    /\ comp[c].pc = "reserve"
    /\ IF need = 0 \/ Fits(used, need, Quota)
         THEN /\ used' = used + need
              /\ comp' = [comp EXCEPT ![c].pc = "assemble", ![c].reserve = need]
         ELSE CompMove(c, "abort") /\ UNCHANGED used
    /\ UNCHANGED <<session, mpu, object, file, put, del, interrupts>>

\* completeMultipart, or an empty object for a file of no bytes.  MinIO refuses
\* an upload it no longer has and a part that was replaced since it was listed;
\* the exception leaves the reservation behind.
CompAssemble(c) ==
    LET s == comp[c].sess
        list == comp[c].list
        next == IF session[s].replaces = None THEN "create" ELSE "findOld"
        assembles == /\ mpu[s].open
                     /\ \A n \in PartNumbers : list[n] # 0 => mpu[s].parts[n] = list[n]
    IN
    /\ comp[c].pc = "assemble"
    /\ IF list = NoParts \/ assembles
         THEN /\ object' = [object EXCEPT ![s] = list]
              /\ mpu' = [mpu EXCEPT ![s] = NoUpload]
              /\ CompMove(c, next)
         ELSE CompEnd(c) /\ UNCHANGED <<object, mpu>>
    /\ UNCHANGED <<used, session, file, put, del, interrupts>>

CompFindOld(c) ==
    LET f == session[comp[c].sess].replaces IN
    /\ comp[c].pc = "findOld"
    /\ IF file[f] # None
         THEN comp' = [comp EXCEPT ![c].pc = "deleteOld", ![c].old = file[f].size,
                                   ![c].oldKey = file[f].key]
         ELSE CompMove(c, "create")
    /\ UNCHANGED <<used, session, mpu, object, file, put, del, interrupts>>

\* DELETE of a row that somebody else deleted meanwhile throws.
CompDeleteOld(c) ==
    LET f == session[comp[c].sess].replaces IN
    /\ comp[c].pc = "deleteOld"
    /\ IF file[f] # None
         THEN file' = [file EXCEPT ![f] = None] /\ CompMove(c, "create")
         ELSE CompEnd(c) /\ UNCHANGED file
    /\ UNCHANGED <<used, session, mpu, object, put, del, interrupts>>

CompCreate(c) ==
    /\ comp[c].pc = "create"
    /\ file' = [file EXCEPT ![c] = [key |-> comp[c].sess,
                                    size |-> Total(comp[c].list)]]
    /\ CompMove(c, "settle")
    /\ UNCHANGED <<used, session, mpu, object, put, del, interrupts>>

\* What the deleted file gives back beyond the reservation, or what the
\* reservation fell short of; the latter is charged without looking at the quota.
Balance(c) == comp[c].old + comp[c].reserve - Total(comp[c].list)

\* Mutation: the replaced file is refunded although the reservation was net of it.
CompSettleGross(c) ==
    /\ comp[c].pc = "settle"
    /\ used' = Refunded(used, comp[c].old)
    /\ IF comp[c].oldKey = None THEN CompEnd(c) ELSE CompMove(c, "cleanup")
    /\ UNCHANGED <<session, mpu, object, file, put, del, interrupts>>

CompSettle(c) ==
    /\ comp[c].pc = "settle"
    /\ used' = IF Balance(c) > 0 THEN Refunded(used, Balance(c)) ELSE used - Balance(c)
    /\ IF comp[c].oldKey = None THEN CompEnd(c) ELSE CompMove(c, "cleanup")
    /\ UNCHANGED <<session, mpu, object, file, put, del, interrupts>>

CompCleanup(c) ==
    /\ comp[c].pc = "cleanup"
    /\ object' = [object EXCEPT ![comp[c].oldKey] = None]
    /\ CompEnd(c)
    /\ UNCHANGED <<used, session, mpu, file, put, del, interrupts>>

\* A statement throws or the process restarts: the rest of the handler is lost.
Interrupt(c) ==
    /\ comp[c].pc \notin {"idle", "done"}
    /\ interrupts < MaxInterrupts
    /\ interrupts' = interrupts + 1
    /\ CompEnd(c)
    /\ UNCHANGED <<used, session, mpu, object, file, put, del>>

-----------------------------------------------------------------------------
(* DELETE /:id *)

DelMove(d, step) == del' = [del EXCEPT ![d].pc = step]

\* Whether to touch the storage is decided on the flag as read here.
DelStart(d, s) ==
    /\ del[d].pc = "idle"
    /\ Live(s)
    /\ del' = [del EXCEPT ![d] = [pc |-> IF session[s].completed THEN "row" ELSE "abort",
                                  sess |-> s]]
    /\ UNCHANGED <<used, session, mpu, object, file, put, comp, interrupts>>

DelAbort(d) ==
    /\ del[d].pc = "abort"
    /\ mpu' = [mpu EXCEPT ![del[d].sess] = NoUpload]
    /\ DelMove(d, "remove")
    /\ UNCHANGED <<used, session, object, file, put, comp, interrupts>>

DelRemove(d) ==
    /\ del[d].pc = "remove"
    /\ object' = [object EXCEPT ![del[d].sess] = None]
    /\ DelMove(d, "row")
    /\ UNCHANGED <<used, session, mpu, file, put, comp, interrupts>>

\* A row that is already gone makes the statement throw; nothing changes.
DelRow(d) ==
    /\ del[d].pc = "row"
    /\ session' = [session EXCEPT ![del[d].sess].state = "deleted",
                                  ![del[d].sess].parts = NoParts]
    /\ DelMove(d, "done")
    /\ UNCHANGED <<used, mpu, object, file, put, comp, interrupts>>

-----------------------------------------------------------------------------
PutStep(p) == PutUpload(p) \/ PutRecord(p) \/ PutReread(p)

CompStep(c) ==
    \/ CompClaim(c) \/ CompAbort(c)
    \/ CompRefund(c) \/ CompReserve(c) \/ CompAssemble(c)
    \/ CompFindOld(c) \/ CompDeleteOld(c) \/ CompCreate(c)
    \/ CompSettle(c) \/ CompCleanup(c)

DelStep(d) == DelAbort(d) \/ DelRemove(d) \/ DelRow(d)

Next ==
    \/ \E s \in Sessions, size \in Declared, f \in Files \cup {None} :
         OpenSession(s, size, f)
    \/ \E p \in Puts :
         \/ PutStep(p)
         \/ \E s \in Sessions, n \in PartNumbers, size \in Sizes :
              PutStart(p, s, n, size)
    \/ \E c \in Completes :
         \/ CompStep(c)
         \/ \E s \in Sessions : CompStart(c, s)
         \/ Interrupt(c)
    \/ \E d \in Deletes :
         \/ DelStep(d)
         \/ \E s \in Sessions : DelStart(d, s)

Spec == Init /\ [][Next]_vars

-----------------------------------------------------------------------------
(* Properties *)

\* However often and however concurrently complete() is sent, one session
\* becomes at most one File row.
OneFilePerSession ==
    \A c1, c2 \in Completes :
        file[c1] # None /\ file[c2] # None /\ file[c1].key = file[c2].key => c1 = c2

\* A completion owns its session from the claim until the file it made is gone.
Owns(c, s) ==
    /\ comp[c].sess = s
    /\ \/ comp[c].pc \in CompSteps \ {"idle", "claim", "done"}
       \/ file[c] # None

\* A session has at most one owner; an owned session is marked completed and
\* stays marked; a file is stored under the key of the session its maker owns.
SessionOwner ==
    \A c \in Completes :
        /\ file[c] # None => /\ comp[c].pc \in {"settle", "cleanup", "done"}
                             /\ file[c].key = comp[c].sess
        /\ \A s \in Sessions :
             Owns(c, s) => /\ session[s].completed
                           /\ session[s].state # "absent"
                           /\ \A o \in Completes : Owns(o, s) => o = c

\* A part that was answered with success stays in its session's list, whatever
\* other parts are recorded at the same time.
NoAckLost ==
    \A p \in Puts :
        put[p].pc = "stored" /\ Live(put[p].sess) =>
            session[put[p].sess].parts[put[p].n] # 0

\* The recorded parts never add up to more than the declared size allows.
RecordedBound ==
    \A s \in Sessions : Live(s) => Total(session[s].parts) <= session[s].size + Slack

\* Every File row has its object, assembled from parts 1..N of the bytes the
\* row is billed for.
FileStored ==
    \A c \in Completes :
        file[c] # None =>
            /\ object[file[c].key] # None
            /\ Contiguous(object[file[c].key])
            /\ Total(object[file[c].key]) = file[c].size

\* Bytes of all File rows.
Stored == SumFunction([f \in Files |-> RefundFor(f)])

\* What the balance holds on behalf of a completion still under way.
Owed(c) ==
    IF comp[c].pc \in {"assemble", "findOld", "deleteOld"} THEN comp[c].reserve
    ELSE IF comp[c].pc = "create" THEN comp[c].reserve + comp[c].old
    ELSE IF comp[c].pc = "settle" THEN Balance(c)
    ELSE 0

\* The balance is the bytes of the File rows plus what running completions
\* hold: nothing is charged twice, refunded twice or left behind.
ExactBooks == used = Stored + SumFunction([c \in Completes |-> Owed(c)])

\* The balance never falls below the bytes that are stored: failures, aborts
\* and interruptions may leave too much charged but never too little.
NeverUndercharged == used >= Stored + SumFunction([c \in Completes |-> Owed(c)])

\* The owner's balance stays within the quota.
QuotaHolds == used <= Quota

\* Once a completion has claimed a session, no DELETE is left that is about to
\* abort its multipart upload or to remove its object.
AbortSparesClaimed ==
    \A d \in Deletes, c \in Completes :
        del[d].pc \in {"abort", "remove"} /\ comp[c].sess = del[d].sess =>
            comp[c].pc \in {"claim", "abort", "done"} /\ file[c] = None
=============================================================================
