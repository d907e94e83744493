------------------------ MODULE ChunkedUploadProofs -------------------------
(***************************************************************************)
(* Proofs about the chunked upload, for any sessions, requests, part sizes *)
(* and quota: a session becomes at most one file, its recorded parts and   *)
(* the objects of its file stay, and the balance covers all that is stored *)
(* or held, exactly so while nothing is cut short.                         *)
(*                                                                         *)
(* The invariants, each over the ones before: Inv (who owns a session),    *)
(* TypeOK and Refs (rows a request holds are there), Replacing (whose file *)
(* a session replaces), Terms (what each request may count on; needs       *)
(* NoRivals), Removing and Kept (objects on their way out are nobody's;    *)
(* needs AbortSparesClaimed), Uploaded (what is listed is in MinIO), CutAs *)
(* (and is the file's own part; needs SentAs).                             *)
(***************************************************************************)
EXTENDS ChunkedUpload, SumProofs, TLAPS

\* The part of the typing the argument needs: which fields the rows have.
Shape ==
    /\ DOMAIN session = Sessions
    /\ DOMAIN comp = Completes
    /\ DOMAIN file = Files
    /\ \A s \in Sessions : {"state", "completed"} \subseteq DOMAIN session[s]
    /\ \A c \in Completes :
         /\ {"pc", "sess"} \subseteq DOMAIN comp[c]
         /\ comp[c].pc \in CompSteps
         /\ comp[c].pc # "idle" => comp[c].sess \in Sessions

Inv == Shape /\ SessionOwner

LEMMA InvInit == Init => Inv
  BY UploadAssumption DEF Init, Inv, Shape, SessionOwner, Owns, NoSession, IdleComp, CompSteps, Files

\* The steps that leave completions and files alone.
LEMMA PutsKeep ==
    ASSUME Inv, NEW p \in Puts,
           PutStep(p) \/ \E s \in Sessions, n \in PartNumbers, size \in Sizes :
                            PutStart(p, s, n, size)
    PROVE  Inv'
<1>1. UNCHANGED <<comp, file>>
  BY DEF PutStep, PutStart, PutUpload, PutRecord, PutReread
<1>2. \/ session' = session
      \/ \E s, v : session' = [session EXCEPT ![s].parts = v]
  <2>1. CASE PutRecord(p)
    BY <2>1 DEF PutRecord
  <2>2. CASE ~PutRecord(p)
    BY <2>2 DEF PutStep, PutStart, PutUpload, PutReread
  <2> QED
    BY <2>1, <2>2
<1>3. /\ DOMAIN session' = Sessions
      /\ \A t \in Sessions : /\ {"state", "completed"} \subseteq DOMAIN session'[t]
                             /\ session'[t].state = session[t].state
                             /\ session'[t].completed = session[t].completed
  BY <1>2 DEF Inv, Shape
<1> QED
  BY <1>1, <1>3 DEF Inv, Shape, SessionOwner, Owns

LEMMA DeletesKeep ==
    ASSUME Inv, NEW d \in Deletes,
           DelStep(d) \/ \E s \in Sessions : DelStart(d, s)
    PROVE  Inv'
  BY DEF Inv, Shape, SessionOwner, Owns, DelStep, DelStart, DelAbort, DelRemove, DelRow

\* A new session has no owner yet: an owned one is never absent.
LEMMA OpenKeeps ==
    ASSUME Inv, NEW s \in Sessions, NEW size \in Declared,
           NEW f \in Files \cup {None}, OpenSession(s, size, f)
    PROVE  Inv'
  BY DEF Inv, Shape, SessionOwner, Owns, OpenSession

LEMMA StartKeeps ==
    ASSUME Inv, NEW c \in Completes, NEW s \in Sessions, CompStart(c, s)
    PROVE  Inv'
<1>1. comp[c].pc = "idle" /\ file[c] = None
  BY DEF Inv, SessionOwner, CompStart
<1> QED
  BY <1>1 DEF Inv, Shape, SessionOwner, Owns, CompStart, IdleComp, CompSteps

\* Request c goes on to a step, and no other request moves.
MovesTo(c, step) ==
    /\ DOMAIN comp' = Completes
    /\ \A o \in Completes \ {c} : comp'[o] = comp[o]
    /\ {"pc", "sess"} \subseteq DOMAIN comp'[c]
    /\ comp'[c].sess = comp[c].sess
    /\ comp'[c].pc = step

LEMMA MoveMoves ==
    ASSUME Shape, NEW c \in Completes, NEW step, CompMove(c, step)
    PROVE  MovesTo(c, step)
  BY DEF Shape, CompMove, MovesTo

LEMMA EndMoves ==
    ASSUME Shape, NEW c \in Completes, CompEnd(c)
    PROVE  MovesTo(c, "done")
  BY DEF Shape, CompEnd, MovesTo, IdleComp

\* The claim is the only step that makes an owner.  It finds the session open,
\* and an owned session is not: no other request owns it, before or after.
LEMMA ClaimKeeps ==
    ASSUME Inv, NEW c \in Completes, CompClaim(c)
    PROVE  Inv'
<1> DEFINE s == comp[c].sess
<1>1. /\ s \in Sessions
      /\ comp[c].pc = "claim"
      /\ file[c] = None
  BY DEF Inv, Shape, SessionOwner, CompClaim
<1>2. file' = file
  BY DEF CompClaim
<1>3. CASE ~Open(s)
  <2>1. session' = session /\ CompEnd(c)
    BY <1>3 DEF CompClaim
  <2>2. MovesTo(c, "done")
    BY <2>1, EndMoves DEF Inv
  <2> QED
    BY <1>1, <1>2, <2>1, <2>2 DEF Inv, Shape, SessionOwner, Owns, MovesTo, CompSteps
<1>4. CASE Open(s)
  <2>1. /\ session' = [session EXCEPT ![s].completed = TRUE]
        /\ CompEnd(c) \/ CompMove(c, "refund") \/ CompMove(c, "abort")
    BY <1>4 DEF CompClaim
  <2>2. PICK step \in {"done", "refund", "abort"} : MovesTo(c, step)
    BY <2>1, EndMoves, MoveMoves DEF Inv
  <2>3. \A o \in Completes : ~Owns(o, s)
    BY <1>1, <1>4 DEF Inv, SessionOwner, Open
  <2>4. /\ DOMAIN session' = Sessions
        /\ \A t \in Sessions : /\ {"state", "completed"} \subseteq DOMAIN session'[t]
                               /\ session'[t].state = session[t].state
                               /\ session[t].completed => session'[t].completed
        /\ session'[s].completed /\ session'[s].state # "absent"
    BY <1>1, <1>4, <2>1 DEF Inv, Shape, Open, Live
  <2>5. Shape'
    BY <1>1, <1>2, <2>2, <2>4 DEF Inv, Shape, MovesTo, CompSteps
  <2>6. \A o \in Completes \ {c}, t \in Sessions : Owns(o, t)' <=> Owns(o, t)
    BY <1>2, <2>2 DEF MovesTo, Owns
  <2>7. \A t \in Sessions : Owns(c, t)' => t = s
    BY <1>2, <2>2 DEF MovesTo, Owns
  <2>8. SessionOwner'
    BY <1>1, <1>2, <2>2, <2>3, <2>4, <2>6, <2>7 DEF MovesTo, Inv, SessionOwner
  <2> QED
    BY <2>5, <2>8 DEF Inv
<1> QED
  BY <1>3, <1>4

\* Every later step: it makes no owner, and the only file it may add is that of
\* the request that takes it, under the key of the session it owns.
LEMMA LaterStep ==
    ASSUME Inv, NEW c \in Completes,
           NEW step \in CompSteps \ {"idle", "claim"}, MovesTo(c, step),
           comp[c].pc # "idle",
           session' = session,
           step # "done" => Owns(c, comp[c].sess),
           DOMAIN file' = Files,
           \A o \in Completes \ {c} : file'[o] \in {None, file[o]},
           \/ file'[c] = file[c] /\ (file[c] # None => step \in {"settle", "cleanup", "done"})
           \/ file'[c].key = comp[c].sess /\ step = "settle"
    PROVE  Inv'
<1> DEFINE s == comp[c].sess
<1>1. s \in Sessions
  BY DEF Inv, Shape
<1>2. Shape'
  BY <1>1 DEF Inv, Shape, MovesTo
<1>3. \A o \in Completes \ {c}, t \in Sessions : Owns(o, t)' => Owns(o, t)
  BY DEF MovesTo, Owns
<1>4. \A t \in Sessions : Owns(c, t)' => t = s /\ Owns(c, s)
  BY DEF MovesTo, Owns
<1>5. \A o \in Completes : file'[o] # None =>
        /\ comp'[o].pc \in {"settle", "cleanup", "done"}
        /\ file'[o].key = comp'[o].sess
  BY DEF Inv, SessionOwner, MovesTo
<1>6. SessionOwner'
  BY <1>1, <1>3, <1>4, <1>5 DEF Inv, SessionOwner
<1> QED
  BY <1>2, <1>6 DEF Inv

LEMMA CompStepKeeps ==
    ASSUME Inv, NEW c \in Completes, CompStep(c)
    PROVE  Inv'
<1> USE DEF CompSteps
<1> DEFINE Owner == Owns(c, comp[c].sess)
<1>0. Shape /\ DOMAIN file = Files
  BY DEF Inv, Shape
<1>1. CASE CompClaim(c)
  BY <1>1, ClaimKeeps
<1>2. CASE CompAbort(c)
  <2>1. MovesTo(c, "done") /\ comp[c].pc = "abort" /\ UNCHANGED <<session, file>>
    BY <1>0, <1>2, EndMoves DEF CompAbort
  <2> QED
    BY <1>0, <2>1, LaterStep
<1>3. CASE CompRefund(c)
  <2>1. MovesTo(c, "reserve") /\ comp[c].pc = "refund" /\ UNCHANGED <<session, file>>
    BY <1>0, <1>3 DEF CompRefund, Shape, MovesTo
  <2>2. Owner /\ file[c] = None
    BY <2>1 DEF Owns, Inv, SessionOwner
  <2> QED
    BY <1>0, <2>1, <2>2, LaterStep
<1>4. CASE CompReserve(c)
  <2>1. comp[c].pc = "reserve" /\ UNCHANGED <<session, file>>
    BY <1>4 DEF CompReserve
  <2>2. MovesTo(c, "assemble") \/ MovesTo(c, "abort")
    <3>1. \/ CompMove(c, "abort")
          \/ \E n : comp' = [comp EXCEPT ![c].pc = "assemble", ![c].reserve = n]
      BY <1>4 DEF CompReserve
    <3>2. ASSUME NEW n, comp' = [comp EXCEPT ![c].pc = "assemble", ![c].reserve = n]
          PROVE  MovesTo(c, "assemble")
      BY <1>0, <3>2 DEF Shape, MovesTo
    <3> QED
      BY <1>0, <3>1, <3>2, MoveMoves
  <2>3. Owner /\ file[c] = None
    BY <2>1 DEF Owns, Inv, SessionOwner
  <2> QED
    BY <1>0, <2>1, <2>2, <2>3, LaterStep
<1>5. CASE CompAssemble(c)
  <2>1. comp[c].pc = "assemble" /\ UNCHANGED <<session, file>>
    BY <1>5 DEF CompAssemble
  <2>2. CompMove(c, "create") \/ CompMove(c, "findOld") \/ CompEnd(c)
    BY <1>5 DEF CompAssemble
  <2>3. MovesTo(c, "create") \/ MovesTo(c, "findOld") \/ MovesTo(c, "done")
    BY <1>0, <2>2, MoveMoves, EndMoves
  <2>4. Owner /\ file[c] = None
    BY <2>1 DEF Owns, Inv, SessionOwner
  <2> QED
    BY <1>0, <2>1, <2>3, <2>4, LaterStep
<1>6. CASE CompFindOld(c)
  <2>1. comp[c].pc = "findOld" /\ UNCHANGED <<session, file>>
    BY <1>6 DEF CompFindOld
  <2>2. MovesTo(c, "deleteOld") \/ MovesTo(c, "create")
    <3>1. \/ CompMove(c, "create")
          \/ \E n, k : comp' = [comp EXCEPT ![c].pc = "deleteOld", ![c].old = n,
                                            ![c].oldKey = k]
      BY <1>6 DEF CompFindOld
    <3>2. ASSUME NEW n, NEW k,
                 comp' = [comp EXCEPT ![c].pc = "deleteOld", ![c].old = n, ![c].oldKey = k]
          PROVE  MovesTo(c, "deleteOld")
      BY <1>0, <3>2 DEF Shape, MovesTo
    <3> QED
      BY <1>0, <3>1, <3>2, MoveMoves
  <2>3. Owner /\ file[c] = None
    BY <2>1 DEF Owns, Inv, SessionOwner
  <2> QED
    BY <1>0, <2>1, <2>2, <2>3, LaterStep
<1>7. CASE CompDeleteOld(c)
  <2>1. /\ comp[c].pc = "deleteOld" /\ session' = session
        /\ DOMAIN file' = Files
        /\ \A o \in Completes : file'[o] \in {None, file[o]}
        /\ CompMove(c, "create") \/ CompEnd(c)
    BY <1>0, <1>7 DEF CompDeleteOld, Files
  <2>2. MovesTo(c, "create") \/ MovesTo(c, "done")
    BY <1>0, <2>1, MoveMoves, EndMoves
  <2>3. Owner /\ file[c] = None
    BY <2>1 DEF Owns, Inv, SessionOwner
  <2> QED
    BY <1>0, <2>1, <2>2, <2>3, LaterStep
<1>8. CASE CompCreate(c)
  <2>1. /\ comp[c].pc = "create" /\ session' = session
        /\ MovesTo(c, "settle")
        /\ DOMAIN file' = Files
        /\ \A o \in Completes \ {c} : file'[o] = file[o]
        /\ file'[c].key = comp[c].sess
    BY <1>0, <1>8, MoveMoves DEF CompCreate, Files
  <2>2. Owner
    BY <2>1 DEF Owns
  <2> QED
    BY <2>1, <2>2, LaterStep
<1>9. CASE CompSettle(c)
  <2>1. /\ comp[c].pc = "settle" /\ UNCHANGED <<session, file>>
        /\ MovesTo(c, "cleanup") \/ MovesTo(c, "done")
    BY <1>0, <1>9, MoveMoves, EndMoves DEF CompSettle
  <2>2. Owner
    BY <2>1 DEF Owns
  <2> QED
    BY <1>0, <2>1, <2>2, LaterStep
<1>10. CASE CompCleanup(c)
  <2>1. MovesTo(c, "done") /\ comp[c].pc = "cleanup" /\ UNCHANGED <<session, file>>
    BY <1>0, <1>10, EndMoves DEF CompCleanup
  <2> QED
    BY <1>0, <2>1, LaterStep
<1> QED
  BY <1>1, <1>2, <1>3, <1>4, <1>5, <1>6, <1>7, <1>8, <1>9, <1>10 DEF CompStep

LEMMA InterruptKeeps ==
    ASSUME Inv, NEW c \in Completes, Interrupt(c)
    PROVE  Inv'
<1>1. MovesTo(c, "done") /\ comp[c].pc # "idle" /\ UNCHANGED <<session, file>>
  BY EndMoves DEF Interrupt, Inv
<1> QED
  BY <1>1, LaterStep DEF CompSteps, Inv, Shape

LEMMA InvStep == Inv /\ [Next]_vars => Inv'
<1> SUFFICES ASSUME Inv, [Next]_vars PROVE Inv'
  OBVIOUS
<1>1. CASE UNCHANGED vars
  BY <1>1 DEF vars, Inv, Shape, SessionOwner, Owns
<1>2. CASE Next
  BY <1>2, OpenKeeps, PutsKeep, StartKeeps, CompStepKeeps, InterruptKeeps, DeletesKeep DEF Next
<1> QED
  BY <1>1, <1>2

\* However requests interleave, fail or repeat, a session has one owner at most:
\* one request works on it, or made the file stored under its key.
THEOREM OneOwner == Spec => []SessionOwner
<1>1. Inv => SessionOwner
  BY DEF Inv
<1> QED
  BY <1>1, InvInit, InvStep, PTL DEF Spec

\* A session sent to complete() any number of times becomes one File row at most.
THEOREM OneFile == Spec => []OneFilePerSession
<1>1. Inv => OneFilePerSession
  <2> SUFFICES ASSUME Inv, NEW c1 \in Completes, NEW c2 \in Completes,
                      file[c1] # None, file[c2] # None, file[c1].key = file[c2].key
               PROVE  c1 = c2
    BY DEF OneFilePerSession
  <2>1. file[c1].key = comp[c1].sess /\ comp[c1].sess = comp[c2].sess
    BY DEF Inv, SessionOwner
  <2>2. comp[c1].sess \in Sessions
    BY DEF Inv, SessionOwner, Shape
  <2>3. Owns(c1, comp[c1].sess) /\ Owns(c2, comp[c1].sess)
    BY <2>1 DEF Owns
  <2> QED
    BY <2>2, <2>3 DEF Inv, SessionOwner
<1> QED
  BY <1>1, InvInit, InvStep, PTL DEF Spec

-----------------------------------------------------------------------------
(* The type of every variable *)

LEMMA TotalOfParts ==
    /\ NoParts \in Parts /\ Total(NoParts) = 0
    /\ \A list \in Parts : Total(list) \in Nat
<1>1. IsFiniteSet(PartNumbers) /\ Sizes \cup {0} \subseteq Nat
  BY UploadAssumption
<1>2. \A list \in Parts : list \in [PartNumbers -> Nat]
  BY <1>1 DEF Parts
<1> QED
  BY <1>1, <1>2, TotalNat, TotalZero DEF Parts, NoParts, Total

\* A request that was started is about a session that exists, which from then on
\* keeps its size and the file it replaces; a completion that looks for a file to
\* replace has one; a body has a size.
Exists(s) == s \in Sessions /\ session[s].state # "absent"
Refs ==
    /\ \A p \in Puts : put[p].pc # "idle" => Exists(put[p].sess)
    /\ \A p \in Puts : put[p].pc \in {"upload", "record", "reread"} => put[p].size \in Sizes
    /\ \A c \in Completes : comp[c].pc # "idle" => Exists(comp[c].sess)
    /\ \A c \in Completes : comp[c].pc \in {"findOld", "deleteOld"} =>
                              session[comp[c].sess].replaces # None
    /\ \A d \in Deletes : del[d].pc # "idle" => Exists(del[d].sess)

USE DEF PutSteps, CompSteps, DelSteps

LEMMA TypeInit == Init => TypeOK /\ Refs
<1>1. NoParts \in Parts /\ OldBytes \in Nat /\ MaxInterrupts \in Nat /\ PartAttempts \in Nat \ {0}
  BY TotalOfParts, UploadAssumption
<1>2. 1 \in PartNumbers
  BY UploadAssumption, FS_CardinalityType
<1>3. None \notin Sessions \cup Files
  BY UploadAssumption DEF Files
<1> QED
  BY <1>1, <1>2, <1>3 DEF Init, TypeOK, Refs, NoSession, NoUpload, IdlePut, IdleComp, IdleDel, Keys, Files, SessionRow

\* Sessions do not vanish, and keep what was declared for them.
RowsKept ==
    \A s \in Sessions : session[s].state # "absent" =>
        /\ session'[s].state # "absent"
        /\ session'[s].size = session[s].size
        /\ session'[s].replaces = session[s].replaces
        /\ session[s].completed => session'[s].completed
        /\ session[s].state = "deleted" => session'[s].state = "deleted"

LEMMA TypeOpen ==
    ASSUME TypeOK, Refs, NEW s \in Sessions, NEW size \in Declared, NEW f \in Files \cup {None},
           OpenSession(s, size, f)
    PROVE  TypeOK' /\ Refs' /\ RowsKept
<1>1. [state |-> "live", completed |-> FALSE, size |-> size, replaces |-> f, parts |-> NoParts] \in SessionRow
  BY TotalOfParts DEF SessionRow
<1>2. session' \in [Sessions -> SessionRow] /\ RowsKept
  BY <1>1 DEF OpenSession, TypeOK, RowsKept
<1>3. mpu' \in [Sessions -> [open : BOOLEAN, parts : Parts]]
  BY TotalOfParts DEF OpenSession, TypeOK
<1>4. TypeOK'
  BY <1>2, <1>3 DEF OpenSession, TypeOK
<1>5. Refs'
  BY <1>2 DEF OpenSession, Refs, Exists, RowsKept
<1> QED
  BY <1>2, <1>4, <1>5

LEMMA TypePutStart ==
    ASSUME TypeOK, Refs, NEW p \in Puts, NEW s \in Sessions, NEW n \in PartNumbers, NEW size \in Sizes,
           PutStart(p, s, n, size)
    PROVE  TypeOK' /\ Refs' /\ RowsKept
<1>1. session[s].parts \in Parts /\ PartAttempts - 1 \in Nat /\ Exists(s)
  BY UploadAssumption DEF TypeOK, SessionRow, PutStart, Open, Live, Exists
<1>2. TypeOK'
  BY <1>1 DEF PutStart, TypeOK
<1>3. Refs'
  BY <1>1 DEF PutStart, Refs, Exists, TypeOK
<1> QED
  BY <1>2, <1>3 DEF PutStart, RowsKept


\* The rows of the three kinds of request
PutRow == [pc : PutSteps, sess : Sessions \cup {None}, n : PartNumbers, size : Sizes \cup {0},
           list : Parts, tries : 0..(PartAttempts - 1)]
CompRow == [pc : CompSteps, sess : Sessions \cup {None}, list : Parts, refund : Nat, reserve : Nat,
            old : Nat, oldKey : Keys \cup {None}]

\* A PUT goes on or ends.
PutGoes(p, step) ==
    /\ put' \in [Puts -> PutRow]
    /\ \A q \in Puts \ {p} : put'[q] = put[q]
    /\ put'[p].pc = step /\ put'[p].sess = put[p].sess /\ put'[p].n = put[p].n

LEMMA PutGoing ==
    ASSUME TypeOK, NEW p \in Puts, NEW step \in PutSteps
    PROVE  /\ PutMove(p, step) => PutGoes(p, step) /\ put'[p].size = put[p].size
           /\ PutEnd(p, step) => PutGoes(p, step)
<1>1. NoParts \in Parts /\ 0 \in 0..(PartAttempts - 1)
  BY TotalOfParts, UploadAssumption
<1>2. put \in [Puts -> PutRow]
  BY DEF TypeOK, PutRow
<1>3. ASSUME PutMove(p, step) PROVE PutGoes(p, step) /\ put'[p].size = put[p].size
  BY <1>2, <1>3 DEF PutMove, PutGoes, PutRow
<1>4. ASSUME PutEnd(p, step) PROVE PutGoes(p, step)
  <2> DEFINE row == [IdlePut EXCEPT !.pc = step, !.sess = put[p].sess, !.n = put[p].n]
  <2>1. row \in PutRow /\ row.pc = step /\ row.sess = put[p].sess /\ row.n = put[p].n
    BY <1>1, <1>2 DEF IdlePut, PutRow
  <2>2. put' = [put EXCEPT ![p] = row]
    BY <1>4 DEF PutEnd
  <2> HIDE DEF row
  <2> QED
    BY <1>2, <2>1, <2>2 DEF PutGoes
<1> QED
  BY <1>3, <1>4

LEMMA TypePutUpload ==
    ASSUME TypeOK, Refs, NEW p \in Puts, PutUpload(p)
    PROVE  TypeOK' /\ Refs' /\ RowsKept
<1>1. put[p].sess \in Sessions /\ put[p].size \in Sizes /\ put[p].n \in PartNumbers
  BY DEF PutUpload, Refs, Exists, TypeOK
<1>2. mpu' \in [Sessions -> [open : BOOLEAN, parts : Parts]]
  <2> DEFINE s == put[p].sess
             list == [mpu[s].parts EXCEPT ![put[p].n] = put[p].size]
  <2>1. list \in Parts
    BY <1>1 DEF TypeOK, Parts
  <2>2. mpu' = mpu \/ mpu' = [mpu EXCEPT ![s].parts = list]
    BY DEF PutUpload
  <2> HIDE DEF list
  <2> QED
    BY <1>1, <2>1, <2>2 DEF TypeOK
<1>3. (PutGoes(p, "record") /\ put'[p].size = put[p].size) \/ PutGoes(p, "refused")
  BY PutGoing DEF PutUpload
<1>4. TypeOK'
  BY <1>2, <1>3 DEF PutUpload, TypeOK, PutGoes, PutRow
<1>5. Refs'
  BY <1>1, <1>3 DEF PutUpload, Refs, Exists, PutGoes
<1> QED
  BY <1>4, <1>5 DEF PutUpload, RowsKept

LEMMA TypePutRecord ==
    ASSUME TypeOK, Refs, NEW p \in Puts, PutRecord(p)
    PROVE  TypeOK' /\ Refs' /\ RowsKept
<1>1. put[p].sess \in Sessions /\ put[p].size \in Sizes /\ put[p].n \in PartNumbers
  BY DEF PutRecord, Refs, Exists, TypeOK
<1>2. session' \in [Sessions -> SessionRow] /\ RowsKept
  <2> DEFINE s == put[p].sess
             list == [session[s].parts EXCEPT ![put[p].n] = put[p].size]
  <2>1. list \in Parts
    BY <1>1 DEF TypeOK, Parts, SessionRow
  <2>2. session' = session \/ session' = [session EXCEPT ![s].parts = list]
    BY DEF PutRecord
  <2> HIDE DEF list
  <2>3. session' \in [Sessions -> SessionRow]
    <3>1. session[s] \in SessionRow
      BY <1>1 DEF TypeOK
    <3>2. [session[s] EXCEPT !.parts = list] \in SessionRow
      BY <2>1, <3>1 DEF SessionRow
    <3> QED
      BY <1>1, <2>2, <3>2 DEF TypeOK
  <2>4. \A t \in Sessions : /\ session'[t].state = session[t].state /\ session'[t].size = session[t].size
                            /\ session'[t].replaces = session[t].replaces
                            /\ session'[t].completed = session[t].completed
    BY <1>1, <2>2 DEF TypeOK, SessionRow
  <2> QED
    BY <2>3, <2>4 DEF RowsKept
<1>3. \/ PutGoes(p, "reread") /\ put'[p].size = put[p].size
      \/ PutGoes(p, "refused") \/ PutGoes(p, "stored")
  BY PutGoing DEF PutRecord
<1>4. TypeOK'
  BY <1>2, <1>3 DEF PutRecord, TypeOK, PutGoes, PutRow
<1>5. Refs'
  BY <1>1, <1>2, <1>3 DEF PutRecord, Refs, Exists, PutGoes, RowsKept
<1> QED
  BY <1>2, <1>4, <1>5

LEMMA RereadGoes ==
    ASSUME TypeOK, Refs, NEW p \in Puts, PutReread(p)
    PROVE  \/ PutGoes(p, "record") /\ put'[p].size = put[p].size
           \/ PutGoes(p, "refused")
<1>1. put[p].sess \in Sessions
  BY DEF PutReread, Refs, Exists
<1>2. CASE Open(put[p].sess) /\ put[p].tries + 1 < PartAttempts
  <2>1. session[put[p].sess].parts \in Parts
    BY <1>1 DEF TypeOK, SessionRow
  <2>2. put[p].tries + 1 \in 0..(PartAttempts - 1)
    BY <1>2, UploadAssumption DEF TypeOK
  <2> QED
    BY <1>2, <2>1, <2>2 DEF PutReread, PutGoes, PutRow, TypeOK
<1>3. CASE ~(Open(put[p].sess) /\ put[p].tries + 1 < PartAttempts)
  BY <1>3, PutGoing DEF PutReread
<1> QED
  BY <1>2, <1>3

LEMMA TypePutReread ==
    ASSUME TypeOK, Refs, NEW p \in Puts, PutReread(p)
    PROVE  TypeOK' /\ Refs' /\ RowsKept
<1>1. put[p].sess \in Sessions /\ put[p].size \in Sizes
  BY DEF PutReread, Refs, Exists, TypeOK
<1>2. \/ PutGoes(p, "record") /\ put'[p].size = put[p].size
      \/ PutGoes(p, "refused")
  BY RereadGoes
<1>3. TypeOK'
  BY <1>2 DEF PutReread, TypeOK, PutGoes, PutRow
<1>4. Refs'
  BY <1>1, <1>2 DEF PutReread, Refs, Exists, PutGoes
<1> QED
  BY <1>3, <1>4 DEF PutReread, RowsKept

\* A completion goes on or ends.
CompGoes(c, step) ==
    /\ comp' \in [Completes -> CompRow]
    /\ \A o \in Completes \ {c} : comp'[o] = comp[o]
    /\ comp'[c].pc = step /\ comp'[c].sess = comp[c].sess

\* What it has read and reserved so far stays.
CompKeeps(c) ==
    /\ comp'[c].list = comp[c].list /\ comp'[c].refund = comp[c].refund
    /\ comp'[c].reserve = comp[c].reserve /\ comp'[c].old = comp[c].old /\ comp'[c].oldKey = comp[c].oldKey

LEMMA CompGoing ==
    ASSUME TypeOK, NEW c \in Completes, NEW step \in CompSteps
    PROVE  /\ CompMove(c, step) => CompGoes(c, step) /\ CompKeeps(c)
           /\ CompEnd(c) => CompGoes(c, "done")
<1>1. NoParts \in Parts
  BY TotalOfParts
<1>2. comp \in [Completes -> CompRow]
  BY DEF TypeOK, CompRow
<1>3. ASSUME CompMove(c, step) PROVE CompGoes(c, step) /\ CompKeeps(c)
  BY <1>2, <1>3 DEF CompMove, CompGoes, CompKeeps, CompRow
<1>4. ASSUME CompEnd(c) PROVE CompGoes(c, "done")
  <2> DEFINE row == [IdleComp EXCEPT !.pc = "done", !.sess = comp[c].sess]
  <2>1. row \in CompRow /\ row.pc = "done" /\ row.sess = comp[c].sess
    BY <1>1, <1>2 DEF IdleComp, CompRow
  <2>2. comp' = [comp EXCEPT ![c] = row]
    BY <1>4 DEF CompEnd
  <2> HIDE DEF row
  <2> QED
    BY <1>2, <2>1, <2>2 DEF CompGoes
<1> QED
  BY <1>3, <1>4

LEMMA TypeCompStart ==
    ASSUME TypeOK, Refs, NEW c \in Completes, NEW s \in Sessions, CompStart(c, s)
    PROVE  TypeOK' /\ Refs' /\ RowsKept
<1>1. session[s].parts \in Parts /\ Exists(s)
  BY DEF TypeOK, SessionRow, CompStart, Open, Live, Exists
<1>2. CompRow = [pc : CompSteps, sess : Sessions \cup {None}, list : Parts, refund : Nat, reserve : Nat,
                 old : Nat, oldKey : Keys \cup {None}]
  BY DEF CompRow
<1>3. [IdleComp EXCEPT !.pc = "claim", !.sess = s, !.list = session[s].parts] \in CompRow
  BY <1>1 DEF IdleComp, CompRow
<1>4. TypeOK'
  BY <1>2, <1>3 DEF CompStart, TypeOK
<1>5. Refs'
  BY <1>1 DEF CompStart, Refs, Exists, TypeOK, IdleComp
<1> QED
  BY <1>4, <1>5 DEF CompStart, RowsKept

\* What follows for a step of a completion that leaves the sessions alone.
LEMMA TypeComp ==
    ASSUME TypeOK, Refs, NEW c \in Completes, NEW step \in CompSteps, CompGoes(c, step),
           comp[c].pc # "idle", UNCHANGED <<put, del>>,
           RowsKept, session' \in [Sessions -> SessionRow],
           step \in {"findOld", "deleteOld"} => session[comp[c].sess].replaces # None,
           used' \in Nat, mpu' \in [Sessions -> [open : BOOLEAN, parts : Parts]],
           object' \in [Keys -> Parts \cup {None}],
           file' \in [Files -> [key : Keys, size : Nat] \cup {None}],
           interrupts' \in 0..MaxInterrupts
    PROVE  TypeOK' /\ Refs' /\ RowsKept
<1>1. TypeOK'
  BY DEF TypeOK, CompGoes, CompRow
<1>2. \A o \in Completes : comp'[o].pc # "idle" =>
                          comp'[o].sess \in Sessions /\ session'[comp'[o].sess].state # "absent"
  BY DEF Refs, Exists, CompGoes, RowsKept
<1>3. \A o \in Completes : comp'[o].pc \in {"findOld", "deleteOld"} =>
                             session'[comp'[o].sess].replaces # None
  BY DEF Refs, Exists, CompGoes, RowsKept
<1>4. Refs'
  BY <1>2, <1>3 DEF Refs, Exists, RowsKept
<1> QED
  BY <1>1, <1>4

\* The steps of a completion that leave all but the request alone.
LEMMA TypeCompOnly ==
    ASSUME TypeOK, Refs, NEW c \in Completes, NEW step \in CompSteps, CompGoes(c, step),
           comp[c].pc # "idle", UNCHANGED <<session, used, mpu, object, file, put, del, interrupts>>,
           step \in {"findOld", "deleteOld"} => session[comp[c].sess].replaces # None
    PROVE  TypeOK' /\ Refs' /\ RowsKept
<1>1. /\ RowsKept /\ session' \in [Sessions -> SessionRow]
      /\ used' \in Nat /\ mpu' \in [Sessions -> [open : BOOLEAN, parts : Parts]]
      /\ object' \in [Keys -> Parts \cup {None}]
      /\ file' \in [Files -> [key : Keys, size : Nat] \cup {None}]
      /\ interrupts' \in 0..MaxInterrupts
  BY DEF TypeOK, RowsKept
<1> QED
  BY <1>1, TypeComp

LEMMA TypeCompClaim ==
    ASSUME TypeOK, Refs, NEW c \in Completes, CompClaim(c)
    PROVE  TypeOK' /\ Refs' /\ RowsKept
<1> DEFINE s == comp[c].sess
<1>1. s \in Sessions /\ session[s] \in SessionRow
  BY DEF CompClaim, Refs, Exists, TypeOK
<1>2. PICK step \in {"done", "refund", "abort"} : CompGoes(c, step)
  BY CompGoing DEF CompClaim
<1>3. session' = session \/ session' = [session EXCEPT ![s].completed = TRUE]
  BY DEF CompClaim
<1>4. [session[s] EXCEPT !.completed = TRUE] \in SessionRow
  BY <1>1 DEF SessionRow
<1>5. session' \in [Sessions -> SessionRow]
  BY <1>1, <1>3, <1>4 DEF TypeOK
<1>6. RowsKept
  BY <1>1, <1>3 DEF TypeOK, SessionRow, RowsKept
<1>7. /\ comp[c].pc # "idle" /\ UNCHANGED <<used, mpu, object, file, put, del, interrupts>>
  BY DEF CompClaim
<1>8. /\ used' \in Nat /\ mpu' \in [Sessions -> [open : BOOLEAN, parts : Parts]]
      /\ object' \in [Keys -> Parts \cup {None}]
      /\ file' \in [Files -> [key : Keys, size : Nat] \cup {None}]
      /\ interrupts' \in 0..MaxInterrupts
  BY <1>7 DEF TypeOK
<1> QED
  BY <1>2, <1>5, <1>6, <1>7, <1>8, TypeComp

LEMMA TypeCompAbort ==
    ASSUME TypeOK, Refs, NEW c \in Completes, CompAbort(c)
    PROVE  TypeOK' /\ Refs' /\ RowsKept
<1>1. CompGoes(c, "done") /\ comp[c].pc # "idle" /\ UNCHANGED <<used, session, object, file, put, del, interrupts>>
  BY CompGoing DEF CompAbort
<1>2. mpu' \in [Sessions -> [open : BOOLEAN, parts : Parts]]
  BY TotalOfParts DEF CompAbort, NoUpload, TypeOK
<1>3. /\ RowsKept /\ session' \in [Sessions -> SessionRow]
      /\ used' \in Nat /\ object' \in [Keys -> Parts \cup {None}]
      /\ file' \in [Files -> [key : Keys, size : Nat] \cup {None}]
      /\ interrupts' \in 0..MaxInterrupts
  BY <1>1 DEF TypeOK, RowsKept
<1> QED
  BY <1>1, <1>2, <1>3, TypeComp

LEMMA RefundIsNat ==
    ASSUME TypeOK, NEW f \in Files \cup {None}
    PROVE  RefundFor(f) \in Nat
  BY DEF TypeOK, RefundFor

\* What the step that reads the refund makes of the row
LEMMA RefundGoes ==
    ASSUME TypeOK, Refs, NEW c \in Completes, CompRefund(c)
    PROVE  /\ CompGoes(c, "reserve")
           /\ comp'[c].refund = RefundFor(session[comp[c].sess].replaces)
           /\ comp'[c].list = comp[c].list /\ comp'[c].reserve = comp[c].reserve
           /\ comp'[c].old = comp[c].old /\ comp'[c].oldKey = comp[c].oldKey
<1> DEFINE n == RefundFor(session[comp[c].sess].replaces)
           row == [comp[c] EXCEPT !.pc = "reserve", !.refund = n]
<1>1. comp \in [Completes -> CompRow] /\ comp[c] \in CompRow
  BY DEF TypeOK, CompRow
<1>2. n \in Nat
  BY RefundIsNat DEF CompRefund, Refs, Exists, TypeOK, SessionRow
<1>3. comp' = [comp EXCEPT ![c] = row]
  BY <1>1 DEF CompRefund
<1> HIDE DEF n
<1>4. /\ row \in CompRow /\ row.pc = "reserve" /\ row.sess = comp[c].sess /\ row.refund = n
      /\ row.list = comp[c].list /\ row.reserve = comp[c].reserve
      /\ row.old = comp[c].old /\ row.oldKey = comp[c].oldKey
  BY <1>1, <1>2 DEF CompRow
<1> HIDE DEF row
<1> QED
  BY <1>1, <1>3, <1>4 DEF CompGoes, n

LEMMA TypeCompRefund ==
    ASSUME TypeOK, Refs, NEW c \in Completes, CompRefund(c)
    PROVE  TypeOK' /\ Refs' /\ RowsKept
  BY RefundGoes, TypeCompOnly DEF CompRefund

LEMMA NetCostIsNat ==
    ASSUME NEW m \in Nat, NEW n \in Nat
    PROVE  NetCost(m, n) \in Nat
  BY DEF NetCost

\* What the reservation makes of the row and of the balance
LEMMA ReserveGoes ==
    ASSUME TypeOK, Refs, NEW c \in Completes, CompReserve(c)
    PROVE  /\ \/ /\ CompGoes(c, "assemble")
                 /\ comp'[c].reserve = NetCost(Total(comp[c].list), comp[c].refund)
                 /\ used' = used + comp'[c].reserve
                 /\ comp'[c].reserve \in Nat /\ (comp'[c].reserve = 0 \/ used' <= Quota)
              \/ CompGoes(c, "abort") /\ used' = used
           /\ comp'[c].list = comp[c].list /\ comp'[c].refund = comp[c].refund
           /\ comp'[c].old = comp[c].old /\ comp'[c].oldKey = comp[c].oldKey
<1> DEFINE need == NetCost(Total(comp[c].list), comp[c].refund)
           row == [comp[c] EXCEPT !.pc = "assemble", !.reserve = need]
<1>1. comp \in [Completes -> CompRow] /\ comp[c] \in CompRow
  BY DEF TypeOK, CompRow
<1>2. need \in Nat
  BY <1>1, TotalOfParts, NetCostIsNat DEF CompRow
<1>3. \/ used' = used + need /\ comp' = [comp EXCEPT ![c] = row] /\ (need = 0 \/ used' <= Quota)
      \/ CompMove(c, "abort") /\ UNCHANGED used
  BY <1>1 DEF CompReserve, Fits
<1> HIDE DEF need
<1>4. /\ row \in CompRow /\ row.pc = "assemble" /\ row.sess = comp[c].sess /\ row.reserve = need
      /\ row.list = comp[c].list /\ row.refund = comp[c].refund
      /\ row.old = comp[c].old /\ row.oldKey = comp[c].oldKey
  BY <1>1, <1>2 DEF CompRow
<1> HIDE DEF row
<1>5. CASE CompMove(c, "abort") /\ UNCHANGED used
  BY <1>5, CompGoing DEF CompKeeps
<1>6. CASE used' = used + need /\ comp' = [comp EXCEPT ![c] = row] /\ (need = 0 \/ used' <= Quota)
  <2>1. comp'[c] = row
    BY <1>1, <1>6
  <2>2. CompGoes(c, "assemble")
    BY <1>1, <1>4, <1>6 DEF CompGoes
  <2> QED
    BY <1>2, <1>4, <1>6, <2>1, <2>2 DEF need
<1> QED
  BY <1>3, <1>5, <1>6

LEMMA TypeCompReserve ==
    ASSUME TypeOK, Refs, NEW c \in Completes, CompReserve(c)
    PROVE  TypeOK' /\ Refs' /\ RowsKept
<1>0. used \in Nat
  BY DEF TypeOK
<1>1. used' \in Nat
  BY <1>0, ReserveGoes
<1>2. CompGoes(c, "assemble") \/ CompGoes(c, "abort")
  BY ReserveGoes
<1>3. /\ RowsKept /\ session' \in [Sessions -> SessionRow]
      /\ mpu' \in [Sessions -> [open : BOOLEAN, parts : Parts]]
      /\ object' \in [Keys -> Parts \cup {None}]
      /\ file' \in [Files -> [key : Keys, size : Nat] \cup {None}]
      /\ interrupts' \in 0..MaxInterrupts
      /\ comp[c].pc # "idle" /\ UNCHANGED <<put, del>>
  BY DEF CompReserve, TypeOK, RowsKept
<1> QED
  BY <1>1, <1>2, <1>3, TypeComp

LEMMA TypeCompAssemble ==
    ASSUME TypeOK, Refs, NEW c \in Completes, CompAssemble(c)
    PROVE  TypeOK' /\ Refs' /\ RowsKept
<1> DEFINE s == comp[c].sess
<1>1. s \in Sessions /\ s \in Keys /\ comp[c].list \in Parts
  BY DEF CompAssemble, Refs, Exists, TypeOK, Keys
<1>2. /\ mpu' = mpu \/ mpu' = [mpu EXCEPT ![s] = NoUpload]
      /\ object' = object \/ object' = [object EXCEPT ![s] = comp[c].list]
  BY DEF CompAssemble
<1>3. /\ mpu' \in [Sessions -> [open : BOOLEAN, parts : Parts]]
      /\ object' \in [Keys -> Parts \cup {None}]
  <2>1. NoUpload \in [open : BOOLEAN, parts : Parts]
    BY TotalOfParts DEF NoUpload
  <2>2. mpu' \in [Sessions -> [open : BOOLEAN, parts : Parts]]
    BY <1>1, <1>2, <2>1 DEF TypeOK
  <2>3. object' \in [Keys -> Parts \cup {None}]
    BY <1>1, <1>2 DEF TypeOK
  <2> QED
    BY <2>2, <2>3
<1>4. \/ CompGoes(c, "create") \/ CompGoes(c, "done")
      \/ CompGoes(c, "findOld") /\ session[s].replaces # None
  BY CompGoing DEF CompAssemble
<1>5. /\ RowsKept /\ session' \in [Sessions -> SessionRow]
      /\ used' \in Nat
      /\ file' \in [Files -> [key : Keys, size : Nat] \cup {None}]
      /\ interrupts' \in 0..MaxInterrupts
      /\ comp[c].pc # "idle" /\ UNCHANGED <<put, del>>
  BY DEF CompAssemble, TypeOK, RowsKept
<1> QED
  BY <1>3, <1>4, <1>5, TypeComp

\* The file a completion is about to replace is one.
LEMMA OldOne ==
    ASSUME TypeOK, Refs, NEW c \in Completes, comp[c].pc \in {"findOld", "deleteOld"}
    PROVE  session[comp[c].sess].replaces \in Files /\ session[comp[c].sess].replaces # None
  BY DEF TypeOK, SessionRow, Refs, Exists

\* What finding the old file makes of the row
LEMMA FindOldGoes ==
    ASSUME TypeOK, Refs, NEW c \in Completes, CompFindOld(c)
    PROVE  LET f == session[comp[c].sess].replaces IN
           \/ /\ file[f] # None /\ CompGoes(c, "deleteOld")
              /\ comp'[c].old = file[f].size /\ comp'[c].oldKey = file[f].key
              /\ comp'[c].list = comp[c].list /\ comp'[c].refund = comp[c].refund
              /\ comp'[c].reserve = comp[c].reserve
           \/ file[f] = None /\ CompGoes(c, "create") /\ CompKeeps(c)
<1> DEFINE f == session[comp[c].sess].replaces
           row == [comp[c] EXCEPT !.pc = "deleteOld", !.old = file[f].size, !.oldKey = file[f].key]
<1>1. f \in Files /\ f # None
  BY OldOne DEF CompFindOld
<1>2. CASE file[f] # None
  <2>1. file[f].size \in Nat /\ file[f].key \in Keys
    BY <1>1, <1>2 DEF TypeOK
  <2>2. comp \in [Completes -> CompRow] /\ comp[c] \in CompRow
    BY DEF TypeOK, CompRow
  <2>3. comp' = [comp EXCEPT ![c] = row]
    BY <1>2, <2>2 DEF CompFindOld
  <2>4. /\ row \in CompRow /\ row.pc = "deleteOld" /\ row.sess = comp[c].sess
        /\ row.old = file[f].size /\ row.oldKey = file[f].key
        /\ row.list = comp[c].list /\ row.refund = comp[c].refund /\ row.reserve = comp[c].reserve
    BY <2>1, <2>2 DEF CompRow
  <2> HIDE DEF row
  <2>5. comp'[c] = row
    BY <2>2, <2>3
  <2>6. CompGoes(c, "deleteOld")
    BY <2>2, <2>3, <2>4 DEF CompGoes
  <2> QED
    BY <1>2, <2>4, <2>5, <2>6
<1>3. CASE file[f] = None
  <2>1. CompMove(c, "create")
    BY <1>3 DEF CompFindOld
  <2> QED
    BY <1>3, <2>1, CompGoing
<1> QED
  BY <1>2, <1>3

LEMMA TypeCompFindOld ==
    ASSUME TypeOK, Refs, NEW c \in Completes, CompFindOld(c)
    PROVE  TypeOK' /\ Refs' /\ RowsKept
<1>1. comp[c].pc = "findOld" /\ session[comp[c].sess].replaces # None
  BY OldOne DEF CompFindOld
<1>2. PICK step \in {"deleteOld", "create"} : CompGoes(c, step)
  BY FindOldGoes
<1> QED
  BY <1>1, <1>2, TypeCompOnly DEF CompFindOld

LEMMA TypeCompDeleteOld ==
    ASSUME TypeOK, Refs, NEW c \in Completes, CompDeleteOld(c)
    PROVE  TypeOK' /\ Refs' /\ RowsKept
<1>1. file' \in [Files -> [key : Keys, size : Nat] \cup {None}]
  BY DEF CompDeleteOld, TypeOK
<1>2. CompGoes(c, "create") \/ CompGoes(c, "done")
  BY CompGoing DEF CompDeleteOld
<1>3. /\ RowsKept /\ session' \in [Sessions -> SessionRow] /\ used' \in Nat
      /\ mpu' \in [Sessions -> [open : BOOLEAN, parts : Parts]]
      /\ object' \in [Keys -> Parts \cup {None}]
      /\ interrupts' \in 0..MaxInterrupts
      /\ comp[c].pc # "idle" /\ UNCHANGED <<put, del>>
  BY DEF CompDeleteOld, TypeOK, RowsKept
<1> QED
  BY <1>1, <1>2, <1>3, TypeComp

LEMMA TypeCompCreate ==
    ASSUME TypeOK, Refs, NEW c \in Completes, CompCreate(c)
    PROVE  TypeOK' /\ Refs' /\ RowsKept
<1>1. file' \in [Files -> [key : Keys, size : Nat] \cup {None}]
  <2>1. comp[c].sess \in Keys /\ Total(comp[c].list) \in Nat
    BY TotalOfParts DEF CompCreate, Refs, Exists, TypeOK, Keys
  <2> QED
    BY <2>1 DEF CompCreate, TypeOK
<1>2. CompGoes(c, "settle")
  BY CompGoing DEF CompCreate
<1>3. /\ RowsKept /\ session' \in [Sessions -> SessionRow] /\ used' \in Nat
      /\ mpu' \in [Sessions -> [open : BOOLEAN, parts : Parts]]
      /\ object' \in [Keys -> Parts \cup {None}]
      /\ interrupts' \in 0..MaxInterrupts
      /\ comp[c].pc # "idle" /\ UNCHANGED <<put, del>>
  BY DEF CompCreate, TypeOK, RowsKept
<1> QED
  BY <1>1, <1>2, <1>3, TypeComp

LEMMA TypeCompSettle ==
    ASSUME TypeOK, Refs, NEW c \in Completes, CompSettle(c)
    PROVE  TypeOK' /\ Refs' /\ RowsKept
<1>1. Balance(c) \in Int /\ used \in Nat
  BY TotalOfParts DEF Balance, TypeOK
<1>2. used' \in Nat
  BY <1>1 DEF CompSettle, Refunded
<1>3. CompGoes(c, "cleanup") \/ CompGoes(c, "done")
  BY CompGoing DEF CompSettle
<1>4. /\ RowsKept /\ session' \in [Sessions -> SessionRow]
      /\ mpu' \in [Sessions -> [open : BOOLEAN, parts : Parts]]
      /\ object' \in [Keys -> Parts \cup {None}]
      /\ file' \in [Files -> [key : Keys, size : Nat] \cup {None}]
      /\ interrupts' \in 0..MaxInterrupts
      /\ comp[c].pc # "idle" /\ UNCHANGED <<put, del>>
  BY DEF CompSettle, TypeOK, RowsKept
<1> QED
  BY <1>2, <1>3, <1>4, TypeComp

LEMMA TypeCompCleanup ==
    ASSUME TypeOK, Refs, NEW c \in Completes, CompCleanup(c)
    PROVE  TypeOK' /\ Refs' /\ RowsKept
<1>1. object' \in [Keys -> Parts \cup {None}]
  BY DEF CompCleanup, TypeOK
<1>2. CompGoes(c, "done")
  BY CompGoing DEF CompCleanup
<1>3. /\ RowsKept /\ session' \in [Sessions -> SessionRow] /\ used' \in Nat
      /\ mpu' \in [Sessions -> [open : BOOLEAN, parts : Parts]]
      /\ file' \in [Files -> [key : Keys, size : Nat] \cup {None}]
      /\ interrupts' \in 0..MaxInterrupts
      /\ comp[c].pc # "idle" /\ UNCHANGED <<put, del>>
  BY DEF CompCleanup, TypeOK, RowsKept
<1> QED
  BY <1>1, <1>2, <1>3, TypeComp

LEMMA TypeInterrupt ==
    ASSUME TypeOK, Refs, NEW c \in Completes, Interrupt(c)
    PROVE  TypeOK' /\ Refs' /\ RowsKept
<1>1. interrupts' \in 0..MaxInterrupts
  BY UploadAssumption DEF Interrupt, TypeOK
<1>2. CompGoes(c, "done")
  BY CompGoing DEF Interrupt
<1>3. /\ RowsKept /\ session' \in [Sessions -> SessionRow] /\ used' \in Nat
      /\ mpu' \in [Sessions -> [open : BOOLEAN, parts : Parts]]
      /\ object' \in [Keys -> Parts \cup {None}]
      /\ file' \in [Files -> [key : Keys, size : Nat] \cup {None}]
      /\ comp[c].pc # "idle" /\ UNCHANGED <<put, del>>
  BY DEF Interrupt, TypeOK, RowsKept
<1> QED
  BY <1>1, <1>2, <1>3, TypeComp

LEMMA TypeDelete ==
    ASSUME TypeOK, Refs, NEW d \in Deletes,
           DelStep(d) \/ \E s \in Sessions : DelStart(d, s)
    PROVE  TypeOK' /\ Refs' /\ RowsKept
<1>0. ASSUME NEW step \in DelSteps, DelMove(d, step), del[d].pc # "idle"
      PROVE  /\ del' \in [Deletes -> [pc : DelSteps, sess : Sessions \cup {None}]]
             /\ \A e \in Deletes : del'[e].sess = del[e].sess /\ (del'[e].pc # "idle" => del[e].pc # "idle")
  BY <1>0 DEF DelMove, TypeOK
<1>1. CASE DelAbort(d)
  <2>1. NoUpload \in [open : BOOLEAN, parts : Parts]
    BY TotalOfParts DEF NoUpload
  <2>2. mpu' \in [Sessions -> [open : BOOLEAN, parts : Parts]]
    BY <1>1, <2>1 DEF DelAbort, TypeOK
  <2>3. TypeOK'
    BY <1>0, <1>1, <2>2 DEF DelAbort, TypeOK
  <2>4. Refs' /\ RowsKept
    BY <1>0, <1>1 DEF DelAbort, Refs, Exists, RowsKept, TypeOK
  <2> QED
    BY <2>3, <2>4
<1>2. CASE DelRemove(d)
  <2>1. object' \in [Keys -> Parts \cup {None}]
    BY <1>2 DEF DelRemove, TypeOK
  <2>2. TypeOK'
    BY <1>0, <1>2, <2>1 DEF DelRemove, TypeOK
  <2>3. Refs' /\ RowsKept
    BY <1>0, <1>2 DEF DelRemove, Refs, Exists, RowsKept, TypeOK
  <2> QED
    BY <2>2, <2>3
<1>3. CASE DelRow(d)
  <2> DEFINE s == del[d].sess
  <2>1. s \in Sessions /\ session[s] \in SessionRow
    BY <1>3 DEF DelRow, Refs, Exists, TypeOK
  <2>2. [session[s] EXCEPT !.state = "deleted", !.parts = NoParts] \in SessionRow
    BY <2>1, TotalOfParts DEF SessionRow
  <2>3. session' = [session EXCEPT ![s] = [session[s] EXCEPT !.state = "deleted", !.parts = NoParts]]
    BY <1>3, <2>1 DEF DelRow, TypeOK
  <2>4. session' \in [Sessions -> SessionRow]
    BY <2>1, <2>2, <2>3 DEF TypeOK
  <2>5. RowsKept
    BY <2>1, <2>3 DEF TypeOK, SessionRow, RowsKept
  <2>6. del' \in [Deletes -> [pc : DelSteps, sess : Sessions \cup {None}]]
        /\ \A e \in Deletes : del'[e].sess = del[e].sess /\ (del'[e].pc # "idle" => del[e].pc # "idle")
    BY <1>3 DEF DelRow, DelMove, TypeOK
  <2>7. TypeOK'
    BY <1>3, <2>4, <2>6 DEF DelRow, TypeOK
  <2>8. \A c \in Completes : comp[c].pc # "idle" =>
          comp[c].sess \in Sessions /\ session'[comp[c].sess].state # "absent" /\ session'[comp[c].sess].replaces = session[comp[c].sess].replaces
    BY <1>3, <2>5 DEF DelRow, Refs, Exists, RowsKept
  <2>9. Refs'
    <3>1. UNCHANGED <<put, comp>>
      BY <1>3 DEF DelRow
    <3>2. \A p \in Puts : put[p].pc # "idle" => put[p].sess \in Sessions /\ session'[put[p].sess].state # "absent"
      BY <2>5, <3>1 DEF Refs, Exists, RowsKept
    <3>3. \A e \in Deletes : del'[e].pc # "idle" => del[e].sess \in Sessions /\ session'[del[e].sess].state # "absent"
      BY <2>5, <2>6, <1>3 DEF Refs, Exists, RowsKept
    <3> QED
      BY <2>6, <2>8, <3>1, <3>2, <3>3 DEF Refs, Exists
  <2> QED
    BY <2>5, <2>7, <2>9
<1>4. ASSUME NEW s \in Sessions, DelStart(d, s)
      PROVE  TypeOK' /\ Refs' /\ RowsKept
  <2>1. TypeOK'
    BY <1>4 DEF DelStart, TypeOK
  <2>2. Refs' /\ RowsKept
    BY <1>4 DEF DelStart, Refs, Exists, RowsKept, TypeOK, Live
  <2> QED
    BY <2>1, <2>2
<1> QED
  BY <1>1, <1>2, <1>3, <1>4 DEF DelStep

LEMMA TypeStep == TypeOK /\ Refs /\ [Next]_vars => TypeOK' /\ Refs' /\ RowsKept
<1> SUFFICES ASSUME TypeOK, Refs, [Next]_vars PROVE TypeOK' /\ Refs' /\ RowsKept
  OBVIOUS
<1>1. CASE UNCHANGED vars
  BY <1>1 DEF vars, TypeOK, Refs, Exists, RowsKept
<1>2. CASE Next
  BY <1>2, TypeOpen, TypePutStart, TypePutUpload, TypePutRecord, TypePutReread, TypeCompStart,
     TypeCompClaim, TypeCompAbort, TypeCompRefund, TypeCompReserve, TypeCompAssemble, TypeCompFindOld,
     TypeCompDeleteOld, TypeCompCreate, TypeCompSettle, TypeCompCleanup, TypeInterrupt, TypeDelete
     DEF Next, PutStep, CompStep
<1> QED
  BY <1>1, <1>2

THEOREM TypeCorrect == Spec => [](TypeOK /\ Refs)
<1>1. TypeOK /\ Refs /\ [Next]_vars => (TypeOK /\ Refs)'
  BY TypeStep
<1> QED
  BY <1>1, TypeInit, PTL DEF Spec

-----------------------------------------------------------------------------
(* The parts of a session *)

\* What a step does to the parts lists and to the PUTs that were answered, when
\* it is not the recording of a part.
PartsStay ==
    /\ \A s \in Sessions : session'[s].state = "live" =>
         \/ /\ session[s].state = "live" /\ session'[s].size = session[s].size
            /\ session'[s].parts = session[s].parts
         \/ session[s].state = "absent" /\ session'[s].parts = NoParts
    /\ \A p \in Puts : put'[p].pc = "stored" =>
         put[p].pc = "stored" /\ put'[p].sess = put[p].sess /\ put'[p].n = put[p].n

LEMMA PartsOpen ==
    ASSUME TypeOK, Refs, NEW s \in Sessions, NEW size \in Declared, NEW f \in Files \cup {None},
           OpenSession(s, size, f)
    PROVE  PartsStay
  BY DEF TypeOK, OpenSession, PartsStay

LEMMA PartsPut ==
    ASSUME TypeOK, Refs, NEW p \in Puts,
           \/ PutUpload(p) \/ PutReread(p)
           \/ \E s \in Sessions, n \in PartNumbers, size \in Sizes : PutStart(p, s, n, size)
    PROVE  PartsStay
<1>1. UNCHANGED session
  BY DEF PutUpload, PutReread, PutStart
<1>2. ASSUME NEW step \in PutSteps \ {"stored"}, PutGoes(p, step)
      PROVE  PartsStay
  BY <1>1, <1>2 DEF PartsStay, PutGoes
<1>3. CASE PutUpload(p)
  BY <1>2, <1>3, PutGoing DEF PutUpload
<1>4. CASE PutReread(p)
  BY <1>2, <1>4, RereadGoes
<1>5. ASSUME NEW s \in Sessions, NEW n \in PartNumbers, NEW size \in Sizes, PutStart(p, s, n, size)
      PROVE  PartsStay
  <2>1. put'[p].pc = "upload" /\ \A q \in Puts \ {p} : put'[q] = put[q]
    BY <1>5 DEF PutStart, TypeOK
  <2> QED
    BY <1>1, <2>1 DEF PartsStay
<1> QED
  BY <1>3, <1>4, <1>5

LEMMA PartsComp ==
    ASSUME TypeOK, Refs, NEW c \in Completes,
           CompStep(c) \/ Interrupt(c) \/ \E s \in Sessions : CompStart(c, s)
    PROVE  PartsStay
<1>1. UNCHANGED put
  BY DEF CompStep, Interrupt, CompStart, CompClaim, CompAbort, CompRefund, CompReserve, CompAssemble,
         CompFindOld, CompDeleteOld, CompCreate, CompSettle, CompCleanup
<1>2. session' = session \/ session' = [session EXCEPT ![comp[c].sess].completed = TRUE]
  BY DEF CompStep, Interrupt, CompStart, CompClaim, CompAbort, CompRefund, CompReserve, CompAssemble,
         CompFindOld, CompDeleteOld, CompCreate, CompSettle, CompCleanup
<1>3. \A s \in Sessions : session'[s].state = session[s].state /\ session'[s].size = session[s].size
                          /\ session'[s].parts = session[s].parts
  BY <1>2 DEF TypeOK, SessionRow
<1> QED
  BY <1>1, <1>3 DEF PartsStay

LEMMA PartsDelete ==
    ASSUME TypeOK, Refs, NEW d \in Deletes, DelStep(d) \/ \E s \in Sessions : DelStart(d, s)
    PROVE  PartsStay
<1>1. UNCHANGED put
  BY DEF DelStep, DelStart, DelAbort, DelRemove, DelRow
<1>2. CASE session' = session
  BY <1>1, <1>2 DEF PartsStay
<1>3. CASE DelRow(d)
  <2>1. \A s \in Sessions : s # del[d].sess => session'[s] = session[s]
    BY <1>3 DEF DelRow, TypeOK
  <2>2. del[d].sess \in Sessions => session'[del[d].sess].state = "deleted"
    BY <1>3 DEF DelRow, TypeOK, SessionRow
  <2> QED
    BY <1>1, <2>1, <2>2 DEF PartsStay
<1> QED
  BY <1>2, <1>3 DEF DelStep, DelStart, DelAbort, DelRemove

\* Recording a part changes one entry of one list, to a body's size.
PartRecorded(p) ==
    LET s == put[p].sess
        n == put[p].n
    IN
    /\ put[p].pc = "record" /\ s \in Sessions /\ n \in PartNumbers /\ put[p].size \in Sizes
    /\ \A t \in Sessions : session'[t].state = session[t].state /\ session'[t].size = session[t].size
    /\ \A t \in Sessions \ {s} : session'[t].parts = session[t].parts
    /\ session'[s].parts = [session[s].parts EXCEPT ![n] = put[p].size]
    /\ Total(session'[s].parts) <= session[s].size + Slack
    /\ PutGoes(p, "stored")

LEMMA PartsRecord ==
    ASSUME TypeOK, Refs, NEW p \in Puts, PutRecord(p)
    PROVE  PartsStay \/ PartRecorded(p)
<1> DEFINE s == put[p].sess
           n == put[p].n
           list == [session[s].parts EXCEPT ![n] = put[p].size]
<1>1. put[p].pc = "record" /\ s \in Sessions /\ n \in PartNumbers /\ put[p].size \in Sizes
  BY DEF PutRecord, Refs, Exists, TypeOK
<1>2. CASE PutEnd(p, "refused") /\ UNCHANGED session
  <2>1. PutGoes(p, "refused")
    BY <1>2, PutGoing
  <2> QED
    BY <1>2, <2>1 DEF PartsStay, PutGoes
<1>3. CASE PutMove(p, "reread") /\ UNCHANGED session
  <2>1. PutGoes(p, "reread")
    BY <1>3, PutGoing
  <2> QED
    BY <1>3, <2>1 DEF PartsStay, PutGoes
<1>4. CASE /\ WithinDeclared(s, put[p].list, n, put[p].size) /\ session[s].parts = put[p].list
           /\ session' = [session EXCEPT ![s].parts[n] = put[p].size]
           /\ PutEnd(p, "stored")
  <2>1. PutGoes(p, "stored")
    BY <1>4, PutGoing
  <2>2. session' = [session EXCEPT ![s].parts = list]
    BY <1>4
  <2>3. Total(list) <= session[s].size + Slack
    BY <1>4 DEF WithinDeclared, Projected
  <2> HIDE DEF list
  <2>4. /\ session'[s].parts = list
        /\ \A t \in Sessions : session'[t].state = session[t].state /\ session'[t].size = session[t].size
        /\ \A t \in Sessions \ {s} : session'[t].parts = session[t].parts
    BY <1>1, <2>2 DEF TypeOK, SessionRow
  <2> QED
    BY <1>1, <2>1, <2>3, <2>4 DEF PartRecorded, list
<1> QED
  BY <1>2, <1>3, <1>4 DEF PutRecord

LEMMA PartsStep ==
    ASSUME TypeOK, Refs, [Next]_vars
    PROVE  PartsStay \/ \E p \in Puts : PartRecorded(p)
<1>1. CASE UNCHANGED vars
  BY <1>1 DEF vars, PartsStay, TypeOK, SessionRow
<1>2. CASE Next
  BY <1>2, PartsOpen, PartsPut, PartsRecord, PartsComp, PartsDelete DEF Next, PutStep
<1> QED
  BY <1>1, <1>2

LEMMA RecordedStep ==
    ASSUME TypeOK, Refs, RecordedBound, NoAckLost, [Next]_vars
    PROVE  RecordedBound' /\ NoAckLost'
<1>0. TypeOK'
  BY TypeStep
<1>1. CASE PartsStay
  <2>1. ASSUME NEW s \in Sessions, Live(s)'
        PROVE  Total(session'[s].parts) <= session'[s].size + Slack
    <3>0. session' \in [Sessions -> SessionRow]
      BY <1>0 DEF TypeOK
    <3>1. session'[s].size \in Nat /\ Slack \in Nat
      <4>1. session'[s] \in SessionRow
        BY <3>0
      <4>2. session'[s].size \in Declared \cup {0}
        BY <4>1 DEF SessionRow
      <4>3. \A n \in Declared \cup {0} : n \in Nat
        BY UploadAssumption
      <4>4. Slack \in Nat
        BY UploadAssumption
      <4> QED
        BY <4>2, <4>3, <4>4
    <3>2. CASE session[s].state = "absent" /\ session'[s].parts = NoParts
      <4>1. Total(session'[s].parts) = 0
        BY <3>2, TotalOfParts
      <4> QED
        BY <3>1, <4>1
    <3>3. CASE ~(session[s].state = "absent" /\ session'[s].parts = NoParts)
      BY <1>1, <2>1, <3>3 DEF PartsStay, RecordedBound, Live
    <3> QED
      BY <3>2, <3>3
  <2>2. ASSUME NEW p \in Puts, put'[p].pc = "stored", session'[put'[p].sess].state = "live"
        PROVE  session'[put'[p].sess].parts[put'[p].n] # 0
    <3>1. put[p].pc = "stored" /\ put'[p].sess = put[p].sess /\ put'[p].n = put[p].n
      BY <1>1, <2>2 DEF PartsStay
    <3>2. put[p].sess \in Sessions /\ session[put[p].sess].state # "absent"
      BY <3>1 DEF Refs, Exists
    <3>3. /\ session[put[p].sess].state = "live"
          /\ session'[put[p].sess].parts = session[put[p].sess].parts
      BY <1>1, <2>2, <3>1, <3>2 DEF PartsStay
    <3> QED
      BY <3>1, <3>3 DEF NoAckLost, Live
  <2> QED
    BY <2>1, <2>2 DEF RecordedBound, NoAckLost, Live
<1>2. ASSUME NEW p \in Puts, PartRecorded(p)
      PROVE  RecordedBound' /\ NoAckLost'
  <2>1. RecordedBound'
    BY <1>2 DEF PartRecorded, RecordedBound, Live
  <2>2. ASSUME NEW q \in Puts, put'[q].pc = "stored", session'[put'[q].sess].state = "live"
        PROVE  session'[put'[q].sess].parts[put'[q].n] # 0
    <3>0. 0 \notin Sizes
      BY UploadAssumption
    <3>1. CASE q = p
      <4>1. put'[p].sess = put[p].sess /\ put'[p].n = put[p].n
        BY <1>2 DEF PartRecorded, PutGoes
      <4>2. session[put[p].sess].parts \in Parts
        BY <1>2 DEF PartRecorded, TypeOK, SessionRow
      <4>3. session'[put[p].sess].parts[put[p].n] = put[p].size
        BY <1>2, <4>2 DEF PartRecorded, Parts
      <4> QED
        BY <1>2, <3>0, <3>1, <4>1, <4>3 DEF PartRecorded
    <3>2. CASE q # p
      <4>1. put'[q] = put[q]
        BY <1>2, <3>2 DEF PartRecorded, PutGoes
      <4>2. put[q].sess \in Sessions /\ put[q].n \in PartNumbers
        BY <2>2, <4>1 DEF Refs, Exists, TypeOK
      <4>3. session[put[q].sess].parts[put[q].n] # 0 /\ session[put[q].sess].parts \in Parts
        BY <1>2, <2>2, <4>1, <4>2 DEF PartRecorded, NoAckLost, Live, TypeOK, SessionRow
      <4>4. CASE put[q].sess = put[p].sess
        BY <1>2, <3>0, <4>1, <4>2, <4>3, <4>4 DEF PartRecorded, Parts
      <4>5. CASE put[q].sess # put[p].sess
        BY <1>2, <4>1, <4>2, <4>3, <4>5 DEF PartRecorded
      <4> QED
        BY <4>4, <4>5
    <3> QED
      BY <3>1, <3>2
  <2> QED
    BY <2>1, <2>2 DEF NoAckLost, Live
<1> QED
  BY <1>1, <1>2, PartsStep

LEMMA RecordedInit == Init => RecordedBound /\ NoAckLost
  BY DEF Init, RecordedBound, NoAckLost, Live, NoSession, IdlePut

\* Two PUTs that read the same list and record one after the other, or retry,
\* never push the recorded bytes over the declared size: the bound is checked on
\* the very list the row still holds.
THEOREM RecordedWithinDeclared == Spec => []RecordedBound
<1>1. TypeOK /\ Refs /\ RecordedBound /\ NoAckLost /\ [Next]_vars
        => (TypeOK /\ Refs /\ RecordedBound /\ NoAckLost)'
  BY TypeStep, RecordedStep
<1> QED
  BY <1>1, TypeInit, RecordedInit, PTL DEF Spec

\* A part that was answered with success stays recorded for as long as its session
\* lives, whatever other requests record, retry, claim or abort meanwhile.
THEOREM AcknowledgedPartsStay == Spec => []NoAckLost
<1>1. TypeOK /\ Refs /\ RecordedBound /\ NoAckLost /\ [Next]_vars
        => (TypeOK /\ Refs /\ RecordedBound /\ NoAckLost)'
  BY TypeStep, RecordedStep
<1> QED
  BY <1>1, TypeInit, RecordedInit, PTL DEF Spec

-----------------------------------------------------------------------------
(* The books: the balance against the File rows and what completions hold. *)

\* What the balance holds for completions under way, and what it has to spare.
Held == SumFunction([c \in Completes |-> Owed(c)])
Spare == used - Stored - Held

LEMMA OwedIsInt ==
    ASSUME TypeOK, NEW c \in Completes
    PROVE  Owed(c) \in Int /\ Balance(c) \in Int
<1>1. /\ comp[c].reserve \in Nat /\ comp[c].old \in Nat
      /\ Total(comp[c].list) \in Nat
  BY TotalOfParts DEF TypeOK
<1> QED
  BY <1>1 DEF Owed, Balance

LEMMA NextOwedIsInt ==
    ASSUME TypeOK', NEW c \in Completes
    PROVE  Owed(c)' \in Int
<1>1. /\ comp'[c].reserve \in Nat /\ comp'[c].old \in Nat
      /\ Total(comp'[c].list) \in Nat
  BY TotalOfParts DEF TypeOK
<1> QED
  BY <1>1 DEF Owed, Balance

LEMMA FilesFinite == IsFiniteSet(Files) /\ IsFiniteSet(Completes)
  BY UploadAssumption, FS_AddElement DEF Files

LEMMA SumsAreInts ==
    ASSUME TypeOK
    PROVE  Stored \in Nat /\ Held \in Int /\ Spare \in Int
<1>1. Stored \in Nat
  <2>1. [f \in Files |-> RefundFor(f)] \in [Files -> Nat]
    BY RefundIsNat
  <2> QED
    BY <2>1, FilesFinite, TotalNat DEF Stored
<1>2. Held \in Int
  <2>1. [c \in Completes |-> Owed(c)] \in [Completes -> Int]
    BY OwedIsInt
  <2> QED
    BY <2>1, FilesFinite, TotalType DEF Held
<1> QED
  BY <1>1, <1>2 DEF Spare, TypeOK

LEMMA NextSumsAreInts ==
    ASSUME TypeOK'
    PROVE  Spare' \in Int
<1>1. Stored' \in Int
  <2>1. [f \in Files |-> RefundFor(f)'] \in [Files -> Int]
    BY DEF TypeOK, RefundFor
  <2> QED
    BY <2>1, FilesFinite, TotalType DEF Stored
<1>2. Held' \in Int
  <2>1. [c \in Completes |-> Owed(c)'] \in [Completes -> Int]
    BY NextOwedIsInt
  <2> QED
    BY <2>1, FilesFinite, TotalType DEF Held
<1> QED
  BY <1>1, <1>2 DEF Spare, TypeOK

\* The books in terms of Spare
LEMMA BooksAreSpare ==
    ASSUME TypeOK
    PROVE  (ExactBooks <=> Spare = 0) /\ (NeverUndercharged <=> Spare >= 0)
<1>1. (ExactBooks <=> used = Stored + Held) /\ (NeverUndercharged <=> used >= Stored + Held)
  BY DEF ExactBooks, NeverUndercharged, Held
<1>2. used \in Nat
  BY DEF TypeOK
<1> QED
  BY <1>1, <1>2, SumsAreInts DEF Spare

\* A step of one completion moves its own term only.
LEMMA HeldMoves ==
    ASSUME TypeOK, TypeOK', NEW c \in Completes, \A o \in Completes \ {c} : comp'[o] = comp[o]
    PROVE  Held' = Held - Owed(c) + Owed(c)'
<1> DEFINE f == [o \in Completes |-> Owed(o)]
           g == [o \in Completes |-> Owed(o)']
<1>1. \A o \in Completes : Owed(o) \in Int /\ Owed(o)' \in Int
  BY OwedIsInt, NextOwedIsInt
<1>2. f \in [Completes -> Int] /\ g \in [Completes -> Int]
  BY <1>1
<1>3. \A o \in Completes \ {c} : g[o] = f[o]
  BY DEF Owed, Balance
<1>4. f[c] = Owed(c) /\ g[c] = Owed(c)'
  OBVIOUS
<1>5. Held = SumFunction(f) /\ Held' = SumFunction(g)
  BY DEF Held
<1> HIDE DEF f, g
<1> QED
  BY <1>2, <1>3, <1>4, <1>5, FilesFinite, TotalUpdate

LEMMA StoredMoves ==
    ASSUME TypeOK, TypeOK', NEW e \in Files, \A f \in Files \ {e} : file'[f] = file[f]
    PROVE  Stored' = Stored - RefundFor(e) + RefundFor(e)'
<1> DEFINE f == [o \in Files |-> RefundFor(o)]
           g == [o \in Files |-> RefundFor(o)']
<1>1. \A o \in Files : RefundFor(o) \in Int /\ RefundFor(o)' \in Int
  BY DEF TypeOK, RefundFor
<1>2. f \in [Files -> Int] /\ g \in [Files -> Int]
  BY <1>1
<1>3. \A o \in Files \ {e} : g[o] = f[o]
  BY DEF RefundFor
<1>4. f[e] = RefundFor(e) /\ g[e] = RefundFor(e)'
  OBVIOUS
<1>5. Stored = SumFunction(f) /\ Stored' = SumFunction(g)
  BY DEF Stored
<1> HIDE DEF f, g
<1> QED
  BY <1>2, <1>3, <1>4, <1>5, FilesFinite, TotalUpdate

LEMMA StoredStays == UNCHANGED file => Stored' = Stored
  BY DEF Stored, RefundFor
LEMMA HeldStays == UNCHANGED comp => Held' = Held
  BY DEF Held, Owed, Balance

\* What a completion knows of the file it replaces: nothing before it has looked,
\* then the size it will find; a file somebody else made was made for good.
Replacing ==
    \A c \in Completes :
        LET f == session[comp[c].sess].replaces IN
        /\ comp[c].pc \in {"claim", "refund", "reserve", "assemble", "findOld"} =>
             comp[c].old = 0 /\ comp[c].oldKey = None
        /\ comp[c].pc = "deleteOld" =>
             /\ f \in Completes => comp[f].pc \in {"settle", "cleanup", "done"}
             /\ file[f] = None \/ file[f].size = comp[c].old

LEMMA ReplacingGoes ==
    ASSUME Replacing, TypeOK, Refs, RowsKept, NEW c \in Completes, NEW step \in CompSteps, CompGoes(c, step),
           comp[c].pc # "idle",
           comp[c].pc \in {"settle", "cleanup", "done"} => step \in {"settle", "cleanup", "done"},
           \A f \in Files : \/ file'[f] \in {file[f], None}
                            \/ f = c /\ comp[c].pc = "create",
           step \in {"refund", "reserve", "assemble", "findOld"} =>
             comp'[c].old = 0 /\ comp'[c].oldKey = None,
           step \notin {"claim", "deleteOld"}
    PROVE  Replacing'
<1>1. \A o \in Completes : comp[o].pc # "idle" =>
        session'[comp'[o].sess].replaces = session[comp[o].sess].replaces
  BY DEF Refs, Exists, RowsKept, CompGoes
<1>2. ASSUME NEW o \in Completes, o # c
      PROVE  LET f == session'[comp'[o].sess].replaces IN
             /\ comp'[o].pc \in {"claim", "refund", "reserve", "assemble", "findOld"} =>
                  comp'[o].old = 0 /\ comp'[o].oldKey = None
             /\ comp'[o].pc = "deleteOld" =>
                  /\ f \in Completes => comp'[f].pc \in {"settle", "cleanup", "done"}
                  /\ file'[f] = None \/ file'[f].size = comp'[o].old
  <2> DEFINE f == session[comp[o].sess].replaces
  <2>1. comp'[o] = comp[o]
    BY <1>2 DEF CompGoes
  <2>2. ASSUME comp[o].pc = "deleteOld"
        PROVE  /\ f \in Completes => comp'[f].pc \in {"settle", "cleanup", "done"}
               /\ file'[f] = None \/ file'[f].size = comp[o].old
    <3>1. /\ f \in Completes => comp[f].pc \in {"settle", "cleanup", "done"}
          /\ file[f] = None \/ file[f].size = comp[o].old
      BY <2>2 DEF Replacing
    <3>3. f \in Completes => comp'[f].pc \in {"settle", "cleanup", "done"}
      BY <3>1 DEF CompGoes
    <3>4. f \in Files
      BY <2>2, OldOne
    <3>5. f = c => comp[c].pc # "create"
      BY <3>1
    <3> QED
      BY <3>1, <3>3, <3>4, <3>5
  <2> QED
    BY <1>1, <2>1, <2>2 DEF Replacing
<1> QED
  BY <1>2 DEF Replacing, CompGoes

LEMMA ReplacingStep ==
    ASSUME Inv, TypeOK, Refs, Replacing, [Next]_vars
    PROVE  Replacing'
<1>0. RowsKept
  BY TypeStep
<1>1. CASE UNCHANGED <<comp, file>>
  <2>1. \A c \in Completes : comp[c].pc # "idle" =>
          session'[comp[c].sess].replaces = session[comp[c].sess].replaces
    BY <1>0 DEF Refs, Exists, RowsKept
  <2> QED
    BY <1>1, <2>1 DEF Replacing
<1>2. ASSUME NEW c \in Completes, NEW s \in Sessions, CompStart(c, s)
      PROVE  Replacing'
  <2>1. /\ UNCHANGED <<session, file>> /\ \A o \in Completes \ {c} : comp'[o] = comp[o]
        /\ comp[c].pc = "idle" /\ comp'[c].pc = "claim" /\ comp'[c].old = 0 /\ comp'[c].oldKey = None
    BY <1>2 DEF CompStart, TypeOK, IdleComp
  <2> QED
    BY <2>1 DEF Replacing
<1>3. ASSUME NEW c \in Completes, CompClaim(c)
      PROVE  Replacing'
  <2>1. comp[c].pc = "claim" /\ UNCHANGED file
    BY <1>3 DEF CompClaim
  <2>2. PICK step \in {"done", "refund", "abort"} :
           CompGoes(c, step) /\ (step = "refund" => CompKeeps(c))
    BY <1>3, CompGoing DEF CompClaim
  <2>3. step = "refund" => comp'[c].old = 0 /\ comp'[c].oldKey = None
    BY <2>1, <2>2 DEF Replacing, CompKeeps
  <2> QED
    BY <1>0, <2>1, <2>2, <2>3, ReplacingGoes
<1>4. ASSUME NEW c \in Completes, CompAbort(c) \/ CompCleanup(c) \/ CompSettle(c) \/ Interrupt(c)
      PROVE  Replacing'
  <2>1. comp[c].pc # "idle" /\ UNCHANGED file
    BY <1>4 DEF CompAbort, CompCleanup, CompSettle, Interrupt
  <2>2. PICK step \in {"done", "cleanup"} : CompGoes(c, step)
    BY <1>4, CompGoing DEF CompAbort, CompCleanup, CompSettle, Interrupt
  <2> QED
    BY <1>0, <2>1, <2>2, ReplacingGoes
<1>5. ASSUME NEW c \in Completes, CompRefund(c) \/ CompReserve(c)
      PROVE  Replacing'
  <2>1. comp[c].pc \in {"refund", "reserve"} /\ UNCHANGED file
    BY <1>5 DEF CompRefund, CompReserve
  <2>2. PICK step \in {"reserve", "assemble", "abort"} : CompGoes(c, step)
    BY <1>5, RefundGoes, ReserveGoes
  <2>3. comp'[c].old = comp[c].old /\ comp'[c].oldKey = comp[c].oldKey
    BY <1>5, RefundGoes, ReserveGoes
  <2>4. comp'[c].old = 0 /\ comp'[c].oldKey = None
    BY <2>1, <2>3 DEF Replacing
  <2> QED
    BY <1>0, <2>1, <2>2, <2>4, ReplacingGoes
<1>6. ASSUME NEW c \in Completes, CompAssemble(c)
      PROVE  Replacing'
  <2>1. comp[c].pc = "assemble" /\ UNCHANGED file
    BY <1>6 DEF CompAssemble
  <2>2. PICK step \in {"create", "findOld", "done"} :
          CompGoes(c, step) /\ (step = "findOld" => CompKeeps(c))
    BY <1>6, CompGoing DEF CompAssemble
  <2>3. step = "findOld" => comp'[c].old = 0 /\ comp'[c].oldKey = None
    BY <2>1, <2>2 DEF Replacing, CompKeeps
  <2> QED
    BY <1>0, <2>1, <2>2, <2>3, ReplacingGoes
<1>7. ASSUME NEW c \in Completes, CompFindOld(c)
      PROVE  Replacing'
  <2> DEFINE f == session[comp[c].sess].replaces
  <2>0. f \in Files /\ f # None /\ comp[c].pc = "findOld" /\ UNCHANGED <<file, session>>
    BY <1>7, OldOne DEF CompFindOld
  <2>1. CASE file[f] = None
    <3>1. CompGoes(c, "create")
      BY <1>7, <2>1, CompGoing DEF CompFindOld
    <3> QED
      BY <1>0, <2>0, <3>1, ReplacingGoes
  <2>2. CASE file[f] # None
    <3>1. CompGoes(c, "deleteOld") /\ comp'[c].old = file[f].size
      BY <1>7, <2>2, FindOldGoes
    <3>2. f \in Completes => comp[f].pc \in {"settle", "cleanup", "done"}
      BY <2>2 DEF Inv, SessionOwner
    <3>3. f \in Completes => comp'[f].pc \in {"settle", "cleanup", "done"}
      BY <2>0, <3>1, <3>2 DEF CompGoes
    <3>4. comp'[c].pc = "deleteOld" /\ comp'[c].sess = comp[c].sess
      BY <3>1 DEF CompGoes
    <3>5. \A o \in Completes \ {c} : comp'[o] = comp[o]
      BY <3>1 DEF CompGoes
    <3>6. \A o \in Completes : comp[o].pc \in {"settle", "cleanup", "done"} => o # c
      BY <2>0
    <3> QED
      BY <2>0, <3>1, <3>3, <3>4, <3>5, <3>6 DEF Replacing
  <2> QED
    BY <2>1, <2>2
<1>8. ASSUME NEW c \in Completes, CompDeleteOld(c) \/ CompCreate(c)
      PROVE  Replacing'
  <2>1. PICK step \in {"create", "done", "settle"} : CompGoes(c, step)
    BY <1>8, CompGoing DEF CompDeleteOld, CompCreate
  <2>2. comp[c].pc \in {"deleteOld", "create"}
    BY <1>8 DEF CompDeleteOld, CompCreate
  <2>3. \A f \in Files : \/ file'[f] \in {file[f], None}
                         \/ f = c /\ comp[c].pc = "create"
    BY <1>8 DEF CompDeleteOld, CompCreate, TypeOK
  <2> QED
    BY <1>0, <2>1, <2>2, <2>3, ReplacingGoes
<1>9. CASE UNCHANGED vars
  BY <1>1, <1>9 DEF vars
<1>10. CASE Next
  <2>1. ASSUME NEW s \in Sessions, NEW size \in Declared, NEW f \in Files \cup {None},
               OpenSession(s, size, f)
        PROVE  UNCHANGED <<comp, file>>
    BY <2>1 DEF OpenSession
  <2>2. ASSUME NEW p \in Puts, PutStep(p) \/ \E s \in Sessions, n \in PartNumbers, size \in Sizes : PutStart(p, s, n, size)
        PROVE  UNCHANGED <<comp, file>>
    BY <2>2 DEF PutStep, PutStart, PutUpload, PutRecord, PutReread
  <2>3. ASSUME NEW d \in Deletes, DelStep(d) \/ \E s \in Sessions : DelStart(d, s)
        PROVE  UNCHANGED <<comp, file>>
    BY <2>3 DEF DelStep, DelStart, DelAbort, DelRemove, DelRow
  <2> QED
    BY <1>1, <1>2, <1>3, <1>4, <1>5, <1>6, <1>7, <1>8, <1>10, <2>1, <2>2, <2>3 DEF Next, CompStep
<1> QED
  BY <1>9, <1>10

-----------------------------------------------------------------------------
(* What a completion expects of the file it replaces *)

LEMMA ElseStays ==
    /\ \A s \in Sessions, size \in Declared, f \in Files \cup {None} :
         OpenSession(s, size, f) => UNCHANGED <<used, comp, file>>
    /\ \A p \in Puts :
         (PutStep(p) \/ \E s \in Sessions, n \in PartNumbers, size \in Sizes : PutStart(p, s, n, size))
           => UNCHANGED <<used, comp, file>>
    /\ \A d \in Deletes :
         (DelStep(d) \/ \E s \in Sessions : DelStart(d, s)) => UNCHANGED <<used, comp, file>>
<1>1. ASSUME NEW s \in Sessions, NEW size \in Declared, NEW f \in Files \cup {None},
             OpenSession(s, size, f)
      PROVE  UNCHANGED <<used, comp, file>>
  BY <1>1 DEF OpenSession
<1>2. ASSUME NEW p \in Puts,
             PutStep(p) \/ \E s \in Sessions, n \in PartNumbers, size \in Sizes : PutStart(p, s, n, size)
      PROVE  UNCHANGED <<used, comp, file>>
  BY <1>2 DEF PutStep, PutStart, PutUpload, PutRecord, PutReread
<1>3. ASSUME NEW d \in Deletes, DelStep(d) \/ \E s \in Sessions : DelStart(d, s)
      PROVE  UNCHANGED <<used, comp, file>>
  BY <1>3 DEF DelStep, DelStart, DelAbort, DelRemove, DelRow
<1> QED
  BY <1>1, <1>2, <1>3

\* No two sessions were opened to replace the same file.
NoRivals ==
    \A s, t \in Sessions :
        session[s].replaces # None /\ session[s].replaces = session[t].replaces => s = t

\* What is refunded is there to be refunded: the file while it was not deleted,
\* its size as found afterwards; the reservation is net of it.
Terms(c) ==
    LET f == session[comp[c].sess].replaces IN
    /\ comp[c].pc \in {"reserve", "assemble", "findOld"} => comp[c].refund <= RefundFor(f)
    /\ comp[c].pc \in {"deleteOld", "create", "settle"} => comp[c].refund <= comp[c].old
    /\ comp[c].pc \in {"assemble", "findOld", "deleteOld", "create", "settle"} =>
         comp[c].reserve = NetCost(Total(comp[c].list), comp[c].refund)
    /\ comp[c].pc = "deleteOld" => file[f] # None
AllTerms == \A c \in Completes : Terms(c)

LEMMA TermsOther ==
    ASSUME TypeOK, Refs, RowsKept, NEW o \in Completes, Terms(o), comp'[o] = comp[o],
           LET f == session[comp[o].sess].replaces IN
           f \in Files /\ comp[o].pc \in {"reserve", "assemble", "findOld", "deleteOld"} =>
             \/ file'[f] = file[f]
             \/ file[f] = None /\ (file'[f] # None => file'[f].size \in Nat)
    PROVE  Terms(o)'
<1> DEFINE f == session[comp[o].sess].replaces
<1>1. CASE comp[o].pc = "idle"
  BY <1>1 DEF Terms
<1>2. CASE comp[o].pc # "idle"
  <2> DEFINE n == IF f # None /\ file'[f] # None THEN file'[f].size ELSE 0
  <2>1. session'[comp[o].sess].replaces = f /\ f \in Files \cup {None}
    BY <1>2 DEF Refs, Exists, RowsKept, TypeOK, SessionRow
  <2>2. comp[o].pc \in {"reserve", "assemble", "findOld"} => comp[o].refund <= n
    <3>1. ASSUME comp[o].pc \in {"reserve", "assemble", "findOld"}
          PROVE  comp[o].refund <= n
      <4>1. comp[o].refund <= RefundFor(f) /\ comp[o].refund \in Nat
        BY <3>1 DEF Terms, TypeOK
      <4>2. CASE f \in Files /\ file[f] = None /\ file'[f] # None /\ file'[f].size \in Nat
        BY <4>1, <4>2, <2>1 DEF RefundFor
      <4>4. CASE f \in Files /\ file[f] = None /\ file'[f] = None
        BY <4>1, <4>4 DEF RefundFor
      <4>3. CASE f = None \/ file'[f] = file[f]
        BY <4>1, <4>3, <2>1 DEF RefundFor
      <4> QED
        BY <2>1, <3>1, <4>2, <4>3, <4>4
    <3> QED
      BY <3>1
  <2>3. comp[o].pc = "deleteOld" => file'[f] # None
    <3>1. comp[o].pc = "deleteOld" => f \in Files /\ file[f] # None
      BY OldOne DEF Terms
    <3> QED
      BY <3>1
  <2> QED
    BY <2>1, <2>2, <2>3 DEF Terms, RefundFor
<1> QED
  BY <1>1, <1>2

\* Only the owner of the one session opened for a file deletes it.
LEMMA OneDeleter ==
    ASSUME Inv, TypeOK, Refs, NoRivals, NEW c \in Completes, NEW o \in Completes \ {c},
           comp[c].pc = "deleteOld",
           comp[o].pc \in {"reserve", "assemble", "findOld", "deleteOld"}
    PROVE  session[comp[o].sess].replaces # session[comp[c].sess].replaces
<1>1. comp[c].sess \in Sessions /\ comp[o].sess \in Sessions
  BY DEF Refs, Exists
<1>2. session[comp[c].sess].replaces # None
  BY OldOne
<1>3. Owns(c, comp[c].sess) /\ Owns(o, comp[o].sess)
  BY DEF Owns
<1>4. comp[c].sess # comp[o].sess
  BY <1>1, <1>3 DEF Inv, SessionOwner
<1> QED
  BY <1>1, <1>2, <1>4 DEF NoRivals

\* A step of a completion touches no other request.
LEMMA OthersStay ==
    ASSUME TypeOK, NEW c \in Completes,
           CompStep(c) \/ Interrupt(c) \/ (\E s \in Sessions : CompStart(c, s))
    PROVE  \A o \in Completes \ {c} : comp'[o] = comp[o]
<1>1. ASSUME NEW step \in CompSteps, CompMove(c, step) \/ CompEnd(c)
      PROVE  \A o \in Completes \ {c} : comp'[o] = comp[o]
  BY <1>1, CompGoing DEF CompGoes
<1>2. CASE CompClaim(c) \/ CompAbort(c) \/ CompAssemble(c) \/ CompDeleteOld(c) \/ CompCreate(c)
           \/ CompSettle(c) \/ CompCleanup(c) \/ Interrupt(c)
  <2>1. \E step \in CompSteps : CompMove(c, step) \/ CompEnd(c)
    BY <1>2 DEF CompClaim, CompAbort, CompAssemble, CompDeleteOld, CompCreate, CompSettle, CompCleanup, Interrupt
  <2> QED
    BY <1>1, <2>1
<1>3. CASE CompRefund(c) \/ CompReserve(c) \/ CompFindOld(c) \/ \E s \in Sessions : CompStart(c, s)
  BY <1>3 DEF CompRefund, CompReserve, CompFindOld, CompStart, CompMove, TypeOK
<1> QED
  BY <1>2, <1>3 DEF CompStep

LEMMA OthersTerms ==
    ASSUME Inv, TypeOK, Refs, RowsKept, NoRivals, AllTerms, NEW c \in Completes,
           CompStep(c) \/ Interrupt(c) \/ (\E s \in Sessions : CompStart(c, s))
    PROVE  \A o \in Completes \ {c} : Terms(o)'
<1> SUFFICES ASSUME NEW o \in Completes \ {c} PROVE Terms(o)'
  OBVIOUS
<1>1. comp'[o] = comp[o]
  BY OthersStay
<1>2. CASE UNCHANGED file
  BY <1>1, <1>2, TermsOther DEF AllTerms
<1>3. CASE CompDeleteOld(c)
  <2>1. \A f \in Files : file'[f] = file[f] \/ f = session[comp[c].sess].replaces
    BY <1>3 DEF CompDeleteOld, TypeOK
  <2>2. comp[c].pc = "deleteOld"
    BY <1>3 DEF CompDeleteOld
  <2> QED
    BY <1>1, <2>1, <2>2, OneDeleter, TermsOther DEF AllTerms
<1>4. CASE CompCreate(c)
  <2>1. file[c] = None
    BY <1>4 DEF CompCreate, Inv, SessionOwner
  <2>2. Total(comp[c].list) \in Nat
    BY TotalOfParts DEF TypeOK
  <2>3. \A f \in Files : \/ file'[f] = file[f]
                         \/ file[f] = None /\ (file'[f] # None => file'[f].size \in Nat)
    BY <1>4, <2>1, <2>2 DEF CompCreate, TypeOK, Files
  <2> QED
    BY <1>1, <2>3, TermsOther DEF AllTerms
<1> QED
  BY <1>2, <1>3, <1>4 DEF CompStep, Interrupt, CompStart, CompClaim, CompAbort, CompRefund, CompReserve,
     CompAssemble, CompFindOld, CompSettle, CompCleanup

\* A completion whose session names no file has nothing to refund.
LEMMA TermsSelf ==
    ASSUME Inv, TypeOK, Refs, Replacing, NEW c \in Completes, Terms(c), CompStep(c) \/ Interrupt(c)
    PROVE  Terms(c)'
<1> DEFINE f == session[comp[c].sess].replaces
<1>0. /\ comp[c].refund \in Nat /\ comp[c].reserve \in Nat /\ comp[c].old \in Nat
      /\ RefundFor(f) \in Nat
  <2>1. comp[c].pc # "idle" => f \in Files \cup {None}
    BY DEF Refs, Exists, TypeOK, SessionRow
  <2>2. comp[c].pc # "idle"
    BY DEF CompStep, Interrupt, CompClaim, CompAbort, CompRefund, CompReserve, CompAssemble,
           CompFindOld, CompDeleteOld, CompCreate, CompSettle, CompCleanup
  <2> QED
    BY <2>1, <2>2, RefundIsNat DEF TypeOK
<1>1. CASE comp'[c].pc \in {"idle", "claim", "abort", "refund", "cleanup", "done"}
  BY <1>1 DEF Terms
<1>2. CASE CompRefund(c)
  <2>1. /\ comp'[c].pc = "reserve" /\ comp'[c].sess = comp[c].sess
        /\ comp'[c].refund = RefundFor(f) /\ UNCHANGED <<session, file>>
    BY <1>2, RefundGoes DEF CompGoes, CompRefund
  <2>2. comp'[c].refund <= (IF f # None /\ file'[f] # None THEN file'[f].size ELSE 0)
    BY <1>0, <2>1 DEF RefundFor
  <2> QED
    BY <2>1, <2>2 DEF Terms, RefundFor
<1>3. CASE CompReserve(c)
  <2>1. UNCHANGED <<session, file>> /\ comp[c].pc = "reserve"
    BY <1>3 DEF CompReserve
  <2>2. /\ comp'[c].sess = comp[c].sess /\ comp'[c].list = comp[c].list /\ comp'[c].refund = comp[c].refund
        /\ \/ comp'[c].pc = "assemble" /\ comp'[c].reserve = NetCost(Total(comp[c].list), comp[c].refund)
           \/ comp'[c].pc = "abort"
    BY <1>3, ReserveGoes DEF CompGoes
  <2>3. CASE comp'[c].pc = "abort"
    BY <1>1, <2>3
  <2>4. CASE comp'[c].pc = "assemble"
    <3>1. comp[c].refund <= RefundFor(f)
      BY <2>1 DEF Terms
    <3>2. comp[c].refund <= (IF f # None /\ file'[f] # None THEN file'[f].size ELSE 0)
      BY <2>1, <3>1 DEF RefundFor
    <3> QED
      BY <2>1, <2>2, <2>4, <3>2 DEF Terms, RefundFor
  <2> QED
    BY <2>2, <2>3, <2>4
<1>4. CASE CompAssemble(c)
  <2>1. UNCHANGED <<session, file>> /\ comp[c].pc = "assemble"
    BY <1>4 DEF CompAssemble
  <2>2. \/ CompEnd(c)
        \/ CompMove(c, "findOld")
        \/ CompMove(c, "create") /\ f = None
    BY <1>4 DEF CompAssemble
  <2>3. CASE CompEnd(c)
    BY <1>1, <2>3, CompGoing DEF CompGoes
  <2>4. CASE CompMove(c, "findOld")
    <3>1. CompGoes(c, "findOld") /\ CompKeeps(c)
      BY <2>4, CompGoing
    <3> QED
      BY <2>1, <3>1 DEF Terms, RefundFor, CompGoes, CompKeeps
  <2>5. CASE CompMove(c, "create") /\ f = None
    <3>1. CompGoes(c, "create") /\ CompKeeps(c)
      BY <2>5, CompGoing
    <3>2. comp[c].refund <= 0 /\ comp[c].old = 0
      BY <2>1, <2>5 DEF Terms, RefundFor, Replacing
    <3> QED
      BY <2>1, <3>1, <3>2 DEF Terms, CompGoes, CompKeeps
  <2> QED
    BY <2>2, <2>3, <2>4, <2>5
<1>5. CASE CompFindOld(c)
  <2>1. UNCHANGED <<session, file>> /\ comp[c].pc = "findOld" /\ f # None /\ comp[c].old = 0
    BY <1>5, OldOne DEF CompFindOld, Replacing
  <2>2. comp[c].refund <= RefundFor(f) /\ comp[c].reserve = NetCost(Total(comp[c].list), comp[c].refund)
    BY <2>1 DEF Terms
  <2>3. CASE file[f] # None
    <3>1. /\ comp'[c].pc = "deleteOld" /\ comp'[c].sess = comp[c].sess /\ comp'[c].old = file[f].size
          /\ comp'[c].list = comp[c].list /\ comp'[c].refund = comp[c].refund
          /\ comp'[c].reserve = comp[c].reserve
      BY <1>5, <2>3, FindOldGoes DEF CompGoes
    <3> QED
      BY <2>1, <2>2, <2>3, <3>1 DEF Terms, RefundFor
  <2>4. CASE file[f] = None
    <3>1. CompGoes(c, "create") /\ CompKeeps(c)
      BY <1>5, <2>4, FindOldGoes
    <3>2. comp[c].refund <= 0
      BY <2>2, <2>4 DEF RefundFor
    <3> QED
      BY <2>1, <2>2, <3>1, <3>2 DEF Terms, CompGoes, CompKeeps
  <2> QED
    BY <2>3, <2>4
<1>6. CASE CompDeleteOld(c) \/ CompCreate(c)
  <2>1. UNCHANGED session /\ comp[c].pc \in {"deleteOld", "create"}
    BY <1>6 DEF CompDeleteOld, CompCreate
  <2>2. CASE CompEnd(c)
    BY <1>1, <2>2, CompGoing DEF CompGoes
  <2>3. CASE CompMove(c, "create") \/ CompMove(c, "settle")
    <3>1. PICK step \in {"create", "settle"} : CompGoes(c, step) /\ CompKeeps(c)
      BY <2>3, CompGoing
    <3>2. comp'[c].pc \in {"create", "settle"}
      BY <3>1 DEF CompGoes
    <3> QED
      BY <2>1, <3>1, <3>2 DEF Terms, CompKeeps
  <2> QED
    BY <1>6, <2>2, <2>3 DEF CompDeleteOld, CompCreate
<1>7. CASE CompClaim(c) \/ CompAbort(c) \/ CompSettle(c) \/ CompCleanup(c) \/ Interrupt(c)
  <2>1. PICK step \in {"done", "refund", "abort", "cleanup"} : CompGoes(c, step)
    BY <1>7, CompGoing DEF CompClaim, CompAbort, CompSettle, CompCleanup, Interrupt
  <2> QED
    BY <1>1, <2>1 DEF CompGoes
<1> QED
  BY <1>2, <1>3, <1>4, <1>5, <1>6, <1>7 DEF CompStep

LEMMA TermsStep ==
    ASSUME Inv, TypeOK, Refs, Replacing, NoRivals, AllTerms, [Next]_vars
    PROVE  AllTerms'
<1>0. RowsKept
  BY TypeStep
<1>1. CASE UNCHANGED <<comp, file>>
  <2>1. \A o \in Completes : Terms(o)'
    BY <1>0, <1>1, TermsOther DEF AllTerms
  <2> QED
    BY <2>1 DEF AllTerms
<1>2. ASSUME NEW c \in Completes, CompStep(c) \/ Interrupt(c)
      PROVE  AllTerms'
  BY <1>0, <1>2, TermsSelf, OthersTerms DEF AllTerms
<1>3. ASSUME NEW c \in Completes, NEW s \in Sessions, CompStart(c, s)
      PROVE  AllTerms'
  <2>1. comp'[c].pc = "claim"
    BY <1>3 DEF CompStart, IdleComp, TypeOK
  <2>2. Terms(c)'
    BY <2>1 DEF Terms
  <2> QED
    BY <1>0, <1>3, <2>2, OthersTerms DEF AllTerms
<1>4. CASE UNCHANGED vars
  BY <1>1, <1>4 DEF vars
<1>5. CASE Next
  BY <1>1, <1>2, <1>3, <1>5, ElseStays DEF Next
<1> QED
  BY <1>4, <1>5

-----------------------------------------------------------------------------
(* What a step does to the books *)

LEMMA BalancePositive ==
    ASSUME TypeOK, NEW c \in Completes, Terms(c), comp[c].pc \in {"create", "settle"}
    PROVE  Balance(c) >= 0
<1>1. /\ comp[c].refund \in Nat /\ comp[c].reserve \in Nat /\ comp[c].old \in Nat
      /\ Total(comp[c].list) \in Nat
  BY TotalOfParts DEF TypeOK
<1>2. comp[c].refund <= comp[c].old /\ comp[c].reserve = NetCost(Total(comp[c].list), comp[c].refund)
  BY DEF Terms
<1> QED
  BY <1>1, <1>2 DEF Balance, NetCost

LEMMA OwedPositive ==
    ASSUME TypeOK, NEW c \in Completes, comp[c].pc = "settle" => Terms(c)
    PROVE  Owed(c) >= 0
<1>1. comp[c].reserve \in Nat /\ comp[c].old \in Nat
  BY DEF TypeOK
<1>2. comp[c].pc = "settle" => Balance(c) >= 0
  BY BalancePositive
<1> QED
  BY <1>1, <1>2 DEF Owed

\* A step of one completion that leaves the files alone
LEMMA SpareMoves ==
    ASSUME TypeOK, Refs, TypeOK', NEW c \in Completes, CompStep(c) \/ Interrupt(c), UNCHANGED file
    PROVE  Spare' = Spare + (used' - used) + (Owed(c) - Owed(c)')
<1>1. Held' = Held - Owed(c) + Owed(c)'
  BY OthersStay, HeldMoves
<1>2. Stored' = Stored
  BY StoredStays
<1>3. used \in Nat /\ used' \in Nat /\ Held \in Int /\ Stored \in Nat
  BY SumsAreInts DEF TypeOK
<1>4. Owed(c) \in Int /\ Owed(c)' \in Int
  BY OwedIsInt, NextOwedIsInt
<1> QED
  BY <1>1, <1>2, <1>3, <1>4 DEF Spare

\* The steps at which a statement throws and the reservation is left behind
Throws(c) == comp[c].pc \in {"assemble", "deleteOld"} /\ CompEnd(c)

LEMMA SpareStep ==
    ASSUME Inv, TypeOK, Refs, Replacing, NEW c \in Completes, CompStep(c)
    PROVE  /\ Spare' >= Spare
           /\ Spare' = Spare \/ Throws(c) \/ (comp[c].pc = "settle" /\ used < Balance(c))
<1>0. TypeOK' /\ RowsKept
  <2>1. Next
    BY DEF Next
  <2> QED
    BY <2>1, TypeStep
<1> DEFINE o == Owed(c)
           q == Owed(c)'
           b == Balance(c)
<1>1. /\ comp[c].reserve \in Nat /\ comp[c].old \in Nat /\ o \in Int /\ q \in Int /\ b \in Int
      /\ used \in Nat /\ used' \in Nat /\ Spare \in Int
  BY <1>0, OwedIsInt, NextOwedIsInt, SumsAreInts DEF TypeOK
<1>2. CASE CompClaim(c) \/ CompAbort(c) \/ CompRefund(c) \/ CompCleanup(c)
  <2>1. UNCHANGED <<used, file>> /\ comp[c].pc \in {"claim", "abort", "refund", "cleanup"}
    BY <1>2 DEF CompClaim, CompAbort, CompRefund, CompCleanup
  <2>2. PICK step \in {"done", "refund", "abort", "reserve"} : CompGoes(c, step)
    BY <1>2, CompGoing, RefundGoes DEF CompClaim, CompAbort, CompCleanup
  <2>3. o = 0 /\ q = 0
    BY <2>1, <2>2 DEF Owed, CompGoes
  <2> QED
    BY <1>0, <1>1, <2>1, <2>3, SpareMoves
<1>3. CASE CompReserve(c)
  <2>1. UNCHANGED file /\ comp[c].pc = "reserve"
    BY <1>3 DEF CompReserve
  <2>2. o = 0
    BY <2>1 DEF Owed
  <2>3. q = used' - used
    <3>1. CASE CompGoes(c, "abort") /\ used' = used
      BY <1>1, <3>1 DEF CompGoes, Owed
    <3>2. CASE CompGoes(c, "assemble") /\ used' = used + comp'[c].reserve /\ comp'[c].reserve \in Nat
      BY <1>1, <3>2 DEF CompGoes, Owed
    <3> QED
      BY <1>3, <3>1, <3>2, ReserveGoes
  <2> QED
    BY <1>0, <1>1, <2>1, <2>2, <2>3, SpareMoves
<1>4. CASE CompAssemble(c)
  <2>1. UNCHANGED <<used, file>> /\ comp[c].pc = "assemble"
    BY <1>4 DEF CompAssemble
  <2>2. o = comp[c].reserve /\ comp[c].old = 0
    BY <2>1 DEF Owed, Replacing
  <2>3. CASE CompEnd(c)
    <3>1. q = 0
      BY <2>3, CompGoing DEF Owed, CompGoes
    <3> QED
      BY <1>0, <1>1, <2>1, <2>2, <2>3, <3>1, SpareMoves DEF Throws
  <2>4. CASE CompMove(c, "findOld") \/ CompMove(c, "create")
    <3>1. PICK step \in {"findOld", "create"} : CompGoes(c, step) /\ CompKeeps(c)
      BY <2>4, CompGoing
    <3>2. q = comp[c].reserve
      BY <1>1, <2>2, <3>1 DEF Owed, CompGoes, CompKeeps
    <3> QED
      BY <1>0, <1>1, <2>1, <2>2, <3>2, SpareMoves
  <2> QED
    BY <1>4, <2>3, <2>4 DEF CompAssemble
<1>5. CASE CompFindOld(c)
  <2>1. UNCHANGED <<used, file>> /\ comp[c].pc = "findOld"
    BY <1>5 DEF CompFindOld
  <2>2. o = comp[c].reserve /\ comp[c].old = 0
    BY <2>1 DEF Owed, Replacing
  <2>3. q = comp[c].reserve
    <3>1. CASE CompGoes(c, "deleteOld") /\ comp'[c].reserve = comp[c].reserve
      BY <3>1 DEF Owed, CompGoes
    <3>2. CASE CompGoes(c, "create") /\ CompKeeps(c)
      BY <1>1, <2>2, <3>2 DEF Owed, CompGoes, CompKeeps
    <3> QED
      BY <1>5, <3>1, <3>2, FindOldGoes
  <2> QED
    BY <1>0, <1>1, <2>1, <2>2, <2>3, SpareMoves
<1>6. CASE CompDeleteOld(c)
  <2> DEFINE f == session[comp[c].sess].replaces
  <2>1. comp[c].pc = "deleteOld" /\ UNCHANGED used /\ f \in Files /\ f # None
    BY <1>6, OldOne DEF CompDeleteOld
  <2>2. o = comp[c].reserve
    BY <2>1 DEF Owed
  <2>3. CASE file[f] = None
    <3>1. CompEnd(c) /\ UNCHANGED file
      BY <1>6, <2>3 DEF CompDeleteOld
    <3>2. q = 0
      BY <3>1, CompGoing DEF Owed, CompGoes
    <3> QED
      BY <1>0, <1>1, <2>1, <2>2, <3>1, <3>2, SpareMoves DEF Throws
  <2>4. CASE file[f] # None
    <3>1. CompMove(c, "create") /\ file' = [file EXCEPT ![f] = None]
      BY <1>6, <2>4 DEF CompDeleteOld
    <3>2. CompGoes(c, "create") /\ CompKeeps(c)
      BY <3>1, CompGoing
    <3>3. q = comp[c].reserve + comp[c].old
      BY <3>2 DEF Owed, CompGoes, CompKeeps
    <3>4. PICK e \in Files : e = f
      BY <2>1
    <3>5. RefundFor(e) = comp[c].old /\ RefundFor(e)' = 0
      BY <2>1, <2>4, <3>1, <3>4 DEF RefundFor, Replacing, TypeOK
    <3>6. Stored' = Stored - comp[c].old
      <4>1. \A g \in Files \ {e} : file'[g] = file[g]
        BY <3>1, <3>4 DEF TypeOK
      <4>2. Stored' = Stored - RefundFor(e) + RefundFor(e)'
        BY <1>0, <4>1, StoredMoves
      <4> QED
        BY <1>1, <3>5, <4>2, SumsAreInts
    <3>7. Held' = Held - o + q
      BY <1>0, OthersStay, HeldMoves
    <3> QED
      BY <1>1, <2>1, <2>2, <3>3, <3>6, <3>7, SumsAreInts DEF Spare
  <2> QED
    BY <2>3, <2>4
<1>7. CASE CompCreate(c)
  <2> DEFINE row == [key |-> comp[c].sess, size |-> Total(comp[c].list)]
  <2>1. comp[c].pc = "create" /\ UNCHANGED used /\ file' = [file EXCEPT ![c] = row] /\ CompMove(c, "settle")
    BY <1>7 DEF CompCreate
  <2>2. file[c] = None /\ c \in Files /\ c # None
    BY <2>1, UploadAssumption DEF Inv, SessionOwner, Files
  <2>3. Total(comp[c].list) \in Nat /\ row # None
    <3>1. comp[c].sess \in Sessions
      BY <2>1 DEF Refs, Exists
    <3>2. Total(comp[c].list) \in Nat
      BY TotalOfParts DEF TypeOK
    <3> QED
      BY <3>1, <3>2, UploadAssumption
  <2>4. RefundFor(c) = 0 /\ RefundFor(c)' = Total(comp[c].list)
    BY <2>1, <2>2, <2>3 DEF RefundFor, TypeOK
  <2>5. Stored' = Stored + Total(comp[c].list)
    <3>1. \A g \in Files \ {c} : file'[g] = file[g]
      BY <2>1 DEF TypeOK
    <3>2. Stored' = Stored - RefundFor(c) + RefundFor(c)'
      BY <1>0, <2>2, <3>1, StoredMoves
    <3> QED
      BY <2>3, <2>4, <3>2, SumsAreInts
  <2>6. CompGoes(c, "settle") /\ CompKeeps(c)
    BY <2>1, CompGoing
  <2>7. o = comp[c].reserve + comp[c].old
        /\ q = comp[c].old + comp[c].reserve - Total(comp[c].list)
    BY <2>1, <2>6 DEF Owed, Balance, CompGoes, CompKeeps
  <2>8. Held' = Held - o + q
    BY <1>0, OthersStay, HeldMoves
  <2> QED
    BY <1>1, <2>1, <2>3, <2>5, <2>7, <2>8, SumsAreInts DEF Spare
<1>8. CASE CompSettle(c)
  <2>1. UNCHANGED file /\ comp[c].pc = "settle"
        /\ used' = IF b > 0 THEN Refunded(used, b) ELSE used - b
    BY <1>8 DEF CompSettle
  <2>2. PICK step \in {"done", "cleanup"} : CompGoes(c, step)
    BY <1>8, CompGoing DEF CompSettle
  <2>3. o = b /\ q = 0
    BY <2>1, <2>2 DEF Owed, CompGoes
  <2>4. Spare' = Spare + (used' - used) + b
    BY <1>0, <1>1, <2>1, <2>3, SpareMoves
  <2>5. used' >= used - b /\ (used' = used - b \/ used < b)
    BY <1>1, <2>1 DEF Refunded
  <2> QED
    BY <1>1, <2>1, <2>4, <2>5
<1> QED
  BY <1>2, <1>3, <1>4, <1>5, <1>6, <1>7, <1>8 DEF CompStep

-----------------------------------------------------------------------------
(* Never too little *)

UploadInv == Inv /\ TypeOK /\ Refs /\ Replacing

LEMMA UploadInvInit == Init => UploadInv /\ AllTerms /\ Spare = 0
<1> SUFFICES ASSUME Init PROVE UploadInv /\ AllTerms /\ Spare = 0
  OBVIOUS
<1>1. Inv /\ TypeOK /\ Refs
  BY InvInit, TypeInit
<1>2. \A c \in Completes : comp[c].pc = "idle"
  BY DEF Init, IdleComp
<1>3. Replacing /\ AllTerms
  BY <1>2 DEF Replacing, AllTerms, Terms
<1>4. Held = 0
  <2> DEFINE f == [c \in Completes |-> Owed(c)]
  <2>1. f = [c \in Completes |-> 0]
    BY <1>2 DEF Owed
  <2> QED
    BY <2>1, FilesFinite, TotalZero DEF Held
<1>5. Stored = OldBytes
  <2> DEFINE f == [g \in Files |-> 0]
             h == [g \in Files |-> RefundFor(g)]
  <2>1. OldFile \in Files /\ OldFile # None /\ OldBytes \in Nat /\ OldFile \notin Completes
    BY UploadAssumption DEF Files
  <2>2. \A g \in Files \ {OldFile} : RefundFor(g) = 0
    BY DEF Init, RefundFor
  <2>3. RefundFor(OldFile) = OldBytes
    <3>1. [key |-> OldFile, size |-> OldBytes] # None
      BY <2>1, UploadAssumption
    <3> QED
      BY <2>1, <3>1 DEF Init, RefundFor
  <2>4. f \in [Files -> Int] /\ h \in [Files -> Int]
    BY <2>1, <2>2, <2>3
  <2>5. /\ \A g \in Files \ {OldFile} : h[g] = f[g]
        /\ f[OldFile] = 0 /\ h[OldFile] = OldBytes
    BY <2>1, <2>2, <2>3
  <2>6. SumFunction(f) = 0 /\ Stored = SumFunction(h)
    BY FilesFinite, TotalZero DEF Stored
  <2> HIDE DEF f, h
  <2>7. SumFunction(h) = SumFunction(f) - f[OldFile] + h[OldFile]
    BY <2>1, <2>4, <2>5, FilesFinite, TotalUpdate
  <2> QED
    BY <2>1, <2>5, <2>6, <2>7
<1>6. used = OldBytes /\ OldBytes \in Nat
  BY UploadAssumption DEF Init
<1> QED
  BY <1>1, <1>3, <1>4, <1>5, <1>6 DEF UploadInv, Spare

LEMMA UploadInvStep == UploadInv /\ [Next]_vars => UploadInv'
  BY InvStep, TypeStep, ReplacingStep DEF UploadInv

\* The steps of sessions, PUTs and DELETEs, and the start of a completion, leave
\* the books alone.
LEMMA SpareElse ==
    ASSUME UploadInv, [Next]_vars
    PROVE  \/ \E c \in Completes : CompStep(c) \/ Interrupt(c)
           \/ UNCHANGED used /\ Spare' = Spare
<1>0. TypeOK /\ TypeOK' /\ Refs
  BY TypeStep DEF UploadInv
<1>1. CASE UNCHANGED <<used, comp, file>>
  BY <1>1, StoredStays, HeldStays DEF Spare
<1>2. ASSUME NEW c \in Completes, NEW s \in Sessions, CompStart(c, s)
      PROVE  UNCHANGED used /\ Spare' = Spare
  <2>1. UNCHANGED <<used, file>> /\ comp[c].pc = "idle" /\ comp'[c].pc = "claim"
    BY <1>0, <1>2 DEF CompStart, IdleComp, TypeOK
  <2>2. Owed(c) = 0 /\ Owed(c)' = 0
    BY <2>1 DEF Owed
  <2>3. Held' = Held - Owed(c) + Owed(c)'
    BY <1>0, <1>2, OthersStay, HeldMoves
  <2> QED
    BY <1>0, <2>1, <2>2, <2>3, StoredStays, SumsAreInts DEF Spare
<1> QED
  <2>1. CASE UNCHANGED vars
    BY <1>1, <2>1 DEF vars
  <2>2. CASE Next
    BY <1>1, <1>2, <2>2, ElseStays DEF Next
  <2> QED
    BY <2>1, <2>2

\* An interrupted completion leaves its share charged; only the difference it was
\* about to charge for a file that was gone is lost to the books.
LEMMA SpareInterrupt ==
    ASSUME UploadInv, NEW c \in Completes, Interrupt(c), comp[c].pc = "settle" => Terms(c)
    PROVE  Spare' >= Spare
<1>0. TypeOK /\ Refs /\ TypeOK'
  <2>1. Next
    BY DEF Next
  <2> QED
    BY <2>1, TypeStep DEF UploadInv
<1>1. UNCHANGED <<used, file>> /\ CompGoes(c, "done")
  BY <1>0, CompGoing DEF Interrupt
<1>2. Owed(c)' = 0
  BY <1>1 DEF CompGoes, Owed
<1>3. Owed(c) >= 0 /\ Owed(c) \in Int /\ used \in Nat /\ Spare \in Int
  BY <1>0, OwedPositive, OwedIsInt, SumsAreInts DEF TypeOK
<1>4. Spare' = Spare + (used' - used) + (Owed(c) - Owed(c)')
  BY <1>0, <1>1, SpareMoves
<1> QED
  BY <1>1, <1>2, <1>3, <1>4

LEMMA SpareGrows ==
    ASSUME UploadInv, [Next]_vars, AllTerms \/ MaxInterrupts = 0
    PROVE  Spare' >= Spare
<1>0. Spare \in Int
  BY SumsAreInts DEF UploadInv
<1>1. ASSUME NEW c \in Completes, CompStep(c)
      PROVE  Spare' >= Spare
  BY <1>1, SpareStep DEF UploadInv
<1>2. ASSUME NEW c \in Completes, Interrupt(c)
      PROVE  Spare' >= Spare
  <2>1. MaxInterrupts # 0
    <3>1. interrupts \in 0..MaxInterrupts /\ interrupts < MaxInterrupts
      BY <1>2 DEF Interrupt, UploadInv, TypeOK
    <3> QED
      BY <3>1
  <2> QED
    BY <1>2, <2>1, SpareInterrupt DEF AllTerms
<1> QED
  BY <1>0, <1>1, <1>2, SpareElse

\* A server that is never interrupted never charges an owner less than what is
\* stored and what is still being completed, however many sessions race to replace
\* the same file.
THEOREM UninterruptedBooks ==
    ASSUME MaxInterrupts = 0
    PROVE  Spec => []NeverUndercharged
<1> DEFINE I == UploadInv /\ Spare >= 0
<1>1. Init => I
  BY UploadInvInit
<1>2. I /\ [Next]_vars => I'
  <2> SUFFICES ASSUME I, [Next]_vars PROVE I'
    OBVIOUS
  <2>1. UploadInv'
    BY UploadInvStep
  <2>2. Spare' >= Spare
    BY SpareGrows
  <2>3. Spare \in Int /\ Spare' \in Int
    BY <2>1, SumsAreInts, NextSumsAreInts DEF UploadInv
  <2> QED
    BY <2>1, <2>2, <2>3
<1>3. I => NeverUndercharged
  BY BooksAreSpare DEF UploadInv
<1> QED
  BY <1>1, <1>2, <1>3, PTL DEF Spec

LEMMA TermsNext == UploadInv /\ AllTerms /\ NoRivals /\ [Next]_vars => UploadInv' /\ AllTerms'
  BY UploadInvStep, TermsStep DEF UploadInv

\* Interruptions at any step of any completion never leave an owner charged less
\* than what is stored, as long as no two sessions replace the same file.
THEOREM InterruptedBooks == Spec /\ []NoRivals => []NeverUndercharged
<1> DEFINE I == UploadInv /\ AllTerms /\ Spare >= 0
<1>1. Init => I
  BY UploadInvInit
<1>2. I /\ NoRivals /\ [Next]_vars => I'
  <2> SUFFICES ASSUME I, NoRivals, [Next]_vars PROVE I'
    OBVIOUS
  <2>1. UploadInv' /\ AllTerms'
    BY TermsNext
  <2>2. Spare' >= Spare
    BY SpareGrows
  <2>3. Spare \in Int /\ Spare' \in Int
    BY <2>1, SumsAreInts, NextSumsAreInts DEF UploadInv
  <2> QED
    BY <2>1, <2>2, <2>3
<1>3. I => NeverUndercharged
  BY BooksAreSpare DEF UploadInv
<1> QED
  BY <1>1, <1>2, <1>3, PTL DEF Spec

-----------------------------------------------------------------------------
(* Never more than the quota *)

\* Every charge but the last settlement looks at the quota, and the settlement
\* has nothing left to charge.
LEMMA QuotaStep ==
    ASSUME UploadInv, AllTerms, QuotaHolds, [Next]_vars
    PROVE  QuotaHolds'
<1>0. used \in Nat /\ Quota \in Nat /\ TypeOK /\ Refs
  BY UploadAssumption DEF UploadInv, TypeOK
<1>1. CASE UNCHANGED used
  BY <1>1 DEF QuotaHolds
<1>2. ASSUME NEW c \in Completes, CompReserve(c)
      PROVE  QuotaHolds'
  <2>1. \/ used' = used
        \/ used' = used + comp'[c].reserve /\ (comp'[c].reserve = 0 \/ used' <= Quota)
    BY <1>0, <1>2, ReserveGoes
  <2> QED
    BY <1>0, <2>1 DEF QuotaHolds
<1>3. ASSUME NEW c \in Completes, CompSettle(c)
      PROVE  QuotaHolds'
  <2>1. Balance(c) >= 0 /\ Balance(c) \in Int
    BY <1>0, <1>3, BalancePositive, OwedIsInt DEF CompSettle, AllTerms
  <2>2. used' = IF Balance(c) > 0 THEN Refunded(used, Balance(c)) ELSE used - Balance(c)
    BY <1>3 DEF CompSettle
  <2> QED
    BY <1>0, <2>1, <2>2 DEF QuotaHolds, Refunded
<1>4. ASSUME NEW c \in Completes, CompStep(c) \/ Interrupt(c), ~CompReserve(c), ~CompSettle(c)
      PROVE  UNCHANGED used
  BY <1>4 DEF CompStep, Interrupt, CompClaim, CompAbort, CompRefund, CompAssemble, CompFindOld,
              CompDeleteOld, CompCreate, CompCleanup
<1> QED
  BY <1>1, <1>2, <1>3, <1>4, SpareElse DEF CompStep

\* The owner's balance never exceeds the quota, whatever uploads are completed at
\* the same time, as long as no two sessions replace the same file: then one
\* deletes what the other had counted on, and its settlement is charged unchecked.
THEOREM WithinQuota ==
    ASSUME OldBytes <= Quota
    PROVE  Spec /\ []NoRivals => []QuotaHolds
<1>1. Init => UploadInv /\ AllTerms /\ QuotaHolds
  BY UploadInvInit DEF Init, QuotaHolds
<1>2. UploadInv /\ AllTerms /\ QuotaHolds /\ NoRivals /\ [Next]_vars
        => (UploadInv /\ AllTerms /\ QuotaHolds)'
  BY TermsNext, QuotaStep
<1> QED
  BY <1>1, <1>2, PTL DEF Spec

-----------------------------------------------------------------------------
(* Every file is stored *)

\* Once a completion is to remove the object of the file it replaced, that file is
\* gone for good: its session is completed and nobody will make a file of it again.
Gone(k) ==
    k \in Sessions =>
        /\ session[k].state # "absent" /\ session[k].completed
        /\ \A o \in Completes : Owns(o, k) => comp[o].pc \in {"settle", "cleanup"} /\ file[o] = None

GoneKeys == {k \in Keys : Gone(k)}

Removes(c) ==
    LET f == session[comp[c].sess].replaces IN
    /\ comp[c].pc = "deleteOld" /\ file[f] # None => comp[c].oldKey = file[f].key
    /\ comp[c].pc \in {"create", "settle", "cleanup"} => comp[c].oldKey \in GoneKeys \cup {None}
Removing ==
    /\ file[OldFile] # None => file[OldFile].key = OldFile
    /\ \A c \in Completes : Removes(c)

\* The object a completion assembled, from its own list, without a hole
Keeps(c) ==
    LET k == comp[c].sess IN
    /\ comp[c].pc \in {"refund", "reserve", "assemble", "findOld", "deleteOld", "create"} =>
         Contiguous(comp[c].list)
    /\ comp[c].pc \in {"findOld", "deleteOld", "create"} => object[k] = comp[c].list
    /\ file[c] # None => /\ object[k] # None /\ Contiguous(object[k])
                        /\ Total(object[k]) = file[c].size
Kept == \A c \in Completes : Keeps(c)

LEMMA KeptIsStored == Inv /\ Kept => FileStored
  BY DEF Inv, SessionOwner, Kept, Keeps, FileStored

\* A step of a completion deletes the file it replaces or makes its own.
LEMMA FileSteps ==
    ASSUME TypeOK, NEW c \in Completes, CompStep(c) \/ Interrupt(c), NEW f \in Files
    PROVE  \/ file'[f] = file[f]
           \/ file'[f] = None /\ CompDeleteOld(c)
           \/ f = c /\ CompCreate(c)
<1>1. CASE CompDeleteOld(c)
  BY <1>1 DEF CompDeleteOld, TypeOK
<1>2. CASE CompCreate(c)
  BY <1>2 DEF CompCreate, TypeOK
<1> QED
  BY <1>1, <1>2 DEF CompStep, Interrupt, CompClaim, CompAbort, CompRefund, CompReserve,
     CompAssemble, CompFindOld, CompSettle, CompCleanup

LEMMA SessStays ==
    ASSUME TypeOK, Refs, NEW c \in Completes, CompStep(c) \/ Interrupt(c)
    PROVE  comp'[c].sess = comp[c].sess /\ comp[c].sess \in Sessions
<1>1. comp'[c].sess = comp[c].sess
  BY CompGoing, RefundGoes, ReserveGoes, FindOldGoes DEF CompGoes, CompStep, Interrupt,
     CompClaim, CompAbort, CompAssemble, CompDeleteOld, CompCreate, CompSettle, CompCleanup
<1>2. comp[c].pc # "idle"
  BY DEF CompStep, Interrupt, CompClaim, CompAbort, CompRefund, CompReserve,
         CompAssemble, CompFindOld, CompDeleteOld, CompCreate, CompSettle, CompCleanup
<1> QED
  BY <1>1, <1>2 DEF Refs, Exists

\* What is owned after a step was owned before, or is claimed by it.
LEMMA OwnersNext ==
    ASSUME UploadInv, [Next]_vars, NEW k \in Sessions, session[k].completed,
           NEW o \in Completes, Owns(o, k)'
    PROVE  Owns(o, k)
<1>0. TypeOK /\ Refs /\ Inv
  BY DEF UploadInv
<1>1. CASE UNCHANGED <<comp, file>>
  BY <1>1 DEF Owns
<1>2. ASSUME NEW c \in Completes, CompStep(c) \/ Interrupt(c)
      PROVE  Owns(o, k)
  <2>1. CASE o # c
    <3>1. comp'[o] = comp[o]
      BY <1>0, <1>2, <2>1, OthersStay
    <3>2. file'[o] = file[o] \/ file'[o] = None
      BY <1>0, <1>2, <2>1, FileSteps DEF Files
    <3> QED
      BY <3>1, <3>2 DEF Owns
  <2>2. CASE o = c
    <3>1. comp'[c].sess = comp[c].sess
      BY <1>0, <1>2, SessStays
    <3>2. comp[c].sess = k
      BY <2>2, <3>1 DEF Owns
    <3>3. comp[c].pc # "idle"
      BY <1>2 DEF CompStep, Interrupt, CompClaim, CompAbort, CompRefund, CompReserve,
         CompAssemble, CompFindOld, CompDeleteOld, CompCreate, CompSettle, CompCleanup
    <3>4. CASE comp[c].pc \notin {"claim", "done"}
      BY <1>0, <2>2, <3>2, <3>3, <3>4 DEF Owns, Inv, Shape
    <3>5. CASE comp[c].pc = "claim"
      <4>1. CompEnd(c) /\ UNCHANGED file
        BY <1>2, <3>2, <3>5 DEF CompStep, Interrupt, CompClaim, CompAbort, CompRefund, CompReserve,
           CompAssemble, CompFindOld, CompDeleteOld, CompCreate, CompSettle, CompCleanup, Open
      <4>2. comp'[c].pc = "done"
        BY <1>0, <4>1, CompGoing DEF CompGoes
      <4> QED
        BY <2>2, <3>2, <4>1, <4>2 DEF Owns
    <3>6. CASE comp[c].pc = "done"
      BY <1>2, <3>6 DEF CompStep, Interrupt, CompClaim, CompAbort, CompRefund, CompReserve,
         CompAssemble, CompFindOld, CompDeleteOld, CompCreate, CompSettle, CompCleanup
    <3> QED
      BY <3>3, <3>4, <3>5, <3>6
  <2> QED
    BY <2>1, <2>2
<1>3. ASSUME NEW c \in Completes, NEW s \in Sessions, CompStart(c, s)
      PROVE  Owns(o, k)
  <2>1. UNCHANGED file /\ comp'[c].pc = "claim" /\ comp[c].pc = "idle"
    BY <1>0, <1>3 DEF CompStart, IdleComp, TypeOK
  <2>2. file[c] = None
    BY <1>0, <2>1 DEF Inv, SessionOwner
  <2>3. o # c
    BY <2>1, <2>2 DEF Owns
  <2>4. comp'[o] = comp[o]
    BY <1>0, <1>3, <2>3, OthersStay
  <2> QED
    BY <2>1, <2>4 DEF Owns
<1> QED
  <2>1. CASE UNCHANGED vars
    BY <1>1, <2>1 DEF vars
  <2>2. CASE Next
    BY <1>1, <1>2, <1>3, <2>2, ElseStays DEF Next
  <2> QED
    BY <2>1, <2>2

\* A completion that has made its file makes no other.
LEMMA LateSteps ==
    ASSUME UploadInv, [Next]_vars, NEW o \in Completes, comp[o].pc \in {"settle", "cleanup"}
    PROVE  comp'[o].pc \in {"settle", "cleanup", "done"} /\ (file[o] = None => file'[o] = None)
<1>0. TypeOK /\ Refs /\ Inv
  BY DEF UploadInv
<1>1. CASE UNCHANGED <<comp, file>>
  BY <1>1
<1>2. ASSUME NEW c \in Completes, CompStep(c) \/ Interrupt(c), o # c
      PROVE  comp'[o] = comp[o] /\ (file[o] = None => file'[o] = None)
  <2>1. comp'[o] = comp[o]
    BY <1>0, <1>2, OthersStay
  <2>2. file'[o] = file[o] \/ file'[o] = None
    BY <1>0, <1>2, FileSteps DEF Files
  <2> QED
    BY <2>1, <2>2
<1>3. CASE CompStep(o) \/ Interrupt(o)
  <2>1. CompSettle(o) \/ CompCleanup(o) \/ Interrupt(o)
    BY <1>3 DEF CompStep, Interrupt, CompClaim, CompAbort, CompRefund, CompReserve,
       CompAssemble, CompFindOld, CompDeleteOld, CompCreate
  <2>2. UNCHANGED file /\ (CompEnd(o) \/ CompMove(o, "cleanup"))
    BY <2>1 DEF CompSettle, CompCleanup, Interrupt
  <2> QED
    BY <1>0, <2>2, CompGoing DEF CompGoes
<1>4. ASSUME NEW c \in Completes, NEW s \in Sessions, CompStart(c, s)
      PROVE  comp'[o] = comp[o] /\ file' = file
  <2>1. UNCHANGED file /\ comp[c].pc = "idle"
    BY <1>4 DEF CompStart
  <2> QED
    BY <1>0, <1>4, <2>1, OthersStay
<1> QED
  <2>1. CASE UNCHANGED vars
    BY <1>1, <2>1 DEF vars
  <2>2. CASE Next
    BY <1>1, <1>2, <1>3, <1>4, <2>2, ElseStays DEF Next
  <2> QED
    BY <2>1, <2>2

\* Gone stays gone.
LEMMA GoneStays ==
    ASSUME UploadInv, [Next]_vars, NEW k \in Keys, Gone(k)
    PROVE  Gone(k)'
<1> SUFFICES ASSUME k \in Sessions PROVE Gone(k)'
  BY DEF Gone
<1>0. /\ RowsKept /\ session[k].completed /\ session[k].state # "absent"
      /\ \A o \in Completes : Owns(o, k) => comp[o].pc \in {"settle", "cleanup"} /\ file[o] = None
  BY TypeStep DEF UploadInv, Gone
<1>1. session'[k].completed /\ session'[k].state # "absent"
  BY <1>0 DEF RowsKept
<1>2. ASSUME NEW o \in Completes, Owns(o, k)'
      PROVE  comp'[o].pc \in {"settle", "cleanup"} /\ file'[o] = None
  <2>1. comp[o].pc \in {"settle", "cleanup"} /\ file[o] = None
    BY <1>0, <1>2, OwnersNext
  <2>2. comp'[o].pc \in {"settle", "cleanup", "done"} /\ file'[o] = None
    BY <2>1, LateSteps
  <2> QED
    BY <1>2, <2>2 DEF Owns
<1> QED
  BY <1>1, <1>2 DEF Gone

LEMMA GoneKeysGrow ==
    ASSUME UploadInv, [Next]_vars
    PROVE  GoneKeys \subseteq GoneKeys'
<1>1. \A k \in Keys : Gone(k) => Gone(k)'
  BY GoneStays
<1> QED
  BY <1>1 DEF GoneKeys, Keys

LEMMA RemovesOther ==
    ASSUME UploadInv, [Next]_vars, NEW o \in Completes, comp'[o] = comp[o], Removes(o),
           LET f == session[comp[o].sess].replaces IN
           comp[o].pc = "deleteOld" => file'[f] \in {file[f], None}
    PROVE  Removes(o)'
<1>1. GoneKeys \subseteq GoneKeys' /\ RowsKept /\ Refs /\ TypeOK
  BY GoneKeysGrow, TypeStep DEF UploadInv
<1>2. CASE comp[o].pc # "deleteOld"
  BY <1>1, <1>2 DEF Removes
<1>3. CASE comp[o].pc = "deleteOld"
  <2> DEFINE f == session[comp[o].sess].replaces
  <2>1. f \in Files /\ session'[comp[o].sess].replaces = f
    BY <1>1, <1>3, OldOne DEF Refs, Exists, RowsKept
  <2>2. file'[f] # None => comp[o].oldKey = file'[f].key
    BY <1>3, <2>1 DEF Removes
  <2> QED
    BY <1>3, <2>1, <2>2 DEF Removes
<1> QED
  BY <1>2, <1>3

\* Deleting the replaced file makes its key one of the gone.
LEMMA DeletedIsGone ==
    ASSUME UploadInv, [Next]_vars, Removing, NEW c \in Completes, CompDeleteOld(c),
           file[session[comp[c].sess].replaces] # None
    PROVE  comp[c].oldKey \in GoneKeys'
<1> DEFINE f == session[comp[c].sess].replaces
<1>0. TypeOK /\ Refs /\ Inv /\ RowsKept /\ comp[c].pc = "deleteOld"
  BY TypeStep DEF UploadInv, CompDeleteOld
<1>a. f \in Files /\ f # None /\ comp[c].oldKey = file[f].key
  BY <1>0, OldOne DEF Removing, Removes
<1>b. file[f].key \in Keys
  BY <1>0, <1>a DEF TypeOK
<1>1. PICK k \in Keys : k = comp[c].oldKey /\ k = file[f].key
  BY <1>a, <1>b
<1>2. CASE f = OldFile
  <2>1. k \notin Sessions
    BY <1>1, <1>2, UploadAssumption DEF Removing
  <2> QED
    BY <1>1, <2>1 DEF GoneKeys, Gone
<1>3. CASE f \in Completes
  <2>1. comp[f].sess = k /\ Owns(f, k) /\ comp[f].pc \in {"settle", "cleanup", "done"}
    <3>1. file[f].key = comp[f].sess /\ comp[f].pc \in {"settle", "cleanup", "done"}
      BY <1>0, <1>3 DEF Inv, SessionOwner
    <3> QED
      BY <1>1, <3>1 DEF Owns
  <2>2. k \in Sessions
    BY <1>0, <1>3, <2>1 DEF Refs, Exists
  <2>3. /\ session[k].completed /\ session[k].state # "absent"
        /\ \A o \in Completes : Owns(o, k) => o = f
    BY <1>0, <1>3, <2>1, <2>2 DEF Inv, SessionOwner
  <2>4. session'[k].completed /\ session'[k].state # "absent"
    BY <1>0, <2>2, <2>3 DEF RowsKept
  <2>5. file'[f] = None /\ comp'[f] = comp[f]
    <3>1. f # c
      BY <1>0, <2>1
    <3>2. CompStep(c)
      BY DEF CompStep
    <3> QED
      BY <1>0, <1>a, <1>3, <3>1, <3>2, OthersStay DEF CompDeleteOld, TypeOK
  <2>6. ASSUME NEW o \in Completes, Owns(o, k)'
        PROVE  comp'[o].pc \in {"settle", "cleanup"} /\ file'[o] = None
    <3>1. o = f
      BY <2>2, <2>3, <2>6, OwnersNext
    <3> QED
      BY <2>1, <2>5, <2>6, <3>1 DEF Owns
  <2>7. Gone(k)'
    BY <2>4, <2>6 DEF Gone
  <2> QED
    BY <1>1, <2>7 DEF GoneKeys, Keys
<1> QED
  BY <1>a, <1>2, <1>3 DEF Files

LEMMA RemovesSelf ==
    ASSUME UploadInv, [Next]_vars, Removing, NEW c \in Completes, CompStep(c) \/ Interrupt(c)
    PROVE  Removes(c)'
<1> DEFINE f == session[comp[c].sess].replaces
<1>0. TypeOK /\ Refs /\ GoneKeys \subseteq GoneKeys' /\ Removes(c)
  BY GoneKeysGrow DEF UploadInv, Removing
<1>1. CASE comp'[c].pc \notin {"deleteOld", "create", "settle", "cleanup"}
  BY <1>1 DEF Removes
<1>2. CASE CompAssemble(c)
  <2>1. comp[c].oldKey = None
    BY <1>2 DEF CompAssemble, UploadInv, Replacing
  <2>2. CASE CompMove(c, "create")
    <3>1. comp'[c].pc = "create" /\ comp'[c].oldKey = None
      BY <1>0, <2>1, <2>2, CompGoing DEF CompGoes, CompKeeps
    <3> QED
      BY <3>1 DEF Removes
  <2>3. CASE CompMove(c, "findOld") \/ CompEnd(c)
    <3>1. comp'[c].pc \in {"findOld", "done"}
      BY <1>0, <2>3, CompGoing DEF CompGoes
    <3> QED
      BY <1>1, <3>1
  <2> QED
    BY <1>2, <2>2, <2>3 DEF CompAssemble
<1>3. CASE CompFindOld(c)
  <2>1. comp[c].oldKey = None /\ UNCHANGED <<session, file>>
    BY <1>3 DEF CompFindOld, UploadInv, Replacing
  <2>2. CASE CompGoes(c, "create") /\ CompKeeps(c)
    <3>1. comp'[c].pc = "create" /\ comp'[c].oldKey = None
      BY <2>1, <2>2 DEF CompGoes, CompKeeps
    <3> QED
      BY <3>1 DEF Removes
  <2>3. CASE CompGoes(c, "deleteOld") /\ comp'[c].oldKey = file[f].key
    <3>1. comp'[c].pc = "deleteOld" /\ comp'[c].sess = comp[c].sess
      BY <2>3 DEF CompGoes
    <3> QED
      BY <2>1, <2>3, <3>1 DEF Removes
  <2> QED
    BY <1>0, <1>3, <2>2, <2>3, FindOldGoes
<1>4. CASE CompDeleteOld(c)
  <2>1. CASE CompMove(c, "create") /\ file[f] # None
    <3>1. comp'[c].pc = "create" /\ comp'[c].oldKey = comp[c].oldKey
      BY <1>0, <2>1, CompGoing DEF CompGoes, CompKeeps
    <3>2. comp[c].oldKey \in GoneKeys'
      BY <1>4, <2>1, DeletedIsGone
    <3> QED
      BY <3>1, <3>2 DEF Removes
  <2>2. CASE CompEnd(c)
    <3>1. comp'[c].pc = "done"
      BY <1>0, <2>2, CompGoing DEF CompGoes
    <3> QED
      BY <1>1, <3>1
  <2> QED
    BY <1>4, <2>1, <2>2 DEF CompDeleteOld
<1>5. CASE CompCreate(c) \/ CompSettle(c)
  <2>1. comp[c].pc \in {"create", "settle"}
    BY <1>5 DEF CompCreate, CompSettle
  <2>2. CASE CompMove(c, "settle") \/ CompMove(c, "cleanup")
    <3>1. comp'[c].pc \in {"settle", "cleanup"} /\ comp'[c].oldKey = comp[c].oldKey
      BY <1>0, <2>2, CompGoing DEF CompGoes, CompKeeps
    <3>2. comp[c].oldKey \in GoneKeys' \cup {None}
      BY <1>0, <2>1 DEF Removes
    <3> QED
      BY <3>1, <3>2 DEF Removes
  <2>3. CASE CompEnd(c)
    <3>1. comp'[c].pc = "done"
      BY <1>0, <2>3, CompGoing DEF CompGoes
    <3> QED
      BY <1>1, <3>1
  <2> QED
    BY <1>5, <2>2, <2>3 DEF CompCreate, CompSettle
<1>6. CASE CompClaim(c) \/ CompAbort(c) \/ CompRefund(c) \/ CompReserve(c) \/ CompCleanup(c) \/ Interrupt(c)
  <2>1. comp'[c].pc \in {"done", "refund", "abort", "reserve", "assemble"}
    BY <1>0, <1>6, CompGoing, RefundGoes, ReserveGoes
       DEF CompGoes, CompClaim, CompAbort, CompCleanup, Interrupt
  <2> QED
    BY <1>1, <2>1
<1> QED
  BY <1>2, <1>3, <1>4, <1>5, <1>6 DEF CompStep

LEMMA RemovingStep ==
    ASSUME UploadInv, [Next]_vars, Removing
    PROVE  Removing'
<1>0. TypeOK /\ Refs /\ OldFile \in Files \ Completes
  BY UploadAssumption DEF UploadInv, Files
<1>1. CASE UNCHANGED <<comp, file>>
  <2>1. \A o \in Completes : Removes(o)'
    BY <1>1, RemovesOther DEF Removing
  <2> QED
    BY <1>1, <2>1 DEF Removing
<1>2. ASSUME NEW c \in Completes, CompStep(c) \/ Interrupt(c)
      PROVE  Removing'
  <2>1. ASSUME NEW o \in Completes \ {c}
        PROVE  Removes(o)'
    <3>1. comp'[o] = comp[o]
      BY <1>0, <1>2, OthersStay
    <3>2. ASSUME comp[o].pc = "deleteOld"
          PROVE  file'[session[comp[o].sess].replaces] \in {file[session[comp[o].sess].replaces], None}
      <4>1. session[comp[o].sess].replaces \in Files
        BY <1>0, <3>2, OldOne
      <4>2. session[comp[o].sess].replaces = c => comp[c].pc # "create"
        BY <3>2 DEF UploadInv, Replacing
      <4> QED
        BY <1>0, <1>2, <4>1, <4>2, FileSteps DEF CompCreate
    <3> QED
      BY <3>1, <3>2, RemovesOther DEF Removing
  <2>2. file'[OldFile] \in {file[OldFile], None}
    BY <1>0, <1>2, FileSteps
  <2> QED
    BY <1>2, <2>1, <2>2, RemovesSelf DEF Removing
<1>3. ASSUME NEW c \in Completes, NEW s \in Sessions, CompStart(c, s)
      PROVE  Removing'
  <2>1. UNCHANGED file /\ comp'[c].pc = "claim"
    BY <1>0, <1>3 DEF CompStart, IdleComp, TypeOK
  <2>2. Removes(c)'
    BY <2>1 DEF Removes
  <2>3. \A o \in Completes \ {c} : Removes(o)'
    BY <1>0, <1>3, <2>1, OthersStay, RemovesOther DEF Removing
  <2> QED
    BY <2>1, <2>2, <2>3 DEF Removing
<1> QED
  <2>1. CASE UNCHANGED vars
    BY <1>1, <2>1 DEF vars
  <2>2. CASE Next
    BY <1>1, <1>2, <1>3, <2>2, ElseStays DEF Next
  <2> QED
    BY <2>1, <2>2

\* The object a completion assembled, for a file to be made or made, is overwritten
\* by nobody, removed by no cleanup, and by no DELETE that spares claimed sessions.
LEMMA ObjectStays ==
    ASSUME UploadInv, Removing, AbortSparesClaimed, [Next]_vars, NEW o \in Completes,
           comp[o].pc \in {"findOld", "deleteOld", "create"} \/ file[o] # None
    PROVE  object'[comp[o].sess] = object[comp[o].sess]
<1>0. TypeOK /\ Refs /\ Inv
  BY DEF UploadInv
<1>1. comp[o].pc # "idle"
  BY <1>0 DEF Inv, SessionOwner
<1>2. PICK k \in Sessions : k = comp[o].sess /\ Owns(o, k)
  BY <1>0, <1>1 DEF Refs, Exists, Owns
<1>3. k \in Keys
  BY DEF Keys
<1>4. CASE UNCHANGED object
  BY <1>4
<1>5. ASSUME NEW c \in Completes, CompAssemble(c)
      PROVE  object'[k] = object[k]
  <2>1. comp[c].pc = "assemble" /\ (UNCHANGED object \/ object' = [object EXCEPT ![comp[c].sess] = comp[c].list])
    BY <1>5 DEF CompAssemble
  <2>2. Owns(c, comp[c].sess) /\ file[c] = None
    BY <1>0, <2>1 DEF Owns, Inv, SessionOwner
  <2>3. comp[c].sess # k
    BY <1>0, <1>2, <2>1, <2>2 DEF Inv, SessionOwner
  <2> QED
    BY <1>0, <1>3, <2>1, <2>3 DEF TypeOK
<1>6. ASSUME NEW c \in Completes, CompCleanup(c)
      PROVE  object'[k] = object[k]
  <2>1. comp[c].oldKey \in GoneKeys \cup {None} /\ object' = [object EXCEPT ![comp[c].oldKey] = None]
    BY <1>6 DEF CompCleanup, Removing, Removes
  <2>2. comp[c].oldKey # k
    BY <1>2, <2>1, UploadAssumption DEF GoneKeys, Gone
  <2> QED
    BY <1>0, <1>3, <2>1, <2>2 DEF TypeOK
<1>7. ASSUME NEW d \in Deletes, DelRemove(d)
      PROVE  object'[k] = object[k]
  <2>1. del[d].pc = "remove" /\ object' = [object EXCEPT ![del[d].sess] = None]
    BY <1>7 DEF DelRemove
  <2>2. del[d].sess # k
    BY <1>2, <2>1 DEF AbortSparesClaimed
  <2> QED
    BY <1>0, <1>3, <2>1, <2>2 DEF TypeOK
<1>8. ASSUME NEW c \in Completes, CompStep(c) \/ Interrupt(c) \/ (\E s \in Sessions : CompStart(c, s)),
             ~CompAssemble(c), ~CompCleanup(c)
      PROVE  UNCHANGED object
  BY <1>8 DEF CompStep, Interrupt, CompStart, CompClaim, CompAbort, CompRefund, CompReserve, CompFindOld,
     CompDeleteOld, CompCreate, CompSettle
<1>9. ASSUME NEW d \in Deletes, DelStep(d) \/ (\E s \in Sessions : DelStart(d, s)), ~DelRemove(d)
      PROVE  UNCHANGED object
  BY <1>9 DEF DelStep, DelStart, DelAbort, DelRow
<1>10. ASSUME NEW p \in Puts,
              PutStep(p) \/ \E s \in Sessions, n \in PartNumbers, size \in Sizes : PutStart(p, s, n, size)
       PROVE  UNCHANGED object
  BY <1>10 DEF PutStep, PutStart, PutUpload, PutRecord, PutReread
<1>11. ASSUME NEW s \in Sessions, NEW size \in Declared, NEW f \in Files \cup {None},
              OpenSession(s, size, f)
       PROVE  UNCHANGED object
  BY <1>11 DEF OpenSession
<1> QED
  <2>1. CASE UNCHANGED vars
    BY <1>4, <2>1 DEF vars
  <2>2. CASE Next
    BY <1>2, <1>4, <1>5, <1>6, <1>7, <1>8, <1>9, <1>10, <1>11, <2>2 DEF Next, CompStep, DelStep
  <2> QED
    BY <2>1, <2>2

\* A request that does not move keeps what it has.
LEMMA KeepsOther ==
    ASSUME UploadInv, Removing, AbortSparesClaimed, [Next]_vars, NEW o \in Completes, Keeps(o),
           comp'[o] = comp[o], file'[o] \in {file[o], None}
    PROVE  Keeps(o)'
<1>1. comp[o].pc \in {"findOld", "deleteOld", "create"} \/ file[o] # None =>
        object'[comp[o].sess] = object[comp[o].sess]
  BY ObjectStays
<1>2. Contiguous(comp[o].list) => Contiguous(comp'[o].list)
  OBVIOUS
<1> QED
  BY <1>1 DEF Keeps, Contiguous

LEMMA KeepsSelf ==
    ASSUME UploadInv, Removing, AbortSparesClaimed, [Next]_vars, NEW c \in Completes, Keeps(c),
           CompStep(c) \/ Interrupt(c)
    PROVE  Keeps(c)'
<1> DEFINE k == comp[c].sess
<1>0. TypeOK /\ Refs /\ Inv /\ comp'[c].sess = k /\ k \in Sessions
  BY SessStays DEF UploadInv
<1>1. ASSUME ~CompCreate(c)
      PROVE  file'[c] # None => /\ object'[k] # None /\ Contiguous(object'[k])
                                /\ Total(object'[k]) = file'[c].size
  <2>1. file'[c] # None => file'[c] = file[c]
    BY <1>0, <1>1, FileSteps DEF Files
  <2>2. file[c] # None => object'[k] = object[k]
    BY ObjectStays
  <2> QED
    BY <2>1, <2>2 DEF Keeps
<1>2. CASE comp'[c].pc \notin {"refund", "reserve", "assemble", "findOld", "deleteOld", "create"} /\ ~CompCreate(c)
  BY <1>0, <1>1, <1>2 DEF Keeps, Contiguous
<1>3. ASSUME ~CompCreate(c), Contiguous(comp[c].list), comp'[c].list = comp[c].list,
             comp'[c].pc \in {"findOld", "deleteOld", "create"} => object'[k] = comp[c].list
      PROVE  Keeps(c)'
  BY <1>0, <1>1, <1>3 DEF Keeps, Contiguous
<1>4. CASE CompClaim(c)
  <2>0. ~CompCreate(c)
    BY <1>4 DEF CompClaim, CompCreate
  <2>1. CASE CompMove(c, "refund") /\ Contiguous(comp[c].list)
    <3>1. comp'[c].pc = "refund" /\ comp'[c].list = comp[c].list
      BY <1>0, <2>1, CompGoing DEF CompGoes, CompKeeps
    <3> QED
      BY <1>3, <2>0, <2>1, <3>1
  <2>2. CASE CompEnd(c) \/ CompMove(c, "abort")
    <3>1. comp'[c].pc \in {"done", "abort"}
      BY <1>0, <2>2, CompGoing DEF CompGoes
    <3> QED
      BY <1>2, <2>0, <3>1
  <2> QED
    BY <1>4, <2>1, <2>2 DEF CompClaim, Whole
<1>5. CASE CompRefund(c) \/ CompReserve(c)
  <2>1. ~CompCreate(c) /\ comp[c].pc \in {"refund", "reserve"}
    BY <1>5 DEF CompRefund, CompReserve, CompCreate
  <2>2. /\ comp'[c].pc \in {"reserve", "assemble", "abort"} /\ comp'[c].list = comp[c].list
    BY <1>0, <1>5, RefundGoes, ReserveGoes DEF CompGoes
  <2>3. Contiguous(comp[c].list)
    BY <2>1 DEF Keeps
  <2> QED
    BY <1>3, <2>1, <2>2, <2>3
<1>6. CASE CompAssemble(c)
  <2>1. ~CompCreate(c) /\ comp[c].pc = "assemble" /\ k \in Keys
    BY <1>0, <1>6 DEF CompAssemble, CompCreate, Keys
  <2>2. Contiguous(comp[c].list)
    BY <2>1 DEF Keeps
  <2>3. CASE object' = [object EXCEPT ![k] = comp[c].list] /\ (CompMove(c, "create") \/ CompMove(c, "findOld"))
    <3>1. comp'[c].list = comp[c].list
      BY <1>0, <2>3, CompGoing DEF CompKeeps
    <3>2. object'[k] = comp[c].list
      BY <1>0, <2>1, <2>3 DEF TypeOK
    <3> QED
      BY <1>3, <2>1, <2>2, <3>1, <3>2
  <2>4. CASE CompEnd(c)
    <3>1. comp'[c].pc = "done"
      BY <1>0, <2>4, CompGoing DEF CompGoes
    <3> QED
      BY <1>2, <2>1, <3>1
  <2> QED
    BY <1>6, <2>3, <2>4 DEF CompAssemble
<1>7. CASE CompFindOld(c) \/ CompDeleteOld(c)
  <2>1. ~CompCreate(c) /\ comp[c].pc \in {"findOld", "deleteOld"}
    BY <1>7 DEF CompFindOld, CompDeleteOld, CompCreate
  <2>2. Contiguous(comp[c].list) /\ object[k] = comp[c].list
    BY <2>1 DEF Keeps
  <2>3. object'[k] = object[k]
    BY <2>1, ObjectStays
  <2>4. comp'[c].list = comp[c].list \/ comp'[c].pc = "done"
    BY <1>0, <1>7, CompGoing, FindOldGoes DEF CompGoes, CompKeeps, CompDeleteOld
  <2>5. CASE comp'[c].list = comp[c].list
    BY <1>3, <2>1, <2>2, <2>3, <2>5
  <2>6. CASE comp'[c].pc = "done"
    BY <1>2, <2>1, <2>6
  <2> QED
    BY <2>4, <2>5, <2>6
<1>8. CASE CompCreate(c)
  <2>1. comp[c].pc = "create" /\ file' = [file EXCEPT ![c] = [key |-> k, size |-> Total(comp[c].list)]]
    BY <1>8 DEF CompCreate
  <2>2. Contiguous(comp[c].list) /\ object[k] = comp[c].list
    BY <2>1 DEF Keeps
  <2>3. object'[k] = object[k]
    BY <2>1, ObjectStays
  <2>4. comp'[c].pc = "settle"
    BY <1>0, <1>8, CompGoing DEF CompCreate, CompGoes
  <2>5. file'[c].size = Total(comp[c].list)
    BY <1>0, <2>1 DEF TypeOK, Files
  <2>6. comp[c].list # None
    BY UploadAssumption, <1>0 DEF TypeOK, Parts
  <2> QED
    BY <1>0, <2>2, <2>3, <2>4, <2>5, <2>6 DEF Keeps, Contiguous
<1>9. CASE CompAbort(c) \/ CompSettle(c) \/ CompCleanup(c) \/ Interrupt(c)
  <2>1. ~CompCreate(c)
    <3>1. \E step \in {"done", "cleanup"} : comp'[c].pc = step
      BY <1>0, <1>9, CompGoing DEF CompGoes, CompAbort, CompSettle, CompCleanup, Interrupt
    <3>2. CompCreate(c) => comp'[c].pc = "settle"
      BY <1>0, CompGoing DEF CompCreate, CompGoes
    <3> QED
      BY <3>1, <3>2
  <2>2. comp'[c].pc \in {"done", "cleanup"}
    BY <1>0, <1>9, CompGoing DEF CompGoes, CompAbort, CompSettle, CompCleanup, Interrupt
  <2> QED
    BY <1>2, <2>1, <2>2
<1> QED
  BY <1>4, <1>5, <1>6, <1>7, <1>8, <1>9 DEF CompStep

LEMMA KeptStep ==
    ASSUME UploadInv, Removing, AbortSparesClaimed, Kept, [Next]_vars
    PROVE  Kept'
<1>0. TypeOK /\ Refs /\ Inv
  BY DEF UploadInv
<1>1. CASE UNCHANGED <<comp, file>>
  <2>1. \A o \in Completes : Keeps(o)'
    BY <1>1, KeepsOther DEF Kept
  <2> QED
    BY <2>1 DEF Kept
<1>2. ASSUME NEW c \in Completes, CompStep(c) \/ Interrupt(c)
      PROVE  Kept'
  <2>1. ASSUME NEW o \in Completes \ {c}
        PROVE  Keeps(o)'
    <3>1. comp'[o] = comp[o] /\ file'[o] \in {file[o], None}
      BY <1>0, <1>2, OthersStay, FileSteps DEF Files
    <3> QED
      BY <3>1, KeepsOther DEF Kept
  <2> QED
    BY <1>2, <2>1, KeepsSelf DEF Kept
<1>3. ASSUME NEW c \in Completes, NEW s \in Sessions, CompStart(c, s)
      PROVE  Kept'
  <2>1. UNCHANGED file /\ comp'[c].pc = "claim" /\ comp[c].pc = "idle"
    BY <1>0, <1>3 DEF CompStart, IdleComp, TypeOK
  <2>2. file[c] = None
    BY <1>0, <2>1 DEF Inv, SessionOwner
  <2>3. Keeps(c)'
    BY <2>1, <2>2 DEF Keeps
  <2>4. \A o \in Completes \ {c} : Keeps(o)'
    BY <1>0, <1>3, <2>1, OthersStay, KeepsOther DEF Kept
  <2> QED
    BY <2>3, <2>4 DEF Kept
<1> QED
  <2>1. CASE UNCHANGED vars
    BY <1>1, <2>1 DEF vars
  <2>2. CASE Next
    BY <1>1, <1>2, <1>3, <2>2, ElseStays DEF Next
  <2> QED
    BY <2>1, <2>2

\* As long as no DELETE is left that removes the object of a session claimed
\* meanwhile (the race the run upload_abort shows), every File row has its object,
\* assembled from parts 1..N of just the bytes the row is billed for: no completion
\* overwrites another's object, and no cleanup after a replacement removes one.
THEOREM FilesAreStored == Spec /\ []AbortSparesClaimed => []FileStored
<1> DEFINE I == UploadInv /\ Removing /\ Kept
<1>1. Init => I
  <2> SUFFICES ASSUME Init PROVE I
    OBVIOUS
  <2>1. UploadInv
    BY UploadInvInit
  <2>2. \A c \in Completes : comp[c].pc = "idle" /\ file[c] = None
    BY UploadAssumption DEF Init, IdleComp, Files
  <2>3. file[OldFile].key = OldFile
    BY DEF Init, Files
  <2> QED
    BY <2>1, <2>2, <2>3 DEF Removing, Removes, Kept, Keeps
<1>2. I /\ AbortSparesClaimed /\ [Next]_vars => I'
  BY UploadInvStep, RemovingStep, KeptStep
<1>3. I => FileStored
  BY KeptIsStored DEF UploadInv
<1> QED
  BY <1>1, <1>2, <1>3, PTL DEF Spec

-----------------------------------------------------------------------------
(* Exact books *)

\* What was recorded is in the multipart upload, which stays open until the
\* completion that claimed the session assembles it.
Uploaded ==
    /\ \A s \in Sessions : Open(s) => mpu[s].open
    /\ \A s \in Sessions, n \in PartNumbers : session[s].parts[n] # 0 /\ Open(s) => mpu[s].parts[n] # 0
    /\ \A p \in Puts : put[p].pc \in {"record", "reread"} /\ mpu[put[p].sess].open =>
                         mpu[put[p].sess].parts[put[p].n] # 0
    /\ \A c \in Completes : comp[c].pc \in {"refund", "reserve", "assemble"} => mpu[comp[c].sess].open
    /\ \A c \in Completes, n \in PartNumbers :
         comp[c].pc \in {"claim", "refund", "reserve", "assemble"} /\ comp[c].list[n] # 0
           /\ mpu[comp[c].sess].open => mpu[comp[c].sess].parts[n] # 0

\* What the steps do to the multipart uploads
MpuKeeps ==
    \A s \in Sessions : session[s].state # "absent" =>
        /\ mpu'[s].open => mpu[s].open
        /\ \A n \in PartNumbers : mpu'[s].open /\ mpu[s].parts[n] # 0 => mpu'[s].parts[n] # 0

LEMMA MpuStep ==
    ASSUME TypeOK, Refs, [Next]_vars
    PROVE  MpuKeeps
<1>1. CASE UNCHANGED mpu
  BY <1>1 DEF MpuKeeps
<1>2. ASSUME NEW s \in Sessions, NEW size \in Declared, NEW f \in Files \cup {None},
             OpenSession(s, size, f)
      PROVE  MpuKeeps
  <2>1. \A t \in Sessions : t # s => mpu'[t] = mpu[t]
    BY <1>2 DEF OpenSession, TypeOK
  <2> QED
    BY <1>2, <2>1 DEF OpenSession, MpuKeeps
<1>3. ASSUME NEW s \in Sessions, mpu' = [mpu EXCEPT ![s] = NoUpload]
      PROVE  MpuKeeps
  <2>1. \A t \in Sessions : t # s => mpu'[t] = mpu[t]
    BY <1>3 DEF TypeOK
  <2>2. ~mpu'[s].open
    BY <1>3 DEF TypeOK, NoUpload
  <2> QED
    BY <2>1, <2>2 DEF MpuKeeps
<1>4. ASSUME NEW p \in Puts, PutUpload(p)
      PROVE  MpuKeeps
  <2> DEFINE s == put[p].sess
             list == [mpu[s].parts EXCEPT ![put[p].n] = put[p].size]
  <2>1. s \in Sessions /\ put[p].size \in Sizes /\ put[p].size # 0 /\ mpu[s].parts \in Parts
    BY <1>4, UploadAssumption DEF PutUpload, Refs, Exists, TypeOK
  <2>2. \A n \in PartNumbers : mpu[s].parts[n] # 0 => list[n] # 0
    BY <2>1 DEF Parts
  <2>3. mpu' = mpu \/ mpu' = [mpu EXCEPT ![s].parts = list]
    BY <1>4 DEF PutUpload
  <2> HIDE DEF list
  <2>4. CASE mpu' = [mpu EXCEPT ![s].parts = list]
    <3>1. \A t \in Sessions : t # s => mpu'[t] = mpu[t]
      BY <2>4 DEF TypeOK
    <3>2. mpu'[s].open = mpu[s].open /\ mpu'[s].parts = list
      BY <2>1, <2>4 DEF TypeOK
    <3> QED
      BY <2>2, <3>1, <3>2 DEF MpuKeeps
  <2> QED
    BY <1>1, <2>3, <2>4
<1>5. ASSUME NEW c \in Completes, CompAbort(c) \/ CompAssemble(c)
      PROVE  MpuKeeps
  <2>1. comp[c].sess \in Sessions
    BY <1>5 DEF CompAbort, CompAssemble, Refs, Exists
  <2>2. UNCHANGED mpu \/ mpu' = [mpu EXCEPT ![comp[c].sess] = NoUpload]
    BY <1>5 DEF CompAbort, CompAssemble
  <2> QED
    BY <1>1, <1>3, <2>1, <2>2
<1>6. ASSUME NEW d \in Deletes, DelAbort(d)
      PROVE  MpuKeeps
  <2>1. del[d].sess \in Sessions /\ mpu' = [mpu EXCEPT ![del[d].sess] = NoUpload]
    BY <1>6 DEF DelAbort, Refs, Exists
  <2> QED
    BY <1>3, <2>1
<1>7. ASSUME NEW c \in Completes, CompStep(c) \/ Interrupt(c) \/ (\E s \in Sessions : CompStart(c, s)),
             ~CompAbort(c), ~CompAssemble(c)
      PROVE  UNCHANGED mpu
  BY <1>7 DEF CompStep, Interrupt, CompStart, CompClaim, CompRefund, CompReserve, CompFindOld,
     CompDeleteOld, CompCreate, CompSettle, CompCleanup
<1>8. ASSUME NEW d \in Deletes, DelStep(d) \/ (\E s \in Sessions : DelStart(d, s)), ~DelAbort(d)
      PROVE  UNCHANGED mpu
  BY <1>8 DEF DelStep, DelStart, DelRemove, DelRow
<1>9. ASSUME NEW p \in Puts, ~PutUpload(p),
             PutStep(p) \/ \E s \in Sessions, n \in PartNumbers, size \in Sizes : PutStart(p, s, n, size)
       PROVE  UNCHANGED mpu
  BY <1>9 DEF PutStep, PutStart, PutRecord, PutReread
<1> QED
  <2>1. CASE UNCHANGED vars
    BY <1>1, <2>1 DEF vars
  <2>2. CASE Next
    BY <1>1, <1>2, <1>4, <1>5, <1>6, <1>7, <1>8, <1>9, <2>2 DEF Next, CompStep, DelStep
  <2> QED
    BY <2>1, <2>2

\* With no DELETE, only a completion that owns its session closes an upload.
LEMMA MpuOpenStays ==
    ASSUME Deletes = {}, UploadInv, [Next]_vars, NEW s \in Sessions, session[s].state # "absent", mpu[s].open
    PROVE  \/ mpu'[s].open
           \/ \E c \in Completes : /\ comp[c].sess = s /\ comp[c].pc \in {"abort", "assemble"}
                                  /\ CompStep(c)
                                  /\ comp'[c].pc \notin {"refund", "reserve", "assemble"}
<1>0. TypeOK /\ Refs
  BY DEF UploadInv
<1>1. CASE UNCHANGED mpu
  BY <1>1
<1>2. ASSUME NEW t \in Sessions, NEW size \in Declared, NEW f \in Files \cup {None},
             OpenSession(t, size, f)
      PROVE  mpu'[s].open
  BY <1>0, <1>2 DEF OpenSession, TypeOK
<1>3. ASSUME NEW p \in Puts, PutUpload(p)
      PROVE  mpu'[s].open
  <2> DEFINE t == put[p].sess
             list == [mpu[t].parts EXCEPT ![put[p].n] = put[p].size]
  <2>1. mpu' = mpu \/ mpu' = [mpu EXCEPT ![t].parts = list]
    BY <1>3 DEF PutUpload
  <2> HIDE DEF list
  <2>2. mpu[s] \in [open : BOOLEAN, parts : Parts] /\ DOMAIN mpu = Sessions
    BY <1>0 DEF TypeOK
  <2>3. ASSUME mpu' = [mpu EXCEPT ![t].parts = list]
        PROVE  mpu'[s].open
    <3>1. CASE s = t
      BY <2>2, <2>3, <3>1
    <3>2. CASE s # t
      BY <2>2, <2>3, <3>2
    <3> QED
      BY <3>1, <3>2
  <2> QED
    BY <2>1, <2>3
<1>4. ASSUME NEW c \in Completes, CompAbort(c) \/ CompAssemble(c)
      PROVE  \/ mpu'[s].open
             \/ /\ comp[c].sess = s /\ comp[c].pc \in {"abort", "assemble"} /\ CompStep(c)
                /\ comp'[c].pc \notin {"refund", "reserve", "assemble"}
  <2>1. UNCHANGED mpu \/ mpu' = [mpu EXCEPT ![comp[c].sess] = NoUpload]
    BY <1>4 DEF CompAbort, CompAssemble
  <2>2. comp[c].pc \in {"abort", "assemble"} /\ CompStep(c)
    BY <1>4 DEF CompAbort, CompAssemble, CompStep
  <2>3. comp'[c].pc \in {"done", "create", "findOld"}
    BY <1>0, <1>4, CompGoing DEF CompGoes, CompAbort, CompAssemble
  <2>4. comp[c].sess # s => mpu'[s] = mpu[s]
    BY <1>0, <2>1 DEF TypeOK
  <2> QED
    BY <2>2, <2>3, <2>4
<1>5. ASSUME NEW c \in Completes, CompStep(c) \/ Interrupt(c) \/ (\E t \in Sessions : CompStart(c, t)),
             ~CompAbort(c), ~CompAssemble(c)
      PROVE  UNCHANGED mpu
  BY <1>5 DEF CompStep, Interrupt, CompStart, CompClaim, CompRefund, CompReserve, CompFindOld,
     CompDeleteOld, CompCreate, CompSettle, CompCleanup
<1>6. ASSUME NEW p \in Puts, ~PutUpload(p),
             PutStep(p) \/ \E t \in Sessions, n \in PartNumbers, size \in Sizes : PutStart(p, t, n, size)
       PROVE  UNCHANGED mpu
  BY <1>6 DEF PutStep, PutStart, PutRecord, PutReread
<1> QED
  <2>1. CASE UNCHANGED vars
    BY <1>1, <2>1 DEF vars
  <2>2. CASE Next
    BY <1>1, <1>2, <1>3, <1>4, <1>5, <1>6, <2>2 DEF Next, CompStep
  <2> QED
    BY <2>1, <2>2

LEMMA PutTrace ==
    ASSUME TypeOK, Refs, [Next]_vars, NEW p \in Puts, put'[p].pc \in {"record", "reread"}
    PROVE  /\ put'[p].sess = put[p].sess /\ put'[p].n = put[p].n
           /\ put[p].sess \in Sessions /\ session[put[p].sess].state # "absent" /\ put[p].n \in PartNumbers
           /\ \/ put[p].pc \in {"record", "reread"}
              \/ mpu'[put[p].sess].parts[put[p].n] # 0
<1>1. CASE UNCHANGED put
  BY <1>1 DEF Refs, Exists, TypeOK
<1>2. ASSUME NEW q \in Puts, PutUpload(q) \/ PutRecord(q) \/ PutReread(q), p # q
      PROVE  put'[p] = put[p]
  BY <1>2, PutGoing, RereadGoes DEF PutUpload, PutRecord, PutGoes
<1>3. CASE PutUpload(p)
  <2> DEFINE s == put[p].sess
             list == [mpu[s].parts EXCEPT ![put[p].n] = put[p].size]
  <2>1. s \in Sessions /\ put[p].size \in Sizes /\ put[p].size # 0 /\ mpu[s].parts \in Parts
        /\ put[p].n \in PartNumbers /\ session[s].state # "absent"
    BY <1>3, UploadAssumption DEF PutUpload, Refs, Exists, TypeOK
  <2>2. list[put[p].n] # 0
    BY <2>1 DEF Parts
  <2>3. put'[p].sess = s /\ put'[p].n = put[p].n
    BY <1>3, PutGoing DEF PutUpload, PutGoes
  <2>4. mpu' = [mpu EXCEPT ![s].parts = list]
    <3>1. ~PutEnd(p, "refused")
      BY PutGoing DEF PutGoes
    <3> QED
      BY <1>3, <3>1 DEF PutUpload
  <2> HIDE DEF list
  <2>5. mpu'[s].parts = list
    BY <2>1, <2>4 DEF TypeOK
  <2> QED
    BY <2>1, <2>2, <2>3, <2>5
<1>4. CASE PutRecord(p) \/ PutReread(p)
  <2>1. put[p].pc \in {"record", "reread"}
    BY <1>4 DEF PutRecord, PutReread
  <2>2. put'[p].sess = put[p].sess /\ put'[p].n = put[p].n
    BY <1>4, PutGoing, RereadGoes DEF PutRecord, PutGoes
  <2> QED
    BY <2>1, <2>2 DEF Refs, Exists, TypeOK
<1>5. ASSUME NEW q \in Puts, NEW s \in Sessions, NEW n \in PartNumbers, NEW size \in Sizes, PutStart(q, s, n, size)
      PROVE  put'[p] = put[p]
  BY <1>5 DEF PutStart, TypeOK
<1>6. ASSUME NEW c \in Completes, CompStep(c) \/ Interrupt(c) \/ (\E s \in Sessions : CompStart(c, s))
      PROVE  UNCHANGED put
  BY <1>6 DEF CompStep, Interrupt, CompStart, CompClaim, CompAbort, CompRefund, CompReserve, CompAssemble,
     CompFindOld, CompDeleteOld, CompCreate, CompSettle, CompCleanup
<1>7. ASSUME NEW d \in Deletes, DelStep(d) \/ (\E s \in Sessions : DelStart(d, s))
      PROVE  UNCHANGED put
  BY <1>7 DEF DelStep, DelStart, DelAbort, DelRemove, DelRow
<1>8. ASSUME NEW s \in Sessions, NEW size \in Declared, NEW f \in Files \cup {None},
             OpenSession(s, size, f)
      PROVE  UNCHANGED put
  BY <1>8 DEF OpenSession
<1>9. CASE put'[p] = put[p]
  BY <1>9 DEF Refs, Exists, TypeOK
<1> QED
  <2>1. CASE UNCHANGED vars
    BY <1>1, <2>1 DEF vars
  <2>2. CASE Next
    BY <1>1, <1>2, <1>3, <1>4, <1>5, <1>6, <1>7, <1>8, <1>9, <2>2 DEF Next, PutStep
  <2> QED
    BY <2>1, <2>2

LEMMA CompTrace ==
    ASSUME UploadInv, [Next]_vars, NEW c \in Completes,
           comp'[c].pc \in {"claim", "refund", "reserve", "assemble"}
    PROVE  \/ /\ comp[c].pc \in {"claim", "refund", "reserve", "assemble"}
              /\ comp'[c].sess = comp[c].sess /\ comp'[c].list = comp[c].list
              /\ comp[c].sess \in Sessions /\ session[comp[c].sess].state # "absent"
              /\ comp[c].pc = "claim" /\ comp'[c].pc # "claim" => Open(comp[c].sess) /\ UNCHANGED mpu
           \/ \E s \in Sessions : /\ comp'[c].pc = "claim" /\ Open(s) /\ comp'[c].sess = s
                                  /\ comp'[c].list = session[s].parts /\ UNCHANGED mpu
<1>0. TypeOK /\ Refs
  BY DEF UploadInv
<1>1. CASE comp'[c] = comp[c]
  BY <1>0, <1>1 DEF Refs, Exists
<1>2. ASSUME NEW o \in Completes \ {c}, CompStep(o) \/ Interrupt(o) \/ (\E s \in Sessions : CompStart(o, s))
      PROVE  comp'[c] = comp[c]
  BY <1>0, <1>2, OthersStay
<1>3. ASSUME NEW s \in Sessions, CompStart(c, s)
      PROVE  /\ comp'[c].pc = "claim" /\ Open(s) /\ comp'[c].sess = s
             /\ comp'[c].list = session[s].parts /\ UNCHANGED mpu
  BY <1>0, <1>3 DEF CompStart, TypeOK, IdleComp
<1>4. CASE CompStep(c) \/ Interrupt(c)
  <2>1. comp'[c].sess = comp[c].sess /\ comp[c].sess \in Sessions /\ session[comp[c].sess].state # "absent"
    BY <1>0, <1>4, SessStays DEF Refs, Exists, CompStep, Interrupt, CompClaim, CompAbort, CompRefund, CompReserve, CompAssemble,
       CompFindOld, CompDeleteOld, CompCreate, CompSettle, CompCleanup
  <2>2. CASE CompClaim(c)
    <3>1. ~CompEnd(c)
      BY <1>0, CompGoing DEF CompGoes
    <3>2. comp[c].pc = "claim" /\ Open(comp[c].sess) /\ UNCHANGED mpu /\ (CompMove(c, "refund") \/ CompMove(c, "abort"))
      BY <2>2, <3>1 DEF CompClaim
    <3>3. comp'[c].list = comp[c].list
      BY <1>0, <3>2, CompGoing DEF CompKeeps
    <3> QED
      BY <2>1, <3>2, <3>3
  <2>3. CASE CompRefund(c) \/ CompReserve(c)
    BY <1>0, <2>1, <2>3, RefundGoes, ReserveGoes DEF CompRefund, CompReserve
  <2>4. CASE CompAbort(c) \/ CompAssemble(c) \/ CompFindOld(c) \/ CompDeleteOld(c) \/ CompCreate(c) \/ CompSettle(c)
             \/ CompCleanup(c) \/ Interrupt(c)
    <3>1. comp'[c].pc \in {"done", "create", "findOld", "deleteOld", "settle", "cleanup"}
      BY <1>0, <2>4, CompGoing, FindOldGoes DEF CompGoes, CompAbort, CompAssemble, CompDeleteOld, CompCreate, CompSettle,
         CompCleanup, Interrupt
    <3> QED
      BY <3>1
  <2> QED
    BY <1>4, <2>2, <2>3, <2>4 DEF CompStep
<1> QED
  <2>1. CASE UNCHANGED vars
    BY <1>1, <2>1 DEF vars
  <2>2. CASE Next
    BY <1>1, <1>2, <1>3, <1>4, <2>2, ElseStays DEF Next
  <2> QED
    BY <2>1, <2>2

\* A session that appears has its upload.
LEMMA NewIsOpen ==
    ASSUME TypeOK, Refs, [Next]_vars, NEW s \in Sessions, Open(s)', session[s].state = "absent"
    PROVE  mpu'[s].open
<1>1. ASSUME NEW t \in Sessions, NEW size \in Declared, NEW f \in Files \cup {None}, OpenSession(t, size, f)
      PROVE  mpu'[s].open
  <2>1. s = t
    BY <1>1 DEF OpenSession, TypeOK, Open, Live
  <2> QED
    BY <1>1, <2>1 DEF OpenSession, TypeOK
<1>2. CASE session'[s].state = session[s].state
  BY <1>2 DEF Open, Live
<1>3. ASSUME NEW c \in Completes, CompStep(c) \/ Interrupt(c) \/ (\E t \in Sessions : CompStart(c, t))
      PROVE  session'[s].state = session[s].state
  <2>1. session' = session \/ session' = [session EXCEPT ![comp[c].sess].completed = TRUE]
    BY <1>3 DEF CompStep, Interrupt, CompStart, CompClaim, CompAbort, CompRefund, CompReserve, CompAssemble,
         CompFindOld, CompDeleteOld, CompCreate, CompSettle, CompCleanup
  <2> QED
    BY <2>1 DEF TypeOK, SessionRow
<1>4. ASSUME NEW p \in Puts,
             PutStep(p) \/ \E t \in Sessions, n \in PartNumbers, size \in Sizes : PutStart(p, t, n, size)
      PROVE  session'[s].state = session[s].state
  <2>1. CASE PutRecord(p)
    <3>2. session' = session \/ session' = [session EXCEPT ![put[p].sess].parts[put[p].n] = put[p].size]
      BY <2>1 DEF PutRecord
    <3> QED
      BY <3>2 DEF TypeOK, SessionRow
  <2>2. CASE ~PutRecord(p)
    BY <1>4, <2>2 DEF PutStep, PutStart, PutUpload, PutReread
  <2> QED
    BY <2>1, <2>2
<1>5. ASSUME NEW d \in Deletes, DelStep(d) \/ (\E t \in Sessions : DelStart(d, t))
      PROVE  session'[s].state \in {session[s].state, "deleted"}
  BY <1>5 DEF DelStep, DelStart, DelAbort, DelRemove, DelRow, TypeOK, SessionRow
<1>6. session'[s].state = "live"
  BY DEF Open, Live
<1> QED
  <2>1. CASE UNCHANGED vars
    BY <1>2, <2>1 DEF vars
  <2>2. CASE Next
    BY <1>1, <1>2, <1>3, <1>4, <1>5, <1>6, <2>2 DEF Next
  <2> QED
    BY <2>1, <2>2

LEMMA OpenNext ==
    ASSUME TypeOK, Refs, RowsKept, PartsStay \/ (\E p \in Puts : PartRecorded(p)),
           NEW s \in Sessions, Open(s)', session[s].state # "absent"
    PROVE  Open(s)
<1>1. session[s].state = "live"
  BY DEF PartsStay, PartRecorded, Open, Live
<1>2. ~session[s].completed
  BY DEF RowsKept, Open
<1> QED
  BY <1>1, <1>2 DEF Open, Live

LEMMA UploadedStep ==
    ASSUME Deletes = {}, UploadInv, Uploaded, [Next]_vars
    PROVE  Uploaded'
<1>0. /\ TypeOK /\ TypeOK' /\ Refs /\ RowsKept /\ Inv /\ MpuKeeps
      /\ PartsStay \/ (\E p \in Puts : PartRecorded(p))
  BY TypeStep, MpuStep, PartsStep DEF UploadInv
<1>1. ASSUME NEW s \in Sessions, Open(s)'
      PROVE  mpu'[s].open
  <2>1. CASE session[s].state = "absent"
    BY <1>0, <1>1, <2>1, NewIsOpen
  <2>2. CASE session[s].state # "absent"
    <3>1. Open(s) /\ mpu[s].open
      BY <1>0, <1>1, <2>2, OpenNext DEF Uploaded
    <3>2. ASSUME NEW c \in Completes, comp[c].sess = s, comp[c].pc \in {"abort", "assemble"}
          PROVE  FALSE
      <4>1. Owns(c, s)
        BY <3>2 DEF Owns
      <4> QED
        BY <1>0, <3>1, <4>1 DEF Inv, SessionOwner, Open
    <3> QED
      BY <2>2, <3>1, <3>2, MpuOpenStays
  <2> QED
    BY <2>1, <2>2
<1>2. ASSUME NEW s \in Sessions, NEW n \in PartNumbers, session'[s].parts[n] # 0, Open(s)'
      PROVE  mpu'[s].parts[n] # 0
  <2>0. mpu'[s].open
    BY <1>1, <1>2
  <2>1. CASE session[s].state = "absent"
    <3>1. session'[s].parts = NoParts
      BY <1>0, <1>2, <2>1 DEF PartsStay, PartRecorded, Open, Live
    <3> QED
      BY <1>2, <3>1 DEF NoParts
  <2>2. CASE session[s].state # "absent"
    <3>1. Open(s) /\ mpu[s].open
      BY <1>0, <1>2, <2>2, OpenNext DEF Uploaded
    <3>2. CASE session'[s].parts[n] = session[s].parts[n]
      BY <1>0, <1>2, <2>0, <2>2, <3>1, <3>2 DEF Uploaded, MpuKeeps
    <3>3. ASSUME NEW p \in Puts, PartRecorded(p), session'[s].parts[n] # session[s].parts[n]
          PROVE  mpu'[s].parts[n] # 0
      <4>1. put[p].sess = s /\ put[p].pc = "record"
        BY <3>3 DEF PartRecorded
      <4>2. session[s].parts \in Parts
        BY <1>0 DEF TypeOK, SessionRow
      <4>3. put[p].n = n
        BY <3>3, <4>1, <4>2 DEF PartRecorded, Parts
      <4>4. mpu[s].parts[n] # 0
        BY <3>1, <4>1, <4>3 DEF Uploaded
      <4> QED
        BY <1>0, <2>0, <2>2, <4>4 DEF MpuKeeps
    <3>4. PartsStay => session'[s].parts = session[s].parts
      BY <1>2, <2>2 DEF PartsStay, Open, Live
    <3> QED
      BY <1>0, <3>2, <3>3, <3>4
  <2> QED
    BY <2>1, <2>2
<1>3. ASSUME NEW p \in Puts, put'[p].pc \in {"record", "reread"}, mpu'[put'[p].sess].open
      PROVE  mpu'[put'[p].sess].parts[put'[p].n] # 0
  <2>1. PICK s \in Sessions, n \in PartNumbers :
          /\ s = put[p].sess /\ n = put[p].n /\ put'[p].sess = s /\ put'[p].n = n
          /\ session[s].state # "absent"
          /\ put[p].pc \in {"record", "reread"} \/ mpu'[s].parts[n] # 0
    BY <1>0, <1>3, PutTrace
  <2>2. CASE put[p].pc \in {"record", "reread"}
    <3>1. mpu[s].open
      BY <1>0, <1>3, <2>1 DEF MpuKeeps
    <3>2. mpu[s].parts[n] # 0
      BY <2>1, <2>2, <3>1 DEF Uploaded
    <3> QED
      BY <1>0, <1>3, <2>1, <3>2 DEF MpuKeeps
  <2> QED
    BY <2>1, <2>2
<1>4. ASSUME NEW c \in Completes, comp'[c].pc \in {"refund", "reserve", "assemble"}
      PROVE  mpu'[comp'[c].sess].open
  <2>1. PICK s \in Sessions :
          /\ s = comp[c].sess /\ comp'[c].sess = s /\ session[s].state # "absent"
          /\ comp[c].pc \in {"claim", "refund", "reserve", "assemble"}
          /\ comp[c].pc = "claim" => Open(s) /\ UNCHANGED mpu
    BY <1>4, CompTrace
  <2>2. CASE comp[c].pc = "claim"
    BY <2>1, <2>2 DEF Uploaded
  <2>3. CASE comp[c].pc # "claim"
    <3>1. mpu[s].open /\ Owns(c, s)
      BY <2>1, <2>3 DEF Uploaded, Owns
    <3>2. ASSUME NEW o \in Completes, comp[o].sess = s, comp[o].pc \in {"abort", "assemble"}
          PROVE  o = c
      <4>1. Owns(o, s)
        BY <3>2 DEF Owns
      <4> QED
        BY <1>0, <3>1, <4>1 DEF Inv, SessionOwner
    <3> QED
      BY <1>4, <2>1, <3>1, <3>2, MpuOpenStays
  <2> QED
    BY <2>2, <2>3
<1>5. ASSUME NEW c \in Completes, NEW n \in PartNumbers,
             comp'[c].pc \in {"claim", "refund", "reserve", "assemble"}, comp'[c].list[n] # 0,
             mpu'[comp'[c].sess].open
      PROVE  mpu'[comp'[c].sess].parts[n] # 0
  <2>1. CASE \E s \in Sessions : /\ comp'[c].pc = "claim" /\ Open(s) /\ comp'[c].sess = s
                                /\ comp'[c].list = session[s].parts /\ UNCHANGED mpu
    BY <1>5, <2>1 DEF Uploaded
  <2>2. CASE /\ comp[c].pc \in {"claim", "refund", "reserve", "assemble"}
             /\ comp'[c].sess = comp[c].sess /\ comp'[c].list = comp[c].list
             /\ comp[c].sess \in Sessions /\ session[comp[c].sess].state # "absent"
    <3>1. PICK s \in Sessions : s = comp[c].sess
      BY <2>2
    <3>2. mpu[s].open
      BY <1>0, <1>5, <2>2, <3>1 DEF MpuKeeps
    <3>3. mpu[s].parts[n] # 0
      BY <1>5, <2>2, <3>1, <3>2 DEF Uploaded
    <3> QED
      BY <1>0, <1>5, <2>2, <3>1, <3>3 DEF MpuKeeps
  <2> QED
    BY <1>5, <2>1, <2>2, CompTrace
<1> QED
  BY <1>1, <1>2, <1>3, <1>4, <1>5 DEF Uploaded

LEMMA UploadedInit == Init => Uploaded
<1> SUFFICES ASSUME Init PROVE Uploaded
  OBVIOUS
<1>1. \A s \in Sessions : session[s].state = "absent"
  BY DEF Init, NoSession
<1>2. \A p \in Puts : put[p].pc = "idle"
  BY DEF Init, IdlePut
<1>3. \A c \in Completes : comp[c].pc = "idle"
  BY DEF Init, IdleComp
<1> QED
  BY <1>1, <1>2, <1>3 DEF Uploaded, Open, Live

-----------------------------------------------------------------------------
(* Clients that send a file's own parts *)

\* A client cuts the file of each session once and for all: whatever it sends,
\* or sends again, for a part number is the same part.  The last part may be
\* shorter than the others.
SentAs(slice) ==
    \A p \in Puts : put[p].pc \in {"upload", "record", "reread"} =>
        put[p].size = slice[put[p].sess][put[p].n]

\* Then no list anywhere holds another body under that number.
CutBy(list, cut) == \A n \in PartNumbers : list[n] \in {0, cut[n]}
MpuCut(slice) == \A s \in Sessions : CutBy(mpu[s].parts, slice[s])
RowsCut(slice) == \A s \in Sessions : CutBy(session[s].parts, slice[s])
ListsCut(slice) ==
    \A c \in Completes : comp[c].pc \in {"claim", "refund", "reserve", "assemble"} =>
        CutBy(comp[c].list, slice[comp[c].sess])
CutAs(slice) == MpuCut(slice) /\ RowsCut(slice) /\ ListsCut(slice)

LEMMA CutInit == ASSUME NEW slice PROVE Init => CutAs(slice)
<1> SUFFICES ASSUME Init PROVE CutAs(slice)
  OBVIOUS
<1>1. MpuCut(slice)
  BY DEF Init, NoUpload, NoParts, MpuCut, CutBy
<1>2. RowsCut(slice)
  BY DEF Init, NoSession, NoParts, RowsCut, CutBy
<1>3. ListsCut(slice)
  BY DEF Init, IdleComp, ListsCut
<1> QED
  BY <1>1, <1>2, <1>3 DEF CutAs

\* One entry of a list is set to the part of that number.
LEMMA CutSet ==
    ASSUME NEW list \in Parts, NEW cut, CutBy(list, cut), NEW n \in PartNumbers, NEW size, size = cut[n]
    PROVE  CutBy([list EXCEPT ![n] = size], cut)
  BY DEF CutBy, Parts

LEMMA MpuCutStep ==
    ASSUME TypeOK, Refs, NEW slice, SentAs(slice), MpuCut(slice), [Next]_vars
    PROVE  MpuCut(slice)'
<1>0. DOMAIN mpu = Sessions /\ (\A s \in Sessions : CutBy(NoParts, slice[s]))
  BY DEF TypeOK, NoParts, CutBy
<1>1. CASE UNCHANGED mpu
  BY <1>1 DEF MpuCut, CutBy
<1>2. ASSUME NEW s \in Sessions, mpu' = [mpu EXCEPT ![s] = NoUpload]
      PROVE  MpuCut(slice)'
  <2>1. \A t \in Sessions : mpu'[t] = mpu[t] \/ mpu'[t].parts = NoParts
    BY <1>0, <1>2 DEF NoUpload
  <2> QED
    BY <1>0, <2>1 DEF MpuCut, CutBy
<1>3. ASSUME NEW s \in Sessions, NEW size \in Declared, NEW f \in Files \cup {None}, OpenSession(s, size, f)
      PROVE  MpuCut(slice)'
  <2>1. \A t \in Sessions : mpu'[t] = mpu[t] \/ mpu'[t].parts = NoParts
    BY <1>0, <1>3 DEF OpenSession
  <2> QED
    BY <1>0, <2>1 DEF MpuCut, CutBy
<1>4. ASSUME NEW p \in Puts, PutUpload(p)
      PROVE  MpuCut(slice)'
  <2> DEFINE s == put[p].sess
             list == [mpu[s].parts EXCEPT ![put[p].n] = put[p].size]
  <2>1. s \in Sessions /\ put[p].n \in PartNumbers /\ mpu[s].parts \in Parts
    BY <1>4 DEF PutUpload, Refs, Exists, TypeOK
  <2>2. put[p].size = slice[s][put[p].n]
    BY <1>4 DEF PutUpload, SentAs
  <2>3. CutBy(list, slice[s])
    BY <2>1, <2>2, CutSet DEF MpuCut
  <2>4. mpu' = mpu \/ mpu' = [mpu EXCEPT ![s].parts = list]
    BY <1>4 DEF PutUpload
  <2> HIDE DEF list
  <2>5. \A t \in Sessions : mpu'[t].parts = mpu[t].parts \/ (t = s /\ mpu'[t].parts = list)
    BY <2>1, <2>4 DEF TypeOK
  <2> QED
    BY <2>3, <2>5 DEF MpuCut, CutBy
<1>5. ASSUME NEW c \in Completes, CompAbort(c) \/ CompAssemble(c)
      PROVE  MpuCut(slice)'
  <2>1. comp[c].sess \in Sessions /\ (UNCHANGED mpu \/ mpu' = [mpu EXCEPT ![comp[c].sess] = NoUpload])
    BY <1>5 DEF CompAbort, CompAssemble, Refs, Exists
  <2> QED
    BY <1>1, <1>2, <2>1
<1>6. ASSUME NEW d \in Deletes, DelAbort(d)
      PROVE  MpuCut(slice)'
  <2>1. del[d].sess \in Sessions /\ mpu' = [mpu EXCEPT ![del[d].sess] = NoUpload]
    BY <1>6 DEF DelAbort, Refs, Exists
  <2> QED
    BY <1>2, <2>1
<1>7. ASSUME NEW c \in Completes, CompStep(c) \/ Interrupt(c) \/ (\E s \in Sessions : CompStart(c, s)),
             ~CompAbort(c), ~CompAssemble(c)
      PROVE  UNCHANGED mpu
  BY <1>7 DEF CompStep, Interrupt, CompStart, CompClaim, CompRefund, CompReserve, CompFindOld,
     CompDeleteOld, CompCreate, CompSettle, CompCleanup
<1>8. ASSUME NEW d \in Deletes, DelStep(d) \/ (\E s \in Sessions : DelStart(d, s)), ~DelAbort(d)
      PROVE  UNCHANGED mpu
  BY <1>8 DEF DelStep, DelStart, DelRemove, DelRow
<1>9. ASSUME NEW p \in Puts, ~PutUpload(p),
             PutStep(p) \/ \E s \in Sessions, n \in PartNumbers, size \in Sizes : PutStart(p, s, n, size)
       PROVE  UNCHANGED mpu
  BY <1>9 DEF PutStep, PutStart, PutRecord, PutReread
<1> QED
  <2>1. CASE UNCHANGED vars
    BY <1>1, <2>1 DEF vars
  <2>2. CASE Next
    BY <1>1, <1>3, <1>4, <1>5, <1>6, <1>7, <1>8, <1>9, <2>2 DEF Next
  <2> QED
    BY <2>1, <2>2

LEMMA RowsCutStep ==
    ASSUME TypeOK, Refs, NEW slice, SentAs(slice), RowsCut(slice), [Next]_vars
    PROVE  RowsCut(slice)'
<1>0. DOMAIN session = Sessions /\ (\A s \in Sessions : CutBy(NoParts, slice[s]) /\ session[s] \in SessionRow)
  BY DEF TypeOK, NoParts, CutBy
<1>1. ASSUME \A s \in Sessions : session'[s].parts = session[s].parts \/ session'[s].parts = NoParts
      PROVE  RowsCut(slice)'
  BY <1>0, <1>1 DEF RowsCut, CutBy
<1>2. ASSUME NEW s \in Sessions, NEW size \in Declared, NEW f \in Files \cup {None}, OpenSession(s, size, f)
      PROVE  RowsCut(slice)'
  BY <1>0, <1>1, <1>2 DEF OpenSession
<1>3. ASSUME NEW c \in Completes, CompStep(c) \/ Interrupt(c) \/ (\E s \in Sessions : CompStart(c, s))
      PROVE  RowsCut(slice)'
  <2>1. session' = session \/ session' = [session EXCEPT ![comp[c].sess].completed = TRUE]
    BY <1>3 DEF CompStep, Interrupt, CompStart, CompClaim, CompAbort, CompRefund, CompReserve, CompAssemble,
         CompFindOld, CompDeleteOld, CompCreate, CompSettle, CompCleanup
  <2>2. \A s \in Sessions : session'[s].parts = session[s].parts
    BY <1>0, <2>1 DEF SessionRow
  <2> QED
    BY <1>1, <2>2
<1>4. ASSUME NEW d \in Deletes, DelStep(d) \/ (\E s \in Sessions : DelStart(d, s))
      PROVE  RowsCut(slice)'
  <2>1. CASE UNCHANGED session
    BY <1>1, <2>1
  <2>2. CASE DelRow(d)
    BY <1>0, <1>1, <2>2 DEF DelRow, SessionRow
  <2> QED
    BY <1>4, <2>1, <2>2 DEF DelStep, DelStart, DelAbort, DelRemove
<1>5. ASSUME NEW p \in Puts, PutRecord(p)
      PROVE  RowsCut(slice)'
  <2> DEFINE s == put[p].sess
             list == [session[s].parts EXCEPT ![put[p].n] = put[p].size]
  <2>1. s \in Sessions /\ put[p].n \in PartNumbers /\ session[s].parts \in Parts
    BY <1>0, <1>5 DEF PutRecord, Refs, Exists, TypeOK, SessionRow
  <2>2. put[p].size = slice[s][put[p].n]
    BY <1>5 DEF PutRecord, SentAs
  <2>3. CutBy(list, slice[s])
    BY <2>1, <2>2, CutSet DEF RowsCut
  <2>4. session' = session \/ session' = [session EXCEPT ![s].parts = list]
    BY <1>5 DEF PutRecord
  <2> HIDE DEF list
  <2>5. \A t \in Sessions : session'[t].parts = session[t].parts \/ (t = s /\ session'[t].parts = list)
    BY <1>0, <2>1, <2>4 DEF SessionRow
  <2> QED
    BY <2>3, <2>5 DEF RowsCut, CutBy
<1>6. ASSUME NEW p \in Puts, ~PutRecord(p),
             PutStep(p) \/ \E s \in Sessions, n \in PartNumbers, size \in Sizes : PutStart(p, s, n, size)
       PROVE  UNCHANGED session
  BY <1>6 DEF PutStep, PutStart, PutUpload, PutReread
<1> QED
  <2>1. CASE UNCHANGED session
    BY <1>1, <2>1
  <2>2. CASE Next
    BY <1>2, <1>3, <1>4, <1>5, <1>6, <2>1, <2>2 DEF Next
  <2> QED
    BY <2>1, <2>2 DEF vars

LEMMA CutStep ==
    ASSUME UploadInv, NEW slice, SentAs(slice), CutAs(slice), [Next]_vars
    PROVE  CutAs(slice)'
<1>1. MpuCut(slice)' /\ RowsCut(slice)'
  BY MpuCutStep, RowsCutStep DEF UploadInv, CutAs
<1>2. ASSUME NEW c \in Completes, comp'[c].pc \in {"claim", "refund", "reserve", "assemble"}
      PROVE  CutBy(comp'[c].list, slice[comp'[c].sess])
  <2>1. CASE \E s \in Sessions : comp'[c].sess = s /\ comp'[c].list = session[s].parts
    BY <2>1 DEF CutAs, RowsCut
  <2>2. CASE /\ comp[c].pc \in {"claim", "refund", "reserve", "assemble"}
             /\ comp'[c].sess = comp[c].sess /\ comp'[c].list = comp[c].list
    BY <2>2 DEF CutAs, ListsCut
  <2> QED
    BY <1>2, <2>1, <2>2, CompTrace
<1>3. ListsCut(slice)'
  BY <1>2 DEF ListsCut, CutBy
<1> QED
  BY <1>1, <1>3 DEF CutAs

\* Neither MinIO nor the deletion of the replaced row has a reason to throw.
LEMMA NoThrow ==
    ASSUME NEW slice, CutAs(slice), UploadInv, AllTerms, Uploaded,
           NEW c \in Completes, CompStep(c), Throws(c)
    PROVE  FALSE
<1>0. TypeOK /\ Refs /\ comp[c].sess \in Sessions
  BY SessStays DEF UploadInv
<1>1. comp'[c].pc = "done"
  BY <1>0, CompGoing DEF Throws, CompGoes
<1>2. CASE comp[c].pc = "assemble"
  <2> DEFINE s == comp[c].sess
             list == comp[c].list
  <2>1. CompAssemble(c)
    BY <1>2 DEF CompStep, CompClaim, CompAbort, CompRefund, CompReserve, CompFindOld, CompDeleteOld, CompCreate,
       CompSettle, CompCleanup
  <2>2. mpu[s].open /\ list \in Parts /\ mpu[s].parts \in Parts
    BY <1>0, <1>2 DEF Uploaded, TypeOK
  <2>3. ASSUME NEW n \in PartNumbers, list[n] # 0
        PROVE  mpu[s].parts[n] = list[n]
    <3>1. mpu[s].parts[n] # 0
      BY <1>2, <2>2, <2>3 DEF Uploaded
    <3>2. mpu[s].parts[n] = slice[s][n] /\ list[n] = slice[s][n]
      BY <1>0, <1>2, <2>3, <3>1 DEF CutAs, MpuCut, ListsCut, CutBy
    <3> QED
      BY <3>2
  <2>4. CompMove(c, "create") \/ CompMove(c, "findOld")
    BY <2>1, <2>2, <2>3 DEF CompAssemble
  <2>5. comp'[c].pc \in {"create", "findOld"}
    BY <1>0, <2>4, CompGoing DEF CompGoes
  <2> QED
    BY <1>1, <2>5
<1>3. CASE comp[c].pc = "deleteOld"
  <2>1. CompDeleteOld(c)
    BY <1>3 DEF CompStep, CompClaim, CompAbort, CompRefund, CompReserve, CompFindOld, CompAssemble, CompCreate,
       CompSettle, CompCleanup
  <2>2. file[session[comp[c].sess].replaces] # None
    BY <1>3 DEF AllTerms, Terms
  <2>3. CompMove(c, "create")
    BY <2>1, <2>2 DEF CompDeleteOld
  <2>4. comp'[c].pc = "create"
    BY <1>0, <2>3, CompGoing DEF CompGoes
  <2> QED
    BY <1>1, <2>4
<1> QED
  BY <1>2, <1>3 DEF Throws

\* The balance covers what a settlement gives back.
LEMMA UsedCovers ==
    ASSUME TypeOK, AllTerms, Spare = 0, NEW c \in Completes, comp[c].pc = "settle"
    PROVE  used >= Balance(c)
<1> DEFINE f == [o \in Completes |-> Owed(o)]
<1>1. f \in [Completes -> Nat]
  <2>1. ASSUME NEW o \in Completes PROVE Owed(o) \in Nat
    <3>1. Owed(o) >= 0 /\ Owed(o) \in Int
      BY OwedPositive, OwedIsInt DEF AllTerms
    <3> QED
      BY <3>1
  <2> QED
    BY <2>1
<1>2. Held = SumFunction(f) /\ f[c] = Balance(c)
  BY DEF Held, Owed
<1> HIDE DEF f
<1>3. Held >= Balance(c)
  BY <1>1, <1>2, FilesFinite, TotalCovers
<1>4. used = Stored + Held /\ Stored \in Nat /\ Held \in Int /\ Balance(c) \in Int
  <2>1. used \in Nat
    BY DEF TypeOK
  <2> QED
    BY <2>1, SumsAreInts, OwedIsInt DEF Spare
<1> QED
  BY <1>3, <1>4

LEMMA ExactStep ==
    ASSUME MaxInterrupts = 0, NEW slice, CutAs(slice),
           UploadInv, AllTerms, Uploaded, Spare = 0, [Next]_vars
    PROVE  Spare' = 0
<1>0. Inv /\ TypeOK /\ Refs /\ Replacing
  BY DEF UploadInv
<1>1. ASSUME NEW c \in Completes, CompStep(c)
      PROVE  Spare' = 0
  <2>1. ~Throws(c)
    BY <1>1, NoThrow
  <2>2. comp[c].pc = "settle" => ~(used < Balance(c))
    <3>1. comp[c].pc = "settle" => used >= Balance(c)
      BY <1>0, UsedCovers
    <3>2. used \in Nat /\ Balance(c) \in Int
      BY <1>0, OwedIsInt DEF TypeOK
    <3> QED
      BY <3>1, <3>2
  <2> QED
    BY <1>0, <1>1, <2>1, <2>2, SpareStep
<1>2. ASSUME NEW c \in Completes, Interrupt(c)
      PROVE  FALSE
  <2>1. interrupts \in 0..MaxInterrupts /\ interrupts < MaxInterrupts
    BY <1>0, <1>2 DEF Interrupt, TypeOK
  <2> QED
    BY <2>1
<1> QED
  BY <1>1, <1>2, SpareElse

\* Nothing is charged twice, refunded twice or left behind by uploads that run to
\* their end: files of any length, parts of any sizes (a shorter last one), sent
\* in any order, again and at once, as long as a part sent again is the same part
\* of the file, nothing is deleted or cut short, and no two sessions replace one
\* file.
THEOREM ExactlyCharged ==
    ASSUME Deletes = {}, MaxInterrupts = 0, NEW slice \in [Sessions -> [PartNumbers -> Sizes]]
    PROVE  Spec /\ []NoRivals /\ []SentAs(slice) => []ExactBooks
<1> DEFINE I == UploadInv /\ AllTerms /\ Uploaded /\ CutAs(slice) /\ Spare = 0
<1>1. Init => I
  BY UploadInvInit, UploadedInit, CutInit
<1>2. I /\ NoRivals /\ SentAs(slice) /\ [Next]_vars => I'
  BY TermsNext, UploadedStep, CutStep, ExactStep
<1>3. I => ExactBooks
  BY BooksAreSpare DEF UploadInv
<1> QED
  BY <1>1, <1>2, <1>3, PTL DEF Spec
=============================================================================
