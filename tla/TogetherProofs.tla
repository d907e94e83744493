--------------------------- MODULE TogetherProofs ---------------------------
(***************************************************************************)
(* Proofs about the clients of the server: how pages upload files in parts *)
(* (UploadClient), how open editors save (CollabEditor), the rooms of the  *)
(* game server (GameRooms), the games that are played in them (Engines)    *)
(* and the one played alone (RpgGame), for any number of pages, requests,  *)
(* sockets, codes and games, and whatever requests fail.                   *)
(*                                                                         *)
(* Rooms, sockets and queues always agree, and the clockwork of a room     *)
(* runs while it is needed.  The nim bot is perfect, whatever the first    *)
(* count is: from a losing one (21 is one) no person ever beats it.  On    *)
(* boards of every size the result of a game says what its board says, and *)
(* a live game can always go on.  And in the game one plays alone a felled *)
(* boss is never lost again: neither to a hit in the frame that counts it  *)
(* nor to later runs.                                                      *)
(***************************************************************************)
EXTENDS UploadClient, CollabEditor, Engines, RpgGame, GameRooms, SumProofs, SequenceTheorems

-----------------------------------------------------------------------------
(* Uploads from pages *)

LocalFiles == Items \cup Entries

CallRecord ==
    [at : {"none", "info", "init", "part", "complete", "done", "clear", "failed"},
     file : LocalFiles \cup {Nothing}, sess : Nat, done : SUBSET PartNumbers]
Session == [file : LocalFiles, held : SUBSET PartNumbers, completed : BOOLEAN]
EntryRecord == [status : {"new", "uploading", "paused", "error", "done"}, sess : Nat]

Shape ==
    /\ session \in Seq(Session)
    /\ call \in [Callers -> CallRecord]
    /\ entry \in [Entries -> EntryRecord]

\* The session a call works on is the file's, and holds what the call skips.
Owner(n, f) == n \in 1..Len(session) /\ session[n].file = f
Linked(k) ==
    /\ k.at = "none" => k = NoCall
    /\ k.at # "none" => k.file \in LocalFiles
    /\ k.sess # 0 => Owner(k.sess, k.file) /\ k.done \subseteq session[k.sess].held
    /\ k.at \in {"info", "part", "complete"} => k.sess # 0
    /\ k.at \in {"info", "init"} => k.done = {}
    /\ k.at = "part" => ~(PartNumbers \subseteq k.done)
    /\ k.at = "complete" => PartNumbers \subseteq k.done

Tied ==
    /\ \A c \in Callers : Linked(call[c])
    /\ \A e \in Entries : call[e].at # "none" => call[e].file = e
    /\ \A e \in Entries : entry[e].sess # 0 => Owner(entry[e].sess, e)

WholeInv == Shape /\ Tied

-----------------------------------------------------------------------------
\* Sessions are added and filled, never emptied, removed or given to another file.
Grown ==
    /\ session' \in Seq(Session)
    /\ \A n \in 1..Len(session) : /\ n \in 1..Len(session')
                                  /\ session'[n].file = session[n].file
                                  /\ session[n].held \subseteq session'[n].held

\* The sessions, one by one.
LEMMA Sessions ==
    ASSUME Shape
    PROVE  /\ Len(session) \in Nat
           /\ \A n \in 1..Len(session) : session[n] \in Session
  BY LenProperties, ElementOfSeq DEF Shape

\* They do not have to.
LEMMA GrowsNot ==
    ASSUME Shape, UNCHANGED session
    PROVE  Grown
  BY DEF Shape, Grown

\* What was linked stays linked while sessions grow.
LEMMA LinkedStays ==
    ASSUME Shape, Grown, NEW k, Linked(k)
    PROVE  Linked(k)'
<1>1. k.sess # 0 => /\ k.sess \in 1..Len(session') /\ session'[k.sess].file = k.file
                    /\ k.done \subseteq session'[k.sess].held
  BY DEF Linked, Owner, Grown
<1> QED BY <1>1 DEF Linked, Owner

\* A call moves on, and perhaps its entry with it.
LEMMA Moves ==
    ASSUME WholeInv, Grown, NEW c \in Callers, NEW k \in CallRecord,
           call' = [call EXCEPT ![c] = k], Linked(k)', c \in Entries /\ k.at # "none" => k.file = c,
           entry' \in [Entries -> EntryRecord],
           \A e \in Entries : entry'[e].sess # 0 => Owner(entry[e].sess, e)'
    PROVE  WholeInv'
<1>1. Shape'
  BY DEF WholeInv, Shape, Grown
<1>2. call'[c] = k /\ \A d \in Callers \ {c} : call'[d] = call[d]
  BY DEF WholeInv, Shape
<1>3. \A d \in Callers \ {c} : Linked(call[d])'
  <2> SUFFICES ASSUME NEW d \in Callers \ {c} PROVE Linked(call[d])'
    OBVIOUS
  <2>1. PICK m : m = call[d]
    OBVIOUS
  <2>2. Linked(m)
    BY <2>1 DEF WholeInv, Tied
  <2>3. Linked(m)'
    BY <2>2, LinkedStays DEF WholeInv
  <2> QED BY <1>2, <2>1, <2>3 DEF Linked, Owner
<1>4. Linked(call[c])'
  BY <1>2 DEF Linked, Owner
<1>5. \A e \in Entries : call'[e].at # "none" => call'[e].file = e
  BY <1>2 DEF WholeInv, Tied, Callers
<1>6. Tied'
  BY <1>3, <1>4, <1>5 DEF Tied
<1> QED BY <1>1, <1>6 DEF WholeInv

\* A call moves on by itself.
LEMMA MovesAlone ==
    ASSUME WholeInv, Grown, NEW c \in Callers, NEW k \in CallRecord,
           call' = [call EXCEPT ![c] = k], Linked(k)', c \in Entries /\ k.at # "none" => k.file = c,
           UNCHANGED entry
    PROVE  WholeInv'
<1>1. entry' \in [Entries -> EntryRecord]
  BY DEF WholeInv, Shape
<1>2. \A e \in Entries : entry'[e].sess # 0 => Owner(entry[e].sess, e)'
  BY DEF WholeInv, Tied, Owner, Grown
<1> QED BY <1>1, <1>2, Moves

\* The part that is sent next is a part.
LEMMA NextIsPart ==
    ASSUME NEW c, ~(PartNumbers \subseteq call[c].done)
    PROVE  NextPart(c) \in PartNumbers
<1> DEFINE T == PartNumbers \ call[c].done
<1>1. T \in SUBSET Nat /\ T # {}
  BY ClientAssumption DEF PartNumbers
<1>2. \E n \in T : \A m \in T : n <= m
  BY <1>1, NatMinimum
<1>3. NextPart(c) \in T
  BY <1>2 DEF NextPart
<1> QED BY <1>3

\* Where a call goes on once its parts are known.
LEMMA OnwardLinked ==
    ASSUME NEW k \in CallRecord, k.file \in LocalFiles,
           k.sess # 0, Owner(k.sess, k.file)', k.done \subseteq session'[k.sess].held
    PROVE  /\ Onward(k) \in CallRecord /\ Linked(Onward(k))'
           /\ Onward(k).file = k.file /\ Onward(k).at \in {"part", "complete"} /\ Onward(k).sess = k.sess
<1> DEFINE to == IF PartNumbers \subseteq k.done THEN "complete" ELSE "part"
           j == [k EXCEPT !.at = to]
<1>1. Onward(k) = j
  BY DEF Onward
<1>2. to \in {"part", "complete"} /\ (to = "complete" <=> PartNumbers \subseteq k.done)
  OBVIOUS
<1> HIDE DEF to
<1>3. j \in CallRecord /\ j.at = to /\ j.file = k.file /\ j.sess = k.sess /\ j.done = k.done
  BY <1>2 DEF CallRecord
<1> HIDE DEF j
<1>4. Linked(j)'
  BY <1>2, <1>3 DEF Linked, Owner
<1> QED BY <1>1, <1>2, <1>3, <1>4

\* A session that is opened, filled or completed.
LEMMA Opened ==
    ASSUME Shape, NEW f \in LocalFiles,
           session' = Append(session, [file |-> f, held |-> {}, completed |-> FALSE])
    PROVE  Grown /\ Len(session) \in Nat /\ \A n : n = Len(session) + 1 => Owner(n, f)'
<1> DEFINE s == [file |-> f, held |-> {}, completed |-> FALSE]
<1>1. s \in Session /\ s.file = f
  BY DEF Session
<1> HIDE DEF s
<1>2. /\ session' = Append(session, s) /\ session \in Seq(Session) /\ Len(session) \in Nat
  BY Sessions DEF s, Shape
<1>3. /\ session' \in Seq(Session) /\ Len(session') = Len(session) + 1
      /\ \A n \in 1..Len(session) : session'[n] = session[n]
      /\ session'[Len(session) + 1] = s
  BY <1>1, <1>2
<1>4. Grown
  BY <1>2, <1>3 DEF Grown
<1>5. ASSUME NEW n, n = Len(session) + 1 PROVE Owner(n, f)'
  <2>1. n \in 1..Len(session') /\ session'[n] = s
    BY <1>2, <1>3, <1>5
  <2> QED BY <1>1, <2>1 DEF Owner
<1> QED BY <1>2, <1>4, <1>5

LEMMA LoadsFill ==
    ASSUME Shape, NEW n \in 1..Len(session), NEW m \in PartNumbers,
           session' = [session EXCEPT ![n].held = @ \cup {m}]
    PROVE  Grown /\ m \in session'[n].held
<1>1. session[n] \in Session /\ Len(session) \in Nat /\ session \in Seq(Session)
  BY Sessions DEF Shape
<1> DEFINE s == [session[n] EXCEPT !.held = @ \cup {m}]
<1>2. s \in Session /\ s.file = session[n].file /\ s.held = session[n].held \cup {m}
  BY <1>1 DEF Session
<1>3. session' = [session EXCEPT ![n] = s]
  OBVIOUS
<1> HIDE DEF s
<1>4. /\ [session EXCEPT ![n] = s] \in Seq(Session) /\ Len([session EXCEPT ![n] = s]) = Len(session)
      /\ \A i \in 1..Len(session) : [session EXCEPT ![n] = s][i] = IF i = n THEN s ELSE session[i]
  <2>1. s \in Session /\ session \in Seq(Session)
    BY <1>1, <1>2
  <2> HIDE <1>2, <1>3
  <2> QED BY <2>1, ExceptSeq
<1> QED BY <1>2, <1>3, <1>4 DEF Grown

LEMMA Closed ==
    ASSUME Shape, NEW n \in 1..Len(session), session' = [session EXCEPT ![n].completed = TRUE]
    PROVE  Grown
<1>1. session[n] \in Session /\ Len(session) \in Nat /\ session \in Seq(Session)
  BY Sessions DEF Shape
<1> DEFINE s == [session[n] EXCEPT !.completed = TRUE]
<1>2. s \in Session /\ s.file = session[n].file /\ s.held = session[n].held
  BY <1>1 DEF Session
<1>3. session' = [session EXCEPT ![n] = s]
  OBVIOUS
<1> HIDE DEF s
<1>4. /\ [session EXCEPT ![n] = s] \in Seq(Session) /\ Len([session EXCEPT ![n] = s]) = Len(session)
      /\ \A i \in 1..Len(session) : [session EXCEPT ![n] = s][i] = IF i = n THEN s ELSE session[i]
  <2>1. s \in Session /\ session \in Seq(Session)
    BY <1>1, <1>2
  <2> HIDE <1>2, <1>3
  <2> QED BY <2>1, ExceptSeq
<1> QED BY <1>2, <1>3, <1>4 DEF Grown

\* What is known of a call that is under way.
LEMMA Caller ==
    ASSUME WholeInv, NEW c \in Callers
    PROVE  /\ call[c] \in CallRecord /\ Linked(call[c]) /\ call \in [Callers -> CallRecord]
           /\ call[c].at # "none" => call[c].file \in LocalFiles
           /\ c \in Entries /\ call[c].at # "none" => call[c].file = c
           /\ Shape
  BY DEF WholeInv, Shape, Tied, Linked

\* The start.
LEMMA InitWhole == ClientInit => WholeInv
<1> SUFFICES ASSUME ClientInit PROVE WholeInv
  OBVIOUS
<1>1. NoCall \in CallRecord /\ Linked(NoCall) /\ NoCall.at = "none"
  BY DEF NoCall, CallRecord, Linked
<1>2. session \in Seq(Session)
  BY EmptySeq DEF ClientInit
<1>3. Shape
  BY <1>1, <1>2 DEF ClientInit, Shape, EntryRecord
<1>4. Tied
  BY <1>1 DEF ClientInit, Tied, Callers
<1> QED BY <1>3, <1>4 DEF WholeInv

\* A call's steps, one by one.
LEMMA InfoWhole == ASSUME WholeInv, NEW c \in Callers, Info(c) PROVE WholeInv'
<1>1. PICK k : k = call[c]
  OBVIOUS
<1>2. /\ k \in CallRecord /\ Linked(k) /\ k.file \in LocalFiles /\ k.at = "info" /\ Shape
      /\ c \in Entries => k.file = c
  BY <1>1, Caller DEF Info
<1>3. PICK s : s = session[k.sess]
  OBVIOUS
<1>4. k.sess # 0 /\ k.done = {} /\ Owner(k.sess, k.file) /\ s \in Session
  BY <1>2, <1>3, Sessions DEF Linked, Owner
<1>5. Grown /\ UNCHANGED <<entry, session>>
  BY <1>2, GrowsNot DEF Info, serverVars
<1>6. CASE s.completed
  <2> DEFINE i == [k EXCEPT !.at = "init", !.sess = 0]
  <2>1. i \in CallRecord /\ i.at = "init" /\ i.sess = 0 /\ i.file = k.file /\ i.done = {}
    BY <1>2, <1>4 DEF CallRecord
  <2>2. call' = [call EXCEPT ![c] = i]
    BY <1>1, <1>3, <1>6 DEF Info
  <2> HIDE DEF i
  <2>3. Linked(i)'
    BY <1>2, <2>1 DEF Linked, Owner
  <2> QED BY <1>2, <1>5, <2>1, <2>2, <2>3, MovesAlone
<1>7. CASE ~s.completed
  <2> DEFINE j == [k EXCEPT !.done = s.held]
  <2>1. j \in CallRecord /\ j.file = k.file /\ j.sess = k.sess /\ j.done = s.held
    BY <1>2, <1>4 DEF CallRecord, Session
  <2>2. call' = [call EXCEPT ![c] = Onward(j)]
    BY <1>1, <1>3, <1>7 DEF Info
  <2> HIDE DEF j
  <2>3. Owner(j.sess, j.file)' /\ j.done \subseteq session'[j.sess].held
    BY <1>3, <1>4, <1>5, <2>1 DEF Owner
  <2>4. PICK m : m = Onward(j)
    OBVIOUS
  <2>5. m \in CallRecord /\ Linked(m)' /\ m.file = k.file
    BY <1>2, <1>4, <2>1, <2>3, <2>4, OnwardLinked
  <2> QED BY <1>2, <1>5, <2>2, <2>4, <2>5, MovesAlone
<1> QED BY <1>6, <1>7

LEMMA StartWhole == ASSUME WholeInv, NEW c \in Callers, Start(c) PROVE WholeInv'
<1>1. PICK k : k = call[c]
  OBVIOUS
<1>2. /\ k \in CallRecord /\ Linked(k) /\ k.file \in LocalFiles /\ k.at = "init" /\ Shape
      /\ c \in Entries => k.file = c
  BY <1>1, Caller DEF Start
<1>3. /\ session' = Append(session, [file |-> k.file, held |-> {}, completed |-> FALSE])
      /\ UNCHANGED entry
  BY <1>1 DEF Start
<1>4. PICK n : n = Len(session) + 1
  OBVIOUS
<1>5. Grown /\ n \in Nat /\ n # 0 /\ Owner(n, k.file)'
  BY <1>2, <1>3, <1>4, Opened
<1> DEFINE j == [k EXCEPT !.sess = n]
<1>6. j \in CallRecord /\ j.file = k.file /\ j.sess = n /\ j.done = {}
  BY <1>2, <1>5 DEF CallRecord, Linked
<1>7. call' = [call EXCEPT ![c] = Onward(j)]
  BY <1>1, <1>2, <1>4, Caller DEF Start
<1> HIDE DEF j
<1>8. PICK m : m = Onward(j)
  OBVIOUS
<1>9. m \in CallRecord /\ Linked(m)' /\ m.file = k.file
  BY <1>2, <1>5, <1>6, <1>8, OnwardLinked
<1> QED BY <1>2, <1>3, <1>5, <1>7, <1>8, <1>9, MovesAlone

LEMMA PutWhole == ASSUME WholeInv, NEW c \in Callers, Put(c) PROVE WholeInv'
<1>1. PICK k : k = call[c]
  OBVIOUS
<1>2. PICK p : p = NextPart(c)
  OBVIOUS
<1>3. /\ k \in CallRecord /\ Linked(k) /\ k.file \in LocalFiles /\ k.at = "part" /\ Shape
      /\ c \in Entries => k.file = c
  BY <1>1, Caller DEF Put
<1>4. p \in PartNumbers /\ k.sess \in 1..Len(session) /\ session[k.sess].file = k.file
      /\ k.done \subseteq session[k.sess].held /\ k.sess # 0
  BY <1>1, <1>2, <1>3, NextIsPart DEF Linked, Owner
<1>5. session' = [session EXCEPT ![k.sess].held = @ \cup {p}] /\ UNCHANGED entry
  BY <1>1, <1>2 DEF Put
<1>6. Grown /\ p \in session'[k.sess].held
  BY <1>3, <1>4, <1>5, LoadsFill
<1> DEFINE j == [k EXCEPT !.done = @ \cup {p}]
<1>7. j \in CallRecord /\ j.file = k.file /\ j.sess = k.sess /\ j.done = k.done \cup {p}
  BY <1>3, <1>4 DEF CallRecord
<1>8. call' = [call EXCEPT ![c] = Onward(j)]
  BY <1>1, <1>2, Caller DEF Put
<1> HIDE DEF j
<1>9. Owner(j.sess, j.file)' /\ j.done \subseteq session'[j.sess].held
  BY <1>4, <1>6, <1>7 DEF Grown, Owner
<1>10. PICK m : m = Onward(j)
  OBVIOUS
<1>11. m \in CallRecord /\ Linked(m)' /\ m.file = k.file
  BY <1>3, <1>4, <1>7, <1>9, <1>10, OnwardLinked
<1> QED BY <1>3, <1>5, <1>6, <1>8, <1>10, <1>11, MovesAlone

\* What is left of a call that ended or failed.
LEMMA Rested ==
    ASSUME Shape, Grown, NEW k \in CallRecord, Linked(k), k.at # "none",
           NEW at \in {"done", "clear", "failed"}, NEW n \in {0, k.sess}
    PROVE  LET j == [k EXCEPT !.at = at, !.sess = n]
           IN  j \in CallRecord /\ Linked(j)' /\ j.file = k.file /\ j.at = at
<1> DEFINE j == [k EXCEPT !.at = at, !.sess = n]
<1>1. j \in CallRecord /\ j.at = at /\ j.sess = n /\ j.file = k.file /\ j.done = k.done
  <2>1. n \in Nat /\ at \in {"none", "info", "init", "part", "complete", "done", "clear", "failed"}
    BY DEF CallRecord
  <2> QED BY <2>1 DEF CallRecord
<1> HIDE DEF j
<1>2. Linked(k)'
  BY LinkedStays
<1>3. Linked(j)'
  BY <1>1, <1>2 DEF Linked, Owner
<1> QED BY <1>1, <1>3 DEF j

LEMMA CompleteWhole == ASSUME WholeInv, NEW c \in Callers, Complete(c) PROVE WholeInv'
<1>1. PICK k : k = call[c]
  OBVIOUS
<1>2. /\ k \in CallRecord /\ Linked(k) /\ k.file \in LocalFiles /\ k.at = "complete" /\ Shape
      /\ c \in Entries => k.file = c
  BY <1>1, Caller DEF Complete
<1>3. k.sess \in 1..Len(session)
  BY <1>2 DEF Linked, Owner
<1>4. Grown /\ UNCHANGED entry
  BY <1>1, <1>2, <1>3, Closed, Zenon DEF Complete, Stored
<1> DEFINE j == [k EXCEPT !.at = "done", !.sess = k.sess]
<1>5. j \in CallRecord /\ Linked(j)' /\ j.file = k.file
  BY <1>2, <1>4, Rested, Zenon
<1>6. j = [k EXCEPT !.at = "done"]
  BY <1>2 DEF CallRecord
<1>7. call' = [call EXCEPT ![c] = j]
  BY <1>1, <1>6, Caller DEF Complete
<1> HIDE DEF j
<1> QED BY <1>2, <1>4, <1>5, <1>7, MovesAlone

LEMMA FaultWhole == ASSUME WholeInv, NEW c \in Callers, Fault(c) PROVE WholeInv'
<1>1. PICK k : k = call[c]
  OBVIOUS
<1>2. /\ k \in CallRecord /\ Linked(k) /\ k.file \in LocalFiles /\ Shape
      /\ k.at \in {"info", "init", "part", "complete"}
      /\ c \in Entries => k.file = c
  BY <1>1, Caller DEF Fault
<1>3. Grown
  <2>1. CASE UNCHANGED session
    BY <1>2, <2>1, GrowsNot
  <2>2. CASE k.at = "init" /\ session' = Append(session, [file |-> k.file, held |-> {}, completed |-> FALSE])
    BY <1>2, <2>2, Opened
  <2>3. CASE k.at = "part" /\ session' = [session EXCEPT ![k.sess].held = @ \cup {NextPart(c)}]
    <3>1. NextPart(c) \in PartNumbers /\ k.sess \in 1..Len(session)
      BY <1>1, <1>2, <2>3, NextIsPart DEF Linked, Owner
    <3> QED BY <1>2, <2>3, <3>1, LoadsFill
  <2>4. CASE k.at = "complete" /\ Stored(k)
    <3>1. k.sess \in 1..Len(session)
      BY <1>2, <2>4 DEF Linked, Owner
    <3> QED BY <1>2, <2>4, <3>1, Closed DEF Stored
  <2>5. CASE k.at = "complete" /\ session' = [session EXCEPT ![k.sess].completed = TRUE]
    <3>1. k.sess \in 1..Len(session)
      BY <1>2, <2>5 DEF Linked, Owner
    <3> QED BY <1>2, <2>5, <3>1, Closed
  <2> QED BY <1>1, <2>1, <2>2, <2>3, <2>4, <2>5 DEF Fault, serverVars
<1>4. call' = [call EXCEPT ![c] = Broken(c)] /\ UNCHANGED entry
  BY DEF Fault
<1>5. PICK j : j = Broken(c)
  OBVIOUS
<1>6. j \in CallRecord /\ Linked(j)' /\ j.file = k.file
  <2>1. CASE k.at = "info"
    <3>1. j = [k EXCEPT !.at = "init", !.sess = 0]
      BY <1>1, <1>5, <2>1 DEF Broken
    <3>2. j \in CallRecord /\ j.at = "init" /\ j.sess = 0 /\ j.file = k.file /\ j.done = {}
      BY <1>2, <2>1, <3>1, Zenon DEF CallRecord, Linked
    <3> QED BY <1>2, <3>2 DEF Linked, Owner
  <2>2. CASE k.at = "part"
    <3>1. j = [k EXCEPT !.at = "failed", !.sess = k.sess]
      BY <1>1, <1>2, <1>5, <2>2, Zenon DEF Broken, CallRecord
    <3> QED BY <1>2, <1>3, <3>1, Rested, Zenon
  <2>3. CASE k.at \in {"init", "complete"}
    <3>1. j = [k EXCEPT !.at = "failed", !.sess = 0]
      BY <1>1, <1>5, <2>3 DEF Broken
    <3> QED BY <1>2, <1>3, <3>1, Rested, Zenon
  <2> QED BY <1>2, <2>1, <2>2, <2>3
<1> QED BY <1>2, <1>3, <1>4, <1>5, <1>6, MovesAlone

\* A call that begins, and one that is no more.
LEMMA Beginning ==
    ASSUME Shape, Grown, NEW f \in LocalFiles, NEW n \in Nat, n # 0 => Owner(n, f)
    PROVE  Called(f, n) \in CallRecord /\ Linked(Called(f, n))' /\ Called(f, n).file = f
           /\ Called(f, n).at \in {"init", "info"}
<1>1. n # 0 => Owner(n, f)'
  BY DEF Owner, Grown
<1>2. PICK j : j = Called(f, n)
  OBVIOUS
<1>3. /\ j \in CallRecord /\ j.file = f /\ j.sess = n /\ j.done = {}
      /\ j.at \in {"init", "info"} /\ (j.at = "info" => n # 0)
  BY <1>2 DEF Called, CallRecord
<1>4. Linked(j)'
  BY <1>1, <1>3 DEF Linked, Owner
<1> QED BY <1>2, <1>3, <1>4

\* No call is linked to nothing.
LEMMA NoneLinked == NoCall \in CallRecord /\ Linked(NoCall)' /\ NoCall.at = "none"
  BY DEF NoCall, CallRecord, Linked

\* An entry is started, paused and ended.
LEMMA EntryWhole ==
    ASSUME WholeInv, NEW e \in Entries, StartEntry(e) \/ Pause(e) \/ EndEntry(e)
    PROVE  WholeInv'
<1>1. PICK k : k = call[e]
  OBVIOUS
<1>2. PICK x : x = entry[e]
  OBVIOUS
<1>3. /\ e \in Callers /\ e \in LocalFiles
      /\ k \in CallRecord /\ Linked(k) /\ (k.at # "none" => k.file = e)
      /\ x \in EntryRecord /\ (x.sess # 0 => Owner(x.sess, e)) /\ Shape
      /\ entry \in [Entries -> EntryRecord]
  BY <1>1, <1>2, Caller DEF Callers, LocalFiles, WholeInv, Shape, Tied
<1>4. ASSUME Grown, NEW j \in CallRecord, NEW y \in EntryRecord,
             call' = [call EXCEPT ![e] = j], entry' = [entry EXCEPT ![e] = y],
             Linked(j)', j.at # "none" => j.file = e, y.sess # 0 => Owner(y.sess, e)
      PROVE  WholeInv'
  <2>1. entry' \in [Entries -> EntryRecord]
    BY <1>3, <1>4
  <2>2. \A d \in Entries : entry'[d].sess # 0 => Owner(entry[d].sess, d)'
    <3>1. entry'[e] = y /\ \A d \in Entries \ {e} : entry'[d] = entry[d]
      BY <1>3, <1>4
    <3>2. \A d \in Entries : entry'[d].sess # 0 => Owner(entry'[d].sess, d)
      BY <1>4, <3>1 DEF WholeInv, Tied
    <3> QED BY <1>4, <3>2 DEF Owner, Grown
  <2> QED BY <1>3, <1>4, <2>1, <2>2, Moves
<1>5. CASE StartEntry(e)
  <2> DEFINE y == [x EXCEPT !.status = "uploading"]
  <2>1. y \in EntryRecord /\ y.sess = x.sess
    BY <1>3 DEF EntryRecord
  <2>2. Grown
    BY <1>3, <1>5, GrowsNot DEF StartEntry, serverVars
  <2>3. PICK j : j = Called(e, x.sess)
    OBVIOUS
  <2>4. j \in CallRecord /\ Linked(j)' /\ j.file = e
    BY <1>3, <2>2, <2>3, Beginning DEF EntryRecord
  <2>5. call' = [call EXCEPT ![e] = j] /\ entry' = [entry EXCEPT ![e] = y]
    BY <1>2, <1>5, <2>3 DEF StartEntry
  <2> HIDE DEF y
  <2> QED BY <1>3, <1>4, <2>1, <2>2, <2>4, <2>5
<1>6. CASE Pause(e)
  <2> DEFINE y == [status |-> "paused", sess |-> k.sess]
  <2>1. k.at = "part" /\ k.sess \in 1..Len(session) /\ Owner(k.sess, e)
    BY <1>1, <1>3, <1>6 DEF Pause, Linked, Owner
  <2>2. Grown
    <3>1. CASE UNCHANGED session
      BY <1>3, <3>1, GrowsNot
    <3>2. CASE session' = [session EXCEPT ![k.sess].held = @ \cup {NextPart(e)}]
      <4>1. NextPart(e) \in PartNumbers
        BY <1>1, <1>3, <2>1, NextIsPart DEF Linked
      <4> QED BY <1>3, <2>1, <3>2, <4>1, LoadsFill
    <3> QED BY <1>1, <1>6, <3>1, <3>2 DEF Pause
  <2>3. y \in EntryRecord /\ y.sess = k.sess
    BY <1>3 DEF EntryRecord, CallRecord
  <2>4. call' = [call EXCEPT ![e] = NoCall] /\ entry' = [entry EXCEPT ![e] = y]
    BY <1>1, <1>6 DEF Pause
  <2> HIDE DEF y
  <2> QED BY <1>3, <1>4, <2>1, <2>2, <2>3, <2>4, NoneLinked
<1>7. CASE EndEntry(e)
  <2>1. Grown /\ call' = [call EXCEPT ![e] = NoCall] /\ k.at \in {"done", "failed"}
    BY <1>1, <1>3, <1>7, GrowsNot DEF EndEntry, serverVars
  <2>2. PICK y : y = IF k.at = "done" THEN [x EXCEPT !.status = "done"]
                     ELSE [status |-> "error", sess |-> IF k.sess # 0 THEN k.sess ELSE x.sess]
    OBVIOUS
  <2>3. entry' = [entry EXCEPT ![e] = y]
    BY <1>1, <1>2, <1>7, <2>2 DEF EndEntry
  <2>4. y \in EntryRecord /\ y.sess \in {k.sess, x.sess}
    BY <1>3, <2>2 DEF EntryRecord, CallRecord
  <2>5. y.sess # 0 => Owner(y.sess, e)
    BY <1>3, <2>1, <2>4 DEF Linked
  <2> QED BY <1>3, <1>4, <2>1, <2>3, <2>4, <2>5, NoneLinked
<1> QED BY <1>5, <1>6, <1>7

\* A flush takes its next item, and is through with it.
LEMMA PageWhole ==
    ASSUME WholeInv, NEW p \in Pages, NextItem(p) \/ EndItem(p) \/ Clear(p),
           waiting \in [Pages -> SUBSET Items]
    PROVE  WholeInv'
<1>1. /\ p \in Callers /\ p \notin Entries /\ Shape /\ Grown /\ UNCHANGED <<entry, session>>
  BY ClientAssumption, GrowsNot DEF Callers, WholeInv, NextItem, EndItem, Clear, serverVars
<1>2. CASE call' = [call EXCEPT ![p] = NoCall]
  BY <1>1, <1>2, NoneLinked, MovesAlone
<1>3. CASE \E i \in waiting[p] : call' = [call EXCEPT ![p] = Called(i, 0)]
  <2>1. PICK i \in Items : call' = [call EXCEPT ![p] = Called(i, 0)]
    BY <1>3
  <2>2. PICK j : j = Called(i, 0)
    OBVIOUS
  <2>3. j \in CallRecord /\ Linked(j)'
    BY <1>1, <2>2, Beginning DEF LocalFiles
  <2> QED BY <1>1, <2>1, <2>2, <2>3, MovesAlone
<1>4. CASE UNCHANGED call
  <2>1. Shape'
    BY <1>1, <1>4 DEF Shape
  <2> QED BY <1>1, <1>4, <2>1 DEF WholeInv, Tied, Linked, Owner, Shape
<1>5. CASE call[p].at = "done" /\ call' = [call EXCEPT ![p].at = "clear"]
  <2>1. PICK k : k = call[p]
    OBVIOUS
  <2>2. k \in CallRecord /\ Linked(k) /\ k.at # "none"
    BY <1>1, <1>5, <2>1, Caller
  <2> DEFINE j == [k EXCEPT !.at = "clear", !.sess = k.sess]
  <2>3. j \in CallRecord /\ Linked(j)' /\ j.file = k.file
    BY <1>1, <2>2, Rested, Zenon
  <2>4. j = [k EXCEPT !.at = "clear"]
    BY <2>2 DEF CallRecord
  <2>5. call' = [call EXCEPT ![p] = j]
    BY <1>1, <1>5, <2>1, <2>4, Caller
  <2> HIDE DEF j
  <2> QED BY <1>1, <2>3, <2>5, MovesAlone
<1> QED BY <1>2, <1>3, <1>4, <1>5 DEF NextItem, EndItem, Clear

\* Steps of the queue and the network leave calls, entries and sessions alone.
LEMMA CalmWhole ==
    ASSUME WholeInv, UNCHANGED <<session, call, entry>>
    PROVE  WholeInv'
<1>1. Shape'
  BY DEF WholeInv, Shape
<1>2. Tied'
  BY DEF WholeInv, Tied, Linked, Owner
<1> QED BY <1>1, <1>2 DEF WholeInv

\* The queue a flush works off holds items.
Queued == waiting \in [Pages -> SUBSET Items] /\ outbox \subseteq Items

\* No step queues anything else.
LEMMA StepQueued == Queued /\ [ClientNext]_clientVars => Queued'
<1> SUFFICES ASSUME Queued, [ClientNext]_clientVars PROVE Queued'
  OBVIOUS
<1>1. UNCHANGED <<waiting, outbox>> => Queued'
  BY DEF Queued
<1>2. ASSUME NEW p \in Pages, Queue(p) PROVE Queued'
  BY <1>1, <1>2 DEF Queue, Trigger, ReadQueue, NextItem, EndItem, Clear, Remount, Queued
<1>3. ASSUME NEW i \in Items, Enqueue(i) PROVE Queued'
  BY <1>3 DEF Enqueue, Queued
<1>4. ASSUME NEW c \in Callers, Progress(c) \/ Fault(c) PROVE Queued'
  BY <1>1, <1>4 DEF Progress, Info, Start, Put, Complete, Fault, queueVars
<1>5. ASSUME NEW e \in Entries, StartEntry(e) \/ Pause(e) \/ EndEntry(e) PROVE Queued'
  BY <1>1, <1>5 DEF StartEntry, Pause, EndEntry, queueVars
<1>6. GoOnline \/ GoOffline \/ UNCHANGED clientVars => Queued'
  BY <1>1 DEF GoOnline, GoOffline, clientVars, queueVars
<1> QED BY <1>2, <1>3, <1>4, <1>5, <1>6 DEF ClientNext, EntryNext, OutboxNext, Callers

\* Every step keeps the invariant.
LEMMA StepWhole == WholeInv /\ Queued /\ [ClientNext]_clientVars => WholeInv'
<1> SUFFICES ASSUME WholeInv, Queued, [ClientNext]_clientVars PROVE WholeInv'
  OBVIOUS
<1>1. ASSUME NEW c \in Callers, Progress(c) \/ Fault(c) PROVE WholeInv'
  BY <1>1, InfoWhole, StartWhole, PutWhole, CompleteWhole, FaultWhole DEF Progress
<1>2. ASSUME NEW e \in Entries, StartEntry(e) \/ Pause(e) \/ EndEntry(e) PROVE WholeInv'
  BY <1>2, EntryWhole
<1>3. ASSUME NEW p \in Pages, NextItem(p) \/ EndItem(p) \/ Clear(p) PROVE WholeInv'
  BY <1>3, PageWhole DEF Queued
<1>4. ASSUME NEW p \in Pages, Trigger(p) \/ ReadQueue(p) \/ Remount(p) PROVE WholeInv'
  BY <1>4, CalmWhole DEF Trigger, ReadQueue, Remount, serverVars
<1>5. ASSUME NEW i \in Items, Enqueue(i) PROVE WholeInv'
  BY <1>5, CalmWhole DEF Enqueue
<1>6. CASE GoOnline \/ GoOffline \/ UNCHANGED clientVars
  BY <1>6, CalmWhole DEF GoOnline, GoOffline, clientVars, serverVars
<1> QED BY <1>1, <1>2, <1>3, <1>4, <1>5, <1>6 DEF ClientNext, EntryNext, OutboxNext, Queue, Callers

\* Whatever was paused, resumed, refused or lost, a completion is asked for only of
\* a session that is the file's and holds every part of it (chunkedUpload in
\* api/upload.js skips parts it believes are there).
THEOREM WholeFiles == ClientSpec => []AsksWhole
<1>1. ClientInit => WholeInv /\ Queued
  BY InitWhole DEF ClientInit, Queued
<1>2. WholeInv /\ Queued /\ [ClientNext]_clientVars => (WholeInv /\ Queued)'
  BY StepWhole, StepQueued
<1>3. WholeInv => AsksWhole
  <2> SUFFICES ASSUME WholeInv, NEW c \in Callers, call[c].at = "complete"
               PROVE  LET s == session[call[c].sess] IN s.held = PartNumbers /\ s.file = call[c].file
    BY DEF AsksWhole
  <2>1. /\ Owner(call[c].sess, call[c].file) /\ call[c].done \subseteq session[call[c].sess].held
        /\ PartNumbers \subseteq call[c].done
    BY Caller DEF Linked
  <2>2. session[call[c].sess] \in Session
    BY <2>1, Sessions DEF WholeInv, Owner
  <2> QED BY <2>1, <2>2 DEF Owner, Session
<1> QED BY <1>1, <1>2, <1>3, PTL DEF ClientSpec

-----------------------------------------------------------------------------
(* A file is uploaded once *)

\* An entry that was uploaded is done, and is not started again; when the answer was
\* lost it may be.
Unmade(e) == call[e].at # "done" /\ entry[e].status # "done"
EntriesOnce ==
    \A e \in Entries :
        /\ call[e].at # "none" => entry[e].status = "uploading"
        /\ made[e] + (IF Unmade(e) THEN 1 ELSE 0) <= 1 + unsure[e]

\* A flush that is not under way holds nothing, a call is for an item the flush has
\* taken off what is waiting, and the mounted page has been mounted.
PagesOnce ==
    /\ page \in Pages /\ flush \in [Pages -> {"new", "idle", "reading", "uploading"}]
    /\ flushed \in [Pages -> SUBSET Items] /\ flush[page] # "new"
    /\ \A p \in Pages :
          /\ call[p].at # "none" => call[p].file \in Items \ waiting[p]
          /\ flush[p] # "uploading" => waiting[p] = {} /\ call[p].at = "none"
          /\ call[p].at = "clear" => call[p].file \in flushed[p]

\* The pages that may still store an item: it waits there, it is being uploaded, or
\* it is queued, unknown to the page, and the page may read the queue.
MayStore(p, i) ==
    \/ i \in waiting[p]
    \/ call[p].file = i /\ call[p].at \in {"info", "init", "part", "complete"}
    \/ /\ i \in outbox \ flushed[p] /\ (p = page \/ flush[p] = "reading")
       /\ ~(call[p].file = i /\ call[p].at = "done")
Storers(i) == {p \in Pages : MayStore(p, i)}

\* Inductive: what was stored and what may yet be is never more than one, beyond
\* what nobody could know.
ItemsOnce == \A i \in Items : made[i] + Cardinality(Storers(i)) <= 1 + unsure[i]

OnceInv ==
    /\ WholeInv /\ Queued /\ made \in [LocalFiles -> Nat] /\ unsure \in [LocalFiles -> Nat]
    /\ EntriesOnce /\ PagesOnce /\ ItemsOnce

\* Pages, entries and items are different things.
LEMMA Apart ==
    /\ \A e \in Entries : e \notin Items /\ e \notin Pages /\ e \in Callers /\ e \in LocalFiles
    /\ \A i \in Items : i \notin Entries /\ i \in LocalFiles /\ i # Nothing
    /\ \A p \in Pages : p \notin Entries /\ p \in Callers
  BY ClientAssumption DEF Callers, LocalFiles

\* Sets of pages are counted.
LEMMA PagesCounted ==
    ASSUME NEW S \in SUBSET Pages, NEW T \in SUBSET Pages
    PROVE  /\ Cardinality(S) \in Nat /\ Cardinality(T) \in Nat
           /\ T \subseteq S => Cardinality(T) <= Cardinality(S)
           /\ \A p \in Pages : T \subseteq S \cup {p} => Cardinality(T) <= Cardinality(S) + 1
           /\ \A q \in S : T \subseteq S \ {q} => Cardinality(T) + 1 <= Cardinality(S)
           /\ \A q \in S : \A p \in Pages :
                 T \subseteq (S \ {q}) \cup {p} => Cardinality(T) <= Cardinality(S)
<1>1. IsFiniteSet(S) /\ IsFiniteSet(T)
  BY ClientAssumption, FS_Subset
<1>2. Cardinality(S) \in Nat /\ Cardinality(T) \in Nat
  BY <1>1, FS_CardinalityType
<1>3. ASSUME NEW A, IsFiniteSet(A), T \subseteq A PROVE Cardinality(T) <= Cardinality(A)
  BY <1>3, FS_Subset
<1>4. ASSUME NEW A, IsFiniteSet(A), NEW p
      PROVE  /\ IsFiniteSet(A \cup {p}) /\ Cardinality(A) \in Nat
             /\ Cardinality(A \cup {p}) \in Nat /\ Cardinality(A \cup {p}) <= Cardinality(A) + 1
  <2>1. /\ IsFiniteSet(A \cup {p})
        /\ Cardinality(A \cup {p}) = IF p \in A THEN Cardinality(A) ELSE Cardinality(A) + 1
    BY <1>4, FS_AddElement
  <2>2. Cardinality(A) \in Nat /\ Cardinality(A \cup {p}) \in Nat
    BY <1>4, <2>1, FS_CardinalityType
  <2> QED BY <2>1, <2>2
<1>5. ASSUME NEW q \in S
      PROVE  IsFiniteSet(S \ {q}) /\ Cardinality(S \ {q}) = Cardinality(S) - 1
  BY <1>1, FS_RemoveElement
<1>6. ASSUME NEW p \in Pages, T \subseteq S \cup {p} PROVE Cardinality(T) <= Cardinality(S) + 1
  <2>1. /\ IsFiniteSet(S \cup {p}) /\ Cardinality(S \cup {p}) \in Nat
        /\ Cardinality(S \cup {p}) <= Cardinality(S) + 1
    BY <1>1, <1>4
  <2>2. Cardinality(T) <= Cardinality(S \cup {p})
    BY <1>3, <1>6, <2>1
  <2> QED BY <1>2, <2>1, <2>2
<1>7. ASSUME NEW q \in S, T \subseteq S \ {q} PROVE Cardinality(T) + 1 <= Cardinality(S)
  <2>1. Cardinality(T) <= Cardinality(S) - 1
    BY <1>3, <1>5, <1>7
  <2> QED BY <1>2, <2>1
<1>8. ASSUME NEW q \in S, NEW p \in Pages, T \subseteq (S \ {q}) \cup {p}
      PROVE  Cardinality(T) <= Cardinality(S)
  <2> DEFINE A == S \ {q}
  <2>1. IsFiniteSet(A) /\ Cardinality(A) = Cardinality(S) - 1
    BY <1>5
  <2> HIDE DEF A
  <2>2. /\ IsFiniteSet(A \cup {p}) /\ Cardinality(A \cup {p}) \in Nat
        /\ Cardinality(A \cup {p}) <= Cardinality(A) + 1
    BY <1>4, <2>1
  <2>3. T \subseteq A \cup {p}
    BY <1>8 DEF A
  <2>4. Cardinality(T) <= Cardinality(A \cup {p})
    BY <1>3, <2>2, <2>3
  <2> QED BY <1>2, <2>1, <2>2, <2>4
<1> QED BY <1>1, <1>2, <1>3, <1>6, <1>7, <1>8

\* Nobody is counted who may not store the item, and no file is made.
LEMMA NoMore ==
    ASSUME OnceInv, UNCHANGED <<made, unsure>>, \A i \in Items : Storers(i)' \subseteq Storers(i)
    PROVE  ItemsOnce'
<1> SUFFICES ASSUME NEW i \in Items PROVE made[i] + Cardinality(Storers(i)') <= 1 + unsure[i]
  BY DEF ItemsOnce
<1>1. PICK S, T : S = Storers(i) /\ T = Storers(i)'
  OBVIOUS
<1>2. S \in SUBSET Pages /\ T \in SUBSET Pages /\ T \subseteq S
  BY <1>1 DEF Storers
<1>3. Cardinality(S) \in Nat /\ Cardinality(T) \in Nat /\ Cardinality(T) <= Cardinality(S)
  BY <1>2, PagesCounted
<1>4. made[i] + Cardinality(S) <= 1 + unsure[i] /\ made[i] \in Nat /\ unsure[i] \in Nat
  BY <1>1, Apart DEF OnceInv, ItemsOnce
<1> QED BY <1>1, <1>3, <1>4

\* A call moves on, and its file is not made by that.
LEMMA CallOnce ==
    ASSUME OnceInv, WholeInv', NEW c \in Callers, NEW k, call' = [call EXCEPT ![c] = k],
           call[c].at \in {"info", "init", "part", "complete"},
           k.at \in {"info", "init", "part", "complete", "failed"}, k.file = call[c].file,
           UNCHANGED <<outbox, page, waiting, flush, flushed, entry, made, unsure>>
    PROVE  OnceInv'
<1>1. call'[c] = k /\ \A d \in Callers \ {c} : call'[d] = call[d]
  BY DEF OnceInv, WholeInv, Shape
<1>2. EntriesOnce'
  BY <1>1, Apart DEF OnceInv, EntriesOnce, Unmade
<1>3. PagesOnce'
  BY <1>1, Apart DEF OnceInv, PagesOnce
<1>4. ASSUME NEW i \in Items PROVE Storers(i)' \subseteq Storers(i)
  <2> SUFFICES ASSUME NEW p \in Pages, MayStore(p, i)' PROVE MayStore(p, i)
    BY DEF Storers
  <2>1. CASE p = c
    BY <1>1, <2>1 DEF MayStore
  <2>2. CASE p # c
    BY <1>1, <2>2, Apart DEF MayStore
  <2> QED BY <2>1, <2>2
<1>5. ItemsOnce'
  BY <1>4, NoMore
<1> QED BY <1>2, <1>3, <1>5 DEF OnceInv, Queued

\* A completion makes a file that was not made, or leaves nobody to know of it.
LEMMA CompleteOnce ==
    ASSUME OnceInv, WholeInv', NEW c \in Callers, NEW k, k = call[c], k.at = "complete",
           NEW j, j.file = k.file, call' = [call EXCEPT ![c] = j],
           made' = [made EXCEPT ![k.file] = @ + 1],
           \/ j.at = "done" /\ unsure' = unsure
           \/ j.at = "failed" /\ unsure' = [unsure EXCEPT ![k.file] = @ + 1],
           UNCHANGED <<outbox, page, waiting, flush, flushed, entry>>
    PROVE  OnceInv'
<1>1. k \in CallRecord /\ k.file \in LocalFiles
  BY Caller DEF OnceInv
<1>2. call'[c] = j /\ \A d \in Callers \ {c} : call'[d] = call[d]
  BY DEF OnceInv, WholeInv, Shape
<1>3. made'[k.file] = made[k.file] + 1 /\ made' \in [LocalFiles -> Nat]
      /\ \A f \in LocalFiles \ {k.file} : made'[f] = made[f]
  BY <1>1 DEF OnceInv
<1>4. /\ unsure' \in [LocalFiles -> Nat] /\ \A f \in LocalFiles \ {k.file} : unsure'[f] = unsure[f]
      /\ j.at = "done" => unsure'[k.file] = unsure[k.file]
      /\ j.at = "failed" => unsure'[k.file] = unsure[k.file] + 1
  BY <1>1 DEF OnceInv
<1>5. made[k.file] \in Nat /\ unsure[k.file] \in Nat
  BY <1>1 DEF OnceInv
<1>6. PagesOnce'
  BY <1>1, <1>2, Apart DEF OnceInv, PagesOnce
<1>7. CASE c \in Entries
  <2>1. k.file = c /\ \A p \in Pages : call'[p] = call[p]
    BY <1>1, <1>2, <1>7, Caller, Apart DEF OnceInv
  <2>2. EntriesOnce'
    <3> SUFFICES ASSUME NEW e \in Entries
                 PROVE  /\ call'[e].at # "none" => entry[e].status = "uploading"
                        /\ made'[e] + (IF Unmade(e)' THEN 1 ELSE 0) <= 1 + unsure'[e]
      BY DEF EntriesOnce
    <3>1. CASE e = c
      <4>1. entry[c].status = "uploading" /\ Unmade(c) /\ made[c] + 1 <= 1 + unsure[c]
        BY <1>7 DEF OnceInv, EntriesOnce, Unmade
      <4>2. Unmade(c)' <=> j.at # "done"
        BY <1>2, <4>1 DEF Unmade
      <4>3. CASE j.at = "done"
        BY <1>3, <1>4, <1>5, <2>1, <3>1, <4>1, <4>2, <4>3
      <4>4. CASE j.at = "failed"
        BY <1>3, <1>4, <1>5, <2>1, <3>1, <4>1, <4>2, <4>4
      <4> QED BY <4>3, <4>4
    <3>2. CASE e # c
      <4>1. e \in LocalFiles \ {k.file} /\ call'[e] = call[e]
        BY <1>2, <2>1, <3>2, Apart
      <4>2. made'[e] = made[e] /\ unsure'[e] = unsure[e] /\ (Unmade(e)' <=> Unmade(e))
        BY <1>3, <1>4, <4>1 DEF Unmade
      <4> QED BY <4>1, <4>2 DEF OnceInv, EntriesOnce
    <3> QED BY <3>1, <3>2
  <2>3. ItemsOnce'
    <3> SUFFICES ASSUME NEW i \in Items
                 PROVE  made'[i] + Cardinality(Storers(i)') <= 1 + unsure'[i]
      BY DEF ItemsOnce
    <3>1. made'[i] = made[i] /\ unsure'[i] = unsure[i]
      BY <1>3, <1>4, <1>7, <2>1, Apart
    <3>2. Storers(i)' = Storers(i)
      BY <2>1 DEF Storers, MayStore
    <3> QED BY <3>1, <3>2 DEF OnceInv, ItemsOnce
  <2> QED BY <1>3, <1>4, <1>6, <2>2, <2>3 DEF OnceInv, Queued
<1>8. CASE c \in Pages
  <2>1. k.file \in Items /\ k.file \notin waiting[c]
    BY <1>8 DEF OnceInv, PagesOnce
  <2>2. EntriesOnce'
    <3> SUFFICES ASSUME NEW e \in Entries
                 PROVE  /\ call'[e].at # "none" => entry[e].status = "uploading"
                        /\ made'[e] + (IF Unmade(e)' THEN 1 ELSE 0) <= 1 + unsure'[e]
      BY DEF EntriesOnce
    <3>1. e \in LocalFiles \ {k.file} /\ call'[e] = call[e]
      BY <1>2, <1>8, <2>1, Apart
    <3>2. made'[e] = made[e] /\ unsure'[e] = unsure[e] /\ (Unmade(e)' <=> Unmade(e))
      BY <1>3, <1>4, <3>1 DEF Unmade
    <3> QED BY <3>1, <3>2 DEF OnceInv, EntriesOnce
  <2>3. ASSUME NEW i \in Items, NEW p \in Pages, MayStore(p, i)'
        PROVE  MayStore(p, i) /\ (p = c /\ i = k.file => j.at # "done")
    <3>1. CASE p = c
      BY <1>2, <2>1, <2>3, <3>1 DEF MayStore
    <3>2. CASE p # c
      BY <1>2, <2>3, <3>2, Apart DEF MayStore
    <3> QED BY <3>1, <3>2
  <2>4. ItemsOnce'
    <3> SUFFICES ASSUME NEW i \in Items
                 PROVE  made'[i] + Cardinality(Storers(i)') <= 1 + unsure'[i]
      BY DEF ItemsOnce
    <3>1. PICK S, T : S = Storers(i) /\ T = Storers(i)'
      OBVIOUS
    <3>2. S \in SUBSET Pages /\ T \in SUBSET Pages /\ T \subseteq S
      BY <2>3, <3>1 DEF Storers
    <3>3. Cardinality(S) \in Nat /\ Cardinality(T) \in Nat /\ Cardinality(T) <= Cardinality(S)
      BY <3>2, PagesCounted
    <3>4. made[i] + Cardinality(S) <= 1 + unsure[i] /\ made[i] \in Nat /\ unsure[i] \in Nat
      BY <3>1, Apart DEF OnceInv, ItemsOnce
    <3>5. CASE i # k.file
      <4>1. made'[i] = made[i] /\ unsure'[i] = unsure[i]
        BY <1>3, <1>4, <3>5, Apart
      <4> QED BY <3>1, <3>3, <3>4, <4>1
    <3>6. CASE i = k.file /\ j.at = "failed"
      <4>1. made'[i] = made[i] + 1 /\ unsure'[i] = unsure[i] + 1
        BY <1>3, <1>4, <3>6
      <4> QED BY <3>1, <3>3, <3>4, <4>1
    <3>7. CASE i = k.file /\ j.at = "done"
      <4>1. made'[i] = made[i] + 1 /\ unsure'[i] = unsure[i]
        BY <1>3, <1>4, <3>7
      <4>2. c \in S /\ T \subseteq S \ {c}
        <5>1. MayStore(c, i)
          BY <3>7 DEF MayStore
        <5>2. c \notin T
          BY <1>8, <2>3, <3>1, <3>7 DEF Storers
        <5> QED BY <1>8, <3>1, <3>2, <5>1, <5>2 DEF Storers
      <4>3. Cardinality(T) + 1 <= Cardinality(S)
        BY <3>2, <4>2, PagesCounted
      <4> QED BY <3>1, <3>3, <3>4, <4>1, <4>3
    <3> QED BY <3>5, <3>6, <3>7
  <2> QED BY <1>3, <1>4, <1>6, <2>2, <2>4 DEF OnceInv, Queued
<1> QED BY <1>7, <1>8 DEF Callers

\* Every step of a call.
LEMMA ProgressOnce ==
    ASSUME OnceInv, WholeInv', NEW c \in Callers, Progress(c) \/ Fault(c)
    PROVE  OnceInv'
<1>1. PICK k : k = call'[c]
  OBVIOUS
<1>2. call \in [Callers -> CallRecord] /\ call[c] \in CallRecord
  BY DEF OnceInv, WholeInv, Shape
<1>3. ASSUME NEW j \in CallRecord
      PROVE  Onward(j).file = j.file /\ Onward(j).at \in {"part", "complete"}
  BY DEF Onward, CallRecord
<1>4. CASE Info(c)
  <2>1. call'[c] = [call[c] EXCEPT !.at = "init", !.sess = 0]
        \/ call'[c] = Onward([call[c] EXCEPT !.done = session[call[c].sess].held])
    BY <1>2, <1>4 DEF Info
  <2>2. [call[c] EXCEPT !.done = session[call[c].sess].held] \in CallRecord
    <3>1. call[c].sess \in 1..Len(session) /\ session[call[c].sess] \in Session
      BY <1>4, Caller, Sessions DEF OnceInv, Info, Linked, Owner
    <3> QED BY <1>2, <3>1 DEF CallRecord, Session
  <2>3. k.file = call[c].file /\ k.at \in {"init", "part", "complete"}
    BY <1>1, <1>2, <1>3, <2>1, <2>2 DEF CallRecord
  <2>4. call' = [call EXCEPT ![c] = k]
    BY <1>1, <1>2, <1>4 DEF Info
  <2> QED BY <1>4, <2>3, <2>4, CallOnce DEF Info, queueVars, serverVars
<1>5. CASE Start(c)
  <2>1. [call[c] EXCEPT !.sess = Len(session) + 1] \in CallRecord
    <3>1. Len(session) + 1 \in Nat
      BY Sessions DEF OnceInv, WholeInv
    <3> QED BY <1>2, <3>1 DEF CallRecord
  <2>2. k = Onward([call[c] EXCEPT !.sess = Len(session) + 1]) /\ call' = [call EXCEPT ![c] = k]
    BY <1>1, <1>2, <1>5 DEF Start
  <2>3. k.file = call[c].file /\ k.at \in {"part", "complete"}
    BY <1>2, <1>3, <2>1, <2>2 DEF CallRecord
  <2> QED BY <1>5, <2>2, <2>3, CallOnce DEF Start, queueVars
<1>6. CASE Put(c)
  <2>1. NextPart(c) \in PartNumbers
    BY <1>6, Caller, NextIsPart DEF Put, OnceInv, Linked
  <2>2. [call[c] EXCEPT !.done = @ \cup {NextPart(c)}] \in CallRecord
    BY <1>2, <2>1 DEF CallRecord
  <2>3. k = Onward([call[c] EXCEPT !.done = @ \cup {NextPart(c)}]) /\ call' = [call EXCEPT ![c] = k]
    BY <1>1, <1>2, <1>6 DEF Put
  <2>4. k.file = call[c].file /\ k.at \in {"part", "complete"}
    BY <1>2, <1>3, <2>2, <2>3 DEF CallRecord
  <2> QED BY <1>6, <2>3, <2>4, CallOnce DEF Put, queueVars
<1>7. CASE Complete(c)
  <2> DEFINE j == [call[c] EXCEPT !.at = "done"]
  <2>1. j.at = "done" /\ j.file = call[c].file /\ call' = [call EXCEPT ![c] = j]
    BY <1>2, <1>7 DEF Complete, CallRecord
  <2> HIDE DEF j
  <2> QED BY <1>7, <2>1, CompleteOnce DEF Complete, Stored, queueVars
<1>8. CASE Fault(c)
  <2>1. k = Broken(c) /\ call' = [call EXCEPT ![c] = k]
    BY <1>1, <1>2, <1>8 DEF Fault
  <2>2. k.file = call[c].file /\ k.at \in {"init", "failed"}
        /\ (call[c].at = "complete" => k.at = "failed")
    BY <1>2, <2>1 DEF Broken, CallRecord
  <2>3. call[c].at \in {"info", "init", "part", "complete"}
        /\ UNCHANGED <<outbox, page, waiting, flush, flushed, entry>>
    BY <1>8 DEF Fault, queueVars
  <2>4. CASE UNCHANGED <<made, unsure>>
    BY <2>1, <2>2, <2>3, <2>4, CallOnce
  <2>5. CASE /\ call[c].at = "complete" /\ Stored(call[c])
             /\ unsure' = [unsure EXCEPT ![call[c].file] = @ + 1]
    BY <2>1, <2>2, <2>3, <2>5, CompleteOnce DEF Stored
  <2> QED BY <1>8, <2>4, <2>5 DEF Fault, serverVars
<1> QED BY <1>4, <1>5, <1>6, <1>7, <1>8 DEF Progress

\* Every step of an entry.
LEMMA EntryOnce ==
    ASSUME OnceInv, WholeInv', NEW e \in Entries, StartEntry(e) \/ Pause(e) \/ EndEntry(e)
    PROVE  OnceInv'
<1>1. /\ UNCHANGED <<outbox, page, waiting, flush, flushed, made, unsure>>
      /\ \A d \in Callers \ {e} : call'[d] = call[d]
      /\ \A d \in Entries \ {e} : entry'[d] = entry[d]
  BY DEF StartEntry, Pause, EndEntry, OnceInv, WholeInv, Shape, queueVars, serverVars
<1>2. PagesOnce'
  BY <1>1, Apart DEF OnceInv, PagesOnce
<1>3. ItemsOnce'
  <2>1. \A p \in Pages : call'[p] = call[p]
    BY <1>1, Apart
  <2>2. \A i \in Items : Storers(i)' \subseteq Storers(i)
    BY <1>1, <2>1 DEF Storers, MayStore
  <2> QED BY <1>1, <2>2, NoMore
<1>4. e \in Callers /\ entry[e] \in EntryRecord
      /\ call \in [Callers -> CallRecord] /\ entry \in [Entries -> EntryRecord]
  BY Apart DEF OnceInv, WholeInv, Shape
<1>5. (call'[e].at # "none" => entry'[e].status = "uploading") /\ (Unmade(e)' => Unmade(e))
  <2>1. CASE StartEntry(e)
    BY <1>4, <2>1 DEF StartEntry, EntryRecord, OnceInv, EntriesOnce, Unmade
  <2>2. CASE Pause(e)
    BY <1>4, <2>2 DEF Pause, NoCall, OnceInv, EntriesOnce, Unmade
  <2>3. CASE EndEntry(e)
    BY <1>4, <2>3 DEF EndEntry, EntryRecord, NoCall, OnceInv, EntriesOnce, Unmade
  <2> QED BY <2>1, <2>2, <2>3
<1>6. EntriesOnce'
  <2> SUFFICES ASSUME NEW d \in Entries
               PROVE  /\ call'[d].at # "none" => entry'[d].status = "uploading"
                      /\ made[d] + (IF Unmade(d)' THEN 1 ELSE 0) <= 1 + unsure[d]
    BY <1>1 DEF EntriesOnce
  <2>1. made[d] \in Nat /\ unsure[d] \in Nat /\ made[d] + (IF Unmade(d) THEN 1 ELSE 0) <= 1 + unsure[d]
    BY Apart DEF OnceInv, EntriesOnce
  <2>2. Unmade(d)' => Unmade(d)
    BY <1>1, <1>5, Apart DEF Unmade
  <2>3. call'[d].at # "none" => entry'[d].status = "uploading"
    BY <1>1, <1>5, Apart DEF OnceInv, EntriesOnce
  <2>4. CASE Unmade(d)'
    BY <2>1, <2>2, <2>3, <2>4
  <2>5. CASE ~Unmade(d)'
    <3>1. made[d] <= 1 + unsure[d]
      BY <2>1
    <3> QED BY <2>1, <2>3, <2>5, <3>1
  <2> QED BY <2>4, <2>5
<1> QED BY <1>1, <1>2, <1>3, <1>6 DEF OnceInv, Queued

\* The entries are left alone.
LEMMA EntriesStay ==
    ASSUME OnceInv, UNCHANGED <<entry, made>>, \A e \in Entries : call'[e] = call[e],
           \A e \in Entries : unsure'[e] = unsure[e]
    PROVE  EntriesOnce'
<1>1. \A e \in Entries : Unmade(e)' <=> Unmade(e)
  BY DEF Unmade
<1> QED BY <1>1 DEF OnceInv, EntriesOnce

\* Every step of a flush.
LEMMA FlushOnce ==
    ASSUME OnceInv, WholeInv', Queued', NEW p \in Pages,
           Trigger(p) \/ ReadQueue(p) \/ NextItem(p) \/ EndItem(p) \/ Clear(p)
    PROVE  OnceInv'
<1>0. /\ p \in Callers /\ p \notin Entries /\ page \in Pages
      /\ call \in [Callers -> CallRecord] /\ waiting \in [Pages -> SUBSET Items]
      /\ flush \in [Pages -> {"new", "idle", "reading", "uploading"}] /\ outbox \subseteq Items
      /\ flushed \in [Pages -> SUBSET Items] /\ flush[page] # "new"
      /\ NoCall.at = "none" /\ NoCall.file = Nothing /\ NoCall \in CallRecord
  BY Apart DEF OnceInv, WholeInv, Shape, Queued, PagesOnce, NoCall, CallRecord
<1>1. /\ UNCHANGED <<page, entry, made, unsure>>
      /\ \A q \in Pages \ {p} : /\ waiting'[q] = waiting[q] /\ flush'[q] = flush[q]
                                /\ flushed'[q] = flushed[q]
      /\ \A c \in Callers \ {p} : call'[c] = call[c]
      /\ outbox' \subseteq outbox
  BY <1>0 DEF Trigger, ReadQueue, NextItem, EndItem, Clear, serverVars
<1>2. \A q \in Pages \ {p} : call'[q] = call[q]
  BY <1>1, Apart
<1>3. \A e \in Entries : call'[e] = call[e]
  BY <1>0, <1>1, Apart
<1>4. EntriesOnce'
  BY <1>1, <1>3, EntriesStay
<1>5. ASSUME /\ flush' \in [Pages -> {"new", "idle", "reading", "uploading"}]
             /\ flushed' \in [Pages -> SUBSET Items] /\ flush'[p] # "new"
             /\ call'[p].at # "none" => call'[p].file \in Items \ waiting'[p]
             /\ flush'[p] # "uploading" => waiting'[p] = {} /\ call'[p].at = "none"
             /\ call'[p].at = "clear" => call'[p].file \in flushed'[p],
             \A i \in Items : MayStore(p, i)' => MayStore(p, i)
      PROVE  OnceInv'
  <2>1. PagesOnce'
    <3>1. page' \in Pages /\ flush'[page'] # "new"
      BY <1>0, <1>1, <1>5
    <3>2. ASSUME NEW q \in Pages
          PROVE  /\ call'[q].at # "none" => call'[q].file \in Items \ waiting'[q]
                 /\ flush'[q] # "uploading" => waiting'[q] = {} /\ call'[q].at = "none"
                 /\ call'[q].at = "clear" => call'[q].file \in flushed'[q]
      <4>1. CASE q = p
        BY <1>5, <4>1
      <4>2. CASE q # p
        BY <1>1, <1>2, <4>2 DEF OnceInv, PagesOnce
      <4> QED BY <4>1, <4>2
    <3> QED BY <1>5, <3>1, <3>2 DEF PagesOnce
  <2>2. ASSUME NEW i \in Items, NEW q \in Pages, MayStore(q, i)' PROVE MayStore(q, i)
    <3>1. CASE q = p
      BY <1>5, <2>2, <3>1
    <3>2. CASE q # p
      BY <1>1, <1>2, <2>2, <3>2 DEF MayStore
    <3> QED BY <3>1, <3>2
  <2>3. ItemsOnce'
    <3>1. \A i \in Items : Storers(i)' \subseteq Storers(i)
      BY <2>2 DEF Storers
    <3> QED BY <1>1, <3>1, NoMore
  <2> QED BY <1>1, <1>4, <2>1, <2>3 DEF OnceInv
<1>6. /\ call[p].at # "none" => call[p].file \in Items \ waiting[p]
      /\ flush[p] # "uploading" => waiting[p] = {} /\ call[p].at = "none"
      /\ call[p].at = "clear" => call[p].file \in flushed[p]
  BY DEF OnceInv, PagesOnce
<1>7. CASE Trigger(p)
  <2>1. UNCHANGED <<outbox, page, waiting, flushed, call>> /\ p = page /\ flush[p] = "idle"
        /\ flush' = [flush EXCEPT ![p] = "reading"]
    BY <1>7 DEF Trigger
  <2>2. \A i \in Items : MayStore(p, i)' => MayStore(p, i)
    BY <2>1 DEF MayStore
  <2> QED BY <1>0, <1>5, <1>6, <2>1, <2>2
<1>8. CASE ReadQueue(p)
  <2>1. /\ flush[p] = "reading" /\ UNCHANGED <<outbox, page, flushed, call>>
        /\ \/ waiting' = [waiting EXCEPT ![p] = outbox \ flushed[p]] /\ flush' = [flush EXCEPT ![p] = "uploading"]
           \/ flush' = [flush EXCEPT ![p] = "idle"] /\ UNCHANGED waiting
    BY <1>8 DEF ReadQueue
  <2>2. call[p].at = "none" /\ waiting[p] = {}
    BY <1>6, <2>1
  <2>3. /\ flush' \in [Pages -> {"new", "idle", "reading", "uploading"}] /\ flush'[p] \in {"idle", "uploading"}
        /\ flush'[p] # "uploading" => waiting'[p] = {}
        /\ waiting'[p] \subseteq outbox \ flushed[p]
    BY <1>0, <2>1, <2>2
  <2>4. \A i \in Items : MayStore(p, i)' => MayStore(p, i)
    BY <2>1, <2>2, <2>3 DEF MayStore
  <2> QED BY <1>0, <1>5, <2>1, <2>2, <2>3, <2>4
<1>9. CASE NextItem(p)
  <2>1. flush[p] = "uploading" /\ call[p].at = "none" /\ UNCHANGED <<outbox, page, flushed>>
    BY <1>9 DEF NextItem
  <2>2. CASE waiting[p] = {} /\ flush' = [flush EXCEPT ![p] = "idle"] /\ UNCHANGED <<waiting, call>>
    <3>1. flush' \in [Pages -> {"new", "idle", "reading", "uploading"}] /\ flush'[p] = "idle"
      BY <1>0, <2>2
    <3>2. \A i \in Items : MayStore(p, i)' => MayStore(p, i)
      BY <2>1, <2>2, <3>1 DEF MayStore
    <3> QED BY <1>0, <1>5, <2>1, <2>2, <3>1, <3>2
  <2>3. ASSUME NEW h \in waiting[p], waiting' = [waiting EXCEPT ![p] = @ \ {h}],
               call' = [call EXCEPT ![p] = Called(h, 0)], UNCHANGED flush
        PROVE  OnceInv'
    <3>1. call'[p].at = "init" /\ call'[p].file = h /\ h \in Items
      BY <1>0, <2>3 DEF Called
    <3>2. waiting'[p] = waiting[p] \ {h} /\ flush'[p] = "uploading"
      BY <1>0, <2>1, <2>3
    <3>3. \A i \in Items : MayStore(p, i)' => MayStore(p, i)
      BY <2>1, <2>3, <3>1, <3>2 DEF MayStore
    <3> QED BY <1>0, <1>5, <2>1, <2>3, <3>1, <3>2, <3>3
  <2> QED BY <1>9, <2>2, <2>3 DEF NextItem
<1>10. CASE EndItem(p)
  <2>1. UNCHANGED <<outbox, page, waiting, flush>> /\ call[p].at \in {"failed", "done"}
    BY <1>10 DEF EndItem
  <2>2. flush[p] = "uploading" /\ call[p].file \in Items
    BY <1>6, <2>1
  <2>3. CASE call[p].at = "failed" /\ call' = [call EXCEPT ![p] = NoCall] /\ UNCHANGED flushed
    <3>1. call'[p] = NoCall
      BY <1>0, <2>3
    <3>2. \A i \in Items : MayStore(p, i)' => MayStore(p, i)
      BY <1>0, <2>1, <2>3, <3>1, Apart DEF MayStore
    <3> QED BY <1>0, <1>5, <2>1, <2>2, <2>3, <3>1, <3>2
  <2>4. CASE /\ call[p].at = "done" /\ call' = [call EXCEPT ![p].at = "clear"]
             /\ flushed' = [flushed EXCEPT ![p] = @ \cup {call[p].file}]
    <3>1. call'[p].at = "clear" /\ call'[p].file = call[p].file
      BY <1>0, <2>4 DEF CallRecord
    <3>2. flushed' \in [Pages -> SUBSET Items] /\ flushed'[p] = flushed[p] \cup {call[p].file}
      BY <1>0, <2>2, <2>4
    <3>3. \A i \in Items : MayStore(p, i)' => MayStore(p, i)
      BY <2>1, <2>4, <3>1, <3>2 DEF MayStore
    <3> QED BY <1>0, <1>5, <1>6, <2>1, <2>2, <2>4, <3>1, <3>2, <3>3
  <2> QED BY <1>10, <2>3, <2>4 DEF EndItem
<1>11. CASE Clear(p)
  <2>1. /\ UNCHANGED <<page, waiting, flush, flushed>> /\ call[p].at = "clear"
        /\ call' = [call EXCEPT ![p] = NoCall]
    BY <1>11 DEF Clear
  <2>2. flush[p] = "uploading" /\ call[p].file \in flushed[p] /\ call'[p] = NoCall
    BY <1>0, <1>6, <2>1
  <2>3. \A i \in Items : MayStore(p, i)' => MayStore(p, i)
    BY <1>0, <1>1, <2>1, <2>2, Apart DEF MayStore
  <2> QED BY <1>0, <1>5, <2>1, <2>2, <2>3
<1> QED BY <1>7, <1>8, <1>9, <1>10, <1>11

\* An item joins the queue: the mounted page will find it, and whoever is about to read.
LEMMA EnqueueOnce ==
    ASSUME OnceInv, WholeInv', Queued', NEW h \in Items, Enqueue(h)
    PROVE  OnceInv'
<1> DEFINE R == {p \in Pages \ {page} : flush[p] = "reading"}
<1>1. /\ UNCHANGED <<page, waiting, flush, flushed, call, entry, made>> /\ outbox' = outbox \cup {h}
      /\ made[h] = 0 /\ unsure' = [unsure EXCEPT ![h] = Cardinality(R)]
      /\ \A c \in Callers : call[c].file # h
      /\ \A p \in Pages : h \notin flushed[p] \cup waiting[p]
  BY DEF Enqueue
<1>2. page \in Pages /\ unsure \in [LocalFiles -> Nat] /\ h \in LocalFiles
  BY Apart DEF OnceInv, PagesOnce
<1>3. R \in SUBSET Pages /\ Cardinality(R) \in Nat
  <2>1. R \in SUBSET Pages
    OBVIOUS
  <2> QED BY <2>1, PagesCounted
<1>4. /\ unsure' \in [LocalFiles -> Nat] /\ unsure'[h] = Cardinality(R)
      /\ \A f \in LocalFiles \ {h} : unsure'[f] = unsure[f]
  BY <1>1, <1>2, <1>3
<1>5. EntriesOnce'
  <2>1. \A e \in Entries : unsure'[e] = unsure[e]
    BY <1>4, Apart
  <2> QED BY <1>1, <2>1, EntriesStay
<1>6. PagesOnce'
  BY <1>1 DEF OnceInv, PagesOnce
<1>7. ItemsOnce'
  <2> SUFFICES ASSUME NEW i \in Items PROVE made[i] + Cardinality(Storers(i)') <= 1 + unsure'[i]
    BY <1>1 DEF ItemsOnce
  <2>1. CASE i = h
    <3>1. PICK T : T = Storers(h)'
      OBVIOUS
    <3>2. T \subseteq R \cup {page}
      BY <1>1, <3>1, Apart DEF Storers, MayStore
    <3>3. T \in SUBSET Pages
      BY <3>1 DEF Storers
    <3> HIDE DEF R
    <3>4. Cardinality(T) \in Nat /\ Cardinality(T) <= Cardinality(R) + 1
      BY <1>2, <1>3, <3>2, <3>3, PagesCounted
    <3> QED BY <1>1, <1>3, <1>4, <2>1, <3>1, <3>4
  <2>2. CASE i # h
    <3>1. unsure'[i] = unsure[i]
      BY <1>4, <2>2, Apart
    <3>2. Storers(i)' = Storers(i)
      BY <1>1, <2>2 DEF Storers, MayStore
    <3> QED BY <3>1, <3>2 DEF OnceInv, ItemsOnce
  <2> QED BY <2>1, <2>2
<1> QED BY <1>1, <1>4, <1>5, <1>6, <1>7 DEF OnceInv

\* Another page is mounted: it may store what the one before has done or may do.
LEMMA RemountOnce ==
    ASSUME OnceInv, WholeInv', Queued', NEW p \in Pages, Remount(p)
    PROVE  OnceInv'
<1> DEFINE M == MayStill(page)
<1>1. /\ flush[p] = "new" /\ page' = p /\ flush' = [flush EXCEPT ![p] = IF online THEN "reading" ELSE "idle"]
      /\ unsure' = [f \in LocalFiles |-> IF f \in M THEN unsure[f] + 1 ELSE unsure[f]]
      /\ UNCHANGED <<outbox, waiting, flushed, call, entry, made>>
  BY DEF Remount, LocalFiles
<1>2. /\ page \in Pages /\ flush \in [Pages -> {"new", "idle", "reading", "uploading"}]
      /\ flush[page] # "new" /\ unsure \in [LocalFiles -> Nat] /\ outbox \subseteq Items
      /\ waiting[p] = {} /\ call[p].at = "none"
  BY <1>1 DEF OnceInv, PagesOnce, Queued
<1>3. M \subseteq outbox /\ p # page
  BY <1>1, <1>2 DEF MayStill
<1>4. /\ unsure' \in [LocalFiles -> Nat]
      /\ \A f \in LocalFiles \ M : unsure'[f] = unsure[f]
      /\ \A f \in M : unsure'[f] = unsure[f] + 1
  <2>1. M \subseteq LocalFiles
    BY <1>2, <1>3, Apart
  <2> HIDE DEF M
  <2> QED BY <1>1, <1>2, <2>1
<1>5. EntriesOnce'
  <2>1. \A e \in Entries : unsure'[e] = unsure[e]
    <3>1. \A e \in Entries : e \in LocalFiles \ M
      BY <1>2, <1>3, Apart
    <3> QED BY <1>4, <3>1
  <2> QED BY <1>1, <2>1, EntriesStay
<1>6. flush' \in [Pages -> {"new", "idle", "reading", "uploading"}] /\ flush'[p] \in {"idle", "reading"}
      /\ \A q \in Pages \ {p} : flush'[q] = flush[q]
  BY <1>1, <1>2
<1>7. PagesOnce'
  BY <1>1, <1>2, <1>6 DEF OnceInv, PagesOnce
<1>8. ASSUME NEW i \in Items
      PROVE  /\ Storers(i)' \subseteq Storers(i) \cup {p}
             /\ i \notin outbox => Storers(i)' \subseteq Storers(i)
             /\ i \in outbox \ M => /\ page \in Storers(i)
                                    /\ Storers(i)' \subseteq (Storers(i) \ {page}) \cup {p}
  <2>1. ASSUME NEW q \in Pages \ {p}, MayStore(q, i)' PROVE MayStore(q, i)
    BY <1>1, <1>6, <2>1 DEF MayStore
  <2>2. MayStore(p, i)' => i \in outbox
    BY <1>1, <1>2 DEF MayStore
  <2>3. PICK was \in Pages : was = page
    BY <1>2
  <2>4. i \in outbox \ M => MayStore(was, i) /\ ~MayStore(was, i)'
    <3> SUFFICES ASSUME i \in outbox, i \notin M PROVE MayStore(was, i) /\ ~MayStore(was, i)'
      OBVIOUS
    <3>1. i \notin waiting[was] /\ i \notin flushed[was] /\ call[was].file # i /\ flush[was] # "reading"
      BY <2>3 DEF MayStill
    <3>2. flush'[was] = flush[was] /\ was # page'
      BY <1>1, <1>2, <1>3, <1>6, <2>3
    <3> HIDE DEF M
    <3>3. MayStore(was, i)
      BY <2>3, <3>1 DEF MayStore
    <3>4. /\ i \notin waiting'[was] /\ call'[was].file # i
          /\ ~(was = page' \/ flush'[was] = "reading")
      BY <1>1, <3>1, <3>2
    <3>5. ~MayStore(was, i)'
      BY <3>4 DEF MayStore
    <3> QED BY <3>3, <3>5
  <2> HIDE DEF M
  <2>5. Storers(i)' \subseteq Storers(i) \cup {p}
    BY <2>1 DEF Storers
  <2>6. i \notin outbox => p \notin Storers(i)'
    BY <2>2 DEF Storers
  <2>7. i \in outbox \ M => page \in Storers(i) /\ page \notin Storers(i)'
    BY <2>3, <2>4 DEF Storers
  <2> QED BY <2>5, <2>6, <2>7
<1>9. ItemsOnce'
  <2> SUFFICES ASSUME NEW i \in Items PROVE made[i] + Cardinality(Storers(i)') <= 1 + unsure'[i]
    BY <1>1 DEF ItemsOnce
  <2>1. PICK S, T : S = Storers(i) /\ T = Storers(i)'
    OBVIOUS
  <2>2. S \in SUBSET Pages /\ T \in SUBSET Pages
    BY <2>1 DEF Storers
  <2>3. Cardinality(S) \in Nat /\ Cardinality(T) \in Nat
    BY <2>2, PagesCounted
  <2>4. made[i] + Cardinality(S) <= 1 + unsure[i] /\ made[i] \in Nat /\ unsure[i] \in Nat /\ i \in LocalFiles
    BY <2>1, Apart DEF OnceInv, ItemsOnce
  <2> HIDE DEF M
  <2>5. CASE i \in M
    <3>1. Cardinality(T) <= Cardinality(S) + 1
      BY <1>8, <2>1, <2>2, PagesCounted
    <3>2. unsure'[i] = unsure[i] + 1
      BY <1>4, <2>5
    <3> QED BY <2>1, <2>3, <2>4, <3>1, <3>2
  <2>6. CASE i \notin M
    <3>1. Cardinality(T) <= Cardinality(S)
      BY <1>8, <2>1, <2>2, <2>6, PagesCounted
    <3>2. unsure'[i] = unsure[i]
      BY <1>4, <2>4, <2>6
    <3> QED BY <2>1, <2>3, <2>4, <3>1, <3>2
  <2> QED BY <2>5, <2>6
<1> QED BY <1>1, <1>4, <1>5, <1>7, <1>9 DEF OnceInv

\* The network comes and goes.
LEMMA RestOnce ==
    ASSUME OnceInv, WholeInv', Queued', GoOnline \/ GoOffline \/ UNCHANGED clientVars
    PROVE  OnceInv'
<1>1. UNCHANGED <<outbox, page, waiting, flushed, call, entry, made, unsure>>
  BY DEF GoOnline, GoOffline, clientVars, queueVars, serverVars
<1>2. flush' = flush \/ (flush[page] = "idle" /\ flush' = [flush EXCEPT ![page] = "reading"])
  BY DEF GoOnline, GoOffline, clientVars, queueVars
<1>3. /\ page \in Pages /\ flush \in [Pages -> {"new", "idle", "reading", "uploading"}]
      /\ flush[page] = "idle" => waiting[page] = {} /\ call[page].at = "none"
  BY DEF OnceInv, PagesOnce
<1>4. /\ flush' \in [Pages -> {"new", "idle", "reading", "uploading"}]
      /\ \A q \in Pages \ {page} : flush'[q] = flush[q]
      /\ flush'[page] = flush[page] \/ (flush[page] = "idle" /\ flush'[page] = "reading")
  BY <1>2, <1>3
<1>5. PagesOnce'
  BY <1>1, <1>3, <1>4 DEF OnceInv, PagesOnce
<1>6. \A i \in Items : Storers(i)' \subseteq Storers(i)
  BY <1>1, <1>4 DEF Storers, MayStore
<1>7. ItemsOnce' /\ EntriesOnce'
  BY <1>1, <1>6, NoMore, EntriesStay
<1> QED BY <1>1, <1>5, <1>7 DEF OnceInv

\* Every step keeps the invariant.
LEMMA StepOnce == OnceInv /\ [ClientNext]_clientVars => OnceInv'
<1> SUFFICES ASSUME OnceInv, [ClientNext]_clientVars PROVE OnceInv'
  OBVIOUS
<1>1. WholeInv' /\ Queued'
  BY StepWhole, StepQueued DEF OnceInv
<1>2. ASSUME NEW p \in Pages, Queue(p) PROVE OnceInv'
  BY <1>1, <1>2, FlushOnce, RemountOnce DEF Queue
<1>3. ASSUME NEW e \in Entries, Progress(e) \/ Fault(e) \/ StartEntry(e) \/ Pause(e) \/ EndEntry(e)
      PROVE  OnceInv'
  BY <1>1, <1>3, Apart, ProgressOnce, EntryOnce
<1>4. ASSUME NEW p \in Pages, Progress(p) \/ Fault(p) PROVE OnceInv'
  BY <1>1, <1>4, Apart, ProgressOnce
<1>5. ASSUME NEW i \in Items, Enqueue(i) PROVE OnceInv'
  BY <1>1, <1>5, EnqueueOnce
<1>6. CASE GoOnline \/ GoOffline \/ UNCHANGED clientVars
  BY <1>1, <1>6, RestOnce
<1> QED BY <1>2, <1>3, <1>4, <1>5, <1>6 DEF ClientNext, EntryNext, OutboxNext

\* The start.
LEMMA InitOnce == ClientInit => OnceInv
<1> SUFFICES ASSUME ClientInit PROVE OnceInv
  OBVIOUS
<1>1. WholeInv /\ Queued
  BY InitWhole DEF ClientInit, Queued
<1>2. /\ made = [f \in LocalFiles |-> 0] /\ unsure = [f \in LocalFiles |-> 0] /\ outbox = {}
      /\ \A c \in Callers : call[c].at = "none" /\ call[c].file = Nothing
      /\ \A p \in Pages : waiting[p] = {}
  BY DEF ClientInit, LocalFiles, NoCall
<1>3. EntriesOnce
  BY <1>2, Apart DEF ClientInit, EntriesOnce, Unmade
<1>4. flush \in [Pages -> {"new", "idle", "reading", "uploading"}] /\ flush[page] # "new" /\ page \in Pages
  <2>1. \A p \in Pages : flush[p] \in {"new", "idle", "reading", "uploading"} /\ (p = page => flush[p] # "new")
    <3> TAKE p \in Pages
    <3>1. CASE p # page
      BY <3>1 DEF ClientInit
    <3>2. CASE p = page /\ online
      BY <3>2 DEF ClientInit
    <3>3. CASE p = page /\ ~online
      BY <3>3 DEF ClientInit
    <3> QED BY <3>1, <3>2, <3>3
  <2>2. flush = [p \in Pages |-> flush[p]]
    BY DEF ClientInit
  <2>3. page \in Pages
    BY DEF ClientInit
  <2> QED BY <2>1, <2>2, <2>3
<1>5. PagesOnce
  BY <1>2, <1>4, Apart DEF ClientInit, PagesOnce
<1>6. ItemsOnce
  <2> SUFFICES ASSUME NEW i \in Items PROVE made[i] + Cardinality(Storers(i)) <= 1 + unsure[i]
    BY DEF ItemsOnce
  <2>1. Storers(i) = {}
    BY <1>2, Apart DEF Storers, MayStore
  <2> QED BY <1>2, <2>1, Apart, FS_EmptySet
<1> QED BY <1>1, <1>2, <1>3, <1>5, <1>6 DEF OnceInv

\* However often an upload is paused, fails, is tried again and the queue flushed,
\* a file becomes one File row, and one more at most for every completion whose
\* answer was lost and every remount that could not know what the page before had
\* done (the guards of flushOutbox and startEntry in Uploader.jsx).
THEOREM FilesUploadedOnce == ClientSpec => []UploadedOnce
<1>1. OnceInv => UploadedOnce
  <2> SUFFICES ASSUME OnceInv, NEW f \in Items \cup Entries PROVE made[f] <= 1 + unsure[f]
    BY DEF UploadedOnce
  <2>1. made[f] \in Nat /\ unsure[f] \in Nat
    BY DEF OnceInv, LocalFiles
  <2>2. CASE f \in Items
    <3>1. PICK S : S = Storers(f)
      OBVIOUS
    <3>2. S \in SUBSET Pages
      BY <3>1 DEF Storers
    <3>3. Cardinality(S) \in Nat
      BY <3>2, PagesCounted
    <3>4. made[f] + Cardinality(S) <= 1 + unsure[f]
      BY <2>2, <3>1 DEF OnceInv, ItemsOnce
    <3> QED BY <2>1, <3>3, <3>4
  <2>3. CASE f \in Entries
    <3>1. made[f] + (IF Unmade(f) THEN 1 ELSE 0) <= 1 + unsure[f]
      BY <2>3 DEF OnceInv, EntriesOnce
    <3> QED BY <2>1, <3>1
  <2> QED BY <2>2, <2>3
<1>2. OnceInv /\ [ClientNext]_clientVars => OnceInv'
  BY StepOnce
<1> QED BY InitOnce, <1>1, <1>2, PTL DEF ClientSpec

-----------------------------------------------------------------------------
\* The texts there can be.
Known == SUBSET (typed \cup {Original})

EditorShape ==
    /\ typed \subseteq Edits
    /\ seat \in [Editors -> {"away", "joining", "live", "closed", "gone"}]
    /\ doc \in [Editors -> Known] /\ lastSaved \in [Editors -> Known \cup {NoText}]
    /\ timer \in [Editors -> BOOLEAN] /\ saving \in [Editors -> SUBSET Known]
    /\ room \in Known \cup {NoText} /\ seed \in Known \cup {NoText}
    /\ (\E e \in Editors : seat[e] = "live") => room \in Known
    /\ current \in Known

\* What an editor has saved or is saving is in the text it shows, which grows.
Growing(e) ==
    /\ seat[e] = "away" => saving[e] = {}
    /\ seat[e] = "live" => lastSaved[e] \in Known /\ lastSaved[e] \subseteq doc[e]
    /\ IsOpen(e) => \A text \in saving[e] : text \subseteq doc[e]

\* An edit is safe by the editor of the user who typed it: stored, reported, on its
\* way, or in a text that this editor knows to be unsaved.
Delivered(x) == x \in kept \cup warned \cup UNION saving[By[x]]
EditSafe(x) ==
    \/ seat[By[x]] = "gone"
    \/ Delivered(x)
    \/ seat[By[x]] = "live" /\ x \in doc[By[x]] /\ lastSaved[By[x]] # doc[By[x]]

EditInv == EditorShape /\ (\A e \in Editors : Growing(e)) /\ \A x \in typed : EditSafe(x)

\* Nobody has typed anything yet.
LEMMA EditsBegin == CollabInit => EditInv
  BY DEF CollabInit, EditInv, EditorShape, Known, Growing, IsOpen, EditSafe

\* An edit that is safe stays so if its editor stays as it was and nothing stored
\* goes.
LEMMA SafeApart ==
    ASSUME EditInv, NEW x \in typed, kept \subseteq kept', warned \subseteq warned',
           LET a == By[x] IN seat'[a] = seat[a] /\ doc'[a] = doc[a]
                              /\ lastSaved'[a] = lastSaved[a] /\ saving[a] \subseteq saving'[a]
    PROVE  EditSafe(x)'
  BY DEF EditInv, EditSafe, Delivered

\* The relay's document changes; the editors do not.
LEMMA RelayKeeps ==
    ASSUME EditInv, Seed \/ \E e \in Editors : Send(e) PROVE EditInv'
<1>1. EditorShape'
  BY DEF EditInv, EditorShape, Known, Seed, Send
<1>2. UNCHANGED <<seat, doc, lastSaved, timer, saving, current, kept, typed, warned, drops>>
  BY DEF Seed, Send
<1>3. \A e \in Editors : Growing(e)'
  BY <1>2 DEF EditInv, Growing, IsOpen, Known
<1>4. \A x \in typed : EditSafe(x)'
  BY <1>2, SafeApart
<1> QED BY <1>1, <1>2, <1>3, <1>4 DEF EditInv

\* Somebody opens the text.
LEMMA OpensKeeps ==
    ASSUME EditInv, NEW e \in Editors, Opens(e) PROVE EditInv'
<1>1. EditorShape'
  BY DEF EditInv, EditorShape, Known, Opens
<1>2. \A d \in Editors : Growing(d)'
  BY DEF EditInv, EditorShape, Growing, IsOpen, Known, Opens
<1>3. \A x \in typed : EditSafe(x)'
  BY DEF EditInv, EditorShape, EditSafe, Delivered, Opens
<1> QED BY <1>1, <1>2, <1>3 DEF EditInv, Opens

\* What an editor gets as it joins counts as saved: nothing of its user's is
\* waiting by then.
LEMMA SyncKeeps ==
    ASSUME EditInv, NEW e \in Editors, Sync(e) PROVE EditInv'
<1> DEFINE text == doc[e] \cup (IF room = NoText THEN {} ELSE room)
<1>0. text \in Known /\ doc[e] \subseteq text
  BY DEF EditInv, EditorShape, Known
<1>1. EditorShape'
  BY <1>0 DEF EditInv, EditorShape, Known, Sync, Enter
<1>2. \A d \in Editors : Growing(d)'
  BY <1>0 DEF EditInv, EditorShape, Growing, IsOpen, Known, Sync, Enter
<1>3. \A x \in typed : EditSafe(x)'
  BY DEF EditInv, EditorShape, EditSafe, Delivered, Sync, Enter
<1> QED BY <1>1, <1>2, <1>3 DEF EditInv, Sync

\* A new edit makes the text differ from the one that is stored.
LEMMA TypeKeeps ==
    ASSUME EditInv, Calm, NEW e \in Editors, NEW x \in Edits, Type(e, x) PROVE EditInv'
<1>1. seat[e] = "live" /\ By[x] = e /\ x \notin typed /\ typed' = typed \cup {x}
  BY DEF Type
<1>2. doc' = [doc EXCEPT ![e] = doc[e] \cup {x}]
      /\ UNCHANGED <<seat, lastSaved, saving, room, seed, current, kept, warned>>
  BY DEF Type, Changed
<1>3. EditorShape'
  BY <1>1, <1>2 DEF EditInv, EditorShape, Known, Type, Changed
<1>4. \A d \in Editors : Growing(d)'
  BY <1>1, <1>2 DEF EditInv, EditorShape, Growing, IsOpen, Known
<1>5. x \notin lastSaved[e]
  BY <1>1, CollabAssumption DEF EditInv, Growing, Known
<1>6. lastSaved'[e] # doc'[e] /\ x \in doc'[e]
  BY <1>1, <1>2, <1>5 DEF EditInv, EditorShape
<1>7. ASSUME NEW y \in typed' PROVE EditSafe(y)'
  <2>1. CASE By[y] = e /\ y \in doc'[e]
    BY <1>1, <1>2, <1>6, <2>1 DEF EditSafe
  <2>2. CASE By[y] = e /\ y \notin doc'[e]
    BY <1>1, <1>2, <1>6, <2>2 DEF EditInv, EditorShape, EditSafe, Delivered
  <2>3. CASE By[y] # e
    BY <1>1, <1>2, <2>3, SafeApart, CollabAssumption DEF EditInv, EditorShape
  <2> QED BY <2>1, <2>2, <2>3
<1> QED BY <1>3, <1>4, <1>7 DEF EditInv

\* So do edits of others.
LEMMA ReceiveKeeps ==
    ASSUME EditInv, NEW e \in Editors, Receive(e) PROVE EditInv'
<1>1. seat[e] = "live" /\ ~(room \subseteq doc[e]) /\ room \in Known
  BY DEF EditInv, EditorShape, Receive
<1>2. doc' = [doc EXCEPT ![e] = doc[e] \cup room]
      /\ UNCHANGED <<seat, lastSaved, saving, room, seed, current, kept, typed, warned>>
  BY DEF Receive, Changed
<1>3. EditorShape'
  BY <1>1, <1>2 DEF EditInv, EditorShape, Known, Receive, Changed
<1>4. \A d \in Editors : Growing(d)'
  BY <1>1, <1>2 DEF EditInv, EditorShape, Growing, IsOpen, Known
<1>5. lastSaved'[e] # doc'[e] /\ doc[e] \subseteq doc'[e]
  BY <1>1, <1>2 DEF EditInv, EditorShape, Growing
<1>6. ASSUME NEW y \in typed PROVE EditSafe(y)'
  <2>1. CASE By[y] = e
    BY <1>1, <1>2, <1>5, <2>1 DEF EditInv, EditSafe, Delivered
  <2>2. CASE By[y] # e
    BY <1>2, <2>2, SafeApart, CollabAssumption DEF EditInv, EditorShape
  <2> QED BY <2>1, <2>2
<1> QED BY <1>2, <1>3, <1>4, <1>6 DEF EditInv

\* A save sends what the editor shows.
LEMMA SaveKeeps ==
    ASSUME EditInv, NEW e \in Editors, Autosave(e) \/ SaveNow(e) PROVE EditInv'
<1>1. UNCHANGED <<seat, doc, lastSaved, room, seed, current, kept, typed, warned>>
      /\ timer' \in [Editors -> BOOLEAN] /\ IsOpen(e)
  BY DEF Autosave, SaveNow, EditInv, EditorShape
<1>2. saving' = saving \/ saving' = [saving EXCEPT ![e] = @ \cup {doc[e]}]
  BY DEF Autosave, SaveNow, Saves
<1>3. EditorShape'
  BY <1>1, <1>2 DEF EditInv, EditorShape, Known
<1>4. \A d \in Editors : Growing(d)'
  BY <1>1, <1>2 DEF EditInv, EditorShape, Growing, IsOpen, Known
<1>5. \A d \in Editors : saving[d] \subseteq saving'[d]
  BY <1>2 DEF EditInv, EditorShape
<1>6. \A x \in typed : EditSafe(x)'
  BY <1>1, <1>5, SafeApart, CollabAssumption DEF EditInv, EditorShape
<1> QED BY <1>1, <1>3, <1>4, <1>6 DEF EditInv

\* An editor that goes leaves the others and, with none of them, the room.
LEMMA EndsShape ==
    ASSUME EditInv, NEW e \in Editors, NEW how \in {"closed", "gone"}, Ends(e, how),
           saving' \in [Editors -> SUBSET Known], UNCHANGED <<current, kept, typed, warned>>,
           \A d \in Editors : d # e => saving'[d] = saving[d]
    PROVE  EditorShape' /\ (\A d \in Editors : Growing(d)')
           /\ \A x \in typed : By[x] # e => EditSafe(x)'
<1>1. EditorShape'
  BY DEF EditInv, EditorShape, Known, Ends, Leaves, Joined
<1>2. \A d \in Editors : Growing(d)'
  BY DEF EditInv, EditorShape, Growing, IsOpen, Known, Ends
<1>3. ASSUME NEW x \in typed, By[x] # e PROVE EditSafe(x)'
  BY <1>3, SafeApart, CollabAssumption DEF EditInv, EditorShape, Ends
<1> QED BY <1>1, <1>2, <1>3

\* Who closes the text in sync sends what is unsaved, leader or not.
LEMMA ClosesKeeps ==
    ASSUME EditInv, Calm, NEW e \in Editors, Closes(e) PROVE EditInv'
<1>1. seat[e] = "live" /\ Ends(e, "closed") /\ UNCHANGED <<current, kept, typed, warned>>
  BY DEF Closes, Closing
<1>2. \/ saving' = saving /\ doc[e] = lastSaved[e]
      \/ saving' = [saving EXCEPT ![e] = @ \cup {doc[e]}]
  BY DEF Closes, Saves
<1>3. saving' \in [Editors -> SUBSET Known] /\ \A d \in Editors : d # e => saving'[d] = saving[d]
  BY <1>2 DEF EditInv, EditorShape
<1>4. EditorShape' /\ (\A d \in Editors : Growing(d)') /\ \A x \in typed : By[x] # e => EditSafe(x)'
  BY <1>1, <1>3, EndsShape
<1>5. ASSUME NEW x \in typed, By[x] = e PROVE EditSafe(x)'
  <2>1. CASE doc[e] = lastSaved[e] /\ saving' = saving
    BY <1>1, <1>5, <2>1 DEF EditInv, EditSafe, Delivered
  <2>2. CASE saving' = [saving EXCEPT ![e] = @ \cup {doc[e]}]
    <3>1. doc[e] \in saving'[e] /\ saving[e] \subseteq saving'[e]
      BY <2>2 DEF EditInv, EditorShape
    <3>2. Delivered(x) \/ x \in doc[e]
      BY <1>1, <1>5 DEF EditInv, EditSafe
    <3>3. Delivered(x)'
      BY <1>1, <1>5, <3>1, <3>2 DEF Delivered
    <3> QED BY <3>3 DEF EditSafe
  <2> QED BY <1>2, <2>1, <2>2
<1> QED BY <1>1, <1>4, <1>5 DEF EditInv

\* What dies with its tab is not held against the editor.
LEMMA DiesKeeps ==
    ASSUME EditInv, NEW e \in Editors, Dies(e) PROVE EditInv'
<1>1. Ends(e, "gone") /\ saving' = [saving EXCEPT ![e] = {}] /\ UNCHANGED <<current, kept, typed, warned>>
  BY DEF Dies
<1>2. saving' \in [Editors -> SUBSET Known] /\ \A d \in Editors : d # e => saving'[d] = saving[d]
  BY <1>1 DEF EditInv, EditorShape
<1>3. EditorShape' /\ (\A d \in Editors : Growing(d)') /\ \A x \in typed : By[x] # e => EditSafe(x)'
  BY <1>1, <1>2, EndsShape
<1>4. seat'[e] = "gone"
  BY <1>1 DEF Ends, EditInv, EditorShape
<1>5. \A x \in typed : EditSafe(x)'
  BY <1>3, <1>4 DEF EditSafe
<1> QED BY <1>1, <1>3, <1>5 DEF EditInv

\* A connection that is lost with nothing unsaved loses nothing.
LEMMA DisconnectsKeeps ==
    ASSUME EditInv, Calm, NEW e \in Editors, Disconnects(e) PROVE EditInv'
<1>1. seat[e] = "live" /\ seat' = [seat EXCEPT ![e] = "joining"] /\ Leaves(e) /\ lastSaved[e] = doc[e]
      /\ UNCHANGED <<doc, lastSaved, timer, saving, current, kept, typed, warned>>
  BY DEF Disconnects, Unsaved, IsOpen
<1>2. EditorShape'
  BY <1>1 DEF EditInv, EditorShape, Known, Leaves, Joined
<1>3. \A d \in Editors : Growing(d)'
  BY <1>1 DEF EditInv, EditorShape, Growing, IsOpen, Known
<1>4. ASSUME NEW x \in typed PROVE EditSafe(x)'
  <2>1. CASE By[x] = e
    BY <1>1, <2>1 DEF EditInv, EditSafe, Delivered
  <2>2. CASE By[x] # e
    BY <1>1, <2>2, SafeApart, CollabAssumption DEF EditInv, EditorShape
  <2> QED BY <2>1, <2>2
<1> QED BY <1>1, <1>2, <1>3, <1>4 DEF EditInv

\* An answer makes a text stored or its edits reported; an older text that is
\* stored leaves the editor unsaved.
LEMMA AnswerKeeps ==
    ASSUME EditInv, NEW e \in Editors, NEW text \in saving[e], SaveServed(e, text) \/ SaveRefused(e, text)
    PROVE  EditInv'
<1>1. saving' = [saving EXCEPT ![e] = @ \ {text}] /\ UNCHANGED <<seat, doc, timer, room, seed, typed>>
  BY DEF SaveServed, SaveRefused
<1>2. text \in Known /\ text \cap typed \subseteq kept' \cup warned' /\ kept \subseteq kept' /\ warned \subseteq warned'
  BY DEF SaveServed, SaveRefused, EditInv, EditorShape
<1>3. \/ lastSaved' = lastSaved
      \/ IsOpen(e) /\ text \subseteq kept' /\ lastSaved' = [lastSaved EXCEPT ![e] = text]
  BY DEF SaveServed, SaveRefused
<1>4. current' \in Known
  BY <1>2 DEF SaveServed, SaveRefused, EditInv, EditorShape
<1>5. EditorShape'
  BY <1>1, <1>2, <1>3, <1>4 DEF EditInv, EditorShape, Known
<1>6. \A d \in Editors : Growing(d)'
  BY <1>1, <1>2, <1>3 DEF EditInv, EditorShape, Growing, IsOpen, Known
<1>7. ASSUME NEW x \in typed PROVE EditSafe(x)'
  <2>1. CASE By[x] # e
    BY <1>1, <1>2, <1>3, <2>1, SafeApart, CollabAssumption DEF EditInv, EditorShape
  <2>2. CASE By[x] = e /\ Delivered(x)
    <3>1. x \in kept \cup warned \/ x \in text \/ \E late \in saving[e] \ {text} : x \in late
      BY <2>2 DEF Delivered
    <3>2. saving'[e] = saving[e] \ {text}
      BY <1>1 DEF EditInv, EditorShape
    <3>3. Delivered(x)'
      BY <1>2, <2>2, <3>1, <3>2 DEF Delivered
    <3> QED BY <3>3 DEF EditSafe
  <2>3. CASE By[x] = e /\ ~Delivered(x)
    BY <1>1, <1>2, <1>3, <2>3 DEF EditInv, EditorShape, EditSafe, Delivered
  <2> QED BY <2>1, <2>2, <2>3
<1> QED BY <1>1, <1>5, <1>6, <1>7 DEF EditInv

\* Every step of every editor keeps every edit safe.
LEMMA EditsKeep ==
    ASSUME Calm PROVE EditInv /\ [CollabNext]_collabVars => EditInv'
<1> SUFFICES ASSUME EditInv, [CollabNext]_collabVars PROVE EditInv'
  OBVIOUS
<1>1. CASE UNCHANGED collabVars
  BY <1>1 DEF collabVars, EditInv, EditorShape, Known, Growing, IsOpen, EditSafe, Delivered
<1>2. CASE CollabNext
  BY <1>2, RelayKeeps, OpensKeeps, SyncKeeps, TypeKeeps, ReceiveKeeps, SaveKeeps, ClosesKeeps, DiesKeeps,
     DisconnectsKeeps, AnswerKeeps DEF CollabNext
<1> QED BY <1>1, <1>2

\* No edit of a text that people edit together is lost unreported, whoever closes,
\* drops out or dies and however saves overtake each other, while users type and
\* leave in sync and connections fail with nothing unsaved (doSave and the closing
\* flush of CollabEditor.jsx).
THEOREM EditsAreKept ==
    ASSUME Calm PROVE CollabSpec => []NoEditLost
<1>1. EditInv => NoEditLost
  BY CollabAssumption DEF EditInv, EditorShape, EditSafe, Delivered, NoEditLost, Unsaved, IsOpen
<1>2. EditInv /\ [CollabNext]_collabVars => EditInv'
  BY EditsKeep
<1> QED BY <1>1, <1>2, EditsBegin, PTL DEF CollabSpec

-----------------------------------------------------------------------------
(* The rooms of the game server *)

\* Taking an element from a sequence that holds it once.
LEMMA RemovedFirst ==
    ASSUME NEW S, NEW s \in Seq(S), NEW e, IsInjective(s)
    PROVE  /\ RemoveFirst(s, e) \in Seq(S) /\ IsInjective(RemoveFirst(s, e))
           /\ Range(RemoveFirst(s, e)) = Range(s) \ {e}
           /\ Len(RemoveFirst(s, e)) = IF e \in Range(s) THEN Len(s) - 1 ELSE Len(s)
<1>1. CASE ~\E i \in 1..Len(s) : s[i] = e
  <2>1. RemoveFirst(s, e) = s /\ e \notin Range(s)
    BY <1>1 DEF RemoveFirst, Range
  <2> QED BY <2>1
<1>2. CASE \E i \in 1..Len(s) : s[i] = e
  <2>1. PICK k \in 1..Len(s) : s[k] = e
    BY <1>2
  <2>2. \A i \in 1..Len(s) : s[i] = e <=> i = k
    BY <2>1 DEF IsInjective
  <2>3. {i \in 1..Len(s) : s[i] = e} = {k}
    BY <2>2
  <2>4. k \in Nat
    OBVIOUS
  <2>5. Min({k}) = k
    BY <2>4 DEF Min
  <2>6. SelectInSeq(s, LAMBDA v : v = e) = k
    BY <2>3, <2>5 DEF SelectInSeq
  <2>7. RemoveFirst(s, e) = SubSeq(s, 1, k - 1) \o SubSeq(s, k + 1, Len(s))
    BY <1>2, <2>6 DEF RemoveFirst, RemoveAt
  <2> DEFINE a == SubSeq(s, 1, k - 1)
             b == SubSeq(s, k + 1, Len(s))
             t == RemoveFirst(s, e)
  <2>14. /\ a \in Seq(S) /\ Len(a) = k - 1 /\ \A i \in 1..(k - 1) : a[i] = s[i]
         /\ b \in Seq(S) /\ Len(b) = Len(s) - k /\ \A i \in 1..(Len(s) - k) : b[i] = s[i + k]
    BY SMTT(30)
  <2> HIDE DEF a, b
  <2>15. t = a \o b
    BY <2>7 DEF a, b
  <2> HIDE DEF t
  <2>8. t \in Seq(S) /\ Len(t) = Len(s) - 1
    BY <2>14, <2>15
  <2>9. \A i \in 1..Len(t) : t[i] = IF i < k THEN s[i] ELSE s[i + 1]
    <3> SUFFICES ASSUME NEW i \in 1..Len(t) PROVE t[i] = IF i < k THEN s[i] ELSE s[i + 1]
      OBVIOUS
    <3>1. t[i] = IF i <= k - 1 THEN a[i] ELSE b[i - (k - 1)]
      BY <2>8, <2>14, <2>15
    <3>2. CASE i < k
      <4>1. i \in 1..(k - 1) /\ t[i] = a[i]
        BY <2>8, <3>1, <3>2
      <4> QED BY <2>14, <3>2, <4>1
    <3>3. CASE i >= k
      <4>1. i - (k - 1) \in 1..(Len(s) - k) /\ (i - (k - 1)) + k = i + 1
        BY <2>8, <3>3
      <4>2. ~(i <= k - 1) /\ ~(i < k)
        BY <3>3
      <4>3. t[i] = b[i - (k - 1)]
        BY <3>1, <4>2
      <4>4. b[i - (k - 1)] = s[(i - (k - 1)) + k]
        BY <2>14, <4>1
      <4> QED BY <4>1, <4>2, <4>3, <4>4
    <3> QED BY <3>2, <3>3
  <2>10. IsInjective(t)
    <3> SUFFICES ASSUME NEW i \in 1..Len(t), NEW j \in 1..Len(t), t[i] = t[j] PROVE i = j
      BY <2>8 DEF IsInjective
    <3> DEFINE at(n) == IF n < k THEN n ELSE n + 1
    <3>1. at(i) \in 1..Len(s) /\ at(j) \in 1..Len(s)
      BY <2>8
    <3>2. t[i] = s[at(i)] /\ t[j] = s[at(j)]
      BY <2>9
    <3>3. \A m, n \in 1..Len(s) : s[m] = s[n] => m = n
      BY DEF IsInjective
    <3>4. at(i) = at(j)
      <4> HIDE DEF at, t
      <4>1. s[at(i)] = s[at(j)]
        BY <3>2
      <4> QED BY <3>1, <3>3, <4>1, Zenon
    <3>5. i \in Nat /\ j \in Nat
      BY <2>8
    <3> HIDE DEF t
    <3> QED BY ONLY <2>4, <3>4, <3>5
  <2>11. Range(t) \subseteq Range(s) \ {e}
    BY <2>2, <2>8, <2>9 DEF Range
  <2>12. ASSUME NEW x \in Range(s) \ {e} PROVE x \in Range(t)
    <3>1. PICK i \in 1..Len(s) : s[i] = x /\ i # k
      BY <2>1 DEF Range
    <3>2. CASE i < k
      BY <2>8, <2>9, <3>1, <3>2 DEF Range
    <3>3. CASE i > k
      <4>1. i - 1 \in 1..Len(t) /\ t[i - 1] = x
        BY <2>8, <2>9, <3>1, <3>3
      <4> QED BY <2>8, <4>1 DEF Range
    <3> QED BY <3>1, <3>2, <3>3
  <2>13. e \in Range(s)
    BY <2>1 DEF Range
  <2> QED BY <2>8, <2>10, <2>11, <2>12, <2>13 DEF t
<1> QED BY <1>1, <1>2

\* A room between two handlers: one or two different players, the first a person;
\* two if it plays; its loop runs while it plays with a tick; and it has a timer
\* pending when the bot is to act.
Seated(party) ==
    /\ party \in Room
    /\ Len(party.seats) \in {1, 2} /\ IsInjective(party.seats) /\ party.seats[1] \in Players
    /\ party.status = "playing" => Len(party.seats) = 2
    /\ party.loop <=> party.status = "playing" /\ party.game \in Ticking
    /\ party.game \in Ticking => ~party.due
Clocked(party) == VsBot(party) /\ party.status = "playing" /\ party.due => party.timers > 0
RoomInv(party) == Seated(party) /\ Clocked(party)

\* Rooms and the codes of the sockets agree, within the number of rooms.
Housed(rs, code) ==
    /\ rs \in [RoomCodes -> Room \cup {Nobody}] /\ code \in [Players -> RoomCodes \cup {Nobody}]
    /\ \A c \in RoomCodes : rs[c] # Nobody => RoomInv(rs[c])
    /\ \A w \in Players, c \in RoomCodes : code[w] = c <=> rs[c] # Nobody /\ w \in Range(rs[c].seats)
    /\ Cardinality(RoomCodes \ Free(rs)) <= MaxRooms

\* Who waits, and who of them is still connected.
WaitsFor(qs, code, ready) ==
    /\ qs \in [Games -> Seq(Players)]
    /\ \A g \in Games :
          /\ IsInjective(qs[g])
          /\ \A p \in Range(qs[g]) : /\ code[p] = Nobody /\ ready[p] # "new"
                                     /\ \A h \in Games \ {g} : p \notin Range(qs[h])
          /\ \A p, q \in Range(qs[g]) : ready[p] = "open" /\ ready[q] = "open" => p = q

RoomsInv ==
    /\ sock \in [Players -> {"new", "open", "closing"}]
    /\ Housed(rooms, roomCode) /\ WaitsFor(queues, roomCode, sock)

-----------------------------------------------------------------------------
\* A bot that is to act in a game without a tick is scheduled.
LEMMA ScheduledRuns ==
    ASSUME NEW party, Seated(party)
    PROVE  RoomInv(Scheduled(party)) /\ Scheduled(party).seats = party.seats
<1>1. party \in Room
  BY DEF Seated
<1>2. CASE VsBot(party) /\ party.game \notin Ticking /\ party.status = "playing" /\ party.due
  <2> DEFINE next == [party EXCEPT !.timers = @ + 1]
  <2>1. Scheduled(party) = next
    BY <1>2 DEF Scheduled
  <2>2. /\ next \in Room /\ next.timers > 0 /\ next.seats = party.seats /\ next.status = party.status
        /\ next.loop = party.loop /\ next.due = party.due /\ next.game = party.game
    BY <1>1 DEF Room
  <2> HIDE DEF next
  <2> QED BY <2>1, <2>2 DEF Seated, RoomInv, Clocked
<1>3. CASE ~(VsBot(party) /\ party.game \notin Ticking /\ party.status = "playing" /\ party.due)
  <2>1. Scheduled(party) = party
    BY <1>3 DEF Scheduled
  <2> QED BY <1>3, <2>1 DEF Seated, RoomInv, Clocked
<1> QED BY <1>2, <1>3

\* A game that begins has its loop, or its bot scheduled.
LEMMA BegunRuns ==
    ASSUME NEW party \in Room, Len(party.seats) = 2, IsInjective(party.seats), party.seats[1] \in Players
    PROVE  RoomInv(Begun(party)) /\ Begun(party).seats = party.seats
<1> DEFINE due == VsBot(party) /\ party.game \in Together
           loop == party.game \in Ticking
           next == [party EXCEPT !.status = "playing", !.due = due, !.loop = loop]
<1>1. due \in BOOLEAN /\ loop \in BOOLEAN
  BY DEF VsBot
<1>2. Begun(party) = Scheduled(next)
  BY DEF Begun
<1>3. loop => ~due
  BY RoomAssumption
<1>4. loop <=> party.game \in Ticking
  OBVIOUS
<1> HIDE DEF due, loop
<1>5. /\ next \in Room /\ next.seats = party.seats /\ next.status = "playing"
      /\ next.game = party.game /\ next.due = due /\ next.loop = loop
  BY <1>1 DEF Room
<1> HIDE DEF next
<1>6. Seated(next)
  BY <1>1, <1>3, <1>4, <1>5 DEF Seated
<1> QED BY <1>2, <1>5, <1>6, ScheduledRuns

\* A room takes a free code, or the place of one whose players it keeps.
LEMMA Placing ==
    ASSUME NEW rs, NEW code, Housed(rs, code), NEW c \in RoomCodes, NEW party, RoomInv(party),
           NEW code2 \in [Players -> RoomCodes \cup {Nobody}],
           rs[c] = Nobody => ~AtCapacity(rs),
           rs[c] # Nobody => Range(rs[c].seats) \subseteq Range(party.seats),
           \A p \in Players : p \in Range(party.seats) => code[p] \in {Nobody, c},
           \A p \in Players : code2[p] = IF p \in Range(party.seats) THEN c ELSE code[p]
    PROVE  Housed([rs EXCEPT ![c] = party], code2)
<1> DEFINE new == [rs EXCEPT ![c] = party]
<1>0. Nobody \notin RoomCodes /\ IsFiniteSet(RoomCodes) /\ MaxRooms \in Nat
  BY RoomAssumption, FS_CardinalityType
<1>1. party \in Room /\ party # Nobody
  BY NobodyAssumption DEF RoomInv, Seated
<1>2. rs \in [RoomCodes -> Room \cup {Nobody}]
  BY DEF Housed
<1>3. /\ new \in [RoomCodes -> Room \cup {Nobody}] /\ new[c] = party
      /\ \A d \in RoomCodes \ {c} : new[d] = rs[d]
  BY <1>1, <1>2
<1> HIDE DEF new
<1>4. \A d \in RoomCodes : new[d] # Nobody => RoomInv(new[d])
  BY <1>3 DEF Housed
<1>5. ASSUME NEW w \in Players, NEW d \in RoomCodes
      PROVE code2[w] = d <=> new[d] # Nobody /\ w \in Range(new[d].seats)
  <2>1. code[w] = d <=> rs[d] # Nobody /\ w \in Range(rs[d].seats)
    BY DEF Housed
  <2>2. CASE d = c
    <3>1. w \notin Range(party.seats) => code[w] # c
      BY <2>1, <2>2
    <3> QED BY <1>1, <1>3, <2>2, <3>1
  <2>3. CASE d # c
    <3>1. w \in Range(party.seats) => code[w] # d
      BY <1>0, <2>3
    <3> QED BY <1>3, <2>1, <2>3, <3>1
  <2> QED BY <2>2, <2>3
<1>6. Cardinality(RoomCodes \ Free(new)) <= MaxRooms
  <2> DEFINE full == RoomCodes \ Free(rs)
  <2>1. RoomCodes \ Free(new) = full \cup {c}
    BY <1>1, <1>3 DEF Free
  <2>2. IsFiniteSet(full) /\ Cardinality(full) \in Nat
    BY <1>0, FS_Subset, FS_CardinalityType
  <2>3. Cardinality(full) <= MaxRooms
    BY DEF Housed
  <2>4. CASE rs[c] # Nobody
    <3>1. full \cup {c} = full
      BY <2>4 DEF Free
    <3> QED BY <2>1, <2>3, <3>1
  <2>5. CASE rs[c] = Nobody
    <3>1. c \notin full /\ ~(Cardinality(full) >= MaxRooms)
      BY <2>5 DEF Free, AtCapacity
    <3>2. Cardinality(full \cup {c}) = Cardinality(full) + 1
      BY <2>2, <3>1, FS_AddElement
    <3> HIDE DEF full
    <3>3. \A n, m \in Nat : ~(n >= m) => n + 1 <= m
      OBVIOUS
    <3>4. Cardinality(full) + 1 <= MaxRooms
      BY <1>0, <2>2, <3>1, <3>3
    <3> QED BY <2>1, <3>2, <3>4
  <2> QED BY <2>4, <2>5
<1> QED BY <1>3, <1>4, <1>5, <1>6 DEF Housed, new

\* Who leaves a room is in none; a room without a socket goes, a live game is over.
LEMMA Leaving ==
    ASSUME Housed(rooms, roomCode), NEW w \in Players
    PROVE  /\ Housed(Left(rooms, w), [roomCode EXCEPT ![w] = Nobody])
           /\ \A c \in RoomCodes : roomCode[w] # c => Left(rooms, w)[c] = rooms[c]
<1> DEFINE left == Left(rooms, w)
           code == [roomCode EXCEPT ![w] = Nobody]
<1>0. /\ rooms \in [RoomCodes -> Room \cup {Nobody}] /\ roomCode \in [Players -> RoomCodes \cup {Nobody}]
      /\ \A d \in RoomCodes : rooms[d] # Nobody => RoomInv(rooms[d])
      /\ \A p \in Players, d \in RoomCodes : roomCode[p] = d <=> rooms[d] # Nobody /\ p \in Range(rooms[d].seats)
      /\ Cardinality(RoomCodes \ Free(rooms)) <= MaxRooms
  BY DEF Housed
<1>1. /\ code \in [Players -> RoomCodes \cup {Nobody}] /\ code[w] = Nobody
      /\ \A p \in Players \ {w} : code[p] = roomCode[p]
  BY <1>0
<1>2. CASE roomCode[w] = Nobody
  <2>1. left = rooms /\ code = roomCode
    BY <1>0, <1>2 DEF Left
  <2> QED BY <2>1
<1>3. CASE roomCode[w] # Nobody
  <2>1. PICK c \in RoomCodes : roomCode[w] = c
    BY <1>0, <1>3
  <2>2. PICK party \in Room : party = rooms[c] /\ RoomInv(party) /\ w \in Range(party.seats)
    BY <1>0, <2>1
  <2>3. PICK seats \in Seq(Players \cup {Bot}) :
            /\ seats = RemoveFirst(party.seats, w) /\ IsInjective(seats)
            /\ Range(seats) = Range(party.seats) \ {w} /\ Len(seats) = Len(party.seats) - 1
    <3>1. party.seats \in Seq(Players \cup {Bot}) /\ IsInjective(party.seats)
      BY <2>2 DEF RoomInv, Seated, Room
    <3> QED BY <2>2, <3>1, RemovedFirst
  <2> DEFINE over == IF party.status = "playing"
                       THEN [party EXCEPT !.seats = seats, !.status = "over", !.loop = FALSE]
                       ELSE [party EXCEPT !.seats = seats]
             new == IF Range(seats) \subseteq {Bot} THEN Nobody ELSE over
  <2>4. left = [rooms EXCEPT ![c] = new]
    BY <1>3, <2>1, <2>2, <2>3 DEF Left
  <2>5. /\ over \in Room /\ over.seats = seats /\ over.status # "playing" /\ over.game = party.game
        /\ over.due = party.due /\ ~over.loop
    BY <2>2, <2>3 DEF RoomInv, Seated, Room
  <2>6. ~(Range(seats) \subseteq {Bot}) => RoomInv(over)
    <3> HIDE DEF over
    <3> SUFFICES ASSUME ~(Range(seats) \subseteq {Bot}) PROVE RoomInv(over)
      OBVIOUS
    <3>1. Len(seats) # 0
      <4>1. DOMAIN seats = 1..Len(seats) /\ Len(seats) \in Nat
        BY <2>3
      <4>2. Len(seats) = 0 => Range(seats) = {}
        BY <4>1 DEF Range
      <4> QED BY <4>2
    <3>2. Len(seats) = 1
      BY <2>2, <2>3, <3>1 DEF RoomInv, Seated
    <3>3. Range(seats) = {seats[1]}
      BY <2>3, <3>2 DEF Range
    <3>4. seats[1] \in Players
      BY <2>3, <3>2, <3>3
    <3> QED BY <2>2, <2>3, <2>5, <3>2, <3>4 DEF RoomInv, Seated, Clocked
  <2> HIDE DEF over
  <2>7. new \in Room \cup {Nobody} /\ (new # Nobody => RoomInv(new) /\ Range(new.seats) = Range(party.seats) \ {w})
    BY <2>3, <2>5, <2>6
  <2>8. new = Nobody => Range(party.seats) \ {w} \subseteq {Bot}
    BY <2>3, <2>5, NobodyAssumption
  <2> HIDE DEF new
  <2>9. /\ left \in [RoomCodes -> Room \cup {Nobody}] /\ left[c] = new
        /\ \A d \in RoomCodes \ {c} : left[d] = rooms[d]
    BY <1>0, <2>4, <2>7
  <2> HIDE DEF left, code
  <2>10. \A d \in RoomCodes : left[d] # Nobody => RoomInv(left[d])
    BY <1>0, <2>7, <2>9
  <2>11. ASSUME NEW p \in Players, NEW d \in RoomCodes
         PROVE  code[p] = d <=> left[d] # Nobody /\ p \in Range(left[d].seats)
    <3>0. Nobody \notin RoomCodes /\ Bot \notin Players
      BY RoomAssumption
    <3>1. CASE p = w
      <4>1. d # c => ~(rooms[d] # Nobody /\ w \in Range(rooms[d].seats))
        BY <1>0, <2>1
      <4> QED BY <1>1, <2>7, <2>9, <3>0, <3>1, <4>1
    <3>2. CASE p # w /\ d = c
      <4>1. code[p] = d <=> p \in Range(party.seats)
        BY <1>0, <1>1, <2>2, <3>2, NobodyAssumption
      <4> QED BY <2>7, <2>8, <2>9, <3>0, <3>2, <4>1
    <3>3. CASE p # w /\ d # c
      BY <1>0, <1>1, <2>9, <3>3
    <3> QED BY <3>1, <3>2, <3>3
  <2>12. Cardinality(RoomCodes \ Free(left)) <= MaxRooms
    <3>0. IsFiniteSet(RoomCodes) /\ MaxRooms \in Nat
      BY RoomAssumption, FS_CardinalityType
    <3>1. RoomCodes \ Free(left) \subseteq RoomCodes \ Free(rooms)
      BY <2>2, <2>9, NobodyAssumption DEF Free
    <3>2. IsFiniteSet(RoomCodes \ Free(rooms))
      BY <3>0, FS_Subset
    <3>3. Cardinality(RoomCodes \ Free(left)) <= Cardinality(RoomCodes \ Free(rooms))
      BY <3>1, <3>2, FS_Subset
    <3>4. Cardinality(RoomCodes \ Free(left)) \in Nat /\ Cardinality(RoomCodes \ Free(rooms)) \in Nat
      BY <3>1, <3>2, FS_Subset, FS_CardinalityType
    <3> QED BY <1>0, <3>0, <3>3, <3>4
  <2>13. Housed(left, code)
    BY <1>1, <2>9, <2>10, <2>11, <2>12 DEF Housed
  <2> QED BY <2>1, <2>9, <2>13 DEF left, code
<1> QED BY <1>2, <1>3

-----------------------------------------------------------------------------
\* Who leaves the queues is in none, and the others stay where they are.
LEMMA Unqueuing ==
    ASSUME NEW code, NEW ready, WaitsFor(queues, code, ready), NEW w,
           NEW code2, NEW ready2, \A p \in Players \ {w} : code2[p] = code[p] /\ ready2[p] = ready[p]
    PROVE  /\ WaitsFor(Unqueued(w), code2, ready2)
           /\ \A g \in Games : Range(Unqueued(w)[g]) = Range(queues[g]) \ {w}
<1> DEFINE qs == Unqueued(w)
<1>1. \A g \in Games : /\ qs[g] \in Seq(Players) /\ IsInjective(qs[g])
                       /\ Range(qs[g]) = Range(queues[g]) \ {w}
  <2> SUFFICES ASSUME NEW g \in Games
      PROVE qs[g] \in Seq(Players) /\ IsInjective(qs[g]) /\ Range(qs[g]) = Range(queues[g]) \ {w}
    OBVIOUS
  <2>1. qs[g] = RemoveFirst(queues[g], w)
    BY DEF Unqueued
  <2>2. queues[g] \in Seq(Players) /\ IsInjective(queues[g])
    BY DEF WaitsFor
  <2> HIDE DEF qs
  <2> QED BY <2>1, <2>2, RemovedFirst
<1>2. qs \in [Games -> Seq(Players)]
  <2>1. qs = [g \in Games |-> qs[g]]
    BY DEF Unqueued
  <2> HIDE DEF qs
  <2> QED BY <1>1, <2>1
<1> HIDE DEF qs
<1>3. \A g \in Games : Range(queues[g]) \subseteq Players
  BY DEF WaitsFor, Range
<1>4. ASSUME NEW g \in Games
      PROVE  /\ \A p \in Range(qs[g]) : /\ code2[p] = Nobody /\ ready2[p] # "new"
                                         /\ \A h \in Games \ {g} : p \notin Range(qs[h])
             /\ \A p, q \in Range(qs[g]) : ready2[p] = "open" /\ ready2[q] = "open" => p = q
  <2>1. \A p \in Range(qs[g]) : p \in Players \ {w} /\ p \in Range(queues[g])
    BY <1>1, <1>3
  <2>2. \A h \in Games : Range(qs[h]) \subseteq Range(queues[h])
    BY <1>1
  <2> QED BY <2>1, <2>2 DEF WaitsFor
<1>5. WaitsFor(qs, code2, ready2)
  BY <1>1, <1>2, <1>4 DEF WaitsFor
<1> QED BY <1>1, <1>5 DEF qs

\* A step that only opens or closes waiting sockets one by one.
LEMMA QueueStays ==
    ASSUME NEW qs, NEW code, NEW ready, WaitsFor(qs, code, ready), NEW ready2,
           \A g \in Games : \A p \in Range(qs[g]) : /\ ready2[p] # "new"
                                                    /\ ready2[p] = "open" => ready[p] = "open"
    PROVE  WaitsFor(qs, code, ready2)
BY DEF WaitsFor

\* A handler that ends where the socket was leaves the queues in order.
LEMMA LeaveRight ==
    ASSUME RoomsInv, NEW w \in Players, queues' = Unqueued(w),
           rooms' = Left(rooms, w), roomCode' = [roomCode EXCEPT ![w] = Nobody],
           sock' \in [Players -> {"new", "open", "closing"}],
           \A p \in Players \ {w} : sock'[p] = sock[p]
    PROVE  RoomsInv'
<1>1. Housed(rooms', roomCode')
  BY Leaving DEF RoomsInv
<1>2. \A p \in Players \ {w} : roomCode'[p] = roomCode[p] /\ sock'[p] = sock[p]
  BY DEF RoomsInv, Housed
<1>3. WaitsFor(queues, roomCode, sock)
  BY DEF RoomsInv
<1>4. WaitsFor(Unqueued(w), roomCode', sock')
  <2>1. PICK code2, ready2 : code2 = roomCode' /\ ready2 = sock'
    OBVIOUS
  <2>2. \A p \in Players \ {w} : code2[p] = roomCode[p] /\ ready2[p] = sock[p]
    BY <1>2, <2>1
  <2>3. WaitsFor(Unqueued(w), code2, ready2)
    BY <1>3, <2>2, Unqueuing
  <2> QED BY <2>1, <2>3
<1> QED BY <1>1, <1>4 DEF RoomsInv, Housed, WaitsFor, Free

\* Makes a room, with or without the bot.
LEMMA CreateRight ==
    ASSUME RoomsInv, NEW w \in Players, NEW g \in Games, NEW seats,
           seats = <<w>> \/ seats = <<w, Bot>>, Create(w, g, seats)
    PROVE  RoomsInv'
<1> DEFINE rs == Left(rooms, w)
           code == [roomCode EXCEPT ![w] = Nobody]
           party == NewRoom(g, seats)
           fresh == IF VsBot(party) THEN Begun(party) ELSE party
<1>0. Bot \notin Players
  BY RoomAssumption
<1>1. Housed(rs, code)
  BY Leaving DEF RoomsInv
<1>2. sock' = sock /\ queues' = Unqueued(w)
  BY DEF Create
<1>3. \/ rooms' = rs /\ roomCode' = code
      \/ /\ ~AtCapacity(rs)
         /\ \E c \in Free(rs) : rooms' = [rs EXCEPT ![c] = fresh] /\ roomCode' = [roomCode EXCEPT ![w] = c]
  BY DEF Create
<1>4. CASE rooms' = rs /\ roomCode' = code
  BY <1>2, <1>4, LeaveRight DEF RoomsInv
<1>5. ASSUME ~AtCapacity(rs), NEW c \in Free(rs),
             rooms' = [rs EXCEPT ![c] = fresh], roomCode' = [roomCode EXCEPT ![w] = c]
      PROVE  RoomsInv'
  <2>1. /\ party \in Room /\ party.seats = seats /\ party.status = "waiting" /\ ~party.loop /\ ~party.due
    <3>1. seats \in Seq(Players \cup {Bot})
      <4>1. w \in Players \cup {Bot} /\ Bot \in Players \cup {Bot}
        OBVIOUS
      <4>2. CASE seats = <<w>>
        BY <4>1, <4>2
      <4>3. CASE seats = <<w, Bot>>
        BY <4>1, <4>3
      <4> QED BY <4>2, <4>3
    <3> QED BY <3>1 DEF NewRoom, Room
  <2>2. /\ Len(seats) = (IF seats = <<w>> THEN 1 ELSE 2) /\ IsInjective(seats) /\ seats[1] = w
        /\ Range(seats) \cap Players = {w} /\ (seats = <<w>> <=> ~VsBot(party))
    <3>1. CASE seats = <<w>>
      BY <1>0, <2>1, <3>1 DEF IsInjective, Range, VsBot
    <3>2. CASE seats = <<w, Bot>>
      BY <1>0, <2>1, <3>2 DEF IsInjective, Range, VsBot
    <3> QED BY <3>1, <3>2
  <2> HIDE DEF party
  <2>3. RoomInv(fresh) /\ fresh.seats = seats
    <3>1. CASE VsBot(party)
      BY <2>1, <2>2, <3>1, BegunRuns
    <3>2. CASE ~VsBot(party)
      BY <2>1, <2>2, <3>2 DEF RoomInv, Seated, Clocked
    <3> QED BY <3>1, <3>2
  <2> HIDE DEF fresh
  <2>4. c \in RoomCodes /\ rs[c] = Nobody
    BY <1>5 DEF Free
  <2>5. /\ roomCode' \in [Players -> RoomCodes \cup {Nobody}]
        /\ code[w] = Nobody /\ \A p \in Players : roomCode'[p] = IF p = w THEN c ELSE code[p]
    BY <1>5, <2>4 DEF RoomsInv, Housed
  <2> HIDE DEF rs, code
  <2>6. \A p \in Players : p \in Range(fresh.seats) <=> p = w
    BY <2>2, <2>3
  <2>7. Housed(rooms', roomCode')
    <3>1. PICK code2 \in [Players -> RoomCodes \cup {Nobody}] : code2 = roomCode'
      BY <2>5
    <3>2. \A p \in Players : /\ p \in Range(fresh.seats) => code[p] \in {Nobody, c}
                             /\ code2[p] = IF p \in Range(fresh.seats) THEN c ELSE code[p]
      BY <2>5, <2>6, <3>1
    <3>3. rs[c] = Nobody /\ ~AtCapacity(rs) /\ RoomInv(fresh) /\ c \in RoomCodes
      BY <1>5, <2>3, <2>4
    <3>4. Housed([rs EXCEPT ![c] = fresh], code2)
      BY <1>1, <3>2, <3>3, Placing
    <3> QED BY <1>5, <3>1, <3>4
  <2>8. WaitsFor(Unqueued(w), roomCode', sock')
    <3>1. \A p \in Players \ {w} : roomCode'[p] = roomCode[p]
      BY <1>5 DEF RoomsInv, Housed
    <3> QED BY <1>2, <3>1, Unqueuing DEF RoomsInv
  <2> QED BY <1>2, <2>7, <2>8 DEF RoomsInv, Housed, WaitsFor, Free
<1> QED BY <1>3, <1>4, <1>5

\* Takes the second seat of a room, and leaves the one it was in.
LEMMA JoinRight ==
    ASSUME RoomsInv, NEW w \in Players, NEW c \in RoomCodes, JoinRoom(w, c) PROVE RoomsInv'
<1> DEFINE rs == Left(rooms, w)
           code == [roomCode EXCEPT ![w] = Nobody]
<1>1. PICK party \in Room :
          /\ party = rooms[c] /\ w \notin Range(party.seats) /\ Len(party.seats) < 2
          /\ RoomInv(party) /\ roomCode[w] # c
  BY DEF JoinRoom, RoomsInv, Housed
<1> DEFINE filled == Filled(party, w)
<1>2. Housed(rs, code) /\ rs[c] = party
  BY <1>1, Leaving DEF RoomsInv
<1>3. rooms' = [rs EXCEPT ![c] = Begun(filled)]
  <2>1. rooms' = [rs EXCEPT ![c] = Begun(Filled(rs[c], w))]
    BY DEF JoinRoom
  <2> QED BY <1>2, <2>1
<1>4. /\ filled \in Room /\ Len(filled.seats) = 2 /\ IsInjective(filled.seats) /\ filled.seats[1] \in Players
      /\ Range(filled.seats) = Range(party.seats) \cup {w}
  <2>1. PICK seats \in Seq(Players \cup {Bot}) :
            /\ seats = party.seats /\ Len(seats) = 1 /\ seats[1] \in Players /\ w \notin Range(seats)
    <3>1. PICK s \in Seq(Players \cup {Bot}) : s = party.seats
      BY <1>1 DEF Room
    <3>2. Len(s) \in {1, 2} /\ Len(s) < 2 /\ s[1] \in Players /\ w \notin Range(s)
      BY <1>1, <3>1 DEF RoomInv, Seated
    <3>3. \A n \in {1, 2} : n < 2 => n = 1
      OBVIOUS
    <3>4. Len(s) = 1
      BY <3>2, <3>3, Zenon
    <3> QED BY <3>1, <3>2, <3>4
  <2>2. PICK both : both = Append(seats, w)
    OBVIOUS
  <2>3. /\ both \in Seq(Players \cup {Bot}) /\ Len(both) = 2
        /\ both[1] = seats[1] /\ both[2] = w
    BY <2>1, <2>2
  <2>4. filled \in Room /\ filled.seats = both
    BY <1>1, <2>1, <2>2, <2>3 DEF Room, Filled
  <2>5. Range(seats) = {seats[1]} /\ Range(both) = {seats[1], w}
    BY <2>1, <2>3 DEF Range
  <2>6. IsInjective(both)
    BY <2>1, <2>3, <2>5 DEF IsInjective
  <2> HIDE DEF filled
  <2> QED BY <2>1, <2>3, <2>4, <2>5, <2>6
<1> HIDE DEF filled
<1>5. RoomInv(Begun(filled)) /\ Begun(filled).seats = filled.seats
  BY <1>4, BegunRuns
<1>6. PICK fresh : fresh = Begun(filled)
  OBVIOUS
<1>7. PICK code2 \in [Players -> RoomCodes \cup {Nobody}] :
          /\ code2 = roomCode' /\ \A p \in Players : code2[p] = IF p = w THEN c ELSE roomCode[p]
  BY DEF JoinRoom, RoomsInv, Housed
<1>8. Housed(rooms', roomCode')
  <2>1. party # Nobody
    BY NobodyAssumption
  <2>2. \A p \in Players : p \in Range(party.seats) => code[p] = c
    BY <1>2, <2>1 DEF Housed
  <2>3. code[w] = Nobody /\ \A p \in Players \ {w} : code[p] = roomCode[p]
    BY DEF RoomsInv, Housed
  <2> HIDE DEF rs, code
  <2>4. \A p \in Players : /\ p \in Range(fresh.seats) => code[p] \in {Nobody, c}
                           /\ code2[p] = IF p \in Range(fresh.seats) THEN c ELSE code[p]
    BY <1>4, <1>5, <1>6, <1>7, <2>2, <2>3
  <2>5. rs[c] # Nobody /\ Range(rs[c].seats) \subseteq Range(fresh.seats) /\ RoomInv(fresh)
    BY <1>2, <1>4, <1>5, <1>6, <2>1
  <2>6. Housed([rs EXCEPT ![c] = fresh], code2)
    BY <1>2, <2>4, <2>5, Placing
  <2> QED BY <1>3, <1>6, <1>7, <2>6
<1>9. sock' = sock /\ WaitsFor(queues', roomCode', sock')
  <2>1. sock' = sock /\ queues' = Unqueued(w) /\ WaitsFor(queues, roomCode, sock)
    BY DEF JoinRoom, RoomsInv
  <2>2. WaitsFor(Unqueued(w), code2, sock)
    BY <1>7, <2>1, Unqueuing
  <2> QED BY <1>7, <2>1, <2>2
<1> QED BY <1>8, <1>9 DEF RoomsInv, Housed, WaitsFor, Free

\* Pairs a socket with the first that waits and is still there, or lets it wait.
LEMMA MatchRight ==
    ASSUME RoomsInv, NEW w \in Players, NEW g \in Games, QuickMatch(w, g) PROVE RoomsInv'
<1> DEFINE rs == Left(rooms, w)
           code == [roomCode EXCEPT ![w] = Nobody]
           qs == Unqueued(w)
           list == qs[g]
           live == {i \in DOMAIN list : Open(list[i])}
           first == CHOOSE i \in live : \A j \in live : i <= j
           rest == IF live = {} THEN <<>> ELSE SubSeq(list, first + 1, Len(list))
<1>0. /\ sock' = sock /\ sock \in [Players -> {"new", "open", "closing"}] /\ sock[w] = "open"
      /\ WaitsFor(queues, roomCode, sock) /\ roomCode \in [Players -> RoomCodes \cup {Nobody}]
  BY Zenon DEF QuickMatch, RoomsInv, Housed, Open
<1>1. Housed(rs, code)
  BY Leaving DEF RoomsInv
<1>2. /\ code \in [Players -> RoomCodes \cup {Nobody}] /\ code[w] = Nobody
      /\ \A p \in Players \ {w} : code[p] = roomCode[p]
  BY <1>0
<1>3. WaitsFor(qs, code, sock) /\ \A h \in Games : w \notin Range(qs[h])
  <2> HIDE DEF code
  <2>1. WaitsFor(Unqueued(w), code, sock) /\ \A h \in Games : Range(Unqueued(w)[h]) = Range(queues[h]) \ {w}
    BY <1>0, <1>2, Unqueuing
  <2> QED BY <2>1
<1>4. list \in Seq(Players) /\ IsInjective(list)
  <2> HIDE DEF code, qs
  <2>1. qs \in [Games -> Seq(Players)] /\ IsInjective(qs[g])
    BY <1>3, Zenon DEF WaitsFor
  <2> QED BY <2>1
<1>5. \/ /\ live = {} /\ queues' = [qs EXCEPT ![g] = <<w>>]
         /\ rooms' = rs /\ roomCode' = code
      \/ /\ live # {} /\ queues' = [qs EXCEPT ![g] = rest]
         /\ \/ rooms' = rs /\ roomCode' = code
            \/ /\ ~AtCapacity(rs)
               /\ \E c \in Free(rs) :
                     /\ rooms' = [rs EXCEPT ![c] = Begun(NewRoom(g, <<list[first], w>>))]
                     /\ roomCode' = [roomCode EXCEPT ![w] = c, ![list[first]] = c]
  BY DEF QuickMatch
<1> HIDE DEF qs
<1>6. CASE live = {}
  <2>1. queues' = [qs EXCEPT ![g] = <<w>>] /\ rooms' = rs /\ roomCode' = code
    BY <1>5, <1>6
  <2>2. /\ queues' \in [Games -> Seq(Players)] /\ queues'[g] = <<w>>
        /\ \A h \in Games \ {g} : queues'[h] = qs[h]
    BY <1>3, <2>1 DEF WaitsFor
  <2>3. IsInjective(<<w>>) /\ Range(<<w>>) = {w}
    BY DEF IsInjective, Range
  <2>4. WaitsFor(queues', code, sock)
    <3> HIDE DEF code, live, first, rest
    <3>1. ASSUME NEW h \in Games \ {g}
          PROVE  /\ IsInjective(queues'[h])
                 /\ \A p \in Range(queues'[h]) : /\ code[p] = Nobody /\ sock[p] # "new"
                                                  /\ \A i \in Games \ {h} : p \notin Range(queues'[i])
                 /\ \A p, q \in Range(queues'[h]) : sock[p] = "open" /\ sock[q] = "open" => p = q
      <4>1. \A p \in Range(queues'[h]) : p # w /\ p \in Range(qs[h])
        BY <1>3, <2>2, <3>1
      <4>2. \A i \in Games : Range(queues'[i]) \subseteq Range(qs[i]) \cup {w}
        BY <2>2, <2>3
      <4> QED BY <1>3, <2>2, <4>1, <4>2 DEF WaitsFor
    <3>2. \A h \in Games \ {g} : w \notin Range(queues'[h])
      BY <1>3, <2>2
    <3>3. /\ IsInjective(queues'[g]) /\ Range(queues'[g]) = {w}
          /\ code[w] = Nobody /\ sock[w] # "new"
      BY <1>0, <1>2, <2>2, <2>3
    <3>4. /\ \A p \in Range(queues'[g]) : /\ code[p] = Nobody /\ sock[p] # "new"
                                           /\ \A i \in Games \ {g} : p \notin Range(queues'[i])
          /\ \A p, q \in Range(queues'[g]) : sock[p] = "open" /\ sock[q] = "open" => p = q
      BY <3>2, <3>3
    <3>6. IsInjective(queues'[g])
      BY <3>3
    <3>7. PICK now \in [Games -> Seq(Players)] : now = queues'
      BY <2>2
    <3>8. ASSUME NEW h \in Games
          PROVE  /\ IsInjective(now[h])
                 /\ \A p \in Range(now[h]) : /\ code[p] = Nobody /\ sock[p] # "new"
                                              /\ \A i \in Games \ {h} : p \notin Range(now[i])
                 /\ \A p, q \in Range(now[h]) : sock[p] = "open" /\ sock[q] = "open" => p = q
      <4>1. CASE h = g
        BY <3>4, <3>6, <3>7, <4>1
      <4>2. CASE h # g
        BY <3>1, <3>7, <4>2
      <4> QED BY <4>1, <4>2
    <3>9. WaitsFor(now, code, sock)
      BY <3>8 DEF WaitsFor
    <3> QED BY <3>7, <3>9 DEF WaitsFor
  <2>5. rooms' = rs /\ roomCode' = code
    BY <2>1
  <2> QED BY <1>0, <1>1, <2>4, <2>5 DEF RoomsInv, Housed, WaitsFor, Free
<1>7. CASE live # {}
  <2>1. PICK k \in live : k = first /\ \A j \in live : k <= j
    <3>1. live \subseteq Nat
      BY <1>4
    <3> HIDE DEF live
    <3>2. \E n \in live : \A j \in live : n <= j
      BY <1>7, <3>1, NatMinimum
    <3> QED BY <3>2
  <2>2. PICK p \in Players : p = list[k] /\ sock[p] = "open" /\ k \in 1..Len(list)
    BY <1>4 DEF Open
  <2>3. rest = SubSeq(list, k + 1, Len(list))
    BY <1>7, <2>1
  <2>4. /\ rest \in Seq(Players) /\ Len(rest) = Len(list) - k
        /\ \A i \in 1..Len(rest) : rest[i] = list[i + k]
    <3> HIDE DEF list, live, first, rest
    <3>1. k \in 1..Len(list) /\ Len(list) \in Nat
      BY <1>4, <2>2
    <3> QED BY <1>4, <2>3, <3>1
  <2> HIDE DEF live, first, rest
  <2>5. IsInjective(rest) /\ Range(rest) \subseteq Range(list) \ {p}
    <3> HIDE DEF list
    <3>1. \A i \in 1..Len(rest) : i + k \in 1..Len(list) /\ i + k # k /\ rest[i] = list[i + k]
      BY <1>4, <2>2, <2>4
    <3>2. \A i, j \in 1..Len(list) : list[i] = list[j] => i = j
      BY <1>4 DEF IsInjective
    <3>3. IsInjective(rest)
      <4>1. \A i, j \in 1..Len(rest) : rest[i] = rest[j] => i + k = j + k
        BY <3>1, <3>2
      <4>2. \A i, j \in 1..Len(rest) : i + k = j + k => i = j
        BY <2>2
      <4>3. DOMAIN rest = 1..Len(rest)
        BY <2>4
      <4> QED BY <4>1, <4>2, <4>3 DEF IsInjective
    <3>4. ASSUME NEW q \in Range(rest) PROVE q \in Range(list) /\ q # p
      <4>1. PICK i \in 1..Len(rest) : q = rest[i]
        BY <2>4 DEF Range
      <4>2. i + k \in DOMAIN list
        BY <1>4, <3>1
      <4> QED BY <2>2, <3>1, <3>2, <4>1, <4>2 DEF Range
    <3> QED BY <3>3, <3>4
  <2>6. p # w /\ p \in Range(list) /\ code[p] = Nobody
    <3>1. p \in Range(list)
      BY <1>4, <2>2 DEF Range
    <3> QED BY <1>3, <3>1 DEF WaitsFor
  <2>7. \A h \in Games \ {g} : p \notin Range(qs[h])
    BY <1>3, <2>6 DEF WaitsFor
  <2>8. queues' = [qs EXCEPT ![g] = rest]
    BY <1>5, <1>7
  <2>9. /\ queues' \in [Games -> Seq(Players)] /\ queues'[g] = rest
        /\ \A h \in Games \ {g} : queues'[h] = qs[h]
    BY <1>3, <2>4, <2>8 DEF WaitsFor
  <2>10. WaitsFor(queues', code, sock)
    BY <1>3, <2>5, <2>9 DEF WaitsFor
  <2>11. CASE rooms' = rs /\ roomCode' = code
    BY <1>0, <1>1, <2>10, <2>11 DEF RoomsInv, Housed, WaitsFor, Free
  <2>12. ASSUME ~AtCapacity(rs), NEW c \in Free(rs),
                rooms' = [rs EXCEPT ![c] = Begun(NewRoom(g, <<list[first], w>>))],
                roomCode' = [roomCode EXCEPT ![w] = c, ![list[first]] = c]
         PROVE  RoomsInv'
    <3> DEFINE party == NewRoom(g, <<p, w>>)
    <3>1. c \in RoomCodes /\ rs[c] = Nobody
      BY <2>12 DEF Free
    <3>2. <<p, w>> \in Seq(Players \cup {Bot})
      OBVIOUS
    <3>3. party \in Room /\ party.seats = <<p, w>>
      BY <3>2 DEF NewRoom, Room
    <3>4. IsInjective(<<p, w>>) /\ Range(<<p, w>>) = {p, w}
      BY <2>6 DEF IsInjective, Range
    <3> HIDE DEF party
    <3>5. RoomInv(Begun(party)) /\ Begun(party).seats = <<p, w>>
      BY <3>3, <3>4, BegunRuns
    <3>6. PICK fresh : fresh = Begun(party) /\ RoomInv(fresh) /\ Range(fresh.seats) = {p, w}
      BY <3>4, <3>5
    <3>7. rooms' = [rs EXCEPT ![c] = fresh]
      BY <2>1, <2>2, <2>12, <3>6 DEF party
    <3>8. PICK code2 \in [Players -> RoomCodes \cup {Nobody}] :
              /\ code2 = roomCode' /\ \A q \in Players : code2[q] = IF q \in {p, w} THEN c ELSE code[q]
      BY <1>0, <1>2, <2>1, <2>2, <2>12, <3>1
    <3> HIDE DEF rs, code
    <3>9. \A q \in Players : /\ q \in Range(fresh.seats) => code[q] \in {Nobody, c}
                             /\ code2[q] = IF q \in Range(fresh.seats) THEN c ELSE code[q]
      BY <1>2, <2>6, <3>6, <3>8
    <3>10. Housed([rs EXCEPT ![c] = fresh], code2)
      <4>1. rs[c] = Nobody /\ ~AtCapacity(rs) /\ RoomInv(fresh) /\ c \in RoomCodes
        BY <2>12, <3>1, <3>6
      <4> QED BY <1>1, <3>9, <4>1, Placing
    <3>11. WaitsFor(queues', code2, sock)
      <4>1. \A h \in Games : p \notin Range(queues'[h]) /\ w \notin Range(queues'[h])
        BY <1>3, <2>5, <2>7, <2>9
      <4>2. \A h \in Games : \A q \in Range(queues'[h]) : q \in Players
        BY <2>9 DEF Range
      <4>3. \A h \in Games : \A q \in Range(queues'[h]) : code2[q] = code[q]
        BY <3>8, <4>1, <4>2
      <4> QED BY <2>10, <4>3 DEF WaitsFor
    <3>12. Housed(rooms', roomCode')
      BY <3>7, <3>8, <3>10
    <3>13. WaitsFor(queues', roomCode', sock') /\ sock' \in [Players -> {"new", "open", "closing"}]
      BY <1>0, <3>8, <3>11
    <3> QED BY <3>12, <3>13 DEF RoomsInv
  <2> QED BY <1>5, <1>7, <2>11, <2>12
<1> QED BY <1>6, <1>7

\* A handler that changes one room and none of its seats.
LEMMA SameSeats ==
    ASSUME RoomsInv, NEW c \in RoomCodes, rooms[c] # Nobody, NEW party, RoomInv(party),
           party.seats = rooms[c].seats, rooms' = [rooms EXCEPT ![c] = party],
           UNCHANGED <<sock, roomCode, queues>>
    PROVE  RoomsInv'
<1>1. Housed(rooms, roomCode) /\ roomCode \in [Players -> RoomCodes \cup {Nobody}]
  BY DEF RoomsInv, Housed
<1>2. \A p \in Players : /\ p \in Range(party.seats) => roomCode[p] \in {Nobody, c}
                         /\ roomCode[p] = IF p \in Range(party.seats) THEN c ELSE roomCode[p]
  BY DEF RoomsInv, Housed
<1>3. Housed([rooms EXCEPT ![c] = party], roomCode)
  <2>1. Range(rooms[c].seats) \subseteq Range(party.seats)
    OBVIOUS
  <2>2. /\ \A p \in Players : p \in Range(party.seats) => roomCode[p] \in {Nobody, c}
        /\ \A p \in Players : roomCode[p] = IF p \in Range(party.seats) THEN c ELSE roomCode[p]
    BY <1>2
  <2> QED BY ONLY <1>1, <2>1, <2>2, Placing, rooms[c] # Nobody, RoomInv(party)
<1>4. Housed(rooms', roomCode')
  BY <1>3
<1>5. WaitsFor(queues', roomCode', sock') /\ sock' \in [Players -> {"new", "open", "closing"}]
  BY DEF RoomsInv
<1> QED BY <1>4, <1>5 DEF RoomsInv

\* What an engine makes of an input stays a room, up to its timers.
LEMMA OutcomesSeated ==
    ASSUME NEW party, Seated(party), party.status = "playing", party.game \notin Ticking,
           NEW fixed \in BOOLEAN, NEW next \in Outcomes(party, fixed)
    PROVE  Seated(next) /\ next.seats = party.seats
<1>1. party \in Room
  BY DEF Seated
<1>2. CASE next = party
  BY <1>2
<1>3. CASE next # party
  <2>1. \/ \E d \in BOOLEAN : next = [party EXCEPT !.due = d /\ VsBot(party)]
        \/ next = [party EXCEPT !.status = "over", !.due = FALSE]
    BY <1>3 DEF Outcomes
  <2>2. CASE next = [party EXCEPT !.status = "over", !.due = FALSE]
    <3>1. /\ next \in Room /\ next.seats = party.seats /\ next.status = "over"
          /\ next.game = party.game /\ next.loop = party.loop
      BY <1>1, <2>2 DEF Room
    <3> QED BY <3>1 DEF Seated
  <2>3. ASSUME NEW d \in BOOLEAN, next = [party EXCEPT !.due = d /\ VsBot(party)]
        PROVE  Seated(next) /\ next.seats = party.seats
    <3>1. PICK due \in BOOLEAN : due = (d /\ VsBot(party))
      BY DEF VsBot
    <3>2. next = [party EXCEPT !.due = due]
      BY <2>3, <3>1
    <3>3. /\ next \in Room /\ next.seats = party.seats /\ next.status = party.status
          /\ next.game = party.game /\ next.loop = party.loop
      BY <1>1, <3>2 DEF Room
    <3> QED BY <3>3 DEF Seated
  <2> QED BY <2>1, <2>2, <2>3
<1> QED BY <1>2, <1>3

\* The socket's own room.
LEMMA OwnRoom ==
    ASSUME RoomsInv, NEW w \in Players, roomCode[w] # Nobody
    PROVE  roomCode[w] \in RoomCodes /\ rooms[roomCode[w]] # Nobody /\ RoomInv(rooms[roomCode[w]])
BY DEF RoomsInv, Housed

LEMMA MoveRight ==
    ASSUME RoomsInv, NEW w \in Players, Move(w) PROVE RoomsInv'
<1>1. PICK c \in RoomCodes : c = roomCode[w] /\ rooms[c] # Nobody /\ RoomInv(rooms[c])
  BY OwnRoom DEF Move
<1>2. PICK next \in Outcomes(rooms[c], rooms[c].due) : rooms' = [rooms EXCEPT ![c] = Scheduled(next)]
  BY <1>1 DEF Move
<1>3. rooms[c].status = "playing" /\ rooms[c].game \notin Ticking /\ UNCHANGED <<sock, roomCode, queues>>
  BY <1>1 DEF Move
<1>4. rooms[c].due \in BOOLEAN /\ Seated(rooms[c])
  BY <1>1 DEF RoomInv, Seated, Room
<1>5. Seated(next) /\ next.seats = rooms[c].seats
  BY <1>2, <1>3, <1>4, OutcomesSeated
<1>6. RoomInv(Scheduled(next)) /\ Scheduled(next).seats = rooms[c].seats
  BY <1>5, ScheduledRuns
<1> QED BY <1>1, <1>2, <1>3, <1>6, SameSeats

LEMMA RematchRight ==
    ASSUME RoomsInv, NEW w \in Players, Rematch(w) PROVE RoomsInv'
<1>1. PICK c \in RoomCodes : c = roomCode[w] /\ rooms[c] # Nobody /\ RoomInv(rooms[c])
  BY OwnRoom DEF Rematch
<1>2. /\ Len(rooms[c].seats) = 2 /\ rooms' = [rooms EXCEPT ![c] = Begun(rooms[c])]
      /\ UNCHANGED <<sock, roomCode, queues>>
  BY <1>1 DEF Rematch
<1>3. RoomInv(Begun(rooms[c])) /\ Begun(rooms[c]).seats = rooms[c].seats
  <2>1. rooms[c] \in Room /\ IsInjective(rooms[c].seats) /\ rooms[c].seats[1] \in Players
    BY <1>1 DEF RoomInv, Seated
  <2> QED BY <1>2, <2>1, BegunRuns
<1> QED BY <1>1, <1>2, <1>3, SameSeats

\* A bot that still has to move does, and is scheduled again if it has to move on.
LEMMA TimerRight ==
    ASSUME RoomsInv, NEW c \in RoomCodes, BotTimer(c) PROVE RoomsInv'
<1> DEFINE party == [rooms[c] EXCEPT !.timers = @ - 1]
<1>1. /\ rooms[c] # Nobody /\ rooms[c].timers > 0 /\ UNCHANGED <<sock, roomCode, queues>>
      /\ \/ /\ party.status = "playing" /\ party.due
            /\ \E next \in Outcomes(party, FALSE) : rooms' = [rooms EXCEPT ![c] = Scheduled(next)]
         \/ ~(party.status = "playing" /\ party.due) /\ rooms' = [rooms EXCEPT ![c] = party]
  BY DEF BotTimer
<1>2. RoomInv(rooms[c]) /\ rooms[c] \in Room
  BY <1>1 DEF RoomsInv, Housed, RoomInv, Seated
<1>3. /\ party \in Room /\ party.seats = rooms[c].seats /\ party.status = rooms[c].status
      /\ party.game = rooms[c].game /\ party.due = rooms[c].due /\ party.loop = rooms[c].loop
  BY <1>1, <1>2 DEF Room
<1> HIDE DEF party
<1>4. Seated(party)
  BY <1>2, <1>3 DEF RoomInv, Seated
<1>5. CASE party.status = "playing" /\ party.due
  <2>1. PICK next \in Outcomes(party, FALSE) : rooms' = [rooms EXCEPT ![c] = Scheduled(next)]
    BY <1>1, <1>5
  <2>2. party.game \notin Ticking
    BY <1>4, <1>5 DEF Seated
  <2>3. Seated(next) /\ next.seats = party.seats
    BY <1>4, <1>5, <2>2, OutcomesSeated
  <2>4. RoomInv(Scheduled(next)) /\ Scheduled(next).seats = rooms[c].seats
    BY <1>3, <2>3, ScheduledRuns
  <2> QED BY <1>1, <2>1, <2>4, SameSeats
<1>6. CASE ~(party.status = "playing" /\ party.due)
  <2>1. RoomInv(party) /\ rooms' = [rooms EXCEPT ![c] = party]
    BY <1>1, <1>4, <1>6 DEF RoomInv, Clocked
  <2> QED BY <1>1, <1>3, <2>1, SameSeats
<1> QED BY <1>5, <1>6

LEMMA TickRight ==
    ASSUME RoomsInv, NEW c \in RoomCodes, Tick(c) PROVE RoomsInv'
<1>1. PICK party \in Room : party = rooms[c] /\ RoomInv(party) /\ party # Nobody
  BY DEF Tick, RoomsInv, Housed
<1>2. PICK over : over = [party EXCEPT !.status = "over", !.loop = FALSE]
  OBVIOUS
<1>3. /\ over \in Room /\ over.seats = party.seats /\ over.status = "over" /\ ~over.loop
      /\ over.game = party.game /\ over.due = party.due
  BY <1>2 DEF Room
<1>4. RoomInv(over)
  BY <1>1, <1>3 DEF RoomInv, Seated, Clocked
<1>5. rooms' = [rooms EXCEPT ![c] = over] /\ UNCHANGED <<sock, roomCode, queues>>
  BY <1>1, <1>2 DEF Tick
<1> QED BY <1>1, <1>3, <1>4, <1>5, SameSeats

\* Sockets come and go; one that closes keeps its room and its place until its
\* close event is handled.
LEMMA SocketRight ==
    ASSUME RoomsInv, NEW w \in Players, Connect(w) \/ Drop(w) PROVE RoomsInv'
<1>1. UNCHANGED <<roomCode, rooms, queues>>
  BY DEF Connect, Drop
<1>2. sock \in [Players -> {"new", "open", "closing"}] /\ WaitsFor(queues, roomCode, sock)
  BY DEF RoomsInv
<1>3. PICK ready2 \in [Players -> {"new", "open", "closing"}] :
          /\ ready2 = sock' /\ ready2[w] # "new" /\ \A p \in Players \ {w} : ready2[p] = sock[p]
          /\ ready2[w] = "open" => sock[w] = "new"
  BY <1>2 DEF Connect, Drop
<1>4. \A g \in Games : \A p \in Range(queues[g]) : p \in Players
  BY <1>2 DEF WaitsFor, Range
<1>5. WaitsFor(queues, roomCode, ready2)
  <2>1. \A g \in Games : \A p \in Range(queues[g]) : ready2[p] # "new" /\ (ready2[p] = "open" => sock[p] = "open")
    BY <1>2, <1>3, <1>4 DEF WaitsFor
  <2> QED BY <1>2, <2>1, QueueStays
<1> QED BY <1>1, <1>3, <1>5 DEF RoomsInv, Housed, WaitsFor, Free

LEMMA CancelRight ==
    ASSUME RoomsInv, NEW w \in Players, Cancel(w) PROVE RoomsInv'
<1>1. WaitsFor(queues, roomCode, sock) /\ queues' = Unqueued(w) /\ UNCHANGED <<sock, roomCode, rooms>>
  BY DEF Cancel, RoomsInv
<1>2. WaitsFor(Unqueued(w), roomCode, sock)
  BY <1>1, Unqueuing
<1> QED BY <1>1, <1>2 DEF RoomsInv, Housed, WaitsFor, Free

-----------------------------------------------------------------------------
LEMMA RoomsInit ==
    ASSUME GameInit PROVE RoomsInv
<1>1. \A g \in Games : Range(queues[g]) = {} /\ IsInjective(queues[g])
  BY DEF GameInit, Range, IsInjective
<1>2. queues \in [Games -> Seq(Players)]
  BY DEF GameInit
<1>3. WaitsFor(queues, roomCode, sock)
  BY <1>1, <1>2 DEF WaitsFor
<1>4. /\ rooms \in [RoomCodes -> Room \cup {Nobody}] /\ \A c \in RoomCodes : rooms[c] = Nobody
      /\ roomCode \in [Players -> RoomCodes \cup {Nobody}] /\ \A w \in Players : roomCode[w] = Nobody
  BY DEF GameInit
<1>5. RoomCodes \ Free(rooms) = {} /\ Cardinality({}) = 0 /\ MaxRooms \in Nat
  BY <1>4, RoomAssumption, FS_EmptySet, FS_CardinalityType DEF Free
<1>6. Housed(rooms, roomCode)
  BY <1>4, <1>5, RoomAssumption DEF Housed
<1> QED BY <1>3, <1>6 DEF RoomsInv, GameInit

\* A handler that throws ends the process, and the next starts without rooms.
LEMMA ThrowRight ==
    ASSUME NEW w \in Players, Throw(w) PROVE RoomsInv'
<1>1. \A g \in Games : Range(queues'[g]) = {} /\ IsInjective(queues'[g])
  BY DEF Throw, Range, IsInjective
<1>2. queues' \in [Games -> Seq(Players)]
  BY DEF Throw
<1>3. WaitsFor(queues', roomCode', sock')
  BY <1>1, <1>2 DEF WaitsFor
<1>4. /\ rooms' \in [RoomCodes -> Room \cup {Nobody}] /\ \A c \in RoomCodes : rooms'[c] = Nobody
      /\ roomCode' \in [Players -> RoomCodes \cup {Nobody}] /\ \A v \in Players : roomCode'[v] = Nobody
  BY DEF Throw
<1>5. RoomCodes \ Free(rooms') = {} /\ Cardinality({}) = 0 /\ MaxRooms \in Nat
  BY <1>4, RoomAssumption, FS_EmptySet, FS_CardinalityType DEF Free
<1>6. Housed(rooms', roomCode')
  BY <1>4, <1>5, RoomAssumption DEF Housed
<1>7. sock' \in [Players -> {"new", "open", "closing"}]
  BY DEF Throw
<1> QED BY <1>3, <1>6, <1>7 DEF RoomsInv, Housed, WaitsFor, Free

LEMMA RoomsStep ==
    ASSUME RoomsInv, [GameNext]_gameVars PROVE RoomsInv'
<1>1. CASE UNCHANGED gameVars
  BY <1>1 DEF gameVars, RoomsInv, Housed, WaitsFor, Free
<1>2. ASSUME NEW w \in Players, Leave(w) \/ Close(w) PROVE RoomsInv'
  <2>1. /\ queues' = Unqueued(w) /\ rooms' = Left(rooms, w) /\ roomCode' = [roomCode EXCEPT ![w] = Nobody]
        /\ sock' \in [Players -> {"new", "open", "closing"}] /\ \A p \in Players \ {w} : sock'[p] = sock[p]
    BY <1>2 DEF Leave, Close, RoomsInv
  <2> QED BY <2>1, LeaveRight
<1>3. ASSUME NEW w \in Players, NEW g \in Games, CreateRoom(w, g) \/ CreateBotRoom(w, g) PROVE RoomsInv'
  BY <1>3, CreateRight DEF CreateRoom, CreateBotRoom
<1> QED BY <1>1, <1>2, <1>3, CancelRight, MoveRight, RematchRight, SocketRight, MatchRight, JoinRight,
           TimerRight, TickRight, ThrowRight DEF GameNext

\* Rooms, sockets and queues agree after any sequence of messages and closings
\* (RoomsSound), for any number of sockets, codes and games: a socket sits in the
\* one room its roomCode names, rooms hold one or two different players within
\* MAX_ROOMS, and no two connected sockets wait for the same game.
THEOREM RoomsAreSound == GameSpec => []RoomsSound
<1>1. GameInit => RoomsInv
  BY RoomsInit
<1>2. RoomsInv /\ [GameNext]_gameVars => RoomsInv'
  BY RoomsStep
<1>3. RoomsInv => RoomsSound
  <2> SUFFICES ASSUME RoomsInv PROVE RoomsSound
    OBVIOUS
  <2>1. Size <= MaxRooms
    <3>1. {c \in RoomCodes : rooms[c] # Nobody} = RoomCodes \ Free(rooms)
      BY DEF Free
    <3> QED BY <3>1 DEF Size, RoomsInv, Housed
  <2>2. SeatsAgree
    BY <2>1 DEF SeatsAgree, RoomsInv, Housed, RoomInv, Seated
  <2>3. QueuesPair
    <3> SUFFICES ASSUME NEW g \in Games
        PROVE  /\ \A i \in DOMAIN queues[g] :
                     /\ roomCode[queues[g][i]] = Nobody /\ sock[queues[g][i]] # "new"
                     /\ \A h \in Games \ {g} : queues[g][i] \notin Range(queues[h])
               /\ IsInjective(queues[g])
               /\ \A i, j \in DOMAIN queues[g] : Open(queues[g][i]) /\ Open(queues[g][j]) => i = j
      BY DEF QueuesPair
    <3>1. WaitsFor(queues, roomCode, sock)
      BY DEF RoomsInv
    <3>2. \A i \in DOMAIN queues[g] : queues[g][i] \in Range(queues[g])
      BY DEF Range
    <3>3. IsInjective(queues[g])
      BY <3>1 DEF WaitsFor
    <3>4. \A i, j \in DOMAIN queues[g] : queues[g][i] = queues[g][j] => i = j
      BY <3>3 DEF IsInjective
    <3> QED BY <3>1, <3>2, <3>3, <3>4 DEF WaitsFor, Open
  <2> QED BY <2>2, <2>3 DEF RoomsSound
<1> QED BY <1>1, <1>2, <1>3, PTL DEF GameSpec

\* A tick loop runs for a live game with a tick and for no other, and a timer is
\* pending whenever the bot is to act (ClockworkRuns): no game against the CPU
\* stalls, whoever leaves, joins, moves or asks for a rematch meanwhile.
THEOREM ClockworkAlwaysRuns == GameSpec => []ClockworkRuns
<1>1. GameInit => RoomsInv
  BY RoomsInit
<1>2. RoomsInv /\ [GameNext]_gameVars => RoomsInv'
  BY RoomsStep
<1>3. RoomsInv => ClockworkRuns
  BY DEF RoomsInv, Housed, RoomInv, Seated, Clocked, ClockworkRuns
<1> QED BY <1>1, <1>2, <1>3, PTL DEF GameSpec

-----------------------------------------------------------------------------
(* Nim *)

NimState == [status : {"playing", "over"}, winner : {None, 0, 1}, turn : Seats, remaining : 0..NimStart]

\* With the bot at the table the person always faces a losing count and the bot
\* never does, so that it is the person who takes the last stick.
Residues ==
    vsBot /\ NimStart % 4 = 1 =>
        IF state.status = "over" THEN state.winner = 1
        ELSE state.turn = 0 <=> state.remaining % 4 = 1

NimInv ==
    /\ game = "nim21" /\ vsBot \in BOOLEAN /\ state \in NimState
    /\ state.status = "playing" => state.remaining > 0
    /\ Residues

\* Both players' moves: what an accepted one makes of the game.
LEMMA Taken ==
    ASSUME NEW s \in NimState, s.status = "playing", s.remaining > 0, NEW i \in Seats, i = s.turn,
           NEW take \in NimTakes, take <= s.remaining
    PROVE  LET t == NimInput(s, i, take)
           IN  /\ t \in NimState
               /\ IF take = s.remaining THEN t.status = "over" /\ t.winner = Other(i)
                  ELSE /\ t.status = "playing" /\ t.remaining = s.remaining - take
                       /\ t.remaining > 0 /\ t.turn = Other(i)
<1>1. take \in Nat \ {0} /\ s.remaining \in Nat /\ s.remaining <= NimStart /\ Other(i) \in Seats
  BY NimStartAssumption DEF NimState, NimTakes, NimMaxTake, Seats, Other
<1>2. CASE take = s.remaining
  <2> DEFINE q == [s EXCEPT !.remaining = 0]
             t == [q EXCEPT !.status = "over", !.winner = Other(i)]
  <2>1. NimInput(s, i, take) = t
    BY <1>2, <1>1 DEF NimInput, Finished
  <2>2. q \in NimState
    BY NimStartAssumption DEF NimState
  <2> HIDE DEF q
  <2>3. t \in NimState /\ t.status = "over" /\ t.winner = Other(i)
    BY <2>2, <1>1 DEF NimState, Seats
  <2>4. QED  BY <2>1, <2>3, <1>2
<1>3. CASE take # s.remaining
  <2> DEFINE t == [s EXCEPT !.remaining = @ - take, !.turn = Other(i)]
  <2>1. NimInput(s, i, take) = t
    BY <1>3, <1>1 DEF NimInput
  <2>2. s.remaining - take \in 0..NimStart /\ s.remaining - take > 0
    BY <1>1, <1>3, NimStartAssumption
  <2>3. t \in NimState
    BY <2>2, <1>1 DEF NimState
  <2>4. t.status = "playing" /\ t.remaining = s.remaining - take /\ t.turn = Other(i)
    BY <1>1 DEF NimState
  <2>5. QED  BY <2>1, <2>2, <2>3, <2>4, <1>3
<1>4. QED  BY <1>2, <1>3

\* The first state is won for the bot.
LEMMA NimBegins == NimInit => NimInv
<1> SUFFICES ASSUME NimInit PROVE NimInv
  OBVIOUS
<1>1. state \in NimState /\ state.status = "playing" /\ state.turn = 0 /\ state.remaining = NimStart
  BY NimStartAssumption DEF NimInit, NimReady, NimState, Seats
<1>2. QED  BY <1>1, NimStartAssumption DEF NimInit, NimInv, Residues

\* So is the first of every later game.
LEMMA NimAgain == ASSUME NimRematch, vsBot \in BOOLEAN PROVE NimInv'
<1>1. game' = "nim21" /\ vsBot' \in BOOLEAN /\ state' = NimReady
  BY DEF NimRematch
<1>2. state' \in NimState /\ state'.status = "playing" /\ state'.turn = 0 /\ state'.remaining = NimStart
  BY <1>1, NimStartAssumption DEF NimReady, NimState, Seats
<1> QED BY <1>1, <1>2, NimStartAssumption DEF NimInv, Residues

\* What the bot takes is on the table and leaves the person a losing count.
LEMMA NimAnswer ==
    ASSUME NEW s \in NimState, s.remaining > 0
    PROVE  /\ NimBot(s) \in NimTakes /\ NimBot(s) <= s.remaining
           /\ s.remaining % 4 # 1 => NimBot(s) < s.remaining /\ (s.remaining - NimBot(s)) % 4 = 1
<1>1. s.remaining \in Nat \ {0}
  BY NimStartAssumption DEF NimState
<1> DEFINE r == s.remaining
<1>2. (r - 1) % 4 \in 0..3 /\ (r - 1) % 4 <= r - 1
  BY <1>1
<1>3. r % 4 # 1 => (r - 1) % 4 # 0
  BY <1>1
<1>4. (r - ((r - 1) % 4)) % 4 = 1
  BY <1>1
<1>5. QED  BY <1>1, <1>2, <1>3, <1>4 DEF NimBot, NimTakes, NimMaxTake

\* Every turn leaves it won for the bot.
LEMMA NimStep == NimInv /\ [NimNext]_tableVars => NimInv'
<1> SUFFICES ASSUME NimInv, [NimNext]_tableVars PROVE NimInv'
  OBVIOUS
<1>1. CASE UNCHANGED tableVars
  BY <1>1 DEF NimInv, Residues, tableVars
<1>2. ASSUME NEW i \in Seats, NimMove(i) PROVE NimInv'
  <2>1. PICK take \in NimTakes : state' = NimInput(state, i, take)
    BY <1>2 DEF NimMove
  <2>2. state \in NimState /\ state.status = "playing" /\ state.remaining > 0 /\ game' = game
        /\ vsBot' = vsBot /\ game = "nim21" /\ vsBot \in BOOLEAN /\ (vsBot => i = 0)
    BY <1>2 DEF NimMove, MayMove, NimInv
  <2>3. CASE i # state.turn \/ take > state.remaining
    <3>1. state' = state
      BY <2>1, <2>3 DEF NimInput
    <3>2. QED  BY <3>1, <2>2 DEF NimInv, Residues
  <2>4. CASE i = state.turn /\ take <= state.remaining
    <3> DEFINE t == NimInput(state, i, take)
    <3>1. /\ t \in NimState
          /\ IF take = state.remaining THEN t.status = "over" /\ t.winner = Other(i)
             ELSE /\ t.status = "playing" /\ t.remaining = state.remaining - take
                  /\ t.remaining > 0 /\ t.turn = Other(i)
      BY <2>2, <2>4, Taken
    <3>2. ASSUME vsBot, NimStart % 4 = 1 PROVE i = 0 /\ state.remaining % 4 = 1
      BY <3>2, <2>2, <2>4 DEF NimInv, Residues
    <3>3. take \in 1..3 /\ state.remaining \in Nat /\ Other(0) = 1
      BY <2>2, NimStartAssumption DEF NimTakes, NimMaxTake, NimState, Other
    <3>4. state.remaining % 4 = 1 => (state.remaining - take) % 4 # 1
      BY <3>3, <2>4
    <3>5. t.status = "playing" => t.remaining > 0
      BY <3>1
    <3>6. state' = t
      BY <2>1
    <3> HIDE DEF t
    <3>7. Residues'
      <4> SUFFICES ASSUME vsBot, NimStart % 4 = 1
                   PROVE  IF t.status = "over" THEN t.winner = 1 ELSE t.turn = 0 <=> t.remaining % 4 = 1
        BY <3>6, <2>2 DEF Residues
      <4>1. QED  BY <3>1, <3>2, <3>3, <3>4
    <3>8. QED  BY <3>1, <3>5, <3>6, <3>7, <2>2 DEF NimInv
  <2>5. QED  BY <2>3, <2>4, <2>2, NimStartAssumption DEF NimState, NimTakes, NimMaxTake
<1>3. CASE NimBotMove
  <2> DEFINE take == NimBot(state)
             t == NimInput(state, 1, take)
  <2>1. state \in NimState /\ state.status = "playing" /\ state.remaining > 0 /\ game' = game
        /\ vsBot' = vsBot /\ game = "nim21" /\ vsBot = TRUE /\ state.turn = 1 /\ state' = t
    BY <1>3 DEF NimBotMove, BotMayMove, NimInv
  <2>2. /\ take \in NimTakes /\ take <= state.remaining
        /\ state.remaining % 4 # 1 => take < state.remaining /\ (state.remaining - take) % 4 = 1
    BY <2>1, NimAnswer
  <2>3. 1 \in Seats /\ Other(1) = 0
    BY DEF Seats, Other
  <2> HIDE DEF take
  <2>4. /\ t \in NimState
        /\ IF take = state.remaining THEN t.status = "over" /\ t.winner = Other(1)
           ELSE /\ t.status = "playing" /\ t.remaining = state.remaining - take
                /\ t.remaining > 0 /\ t.turn = Other(1)
    BY <2>1, <2>2, <2>3, Taken
  <2>5. ASSUME NimStart % 4 = 1 PROVE state.remaining % 4 # 1
    BY <2>5, <2>1 DEF NimInv, Residues
  <2> HIDE DEF t
  <2>6. Residues'
    <3> SUFFICES ASSUME NimStart % 4 = 1
                 PROVE  IF t.status = "over" THEN t.winner = 1 ELSE t.turn = 0 <=> t.remaining % 4 = 1
      BY <2>1 DEF Residues
    <3>1. take # state.remaining
      BY <2>1, <2>2, <2>5, NimStartAssumption DEF NimState, NimTakes, NimMaxTake
    <3>2. QED  BY <3>1, <2>2, <2>3, <2>4, <2>5
  <2>7. QED  BY <2>1, <2>4, <2>6 DEF NimInv
<1>4. CASE NimRematch
  BY <1>4, NimAgain DEF NimInv
<1>5. QED  BY <1>1, <1>2, <1>3, <1>4 DEF NimNext

\* The bot that is said to play perfectly (nim21.js:2) does, from every first
\* count that loses for who opens.
THEOREM PerfectNim == NimSpec => []NimBotWins
<1>1. NimInv => NimBotWins
  BY DEF NimInv, Residues, NimBotWins
<1>2. QED  BY NimBegins, NimStep, <1>1, PTL DEF NimSpec

-----------------------------------------------------------------------------
(* Rock-paper-scissors, pong, tic-tac-toe *)

\* A first to goal: nobody has reached it while they play, and then the winner alone.
Raced(s, goal) ==
    /\ s.status = "playing" => \A i \in Seats : s.scores[i + 1] < goal
    /\ s.status = "over" => \E i \in Seats : /\ s.winner = i /\ s.scores[i + 1] = goal
                                             /\ s.scores[Other(i) + 1] < goal

RpsState == [status : {"playing", "over"}, winner : {None} \cup Seats,
             scores : [1..2 -> Nat], choices : [1..2 -> Hands \cup {None}]]
RpsInv(s) == /\ s \in RpsState /\ Raced(s, WinRounds)
             /\ s.status = "playing" => \E k \in 1..2 : s.choices[k] = None

PongState == [status : {"playing", "over"}, winner : {None} \cup Seats,
              scores : [1..2 -> Nat], heading : Seats]
PongInv(s) == s \in PongState /\ Raced(s, WinScore)

LEMMA RpsBegins == RpsInv(RpsReady)
<1> DEFINE two == <<0, 0>>
<1>1. two \in [1..2 -> Nat] /\ \A i \in Seats : two[i + 1] < WinRounds
  BY TurnAssumption DEF Seats
<1>2. <<None, None>> \in [1..2 -> Hands \cup {None}]
  OBVIOUS
<1> QED BY <1>1, <1>2 DEF RpsInv, RpsState, RpsReady, Raced

\* A round is won by one hand at most, so one player at most reaches the goal in it.
LEMMA RoundKeeps ==
    ASSUME NEW s \in RpsState, s.status = "playing", Raced(s, WinRounds)
    PROVE  RpsInv(RpsResolved(s))
<1> DEFINE one == IF Beats(s.choices[1], s.choices[2]) THEN 1 ELSE 0
           two == IF Beats(s.choices[2], s.choices[1]) THEN 1 ELSE 0
           scores == <<s.scores[1] + one, s.scores[2] + two>>
           next == [s EXCEPT !.scores = scores, !.choices = <<None, None>>]
           won == IF scores[1] > scores[2] THEN 0 ELSE 1
<1>1. s.scores[1] \in Nat /\ s.scores[2] \in Nat /\ s.scores[1] < WinRounds /\ s.scores[2] < WinRounds
  BY DEF RpsState, Raced, Seats
<1>2. one \in {0, 1} /\ two \in {0, 1} /\ ~(one = 1 /\ two = 1)
  <2>1. s.choices[1] \in Hands \cup {None} /\ s.choices[2] \in Hands \cup {None}
    BY DEF RpsState
  <2> QED BY <2>1 DEF Beats, Hands, None
<1> HIDE DEF one, two
<1>3. /\ scores \in [1..2 -> Nat] /\ WinRounds \in Nat
      /\ scores[1] <= WinRounds /\ scores[2] <= WinRounds
      /\ ~(scores[1] = WinRounds /\ scores[2] = WinRounds)
  BY <1>1, <1>2, TurnAssumption
<1>4. <<None, None>> \in [1..2 -> Hands \cup {None}]
  OBVIOUS
<1>5. next \in RpsState /\ next.scores = scores /\ next.status = "playing" /\ next.choices[1] = None
  BY <1>3, <1>4 DEF RpsState
<1>6. RpsResolved(s) = IF scores[1] >= WinRounds \/ scores[2] >= WinRounds
                         THEN Finished(next, won) ELSE next
  BY DEF RpsResolved, one, two
<1> HIDE DEF scores, next
<1>7. CASE scores[1] >= WinRounds \/ scores[2] >= WinRounds
  <2>1. won \in Seats /\ scores[won + 1] = WinRounds /\ scores[Other(won) + 1] < WinRounds
    BY <1>3, <1>7 DEF Seats, Other
  <2> HIDE DEF won
  <2>2. Finished(next, won) \in RpsState /\ Finished(next, won).scores = scores
        /\ Finished(next, won).status = "over" /\ Finished(next, won).winner = won
    BY <1>5, <2>1 DEF Finished, RpsState
  <2> QED BY <1>6, <1>7, <2>1, <2>2 DEF RpsInv, Raced
<1>8. CASE ~(scores[1] >= WinRounds \/ scores[2] >= WinRounds)
  <2>1. \A i \in Seats : scores[i + 1] < WinRounds
    BY <1>3, <1>8 DEF Seats
  <2> QED BY <1>5, <1>6, <1>8, <2>1 DEF RpsInv, Raced
<1> QED BY <1>7, <1>8

LEMMA RpsKeeps ==
    ASSUME NEW s, RpsInv(s), NEW i \in Seats, NEW hand \in Hands
    PROVE  RpsInv(RpsInput(s, i, hand))
<1> DEFINE next == [s EXCEPT !.choices[i + 1] = hand]
<1>1. CASE s.status # "playing" \/ s.choices[i + 1] # None
  BY <1>1 DEF RpsInput
<1>2. CASE ~(s.status # "playing" \/ s.choices[i + 1] # None)
  <2>1. next \in RpsState /\ next.status = "playing" /\ next.scores = s.scores
    BY <1>2 DEF RpsInv, RpsState, Seats
  <2>2. Raced(next, WinRounds)
    BY <1>2, <2>1 DEF RpsInv, Raced
  <2>3. RpsInput(s, i, hand) = IF None \in {next.choices[1], next.choices[2]} THEN next ELSE RpsResolved(next)
    BY <1>2 DEF RpsInput
  <2> HIDE DEF next
  <2> QED BY <2>1, <2>2, <2>3, RoundKeeps DEF RpsInv
<1> QED BY <1>1, <1>2

LEMMA PongBegins ==
    ASSUME NEW s \in PongReady
    PROVE  PongInv(s)
<1> DEFINE two == <<0, 0>>
<1>1. two \in [1..2 -> Nat] /\ \A i \in Seats : two[i + 1] < WinScore
  BY ArcadeAssumption DEF Seats
<1> QED BY <1>1 DEF PongInv, PongState, PongReady, Raced

LEMMA PongKeeps ==
    ASSUME NEW s, PongInv(s), s.status = "playing", NEW t \in PongTicked(s)
    PROVE  PongInv(t)
<1>0. s.heading \in Seats /\ Other(s.heading) \in Seats
  BY DEF PongInv, PongState, Seats, Other
<1>1. CASE t = s
  BY <1>1
<1>2. CASE t = [s EXCEPT !.heading = Other(@)]
  <2>1. t \in PongState /\ t.status = s.status /\ t.scores = s.scores /\ t.winner = s.winner
    BY <1>0, <1>2 DEF PongInv, PongState
  <2> QED BY <2>1 DEF PongInv, Raced
<1>3. CASE t = Scored(s, Other(s.heading))
  <2>1. PICK i \in Seats : i = Other(s.heading)
    BY <1>0
  <2> DEFINE next == [s EXCEPT !.scores[i + 1] = @ + 1]
  <2>2. next \in PongState /\ next.status = "playing" /\ next.scores[i + 1] = s.scores[i + 1] + 1
        /\ next.scores[Other(i) + 1] = s.scores[Other(i) + 1]
    BY DEF PongInv, PongState, Seats, Other
  <2>3. /\ s.scores[i + 1] < WinScore /\ s.scores[Other(i) + 1] < WinScore /\ WinScore \in Nat
        /\ s.scores[i + 1] \in Nat /\ s.scores[Other(i) + 1] \in Nat
    BY ArcadeAssumption DEF PongInv, PongState, Raced, Seats, Other
  <2>4. t = IF next.scores[i + 1] >= WinScore THEN Finished(next, i) ELSE [next EXCEPT !.heading = i]
    BY <1>3, <2>1 DEF Scored
  <2> HIDE DEF next
  <2>5. CASE next.scores[i + 1] >= WinScore
    <3>1. t \in PongState /\ t.status = "over" /\ t.winner = i /\ t.scores = next.scores
      BY <2>2, <2>4, <2>5 DEF PongState, Finished
    <3> QED BY <2>2, <2>3, <2>5, <3>1 DEF PongInv, Raced
  <2>6. CASE ~(next.scores[i + 1] >= WinScore)
    <3>1. t \in PongState /\ t.status = "playing" /\ t.scores = next.scores
      BY <2>2, <2>4, <2>6 DEF PongState
    <3>2. \A j \in Seats : j = i \/ j = Other(i)
      BY DEF Seats, Other
    <3> QED BY <2>2, <2>3, <2>6, <3>1, <3>2 DEF PongInv, Raced
  <2> QED BY <2>5, <2>6
<1> QED BY <1>1, <1>2, <1>3 DEF PongTicked

\* What a game of lines is worth, where lined are the stones that have a line: none
\* while they play and there is room, and in the end the winner's alone, or none and
\* the board is full.
Settled(s, lined) ==
    /\ s.status = "playing" => lined = {} /\ s.winner = None /\ \E c \in DOMAIN s.board : s.board[c] = 0
    /\ s.status = "over" => \/ \E i \in Seats : s.winner = i /\ lined = {i + 1}
                            \/ s.winner = Draw /\ lined = {} /\ \A c \in DOMAIN s.board : s.board[c] # 0

LinesState(cells) == [status : {"playing", "over"}, winner : {None, Draw} \cup Seats,
                      turn : Seats, board : [cells -> 0..2]]

\* What a stone of seat i at a cell makes of the game.
Concluded(s, i, c, lined) ==
    LET next == [s EXCEPT !.board[c] = i + 1]
    IN  IF i + 1 \in lined THEN Finished(next, i)
        ELSE IF \A e \in DOMAIN s.board : next.board[e] # 0 THEN Finished(next, Draw)
        ELSE [next EXCEPT !.turn = Other(i)]

LEMMA StoneDecides ==
    ASSUME NEW cells, NEW s \in LinesState(cells), s.status = "playing", NEW i \in Seats, NEW c \in cells,
           s.winner = None, NEW lined \in SUBSET {i + 1}, NEW t, t = Concluded(s, i, c, lined)
    PROVE  /\ t \in LinesState(cells) /\ t.board = [s.board EXCEPT ![c] = i + 1]
           /\ Settled(t, lined)
<1> DEFINE next == [s EXCEPT !.board[c] = i + 1]
<1>1. Other(i) \in Seats /\ i + 1 \in 1..2
  BY DEF Seats, Other
<1>2. next \in LinesState(cells) /\ next.board = [s.board EXCEPT ![c] = i + 1] /\ next.winner = None
      /\ next.status = "playing"
  BY <1>1 DEF LinesState
<1>4. t = IF i + 1 \in lined THEN Finished(next, i)
          ELSE IF \A e \in cells : next.board[e] # 0 THEN Finished(next, Draw)
          ELSE [next EXCEPT !.turn = Other(i)]
  BY DEF Concluded, LinesState
<1>5. DOMAIN next.board = cells /\ (lined = {} \/ lined = {i + 1})
  BY <1>2 DEF LinesState
<1> HIDE DEF next
<1>6. ASSUME NEW w \in {Draw} \cup Seats, t = Finished(next, w)
      PROVE  t \in LinesState(cells) /\ t.status = "over" /\ t.winner = w /\ t.board = next.board
  BY <1>2, <1>6 DEF LinesState, Finished
<1>7. CASE i + 1 \in lined
  <2>1. t \in LinesState(cells) /\ t.status = "over" /\ t.winner = i /\ t.board = next.board
    BY <1>4, <1>6, <1>7
  <2> QED BY <1>2, <1>5, <1>7, <2>1 DEF Settled
<1>8. CASE i + 1 \notin lined /\ \A e \in cells : next.board[e] # 0
  <2>1. t \in LinesState(cells) /\ t.status = "over" /\ t.winner = Draw /\ t.board = next.board
    BY <1>4, <1>6, <1>8
  <2> QED BY <1>2, <1>5, <1>8, <2>1 DEF Settled
<1>9. CASE i + 1 \notin lined /\ ~\A e \in cells : next.board[e] # 0
  <2>1. t \in LinesState(cells) /\ t.status = "playing" /\ t.winner = None /\ t.board = next.board
    BY <1>1, <1>2, <1>4, <1>9 DEF LinesState
  <2> QED BY <1>2, <1>5, <1>9, <2>1 DEF Settled
<1> QED BY <1>7, <1>8, <1>9

-----------------------------------------------------------------------------
(* Tic-tac-toe *)

TttLined(b) == {p \in 1..2 : HasLine(b, p)}
TttInv(s) == s \in LinesState(0..8) /\ Settled(s, TttLined(s.board))

LEMMA TttBegins == TttInv(TttReady)
<1> DEFINE b == [c \in 0..8 |-> 0]
<1>1. \A line \in TttLines : \E c \in line : c \in 0..8
  BY DEF TttLines
<1>2. TttLined(b) = {}
  BY <1>1 DEF HasLine, TttLined
<1>3. b \in [0..8 -> 0..2] /\ b[0] = 0 /\ 0 \in 0..8
  OBVIOUS
<1> HIDE DEF b
<1>4. TttReady = [status |-> "playing", winner |-> None, turn |-> 0, board |-> b]
  BY DEF TttReady, b
<1> QED BY <1>2, <1>3, <1>4 DEF TttInv, LinesState, Settled, Seats

LEMMA TttKeeps ==
    ASSUME NEW s, TttInv(s), s.status = "playing", NEW i \in Seats, NEW cell
    PROVE  TttInv(TttInput(s, i, cell))
<1> DEFINE board == [s.board EXCEPT ![cell] = i + 1]
           next == [s EXCEPT !.board[cell] = i + 1]
           lined == TttLined(board)
           t == TttInput(s, i, cell)
<1>1. CASE i # s.turn \/ cell \notin Blank(s.board)
  BY <1>1 DEF TttInput
<1>2. CASE ~(i # s.turn \/ cell \notin Blank(s.board))
  <2>1. cell \in 0..8 /\ s.board[cell] = 0 /\ s.board \in [0..8 -> 0..2] /\ s.winner = None
        /\ s \in LinesState(0..8) /\ TttLined(s.board) = {}
    BY <1>2 DEF TttInv, LinesState, Settled, Blank
  <2>2. i + 1 \in 1..2
    BY DEF Seats
  <2>3. board \in [0..8 -> 0..2] /\ DOMAIN board = 0..8 /\ next.board = board
    BY <2>1, <2>2 DEF LinesState
  <2>4. lined \in SUBSET {i + 1}
    <3> SUFFICES ASSUME NEW p \in 1..2, HasLine(board, p), p # i + 1 PROVE FALSE
      BY DEF TttLined
    <3>1. PICK line \in TttLines : \A c \in line : board[c] = p
      BY DEF HasLine
    <3>2. line \subseteq 0..8
      BY DEF TttLines
    <3>3. \A c \in line : s.board[c] = p
      BY <2>1, <2>2, <3>1, <3>2
    <3> QED BY <2>1, <3>3 DEF HasLine, TttLined
  <2>5. /\ Blank(next.board) = {} <=> \A e \in 0..8 : next.board[e] # 0
        /\ HasLine(next.board, i + 1) <=> i + 1 \in lined
    BY <2>2, <2>3 DEF Blank, TttLined
  <2>6. t = Concluded(s, i, cell, lined)
    BY <1>2, <2>1, <2>5 DEF TttInput, Concluded
  <2> HIDE DEF lined, t
  <2>7. /\ t \in LinesState(0..8) /\ t.board = board /\ Settled(t, lined)
    BY <2>1, <2>4, <2>6, StoneDecides
  <2> QED BY <2>7 DEF TttInv, t, lined
<1> QED BY <1>1, <1>2

Cell == Int \X Int

LEMMA CompassIs ==
    /\ Compass = {<<0, 1>>, <<1, 0>>, <<1, 1>>, <<1, -1>>, <<0, -1>>, <<-1, 0>>, <<-1, -1>>, <<-1, 1>>}
    /\ Axes \subseteq Compass /\ \A d \in Compass : Back(d) \in Compass
<1>1. /\ Back(<<0, 1>>) = <<0, -1>> /\ Back(<<1, 0>>) = <<-1, 0>> /\ Back(<<1, 1>>) = <<-1, -1>>
      /\ Back(<<1, -1>>) = <<-1, 1>> /\ Back(<<0, -1>>) = <<0, 1>> /\ Back(<<-1, 0>>) = <<1, 0>>
      /\ Back(<<-1, -1>>) = <<1, 1>> /\ Back(<<-1, 1>>) = <<1, -1>>
  <2>1. \A u, v \in Int : Back(<<u, v>>) = <<-u, -v>>
    BY DEF Back
  <2>2. -1 \in Int /\ \A u \in Int : (u = 0 => -u = 0) /\ (u = -1 => -u = 1)
    OBVIOUS
  <2> QED BY <2>1, <2>2
<1>2. {Back(d) : d \in Axes} = {<<0, -1>>, <<-1, 0>>, <<-1, -1>>, <<-1, 1>>}
  BY <1>1 DEF Axes
<1>3. Compass = {<<0, 1>>, <<1, 0>>, <<1, 1>>, <<1, -1>>, <<0, -1>>, <<-1, 0>>, <<-1, -1>>, <<-1, 1>>}
  BY <1>2 DEF Compass, Axes
<1>4. \A d \in Compass : Back(d) \in Compass
  BY <1>1, <1>3
<1> QED BY <1>3, <1>4 DEF Compass

\* Steps add up, and those back undo them.
LEMMA Steps ==
    ASSUME NEW c \in Cell, NEW d \in Compass, NEW j \in Int, NEW k \in Int
    PROVE  /\ Step(c, d, k) \in Cell /\ Step(c, d, 0) = c
           /\ Step(Step(c, d, j), d, k) = Step(c, d, j + k)
           /\ Step(c, Back(d), k) = Step(c, d, -k)
<1>1. PICK x \in Int, y \in Int : c = <<x, y>>
  BY DEF Cell
<1>2. PICK u \in {-1, 0, 1}, v \in {-1, 0, 1} : d = <<u, v>>
  BY CompassIs
<1>3. /\ Step(c, d, k) = <<x + k * u, y + k * v>> /\ Step(c, d, 0) = <<x + 0 * u, y + 0 * v>>
      /\ Step(Step(c, d, j), d, k) = <<(x + j * u) + k * u, (y + j * v) + k * v>>
      /\ Step(c, d, j + k) = <<x + (j + k) * u, y + (j + k) * v>>
      /\ Step(c, Back(d), k) = <<x + k * (-u), y + k * (-v)>>
      /\ Step(c, d, -k) = <<x + (-k) * u, y + (-k) * v>>
  BY <1>1, <1>2 DEF Step, Back
<1>4. \A w \in {-1, 0, 1}, z \in Int :
         /\ z + k * w \in Int /\ z + 0 * w = z /\ (z + j * w) + k * w = z + (j + k) * w
         /\ z + k * (-w) = z + (-k) * w
  OBVIOUS
<1> QED BY <1>1, <1>2, <1>3, <1>4 DEF Cell

LEMMA GridSize ==
    ASSUME NEW rows \in Nat \ {0}, NEW cols \in Nat \ {0}
    PROVE  /\ IsFiniteSet(Grid(rows, cols)) /\ Cardinality(Grid(rows, cols)) \in Nat
           /\ rows <= Cardinality(Grid(rows, cols)) /\ cols <= Cardinality(Grid(rows, cols))
           /\ Grid(rows, cols) \subseteq Cell
<1>1. IsFiniteSet(0..(rows - 1)) /\ Cardinality(0..(rows - 1)) = rows
  BY FS_Interval
<1>2. IsFiniteSet(0..(cols - 1)) /\ Cardinality(0..(cols - 1)) = cols
  BY FS_Interval
<1>3. IsFiniteSet(Grid(rows, cols)) /\ Cardinality(Grid(rows, cols)) = rows * cols
  <2> DEFINE xs == 0..(rows - 1)
             ys == 0..(cols - 1)
  <2> HIDE DEF xs, ys
  <2>1. IsFiniteSet(xs \X ys) /\ Cardinality(xs \X ys) = Cardinality(xs) * Cardinality(ys)
    BY <1>1, <1>2, FS_Product DEF xs, ys
  <2>2. Grid(rows, cols) = xs \X ys
    BY DEF Grid, xs, ys
  <2> QED BY <1>1, <1>2, <2>1, <2>2 DEF xs, ys
<1>4. rows * cols \in Nat /\ rows <= rows * cols /\ cols <= rows * cols
  OBVIOUS
<1> QED BY <1>3, <1>4 DEF Grid, Cell

\* A walk of more steps than there are cells leaves the board.
LEMMA WalkEnds ==
    ASSUME NEW rows \in Nat \ {0}, NEW cols \in Nat \ {0}, NEW c \in Grid(rows, cols), NEW d \in Compass
    PROVE  Step(c, d, Cardinality(Grid(rows, cols)) + 1) \notin Grid(rows, cols)
<1>1. PICK x \in 0..(rows - 1), y \in 0..(cols - 1) : c = <<x, y>>
  BY DEF Grid
<1>2. PICK n \in Nat : n = Cardinality(Grid(rows, cols)) /\ rows <= n /\ cols <= n
  BY GridSize
<1>3. PICK u \in {-1, 0, 1}, v \in {-1, 0, 1} : d = <<u, v>> /\ ~(u = 0 /\ v = 0)
  BY CompassIs
<1>4. Step(c, d, n + 1) = <<x + (n + 1) * u, y + (n + 1) * v>>
  BY <1>1, <1>3 DEF Step
<1>5. x + (n + 1) * u \in 0..(rows - 1) => u = 0
  BY <1>2, <1>3
<1>6. y + (n + 1) * v \in 0..(cols - 1) => v = 0
  BY <1>2, <1>3
<1> QED BY <1>2, <1>3, <1>4, <1>5, <1>6 DEF Grid

\* How far stones reach is the length of the run of them.
LEMMA ReachIs ==
    ASSUME NEW rows \in Nat \ {0}, NEW cols \in Nat \ {0}, NEW b, DOMAIN b = Grid(rows, cols),
           NEW c \in Grid(rows, cols), NEW d \in Compass, NEW p
    PROVE  /\ Reach(b, c, d, p) \in Nat /\ ~Holds(b, Step(c, d, Reach(b, c, d, p) + 1), p)
           /\ \A j \in 1..Reach(b, c, d, p) : Holds(b, Step(c, d, j), p)
<1> DEFINE T == {k \in Nat : ~Holds(b, Step(c, d, k + 1), p)}
           n == Cardinality(Grid(rows, cols))
<1>1. n \in Nat /\ n \in T
  BY WalkEnds, GridSize DEF Holds
<1> HIDE DEF n
<1>2. PICK k \in T : \A m \in T : k <= m
  <2>1. T \in SUBSET Nat /\ T # {}
    BY <1>1
  <2> HIDE DEF T
  <2> QED BY <2>1, NatMinimum
<1>3. k \in 0..n
  BY <1>1, <1>2
<1>4. ASSUME NEW j \in 1..k PROVE Holds(b, Step(c, d, j), p)
  <2>1. j - 1 \in Nat /\ j - 1 \notin T /\ (j - 1) + 1 = j
    BY <1>2, <1>3
  <2> QED BY <2>1
<1>5. \E r \in 0..Cardinality(DOMAIN b) :
         ~Holds(b, Step(c, d, r + 1), p) /\ \A j \in 1..r : Holds(b, Step(c, d, j), p)
  BY <1>2, <1>3, <1>4 DEF n
<1>6. /\ Reach(b, c, d, p) \in 0..Cardinality(DOMAIN b) /\ ~Holds(b, Step(c, d, Reach(b, c, d, p) + 1), p)
      /\ \A j \in 1..Reach(b, c, d, p) : Holds(b, Step(c, d, j), p)
  BY <1>5 DEF Reach
<1> QED BY <1>1, <1>6 DEF n

\* Where there was no line, one is there after a stone exactly if one goes through it.
LEMMA LineIsThrough ==
    ASSUME NEW rows \in Nat \ {0}, NEW cols \in Nat \ {0}, NEW b \in [Grid(rows, cols) -> 0..2],
           NEW c \in Grid(rows, cols), NEW p \in 1..2, ~LineOn(b, p)
    PROVE  LineThrough([b EXCEPT ![c] = p], c, p) <=> LineOn([b EXCEPT ![c] = p], p)
<1> DEFINE n == [b EXCEPT ![c] = p]
<1>0. DOMAIN n = Grid(rows, cols) /\ n[c] = p /\ c \in Cell /\ Need \in Nat \ {0}
      /\ Axes \subseteq Compass /\ \A d \in Axes : Back(d) \in Compass
  BY GridSize, CompassIs, BoardAssumption
<1>1. \A e \in Cell : e # c => (Holds(n, e, p) <=> Holds(b, e, p))
  BY DEF Holds
<1>2. Holds(n, c, p)
  BY <1>0 DEF Holds
<1>3. ASSUME NEW d \in Axes, NEW e \in {d, Back(d)}
      PROVE  /\ Reach(n, c, e, p) \in Nat /\ ~Holds(n, Step(c, e, Reach(n, c, e, p) + 1), p)
             /\ \A j \in 1..Reach(n, c, e, p) : Holds(n, Step(c, e, j), p)
  <2>1. e \in Compass
    BY <1>0
  <2> HIDE DEF n
  <2> QED BY <1>0, <2>1, ReachIs
<1> HIDE DEF n
<1>4. ASSUME NEW d \in Axes, 1 + Reach(n, c, d, p) + Reach(n, c, Back(d), p) >= Need
      PROVE  LineOn(n, p)
  <2>1. PICK r \in Nat, l \in Nat : r = Reach(n, c, d, p) /\ l = Reach(n, c, Back(d), p) /\ 1 + r + l >= Need
    BY <1>3, <1>4
  <2>2. PICK m \in 0..l : Need - 1 - m <= r /\ m <= Need - 1
    <3>1. CASE l <= Need - 1
      BY <1>0, <2>1, <3>1
    <3>2. CASE ~(l <= Need - 1)
      <4>1. Need - 1 \in 0..l /\ Need - 1 - (Need - 1) <= r
        BY <1>0, <2>1, <3>2
      <4> QED BY <4>1
    <3> QED BY <3>1, <3>2
  <2>3. ASSUME NEW k \in 0..(Need - 1) PROVE Holds(n, Step(Step(c, d, -m), d, k), p)
    <3>1. Step(Step(c, d, -m), d, k) = Step(c, d, k - m) /\ Step(c, d, 0) = c
      BY <1>0, <2>1, <2>2, Steps
    <3>2. CASE k = m
      BY <1>2, <3>1, <3>2, <2>2
    <3>3. CASE k > m
      <4>1. k - m \in 1..r
        BY <1>0, <2>1, <2>2, <3>3
      <4> QED BY <1>3, <2>1, <3>1, <4>1
    <3>4. CASE k < m
      <4>1. m - k \in 1..l /\ -(m - k) = k - m /\ m - k \in Int
        BY <1>0, <2>1, <2>2, <3>4
      <4>2. Step(c, Back(d), m - k) = Step(c, d, k - m)
        BY <1>0, <4>1, Steps
      <4> QED BY <1>3, <2>1, <3>1, <4>1, <4>2
    <3> QED BY <2>1, <2>2, <3>2, <3>3, <3>4
  <2>4. Step(c, d, -m) \in DOMAIN n
    <3>1. 0 \in 0..(Need - 1) /\ Step(Step(c, d, -m), d, 0) = Step(c, d, -m)
      BY <1>0, <2>2, Steps
    <3> QED BY <2>3, <3>1 DEF Holds
  <2> QED BY <2>3, <2>4 DEF LineOn
<1>5. ASSUME NEW e \in DOMAIN n, NEW d \in Axes, \A k \in 0..(Need - 1) : Holds(n, Step(e, d, k), p)
      PROVE  1 + Reach(n, c, d, p) + Reach(n, c, Back(d), p) >= Need
  <2>0. e \in Cell /\ d \in Compass
    BY <1>0, GridSize
  <2>1. PICK m \in 0..(Need - 1) : ~Holds(b, Step(e, d, m), p)
    BY <1>0 DEF LineOn
  <2>2. Step(e, d, m) = c /\ m \in Int
    <3>1. m \in Int /\ Step(e, d, m) \in Cell
      BY <2>0, Steps
    <3> QED BY <1>1, <1>5, <2>1, <3>1
  <2>3. PICK r \in Nat, l \in Nat : r = Reach(n, c, d, p) /\ l = Reach(n, c, Back(d), p)
    BY <1>3
  <2>4. r >= Need - 1 - m
    <3> SUFFICES ASSUME r < Need - 1 - m PROVE FALSE
      BY <1>0, <2>3
    <3>1. m + (r + 1) \in 0..(Need - 1) /\ r + 1 \in Int
      BY <1>0, <2>3
    <3>2. Step(c, d, r + 1) = Step(e, d, m + (r + 1))
      BY <2>0, <2>2, <3>1, Steps
    <3> QED BY <1>3, <1>5, <2>3, <3>1, <3>2
  <2>5. l >= m
    <3> SUFFICES ASSUME l < m PROVE FALSE
      BY <1>0, <2>3
    <3>1. m + (-(l + 1)) \in 0..(Need - 1) /\ l + 1 \in Int /\ -(l + 1) \in Int
      BY <1>0, <2>3
    <3>2. Step(c, d, -(l + 1)) = Step(e, d, m + (-(l + 1)))
      BY <2>0, <2>2, <3>1, Steps
    <3>3. Step(c, Back(d), l + 1) = Step(c, d, -(l + 1))
      BY <1>0, <2>0, <3>1, Steps
    <3> QED BY <1>3, <1>5, <2>3, <3>1, <3>2, <3>3
  <2> QED BY <1>0, <2>3, <2>4, <2>5
<1> QED BY <1>4, <1>5 DEF LineThrough, LineOn, n

\* A stone makes no line of the other's.
LEMMA OthersLine ==
    ASSUME NEW rows \in Nat \ {0}, NEW cols \in Nat \ {0}, NEW b \in [Grid(rows, cols) -> 0..2],
           NEW c \in Grid(rows, cols), NEW p \in 1..2, NEW q \in 1..2, p # q, ~LineOn(b, q)
    PROVE  ~LineOn([b EXCEPT ![c] = p], q)
<1> DEFINE n == [b EXCEPT ![c] = p]
<1>1. \A e : Holds(n, e, q) => Holds(b, e, q)
  BY DEF Holds
<1>2. DOMAIN n = DOMAIN b
  OBVIOUS
<1> QED BY <1>1, <1>2 DEF LineOn

\* The greatest of some numbers up to n.
LEMMA MaxIs ==
    ASSUME NEW n \in Nat, NEW T \in SUBSET (0..n), T # {}
    PROVE  Max(T) \in T /\ \A m \in T : m <= Max(T)
<1> DEFINE U == {n - m : m \in T}
<1>0. \A m \in T : m \in Nat /\ m <= n /\ n - m \in Nat
  OBVIOUS
<1>1. U \in SUBSET Nat /\ U # {}
  BY <1>0
<1> HIDE DEF U
<1>2. PICK u \in U : \A v \in U : u <= v
  BY <1>1, NatMinimum
<1>3. PICK k \in T : u = n - k
  BY <1>2 DEF U
<1>4. ASSUME NEW m \in T PROVE k >= m
  <2>1. n - m \in U
    BY DEF U
  <2>2. m \in 0..n /\ k \in 0..n /\ n - k <= n - m
    BY <1>2, <1>3, <2>1
  <2> QED BY <2>2
<1>5. Max(T) \in T /\ \A m \in T : Max(T) >= m
  BY <1>4 DEF Max
<1> QED BY <1>5

LEMMA MinIs ==
    ASSUME NEW T \in SUBSET Nat, T # {}
    PROVE  Min(T) \in T /\ \A m \in T : Min(T) <= m
<1>1. PICK k \in T : \A m \in T : k <= m
  BY NatMinimum
<1> QED BY <1>1 DEF Min

-----------------------------------------------------------------------------
(* Connect Four and gomoku *)

Lined(b) == {p \in 1..2 : LineOn(b, p)}

LEMMA StoneKeeps ==
    ASSUME NEW rows \in Nat \ {0}, NEW cols \in Nat \ {0}, NEW s \in LinesState(Grid(rows, cols)),
           s.status = "playing", Settled(s, Lined(s.board)), NEW i \in Seats, NEW c \in Grid(rows, cols)
    PROVE  LET board == [s.board EXCEPT ![c] = i + 1]
               t == Concluded(s, i, c, Lined(board))
           IN  /\ t \in LinesState(Grid(rows, cols)) /\ t.board = board
               /\ Settled(t, Lined(board))
               /\ i + 1 \in Lined(board) <=> LineThrough(board, c, i + 1)
<1> DEFINE board == [s.board EXCEPT ![c] = i + 1]
<1>1. s.board \in [Grid(rows, cols) -> 0..2] /\ s.winner = None /\ Lined(s.board) = {}
  BY DEF LinesState, Settled
<1>2. i + 1 \in 1..2 /\ \A p \in 1..2 : ~LineOn(s.board, p)
  BY <1>1 DEF Seats, Lined
<1>3. Lined(board) \in SUBSET {i + 1}
  BY <1>1, <1>2, OthersLine DEF Lined
<1>4. i + 1 \in Lined(board) <=> LineThrough(board, c, i + 1)
  BY <1>1, <1>2, LineIsThrough DEF Lined
<1> QED BY <1>1, <1>3, <1>4, StoneDecides

LEMMA EmptyBoard ==
    ASSUME NEW rows \in Nat \ {0}, NEW cols \in Nat \ {0}
    PROVE  LET s == NewBoard(Empty(Grid(rows, cols)))
           IN  s \in LinesState(Grid(rows, cols)) /\ Settled(s, Lined(s.board)) /\ s.status = "playing"
<1> DEFINE b == Empty(Grid(rows, cols))
<1>1. b \in [Grid(rows, cols) -> 0..2] /\ \A c \in Grid(rows, cols) : b[c] = 0
  BY DEF Empty
<1>2. <<0, 0>> \in Grid(rows, cols)
  BY DEF Grid
<1>3. Lined(b) = {}
  <2> SUFFICES ASSUME NEW p \in 1..2, LineOn(b, p) PROVE FALSE
    BY DEF Lined
  <2>1. 0 \in 0..(Need - 1)
    BY BoardAssumption
  <2>2. \E c : Holds(b, c, p)
    BY <2>1 DEF LineOn
  <2> QED BY <1>1, <2>2 DEF Holds
<1> HIDE DEF b
<1>4. /\ NewBoard(b).board = b /\ NewBoard(b).status = "playing" /\ NewBoard(b).winner = None
      /\ NewBoard(b) \in LinesState(Grid(rows, cols))
  BY <1>1 DEF NewBoard, LinesState, Seats
<1> QED BY <1>1, <1>2, <1>3, <1>4 DEF Settled, b

GomokuInv(s) == s \in LinesState(Grid(Board, Board)) /\ Settled(s, Lined(s.board))

LEMMA GomokuBegins == GomokuInv(GomokuReady)
  BY EmptyBoard, BoardAssumption DEF GomokuInv, GomokuReady

LEMMA GomokuKeeps ==
    ASSUME NEW s, GomokuInv(s), s.status = "playing", NEW i \in Seats, NEW c
    PROVE  GomokuInv(GomokuInput(s, i, c))
<1>1. CASE i # s.turn \/ ~Holds(s.board, c, 0)
  BY <1>1 DEF GomokuInput
<1>2. CASE ~(i # s.turn \/ ~Holds(s.board, c, 0))
  <2> DEFINE board == [s.board EXCEPT ![c] = i + 1]
             next == [s EXCEPT !.board[c] = i + 1]
  <2>1. c \in Grid(Board, Board) /\ Board \in Nat \ {0} /\ s.board \in [Grid(Board, Board) -> 0..2]
        /\ s \in LinesState(Grid(Board, Board)) /\ Settled(s, Lined(s.board))
    BY <1>2, BoardAssumption DEF GomokuInv, LinesState, Holds
  <2>2. next.board = board /\ DOMAIN board = DOMAIN s.board
    BY <2>1 DEF LinesState
  <2>3. GomokuInput(s, i, c) = Concluded(s, i, c, Lined(board))
    <3>1. i + 1 \in Lined(board) <=> LineThrough(board, c, i + 1)
      BY <2>1, StoneKeeps
    <3> QED BY <1>2, <2>2, <3>1 DEF GomokuInput, Placed, Concluded, BoardFull
  <2> QED BY <2>1, <2>3, StoneKeeps DEF GomokuInv
<1> QED BY <1>1, <1>2

\* Stones lie at the bottom of their columns.
Stacked(b) == \A c, e \in Grid(Rows, Cols) : c[2] = e[2] /\ c[1] < e[1] /\ b[e] = 0 => b[c] = 0

C4Inv(s) == s \in LinesState(Grid(Rows, Cols)) /\ Settled(s, Lined(s.board)) /\ Stacked(s.board)

LEMMA C4Begins == C4Inv(C4Ready)
<1>1. Rows \in Nat \ {0} /\ Cols \in Nat \ {0}
  BY BoardAssumption
<1>2. C4Ready.board = Empty(Grid(Rows, Cols))
  BY DEF C4Ready, NewBoard
<1>3. Stacked(C4Ready.board)
  BY <1>2 DEF Stacked, Empty
<1> QED BY <1>1, <1>3, EmptyBoard DEF C4Inv, C4Ready

\* A stone falls on the stones below it.
LEMMA DropFalls ==
    ASSUME NEW b \in [Grid(Rows, Cols) -> 0..2], NEW col \in Playable(b)
    PROVE  /\ DropCell(b, col) \in Grid(Rows, Cols) /\ b[DropCell(b, col)] = 0 /\ DropCell(b, col)[2] = col
           /\ \A e \in Grid(Rows, Cols) : e[2] = col /\ DropCell(b, col)[1] < e[1] => b[e] # 0
<1> DEFINE T == {r \in 0..(Rows - 1) : b[<<r, col>>] = 0}
<1>1. col \in 0..(Cols - 1) /\ Rows - 1 \in Nat /\ T \in SUBSET (0..(Rows - 1)) /\ 0 \in T
  BY BoardAssumption DEF Playable, C4Columns
<1>2. Max(T) \in T /\ \A m \in T : m <= Max(T)
  <2> HIDE DEF T
  <2> QED BY <1>1, MaxIs
<1>3. DropCell(b, col) = <<Max(T), col>>
  BY DEF DropCell
<1>4. ASSUME NEW e \in Grid(Rows, Cols), e[2] = col, Max(T) < e[1] PROVE b[e] # 0
  <2>1. e[1] \in 0..(Rows - 1) /\ e = <<e[1], col>>
    BY <1>4 DEF Grid
  <2>2. e[1] \notin T
    BY <1>1, <1>2, <1>4, <2>1
  <2> QED BY <2>1, <2>2
<1> QED BY <1>1, <1>2, <1>3, <1>4 DEF Grid

\* A board is full when its top row is.
LEMMA TopIsLast ==
    ASSUME NEW b \in [Grid(Rows, Cols) -> 0..2], Stacked(b)
    PROVE  TopFull(b) <=> \A e \in Grid(Rows, Cols) : b[e] # 0
<1>1. Rows - 1 \in Nat
  BY BoardAssumption
<1>2. ASSUME NEW e \in Grid(Rows, Cols), b[e] = 0 PROVE e[2] \in Playable(b)
  <2>1. e[2] \in 0..(Cols - 1) /\ e[1] \in 0..(Rows - 1) /\ e = <<e[1], e[2]>>
        /\ <<0, e[2]>> \in Grid(Rows, Cols)
    BY <1>1 DEF Grid
  <2>2. b[<<0, e[2]>>] = 0
    <3>1. CASE e[1] = 0
      BY <1>2, <2>1, <3>1
    <3>2. CASE e[1] # 0
      <4>1. <<0, e[2]>>[1] < e[1]
        BY <2>1, <3>2
      <4> QED BY <1>2, <2>1, <4>1 DEF Stacked
    <3> QED BY <3>1, <3>2
  <2> QED BY <2>1, <2>2 DEF Playable, C4Columns
<1>3. ASSUME NEW col \in Playable(b) PROVE <<0, col>> \in Grid(Rows, Cols) /\ b[<<0, col>>] = 0
  BY <1>1 DEF Playable, C4Columns, Grid
<1> QED BY <1>2, <1>3 DEF TopFull

LEMMA C4Keeps ==
    ASSUME NEW s, C4Inv(s), s.status = "playing", NEW i \in Seats, NEW col
    PROVE  C4Inv(C4Input(s, i, col))
<1>1. CASE i # s.turn \/ col \notin Playable(s.board)
  BY <1>1 DEF C4Input
<1>2. CASE ~(i # s.turn \/ col \notin Playable(s.board))
  <2> DEFINE c == DropCell(s.board, col)
             board == [s.board EXCEPT ![c] = i + 1]
             next == [s EXCEPT !.board[c] = i + 1]
  <2>1. Rows \in Nat \ {0} /\ Cols \in Nat \ {0} /\ s.board \in [Grid(Rows, Cols) -> 0..2]
        /\ s \in LinesState(Grid(Rows, Cols)) /\ Settled(s, Lined(s.board)) /\ Stacked(s.board)
        /\ col \in Playable(s.board)
    BY <1>2, BoardAssumption DEF C4Inv, LinesState
  <2>2. c \in Grid(Rows, Cols) /\ s.board[c] = 0 /\ c[2] = col
        /\ \A e \in Grid(Rows, Cols) : e[2] = col /\ c[1] < e[1] => s.board[e] # 0
    BY <2>1, DropFalls
  <2> HIDE DEF c
  <2>3. next.board = board /\ DOMAIN s.board = Grid(Rows, Cols) /\ i + 1 \in 1..2
        /\ board \in [Grid(Rows, Cols) -> 0..2]
    <3>1. i + 1 \in 1..2 /\ DOMAIN s.board = Grid(Rows, Cols)
      BY <2>1 DEF Seats
    <3>2. next.board = board
      BY <2>1 DEF LinesState
    <3>3. board \in [Grid(Rows, Cols) -> 0..2]
      <4>1. i + 1 \in 0..2
        BY <3>1
      <4> QED BY <2>1, <4>1
    <3> QED BY <3>1, <3>2, <3>3
  <2>4. Stacked(board)
    <3> SUFFICES ASSUME NEW a \in Grid(Rows, Cols), NEW e \in Grid(Rows, Cols),
                        a[2] = e[2], a[1] < e[1], board[e] = 0
                 PROVE  board[a] = 0
      BY DEF Stacked
    <3>1. s.board[e] = 0 /\ e # c
      BY <2>1, <2>3
    <3>2. s.board[a] = 0
      BY <2>1, <3>1 DEF Stacked
    <3>3. a # c
      BY <2>2, <3>1
    <3> QED BY <2>1, <3>2, <3>3
  <2>5. C4Input(s, i, col) = Concluded(s, i, c, Lined(board))
    <3>1. i + 1 \in Lined(board) <=> LineThrough(board, c, i + 1)
      BY <2>1, <2>2, StoneKeeps
    <3>2. TopFull(board) <=> \A e \in DOMAIN s.board : board[e] # 0
      BY <2>3, <2>4, TopIsLast
    <3> QED BY <1>2, <2>3, <3>1, <3>2 DEF C4Input, Placed, Concluded, c
  <2> QED BY <2>1, <2>2, <2>4, <2>5, StoneKeeps DEF C4Inv
<1> QED BY <1>1, <1>2

-----------------------------------------------------------------------------
(* Memory *)

MemoryState == [status : {"playing", "over"}, winner : {None, Draw} \cup Seats, turn : Seats,
                scores : [1..2 -> Nat], cards : [Cards -> 1..Pairs], matched : SUBSET Cards,
                up : Seq(Cards), seen : SUBSET Cards]

\* What lies open: nothing, a card still on the table, or two that were a miss.
Shown(matched) == {<<>>} \cup {<<a>> : a \in Cards \ matched} \cup {<<a, b>> : a, b \in Cards}

\* Pairs leave the table whole.
MemoryInv(s) ==
    /\ s \in MemoryState /\ s.cards \in Shuffles /\ s.up \in Shown(s.matched)
    /\ 2 * (s.scores[1] + s.scores[2]) = Cardinality(s.matched)
    /\ s.status = "over" <=> s.matched = Cards
    /\ \A c \in s.matched, d \in Cards : s.cards[c] = s.cards[d] => d \in s.matched

LEMMA CardsAre == IsFiniteSet(Cards) /\ 0 \in Cards /\ Cards \subseteq Nat
<1>1. Pairs \in Nat \ {0} /\ 2 * Pairs - 1 \in Nat
  BY TurnAssumption
<1>2. IsFiniteSet(0..(2 * Pairs - 1))
  BY <1>1, FS_Interval
<1> QED BY <1>1, <1>2 DEF Cards

LEMMA MemoryBegins ==
    ASSUME NEW s \in MemoryReady
    PROVE  MemoryInv(s)
<1>1. PICK d \in Shuffles :
        s = [status |-> "playing", winner |-> None, turn |-> 0, scores |-> <<0, 0>>,
             cards |-> d, matched |-> {}, up |-> <<>>, seen |-> {}]
  BY DEF MemoryReady
<1>2. d \in [Cards -> 1..Pairs]
  BY DEF Shuffles
<1>3. <<0, 0>> \in [1..2 -> Nat] /\ <<>> \in Seq(Cards) /\ <<>> \in Shown({})
  BY DEF Shown
<1>4. s \in MemoryState
  BY <1>1, <1>2, <1>3 DEF MemoryState, Seats
<1>5. Cardinality({}) = 0 /\ s.scores[1] = 0 /\ s.scores[2] = 0 /\ s.matched = {} /\ s.status = "playing"
      /\ s.up = <<>> /\ s.cards = d
  BY <1>1, FS_EmptySet
<1> QED BY <1>3, <1>4, <1>5, CardsAre DEF MemoryInv

\* Two cards that show the same are a pair, and there is no third.
LEMMA PairIs ==
    ASSUME NEW d \in Shuffles, NEW a \in Cards, NEW c \in Cards, a # c, d[a] = d[c],
           NEW e \in Cards, d[e] = d[a]
    PROVE  e \in {a, c}
<1> DEFINE S == {x \in Cards : d[x] = d[a]}
<1>1. d \in [Cards -> 1..Pairs] /\ IsFiniteSet(S) /\ Cardinality(S) = 2
  BY CardsAre, FS_Subset DEF Shuffles
<1>2. a \in S /\ c \in S /\ e \in S
  OBVIOUS
<1> HIDE DEF S
<1> DEFINE R == S \ {a}
<1>3. IsFiniteSet(R) /\ Cardinality(R) = 1 /\ c \in R
  BY <1>1, <1>2, FS_RemoveElement
<1>4. R = {c}
  <2> HIDE DEF R
  <2> QED BY <1>3, FS_Singleton
<1> QED BY <1>2, <1>4

\* Every card has another one like it.
LEMMA PairExists ==
    ASSUME NEW d \in Shuffles, NEW a \in Cards
    PROVE  \E c \in Cards \ {a} : d[c] = d[a]
<1> DEFINE S == {x \in Cards : d[x] = d[a]}
<1>1. d \in [Cards -> 1..Pairs] /\ IsFiniteSet(S) /\ Cardinality(S) = 2 /\ a \in S
  BY CardsAre, FS_Subset DEF Shuffles
<1>2. IsFiniteSet(S \ {a}) /\ Cardinality(S \ {a}) = 1
  <2> HIDE DEF S
  <2> QED BY <1>1, FS_RemoveElement
<1>3. S \ {a} # {}
  BY <1>2, FS_EmptySet
<1> QED BY <1>3

\* What lies open when the next card is turned
Showing(s) == IF Len(s.up) = 2 THEN <<>> ELSE s.up

LEMMA OpenIs ==
    ASSUME NEW s, NEW matched, s.up \in Shown(matched)
    PROVE  \/ Showing(s) = <<>> /\ s.up = <<>>
           \/ \E a \in Cards \ matched : Showing(s) = <<a>> /\ s.up = <<a>>
           \/ Showing(s) = <<>> /\ \E a, b \in Cards : s.up = <<a, b>>
<1>1. Len(<<>>) # 2 /\ \A a, b : Len(<<a>>) # 2 /\ Len(<<a, b>>) = 2
  OBVIOUS
<1>2. ASSUME s.up = <<>> PROVE Showing(s) = <<>>
  BY <1>1, <1>2 DEF Showing
<1>3. ASSUME NEW a \in Cards \ matched, s.up = <<a>>
      PROVE  Showing(s) = <<a>>
  BY <1>1, <1>3 DEF Showing
<1>4. ASSUME NEW a \in Cards, NEW b \in Cards, s.up = <<a, b>>
      PROVE  Showing(s) = <<>>
  BY <1>1, <1>4 DEF Showing
<1>5. \/ s.up = <<>> \/ \E a \in Cards \ matched : s.up = <<a>>
      \/ \E a, b \in Cards : s.up = <<a, b>>
  BY DEF Shown
<1> QED BY <1>2, <1>3, <1>4, <1>5

\* Short sequences
LEMMA Tuples ==
    ASSUME NEW S, NEW a \in S, NEW b \in S
    PROVE  /\ <<>> \in Seq(S) /\ <<a>> \in Seq(S) /\ <<a, b>> \in Seq(S)
           /\ Append(<<>>, a) = <<a>> /\ Append(<<a>>, b) = <<a, b>>
           /\ {<<>>[k] : k \in DOMAIN <<>>} = {} /\ {<<a>>[k] : k \in DOMAIN <<a>>} = {a} /\ <<a>>[1] = a
<1>1. <<>> \in Seq(S) /\ <<a>> \in Seq(S) /\ <<a, b>> \in Seq(S)
  OBVIOUS
<1>2. Append(<<>>, a) = <<a>>
  OBVIOUS
<1>3. Append(<<a>>, b) = <<a, b>>
  <2> DEFINE x == Append(<<a>>, b)
             y == <<a, b>>
  <2>1. x \in Seq(S) /\ Len(x) = 2 /\ x[1] = a /\ x[2] = b
    <3>1. Len(<<a>>) = 1 /\ <<a>>[1] = a
      OBVIOUS
    <3> QED BY <1>1, <3>1, AppendProperties
  <2>2. y \in Seq(S) /\ Len(y) = 2 /\ y[1] = a /\ y[2] = b
    BY <1>1
  <2> HIDE DEF x, y
  <2>3. x \in [1..2 -> S] /\ y \in [1..2 -> S]
    BY <2>1, <2>2, LenProperties
  <2>4. x = y
    BY <2>1, <2>2, <2>3
  <2> QED BY <2>4 DEF x, y
<1>4. DOMAIN <<a>> = {1} /\ <<a>>[1] = a
  OBVIOUS
<1>5. DOMAIN <<>> = {}
  OBVIOUS
<1> QED BY <1>1, <1>2, <1>3, <1>4, <1>5

\* A card turned keeps it so, and unless it lies open or is gone the table changes.
LEMMA MemoryTurns ==
    ASSUME NEW s, MemoryInv(s), s.status = "playing", NEW i \in Seats, NEW c \in Cards
    PROVE  /\ MemoryInv(MemoryInput(s, i, c))
           /\ i = s.turn /\ (Showing(s) # s.up \/ (c \notin s.matched /\ Showing(s) # <<c>>))
                => MemoryInput(s, i, c) # s
<1> DEFINE up == Showing(s)
           t == MemoryInput(s, i, c)
           next == [s EXCEPT !.up = Append(up, c), !.seen = @ \cup {c}]
           scored == [next EXCEPT !.up = <<>>, !.matched = @ \cup {up[1], c}, !.scores[i + 1] = @ + 1]
           w == IF scored.scores[1] = scored.scores[2] THEN Draw
                ELSE IF scored.scores[1] > scored.scores[2] THEN 0 ELSE 1
<1>1. s \in MemoryState /\ s.up \in Shown(s.matched) /\ s.cards \in Shuffles /\ s.matched # Cards
  BY DEF MemoryInv
<1>2. s.up \in Seq(Cards) /\ s.matched \in SUBSET Cards /\ s.seen \in SUBSET Cards /\ s.turn \in Seats
      /\ Other(i) \in Seats
  BY <1>1 DEF MemoryState, Seats, Other
<1>3. t = IF i # s.turn THEN s
          ELSE IF c \in s.matched \cup {up[k] : k \in DOMAIN up} THEN [s EXCEPT !.up = up]
          ELSE IF up = <<>> THEN next
          ELSE IF s.cards[up[1]] # s.cards[c] THEN [next EXCEPT !.turn = Other(i)]
          ELSE IF scored.matched # Cards THEN scored
          ELSE Finished(scored, w)
  BY DEF MemoryInput, Showing
<1>4. \/ up = <<>> /\ s.up = <<>>
      \/ \E a \in Cards \ s.matched : up = <<a>> /\ s.up = <<a>>
      \/ up = <<>> /\ \E a, b \in Cards : s.up = <<a, b>>
  BY <1>1, OpenIs
<1> HIDE DEF up, t, next, scored, w
<1>5. ASSUME NEW x \in Shown(s.matched), NEW seen \in SUBSET Cards, NEW turn \in Seats,
             t = [s EXCEPT !.up = x, !.seen = seen, !.turn = turn]
      PROVE  MemoryInv(t) /\ t.up = x
  <2>1. x \in Seq(Cards)
    <3>1. \/ x = <<>> \/ \E a \in Cards : x = <<a>> \/ \E y, z \in Cards : x = <<y, z>>
      BY DEF Shown
    <3>2. CASE x = <<>>
      BY <3>2
    <3>3. CASE \E a \in Cards : x = <<a>>
      <4>1. PICK a \in Cards : x = <<a>>
        BY <3>3
      <4> QED BY <4>1
    <3>4. CASE \E a, b \in Cards : x = <<a, b>>
      BY <3>4, Tuples
    <3> QED BY <3>1, <3>2, <3>3, <3>4
  <2>2. /\ t \in MemoryState /\ t.up = x /\ t.matched = s.matched /\ t.scores = s.scores
        /\ t.status = s.status /\ t.cards = s.cards
    BY <1>1, <1>5, <2>1 DEF MemoryState
  <2> QED BY <2>2 DEF MemoryInv
<1>6. up = <<>> => {up[k] : k \in DOMAIN up} = {} /\ Append(up, c) = <<c>>
  BY Tuples
<1>7. ASSUME NEW a \in Cards, up = <<a>>
      PROVE  {up[k] : k \in DOMAIN up} = {a} /\ Append(up, c) = <<a, c>> /\ up # <<>> /\ up[1] = a
  BY <1>7, Tuples
<1>8. \A a, b, d : <<>> # <<a>> /\ <<>> # <<a, b>> /\ <<d>> # <<a, b>> /\ (<<a>> = <<b>> => a = b)
  OBVIOUS
<1>9. CASE i # s.turn
  BY <1>3, <1>9 DEF t
<1>10. CASE i = s.turn /\ up = <<>> /\ c \in s.matched
  <2>1. t = [s EXCEPT !.up = <<>>, !.seen = s.seen, !.turn = s.turn]
    BY <1>1, <1>3, <1>6, <1>10 DEF MemoryState
  <2>2. <<>> \in Shown(s.matched)
    BY DEF Shown
  <2>3. MemoryInv(t) /\ t.up = <<>>
    BY <1>2, <1>5, <2>1, <2>2
  <2> QED BY <1>10, <2>3 DEF t, up
<1>11. CASE i = s.turn /\ up = <<>> /\ c \notin s.matched
  <2>1. t = [s EXCEPT !.up = <<c>>, !.seen = s.seen \cup {c}, !.turn = s.turn]
    BY <1>1, <1>3, <1>6, <1>11 DEF MemoryState, next
  <2>2. <<c>> \in Shown(s.matched) /\ s.seen \cup {c} \in SUBSET Cards
    BY <1>2, <1>11 DEF Shown
  <2>3. MemoryInv(t) /\ t.up = <<c>>
    BY <1>2, <1>5, <2>1, <2>2
  <2>4. s.up # <<c>>
    BY <1>4, <1>8, <1>11
  <2> QED BY <2>3, <2>4 DEF t
<1>12. ASSUME NEW a \in Cards \ s.matched, i = s.turn, up = <<a>>, c \in s.matched \cup {a}
       PROVE  MemoryInv(t) /\ ~(c \notin s.matched /\ up # <<c>>) /\ s.up = up
  <2>1. t = [s EXCEPT !.up = <<a>>, !.seen = s.seen, !.turn = s.turn]
    BY <1>1, <1>3, <1>7, <1>12 DEF MemoryState
  <2>2. <<a>> \in Shown(s.matched)
    BY DEF Shown
  <2>3. MemoryInv(t) /\ t.up = <<a>>
    BY <1>2, <1>5, <2>1, <2>2
  <2> QED BY <1>4, <1>8, <1>12, <2>3
<1>13. ASSUME NEW a \in Cards \ s.matched, i = s.turn, up = <<a>>, c \notin s.matched \cup {a},
              s.cards[a] # s.cards[c]
       PROVE  MemoryInv(t) /\ t # s
  <2>1. t = [s EXCEPT !.up = <<a, c>>, !.seen = s.seen \cup {c}, !.turn = Other(i)]
    BY <1>1, <1>3, <1>7, <1>13 DEF MemoryState, next
  <2>2. <<a, c>> \in Shown(s.matched) /\ s.seen \cup {c} \in SUBSET Cards
    BY <1>2 DEF Shown
  <2>3. MemoryInv(t) /\ t.up = <<a, c>>
    BY <1>2, <1>5, <2>1, <2>2
  <2>4. s.up = <<a>>
    BY <1>4, <1>8, <1>13
  <2> QED BY <1>8, <2>3, <2>4
<1>14. ASSUME NEW a \in Cards \ s.matched, i = s.turn, up = <<a>>, c \notin s.matched \cup {a},
              s.cards[a] = s.cards[c]
       PROVE  MemoryInv(t) /\ t # s
  <2> DEFINE matched == s.matched \cup {a, c}
             scores == [s.scores EXCEPT ![i + 1] = @ + 1]
             r == [s EXCEPT !.up = <<>>, !.seen = @ \cup {c}, !.matched = matched, !.scores = scores]
  <2>1. s.scores \in [1..2 -> Nat]
    BY <1>1 DEF MemoryState
  <2>2. PICK x \in Nat, y \in Nat : s.scores[1] = x /\ s.scores[2] = y
    BY <2>1
  <2>3. scores \in [1..2 -> Nat] /\ scores[1] + scores[2] = x + y + 1
    BY <2>1, <2>2 DEF Seats
  <2>4. matched \subseteq Cards /\ Cardinality(matched) = Cardinality(s.matched) + 2
    <3>1. IsFiniteSet(s.matched) /\ Cardinality(s.matched) \in Nat
      BY <1>2, CardsAre, FS_Subset, FS_CardinalityType
    <3>2. PICK n \in Nat : n = Cardinality(s.matched)
      BY <3>1
    <3>3. IsFiniteSet(s.matched \cup {a}) /\ Cardinality(s.matched \cup {a}) = n + 1
      BY <3>1, <3>2, FS_AddElement
    <3>4. PICK S : S = s.matched \cup {a} /\ IsFiniteSet(S) /\ Cardinality(S) = n + 1 /\ c \notin S
      BY <1>14, <3>3
    <3>5. Cardinality(S \cup {c}) = (n + 1) + 1
      BY <3>4, FS_AddElement
    <3>6. S \cup {c} = matched /\ (n + 1) + 1 = n + 2
      BY <3>2, <3>4
    <3> QED BY <1>2, <3>2, <3>5, <3>6
  <2>5. ASSUME NEW d \in matched, NEW e \in Cards, s.cards[d] = s.cards[e] PROVE e \in matched
    <3>1. CASE d \in s.matched
      BY <2>5, <3>1 DEF MemoryInv
    <3>2. CASE d \in {a, c}
      <4>1. s.cards[e] = s.cards[a]
        BY <1>14, <2>5, <3>2
      <4>2. e \in {a, c}
        BY <1>1, <1>14, <4>1, PairIs
      <4> QED BY <4>2
    <3> QED BY <2>5, <3>1, <3>2
  <2> HIDE DEF matched, scores, r
  <2>6. scored = r
    BY <1>1, <1>7, <1>14 DEF MemoryState, next, scored, scores, matched, r
  <2>7. /\ r \in MemoryState /\ r.matched = matched /\ r.scores = scores /\ r.up = <<>>
        /\ r.cards = s.cards /\ r.status = "playing"
    <3>1. <<>> \in Seq(Cards) /\ s.seen \cup {c} \in SUBSET Cards
      BY <1>2
    <3> QED BY <1>1, <2>3, <2>4, <3>1 DEF MemoryState, r
  <2>8. t = IF matched # Cards THEN r ELSE Finished(r, w)
    BY <1>3, <1>7, <1>14, <2>6, <2>7
  <2>9. w \in {Draw} \cup Seats
    BY DEF Seats, w
  <2>10. /\ t \in MemoryState /\ t.matched = matched /\ t.scores = scores /\ t.up = <<>>
         /\ t.cards = s.cards /\ (t.status = "over" <=> matched = Cards)
    BY <2>7, <2>8, <2>9 DEF Finished, MemoryState
  <2>11. t.up \in Shown(matched)
    BY <2>10 DEF Shown
  <2>12. 2 * (scores[1] + scores[2]) = Cardinality(matched)
    <3>1. 2 * (x + y) = Cardinality(s.matched)
      BY <2>2 DEF MemoryInv
    <3>2. 2 * (x + y + 1) = 2 * (x + y) + 2
      BY <2>2
    <3> QED BY <2>3, <2>4, <3>1, <3>2
  <2>13. MemoryInv(t)
    BY <1>1, <2>5, <2>10, <2>11, <2>12 DEF MemoryInv
  <2> QED BY <1>4, <1>8, <1>14, <2>10, <2>13
<1> QED BY <1>4, <1>9, <1>10, <1>11, <1>12, <1>13, <1>14 DEF t, up

-----------------------------------------------------------------------------
(* Reversi *)

\* They play while the side on turn can move, and the majority wins.
ReversiInv(s) ==
    /\ s \in LinesState(ReversiCells)
    /\ s.status = "playing" => CanMove(s.board, s.turn + 1)
    /\ s.status = "over" =>
         /\ ~CanMove(s.board, 1) /\ ~CanMove(s.board, 2)
         /\ \/ s.winner = 0 /\ Discs(s.board, 1) > Discs(s.board, 2)
            \/ s.winner = 1 /\ Discs(s.board, 2) > Discs(s.board, 1)
            \/ s.winner = Draw /\ Discs(s.board, 1) = Discs(s.board, 2)

LEMMA DiscsAre ==
    ASSUME NEW b, NEW p
    PROVE  Discs(b, p) \in Nat
<1>1. N \in Nat \ {0}
  BY BoardAssumption
<1>2. IsFiniteSet(ReversiCells)
  BY <1>1, GridSize DEF ReversiCells
<1>3. IsFiniteSet({c \in ReversiCells : b[c] = p})
  BY <1>2, FS_Subset
<1> QED BY <1>3, FS_CardinalityType DEF Discs

LEMMA AdvanceKeeps ==
    ASSUME NEW s \in LinesState(ReversiCells), s.status = "playing"
    PROVE  ReversiInv(Advance(s))
<1> DEFINE d1 == Discs(s.board, 1)
           d2 == Discs(s.board, 2)
           w == IF d1 = d2 THEN Draw ELSE IF d1 > d2 THEN 0 ELSE 1
           t == Advance(s)
<1>1. s.turn \in Seats /\ Other(s.turn) \in Seats /\ Other(s.turn) = 1 - s.turn
      /\ {s.turn + 1, Other(s.turn) + 1} = {1, 2}
  BY DEF LinesState, Seats, Other
<1>2. d1 \in Nat /\ d2 \in Nat
  BY DiscsAre
<1>3. t = IF CanMove(s.board, Other(s.turn) + 1) THEN [s EXCEPT !.turn = Other(s.turn)]
          ELSE IF CanMove(s.board, s.turn + 1) THEN s
          ELSE Finished(s, w)
  BY DEF Advance, LinesState
<1> HIDE DEF d1, d2, t
<1>4. CASE CanMove(s.board, Other(s.turn) + 1)
  <2>1. t \in LinesState(ReversiCells) /\ t.status = "playing" /\ t.board = s.board /\ t.turn = Other(s.turn)
    BY <1>1, <1>3, <1>4 DEF LinesState
  <2> QED BY <1>4, <2>1 DEF ReversiInv, t
<1>5. CASE ~CanMove(s.board, Other(s.turn) + 1) /\ CanMove(s.board, s.turn + 1)
  BY <1>3, <1>5 DEF ReversiInv, t
<1>6. CASE ~CanMove(s.board, Other(s.turn) + 1) /\ ~CanMove(s.board, s.turn + 1)
  <2>1. (w = 0 /\ d1 > d2) \/ (w = 1 /\ d2 > d1) \/ (w = Draw /\ d1 = d2)
    BY <1>2
  <2>2. w \in {Draw} \cup Seats
    BY DEF Seats
  <2> HIDE DEF w
  <2>3. t \in LinesState(ReversiCells) /\ t.status = "over" /\ t.board = s.board /\ t.winner = w
    BY <1>3, <1>6, <2>2 DEF LinesState, Finished
  <2>4. ~CanMove(s.board, 1) /\ ~CanMove(s.board, 2)
    BY <1>1, <1>6
  <2> QED BY <2>1, <2>3, <2>4 DEF ReversiInv, t, d1, d2
<1> QED BY <1>4, <1>5, <1>6

LEMMA ReversiKeeps ==
    ASSUME NEW s, ReversiInv(s), s.status = "playing", NEW i \in Seats, NEW c
    PROVE  ReversiInv(ReversiInput(s, i, c))
<1> DEFINE flipped == Flips(s.board, c, i + 1)
           board == [e \in ReversiCells |-> IF e \in flipped \cup {c} THEN i + 1 ELSE s.board[e]]
<1>1. CASE i # s.turn \/ flipped = {}
  BY <1>1 DEF ReversiInput
<1>2. CASE ~(i # s.turn \/ flipped = {})
  <2>1. s \in LinesState(ReversiCells) /\ s.board \in [ReversiCells -> 0..2]
    BY DEF ReversiInv, LinesState
  <2>2. i + 1 \in 0..2
    BY DEF Seats
  <2>3. board \in [ReversiCells -> 0..2]
    <3> HIDE DEF flipped
    <3> QED BY <2>1, <2>2
  <2>4. ReversiInput(s, i, c) = Advance([s EXCEPT !.board = board])
    BY <1>2, <2>1 DEF ReversiInput, LinesState
  <2> HIDE DEF board
  <2>5. [s EXCEPT !.board = board] \in LinesState(ReversiCells)
        /\ [s EXCEPT !.board = board].status = "playing"
    BY <2>1, <2>3 DEF LinesState
  <2> QED BY <2>4, <2>5, AdvanceKeeps
<1> QED BY <1>1, <1>2

\* Where another's stone is followed by one's own, it turns.
LEMMA NextTurns ==
    ASSUME NEW b, DOMAIN b = ReversiCells, NEW c \in ReversiCells, b[c] = 0, NEW d \in Compass,
           NEW p \in 1..2, Holds(b, Step(c, d, 1), 3 - p), Holds(b, Step(c, d, 2), p)
    PROVE  Flips(b, c, p) # {}
<1> DEFINE k == Reach(b, c, d, 3 - p)
<1>1. N \in Nat \ {0} /\ ReversiCells = Grid(N, N) /\ 3 - p # p
  BY BoardAssumption DEF ReversiCells
<1>2. k \in Nat /\ ~Holds(b, Step(c, d, k + 1), 3 - p) /\ \A j \in 1..k : Holds(b, Step(c, d, j), 3 - p)
  BY <1>1, ReachIs
<1> HIDE DEF k
<1>3. ~Holds(b, Step(c, d, 2), 3 - p)
  BY <1>1 DEF Holds
<1>4. k = 1
  <2>1. k # 0
    BY <1>2
  <2>2. ~(2 \in 1..k)
    BY <1>2, <1>3
  <2> QED BY <1>2, <2>1, <2>2
<1>5. Step(c, d, 1) \in Flips(b, c, p)
  <2> DEFINE line(e) == IF Holds(b, Step(c, e, Reach(b, c, e, 3 - p) + 1), p)
                        THEN {Step(c, e, j) : j \in 1..Reach(b, c, e, 3 - p)} ELSE {}
             dirs == {e \in Compass : Holds(b, Step(c, e, 1), 3 - p)}
  <2>1. Flips(b, c, p) = UNION {line(e) : e \in dirs}
    BY DEF Flips
  <2>2. d \in dirs
    OBVIOUS
  <2>3. line(d) = IF Holds(b, Step(c, d, 1 + 1), p) THEN {Step(c, d, j) : j \in 1..1} ELSE {}
    BY <1>4 DEF k
  <2>4. 1 + 1 = 2 /\ 1 \in 1..1
    OBVIOUS
  <2>5. Step(c, d, 1) \in line(d)
    <3> HIDE DEF line
    <3> QED BY <2>3, <2>4
  <2> HIDE DEF line, dirs
  <2> QED BY <2>1, <2>2, <2>5
<1> QED BY <1>5

\* Who opens can: the stone beside the other's.
LEMMA ReversiBegins == ReversiInv(ReversiReady)
<1> DEFINE h == N \div 2
           b == [c \in ReversiCells |->
                   IF c \in {<<h - 1, h - 1>>, <<h, h>>} THEN 2
                   ELSE IF c \in {<<h - 1, h>>, <<h, h - 1>>} THEN 1 ELSE 0]
<1>1. h \in Nat /\ h >= 2 /\ h <= N - 2
  BY BoardAssumption
<1>2. ReversiReady = NewBoard(b)
  BY DEF ReversiReady
<1> HIDE DEF h
<1>3. /\ <<h - 2, h - 1>> \in ReversiCells /\ <<h - 1, h - 1>> \in ReversiCells /\ <<h, h - 1>> \in ReversiCells
      /\ b \in [ReversiCells -> 0..2]
  BY <1>1, BoardAssumption DEF ReversiCells, Grid
<1>4. b[<<h - 2, h - 1>>] = 0 /\ b[<<h - 1, h - 1>>] = 2 /\ b[<<h, h - 1>>] = 1 /\ DOMAIN b = ReversiCells
  BY <1>1, <1>3
<1> HIDE DEF b
<1>5. Step(<<h - 2, h - 1>>, <<1, 0>>, 1) = <<h - 1, h - 1>> /\ Step(<<h - 2, h - 1>>, <<1, 0>>, 2) = <<h, h - 1>>
  BY <1>1 DEF Step
<1>6. <<1, 0>> \in Compass
  BY CompassIs
<1>7. Flips(b, <<h - 2, h - 1>>, 1) # {}
  <2>1. 3 - 1 = 2 /\ 1 \in 1..2
    OBVIOUS
  <2> QED BY <1>3, <1>4, <1>5, <1>6, <2>1, NextTurns DEF Holds
<1>8. CanMove(b, 1)
  BY <1>3, <1>7 DEF CanMove
<1>9. NewBoard(b) \in LinesState(ReversiCells) /\ NewBoard(b).status = "playing" /\ NewBoard(b).board = b
      /\ NewBoard(b).turn + 1 = 1
  BY <1>3 DEF NewBoard, LinesState, Seats
<1> QED BY <1>2, <1>8, <1>9 DEF ReversiInv

-----------------------------------------------------------------------------
(* Snake and Tron *)

Ground == (0..(Side - 1)) \X (0..(Side - 1))
Space == Ground \cup {Nowhere}
Bearings == 0..4   \* a direction, or none

RiderState == [body : Seq(Space), dir : Bearings, nextDir : Bearings, alive : BOOLEAN, grow : Nat]
SnakeState == [status : {"playing", "over"}, winner : {None, Draw} \cup Seats,
               riders : [1..2 -> RiderState], food : Ground]
TronState == [status : {"playing", "over"}, winner : {None, Draw} \cup Seats, riders : [1..2 -> RiderState]]
Riding(s) == (game = "snake" /\ s \in SnakeState) \/ (game = "tron" /\ s \in TronState)

\* No cell is under two parts of a body, of which only the head may be off the board.
Straight(b) ==
    /\ Len(b) > 0 /\ \A k, l \in 1..Len(b) : b[k] = b[l] => k = l
    /\ \A k \in 2..Len(b) : b[k] \in Ground

Untangled(s) ==
    /\ Straight(s.riders[1].body) /\ Straight(s.riders[2].body)
    /\ CellsOf(s.riders[1].body) \cap CellsOf(s.riders[2].body) \subseteq {Nowhere}

\* The bot always heads somewhere.
Tame(s) == vsBot => s.riders[2].dir \in Directions /\ s.riders[2].nextDir \in Directions

\* Both ride while they play; then whoever still does has won.
RidersInv(s) ==
    /\ Riding(s) /\ Untangled(s) /\ Tame(s)
    /\ s.status = "playing" => s.riders[1].alive /\ s.riders[2].alive
    /\ s.status = "over" => /\ s.winner \in {Draw} \cup Seats
                            /\ \A i \in Seats : s.riders[i + 1].alive <=> s.winner = i

LEMMA BodyCells ==
    ASSUME NEW b \in Seq(Space)
    PROVE  /\ DOMAIN b = 1..Len(b) /\ Len(b) \in Nat
           /\ CellsOf(b) \subseteq Space
           /\ \A k \in 1..Len(b) : b[k] \in CellsOf(b) /\ b[k] \in Space
<1>1. DOMAIN b = 1..Len(b) /\ Len(b) \in Nat /\ \A k \in 1..Len(b) : b[k] \in Space
  BY LenProperties, ElementOfSeq
<1> QED BY <1>1 DEF CellsOf

LEMMA OffBoard == Nowhere \notin Ground
BY ArcadeAssumption DEF Nowhere, Ground

\* A head that runs into no part keeps a body straight that is on the board,
\* whether it grows or moves.
LEMMA BodyMoves ==
    ASSUME NEW b \in Seq(Space), Straight(b), b[1] # Nowhere, NEW h \in Space, h \notin CellsOf(b),
           NEW c, c = <<h>> \o b \/ c = SubSeq(<<h>> \o b, 1, Len(b))
    PROVE  c \in Seq(Space) /\ Straight(c) /\ CellsOf(c) \subseteq CellsOf(b) \cup {h}
<1> DEFINE long == <<h>> \o b
<1>1. PICK n \in Nat : n = Len(b) /\ n > 0
  BY LenProperties DEF Straight
<1>2. <<h>> \in Seq(Space) /\ Len(<<h>>) = 1 /\ <<h>>[1] = h
  OBVIOUS
<1>3. long \in Seq(Space) /\ Len(long) = n + 1 /\ long[1] = h
      /\ \A k \in 2..(n + 1) : long[k] = b[k - 1]
  BY <1>1, <1>2, ConcatProperties
<1> HIDE DEF long
<1>4. Straight(long) /\ CellsOf(long) \subseteq CellsOf(b) \cup {h}
  <2>1. \A k \in 1..n : b[k] \in CellsOf(b) /\ b[k] # h
    BY <1>1, BodyCells
  <2>2. \A k \in 2..(n + 1) : k - 1 \in 1..n /\ long[k] = b[k - 1]
    BY <1>3
  <2>3. ASSUME NEW k \in 1..(n + 1), NEW l \in 1..(n + 1), long[k] = long[l] PROVE k = l
    <3>1. CASE k = 1 /\ l = 1
      BY <3>1
    <3>2. CASE k = 1 /\ l # 1
      <4>1. l \in 2..(n + 1)
        BY <3>2
      <4> QED BY <1>3, <2>1, <2>2, <2>3, <3>2, <4>1
    <3>3. CASE k # 1 /\ l = 1
      <4>1. k \in 2..(n + 1)
        BY <3>3
      <4> QED BY <1>3, <2>1, <2>2, <2>3, <3>3, <4>1
    <3>4. CASE k # 1 /\ l # 1
      <4>1. k \in 2..(n + 1) /\ l \in 2..(n + 1)
        BY <3>4
      <4>2. b[k - 1] = b[l - 1] /\ k - 1 \in 1..n /\ l - 1 \in 1..n
        BY <2>2, <2>3, <4>1
      <4>3. k - 1 = l - 1
        BY <1>1, <4>2 DEF Straight
      <4> QED BY <4>3
    <3> QED BY <3>1, <3>2, <3>3, <3>4
  <2>4. DOMAIN long = 1..(n + 1)
    BY <1>3, LenProperties
  <2>5. ASSUME NEW k \in 1..(n + 1) PROVE long[k] \in CellsOf(b) \cup {h}
    <3>1. CASE k = 1
      BY <1>3, <3>1
    <3>2. CASE k # 1
      <4>1. k \in 2..(n + 1)
        BY <3>2
      <4> QED BY <2>1, <2>2, <4>1
    <3> QED BY <3>1, <3>2
  <2>6. Len(long) > 0
    BY <1>3
  <2>7. ASSUME NEW k \in 2..(n + 1) PROVE long[k] \in Ground
    <3>1. b[k - 1] \in Space /\ b[k - 1] # Nowhere
      <4>1. CASE k - 1 = 1
        BY <1>1, <2>2, <4>1, BodyCells
      <4>2. CASE k - 1 # 1
        <5>1. k - 1 \in 2..n
          BY <1>1, <4>2
        <5> QED BY <1>1, <5>1, OffBoard DEF Straight, Space
      <4> QED BY <4>1, <4>2
    <3> QED BY <2>2, <3>1 DEF Space
  <2> QED BY <1>3, <2>3, <2>4, <2>5, <2>6, <2>7 DEF Straight, CellsOf
<1>5. CASE c = long
  BY <1>3, <1>4, <1>5
<1>6. CASE c = SubSeq(long, 1, n)
  <2>1. c \in Seq(Space) /\ Len(c) = n /\ \A k \in 1..n : c[k] = long[k]
    <3>1. \A k \in 1..n : long[k] \in Space
      <4>1. 1..n \subseteq 1..Len(long)
        BY <1>3
      <4> QED BY <1>3, <4>1, ElementOfSeq
    <3>2. c = [k \in 1..n |-> long[k]]
      BY <1>6
    <3>3. c \in [1..n -> Space]
      BY <3>1, <3>2
    <3> QED BY <3>2, <3>3, IsASeq, LenProperties
  <2>2. DOMAIN c = 1..n /\ DOMAIN long = 1..(n + 1)
    BY <1>3, <2>1, LenProperties
  <2>3. \A k, l \in 1..n : c[k] = c[l] => k = l
    <3>1. \A k, l \in 1..(n + 1) : long[k] = long[l] => k = l
      BY <1>3, <1>4, <2>2 DEF Straight
    <3>2. \A k \in 1..n : k \in 1..(n + 1) /\ c[k] = long[k]
      BY <1>3, <2>1
    <3> QED BY ONLY <3>1, <3>2, Zenon
  <2>4. CellsOf(c) \subseteq CellsOf(long)
    BY <2>1, <2>2 DEF CellsOf
  <2>5. \A k \in 2..n : c[k] \in Ground
    <3>1. \A k \in 2..(n + 1) : long[k] \in Ground
      BY <1>3, <1>4 DEF Straight
    <3>2. \A k \in 2..n : k \in 1..n /\ k \in 2..(n + 1)
      BY <1>1
    <3> QED BY <2>1, <3>1, <3>2
  <2> QED BY <1>1, <1>4, <2>1, <2>3, <2>4, <2>5 DEF Straight
<1> QED BY <1>1, <1>5, <1>6 DEF long

LEMMA VectorIs ==
    /\ \A d \in Directions : Vector[d][1] \in Int /\ Vector[d][2] \in Int
    /\ Vector[3] = <<-1, 0>> /\ Vector[4] = <<1, 0>>
<1>1. \A d \in {1, 2, 3, 4} : Vector[d][1] \in Int /\ Vector[d][2] \in Int
  BY DEF Vector
<1>2. Directions = {1, 2, 3, 4}
  BY DEF Directions
<1> QED BY <1>1, <1>2 DEF Vector

\* The riders start apart.
LEMMA RidersBegin ==
    ASSUME NEW n \in Nat \ {0}, n - 1 <= Margin
    PROVE  LET r == Riders(n)
           IN  /\ r \in [1..2 -> RiderState] /\ r[1].alive /\ r[2].alive
               /\ r[2].dir \in Directions /\ r[2].nextDir \in Directions
               /\ Straight(r[1].body) /\ Straight(r[2].body)
               /\ CellsOf(r[1].body) \cap CellsOf(r[2].body) = {}
<1> DEFINE mid == Side \div 2
           b1 == [k \in 1..n |-> <<Margin + 1 - k, mid>>]
           b2 == [k \in 1..n |-> <<Side - 1 - Margin - (1 - k), mid>>]
<1>1. Side \in Nat \ {0} /\ Margin \in Nat /\ 2 * Margin + 1 < Side /\ mid \in 0..(Side - 1)
  BY ArcadeAssumption
<1> HIDE DEF mid
<1>2. /\ b1 = [k \in 1..n |-> Ahead(<<Margin, mid>>, 4, 1 - k)]
      /\ b2 = [k \in 1..n |-> Ahead(<<Side - 1 - Margin, mid>>, 3, 1 - k)]
  <2>1. ASSUME NEW k \in 1..n
        PROVE  /\ Ahead(<<Margin, mid>>, 4, 1 - k) = <<Margin + 1 - k, mid>>
               /\ Ahead(<<Side - 1 - Margin, mid>>, 3, 1 - k) = <<Side - 1 - Margin - (1 - k), mid>>
    <3>1. /\ Ahead(<<Margin, mid>>, 4, 1 - k) = <<Margin + (1 - k) * 1, mid + (1 - k) * 0>>
          /\ Ahead(<<Side - 1 - Margin, mid>>, 3, 1 - k) = <<Side - 1 - Margin + (1 - k) * (-1), mid + (1 - k) * 0>>
      BY VectorIs DEF Ahead
    <3>2. /\ Margin + (1 - k) * 1 = Margin + 1 - k /\ mid + (1 - k) * 0 = mid
          /\ Side - 1 - Margin + (1 - k) * (-1) = Side - 1 - Margin - (1 - k)
      BY <1>1
    <3> QED BY <3>1, <3>2
  <2> QED BY <2>1
<1>3. \A k \in 1..n : /\ Margin + 1 - k \in 0..(Side - 1) /\ Margin + 1 - k <= Margin
                      /\ Side - 1 - Margin - (1 - k) \in 0..(Side - 1)
                      /\ Side - 1 - Margin - (1 - k) > Margin
  BY <1>1
<1>4. b1 \in Seq(Space) /\ b2 \in Seq(Space) /\ Len(b1) = n /\ Len(b2) = n
      /\ DOMAIN b1 = 1..n /\ DOMAIN b2 = 1..n
  <2>1. b1 \in [1..n -> Ground] /\ b2 \in [1..n -> Ground]
    BY <1>1, <1>3 DEF Ground
  <2>2. b1 \in Seq(Space) /\ b2 \in Seq(Space)
    BY <2>1, SeqDef DEF Space
  <2> QED BY <2>2
<1>5. \A k \in 1..n : /\ b1[k] = <<Margin + 1 - k, mid>>
                      /\ b2[k] = <<Side - 1 - Margin - (1 - k), mid>>
                      /\ b1[k] \in Ground /\ b2[k] \in Ground
  BY <1>1, <1>3 DEF Ground
<1> HIDE DEF b1, b2
<1>6. Straight(b1) /\ Straight(b2)
  <2>1. ASSUME NEW k \in 1..n, NEW l \in 1..n PROVE (b1[k] = b1[l] => k = l) /\ (b2[k] = b2[l] => k = l)
    <3>1. b1[k] = b1[l] => Margin + 1 - k = Margin + 1 - l
      BY <1>5
    <3>2. b2[k] = b2[l] => Side - 1 - Margin - (1 - k) = Side - 1 - Margin - (1 - l)
      BY <1>5
    <3> QED BY <1>1, <3>1, <3>2
  <2>2. \A k \in 2..n : b1[k] \in Ground /\ b2[k] \in Ground
    BY <1>5
  <2> QED BY <1>4, <2>1, <2>2 DEF Straight
<1>7. CellsOf(b1) \cap CellsOf(b2) = {}
  <2>1. ASSUME NEW k \in 1..n, NEW l \in 1..n, b1[k] = b2[l] PROVE FALSE
    <3>1. Margin + 1 - k = Side - 1 - Margin - (1 - l)
      BY <1>5, <2>1
    <3> QED BY <1>1, <1>3, <3>1
  <2> QED BY <1>4, <2>1 DEF CellsOf
<1>8. Riders(n) = <<[body |-> b1, dir |-> 4, nextDir |-> 4, alive |-> TRUE, grow |-> 0],
                    [body |-> b2, dir |-> 3, nextDir |-> 3, alive |-> TRUE, grow |-> 0]>>
  BY <1>2 DEF Riders, Rider, mid
<1>9. Riders(n)[1] \in RiderState /\ Riders(n)[2] \in RiderState
  BY <1>4, <1>8 DEF RiderState, Bearings
<1>10. Riders(n) \in [1..2 -> RiderState]
  <2>1. \A x, y : x \in RiderState /\ y \in RiderState => <<x, y>> \in [1..2 -> RiderState]
    OBVIOUS
  <2>2. PICK x, y : Riders(n) = <<x, y>>
    BY <1>8
  <2>3. x \in RiderState /\ y \in RiderState
    BY <1>9, <2>2
  <2> QED BY <2>1, <2>2, <2>3
<1> QED BY <1>6, <1>7, <1>8, <1>10 DEF Directions

LEMMA SnakeBegins == ASSUME NEW s \in SnakeReady, game = "snake" PROVE RidersInv(s)
<1> DEFINE r == Riders(StartLen)
<1>1. PICK f \in Larder : s = [status |-> "playing", winner |-> None, riders |-> r, food |-> f]
  BY DEF SnakeReady
<1>2. f \in Ground /\ StartLen \in Nat \ {0} /\ StartLen - 1 <= Margin
  BY ArcadeAssumption DEF Ground
<1>3. /\ r \in [1..2 -> RiderState] /\ r[1].alive /\ r[2].alive
      /\ r[2].dir \in Directions /\ r[2].nextDir \in Directions
      /\ Straight(r[1].body) /\ Straight(r[2].body)
      /\ CellsOf(r[1].body) \cap CellsOf(r[2].body) = {}
  BY <1>2, RidersBegin
<1> HIDE DEF r
<1> QED BY <1>1, <1>2, <1>3 DEF RidersInv, Riding, SnakeState, Untangled, Tame

LEMMA TronBegins == ASSUME game = "tron" PROVE RidersInv(TronReady)
<1> DEFINE r == Riders(1)
<1>1. TronReady = [status |-> "playing", winner |-> None, riders |-> r]
  BY DEF TronReady
<1>2. 1 - 1 <= Margin
  BY ArcadeAssumption
<1>3. /\ r \in [1..2 -> RiderState] /\ r[1].alive /\ r[2].alive
      /\ r[2].dir \in Directions /\ r[2].nextDir \in Directions
      /\ Straight(r[1].body) /\ Straight(r[2].body)
      /\ CellsOf(r[1].body) \cap CellsOf(r[2].body) = {}
  BY <1>2, RidersBegin
<1> HIDE DEF r
<1> QED BY <1>1, <1>3 DEF RidersInv, Riding, TronState, Untangled, Tame

LEMMA SteerKeeps ==
    ASSUME NEW s, RidersInv(s), NEW i \in Seats, NEW d \in Bearings, NEW plain,
           vsBot => i = 0 \/ d \in Directions
    PROVE  /\ RidersInv(SteerInput(s, i, d, plain)) /\ SteerInput(s, i, d, plain).status = s.status
           /\ \A k \in 1..2 : SteerInput(s, i, d, plain).riders[k].body = s.riders[k].body
<1> DEFINE t == SteerInput(s, i, d, plain)
           r == s.riders[i + 1]
           taken == r.alive /\ (plain /\ r.dir # 0 => d # Opposite[r.dir])
<1>1. CASE ~taken
  BY <1>1 DEF SteerInput
<1>2. CASE taken
  <2>1. t = [s EXCEPT !.riders[i + 1].nextDir = d]
    BY <1>2 DEF SteerInput
  <2> HIDE DEF taken
  <2>2. i + 1 \in 1..2 /\ s.riders \in [1..2 -> RiderState]
    BY DEF Seats, RidersInv, Riding, SnakeState, TronState
  <2>3. [s.riders[i + 1] EXCEPT !.nextDir = d] \in RiderState
    BY <2>2 DEF RiderState
  <2>4. [s.riders EXCEPT ![i + 1] = [s.riders[i + 1] EXCEPT !.nextDir = d]] \in [1..2 -> RiderState]
    BY <2>2, <2>3
  <2>5. Riding(t) /\ t.status = s.status /\ t.winner = s.winner
        /\ t.riders = [s.riders EXCEPT ![i + 1] = [s.riders[i + 1] EXCEPT !.nextDir = d]]
    BY <2>1, <2>2, <2>4 DEF RidersInv, Riding, SnakeState, TronState
  <2>6. \A k \in 1..2 : /\ t.riders[k].body = s.riders[k].body /\ t.riders[k].alive = s.riders[k].alive
                        /\ t.riders[k].dir = s.riders[k].dir
                        /\ t.riders[k].nextDir = IF k = i + 1 THEN d ELSE s.riders[k].nextDir
    BY <2>2, <2>3, <2>5 DEF RiderState
  <2>7. t.riders[1].body = s.riders[1].body /\ t.riders[2].body = s.riders[2].body
        /\ t.riders[1].alive = s.riders[1].alive /\ t.riders[2].alive = s.riders[2].alive
        /\ \A j \in Seats : j + 1 \in 1..2
    BY <2>6 DEF Seats
  <2> HIDE DEF t
  <2>8. Tame(t)
    BY <2>6 DEF Tame, RidersInv
  <2> QED BY <2>5, <2>6, <2>7, <2>8 DEF RidersInv, Untangled, t
<1> QED BY <1>1, <1>2

\* A body that has moved on: nothing but its new head is where it was not.
Follows(c, b, head) == CellsOf(c) \subseteq CellsOf(b) \cup {head}

\* The move of a rider that does not crash (Rode)
MovedOn(s, k, head, f) ==
    LET r == s.riders[k]
        body == <<head>> \o r.body
        eats == game = "snake" /\ head = s.food
        grow == IF eats THEN r.grow + 2 ELSE r.grow
        carried == IF game = "tron" \/ grow > 0 THEN body ELSE SubSeq(body, 1, Len(r.body))
    IN  IF eats THEN [s EXCEPT !.riders[k].body = carried, !.riders[k].grow = grow - 1, !.food = f]
        ELSE [s EXCEPT !.riders[k].body = carried, !.riders[k].grow = Max({0, grow - 1})]

\* A rider that crashes stops where it is.
LEMMA RiderStops ==
    ASSUME NEW s, Riding(s), NEW k \in 1..2, NEW o \in 1..2, o # k,
           Straight(s.riders[k].body), NEW t, t = [s EXCEPT !.riders[k].alive = FALSE]
    PROVE  /\ Riding(t) /\ t.status = s.status /\ t.riders[o] = s.riders[o]
           /\ Straight(t.riders[k].body) /\ t.riders[k].body = s.riders[k].body
           /\ t.riders[k].dir = s.riders[k].dir /\ t.riders[k].nextDir = s.riders[k].nextDir
<1> DEFINE r == s.riders[k]
<1>0. s.riders \in [1..2 -> RiderState] /\ s.riders[k] \in RiderState
  BY DEF Riding, SnakeState, TronState
<1>2. [s.riders[k] EXCEPT !.alive = FALSE] \in RiderState
  BY <1>0 DEF RiderState
<1>3. [s.riders EXCEPT ![k] = [s.riders[k] EXCEPT !.alive = FALSE]] \in [1..2 -> RiderState]
  BY <1>0, <1>2
<1>4. Riding(t) /\ t.status = s.status /\ t.winner = s.winner
      /\ t.riders = [s.riders EXCEPT ![k] = [s.riders[k] EXCEPT !.alive = FALSE]]
  BY <1>0, <1>3 DEF Riding, SnakeState, TronState
<1>5. t.riders[o] = s.riders[o] /\ t.riders[k].body = r.body /\ t.riders[k].alive = FALSE
      /\ t.riders[k].dir = r.dir /\ t.riders[k].nextDir = r.nextDir
  BY <1>0, <1>4 DEF RiderState
<1> QED BY <1>4, <1>5

\* A rider that does not moves its head on, and its tail after it unless it grows.
LEMMA RiderMoves ==
    ASSUME NEW s, Riding(s), NEW k \in 1..2, NEW o \in 1..2, o # k, NEW head \in Space, NEW f \in Ground,
           Straight(s.riders[k].body), s.riders[k].body[1] # Nowhere, head \notin CellsOf(s.riders[k].body),
           NEW t, t = MovedOn(s, k, head, f)
    PROVE  /\ Riding(t) /\ t.status = s.status /\ t.riders[o] = s.riders[o]
           /\ Straight(t.riders[k].body)
           /\ Follows(t.riders[k].body, s.riders[k].body, head)
           /\ t.riders[k].dir = s.riders[k].dir /\ t.riders[k].nextDir = s.riders[k].nextDir
<1> DEFINE r == s.riders[k]
           long == <<head>> \o r.body
           eats == game = "snake" /\ head = s.food
           grow == IF eats THEN r.grow + 2 ELSE r.grow
           carried == IF game = "tron" \/ grow > 0 THEN long ELSE SubSeq(long, 1, Len(r.body))
           left == IF eats THEN grow - 1 ELSE Max({0, grow - 1})
           moved == [s.riders EXCEPT ![k].body = carried, ![k].grow = left]
<1>0. s.riders \in [1..2 -> RiderState] /\ s.riders[k] \in RiderState
  BY DEF Riding, SnakeState, TronState
<1>1. carried \in Seq(Space) /\ Straight(carried) /\ Follows(carried, r.body, head)
  <2>1. r.body \in Seq(Space) /\ head \in Space /\ r.body[1] # Nowhere /\ head \notin CellsOf(r.body)
    BY <1>0 DEF RiderState
  <2>2. carried = long \/ carried = SubSeq(long, 1, Len(r.body))
    OBVIOUS
  <2> HIDE DEF carried
  <2> QED BY <2>1, <2>2, BodyMoves DEF Follows
<1>2. left \in Nat
  <2>1. r.grow \in Nat
    BY <1>0 DEF RiderState
  <2>2. CASE eats
    BY <2>1, <2>2
  <2>3. CASE ~eats
    <3>1. PICK g \in Int : g = grow - 1
      BY <2>1
    <3>2. Max({0, g}) = IF g > 0 THEN g ELSE 0
      <4>1. \A x \in {0, g} : (\A y \in {0, g} : x >= y) => x = IF g > 0 THEN g ELSE 0
        BY <3>1
      <4>2. \E x \in {0, g} : \A y \in {0, g} : x >= y
        BY <3>1
      <4> QED BY <4>1, <4>2 DEF Max
    <3>3. left = Max({0, g})
      BY <2>3, <3>1
    <3> QED BY <3>2, <3>3
  <2> QED BY <2>2, <2>3
<1>3. t = IF eats THEN [s EXCEPT !.riders[k].body = carried, !.riders[k].grow = left, !.food = f]
          ELSE [s EXCEPT !.riders[k].body = carried, !.riders[k].grow = left]
  BY ZenonT(60) DEF MovedOn
<1> HIDE DEF carried, left, eats
<1>4. [[s.riders[k] EXCEPT !.body = carried] EXCEPT !.grow = left] \in RiderState
  BY <1>0, <1>1, <1>2 DEF RiderState
<1>5. moved \in [1..2 -> RiderState] /\ moved[o] = s.riders[o]
      /\ moved[k].body = carried /\ moved[k].alive = s.riders[k].alive
      /\ moved[k].dir = s.riders[k].dir /\ moved[k].nextDir = s.riders[k].nextDir
  BY <1>0, <1>4 DEF RiderState
<1> HIDE DEF moved
<1>6. t.riders = moved /\ Riding(t) /\ t.status = s.status /\ t.winner = s.winner
  <2>1. CASE eats
    <3>1. s \in SnakeState /\ game = "snake"
      BY <2>1 DEF eats, Riding
    <3>2. t = [[s EXCEPT !.riders = moved] EXCEPT !.food = f]
      BY <1>3, <2>1, <3>1, <1>0 DEF SnakeState, moved
    <3> QED BY <3>1, <3>2, <1>5 DEF Riding, SnakeState
  <2>2. CASE ~eats
    <3>1. t = [s EXCEPT !.riders = moved]
      BY <1>3, <2>2, <1>0 DEF Riding, SnakeState, TronState, moved
    <3> QED BY <3>1, <1>5 DEF Riding, SnakeState, TronState
  <2> QED BY <2>1, <2>2
<1> QED BY <1>1, <1>5, <1>6

LEMMA JudgedKeeps ==
    ASSUME NEW s, Riding(s), Untangled(s), Tame(s), s.status = "playing"
    PROVE  RidersInv(Judged(s))
<1> DEFINE alive == {i \in Seats : s.riders[i + 1].alive}
           w == CHOOSE i \in alive : TRUE
           v == IF alive = {} THEN Draw ELSE w
           t == Finished(s, v)
<1>1. Judged(s) = IF alive = {} \/ alive # Seats THEN t ELSE s
  <2>1. alive = {} => alive # Seats
    BY DEF Seats
  <2> HIDE DEF alive
  <2> QED BY <2>1 DEF Judged, alive
<1>2. CASE alive = Seats
  <2>1. 0 \in alive /\ 1 \in alive /\ alive # {}
    BY <1>2 DEF Seats
  <2>2. s.riders[1].alive /\ s.riders[2].alive
    BY <2>1
  <2>3. Judged(s) = s
    BY <1>1, <1>2, <2>1
  <2> QED BY <2>2, <2>3 DEF RidersInv
<1>3. CASE alive # Seats
  <2>1. v \in {Draw} \cup Seats /\ \A i \in Seats : s.riders[i + 1].alive <=> v = i
    <3>1. CASE alive = {}
      <4>1. v = Draw
        BY <3>1
      <4>2. \A i \in Seats : ~s.riders[i + 1].alive
        BY <3>1
      <4> QED BY <4>1, <4>2 DEF Seats, Draw
    <3>2. CASE alive # {}
      <4>1. w \in alive /\ v = w
        BY <3>2
      <4>2. alive = {0} \/ alive = {1}
        <5>1. alive \subseteq {0, 1} /\ alive # {0, 1}
          BY <1>3 DEF Seats
        <5> HIDE DEF alive
        <5> QED BY <3>2, <5>1
      <4>3. \A i \in Seats : i \in alive <=> i = w
        <5> HIDE DEF w
        <5> QED BY <4>1, <4>2 DEF Seats
      <4>4. \A i \in Seats : s.riders[i + 1].alive <=> i \in alive
        OBVIOUS
      <4> HIDE DEF alive, w
      <4> QED BY <4>1, <4>3, <4>4 DEF alive
    <3> QED BY <3>1, <3>2
  <2> HIDE DEF v
  <2>2. Riding(t) /\ t.status = "over" /\ t.winner = v /\ t.riders = s.riders
    BY <2>1 DEF Riding, SnakeState, TronState, Finished
  <2>3. Untangled(t) /\ Tame(t)
    BY <2>2 DEF Untangled, Tame
  <2>4. Judged(s) = t
    BY <1>1, <1>3
  <2> HIDE DEF t
  <2> QED BY <2>1, <2>2, <2>3, <2>4 DEF RidersInv
<1> QED BY <1>2, <1>3

\* A tick keeps the riders apart: a head that does not crash runs into no part of
\* a body, and into the other's head only off the board.
LEMMA TickKeeps ==
    ASSUME NEW s0, RidersInv(s0), s0.status = "playing", NEW f1 \in Ground, NEW f2 \in Ground
    PROVE  RidersInv(Ticked(s0, f1, f2))
<1> DEFINE s == Turned(s0)
           h1 == HeadOf(s, 1)
           h2 == HeadOf(s, 2)
           x1 == Crashed(s, 1)
           x2 == Crashed(s, 2)
           t == Rode(s, 1, h1, x1, f1)
           u == Rode(t, 2, h2, x2, f2)
<1>1. Riding(s) /\ s.status = "playing" /\ s.riders[1].body = s0.riders[1].body
      /\ s.riders[2].body = s0.riders[2].body /\ Tame(s)
  <2>1. s0.riders \in [1..2 -> RiderState]
    BY DEF RidersInv, Riding, SnakeState, TronState
  <2> DEFINE q == [k \in 1..2 |-> [s0.riders[k] EXCEPT !.dir = s0.riders[k].nextDir]]
  <2>2. \A k \in 1..2 : /\ q[k] \in RiderState /\ q[k].body = s0.riders[k].body
                        /\ q[k].dir = s0.riders[k].nextDir /\ q[k].nextDir = s0.riders[k].nextDir
    BY <2>1 DEF RiderState
  <2>3. q \in [1..2 -> RiderState]
    BY <2>2
  <2>4. s = [s0 EXCEPT !.riders = q]
    BY DEF Turned
  <2> HIDE DEF q
  <2>5. Riding(s) /\ s.status = s0.status /\ s.riders = q
    BY <2>3, <2>4 DEF RidersInv, Riding, SnakeState, TronState
  <2>6. q[1].body = s0.riders[1].body /\ q[2].body = s0.riders[2].body
        /\ q[2].dir = s0.riders[2].nextDir /\ q[2].nextDir = s0.riders[2].nextDir
    BY <2>2
  <2> HIDE DEF s
  <2> QED BY <2>5, <2>6 DEF RidersInv, Tame
<1>2. Untangled(s)
  <2> HIDE DEF s
  <2> QED BY <1>1 DEF RidersInv, Untangled
<1> HIDE DEF s
<1> DEFINE b1 == s.riders[1].body
           b2 == s.riders[2].body
<1>3. /\ x1 \in BOOLEAN /\ x2 \in BOOLEAN
      /\ ~x1 => /\ h1 \in Space /\ h1 \notin CellsOf(b1) /\ h1 \notin CellsOf(b2)
                /\ h1 # h2 \/ h1 = Nowhere
      /\ ~x2 => /\ h2 \in Space /\ h2 \notin CellsOf(b1) /\ h2 \notin CellsOf(b2)
                /\ h1 # h2 \/ h2 = Nowhere
  BY DEF Crashed, Solid, OnBoard, Ground, Space
\* A rider that is off the board crashes.
<1>0. (~x1 => b1[1] # Nowhere) /\ (~x2 => b2[1] # Nowhere)
  <2>1. b1 \in Seq(Space) /\ b2 \in Seq(Space) /\ Straight(b1) /\ Straight(b2)
    BY <1>1, <1>2 DEF Riding, SnakeState, TronState, RiderState, Untangled
  <2>2. b1[1] \in CellsOf(b1) /\ b2[1] \in CellsOf(b2)
    <3>1. 1 \in 1..Len(b1) /\ 1 \in 1..Len(b2)
      BY <2>1, BodyCells DEF Straight
    <3> QED BY <2>1, <3>1, BodyCells
  <2>3. (b1[1] = Nowhere => h1 = Nowhere) /\ (b2[1] = Nowhere => h2 = Nowhere)
    BY DEF HeadOf
  <2> QED BY <1>3, <2>2, <2>3
<1> HIDE DEF h1, h2, x1, x2
<1>4. Straight(b1) /\ Straight(b2) /\ CellsOf(b1) \cap CellsOf(b2) \subseteq {Nowhere}
  BY <1>2 DEF Untangled
<1>5. /\ Riding(t) /\ t.status = "playing" /\ t.riders[2] = s.riders[2] /\ Straight(t.riders[1].body)
      /\ CellsOf(t.riders[1].body) \subseteq CellsOf(b1) \cup (IF x1 THEN {} ELSE {h1})
  <2>1. 1 \in 1..2 /\ 2 \in 1..2 /\ 2 # 1
    OBVIOUS
  <2>2. CASE x1
    <3>1. t = [s EXCEPT !.riders[1].alive = FALSE]
      BY <2>2 DEF Rode
    <3> HIDE DEF t
    <3>2. /\ Riding(t) /\ t.status = s.status /\ t.riders[2] = s.riders[2]
          /\ Straight(t.riders[1].body) /\ t.riders[1].body = b1
      BY <1>1, <1>4, <2>1, <3>1, RiderStops
    <3> HIDE DEF b1
    <3> QED BY <1>1, <2>2, <3>2
  <2>3. CASE ~x1
    <3>1. t = MovedOn(s, 1, h1, f1)
      BY <2>3 DEF Rode, MovedOn
    <3> HIDE DEF t
    <3>2. /\ Riding(t) /\ t.status = s.status /\ t.riders[2] = s.riders[2]
          /\ Straight(t.riders[1].body)
          /\ Follows(t.riders[1].body, b1, h1)
      <4>1. h1 \in Space /\ h1 \notin CellsOf(s.riders[1].body) /\ Straight(s.riders[1].body)
            /\ s.riders[1].body[1] # Nowhere
        BY <1>0, <1>3, <1>4, <2>3
      <4> QED BY <1>1, <2>1, <3>1, <4>1, RiderMoves
    <3> HIDE DEF b1
    <3> QED BY <1>1, <2>3, <3>2 DEF Follows
  <2> QED BY <2>2, <2>3
<1> HIDE DEF t
<1>6. /\ Riding(u) /\ u.status = "playing" /\ u.riders[1] = t.riders[1] /\ Straight(u.riders[2].body)
      /\ CellsOf(u.riders[2].body) \subseteq CellsOf(b2) \cup (IF x2 THEN {} ELSE {h2})
      /\ u.riders[2].dir = s.riders[2].dir /\ u.riders[2].nextDir = s.riders[2].nextDir
  <2>1. 1 \in 1..2 /\ 2 \in 1..2 /\ 1 # 2
    OBVIOUS
  <2>2. CASE x2
    <3>1. u = [t EXCEPT !.riders[2].alive = FALSE]
      BY <2>2 DEF Rode
    <3> HIDE DEF u
    <3>2. /\ Riding(u) /\ u.status = t.status /\ u.riders[1] = t.riders[1]
          /\ Straight(u.riders[2].body) /\ u.riders[2].body = t.riders[2].body
          /\ u.riders[2].dir = t.riders[2].dir /\ u.riders[2].nextDir = t.riders[2].nextDir
      BY <1>4, <1>5, <2>1, <3>1, RiderStops
    <3> QED BY <1>5, <2>2, <3>2
  <2>3. CASE ~x2
    <3>1. u = MovedOn(t, 2, h2, f2)
      BY <2>3 DEF Rode, MovedOn
    <3> HIDE DEF u
    <3>2. /\ Riding(u) /\ u.status = t.status /\ u.riders[1] = t.riders[1]
          /\ Straight(u.riders[2].body)
          /\ Follows(u.riders[2].body, t.riders[2].body, h2)
          /\ u.riders[2].dir = t.riders[2].dir /\ u.riders[2].nextDir = t.riders[2].nextDir
      <4>1. h2 \in Space /\ h2 \notin CellsOf(t.riders[2].body) /\ Straight(t.riders[2].body)
            /\ t.riders[2].body[1] # Nowhere
        BY <1>0, <1>3, <1>4, <1>5, <2>3
      <4> QED BY <1>5, <2>1, <3>1, <4>1, RiderMoves
    <3> QED BY <1>5, <2>3, <3>2 DEF Follows
  <2> QED BY <2>2, <2>3
<1> HIDE DEF u
<1>7. CellsOf(u.riders[1].body) \cap CellsOf(u.riders[2].body) \subseteq {Nowhere}
  <2> HIDE DEF b1, b2
  <2> QED BY <1>3, <1>4, <1>5, <1>6
<1>8. Untangled(u) /\ Tame(u)
  BY <1>1, <1>5, <1>6, <1>7 DEF Untangled, Tame
<1>9. Ticked(s0, f1, f2) = Judged(u)
  BY DEF Ticked, s, t, u, h1, h2, x1, x2
<1> QED BY <1>6, <1>8, <1>9, JudgedKeeps

\* The bots answer with a direction.
LEMMA SnakeBotSteers ==
    ASSUME NEW s, game = "snake", Riding(s), Untangled(s)
    PROVE  SnakeBot(s) \in Directions
<1> DEFINE from == s.riders[2].body[1]
           options == Options(s)
           alive == {d \in Options(s) : Safe(s, Ahead(from, d, 1))}
           pool == IF alive # {} THEN alive ELSE Options(s)
           far(d) == Abs(Ahead(from, d, 1)[1] - s.food[1]) + Abs(Ahead(from, d, 1)[2] - s.food[2])
           tops == {d \in pool : \A e \in pool : far(d) <= far(e)}
<1>1. s \in SnakeState /\ from \in Space /\ s.food \in Ground
  <2>1. s \in SnakeState
    BY DEF Riding
  <2>2. s.riders[2].body \in Seq(Space) /\ Straight(s.riders[2].body)
    BY <2>1 DEF SnakeState, RiderState, Untangled
  <2>3. 1 \in 1..Len(s.riders[2].body)
    BY <2>2, LenProperties DEF Straight
  <2> QED BY <2>1, <2>2, <2>3, ElementOfSeq DEF SnakeState
<1>2. Options(s) \subseteq Directions /\ Options(s) # {}
  <2>1. {1, 2} \subseteq Directions /\ Options(s) = Directions \ {Opposite[s.riders[2].dir]}
    BY DEF Directions, Options
  <2> HIDE DEF Directions
  <2> QED BY <2>1
<1>3. pool \subseteq Directions /\ pool # {}
  BY <1>2
<1>4. \A d \in Directions : far(d) \in Nat
  <2>1. from[1] \in Int /\ from[2] \in Int /\ s.food[1] \in Int /\ s.food[2] \in Int
    BY <1>1, ArcadeAssumption DEF Ground, Space, Nowhere
  <2> HIDE DEF from
  <2> TAKE d \in Directions
  <2>2. Ahead(from, d, 1)[1] \in Int /\ Ahead(from, d, 1)[2] \in Int
    BY <2>1, VectorIs DEF Ahead
  <2>3. \A x, y \in Int : Abs(x - y) \in Nat
    BY DEF Abs
  <2>4. \A x, y \in Nat : x + y \in Nat
    OBVIOUS
  <2>5. Abs(Ahead(from, d, 1)[1] - s.food[1]) \in Nat /\ Abs(Ahead(from, d, 1)[2] - s.food[2]) \in Nat
    BY <2>1, <2>2, <2>3
  <2> QED BY <2>4, <2>5
<1> HIDE DEF pool, far
<1>5. tops # {}
  <2> DEFINE T == {far(d) : d \in pool}
  <2>1. T \in SUBSET Nat /\ T # {}
    BY <1>3, <1>4
  <2>2. PICK n \in T : \A m \in T : n <= m
    <3> HIDE DEF T
    <3> QED BY <2>1, NatMinimum
  <2>3. PICK d \in pool : n = far(d)
    OBVIOUS
  <2>4. \A e \in pool : far(d) <= far(e)
    BY <2>2, <2>3
  <2> QED BY <2>4
<1>6. tops \in SUBSET Nat /\ tops \subseteq Directions
  <2>1. tops \subseteq pool
    OBVIOUS
  <2> HIDE DEF tops
  <2> QED BY <1>3, <2>1 DEF Directions
<1>7. SnakeBot(s) = Min(tops)
  BY DEF SnakeBot, pool, far
<1> HIDE DEF tops
<1> QED BY <1>5, <1>6, <1>7, MinIs

LEMMA TronBotSteers ==
    ASSUME NEW s, game = "tron", Tame(s), vsBot
    PROVE  TronBot(s) \in Directions
<1> DEFINE from == s.riders[2].body[1]
           space(d) == Max({k \in 0..Side : \A j \in 1..k : Safe(s, Ahead(from, d, j))})
           tops == {d \in Options(s) : space(d) > 0 /\ \A e \in Options(s) : space(d) >= space(e)}
<1>1. tops \subseteq Directions /\ s.riders[2].dir \in Directions
  BY DEF Options, Tame
<1>2. TronBot(s) = IF tops # {} THEN Min(tops) ELSE s.riders[2].dir
  BY DEF TronBot
<1> HIDE DEF tops
<1>3. tops \in SUBSET Nat
  BY <1>1 DEF Directions
<1> QED BY <1>1, <1>2, <1>3, MinIs

-----------------------------------------------------------------------------
(* Every engine *)

\* The state is one of the game's that is played.
PlayedInv ==
    /\ vsBot \in BOOLEAN
    /\ \/ NimInv
       \/ game = "rps" /\ RpsInv(state)
       \/ game = "tictactoe" /\ TttInv(state)
       \/ game = "memory" /\ MemoryInv(state)
       \/ game = "connect4" /\ C4Inv(state)
       \/ game = "gomoku" /\ GomokuInv(state)
       \/ game = "reversi" /\ ReversiInv(state)
       \/ game = "pong" /\ PongInv(state)
       \/ game \in {"snake", "tron"} /\ RidersInv(state)

\* It is, unless one of two people has left.
EngineInv ==
    IF forfeited THEN vsBot = FALSE /\ state.status = "over" /\ state.winner = 0
    ELSE PlayedInv

LEMMA EngineBegins == EngineInit => EngineInv
<1> SUFFICES ASSUME EngineInit PROVE PlayedInv
  BY DEF EngineInit, EngineInv, NimInit, TurnInit, BoardInit, ArcadeInit
<1>1. CASE NimInit
  BY <1>1, NimBegins DEF PlayedInv, NimInit
<1>2. CASE TurnInit
  BY <1>2, RpsBegins, TttBegins, MemoryBegins DEF TurnInit, PlayedInv
<1>3. CASE BoardInit
  BY <1>3, C4Begins, GomokuBegins, ReversiBegins DEF BoardInit, PlayedInv
<1>4. CASE ArcadeInit
  BY <1>4, SnakeBegins, TronBegins, PongBegins DEF ArcadeInit, PlayedInv
<1> QED BY <1>1, <1>2, <1>3, <1>4 DEF EngineInit

\* What the bot knows to lie open
Faces(s) == IF Len(s.up) = 2 THEN {} ELSE {s.up[k] : k \in DOMAIN s.up}

\* What the bot turns over is a card that lies face down, if there is one.
LEMMA MemoryBotFlips ==
    ASSUME NEW s, MemoryInv(s)
    PROVE  /\ MemoryBot(s) \subseteq Cards \ (s.matched \cup Faces(s))
           /\ Cards \ (s.matched \cup Faces(s)) # {} => MemoryBot(s) # {}
<1>1. s.seen \subseteq Cards
  BY DEF MemoryInv, MemoryState
<1> DEFINE up == Faces(s)
           known(v) == {c \in s.seen \ (s.matched \cup up) : s.cards[c] = v}
           whole == {v \in 1..Pairs : Cardinality(known(v)) = 2}
           first == s.cards[CHOOSE c \in up : TRUE]
           left == Cards \ (s.matched \cup up)
<1>2. Unknown(s, up) \subseteq left /\ (left # {} => Unknown(s, up) # {})
  BY DEF Unknown
<1>3. \A v : known(v) \in SUBSET Nat /\ known(v) \subseteq left
  BY <1>1, CardsAre
<1>4. ASSUME NEW v, known(v) # {} PROVE Min(known(v)) \in left
  <2>1. Min(known(v)) \in known(v)
    <3> DEFINE K == known(v)
    <3>1. K \in SUBSET Nat /\ K # {}
      BY <1>3, <1>4
    <3> HIDE DEF K, known
    <3>2. Min(K) \in K
      BY <3>1, MinIs
    <3> QED BY <3>2 DEF K
  <2> QED BY <1>3, <2>1
<1>5. whole # {} => known(Min(whole)) # {}
  <2> SUFFICES ASSUME whole # {} PROVE known(Min(whole)) # {}
    OBVIOUS
  <2>1. whole \in SUBSET Nat
    OBVIOUS
  <2>2. Min(whole) \in whole
    <3> HIDE DEF whole
    <3> QED BY <2>1, MinIs
  <2> DEFINE K == known(Min(whole))
  <2>3. Cardinality(K) = 2
    BY <2>2
  <2> HIDE DEF K
  <2>4. K # {}
    BY <2>3, FS_EmptySet
  <2> QED BY <2>4 DEF K
<1>6. MemoryBot(s) = IF up # {} THEN IF known(first) # {} THEN {Min(known(first))} ELSE Unknown(s, up)
                     ELSE IF whole # {} THEN {Min(known(Min(whole)))} ELSE Unknown(s, up)
  BY DEF MemoryBot, Faces
<1> HIDE DEF known, whole, first
<1> QED BY <1>2, <1>4, <1>5, <1>6

LEMMA EngineTyped ==
    ASSUME PlayedInv
    PROVE  /\ game = "nim21" => NimInv
           /\ game = "rps" => RpsInv(state)
           /\ game = "tictactoe" => TttInv(state)
           /\ game = "memory" => MemoryInv(state)
           /\ game = "connect4" => C4Inv(state)
           /\ game = "gomoku" => GomokuInv(state)
           /\ game = "reversi" => ReversiInv(state)
           /\ game = "pong" => PongInv(state)
           /\ game \in {"snake", "tron"} => RidersInv(state)
  BY DEF PlayedInv, NimInv

\* Moves of either player
LEMMA EngineMoves ==
    ASSUME PlayedInv, EngineNext, state.status = "playing", ~NimNext, ~Abandon
    PROVE  PlayedInv'
<1> SUFFICES ASSUME UNCHANGED <<game, vsBot>> PROVE PlayedInv'
  BY DEF EngineNext, TurnMove, BoardMove, Steer, TurnBotMove, BoardBotMove, ArcadeTick,
         TurnRematch, BoardRematch, ArcadeRematch
<1>0. vsBot' \in BOOLEAN /\ 1 \in Seats
  BY DEF PlayedInv, Seats
<1>1. ASSUME NEW i \in Seats, TurnMove(i) PROVE PlayedInv'
  <2>1. CASE game = "rps" /\ \E m \in Hands : state' = RpsInput(state, i, m)
    BY <1>0, <2>1, EngineTyped, RpsKeeps DEF PlayedInv
  <2>2. CASE game = "tictactoe" /\ \E m : state' = TttInput(state, i, m)
    BY <1>0, <2>2, EngineTyped, TttKeeps DEF PlayedInv
  <2>3. CASE game = "memory" /\ \E m \in Cards : state' = MemoryInput(state, i, m)
    BY <1>0, <2>3, EngineTyped, MemoryTurns DEF PlayedInv
  <2> QED BY <1>1, <2>1, <2>2, <2>3 DEF TurnMove
<1>2. CASE TurnBotMove
  <2>1. CASE game = "rps" /\ \E m \in Hands : state' = RpsInput(state, 1, m)
    BY <1>0, <2>1, EngineTyped, RpsKeeps DEF PlayedInv
  <2>2. CASE game = "tictactoe" /\ \E m : state' = TttInput(state, 1, m)
    BY <1>0, <2>2, EngineTyped, TttKeeps DEF PlayedInv
  <2>3. CASE game = "memory" /\ \E m \in MemoryBot(state) : state' = MemoryInput(state, 1, m)
    <3>1. MemoryInv(state)
      BY <2>3, EngineTyped
    <3>2. \E m \in Cards : state' = MemoryInput(state, 1, m)
      BY <2>3, <3>1, MemoryBotFlips
    <3> QED BY <1>0, <2>3, <3>1, <3>2, MemoryTurns DEF PlayedInv
  <2> QED BY <1>2, <2>1, <2>2, <2>3 DEF TurnBotMove
<1>3. ASSUME NEW i \in Seats, NEW m,
             \/ game = "connect4" /\ state' = C4Input(state, i, m)
             \/ game = "gomoku" /\ state' = GomokuInput(state, i, m)
             \/ game = "reversi" /\ state' = ReversiInput(state, i, m)
      PROVE  PlayedInv'
  <2>1. CASE game = "connect4" /\ state' = C4Input(state, i, m)
    BY <1>0, <2>1, EngineTyped, C4Keeps DEF PlayedInv
  <2>2. CASE game = "gomoku" /\ state' = GomokuInput(state, i, m)
    BY <1>0, <2>2, EngineTyped, GomokuKeeps DEF PlayedInv
  <2>3. CASE game = "reversi" /\ state' = ReversiInput(state, i, m)
    BY <1>0, <2>3, EngineTyped, ReversiKeeps DEF PlayedInv
  <2> QED BY <1>3, <2>1, <2>2, <2>3
<1>4. ASSUME NEW i \in Seats, BoardMove(i) PROVE PlayedInv'
  BY <1>3, <1>4 DEF BoardMove
<1>5. CASE BoardBotMove
  BY <1>0, <1>3, <1>5 DEF BoardBotMove
<1>6. ASSUME NEW t, RidersInv(t), game \in {"snake", "tron"}, state' = t PROVE PlayedInv'
  <2>1. RidersInv(state)'
    BY <1>6 DEF RidersInv, Riding, Tame
  <2> QED BY <1>0, <1>6, <2>1 DEF PlayedInv
<1>7. ASSUME NEW i \in Seats, Steer(i) PROVE PlayedInv'
  <2>1. PICK d \in Bearings, plain \in BOOLEAN : state' = SteerInput(state, i, d, plain)
    BY <1>7 DEF Steer, Directions, Bearings
  <2>2. game \in {"snake", "tron"} /\ RidersInv(state) /\ (vsBot => i = 0)
    BY <1>7, EngineTyped DEF Steer, MayMove
  <2> QED BY <1>6, <2>1, <2>2, SteerKeeps
<1>8. CASE ArcadeTick
  <2>1. ASSUME game \in {"snake", "tron"}, NEW f1 \in Ground, NEW f2 \in Ground, NEW s,
               RidersInv(s), s.status = "playing", state' = Ticked(s, f1, f2)
        PROVE  PlayedInv'
    BY <1>6, <2>1, TickKeeps
  <2>2. CASE game = "snake"
    <3>1. PICK f1 \in Larder, f2 \in Larder :
             state' = Ticked(IF vsBot THEN SteerInput(state, 1, SnakeBot(state), TRUE) ELSE state, f1, f2)
      BY <1>8, <2>2 DEF ArcadeTick
    <3>2. f1 \in Ground /\ f2 \in Ground
      BY ArcadeAssumption DEF Ground
    <3>3. RidersInv(state)
      BY <2>2, EngineTyped
    <3>4. SnakeBot(state) \in Directions /\ SnakeBot(state) \in Bearings
      BY <2>2, <3>3, SnakeBotSteers DEF RidersInv, Directions, Bearings
    <3>5. /\ RidersInv(SteerInput(state, 1, SnakeBot(state), TRUE))
          /\ SteerInput(state, 1, SnakeBot(state), TRUE).status = "playing"
      BY <1>0, <3>3, <3>4, SteerKeeps
    <3>6. CASE vsBot
      <4>1. state' = Ticked(SteerInput(state, 1, SnakeBot(state), TRUE), f1, f2)
        BY <3>1, <3>6
      <4> QED BY <2>1, <2>2, <3>2, <3>5, <4>1
    <3>7. CASE ~vsBot
      <4>1. state' = Ticked(state, f1, f2)
        BY <3>1, <3>7
      <4> QED BY <2>1, <2>2, <3>2, <3>3, <4>1
    <3> QED BY <3>6, <3>7
  <2>3. CASE game = "tron"
    <3> DEFINE o == <<0, 0>>
    <3>1. state' = Ticked(IF vsBot THEN SteerInput(state, 1, TronBot(state), TRUE) ELSE state, o, o)
      BY <1>8, <2>3 DEF ArcadeTick
    <3>2. o \in Ground
      BY ArcadeAssumption DEF Ground
    <3>3. RidersInv(state)
      BY <2>3, EngineTyped
    <3> HIDE DEF o
    <3>6. CASE vsBot
      <4>2. TronBot(state) \in Directions /\ TronBot(state) \in Bearings
        BY <2>3, <3>3, <3>6, TronBotSteers DEF RidersInv, Directions, Bearings
      <4>3. /\ RidersInv(SteerInput(state, 1, TronBot(state), TRUE))
            /\ SteerInput(state, 1, TronBot(state), TRUE).status = "playing"
        BY <1>0, <1>8, <3>3, <4>2, SteerKeeps DEF ArcadeTick
      <4>1. state' = Ticked(SteerInput(state, 1, TronBot(state), TRUE), o, o)
        BY <3>1, <3>6
      <4> QED BY <2>1, <2>3, <3>2, <4>1, <4>3
    <3>7. CASE ~vsBot
      <4>1. state' = Ticked(state, o, o)
        BY <3>1, <3>7
      <4> QED BY <2>1, <2>3, <3>2, <3>3, <4>1
    <3> QED BY <3>6, <3>7
  <2>4. CASE game = "pong" /\ state' \in PongTicked(state)
    BY <1>0, <2>4, EngineTyped, PongKeeps DEF PlayedInv
  <2> QED BY <1>8, <2>2, <2>3, <2>4 DEF ArcadeTick
<1> QED BY <1>1, <1>2, <1>4, <1>5, <1>7, <1>8 DEF EngineNext, TurnRematch, BoardRematch, ArcadeRematch

LEMMA EngineRematches ==
    ASSUME vsBot \in BOOLEAN, TurnRematch \/ BoardRematch \/ ArcadeRematch
    PROVE  PlayedInv'
<1>0. UNCHANGED <<game, vsBot>> /\ vsBot' \in BOOLEAN
  BY DEF TurnRematch, BoardRematch, ArcadeRematch
<1>1. CASE TurnRematch
  BY <1>0, <1>1, RpsBegins, TttBegins, MemoryBegins DEF TurnRematch, PlayedInv
<1>2. CASE BoardRematch
  BY <1>0, <1>2, C4Begins, GomokuBegins, ReversiBegins DEF BoardRematch, PlayedInv
<1>3. CASE ArcadeRematch
  <2>1. CASE game = "pong" /\ state' \in PongReady
    BY <1>0, <2>1, PongBegins DEF PlayedInv
  <2>2. CASE (game = "snake" /\ state' \in SnakeReady) \/ (game = "tron" /\ state' = TronReady)
    <3>1. RidersInv(state')
      BY <2>2, SnakeBegins, TronBegins
    <3>2. RidersInv(state)'
      BY <1>0, <3>1 DEF RidersInv, Riding, Tame
    <3> QED BY <1>0, <2>2, <3>2 DEF PlayedInv
  <2> QED BY <1>3, <2>1, <2>2 DEF ArcadeRematch
<1> QED BY <1>1, <1>2, <1>3

\* One who stays has won.
LEMMA Abandoned ==
    ASSUME PlayedInv, Abandon
    PROVE  vsBot' = FALSE /\ state'.status = "over" /\ state'.winner = 0
<1>1. vsBot' = FALSE /\ state' = [state EXCEPT !.status = "over", !.winner = 0]
  BY DEF PlayedInv, Abandon, Finished
<1>2. "status" \in DOMAIN state /\ "winner" \in DOMAIN state
  BY DEF PlayedInv, NimInv, NimState, RpsInv, RpsState, TttInv, LinesState, MemoryInv, MemoryState, C4Inv,
         GomokuInv, ReversiInv, PongInv, PongState, RidersInv, Riding, SnakeState, TronState
<1> QED BY <1>1, <1>2

LEMMA EngineStep == EngineInv /\ [EngineNext]_tableVars => EngineInv'
<1> SUFFICES ASSUME EngineInv, [EngineNext]_tableVars PROVE EngineInv'
  OBVIOUS
<1>0. vsBot \in BOOLEAN /\ (state.status = "playing" => ~forfeited /\ PlayedInv)
  BY DEF EngineInv, PlayedInv
<1>1. CASE UNCHANGED tableVars
  <2>1. UNCHANGED <<game, vsBot, state, forfeited>>
    BY <1>1 DEF tableVars
  <2> QED BY <2>1 DEF EngineInv, PlayedInv, NimInv, Residues, RidersInv, Riding, Tame
<1>2. CASE NimNext
  <2>1. game = "nim21" /\ vsBot' = vsBot /\ ~forfeited'
    BY <1>0, <1>2 DEF NimNext, NimMove, NimBotMove, NimRematch, MayMove, BotMayMove
  <2>2. NimInv'
    <3>1. CASE NimRematch
      BY <1>0, <3>1, NimAgain
    <3>2. CASE ~NimRematch
      <4>1. state.status = "playing"
        BY <1>2, <3>2 DEF NimNext, NimMove, NimBotMove, MayMove, BotMayMove
      <4> QED BY <1>0, <1>2, <2>1, <4>1, EngineTyped, NimStep
    <3> QED BY <3>1, <3>2
  <2> QED BY <1>0, <2>1, <2>2 DEF EngineInv, PlayedInv
<1>3. CASE Abandon
  <2>1. forfeited' /\ PlayedInv
    BY <1>0, <1>3 DEF Abandon
  <2> QED BY <1>3, <2>1, Abandoned DEF EngineInv
<1>4. CASE TurnRematch \/ BoardRematch \/ ArcadeRematch
  <2>1. ~forfeited' /\ PlayedInv'
    BY <1>0, <1>4, EngineRematches DEF TurnRematch, BoardRematch, ArcadeRematch
  <2> QED BY <2>1 DEF EngineInv
<1>5. CASE EngineNext /\ ~NimNext /\ ~Abandon /\ ~(TurnRematch \/ BoardRematch \/ ArcadeRematch)
  <2>1. state.status = "playing" /\ forfeited' = forfeited
    BY <1>5 DEF EngineNext, TurnMove, BoardMove, Steer, TurnBotMove, BoardBotMove, ArcadeTick,
                MayMove, BotMayMove
  <2>2. PlayedInv'
    BY <1>0, <1>5, <2>1, EngineMoves
  <2> QED BY <1>0, <2>1, <2>2 DEF EngineInv
<1> QED BY <1>1, <1>2, <1>3, <1>4, <1>5

\* What the state of a game of lines says is what the board says.
LEMMA LinesAreRight ==
    ASSUME NEW cells, cells # {}, NEW s \in LinesState(cells), NEW lined \in SUBSET (1..2), Settled(s, lined)
    PROVE  /\ \A i \in Seats : (s.status = "over" /\ s.winner = i) <=> i + 1 \in lined
           /\ (s.status = "over" /\ s.winner = Draw) <=>
                 \A c \in DOMAIN s.board : s.board[c] # 0 /\ 1 \notin lined /\ 2 \notin lined
<1>1. DOMAIN s.board = cells /\ s.status \in {"playing", "over"}
  BY DEF LinesState
<1>2. CASE s.status = "playing"
  BY <1>1, <1>2 DEF Settled
<1>3. ASSUME s.status = "over", NEW i \in Seats, s.winner = i, lined = {i + 1} PROVE
      /\ \A j \in Seats : (s.status = "over" /\ s.winner = j) <=> j + 1 \in lined
      /\ (s.status = "over" /\ s.winner = Draw) <=>
                 \A c \in DOMAIN s.board : s.board[c] # 0 /\ 1 \notin lined /\ 2 \notin lined
  <2>1. i \in {0, 1} /\ (1 \in lined \/ 2 \in lined)
    BY <1>3 DEF Seats
  <2> QED BY <1>1, <1>3, <2>1 DEF Seats, Draw
<1>4. CASE s.status = "over" /\ s.winner = Draw /\ lined = {} /\ \A c \in DOMAIN s.board : s.board[c] # 0
  BY <1>1, <1>4 DEF Seats, Draw
<1> QED BY <1>1, <1>2, <1>3, <1>4 DEF Settled

LEMMA TttIsRight ==
    ASSUME NEW s, TttInv(s)
    PROVE  /\ \A i \in Seats : (s.status = "over" /\ s.winner = i) <=> HasLine(s.board, i + 1)
           /\ (s.status = "over" /\ s.winner = Draw) <=>
                 \A c \in DOMAIN s.board : s.board[c] # 0 /\ ~HasLine(s.board, 1) /\ ~HasLine(s.board, 2)
<1>1. 0..8 # {} /\ s \in LinesState(0..8) /\ TttLined(s.board) \in SUBSET (1..2)
      /\ Settled(s, TttLined(s.board))
  BY DEF TttInv, TttLined
<1>2. \A p \in {1, 2} : p \in TttLined(s.board) <=> HasLine(s.board, p)
  BY DEF TttLined
<1>3. \A i \in Seats : i + 1 \in {1, 2}
  BY DEF Seats
<1>4. /\ \A i \in Seats : (s.status = "over" /\ s.winner = i) <=> i + 1 \in TttLined(s.board)
      /\ (s.status = "over" /\ s.winner = Draw) <=>
           \A c \in DOMAIN s.board : s.board[c] # 0 /\ 1 \notin TttLined(s.board) /\ 2 \notin TttLined(s.board)
  BY <1>1, LinesAreRight
<1> QED BY <1>2, <1>3, <1>4

LEMMA BoardIsRight ==
    ASSUME NEW rows \in Nat \ {0}, NEW cols \in Nat \ {0}, NEW s \in LinesState(Grid(rows, cols)),
           Settled(s, Lined(s.board))
    PROVE  /\ \A i \in Seats : (s.status = "over" /\ s.winner = i) <=> LineOn(s.board, i + 1)
           /\ (s.status = "over" /\ s.winner = Draw) <=>
                 \A c \in DOMAIN s.board : s.board[c] # 0 /\ ~LineOn(s.board, 1) /\ ~LineOn(s.board, 2)
<1>1. <<0, 0>> \in Grid(rows, cols)
  BY DEF Grid
<1>2. \A p \in {1, 2} : p \in Lined(s.board) <=> LineOn(s.board, p)
  BY DEF Lined
<1>3. \A i \in Seats : i + 1 \in {1, 2}
  BY DEF Seats
<1>4. /\ \A i \in Seats : (s.status = "over" /\ s.winner = i) <=> i + 1 \in Lined(s.board)
      /\ (s.status = "over" /\ s.winner = Draw) <=>
           \A c \in DOMAIN s.board : s.board[c] # 0 /\ 1 \notin Lined(s.board) /\ 2 \notin Lined(s.board)
  <2>1. Lined(s.board) \in SUBSET (1..2)
    BY DEF Lined
  <2> QED BY <1>1, <2>1, LinesAreRight
<1> QED BY <1>2, <1>3, <1>4

\* No cell is under two parts of the riders, and only heads are off the board.
LEMMA RidersAreRight ==
    ASSUME NEW s, RidersInv(s)
    PROVE  /\ \A p, q \in Parts(s) : At(s, p) = At(s, q) => p = q \/ At(s, p) = Nowhere
           /\ \A p \in Parts(s) : OnBoard(At(s, p)) \/ (At(s, p) = Nowhere /\ p[2] = 1)
<1> DEFINE b(k) == s.riders[k].body
<1>1. \A k \in 1..2 : b(k) \in Seq(Space) /\ Straight(b(k))
  <2>1. s.riders \in [1..2 -> RiderState]
    BY DEF RidersInv, Riding, SnakeState, TronState
  <2>2. Straight(b(1)) /\ Straight(b(2))
    BY DEF RidersInv, Untangled
  <2>3. \A k \in 1..2 : k = 1 \/ k = 2
    OBVIOUS
  <2> HIDE DEF Straight
  <2> QED BY <2>1, <2>2, <2>3 DEF RiderState
<1>2. CellsOf(b(1)) \cap CellsOf(b(2)) \subseteq {Nowhere}
  BY DEF RidersInv, Untangled
<1>3. \A p \in Parts(s) : /\ p = <<p[1], p[2]>> /\ p[1] \in 1..2 /\ p[2] \in DOMAIN b(p[1])
                          /\ At(s, p) = b(p[1])[p[2]]
  BY DEF Parts, At
<1> HIDE DEF b
<1>4. ASSUME NEW p \in Parts(s)
      PROVE  /\ p = <<p[1], p[2]>> /\ p[1] \in 1..2 /\ p[2] \in 1..Len(b(p[1])) /\ Len(b(p[1])) \in Nat
             /\ At(s, p) = b(p[1])[p[2]] /\ At(s, p) \in CellsOf(b(p[1])) /\ At(s, p) \in Space
             /\ Straight(b(p[1]))
  BY <1>1, <1>3, BodyCells
<1>5. ASSUME NEW p \in Parts(s) PROVE OnBoard(At(s, p)) \/ (At(s, p) = Nowhere /\ p[2] = 1)
  <2>1. CASE p[2] = 1
    BY <1>4, <2>1 DEF Space, Ground, OnBoard
  <2>2. CASE p[2] # 1
    <3>1. p[2] \in 2..Len(b(p[1]))
      BY <1>4, <2>2
    <3> QED BY <1>4, <3>1 DEF Straight, Ground, OnBoard
  <2> QED BY <2>1, <2>2
<1>6. ASSUME NEW p \in Parts(s), NEW q \in Parts(s), At(s, p) = At(s, q)
      PROVE  p = q \/ At(s, p) = Nowhere
  <2>1. CASE p[1] = q[1]
    <3>1. p[2] = q[2]
      BY <1>4, <1>6, <2>1 DEF Straight
    <3> QED BY <1>4, <2>1, <3>1
  <2>2. CASE p[1] # q[1]
    <3>1. (p[1] = 1 /\ q[1] = 2) \/ (p[1] = 2 /\ q[1] = 1)
      BY <1>4, <2>2
    <3>2. At(s, p) \in CellsOf(b(1)) /\ At(s, p) \in CellsOf(b(2))
      BY <1>4, <1>6, <3>1
    <3> QED BY <1>2, <3>2
  <2> QED BY <2>1, <2>2
<1> QED BY <1>5, <1>6

\* A race is won by exactly who has reached the goal.
LEMMA RaceIsRight ==
    ASSUME NEW s, NEW goal \in Nat, s.status \in {"playing", "over"}, Raced(s, goal)
    PROVE  \A i \in Seats : (s.status = "over" /\ s.winner = i) <=> s.scores[i + 1] = goal
<1>1. CASE s.status = "playing"
  BY <1>1 DEF Raced, Seats
<1>2. CASE s.status = "over"
  <2>1. PICK i \in Seats : s.winner = i /\ s.scores[i + 1] = goal /\ s.scores[Other(i) + 1] < goal
    BY <1>2 DEF Raced
  <2>2. \A j \in Seats : j = i \/ j = Other(i)
    BY DEF Seats, Other
  <2>3. i # Other(i)
    BY DEF Seats, Other
  <2>4. ASSUME NEW j \in Seats PROVE s.winner = j <=> s.scores[j + 1] = goal
    <3>1. CASE j = i
      BY <2>1, <3>1
    <3>2. CASE j = Other(i)
      <4>1. s.scores[j + 1] # goal
        BY <2>1, <3>2
      <4> QED BY <2>1, <2>3, <3>2, <4>1
    <3> QED BY <2>2, <3>1, <3>2
  <2> QED BY <1>2, <2>4
<1> QED BY <1>1, <1>2

\* A majority wins reversi.
LEMMA ReversiIsRight ==
    ASSUME NEW s, ReversiInv(s)
    PROVE  /\ s.status = "over" <=> ~CanMove(s.board, 1) /\ ~CanMove(s.board, 2)
           /\ \A i \in Seats : s.status = "over" /\ s.winner = i
                                  => Discs(s.board, i + 1) > Discs(s.board, Other(i) + 1)
           /\ s.status = "over" /\ s.winner = Draw => Discs(s.board, 1) = Discs(s.board, 2)
<1>1. s.status \in {"playing", "over"} /\ s.turn \in Seats
  BY DEF ReversiInv, LinesState
<1>2. CASE s.status = "playing"
  <2>1. CanMove(s.board, s.turn + 1) /\ s.turn + 1 \in {1, 2}
    BY <1>1, <1>2 DEF ReversiInv, Seats
  <2> QED BY <1>2, <2>1
<1>3. CASE s.status = "over"
  <2> DEFINE one == Discs(s.board, 1)
             two == Discs(s.board, 2)
  <2>1. one \in Nat /\ two \in Nat
    BY DiscsAre
  <2>2. /\ ~CanMove(s.board, 1) /\ ~CanMove(s.board, 2)
        /\ (s.winner = 0 /\ one > two) \/ (s.winner = 1 /\ two > one) \/ (s.winner = Draw /\ one = two)
    BY <1>3 DEF ReversiInv
  <2>3. Discs(s.board, 0 + 1) = one /\ Discs(s.board, 1 + 1) = two
        /\ Discs(s.board, Other(0) + 1) = two /\ Discs(s.board, Other(1) + 1) = one
    BY DEF Other
  <2> HIDE DEF one, two
  <2>4. /\ s.winner = 0 => Discs(s.board, 0 + 1) > Discs(s.board, Other(0) + 1)
        /\ s.winner = 1 => Discs(s.board, 1 + 1) > Discs(s.board, Other(1) + 1)
        /\ s.winner = Draw => one = two
    BY <2>2, <2>3 DEF Draw
  <2> QED BY <1>3, <2>2, <2>4 DEF Seats, one, two
<1> QED BY <1>1, <1>2, <1>3

LEMMA PlayedIsRight == PlayedInv => Decided
<1> SUFFICES ASSUME PlayedInv PROVE Decided
  OBVIOUS
<1> DEFINE over == state.status = "over"
           won(i) == over /\ state.winner = i
           drawn == over /\ state.winner = Draw
<1>1. ASSUME game \in {"tictactoe", "connect4", "gomoku"}
      PROVE  /\ \A i \in Seats : won(i) <=> SomeLine(i + 1)
             /\ drawn <=> \A c \in DOMAIN state.board : state.board[c] # 0 /\ ~SomeLine(1) /\ ~SomeLine(2)
  <2>1. CASE game = "tictactoe"
    BY <2>1, EngineTyped, TttIsRight DEF SomeLine
  <2>2. CASE game = "connect4"
    <3>1. Rows \in Nat \ {0} /\ Cols \in Nat \ {0} /\ state \in LinesState(Grid(Rows, Cols))
          /\ Settled(state, Lined(state.board))
      BY <2>2, EngineTyped, BoardAssumption DEF C4Inv
    <3> QED BY <2>2, <3>1, BoardIsRight DEF SomeLine
  <2>3. CASE game = "gomoku"
    <3>1. Board \in Nat \ {0} /\ state \in LinesState(Grid(Board, Board))
          /\ Settled(state, Lined(state.board))
      BY <2>3, EngineTyped, BoardAssumption DEF GomokuInv
    <3> QED BY <2>3, <3>1, BoardIsRight DEF SomeLine
  <2> QED BY <1>1, <2>1, <2>2, <2>3
<1>2. ASSUME game = "memory"
      PROVE  /\ 2 * (state.scores[1] + state.scores[2]) = Cardinality(state.matched)
             /\ over <=> state.matched = Cards
  BY <1>2, EngineTyped DEF MemoryInv
<1>3. ASSUME game = "reversi"
      PROVE  /\ over <=> ~CanMove(state.board, 1) /\ ~CanMove(state.board, 2)
             /\ \A i \in Seats : won(i) => Discs(state.board, i + 1) > Discs(state.board, Other(i) + 1)
             /\ drawn => Discs(state.board, 1) = Discs(state.board, 2)
  BY <1>3, EngineTyped, ReversiIsRight
<1>4. ASSUME game \in {"snake", "tron"}
      PROVE  /\ \A i \in Seats : won(i) => state.riders[i + 1].alive /\ ~state.riders[Other(i) + 1].alive
             /\ ~over => state.riders[1].alive /\ state.riders[2].alive
             /\ \A p, q \in Parts(state) : At(state, p) = At(state, q) => p = q \/ At(state, p) = Nowhere
             /\ \A p \in Parts(state) : OnBoard(At(state, p)) \/ (At(state, p) = Nowhere /\ p[2] = 1)
  <2>1. RidersInv(state)
    BY <1>4, EngineTyped
  <2>2. state.status \in {"playing", "over"}
    BY <2>1 DEF RidersInv, Riding, SnakeState, TronState
  <2>3. ASSUME NEW i \in Seats, won(i) PROVE state.riders[i + 1].alive /\ ~state.riders[Other(i) + 1].alive
    <3>1. Other(i) \in Seats /\ Other(i) # i
      BY DEF Seats, Other
    <3> QED BY <2>1, <2>3, <3>1 DEF RidersInv
  <2>4. ~over => state.riders[1].alive /\ state.riders[2].alive
    BY <2>1, <2>2 DEF RidersInv
  <2> QED BY <2>1, <2>3, <2>4, RidersAreRight
<1>5. ASSUME game \in {"rps", "pong"}
      PROVE  \A i \in Seats : won(i) <=> state.scores[i + 1] = IF game = "rps" THEN WinRounds ELSE WinScore
  <2>1. CASE game = "rps"
    <3>1. WinRounds \in Nat /\ state.status \in {"playing", "over"} /\ Raced(state, WinRounds)
      BY <2>1, EngineTyped, TurnAssumption DEF RpsInv, RpsState
    <3> QED BY <2>1, <3>1, RaceIsRight
  <2>2. CASE game = "pong"
    <3>1. WinScore \in Nat /\ state.status \in {"playing", "over"} /\ Raced(state, WinScore)
      BY <2>2, EngineTyped, ArcadeAssumption DEF PongInv, PongState
    <3> QED BY <2>2, <3>1, RaceIsRight
  <2> QED BY <1>5, <2>1, <2>2
<1> QED BY <1>1, <1>2, <1>3, <1>4, <1>5 DEF Decided

LEMMA EngineIsRight == EngineInv => ResultRight
BY PlayedIsRight DEF EngineInv, ResultRight

\* The result of every game says what its board says (ResultRight), on boards of
\* every size.
THEOREM ResultsAreRight == EngineSpec => []ResultRight
  BY EngineBegins, EngineStep, EngineIsRight, PTL DEF EngineSpec

-----------------------------------------------------------------------------
(* What the bots choose from *)

\* Some element of a finite set scores best.
LEMMA SomeIsBest ==
    ASSUME NEW S, IsFiniteSet(S), S # {}, NEW f, \A c \in S : f[c] \in Int
    PROVE  {c \in S : \A e \in S : f[c] >= f[e]} # {}
<1> DEFINE Above(c) == {e \in S : f[e] > f[c]}
           T == {Above(c) : c \in S}
<1>1. T \in SUBSET SUBSET S /\ T # {}
  OBVIOUS
<1>2. PICK t \in T : \A u \in T : u \subseteq t => u = t
  <2> HIDE DEF T
  <2> QED BY <1>1, SubsetMinimum
<1>3. PICK c \in S : t = Above(c)
  OBVIOUS
<1>4. ASSUME NEW e \in S, f[e] > f[c] PROVE FALSE
  <2>1. Above(e) \subseteq Above(c)
    <3>1. ASSUME NEW x \in S, f[x] > f[e] PROVE f[x] > f[c]
      BY <1>4, <3>1
    <3> QED BY <3>1
  <2>2. e \in Above(c) /\ e \notin Above(e)
    BY <1>4
  <2>3. Above(e) \in T
    OBVIOUS
  <2> HIDE DEF Above, T
  <2> QED BY <1>2, <1>3, <2>1, <2>2, <2>3
<1>5. \A e \in S : f[c] >= f[e]
  BY <1>4
<1> QED BY <1>5

\* Some cell comes first.
LEMMA SomeIsFirst ==
    ASSUME NEW rows \in Nat, NEW cols \in Nat, NEW S \in SUBSET Grid(rows, cols), S # {}
    PROVE  FirstOf(S) \in S
<1> DEFINE R == {c[1] : c \in S}
<1>0. \A c \in S : c[1] \in Nat /\ c[2] \in Nat /\ c = <<c[1], c[2]>>
  BY DEF Grid
<1>1. R \in SUBSET Nat /\ R # {}
  BY <1>0
<1>2. PICK r \in R : \A m \in R : r <= m
  <2> HIDE DEF R
  <2> QED BY <1>1, NatMinimum
<1> DEFINE C == {c[2] : c \in {c \in S : c[1] = r}}
<1>3. C \in SUBSET Nat /\ C # {}
  BY <1>0, <1>2
<1>4. PICK k \in C : \A m \in C : k <= m
  <2> HIDE DEF C
  <2> QED BY <1>3, NatMinimum
<1>5. PICK c \in S : c[1] = r /\ c[2] = k
  BY <1>4
<1>6. ASSUME NEW d \in S \ {c} PROVE Before(c, d)
  <2>1. d[1] \in Nat /\ d[2] \in Nat /\ r \in Nat /\ k \in Nat /\ r <= d[1]
    BY <1>0, <1>1, <1>2, <1>3, <1>4
  <2>2. CASE d[1] = r
    <3>1. d[2] \in C
      BY <2>2
    <3>2. d[2] # k
      <4>1. d = <<d[1], d[2]>> /\ c = <<c[1], c[2]>> /\ d # c
        BY <1>0
      <4> QED BY <1>5, <2>2, <4>1
    <3> QED BY <1>4, <1>5, <2>1, <2>2, <3>1, <3>2 DEF Before
  <2>3. CASE d[1] # r
    BY <1>5, <2>1, <2>3 DEF Before
  <2> QED BY <2>2, <2>3
<1>7. \E e \in S : \A d \in S \ {e} : Before(e, d)
  BY <1>6
<1> QED BY <1>7 DEF FirstOf

\* Every run has a score.
LEMMA RunScored ==
    ASSUME NEW n \in Nat \ {0}, NEW open \in 0..2
    PROVE  ScoreRun(n, open) \in Nat
<1>1. CASE n >= 5 \/ open = 0
  BY <1>1 DEF ScoreRun
<1>2. CASE ~(n >= 5 \/ open = 0)
  <2>1. n \in {1, 2, 3, 4} /\ open \in {1, 2}
    BY <1>2
  <2>2. ScoreRun(n, open) = <<<<4, 12>>, <<60, 220>>, <<600, 5000>>, <<12000, 100000>>>>[n][open]
    BY <1>2 DEF ScoreRun
  <2>3. \A k \in {1, 2, 3, 4} : \A o \in {1, 2} :
          <<<<4, 12>>, <<60, 220>>, <<600, 5000>>, <<12000, 100000>>>>[k][o] \in Nat
    OBVIOUS
  <2> QED BY <2>1, <2>2, <2>3
<1> QED BY <1>1, <1>2

\* Every cell has a score.
LEMMA CellScored ==
    ASSUME NEW rows \in Nat \ {0}, NEW cols \in Nat \ {0}, NEW b \in [Grid(rows, cols) -> 0..2],
           NEW c \in Grid(rows, cols), NEW p
    PROVE  EvalCell(b, c, p) \in Nat
<1> DEFINE ends(d) == {e \in {d, Back(d)} : Holds(b, Step(c, e, Reach(b, c, e, p) + 1), 0)}
           score(d) == ScoreRun(1 + Reach(b, c, d, p) + Reach(b, c, Back(d), p), Cardinality(ends(d)))
<1>1. ASSUME NEW d \in Compass PROVE score(d) \in Nat
  <2>1. Back(d) \in Compass
    BY CompassIs
  <2>2. PICK m \in Nat, n \in Nat : m = Reach(b, c, d, p) /\ n = Reach(b, c, Back(d), p)
    BY <2>1, ReachIs
  <2>3. Cardinality(ends(d)) \in 0..2
    <3> DEFINE E == ends(d)
    <3>1. E = {} \/ E = {d} \/ E = {Back(d)} \/ E = {d, Back(d)}
      BY Zenon
    <3>2. \A x, y : Cardinality({}) = 0 /\ Cardinality({x}) = 1 /\ (x # y => Cardinality({x, y}) = 2)
      <4> TAKE x, y
      <4>1. Cardinality({}) = 0 /\ Cardinality({x}) = 1
        BY FS_EmptySet, FS_Singleton
      <4>2. ASSUME x # y PROVE Cardinality({x, y}) = 2
        <5>1. IsFiniteSet({y}) /\ Cardinality({y}) = 1 /\ x \notin {y}
          BY <4>2, FS_Singleton
        <5>2. Cardinality({y} \cup {x}) = Cardinality({y}) + 1
          BY <5>1, FS_AddElement
        <5>3. {y} \cup {x} = {x, y}
          OBVIOUS
        <5> QED BY <5>1, <5>2, <5>3
      <4> QED BY <4>1, <4>2
    <3> HIDE DEF E
    <3>3. Cardinality(E) \in {0, 1, 2}
      <4>1. CASE d = Back(d)
        <5>1. {d, Back(d)} = {d}
          BY <4>1
        <5> QED BY <3>1, <3>2, <5>1
      <4>2. CASE d # Back(d)
        <5>1. /\ Cardinality({}) = 0 /\ Cardinality({d}) = 1 /\ Cardinality({Back(d)}) = 1
              /\ Cardinality({d, Back(d)}) = 2
          BY <3>2, <4>2, Zenon
        <5> QED BY <3>1, <5>1
      <4> QED BY <4>1, <4>2
    <3> QED BY <3>3 DEF E
  <2>4. 1 + m + n \in Nat \ {0}
    OBVIOUS
  <2> HIDE DEF ends
  <2> QED BY <2>2, <2>3, <2>4, RunScored
<1>2. /\ <<0, 1>> \in Compass /\ <<1, 0>> \in Compass /\ <<1, 1>> \in Compass /\ <<1, -1>> \in Compass
  BY CompassIs
<1>3. EvalCell(b, c, p) = score(<<0, 1>>) + score(<<1, 0>>) + score(<<1, 1>>) + score(<<1, -1>>)
  BY DEF EvalCell
<1> HIDE DEF score
<1>4. score(<<0, 1>>) \in Nat /\ score(<<1, 0>>) \in Nat /\ score(<<1, 1>>) \in Nat /\ score(<<1, -1>>) \in Nat
  BY <1>1, <1>2
<1> QED BY <1>3, <1>4

\* Where some cells are empty and some are not, an empty one lies beside a stone.
LEMMA EdgeOfStones ==
    ASSUME NEW rows \in Nat \ {0}, NEW cols \in Nat \ {0}, NEW S \in SUBSET Grid(rows, cols),
           S # {}, Grid(rows, cols) \ S # {}
    PROVE  \E c \in Grid(rows, cols) \ S, e \in S :
              \E dr, dc \in -1..1 : e = <<c[1] + dr, c[2] + dc>>
<1> DEFINE G == Grid(rows, cols)
           gap(x, y) == IF x > y THEN x - y ELSE y - x
           far(c, e) == gap(c[1], e[1]) + gap(c[2], e[2])
           D == {far(c, e) : c \in G \ S, e \in S}
<1>0. \A c \in G : c[1] \in 0..(rows - 1) /\ c[2] \in 0..(cols - 1) /\ c = <<c[1], c[2]>>
  BY DEF Grid
<1>1. D \in SUBSET Nat /\ D # {}
  <2>1. \A x, y \in Nat : gap(x, y) \in Nat
    OBVIOUS
  <2>2. ASSUME NEW c \in G, NEW e \in G PROVE far(c, e) \in Nat
    <3>1. c[1] \in Nat /\ c[2] \in Nat /\ e[1] \in Nat /\ e[2] \in Nat
      BY <1>0
    <3>2. gap(c[1], e[1]) \in Nat /\ gap(c[2], e[2]) \in Nat
      BY <2>1, <3>1
    <3> QED BY <3>2
  <2> HIDE DEF far
  <2>3. \A c \in G \ S, e \in S : far(c, e) \in Nat
    BY <2>2
  <2>4. \E c \in G \ S, e \in S : TRUE
    OBVIOUS
  <2> HIDE DEF G
  <2> QED BY <2>3, <2>4
<1>2. PICK n \in D : \A m \in D : n <= m
  <2> HIDE DEF D
  <2> QED BY <1>1, NatMinimum
<1>3. PICK c \in G \ S, e \in S : n = far(c, e)
  OBVIOUS
<1>4. c \in G /\ e \in G /\ c # e /\ c = <<c[1], c[2]>> /\ e = <<e[1], e[2]>>
      /\ c[1] \in 0..(rows - 1) /\ c[2] \in 0..(cols - 1) /\ e[1] \in 0..(rows - 1) /\ e[2] \in 0..(cols - 1)
  BY <1>0, <1>3
\* A step from the stone towards the empty cell
<1>5. PICK x \in 0..(rows - 1), y \in 0..(cols - 1) :
         /\ x - e[1] \in -1..1 /\ y - e[2] \in -1..1
         /\ gap(c[1], x) + gap(c[2], y) < far(c, e)
  <2> DEFINE x == IF c[1] > e[1] THEN e[1] + 1 ELSE IF c[1] < e[1] THEN e[1] - 1 ELSE e[1]
             y == IF c[1] # e[1] THEN e[2]
                  ELSE IF c[2] > e[2] THEN e[2] + 1 ELSE IF c[2] < e[2] THEN e[2] - 1 ELSE e[2]
  <2>1. c[1] # e[1] \/ c[2] # e[2]
    BY <1>4
  <2>2. x \in 0..(rows - 1) /\ y \in 0..(cols - 1) /\ x - e[1] \in -1..1 /\ y - e[2] \in -1..1
    BY <1>4
  <2>3. gap(c[1], x) + gap(c[2], y) < far(c, e)
    <3>1. CASE c[1] # e[1]
      <4>1. gap(c[1], x) < gap(c[1], e[1]) /\ y = e[2]
        BY <1>4, <3>1
      <4>2. gap(c[1], x) \in Int /\ gap(c[1], e[1]) \in Int /\ gap(c[2], e[2]) \in Int
        BY <1>4, <2>2
      <4> QED BY <4>1, <4>2
    <3>2. CASE c[1] = e[1]
      <4>1. gap(c[2], y) < gap(c[2], e[2]) /\ x = e[1]
        BY <1>4, <2>1, <3>2
      <4>2. gap(c[2], y) \in Int /\ gap(c[1], e[1]) \in Int /\ gap(c[2], e[2]) \in Int
        BY <1>4, <2>2
      <4> QED BY <4>1, <4>2
    <3> QED BY <3>1, <3>2
  <2> QED BY <2>2, <2>3
<1> DEFINE w == <<x, y>>
<1>6. w \in G /\ w[1] = x /\ w[2] = y /\ far(c, w) < n
  <2>1. w \in G /\ w[1] = x /\ w[2] = y
    BY <1>5 DEF Grid
  <2> QED BY <1>3, <1>5, <2>1
<1>7. w \notin S
  <2> SUFFICES ASSUME w \in S PROVE FALSE
    OBVIOUS
  <2>1. far(c, w) \in D
    BY <1>3
  <2> HIDE DEF D, far, w
  <2>2. n <= far(c, w) /\ n \in Nat /\ far(c, w) \in Nat
    BY <1>1, <1>2, <2>1
  <2> QED BY <1>6, <2>2
<1>8. e = <<w[1] + (e[1] - x), w[2] + (e[2] - y)>> /\ e[1] - x \in -1..1 /\ e[2] - y \in -1..1
  <2>1. x + (e[1] - x) = e[1] /\ y + (e[2] - y) = e[2] /\ e[1] - x \in -1..1 /\ e[2] - y \in -1..1
    BY <1>4, <1>5
  <2> QED BY <1>4, <1>6, <2>1
<1> HIDE DEF w
<1> QED BY <1>3, <1>6, <1>7, <1>8

\* The bots of the board games answer with moves their engines take.
LEMMA GomokuBotPlays ==
    ASSUME NEW s, GomokuInv(s), s.status = "playing"
    PROVE  GomokuBot(s) \in Grid(Board, Board) /\ s.board[GomokuBot(s)] = 0
<1> DEFINE b == s.board
           near(c) == \E dr, dc \in -2..2 : LET e == Step(c, <<dr, dc>>, 1)
                                            IN  e # c /\ e \in DOMAIN b /\ b[e] # 0
           D == {c \in DOMAIN b : b[c] = 0 /\ near(c)}
           score == [c \in D |-> 10 * EvalCell(b, c, 2) + 9 * EvalCell(b, c, 1)]
           tops == {c \in D : \A e \in D : score[c] >= score[e]}
<1>1. Board \in Nat \ {0} /\ b \in [Grid(Board, Board) -> 0..2] /\ DOMAIN b = Grid(Board, Board)
  BY BoardAssumption DEF GomokuInv, LinesState
<1>2. PICK free \in Grid(Board, Board) : b[free] = 0
  BY <1>1 DEF GomokuInv, Settled
<1> HIDE DEF b
<1>3. ASSUME NEW c \in Grid(Board, Board), NEW e \in Grid(Board, Board), b[c] = 0, b[e] # 0,
             NEW dr \in -1..1, NEW dc \in -1..1, e = <<c[1] + dr, c[2] + dc>>
      PROVE  c \in D
  <2>1. c[1] \in Int /\ c[2] \in Int
    BY <1>1 DEF Grid
  <2>2. Step(c, <<dr, dc>>, 1) = e
    <3>1. Step(c, <<dr, dc>>, 1) = <<c[1] + 1 * dr, c[2] + 1 * dc>>
      BY DEF Step
    <3>2. 1 * dr = dr /\ 1 * dc = dc
      OBVIOUS
    <3> QED BY <1>3, <3>1, <3>2
  <2>3. dr \in -2..2 /\ dc \in -2..2
    OBVIOUS
  <2>4. e # c
    BY <1>3
  <2>5. near(c)
    BY <1>1, <1>3, <2>2, <2>3, <2>4, SMTT(30)
  <2> HIDE DEF near
  <2> QED BY <1>1, <1>3, <2>5
<1> HIDE DEF near
<1>4. CASE D = {}
  <2> DEFINE S == {c \in Grid(Board, Board) : b[c] # 0}
  <2>1. S = {}
    <3> SUFFICES ASSUME S # {} PROVE FALSE
      OBVIOUS
    <3>1. S \in SUBSET Grid(Board, Board) /\ Grid(Board, Board) \ S # {}
      BY <1>2
    <3> HIDE DEF S
    <3>2. \E c \in Grid(Board, Board) \ S, e \in S : \E dr, dc \in -1..1 : e = <<c[1] + dr, c[2] + dc>>
      BY <1>1, <3>1, EdgeOfStones
    <3>3. /\ \A c \in Grid(Board, Board) \ S : c \in Grid(Board, Board) /\ b[c] = 0
          /\ \A e \in S : e \in Grid(Board, Board) /\ b[e] # 0
      BY DEF S
    <3>4. PICK c \in Grid(Board, Board), e \in Grid(Board, Board), dr \in -1..1, dc \in -1..1 :
             b[c] = 0 /\ b[e] # 0 /\ e = <<c[1] + dr, c[2] + dc>>
      BY ONLY <3>2, <3>3, Zenon
    <3> HIDE DEF D
    <3>5. c \in D
      BY <1>3, <3>4, Zenon
    <3> QED BY <1>4, <3>5, Zenon
  <2>2. DOMAIN score = {}
    BY <1>4
  <2>3. GomokuBot(s) = IF DOMAIN score = {} THEN <<Board \div 2, Board \div 2>> ELSE FirstOf(tops)
    BY Zenon DEF GomokuBot, b, near
  <2>4. <<Board \div 2, Board \div 2>> \in Grid(Board, Board)
    BY <1>1 DEF Grid
  <2> QED BY <1>4, <2>1, <2>2, <2>3, <2>4 DEF b
<1>5. CASE D # {}
  <2>1. IsFiniteSet(D)
    BY <1>1, GridSize, FS_Subset
  <2>2. D \subseteq Grid(Board, Board) /\ \A c \in D : b[c] = 0
    BY <1>1
  <2>3. \A c \in D : score[c] \in Int
    <3> SUFFICES ASSUME NEW c \in D PROVE score[c] \in Int
      OBVIOUS
    <3>1. EvalCell(b, c, 2) \in Nat /\ EvalCell(b, c, 1) \in Nat
      BY <1>1, <2>2, CellScored
    <3>2. score[c] = 10 * EvalCell(b, c, 2) + 9 * EvalCell(b, c, 1)
      OBVIOUS
    <3> HIDE DEF score
    <3> QED BY <3>1, <3>2
  <2>4. GomokuBot(s) = IF DOMAIN score = {} THEN <<Board \div 2, Board \div 2>>
                       ELSE FirstOf({c \in DOMAIN score : \A e \in DOMAIN score : score[c] >= score[e]})
    BY DEF GomokuBot, b, near
  <2>5. DOMAIN score = D
    OBVIOUS
  <2>6. GomokuBot(s) = FirstOf(tops)
    BY <1>5, <2>4, <2>5
  <2> HIDE DEF score, D
  <2>7. tops # {} /\ tops \subseteq D
    BY <1>5, <2>1, <2>3, SomeIsBest
  <2>8. Board \in Nat /\ tops \in SUBSET Grid(Board, Board)
    BY <1>1, <2>2, <2>7
  <2> HIDE DEF tops
  <2>9. FirstOf(tops) \in tops
    BY <2>7, <2>8, SomeIsFirst
  <2> QED BY <2>2, <2>6, <2>7, <2>9 DEF b
<1> QED BY <1>4, <1>5

LEMMA C4BotPlays ==
    ASSUME NEW s, Playable(s.board) # {}
    PROVE  C4Bot(s) \in Playable(s.board)
<1> DEFINE b == s.board
           mine == {col \in Playable(b) : WinsAt(b, col, 2)}
           theirs == {col \in Playable(b) : WinsAt(b, col, 1)}
           after(col) == [b EXCEPT ![DropCell(b, col)] = 2]
           safe == {col \in Playable(b) : \A reply \in Playable(after(col)) : ~WinsAt(after(col), reply, 1)}
           ks(cols) == {k \in DOMAIN CentreFirst : CentreFirst[k] \in cols}
           central(cols) == CentreFirst[Min(ks(cols))]
<1>1. Playable(b) \in SUBSET Nat /\ Playable(b) \subseteq 0..(Cols - 1)
  BY DEF Playable, C4Columns
<1>2. mine \subseteq Playable(b) /\ theirs \subseteq Playable(b) /\ safe \subseteq Playable(b)
  OBVIOUS
<1>3. C4Bot(s) = IF mine # {} THEN Min(mine) ELSE IF theirs # {} THEN Min(theirs)
                 ELSE IF safe # {} THEN central(safe) ELSE central(Playable(b))
  BY DEF C4Bot
<1>4. ASSUME NEW cols \in SUBSET Playable(b), cols # {} PROVE central(cols) \in cols
  <2> DEFINE K == ks(cols)
  <2>1. K \in SUBSET Nat
    BY BoardAssumption
  <2>2. K # {}
    <3>1. PICK col \in cols : col \in 0..(Cols - 1)
      BY <1>1, <1>4
    <3>2. \E k \in DOMAIN CentreFirst : CentreFirst[k] = col
      BY <3>1, BoardAssumption
    <3> QED BY <3>2
  <2>3. Min(K) \in K
    <3> HIDE DEF K
    <3> QED BY <2>1, <2>2, MinIs
  <2> QED BY <2>3
<1> HIDE DEF mine, theirs, safe, central, b
<1>5. ASSUME NEW cols \in SUBSET Playable(b), cols # {} PROVE Min(cols) \in cols
  BY <1>1, <1>5, MinIs
<1>6. Playable(b) # {}
  BY DEF b
<1> QED BY <1>2, <1>3, <1>4, <1>5, <1>6 DEF b

LEMMA ReversiBotPlays ==
    ASSUME NEW s, s \in LinesState(ReversiCells), CanMove(s.board, 2)
    PROVE  ReversiBot(s) \in LegalMoves(s.board, 2)
<1> DEFINE b == s.board
           D == LegalMoves(b, 2)
           score == [c \in D |-> Weight[c] + Cardinality(Flips(b, c, 2))]
           tops == {c \in D : \A e \in D : score[c] >= score[e]}
<1>1. N \in Nat \ {0} /\ ReversiCells = Grid(N, N) /\ DOMAIN b = Grid(N, N)
  BY BoardAssumption DEF ReversiCells, LinesState
<1>2. D \subseteq Grid(N, N) /\ D # {}
  BY <1>1 DEF LegalMoves, CanMove
<1>3. IsFiniteSet(Grid(N, N)) /\ IsFiniteSet(D)
  BY <1>1, <1>2, GridSize, FS_Subset
<1> HIDE DEF b
<1>4. ASSUME NEW c \in D PROVE score[c] \in Int
  <2>1. Flips(b, c, 2) \subseteq Grid(N, N)
    <3> DEFINE line(e) == IF Holds(b, Step(c, e, Reach(b, c, e, 3 - 2) + 1), 2)
                          THEN {Step(c, e, j) : j \in 1..Reach(b, c, e, 3 - 2)} ELSE {}
               dirs == {e \in Compass : Holds(b, Step(c, e, 1), 3 - 2)}
    <3>1. Flips(b, c, 2) = IF b[c] # 0 THEN {} ELSE UNION {line(e) : e \in dirs}
      BY DEF Flips
    <3>2. ASSUME NEW e \in Compass PROVE line(e) \subseteq Grid(N, N)
      <4>1. \A j \in 1..Reach(b, c, e, 3 - 2) : Holds(b, Step(c, e, j), 3 - 2)
        BY <1>1, <1>2, ReachIs
      <4> QED BY <1>1, <4>1 DEF Holds
    <3>3. dirs \subseteq Compass
      OBVIOUS
    <3> HIDE DEF line, dirs
    <3> QED BY <3>1, <3>2, <3>3
  <2>2. Cardinality(Flips(b, c, 2)) \in Nat
    BY <1>3, <2>1, FS_Subset, FS_CardinalityType
  <2>3. Weight[c] \in Int
    BY <1>2, BoardAssumption DEF Grid
  <2>4. score[c] = Weight[c] + Cardinality(Flips(b, c, 2))
    OBVIOUS
  <2> HIDE DEF score
  <2> QED BY <2>2, <2>3, <2>4
<1>5. ReversiBot(s) = FirstOf({c \in DOMAIN score : \A e \in DOMAIN score : score[c] >= score[e]})
  BY DEF ReversiBot, b
<1>6. DOMAIN score = D
  OBVIOUS
<1>7. ReversiBot(s) = FirstOf(tops)
  BY <1>5, <1>6
<1> HIDE DEF score, D
<1>8. tops # {} /\ tops \subseteq D
  BY <1>2, <1>3, <1>4, SomeIsBest
<1>9. N \in Nat /\ tops \in SUBSET Grid(N, N)
  BY <1>1, <1>2, <1>8
<1> HIDE DEF tops
<1>10. FirstOf(tops) \in tops
  BY <1>8, <1>9, SomeIsFirst
<1> QED BY <1>7, <1>8, <1>10 DEF D, b

-----------------------------------------------------------------------------
(* What changes a game *)

LEMMA NimGoes ==
    ASSUME NEW s \in NimState, NEW take \in NimTakes, take <= s.remaining, NEW i, i = s.turn
    PROVE  NimInput(s, i, take) # s
<1>1. s.remaining \in Nat /\ take \in 1..3
  BY NimStartAssumption DEF NimState, NimTakes, NimMaxTake
<1>2. CASE take = s.remaining
  <2>1. NimInput(s, i, take) = Finished([s EXCEPT !.remaining = 0], Other(i))
    BY <1>1, <1>2 DEF NimInput
  <2>2. NimInput(s, i, take).remaining = 0
    BY <2>1 DEF Finished, NimState
  <2> QED BY <1>1, <1>2, <2>2
<1>3. CASE take # s.remaining
  <2>1. NimInput(s, i, take) = [s EXCEPT !.remaining = s.remaining - take, !.turn = Other(i)]
    BY <1>1, <1>3 DEF NimInput
  <2>2. NimInput(s, i, take).remaining = s.remaining - take
    BY <2>1 DEF NimState
  <2> QED BY <1>1, <2>2
<1> QED BY <1>2, <1>3

LEMMA RpsGoes ==
    ASSUME NEW s, RpsInv(s), s.status = "playing", NEW i \in Seats, s.choices[i + 1] = None, NEW hand \in Hands
    PROVE  RpsInput(s, i, hand) # s
<1> DEFINE next == [s EXCEPT !.choices[i + 1] = hand]
           t == RpsInput(s, i, hand)
<1>0. hand # None /\ i + 1 \in 1..2 /\ s.choices \in [1..2 -> Hands \cup {None}] /\ s \in RpsState
  BY DEF Hands, None, Seats, RpsInv, RpsState
<1>1. t = IF None \in {next.choices[1], next.choices[2]} THEN next ELSE RpsResolved(next)
  BY DEF RpsInput
<1>2. next.choices = [s.choices EXCEPT ![i + 1] = hand]
  BY <1>0 DEF RpsState
<1>3. CASE None \in {next.choices[1], next.choices[2]}
  <2>1. t = next /\ next.choices[i + 1] = hand
    BY <1>0, <1>1, <1>2, <1>3
  <2> QED BY <1>0, <2>1
<1>4. CASE None \notin {next.choices[1], next.choices[2]}
  <2>1. PICK k \in 1..2 : s.choices[k] # None
    <3>1. CASE i + 1 = 1
      BY <1>0, <1>2, <1>4, <3>1
    <3>2. CASE i + 1 = 2
      BY <1>0, <1>2, <1>4, <3>2
    <3> QED BY <1>0, <3>1, <3>2
  <2>2. next \in RpsState
    BY <1>0, <1>2 DEF RpsState
  <2> HIDE DEF next
  <2>3. RpsResolved(next).choices = <<None, None>>
    BY <2>2 DEF RpsResolved, RpsState, Finished
  <2>4. \A j \in 1..2 : <<None, None>>[j] = None
    OBVIOUS
  <2> QED BY <1>1, <1>4, <2>1, <2>3, <2>4
<1> QED BY <1>3, <1>4

LEMMA TttGoes ==
    ASSUME NEW s \in LinesState(0..8), NEW i \in Seats, i = s.turn, NEW c \in 0..8, s.board[c] = 0
    PROVE  TttInput(s, i, c) # s
<1> DEFINE next == [s EXCEPT !.board[c] = i + 1]
           t == TttInput(s, i, c)
<1>1. t = IF HasLine(next.board, i + 1) THEN Finished(next, i)
          ELSE IF Blank(next.board) = {} THEN Finished(next, Draw)
          ELSE [next EXCEPT !.turn = Other(i)]
  BY DEF TttInput, Blank, LinesState
<1>2. next.board[c] = i + 1 /\ i + 1 # 0 /\ next \in LinesState(0..8)
  BY DEF LinesState, Seats
<1> HIDE DEF next
<1>3. t.board = next.board
  BY <1>1, <1>2 DEF Finished, LinesState
<1> QED BY <1>2, <1>3

LEMMA StoneGoes ==
    ASSUME NEW cells, NEW s \in LinesState(cells), NEW i \in Seats, NEW c \in cells, s.board[c] = 0,
           NEW full, full \in BOOLEAN
    PROVE  Placed(s, i, c, full) # s
<1> DEFINE next == [s EXCEPT !.board[c] = i + 1]
           t == Placed(s, i, c, full)
<1>1. t = Finished(next, i) \/ t = Finished(next, Draw) \/ t = [next EXCEPT !.turn = Other(i)]
  BY DEF Placed
<1>2. next.board[c] = i + 1 /\ i + 1 # 0 /\ next \in LinesState(cells)
  BY DEF LinesState, Seats
<1> HIDE DEF next, t
<1>3. t.board = next.board
  BY <1>1, <1>2 DEF Finished, LinesState
<1> QED BY <1>2, <1>3 DEF t

LEMMA C4Goes ==
    ASSUME NEW s, C4Inv(s), NEW i \in Seats, i = s.turn, NEW col \in Playable(s.board)
    PROVE  C4Input(s, i, col) # s
<1> DEFINE c == DropCell(s.board, col)
           full == TopFull([s.board EXCEPT ![c] = i + 1])
<1>1. s \in LinesState(Grid(Rows, Cols)) /\ s.board \in [Grid(Rows, Cols) -> 0..2]
  BY DEF C4Inv, LinesState
<1>2. c \in Grid(Rows, Cols) /\ s.board[c] = 0
  BY <1>1, DropFalls
<1>3. C4Input(s, i, col) = Placed(s, i, c, full)
  BY DEF C4Input
<1>4. full \in BOOLEAN
  BY DEF TopFull
<1> HIDE DEF c, full
<1> QED BY <1>1, <1>2, <1>3, <1>4, StoneGoes

LEMMA GomokuGoes ==
    ASSUME NEW s, GomokuInv(s), NEW i \in Seats, i = s.turn, NEW c \in Grid(Board, Board), s.board[c] = 0
    PROVE  GomokuInput(s, i, c) # s
<1> DEFINE full == BoardFull([s.board EXCEPT ![c] = i + 1])
<1>1. s \in LinesState(Grid(Board, Board)) /\ DOMAIN s.board = Grid(Board, Board)
  BY DEF GomokuInv, LinesState
<1>2. GomokuInput(s, i, c) = Placed(s, i, c, full)
  BY <1>1 DEF GomokuInput, Holds
<1>3. full \in BOOLEAN
  BY DEF BoardFull
<1> HIDE DEF full
<1> QED BY <1>1, <1>2, <1>3, StoneGoes

LEMMA ReversiGoes ==
    ASSUME NEW s \in LinesState(ReversiCells), NEW i \in Seats, i = s.turn,
           NEW c \in LegalMoves(s.board, i + 1)
    PROVE  ReversiInput(s, i, c) # s
<1> DEFINE flipped == Flips(s.board, c, i + 1)
           board == [e \in ReversiCells |-> IF e \in flipped \cup {c} THEN i + 1 ELSE s.board[e]]
           next == [s EXCEPT !.board = board]
<1>1. flipped # {} /\ c \in ReversiCells /\ s.board[c] = 0
  BY DEF LegalMoves, Flips
<1>2. ReversiInput(s, i, c) = Advance(next)
  BY <1>1 DEF ReversiInput, LinesState
<1>3. board[c] = i + 1 /\ i + 1 # 0
  BY <1>1 DEF Seats
<1>4. next.board = board
  BY DEF LinesState
<1> HIDE DEF board
<1>5. DOMAIN next = DOMAIN s /\ "board" \in DOMAIN next
  BY DEF LinesState
<1>6. \A w : Finished(next, w).board = next.board
  BY <1>5 DEF Finished, LinesState
<1>7. [next EXCEPT !.turn = Other(@)].board = next.board
  BY DEF LinesState
<1> HIDE DEF next
<1>8. Advance(next).board = next.board
  BY <1>6, <1>7 DEF Advance
<1> QED BY <1>1, <1>2, <1>3, <1>4, <1>8

\* A card that lies face down changes what lies open.
LEMMA MemoryGoes ==
    ASSUME NEW s, MemoryInv(s), s.status = "playing", NEW i \in Seats, i = s.turn,
           NEW c \in Cards \ (s.matched \cup Faces(s))
    PROVE  MemoryInput(s, i, c) # s
<1>1. s.up \in Shown(s.matched)
  BY DEF MemoryInv
<1>2. Showing(s) # s.up \/ Showing(s) # <<c>>
  <2> SUFFICES ASSUME Showing(s) = s.up, Showing(s) = <<c>> PROVE FALSE
    OBVIOUS
  <2>1. Len(s.up) = 1 /\ 1 \in DOMAIN s.up /\ s.up[1] = c
    OBVIOUS
  <2>2. Faces(s) = {s.up[k] : k \in DOMAIN s.up}
    BY <2>1 DEF Faces
  <2> QED BY <2>1, <2>2
<1> QED BY <1>2, MemoryTurns

\* While they play, a card lies face down.
LEMMA MemoryHasMove ==
    ASSUME NEW s, MemoryInv(s), s.status = "playing"
    PROVE  Cards \ (s.matched \cup Faces(s)) # {}
<1>1. s.up \in Shown(s.matched) /\ s.matched \subseteq Cards /\ s.matched # Cards /\ s.cards \in Shuffles
  BY DEF MemoryInv, MemoryState
<1>2. CASE Showing(s) = <<>>
  <2>1. Faces(s) = {}
    <3>1. CASE Len(s.up) = 2
      BY <3>1 DEF Faces
    <3>2. CASE Len(s.up) # 2
      <4>1. s.up = <<>>
        BY <1>2, <3>2 DEF Showing
      <4> QED BY <3>2, <4>1 DEF Faces
    <3> QED BY <3>1, <3>2
  <2> QED BY <1>1, <2>1
<1>3. ASSUME NEW a \in Cards \ s.matched, s.up = <<a>> PROVE Cards \ (s.matched \cup Faces(s)) # {}
  <2>1. Faces(s) = {a}
    <3>1. Len(<<a>>) # 2 /\ {<<a>>[k] : k \in DOMAIN <<a>>} = {a}
      OBVIOUS
    <3> QED BY <1>3, <3>1 DEF Faces
  <2>2. PICK c \in Cards \ {a} : s.cards[c] = s.cards[a]
    BY <1>1, PairExists
  <2>3. c \notin s.matched
    BY <2>2 DEF MemoryInv
  <2> QED BY <2>1, <2>2, <2>3
<1> QED BY <1>1, <1>2, <1>3, OpenIs

LEMMA NimHasMove ==
    ASSUME NimInv, state.status = "playing"
    PROVE  Goes(NimInput, NimTakes, state.turn = 1, {NimBot(state)})
<1>1. state \in NimState /\ state.remaining \in Nat /\ state.remaining > 0 /\ state.turn \in Seats
  BY NimStartAssumption DEF NimInv, NimState
<1>2. 1 \in NimTakes /\ 1 <= state.remaining
  BY <1>1 DEF NimTakes, NimMaxTake
<1>3. NimInput(state, state.turn, 1) # state
  BY <1>1, <1>2, NimGoes
<1>4. NimBot(state) \in NimTakes /\ NimBot(state) <= state.remaining
  BY <1>1, NimAnswer
<1>5. state.turn = 1 => NimInput(state, 1, NimBot(state)) # state
  BY <1>1, <1>4, NimGoes
<1> QED BY <1>1, <1>2, <1>3, <1>5 DEF Goes

LEMMA RpsHasMove ==
    ASSUME RpsInv(state), state.status = "playing"
    PROVE  Goes(RpsInput, Hands, RpsBotDue(state), Hands)
<1>1. PICK k \in 1..2 : state.choices[k] = None
  BY DEF RpsInv
<1>2. PICK i \in Seats : k = i + 1
  <2>1. k - 1 \in Seats /\ k = (k - 1) + 1
    BY DEF Seats
  <2> QED BY <2>1
<1>3. 0 \in Hands
  BY DEF Hands
<1>4. RpsInput(state, i, 0) # state
  BY <1>1, <1>2, <1>3, RpsGoes
<1>5. ASSUME RpsBotDue(state), NEW m \in Hands PROVE RpsInput(state, 1, m) # state
  <2>1. 1 \in Seats /\ state.choices[1 + 1] = None
    BY <1>5 DEF Seats, RpsBotDue
  <2> QED BY <2>1, RpsGoes
<1> QED BY <1>3, <1>4, <1>5 DEF Goes

LEMMA TttHasMove ==
    ASSUME TttInv(state), state.status = "playing"
    PROVE  Goes(TttInput, 0..8, FALSE, {})
<1>1. state \in LinesState(0..8) /\ state.turn \in Seats /\ DOMAIN state.board = 0..8
  BY DEF TttInv, LinesState
<1>2. PICK c \in 0..8 : state.board[c] = 0
  BY <1>1 DEF TttInv, Settled
<1> QED BY <1>1, <1>2, TttGoes DEF Goes

LEMMA MemoryHasAnswer ==
    ASSUME MemoryInv(state), state.status = "playing"
    PROVE  Goes(MemoryInput, Cards, state.turn = 1, MemoryBot(state))
<1> DEFINE down == Cards \ (state.matched \cup Faces(state))
<1>1. state.turn \in Seats /\ down # {} /\ MemoryBot(state) \subseteq down /\ MemoryBot(state) # {}
  BY MemoryHasMove, MemoryBotFlips DEF MemoryInv, MemoryState
<1>2. \A c \in down : MemoryInput(state, state.turn, c) # state
  BY <1>1, MemoryGoes
<1>3. down \subseteq Cards
  OBVIOUS
<1> HIDE DEF down
<1> QED BY <1>1, <1>2, <1>3 DEF Goes

LEMMA C4HasMove ==
    ASSUME C4Inv(state), state.status = "playing"
    PROVE  Goes(C4Input, C4Columns, state.turn = 1, {C4Bot(state)})
<1>1. /\ state.turn \in Seats /\ state.board \in [Grid(Rows, Cols) -> 0..2] /\ Stacked(state.board)
      /\ \E c \in Grid(Rows, Cols) : state.board[c] = 0
  BY DEF C4Inv, LinesState, Settled
<1>2. Playable(state.board) # {} /\ Playable(state.board) \subseteq C4Columns
  BY <1>1, TopIsLast DEF TopFull, Playable
<1>3. C4Bot(state) \in Playable(state.board)
  BY <1>2, C4BotPlays
<1>4. \A col \in Playable(state.board) : C4Input(state, state.turn, col) # state
  BY <1>1, C4Goes
<1> QED BY <1>1, <1>2, <1>3, <1>4 DEF Goes

LEMMA GomokuHasMove ==
    ASSUME GomokuInv(state), state.status = "playing"
    PROVE  Goes(GomokuInput, Grid(Board, Board), state.turn = 1, {GomokuBot(state)})
<1>1. state.turn \in Seats /\ \E c \in Grid(Board, Board) : state.board[c] = 0
  BY DEF GomokuInv, LinesState, Settled
<1>2. \A c \in Grid(Board, Board) : state.board[c] = 0 => GomokuInput(state, state.turn, c) # state
  BY <1>1, GomokuGoes
<1>3. GomokuBot(state) \in Grid(Board, Board) /\ state.board[GomokuBot(state)] = 0
  BY GomokuBotPlays
<1> QED BY <1>1, <1>2, <1>3 DEF Goes

LEMMA ReversiHasMove ==
    ASSUME ReversiInv(state), state.status = "playing"
    PROVE  Goes(ReversiInput, ReversiCells, state.turn = 1, {ReversiBot(state)})
<1>1. state \in LinesState(ReversiCells) /\ state.turn \in Seats /\ CanMove(state.board, state.turn + 1)
  BY DEF ReversiInv, LinesState
<1>2. \A c \in LegalMoves(state.board, state.turn + 1) : ReversiInput(state, state.turn, c) # state
  BY <1>1, ReversiGoes
<1>3. LegalMoves(state.board, state.turn + 1) # {} /\ LegalMoves(state.board, state.turn + 1) \subseteq ReversiCells
  BY <1>1 DEF LegalMoves, CanMove
<1>4. ASSUME state.turn = 1 PROVE ReversiInput(state, 1, ReversiBot(state)) # state
  <2>1. state.turn + 1 = 2
    BY <1>4
  <2>2. CanMove(state.board, 2)
    BY <1>1, <2>1
  <2>3. ReversiBot(state) \in LegalMoves(state.board, 2)
    BY <1>1, <2>2, ReversiBotPlays
  <2> QED BY <1>2, <1>4, <2>1, <2>3
<1> QED BY <1>1, <1>2, <1>3, <1>4 DEF Goes

LEMMA EngineGoes == EngineInv => NeverStuck
<1> SUFFICES ASSUME PlayedInv, state.status = "playing" PROVE NeverStuck
  BY DEF NeverStuck, EngineInv
<1>1. /\ game = "nim21" => NimInv
      /\ game = "rps" => RpsInv(state)
      /\ game = "tictactoe" => TttInv(state)
      /\ game = "memory" => MemoryInv(state)
      /\ game = "connect4" => C4Inv(state)
      /\ game = "gomoku" => GomokuInv(state)
      /\ game = "reversi" => ReversiInv(state)
  BY EngineTyped
<1>2. CASE game = "nim21"
  BY <1>1, <1>2, NimHasMove DEF NeverStuck
<1>3. CASE game = "rps"
  BY <1>1, <1>3, RpsHasMove DEF NeverStuck
<1>4. CASE game = "tictactoe"
  BY <1>1, <1>4, TttHasMove DEF NeverStuck
<1>5. CASE game = "memory"
  BY <1>1, <1>5, MemoryHasAnswer DEF NeverStuck
<1>6. CASE game = "connect4"
  BY <1>1, <1>6, C4HasMove DEF NeverStuck
<1>7. CASE game = "gomoku"
  BY <1>1, <1>7, GomokuHasMove DEF NeverStuck
<1>8. CASE game = "reversi"
  BY <1>1, <1>8, ReversiHasMove DEF NeverStuck
<1>9. CASE game \notin {"nim21", "rps", "tictactoe", "memory", "connect4", "gomoku", "reversi"}
  BY <1>9 DEF NeverStuck
<1> QED BY <1>2, <1>3, <1>4, <1>5, <1>6, <1>7, <1>8, <1>9

\* A live game can always go on, and the bot's answer is always one the engine
\* takes (NeverStuck): the room's timer never asks for the same refused answer again.
THEOREM GamesGoOn == EngineSpec => []NeverStuck
  BY EngineBegins, EngineStep, EngineGoes, PTL DEF EngineSpec

\* The bot that is said to play perfectly (nim21.js:2) does, whichever games are
\* played before.
THEOREM NimIsPerfect == EngineSpec => []NimBotWins
<1>1. EngineInv => NimBotWins
  BY EngineTyped DEF EngineInv, NimBotWins, NimInv, Residues
<1> QED BY EngineBegins, EngineStep, <1>1, PTL DEF EngineSpec

-----------------------------------------------------------------------------
(* The game one plays alone *)

\* Levels: 51 points and fewer are not enough for the fourth, 57 are.
LEMMA Levels ==
    ASSUME NEW xp \in 0..111
    PROVE  /\ xp < 57 => LevelAt(xp) \in 1..3
           /\ xp >= 57 => LevelAt(xp) \in 4..8
<1>1. /\ XpUpTo[1] = 0 /\ XpUpTo[2] = 12 /\ XpUpTo[3] = 30 /\ XpUpTo[4] = 57 /\ XpUpTo[5] = 98
      /\ XpUpTo[6] = 160 /\ XpUpTo[7] = 253 /\ XpUpTo[8] = 393 /\ XpUpTo[9] = 603
  BY DEF XpUpTo
<1>2. \A l \in 1..8 : l = 1 \/ l = 2 \/ l = 3 \/ l = 4 \/ l = 5 \/ l = 6 \/ l = 7 \/ l = 8
  OBVIOUS
<1>3. \E l \in 1..8 : XpUpTo[l] <= xp /\ xp < XpUpTo[l + 1]
  <2>1. CASE xp < 12
    <3>1. XpUpTo[1] <= xp /\ xp < XpUpTo[1 + 1]
      BY <1>1, <2>1
    <3> QED BY <3>1
  <2>2. CASE 12 <= xp /\ xp < 30
    <3>1. XpUpTo[2] <= xp /\ xp < XpUpTo[2 + 1]
      BY <1>1, <2>2
    <3> QED BY <3>1
  <2>3. CASE 30 <= xp /\ xp < 57
    <3>1. XpUpTo[3] <= xp /\ xp < XpUpTo[3 + 1]
      BY <1>1, <2>3
    <3> QED BY <3>1
  <2>4. CASE 57 <= xp /\ xp < 98
    <3>1. XpUpTo[4] <= xp /\ xp < XpUpTo[4 + 1]
      BY <1>1, <2>4
    <3> QED BY <3>1
  <2>5. CASE 98 <= xp
    <3>1. XpUpTo[5] <= xp /\ xp < XpUpTo[5 + 1]
      BY <1>1, <2>5
    <3> QED BY <3>1
  <2> QED BY <2>1, <2>2, <2>3, <2>4, <2>5
<1>4. LevelAt(xp) \in 1..8 /\ XpUpTo[LevelAt(xp)] <= xp /\ xp < XpUpTo[LevelAt(xp) + 1]
  BY <1>3 DEF LevelAt
<1> DEFINE l == LevelAt(xp)
<1>5. l \in 1..8 /\ XpUpTo[l] <= xp /\ xp < XpUpTo[l + 1]
  BY <1>4
<1> HIDE DEF l
<1>6. xp < 57 => l \in 1..3
  <2> SUFFICES ASSUME xp < 57, l \in 4..8 PROVE FALSE
    BY <1>5
  <2>1. l = 4 \/ l = 5 \/ l = 6 \/ l = 7 \/ l = 8
    OBVIOUS
  <2>2. XpUpTo[4] >= 57 /\ XpUpTo[5] >= 57 /\ XpUpTo[6] >= 57 /\ XpUpTo[7] >= 57 /\ XpUpTo[8] >= 57
    BY <1>1
  <2>3. XpUpTo[l] \in Int /\ XpUpTo[l] >= 57
    BY ONLY <1>1, <2>1
  <2>4. ~(XpUpTo[l] <= xp)
    BY <2>3
  <2> QED BY <1>5, <2>4
<1>7. xp >= 57 => l \in 4..8
  <2> SUFFICES ASSUME xp >= 57, l \in 1..3 PROVE FALSE
    BY <1>5
  <2>1. l + 1 = 2 \/ l + 1 = 3 \/ l + 1 = 4
    OBVIOUS
  <2>2. XpUpTo[l + 1] <= 57
    BY <1>1, <2>1
  <2> QED BY <1>1, <1>5, <2>1, <2>2
<1> QED BY <1>6, <1>7 DEF l

\* What sets of enemies are worth.
LEMMA Yields ==
    ASSUME NEW A \in SUBSET Foes
    PROVE  /\ Yield(A) \in Nat
           /\ \A B \in SUBSET A : Yield(A) = Yield(B) + Yield(A \ B)
           /\ Boss \in A => Yield(A) = 60 + Yield(A \ {Boss})
<1> DEFINE f == [x \in Foes |-> Worth(x)]
<1>1. IsFiniteSet(A)
  <2>1. IsFiniteSet(Glitches \cup Frags)
    BY RpgAssumption, FS_Union
  <2>2. IsFiniteSet(Foes)
    BY <2>1, FS_AddElement DEF Foes
  <2> QED BY <2>2, FS_Subset
<1>2. \A x \in A : f[x] \in Nat
  BY DEF Worth
<1>3. \A B \in SUBSET A : Yield(B) = SumFunctionOnSet(f, B)
  BY DEF Yield
<1>4. Boss \in A => f[Boss] = 60
  BY DEF Worth
<1> HIDE DEF f
<1>5. Yield(A) \in Nat
  BY <1>1, <1>2, <1>3, SumNat
<1>6. \A x \in A : f[x] \in Int
  BY <1>2
<1>7. \A B \in SUBSET A : Yield(A) = Yield(B) + Yield(A \ B)
  BY <1>1, <1>3, <1>6, SumParts
<1>8. Boss \in A => Yield(A) = 60 + Yield(A \ {Boss})
  BY <1>1, <1>3, <1>4, <1>6, SumRemove
<1> QED BY <1>5, <1>7, <1>8

\* Enemies that are still worth something
Standing == {f \in Glitches \cup Frags : foe[f] # "gone"}

\* While a run lasts the boss has not been counted, and what the others were
\* worth is, with what they may yet be worth, less than the fourth level takes.
RunSound ==
    run = "playing" =>
        /\ health \in 1..Health /\ foe[Boss] # "gone"
        /\ earned + Yield(Standing) <= 51

\* Inductive: the boss's 60 points then always lift the player from one of the
\* first three levels to the fourth or beyond, which heals before the last hit
\* of the frame, and one hit is not the end.
RpgInv ==
    /\ foe \in [Foes -> {"dormant", "awake", "down", "gone"}] /\ earned \in Nat
    /\ best.cleared \in BOOLEAN /\ slain \in BOOLEAN
    /\ RunSound /\ VictoryKept

\* The first run, and every later one, starts so.
LEMMA RunBegins ==
    ASSUME RpgInit PROVE RpgInv
<1>1. foe \in [Foes -> {"dormant", "awake", "down", "gone"}] /\ foe[Boss] = "dormant"
  BY DEF RpgInit, Foes
<1>2. Standing = Glitches \cup Frags
  BY RpgAssumption DEF RpgInit, Foes, Standing
<1>3. earned \in Nat /\ earned + Yield(Standing) <= 51
  BY <1>2, RpgAssumption DEF RpgInit
<1>4. RunSound
  BY <1>1, <1>3, RpgAssumption DEF RpgInit, RunSound
<1>5. slain = FALSE /\ best.cleared = FALSE
  BY DEF RpgInit
<1> QED BY <1>1, <1>3, <1>4, <1>5 DEF RpgInv, VictoryKept

\* Another run leaves what is stored alone.
LEMMA Anew ==
    ASSUME RpgInv, Restart PROVE RpgInv'
<1>1. foe' \in [Foes -> {"dormant", "awake", "down", "gone"}] /\ foe'[Boss] = "dormant"
  BY DEF Restart, Fresh, Foes
<1>2. Standing' = Glitches \cup Frags
  BY RpgAssumption DEF Restart, Fresh, Foes, Standing
<1>3. earned' \in Nat /\ earned' + Yield(Standing') <= 51
  BY <1>2, RpgAssumption DEF Restart, Fresh
<1> QED BY <1>1, <1>3, RpgAssumption DEF Restart, Fresh, RpgInv, RunSound, VictoryKept

\* A blow takes nobody out of the field before the next frame.
LEMMA Blows ==
    ASSUME NEW who \in [Foes -> {"dormant", "awake", "down", "gone"}], NEW hit \in SUBSET Foes,
           \A f \in hit : who[f] # "gone"
    PROVE  /\ Struck(who, hit) \in [Foes -> {"dormant", "awake", "down", "gone"}]
           /\ \A f \in Foes : Struck(who, hit)[f] = "gone" <=> who[f] = "gone"
BY DEF Struck

\* What the keys leave: as many enemies, as much experience, hit points no fewer.
LEMMA KeyStep ==
    ASSUME RpgInv, Acts, run = "playing",
           foe' \in [Foes -> {"dormant", "awake", "down", "gone"}],
           \A f \in Foes : foe'[f] = "gone" <=> foe[f] = "gone",
           health' = health \/ health' = (IF health < Health THEN health + 1 ELSE Health)
    PROVE  RpgInv'
<1>1. Standing' = Standing
  BY DEF Standing, Foes
<1>2. earned' + Yield(Standing') <= 51 /\ earned' \in Nat
  BY <1>1 DEF RpgInv, RunSound, Acts
<1>3. health' \in 1..Health
  BY RpgAssumption DEF RpgInv, RunSound
<1>4. foe'[Boss] # "gone"
  BY DEF RpgInv, RunSound, Foes
<1> QED BY <1>2, <1>3, <1>4 DEF RpgInv, RunSound, VictoryKept, Acts

\* Somebody who can be struck is in the field.
LEMMA Struckable ==
    ASSUME RpgInv, NEW hit \in SUBSET Awake
    PROVE  hit \in SUBSET Foes /\ \A f \in hit : foe[f] # "gone"
BY DEF Awake

\* Every key but pause: blows, the dash and the skills.
LEMMA Keys ==
    ASSUME RpgInv, Attack \/ Dash \/ Swirl \/ Bolt \/ Storm \/ Heal
    PROVE  RpgInv'
<1>1. CASE Attack \/ Swirl
  <2>1. PICK hit \in SUBSET Awake : foe' = Struck(foe, hit)
    BY <1>1 DEF Attack, Swirl
  <2>2. foe \in [Foes -> {"dormant", "awake", "down", "gone"}]
    BY DEF RpgInv
  <2>3. /\ foe' \in [Foes -> {"dormant", "awake", "down", "gone"}]
        /\ \A f \in Foes : foe'[f] = "gone" <=> foe[f] = "gone"
    BY <2>1, <2>2, Struckable, Blows
  <2> QED BY <1>1, <2>3, KeyStep DEF Attack, Swirl, Ready
<1>2. CASE Dash \/ Bolt \/ Storm \/ Heal
  <2>1. foe' = foe /\ Acts /\ run = "playing"
    BY <1>2 DEF Dash, Bolt, Storm, Heal, Ready
  <2>2. health' = health \/ health' = (IF health < Health THEN health + 1 ELSE Health)
    BY <1>2 DEF Dash, Bolt, Storm, Heal
  <2> QED BY <2>1, <2>2, KeyStep DEF RpgInv
<1> QED BY <1>1, <1>2

\* A frame: who was down is counted, the player healed, hit, and the end recorded.
LEMMA Frames ==
    ASSUME RpgInv, Frame PROVE RpgInv'
<1> DEFINE dead == Fallen \ {Boss}
<1>1. /\ run = "playing" /\ health \in 1..Health /\ earned \in Nat /\ earned + Yield(Standing) <= 51
      /\ foe \in [Foes -> {"dormant", "awake", "down", "gone"}] /\ foe[Boss] # "gone"
  BY DEF Frame, RpgInv, RunSound
<1>2. /\ Standing \in SUBSET Foes /\ dead \in SUBSET Standing /\ Fallen \in SUBSET Foes
      /\ Boss \notin Standing
  BY <1>1, RpgAssumption DEF Standing, Fallen, Foes
<1>3. /\ Yield(dead) \in Nat /\ Yield(Standing \ dead) \in Nat /\ Yield(Fallen) \in Nat
      /\ Yield(Standing) = Yield(dead) + Yield(Standing \ dead)
      /\ Boss \in Fallen => Yield(Fallen) = 60 + Yield(dead)
      /\ Boss \notin Fallen => Yield(Fallen) = Yield(dead)
  <2>1. dead \in SUBSET Foes /\ Standing \ dead \in SUBSET Foes
    BY <1>2
  <2>2. Boss \notin Fallen => dead = Fallen
    OBVIOUS
  <2>3. Yield(dead) \in Nat /\ Yield(Standing \ dead) \in Nat
    BY <2>1, Yields
  <2>4. Yield(Standing) = Yield(dead) + Yield(Standing \ dead)
    BY <1>2, Yields
  <2>5. Yield(Fallen) \in Nat /\ (Boss \in Fallen => Yield(Fallen) = 60 + Yield(dead))
    BY <1>2, Yields
  <2> HIDE DEF dead
  <2> QED BY <2>2, <2>3, <2>4, <2>5
<1> HIDE DEF dead
<1>4. PICK wakes \in BOOLEAN, touched \in BOOLEAN, shot \in BOOLEAN, felled \in Falls, stored \in BOOLEAN :
        LET xp    == Gain(Fallen)
            risen == Healed(health - (IF touched THEN 1 ELSE 0), xp)
            left  == risen - (IF shot THEN 1 ELSE 0)
            ends  == IF left = 0 THEN "dead" ELSE IF Boss \in Fallen THEN "won" ELSE "playing"
        IN  /\ ~(touched /\ shot)
            /\ foe' = Struck(Reaped(wakes), felled)
            /\ health' = left /\ earned' = xp
            /\ run' = ends /\ best' = IF stored THEN Recorded(ends, xp) ELSE best
            /\ slain' = (slain \/ (Boss \in Fallen /\ stored))
  <2>1. \A condition : May(condition) \in SUBSET BOOLEAN
    BY DEF May
  <2>2. PICK over \in SUBSET cooling :
          LET still == cooling \ over
              xp    == Gain(Fallen)
          IN  \E wakes \in May(foe[Boss] = "dormant"), touched \in May(Touches(still)),
                 aimed \in May(Aims), felled \in Falls, stored \in BOOLEAN :
             \E shot \in May(Shoots(still, aimed)), landed \in SUBSET Shots(aimed) :
                 LET risen == Healed(health - (IF touched THEN 1 ELSE 0), xp)
                     left  == risen - (IF shot THEN 1 ELSE 0)
                     ends  == IF left = 0 THEN "dead" ELSE IF Boss \in Fallen THEN "won" ELSE "playing"
                 IN  /\ ~(touched /\ shot)
                     /\ foe' = Struck(Reaped(wakes), felled)
                     /\ health' = left /\ earned' = xp
                     /\ cooling' = IF touched \/ shot THEN still \cup {"hurt"} ELSE still
                     /\ flying' = Shots(aimed) \ landed
                     /\ run' = ends /\ best' = IF stored THEN Recorded(ends, xp) ELSE best
                     /\ slain' = (slain \/ (Boss \in Fallen /\ stored))
    BY DEF Frame
  <2> HIDE DEF May
  <2> QED BY ONLY <2>1, <2>2
<1>5. earned' = earned + Yield(Fallen) /\ earned' \in Nat
  BY <1>1, <1>3, <1>4 DEF Gain
<1>6. PICK risen \in 0..Health :
        /\ risen = Healed(health - (IF touched THEN 1 ELSE 0), Gain(Fallen))
        /\ risen >= health - 1 /\ (~touched => risen >= health)
        /\ Boss \in Fallen => risen = Health
  <2>1. Health \in Nat /\ Health >= 2
    BY RpgAssumption
  <2>2. Boss \in Fallen => LevelAt(Gain(Fallen)) > LevelAt(earned)
    <3> SUFFICES ASSUME Boss \in Fallen PROVE LevelAt(Gain(Fallen)) > LevelAt(earned)
      OBVIOUS
    <3>1. Gain(Fallen) \in 60..111 /\ earned \in 0..51
      BY <1>1, <1>3 DEF Gain
    <3>2. LevelAt(Gain(Fallen)) \in 4..8
      BY <3>1, Levels
    <3>3. LevelAt(earned) \in 1..3
      BY <3>1, Levels
    <3> QED BY <3>2, <3>3
  <2> DEFINE hp == health - (IF touched THEN 1 ELSE 0)
  <2>3. hp \in 0..Health /\ hp >= health - 1 /\ (~touched => hp >= health)
    BY <1>1, <2>1
  <2> HIDE DEF hp
  <2>4. Healed(hp, Gain(Fallen)) \in {hp, Health} /\ (Boss \in Fallen => Healed(hp, Gain(Fallen)) = Health)
    BY <2>2 DEF Healed
  <2> QED BY <1>1, <2>1, <2>3, <2>4 DEF hp
<1>7. health' = risen - (IF shot THEN 1 ELSE 0) /\ health' \in 0..Health
  BY <1>1, <1>4, <1>6, RpgAssumption
<1>8. Boss \in Fallen => run' = "won"
  BY <1>4, <1>6, <1>7, RpgAssumption
<1>9. run' = "playing" => health' \in 1..Health /\ Boss \notin Fallen
  BY <1>4, <1>6, <1>7
<1>10. best'.cleared \in BOOLEAN /\ slain' \in BOOLEAN /\ VictoryKept'
  <2>1. run' = "playing" => best' = best
    BY <1>4, <1>6 DEF Recorded
  <2>2. run' # "playing" => best'.cleared = (best.cleared \/ (run' = "won" /\ stored))
    BY <1>4, <1>6 DEF Recorded, RpgInv
  <2>3. slain' = (slain \/ (Boss \in Fallen /\ stored))
    BY <1>4
  <2> QED BY <1>8, <2>1, <2>2, <2>3 DEF RpgInv, VictoryKept
<1>11. /\ foe' \in [Foes -> {"dormant", "awake", "down", "gone"}]
       /\ \A f \in Foes : foe'[f] = "gone" <=> foe[f] = "gone" \/ f \in Fallen
  <2>1. Reaped(wakes) \in [Foes -> {"dormant", "awake", "down", "gone"}]
    BY <1>1 DEF Reaped
  <2>2. \A f \in Foes : Reaped(wakes)[f] = "gone" <=> foe[f] = "gone" \/ f \in Fallen
    BY <1>1 DEF Reaped
  <2>3. felled \in SUBSET Awake
    BY DEF Falls
  <2>4. felled \in SUBSET Foes /\ \A f \in felled : Reaped(wakes)[f] # "gone"
    BY <1>1, <2>2, <2>3 DEF Awake, Fallen
  <2> HIDE DEF Reaped
  <2> QED BY <1>4, <2>1, <2>2, <2>4, Blows
<1>12. run' = "playing" => foe'[Boss] # "gone" /\ earned' + Yield(Standing') <= 51
  <2> SUFFICES ASSUME run' = "playing" PROVE foe'[Boss] # "gone" /\ earned' + Yield(Standing') <= 51
    OBVIOUS
  <2>1. Boss \notin Fallen /\ foe'[Boss] # "gone"
    BY <1>1, <1>9, <1>11 DEF Foes
  <2>2. Standing' = Standing \ dead
    BY <1>11, <2>1 DEF Standing, dead, Foes, Fallen
  <2>3. earned' + Yield(Standing \ dead) <= 51
    BY <1>1, <1>3, <1>5, <2>1
  <2> QED BY <2>1, <2>2, <2>3
<1> QED BY <1>5, <1>9, <1>10, <1>11, <1>12 DEF RpgInv, RunSound

\* A boss felled in any run has cleared the region in storage for good
\* (RpgGame.jsx:199, 205-216): "won" is never overwritten in its frame, nor the
\* record by later runs.
THEOREM VictoryStays == RpgSpec => []VictoryKept
<1>1. RpgInit => RpgInv
  BY RunBegins
<1>2. RpgInv /\ [RpgNext]_rpgVars => RpgInv'
  <2> SUFFICES ASSUME RpgInv, [RpgNext]_rpgVars PROVE RpgInv'
    OBVIOUS
  <2>1. CASE PauseRun
    BY <2>1 DEF PauseRun, RpgInv, RunSound, VictoryKept, Standing
  <2>2. CASE UNCHANGED rpgVars
    BY <2>2 DEF rpgVars, RpgInv, RunSound, VictoryKept, Standing
  <2> QED BY <2>1, <2>2, Frames, Keys, Anew DEF RpgNext
<1>3. RpgInv => VictoryKept
  BY DEF RpgInv
<1> QED BY <1>1, <1>2, <1>3, PTL DEF RpgSpec

=============================================================================
