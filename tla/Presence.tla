------------------------------ MODULE Presence ------------------------------
(***************************************************************************)
(* Who is looking at a file (realtime/presence.js, bus.js): rooms per file *)
(* that a socket joins after an awaited access check, and leaves when it   *)
(* moves on or closes.                                                     *)
(***************************************************************************)
EXTENDS Integers, FiniteSets

CONSTANTS
    Viewers,     \* sockets on /ws
    UserOf,      \* their users
    Watched,     \* files
    MaxPending,  \* bound: join messages of one socket for one file being checked
    OneAtATime   \* a client sends nothing while a join of its own is being checked

ASSUME ViewerAssumption == DOMAIN UserOf = Viewers /\ MaxPending \in Nat /\ OneAtATime \in BOOLEAN

VARIABLES
    socket,   \* readyState of each socket, "closing" until its close event is handled
    viewing,  \* rooms: the sockets in each file's room
    checking, \* join messages awaiting canSeePresence
    pushed,   \* bus: sockets registered for server pushes
    shown     \* the viewers of each file it is on that each socket was told last

presenceVars == <<socket, viewing, checking, pushed, shown>>

PresenceInit ==
    /\ socket = [w \in Viewers |-> "new"]
    /\ viewing = [f \in Watched |-> {}]
    /\ checking = [w \in Viewers |-> [f \in Watched |-> 0]]
    /\ pushed = {}
    /\ shown = [w \in Viewers |-> [f \in Watched |-> {}]]

\* viewersOf: each user once.
ViewersOf(room) == {UserOf[w] : w \in room}

\* broadcast to each room of changed, as the sets of sockets are by now.  What was
\* said of a file one has left no longer matters.
Told(now, changed) ==
    [w \in Viewers |-> [f \in Watched |->
        IF w \notin now[f] THEN {}
        ELSE IF f \in changed /\ socket[w] = "open" THEN ViewersOf(now[f]) ELSE shown[w][f]]]

\* leave, for a set of files
Without(w, files) == [f \in Watched |-> IF f \in files THEN viewing[f] \ {w} ELSE viewing[f]]
LeftBy(w, files) == {f \in files : w \in viewing[f]}

Attach(w) ==
    /\ socket[w] = "new" /\ socket' = [socket EXCEPT ![w] = "open"] /\ pushed' = pushed \cup {w}
    /\ UNCHANGED <<viewing, checking, shown>>

\* A join message: every other room is left before the check is awaited.
JoinFile(w, f) ==
    /\ socket[w] = "open" /\ checking[w][f] < MaxPending
    /\ OneAtATime => \A g \in Watched : checking[w][g] = 0
    /\ viewing' = Without(w, Watched \ {f})
    /\ checking' = [checking EXCEPT ![w][f] = @ + 1]
    /\ shown' = Told(viewing', Watched \ {f})
    /\ UNCHANGED <<socket, pushed>>

\* The check answers: no, or yes.  The socket may have closed in the meantime, or
\* be in the room already.
Checked(w, f) ==
    /\ checking[w][f] > 0
    /\ checking' = [checking EXCEPT ![w][f] = @ - 1]
    /\ \/ UNCHANGED <<viewing, shown>>
       \/ /\ socket[w] = "open" /\ w \notin viewing[f]
          /\ viewing' = [viewing EXCEPT ![f] = @ \cup {w}]
          /\ shown' = Told(viewing', {f})
    /\ UNCHANGED <<socket, pushed>>

\* A leave message
Depart(w, f) ==
    /\ socket[w] = "open" /\ w \in viewing[f]
    /\ OneAtATime => \A g \in Watched : checking[w][g] = 0
    /\ viewing' = Without(w, {f}) /\ shown' = Told(viewing', {f})
    /\ UNCHANGED <<socket, checking, pushed>>

\* The peer goes away, or the heartbeat terminates the socket.
Lose(w) ==
    /\ socket[w] = "open" /\ socket' = [socket EXCEPT ![w] = "closing"]
    /\ UNCHANGED <<viewing, checking, pushed, shown>>

\* The close event
\* Mutation: those who stay are not told.
DetachSilently(w) ==
    /\ socket[w] = "closing" /\ socket' = [socket EXCEPT ![w] = "closed"]
    /\ viewing' = Without(w, Watched) /\ pushed' = pushed \ {w}
    /\ UNCHANGED <<checking, shown>>

Detach(w) ==
    /\ socket[w] = "closing" /\ socket' = [socket EXCEPT ![w] = "closed"]
    /\ viewing' = Without(w, Watched) /\ shown' = Told(viewing', LeftBy(w, Watched))
    /\ pushed' = pushed \ {w}
    /\ UNCHANGED checking

PresenceNext ==
    \E w \in Viewers :
        \/ Attach(w) \/ Lose(w) \/ Detach(w)
        \/ \E f \in Watched : JoinFile(w, f) \/ Checked(w, f) \/ Depart(w, f)
PresenceSpec == PresenceInit /\ [][PresenceNext]_presenceVars

-----------------------------------------------------------------------------
(* Properties *)

\* What a viewer sees is what is: every connected socket in a room was told last
\* exactly the users who are in it now, and who has gone is in no room and gets
\* no pushes.
ViewersShown ==
    /\ \A f \in Watched : \A w \in viewing[f] :
          socket[w] = "open" => shown[w][f] = ViewersOf(viewing[f])
    /\ \A w \in Viewers : socket[w] \in {"new", "closed"} =>
          w \notin pushed /\ \A f \in Watched : w \notin viewing[f]
=============================================================================
