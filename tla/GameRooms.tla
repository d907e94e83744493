----------------------------- MODULE GameRooms -----------------------------
(***************************************************************************)
(* The game server's rooms, matchmaking queues, tick loops and bot timers  *)
(* (realtime/games.js).  One action per message, timer or socket event:    *)
(* each handler runs to its end before the next.  The engines are in       *)
(* Engines; here an input may do whatever an engine lets it do.            *)
(***************************************************************************)
EXTENDS Integers, FiniteSets, Sequences, SequencesExt

CONSTANTS
    Players,    \* sockets on /gws
    RoomCodes,  \* four-letter codes
    Games,      \* the games offered
    Ticking,    \* those whose engine has a tick
    Together,   \* those whose players commit at the same time (rps)
    MaxRooms,   \* MAX_ROOMS
    MaxTimers,  \* bound: bot timers pending in one room
    Bot, Nobody

ASSUME RoomAssumption ==
    /\ Ticking \cup Together \subseteq Games /\ Ticking \cap Together = {}
    /\ IsFiniteSet(RoomCodes) /\ MaxRooms \in 1..Cardinality(RoomCodes) /\ MaxTimers \in Nat
    /\ Bot \notin Players /\ Nobody \notin RoomCodes

VARIABLES
    sock,     \* readyState of each socket; "closing" until its close event is handled
    roomCode, \* ws.roomCode
    rooms,    \* rooms, Nobody where the code is free
    queues    \* sockets waiting for a quick match, by game

gameVars == <<sock, roomCode, rooms, queues>>

\* A room: its seats, its engine's status, whether the bot acts now (botActsNow),
\* whether its loop runs, and how many bot timers are pending.
Room == [game : Games, seats : Seq(Players \cup {Bot}), status : {"waiting", "playing", "over"},
         due : BOOLEAN, loop : BOOLEAN, timers : Nat]

ASSUME NobodyAssumption == Nobody \notin Room

VsBot(room) == Bot \in Range(room.seats)
Open(w) == sock[w] = "open"
Size == Cardinality({c \in RoomCodes : rooms[c] # Nobody})

GameInit ==
    /\ sock = [w \in Players |-> "new"]
    /\ roomCode = [w \in Players |-> Nobody]
    /\ rooms = [c \in RoomCodes |-> Nobody]
    /\ queues = [g \in Games |-> <<>>]

-----------------------------------------------------------------------------
(* What the handlers share *)

\* scheduleBot, at the end of a handler.
Scheduled(room) ==
    IF VsBot(room) /\ room.game \notin Ticking /\ room.status = "playing" /\ room.due
      THEN [room EXCEPT !.timers = @ + 1] ELSE room

\* beginGame: the engine made ready, the loop started, the bot scheduled.  The
\* bot has the second seat; in a game without turns it may act at once.
Begun(room) ==
    Scheduled([room EXCEPT !.status = "playing",
                           !.due = VsBot(room) /\ room.game \in Together,
                           !.loop = room.game \in Ticking])

\* leaveRoom, as what becomes of the rooms.  A room with no socket left is torn
\* down; in a live game the player who stays has won.  The code filters by socket:
\* a socket has one seat, and one place in a queue.
\* Mutation: the loop of a game that an opponent left runs on.
LeftRunning(rs, w) ==
    LET c == roomCode[w]
    IN  IF c = Nobody THEN rs
        ELSE LET seats == RemoveFirst(rs[c].seats, w)
             IN  [rs EXCEPT ![c] = IF Range(seats) \subseteq {Bot} THEN Nobody
                                   ELSE IF @.status = "playing"
                                     THEN [@ EXCEPT !.seats = seats, !.status = "over"]
                                     ELSE [@ EXCEPT !.seats = seats]]

Left(rs, w) ==
    LET c == roomCode[w]
    IN  IF c = Nobody THEN rs
        ELSE LET seats == RemoveFirst(rs[c].seats, w)
             IN  [rs EXCEPT ![c] = IF Range(seats) \subseteq {Bot} THEN Nobody
                                   ELSE IF @.status = "playing"
                                     THEN [@ EXCEPT !.seats = seats, !.status = "over", !.loop = FALSE]
                                     ELSE [@ EXCEPT !.seats = seats]]

\* leaveQueue
Unqueued(w) == [g \in Games |-> RemoveFirst(queues[g], w)]

NewRoom(g, seats) ==
    [game |-> g, seats |-> seats, status |-> "waiting", due |-> FALSE,
     loop |-> FALSE, timers |-> 0]
Free(rs) == {c \in RoomCodes : rs[c] = Nobody}
AtCapacity(rs) == Cardinality(RoomCodes \ Free(rs)) >= MaxRooms

-----------------------------------------------------------------------------
(* Messages *)

\* createRoom and createBotRoom
Create(w, g, seats) ==
    LET rs == Left(rooms, w)
        room == NewRoom(g, seats)
    IN  /\ Open(w)
        /\ queues' = Unqueued(w)
        /\ \/ /\ AtCapacity(rs)
              /\ rooms' = rs /\ roomCode' = [roomCode EXCEPT ![w] = Nobody]
           \/ /\ ~AtCapacity(rs)
              /\ \E c \in Free(rs) :
                    /\ rooms' = [rs EXCEPT ![c] = IF VsBot(room) THEN Begun(room) ELSE room]
                    /\ roomCode' = [roomCode EXCEPT ![w] = c]
        /\ UNCHANGED sock
CreateRoom(w, g) == Create(w, g, <<w>>)
CreateBotRoom(w, g) == Create(w, g, <<w, Bot>>)

\* joinRoom
Filled(room, w) == [room EXCEPT !.seats = Append(@, w)]

\* Mutation: the room one was in is not left.
JoinRoomStaying(w, c) ==
    /\ Open(w) /\ rooms[c] # Nobody
    /\ w \notin Range(rooms[c].seats) /\ Len(rooms[c].seats) < 2
    /\ rooms' = [rooms EXCEPT ![c] = Begun(Filled(@, w))]
    /\ roomCode' = [roomCode EXCEPT ![w] = c]
    /\ queues' = Unqueued(w)
    /\ UNCHANGED sock

JoinRoom(w, c) ==
    /\ Open(w) /\ rooms[c] # Nobody
    /\ w \notin Range(rooms[c].seats) /\ Len(rooms[c].seats) < 2
    /\ rooms' = [Left(rooms, w) EXCEPT ![c] = Begun(Filled(@, w))]
    /\ roomCode' = [roomCode EXCEPT ![w] = c]
    /\ queues' = Unqueued(w)
    /\ UNCHANGED sock

\* quickMatch: candidates are taken from the front until one is still open.
QuickMatch(w, g) ==
    LET rs == Left(rooms, w)
        list == Unqueued(w)[g]
        live == {i \in DOMAIN list : Open(list[i])}
        first == CHOOSE i \in live : \A j \in live : i <= j
        rest == IF live = {} THEN <<>> ELSE SubSeq(list, first + 1, Len(list))
    IN  /\ Open(w)
        /\ \/ /\ live = {}
              /\ queues' = [Unqueued(w) EXCEPT ![g] = <<w>>]
              /\ rooms' = rs /\ roomCode' = [roomCode EXCEPT ![w] = Nobody]
           \/ /\ live # {} /\ AtCapacity(rs)
              /\ queues' = [Unqueued(w) EXCEPT ![g] = rest]
              /\ rooms' = rs /\ roomCode' = [roomCode EXCEPT ![w] = Nobody]
           \/ /\ live # {} /\ ~AtCapacity(rs)
              /\ queues' = [Unqueued(w) EXCEPT ![g] = rest]
              /\ \E c \in Free(rs) :
                    /\ rooms' = [rs EXCEPT ![c] = Begun(NewRoom(g, <<list[first], w>>))]
                    /\ roomCode' = [roomCode EXCEPT ![w] = c, ![list[first]] = c]
        /\ UNCHANGED sock

\* cancel
Cancel(w) == Open(w) /\ queues' = Unqueued(w) /\ UNCHANGED <<sock, roomCode, rooms>>

\* What an engine's input may do to a turn-based or simultaneous game: nothing
\* (the move is refused or ignored), let the bot act now or not, or end it.
Outcomes(room, fixed) ==
    IF fixed THEN {room}
    ELSE {[room EXCEPT !.due = d /\ VsBot(room)] : d \in BOOLEAN}
         \cup {[room EXCEPT !.status = "over", !.due = FALSE]}

\* handleMove.  In a game with turns a player is refused while the bot is due; in
\* a simultaneous one the input is taken, or ignored without an error, and the
\* bot is scheduled again.  With a tick the input waits for the next tick.
Move(w) ==
    LET c == roomCode[w]
        room == rooms[c]
    IN  /\ Open(w) /\ c # Nobody /\ room.status = "playing"
        /\ room.game \notin Ticking
        /\ room.due => room.game \in Together
        /\ \E next \in Outcomes(room, room.due) :
              /\ Scheduled(next).timers <= MaxTimers
              /\ rooms' = [rooms EXCEPT ![c] = Scheduled(next)]
        /\ UNCHANGED <<sock, roomCode, queues>>

\* rematch
Rematch(w) ==
    LET c == roomCode[w]
    IN  /\ Open(w) /\ c # Nobody
        /\ rooms[c].status = "over" /\ Len(rooms[c].seats) = 2
        /\ Begun(rooms[c]).timers <= MaxTimers
        /\ rooms' = [rooms EXCEPT ![c] = Begun(@)]
        /\ UNCHANGED <<sock, roomCode, queues>>

\* leave
Leave(w) ==
    /\ Open(w) /\ queues' = Unqueued(w)
    /\ rooms' = Left(rooms, w) /\ roomCode' = [roomCode EXCEPT ![w] = Nobody]
    /\ UNCHANGED sock

-----------------------------------------------------------------------------
(* Timers and sockets *)

\* The timeout of scheduleBot: the bot moves if it still has to, and is
\* scheduled again if it has to move on.
BotTimer(c) ==
    LET room == [rooms[c] EXCEPT !.timers = @ - 1]
    IN  /\ rooms[c] # Nobody /\ rooms[c].timers > 0
        /\ \/ /\ room.status = "playing" /\ room.due
              /\ \E next \in Outcomes(room, FALSE) : rooms' = [rooms EXCEPT ![c] = Scheduled(next)]
           \/ /\ ~(room.status = "playing" /\ room.due)
              /\ rooms' = [rooms EXCEPT ![c] = room]
        /\ UNCHANGED <<sock, roomCode, queues>>

\* The loop of startLoop: a tick that ends the game stops it.
Tick(c) ==
    /\ rooms[c] # Nobody /\ rooms[c].loop
    /\ rooms' = [rooms EXCEPT ![c] = [@ EXCEPT !.status = "over", !.loop = FALSE]]
    /\ UNCHANGED <<sock, roomCode, queues>>

Connect(w) == sock[w] = "new" /\ sock' = [sock EXCEPT ![w] = "open"] /\ UNCHANGED <<roomCode, rooms, queues>>
\* The peer closes, or the heartbeat terminates the socket; its close event comes later.
Drop(w) == Open(w) /\ sock' = [sock EXCEPT ![w] = "closing"] /\ UNCHANGED <<roomCode, rooms, queues>>
Close(w) ==
    /\ sock[w] = "closing" /\ sock' = [sock EXCEPT ![w] = "new"]
    /\ queues' = Unqueued(w)
    /\ rooms' = Left(rooms, w) /\ roomCode' = [roomCode EXCEPT ![w] = Nobody]

\* A message that makes its handler throw (joinRoom with a code that is no string,
\* a cell that is no integer at gomoku) ends the process: nothing catches it.
Throw(w) ==
    /\ Open(w)
    /\ sock' = [v \in Players |-> "new"] /\ roomCode' = [v \in Players |-> Nobody]
    /\ rooms' = [c \in RoomCodes |-> Nobody] /\ queues' = [g \in Games |-> <<>>]

GameNext ==
    \/ \E w \in Players :
         \/ Cancel(w) \/ Move(w) \/ Rematch(w) \/ Leave(w) \/ Connect(w) \/ Drop(w) \/ Close(w) \/ Throw(w)
         \/ \E g \in Games : CreateRoom(w, g) \/ CreateBotRoom(w, g) \/ QuickMatch(w, g)
         \/ \E c \in RoomCodes : JoinRoom(w, c)
    \/ \E c \in RoomCodes : BotTimer(c) \/ Tick(c)
GameSpec == GameInit /\ [][GameNext]_gameVars

-----------------------------------------------------------------------------
(* Properties *)

\* Rooms and sockets agree: a socket sits in the one room it points to and in no
\* other, a room keeps one or two different players and never the bot alone, only
\* a room of two plays (index 0 and 1 of the engines are seats), and there are no
\* more rooms than MAX_ROOMS.
SeatsAgree ==
    /\ \A w \in Players, c \in RoomCodes :
          roomCode[w] = c <=> rooms[c] # Nobody /\ w \in Range(rooms[c].seats)
    /\ \A c \in RoomCodes : rooms[c] # Nobody =>
          /\ Len(rooms[c].seats) \in {1, 2} /\ IsInjective(rooms[c].seats)
          /\ rooms[c].seats[1] \in Players
          /\ rooms[c].status = "playing" => Len(rooms[c].seats) = 2
    /\ Size <= MaxRooms

\* Nobody waits in vain: who waits for a match is in no room, waits once, and no
\* two players who are still connected wait for the same game.
QueuesPair ==
    \A g \in Games :
       /\ \A i \in DOMAIN queues[g] : /\ roomCode[queues[g][i]] = Nobody /\ sock[queues[g][i]] # "new"
                                      /\ \A h \in Games \ {g} : queues[g][i] \notin Range(queues[h])
       /\ IsInjective(queues[g])
       /\ \A i, j \in DOMAIN queues[g] : Open(queues[g][i]) /\ Open(queues[g][j]) => i = j

\* Rooms, sockets and queues agree after any sequence of messages and closings.
RoomsSound == SeatsAgree /\ QueuesPair

\* The clockwork runs exactly while it is needed: a tick loop for a live game
\* with a tick and for no other room, and a timer pending whenever it is the
\* bot's turn, so that a game against the CPU never stalls.
ClockworkRuns ==
    \A c \in RoomCodes : rooms[c] # Nobody =>
       /\ rooms[c].loop <=> rooms[c].status = "playing" /\ rooms[c].game \in Ticking
       /\ VsBot(rooms[c]) /\ rooms[c].status = "playing" /\ rooms[c].due => rooms[c].timers > 0
=============================================================================
