------------------------------- MODULE Table -------------------------------
(***************************************************************************)
(* What the game engines (services/games) share: one game at a table of    *)
(* two seats, the second of which the bot may hold, and the engine's       *)
(* state.  An engine is a set of ready states, Input(s, i, m) (the state   *)
(* after message m of seat i, s itself when it is refused) and the set of  *)
(* messages its bot may answer with.                                       *)
(***************************************************************************)
EXTENDS Integers

VARIABLES
    game, vsBot, state,
    forfeited  \* history: the game is over because a player left it

tableVars == <<game, vsBot, state, forfeited>>

Seats == {0, 1}
Other(i) == 1 - i
None == -1    \* null
Draw == 2

Finished(s, w) == [s EXCEPT !.status = "over", !.winner = w]

\* handleMove of the room: a live game, and not the bot's seat.
MayMove(i) == state.status = "playing" /\ (vsBot => i = 0)
\* leaveRoom: of two people the one who stays has won, and sits first from now on.
Abandon ==
    /\ state.status = "playing" /\ ~vsBot
    /\ state' = Finished(state, 0) /\ forfeited' = TRUE
    /\ UNCHANGED <<game, vsBot>>

\* scheduleBot's timer: the bot sits second.
BotMayMove == state.status = "playing" /\ vsBot
=============================================================================
