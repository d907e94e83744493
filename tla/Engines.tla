------------------------------ MODULE Engines ------------------------------
(***************************************************************************)
(* Every engine of services/games but chess, whose rules are a library's,  *)
(* and what their results are worth.  A behaviour plays one game, again    *)
(* and again, against a person or the bot.                                 *)
(***************************************************************************)
EXTENDS Nim21, TurnGames, BoardGames, ArcadeGames

EngineInit == NimInit \/ TurnInit \/ BoardInit \/ ArcadeInit

EngineNext ==
    \/ NimNext
    \/ \E i \in Seats : TurnMove(i) \/ BoardMove(i) \/ Steer(i)
    \/ TurnBotMove \/ BoardBotMove \/ ArcadeTick \/ Abandon
    \/ TurnRematch \/ BoardRematch \/ ArcadeRematch

EngineSpec == EngineInit /\ [][EngineNext]_tableVars

-----------------------------------------------------------------------------
(* Properties *)

\* A line anywhere on a board
LineOn(b, p) == \E c \in DOMAIN b, d \in Axes : \A k \in 0..(Need - 1) : Holds(b, Step(c, d, k), p)
SomeLine(p) == IF game = "tictactoe" THEN HasLine(state.board, p) ELSE LineOn(state.board, p)

Parts(s) == UNION {{k} \X DOMAIN s.riders[k].body : k \in 1..2}
At(s, p) == s.riders[p[1]].body[p[2]]

\* What the board and the result of a game that was played say of one another
Decided ==
    LET over == state.status = "over"
        won(i) == over /\ state.winner = i
        drawn == over /\ state.winner = Draw
    IN  /\ game \in {"tictactoe", "connect4", "gomoku"} =>
              /\ \A i \in Seats : won(i) <=> SomeLine(i + 1)
              /\ drawn <=> \A c \in DOMAIN state.board : state.board[c] # 0 /\ ~SomeLine(1) /\ ~SomeLine(2)
        /\ game = "memory" =>
              /\ 2 * (state.scores[1] + state.scores[2]) = Cardinality(state.matched)
              /\ over <=> state.matched = Cards
        /\ game = "reversi" =>
              /\ over <=> ~CanMove(state.board, 1) /\ ~CanMove(state.board, 2)
              /\ \A i \in Seats : won(i) => Discs(state.board, i + 1) > Discs(state.board, Other(i) + 1)
              /\ drawn => Discs(state.board, 1) = Discs(state.board, 2)
        /\ game \in {"snake", "tron"} =>
              /\ \A i \in Seats : won(i) => state.riders[i + 1].alive /\ ~state.riders[Other(i) + 1].alive
              /\ ~over => state.riders[1].alive /\ state.riders[2].alive
              /\ \A p, q \in Parts(state) : At(state, p) = At(state, q) => p = q \/ At(state, p) = Nowhere
              /\ \A p \in Parts(state) : OnBoard(At(state, p)) \/ (At(state, p) = Nowhere /\ p[2] = 1)
        /\ game \in {"rps", "pong"} =>
              \A i \in Seats : won(i) <=> state.scores[i + 1] = IF game = "rps" THEN WinRounds ELSE WinScore

\* The result says what the board says: a game of lines is won by exactly the
\* player who has a line somewhere, though the code looks only through the last
\* stone, and drawn when the board is full without one; memory counts each pair
\* once and ends with the last; a majority wins reversi and nobody could move on;
\* who is still riding has won, and a first to WinScore or WinRounds is the winner.
\* Riders never run through one another: no cell of the board is under two parts
\* of the bodies, of one rider or of both, and only a head leaves the board, for the
\* tick before it crashes.  A game that a player left says only who stayed.
ResultRight ==
    IF forfeited THEN state.status = "over" /\ state.winner = 0 /\ ~vsBot ELSE Decided

\* Some message changes the game, and so does every answer the bot may give: an
\* answer that is refused would be asked for and refused for ever.
Goes(Input(_, _, _), moves, botDue, answers) ==
    /\ \E i \in Seats, m \in moves : Input(state, i, m) # state
    /\ vsBot /\ botDue => answers # {} /\ \A m \in answers : Input(state, 1, m) # state

\* A live game can always go on: the side on turn has a move the engine takes,
\* and the bot, when it is due, always answers with one.
NeverStuck ==
    state.status = "playing" =>
       CASE game = "nim21" -> Goes(NimInput, NimTakes, state.turn = 1, {NimBot(state)})
         [] game = "rps" -> Goes(RpsInput, Hands, RpsBotDue(state), Hands)
         [] game = "tictactoe" -> Goes(TttInput, 0..8, FALSE, {})
         [] game = "memory" -> Goes(MemoryInput, Cards, state.turn = 1, MemoryBot(state))
         [] game = "connect4" -> Goes(C4Input, C4Columns, state.turn = 1, {C4Bot(state)})
         [] game = "gomoku" -> Goes(GomokuInput, Grid(Board, Board), state.turn = 1, {GomokuBot(state)})
         [] game = "reversi" -> Goes(ReversiInput, ReversiCells, state.turn = 1, {ReversiBot(state)})
         [] OTHER -> TRUE

\* "so the best a human can get is a draw" (tictactoe.js:2), and at nim the bot
\* always wins: a person never beats a bot that is said to play perfectly.
BotUnbeaten ==
    /\ NimBotWins
    /\ game = "tictactoe" /\ vsBot /\ state.status = "over" => state.winner # 0
=============================================================================
