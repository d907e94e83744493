------------------------------- MODULE Nim21 -------------------------------
(***************************************************************************)
(* Nim "21" (services/games/nim21.js): who takes the last stick loses.     *)
(***************************************************************************)
EXTENDS Table

CONSTANT NimStart  \* START, 21

ASSUME NimStartAssumption == NimStart \in Nat \ {0}

NimMaxTake == 3
NimTakes == 1..NimMaxTake

NimReady == [status |-> "playing", winner |-> None, turn |-> 0, remaining |-> NimStart]

NimInput(s, i, take) ==
    IF i # s.turn \/ take \notin NimTakes \/ take > s.remaining THEN s
    ELSE IF take = s.remaining THEN Finished([s EXCEPT !.remaining = 0], Other(i))
    ELSE [s EXCEPT !.remaining = @ - take, !.turn = Other(i)]

\* Leave the other player one more than a multiple of four, if that can be done.
\* Mutation: leaves a multiple of four.
NimBotEven(s) == IF s.remaining % 4 \in NimTakes THEN s.remaining % 4 ELSE 1

NimBot(s) ==
    LET take == (s.remaining - 1) % 4 IN IF take \in NimTakes THEN take ELSE 1

NimInit == game = "nim21" /\ vsBot \in BOOLEAN /\ forfeited = FALSE /\ state = NimReady
NimMove(i) ==
    /\ game = "nim21" /\ MayMove(i)
    /\ \E take \in NimTakes : state' = NimInput(state, i, take)
    /\ UNCHANGED <<game, vsBot, forfeited>>
NimBotMove ==
    /\ game = "nim21" /\ BotMayMove /\ state.turn = 1
    /\ state' = NimInput(state, 1, NimBot(state))
    /\ UNCHANGED <<game, vsBot, forfeited>>
NimRematch ==
    /\ game = "nim21" /\ state.status = "over" /\ state' = NimReady
    /\ UNCHANGED <<game, vsBot>> /\ forfeited' = FALSE
NimNext == (\E i \in Seats : NimMove(i)) \/ NimBotMove \/ NimRematch
NimSpec == NimInit /\ [][NimNext]_tableVars

\* "The bot plays perfectly" (nim21.js:2): a person, who always opens, never
\* beats it when the first count is a losing one, as 21 is.
NimBotWins == game = "nim21" /\ vsBot /\ state.status = "over" /\ NimStart % 4 = 1 => state.winner = 1
=============================================================================
