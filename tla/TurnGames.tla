----------------------------- MODULE TurnGames -----------------------------
(***************************************************************************)
(* Rock-paper-scissors, tic-tac-toe and memory (services/games/rps.js,     *)
(* tictactoe.js, memory.js).                                               *)
(***************************************************************************)
EXTENDS Table, Sequences, FiniteSets, FiniteSetsExt

CONSTANTS
    WinRounds,  \* WIN_ROUNDS, 3
    Pairs,      \* PAIRS, 8
    Openings    \* bound: the cells a person opens a game of tic-tac-toe with

ASSUME TurnAssumption == WinRounds \in Nat \ {0} /\ Pairs \in Nat \ {0} /\ Openings \subseteq 0..8

-----------------------------------------------------------------------------
(* Rock-paper-scissors: both commit, then the round is resolved *)

Hands == 0..2   \* rock, paper, scissors: each beats the one before
Beats(a, b) == a = (b + 1) % 3

RpsReady == [status |-> "playing", winner |-> None, scores |-> <<0, 0>>,
             choices |-> <<None, None>>]

RpsResolved(s) ==
    LET a == s.choices[1]
        b == s.choices[2]
        scores == <<s.scores[1] + (IF Beats(a, b) THEN 1 ELSE 0),
                    s.scores[2] + (IF Beats(b, a) THEN 1 ELSE 0)>>
        next == [s EXCEPT !.scores = scores, !.choices = <<None, None>>]
    IN  IF scores[1] >= WinRounds \/ scores[2] >= WinRounds
          THEN Finished(next, IF scores[1] > scores[2] THEN 0 ELSE 1)
          ELSE next

RpsInput(s, i, choice) ==
    IF s.status # "playing" \/ s.choices[i + 1] # None THEN s
    ELSE LET next == [s EXCEPT !.choices[i + 1] = choice]
         IN  IF None \in {next.choices[1], next.choices[2]} THEN next ELSE RpsResolved(next)

\* botActsNow
RpsBotDue(s) == s.status = "playing" /\ s.choices[2] = None

-----------------------------------------------------------------------------
(* Tic-tac-toe: the bot is a minimax player *)

TttLines == {{0, 1, 2}, {3, 4, 5}, {6, 7, 8}, {0, 3, 6}, {1, 4, 7}, {2, 5, 8}, {0, 4, 8}, {2, 4, 6}}
HasLine(b, p) == \E line \in TttLines : \A c \in line : b[c] = p
Blank(b) == {c \in DOMAIN b : b[c] = 0}

TttReady == [status |-> "playing", winner |-> None, turn |-> 0, board |-> [c \in 0..8 |-> 0]]

TttInput(s, i, cell) ==
    IF i # s.turn \/ cell \notin Blank(s.board) THEN s
    ELSE LET next == [s EXCEPT !.board[cell] = i + 1]
         IN  IF HasLine(next.board, i + 1) THEN Finished(next, i)
             ELSE IF Blank(next.board) = {} THEN Finished(next, Draw)
             ELSE [next EXCEPT !.turn = Other(i)]

\* The score of a board for 2, with p to move.
Minimax(board, player) ==
    LET value[b \in [0..8 -> 0..2], p \in 1..2] ==
            IF HasLine(b, 2) THEN 10
            ELSE IF HasLine(b, 1) THEN -10
            ELSE IF Blank(b) = {} THEN 0
            ELSE LET scores == {value[[b EXCEPT ![c] = p], 3 - p] : c \in Blank(b)}
                 IN  IF p = 2 THEN Max(scores) ELSE Min(scores)
    IN  value[board, player]

\* The first of the best cells.
TttBot(s) ==
    LET score == [c \in Blank(s.board) |-> Minimax([s.board EXCEPT ![c] = 2], 1)]
    IN  Min({c \in DOMAIN score : \A d \in DOMAIN score : score[c] >= score[d]})

-----------------------------------------------------------------------------
(* Memory: the cards are the values' positions, a miss stays up till the next flip *)

Cards == 0..(2 * Pairs - 1)
Shuffles == {d \in [Cards -> 1..Pairs] : \A v \in 1..Pairs : Cardinality({c \in Cards : d[c] = v}) = 2}

MemoryReady == {[status |-> "playing", winner |-> None, turn |-> 0, scores |-> <<0, 0>>,
                 cards |-> d, matched |-> {}, up |-> <<>>, seen |-> {}] : d \in Shuffles}

MemoryInput(s, i, c) ==
    LET up == IF Len(s.up) = 2 THEN <<>> ELSE s.up
        next == [s EXCEPT !.up = Append(up, c), !.seen = @ \cup {c}]
        scored == [next EXCEPT !.up = <<>>, !.matched = @ \cup {up[1], c}, !.scores[i + 1] = @ + 1]
    IN  IF i # s.turn THEN s
        ELSE IF c \in s.matched \cup {up[k] : k \in DOMAIN up} THEN [s EXCEPT !.up = up]
        ELSE IF up = <<>> THEN next
        ELSE IF s.cards[up[1]] # s.cards[c] THEN [next EXCEPT !.turn = Other(i)]
        ELSE IF scored.matched # Cards THEN scored
        ELSE Finished(scored, IF scored.scores[1] = scored.scores[2] THEN Draw
                              ELSE IF scored.scores[1] > scored.scores[2] THEN 0 ELSE 1)

\* pickUnknown: any card not seen yet, or else any card left.
Unknown(s, up) ==
    LET left == Cards \ (s.matched \cup up)
    IN  IF left \ s.seen # {} THEN left \ s.seen ELSE left

\* The bot completes a pair it has seen, opens one it knows whole, or explores.
MemoryBot(s) ==
    LET up == IF Len(s.up) = 2 THEN {} ELSE {s.up[k] : k \in DOMAIN s.up}
        known(v) == {c \in s.seen \ (s.matched \cup up) : s.cards[c] = v}
        whole == {v \in 1..Pairs : Cardinality(known(v)) = 2}
    IN  IF up # {}
          THEN LET mates == known(s.cards[CHOOSE c \in up : TRUE])
               IN  IF mates # {} THEN {Min(mates)} ELSE Unknown(s, up)
          ELSE IF whole # {} THEN {Min(known(Min(whole)))} ELSE Unknown(s, up)

-----------------------------------------------------------------------------
TurnInit ==
    /\ vsBot \in BOOLEAN /\ forfeited = FALSE
    /\ \/ game = "rps" /\ state = RpsReady
       \/ game = "tictactoe" /\ state = TttReady
       \/ game = "memory" /\ state \in MemoryReady

TurnMove(i) ==
    /\ MayMove(i)
    /\ \/ game = "rps" /\ \E m \in Hands : state' = RpsInput(state, i, m)
       \/ game = "tictactoe" /\ \E m \in IF Blank(state.board) = 0..8 THEN Openings ELSE 0..8 :
                                   state' = TttInput(state, i, m)
       \/ game = "memory" /\ \E m \in Cards : state' = MemoryInput(state, i, m)
    /\ UNCHANGED <<game, vsBot, forfeited>>

TurnBotMove ==
    /\ BotMayMove
    /\ \/ game = "rps" /\ RpsBotDue(state) /\ \E m \in Hands : state' = RpsInput(state, 1, m)
       \/ game = "tictactoe" /\ state.turn = 1 /\ state' = TttInput(state, 1, TttBot(state))
       \/ game = "memory" /\ state.turn = 1 /\ \E m \in MemoryBot(state) : state' = MemoryInput(state, 1, m)
    /\ UNCHANGED <<game, vsBot, forfeited>>

TurnRematch ==
    /\ state.status = "over"
    /\ \/ game = "rps" /\ state' = RpsReady
       \/ game = "tictactoe" /\ state' = TttReady
       \/ game = "memory" /\ state' \in MemoryReady
    /\ UNCHANGED <<game, vsBot>> /\ forfeited' = FALSE
=============================================================================
