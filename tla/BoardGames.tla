----------------------------- MODULE BoardGames -----------------------------
(***************************************************************************)
(* Connect Four, gomoku and reversi (services/games/connect4.js,           *)
(* gomoku.js, reversi.js) on boards of any size.                           *)
(***************************************************************************)
EXTENDS Table, FiniteSets, FiniteSetsExt

CONSTANTS
    Cols, Rows,   \* COLS, ROWS of Connect Four: 7, 6
    CentreFirst,  \* its bot's order of columns, a sequence
    Need,         \* stones in a row that win: 4 in Connect Four, NEED = 5 in gomoku
    Board,        \* BOARD of gomoku, 15
    N,            \* N of reversi, 8
    Weight        \* WEIGHTS of reversi, by cell

ASSUME BoardAssumption ==
    /\ {Cols, Rows, Need, Board, N} \subseteq Nat \ {0} /\ N % 2 = 0 /\ N >= 4
    /\ DOMAIN CentreFirst \subseteq Nat /\ {CentreFirst[k] : k \in DOMAIN CentreFirst} = 0..(Cols - 1)
    /\ Weight \in [(0..(N - 1)) \X (0..(N - 1)) -> Int]

Axes == {<<0, 1>>, <<1, 0>>, <<1, 1>>, <<1, -1>>}
Back(d) == <<-d[1], -d[2]>>
Step(cell, d, k) == <<cell[1] + k * d[1], cell[2] + k * d[2]>>
Grid(rows, cols) == (0..(rows - 1)) \X (0..(cols - 1))
Empty(cells) == [c \in cells |-> 0]
Holds(b, c, p) == c \in DOMAIN b /\ b[c] = p

\* Row-major order, in which the code looks at cells.
Before(c, d) == c[1] < d[1] \/ (c[1] = d[1] /\ c[2] < d[2])
FirstOf(cells) == CHOOSE c \in cells : \A d \in cells \ {c} : Before(c, d)

\* How far p's stones reach from a cell in a direction.
Reach(b, c, d, p) ==
    CHOOSE k \in 0..Cardinality(DOMAIN b) :
        ~Holds(b, Step(c, d, k + 1), p) /\ \A j \in 1..k : Holds(b, Step(c, d, j), p)

\* lineThrough, winningLine
\* Mutation: a line is followed one way only.
LineOneWay(b, c, p) == \E d \in Axes : 1 + Reach(b, c, d, p) >= Need

LineThrough(b, c, p) == \E d \in Axes : 1 + Reach(b, c, d, p) + Reach(b, c, Back(d), p) >= Need

\* What a stone of seat i at a cell makes of a game of lines, full when it leaves no room.
Placed(s, i, c, full) ==
    LET next == [s EXCEPT !.board[c] = i + 1]
    IN  IF LineThrough(next.board, c, i + 1) THEN Finished(next, i)
        ELSE IF full THEN Finished(next, Draw)
        ELSE [next EXCEPT !.turn = Other(i)]

NewBoard(b) == [status |-> "playing", winner |-> None, turn |-> 0, board |-> b]

-----------------------------------------------------------------------------
(* Connect Four: row 0 is the top *)

C4Ready == NewBoard(Empty(Grid(Rows, Cols)))
C4Columns == 0..(Cols - 1)

\* dropRow
Playable(b) == {col \in C4Columns : b[<<0, col>>] = 0}
DropCell(b, col) == <<Max({r \in 0..(Rows - 1) : b[<<r, col>>] = 0}), col>>
TopFull(b) == Playable(b) = {}

C4Input(s, i, col) ==
    IF i # s.turn \/ col \notin Playable(s.board) THEN s
    ELSE LET c == DropCell(s.board, col)
         IN  Placed(s, i, c, TopFull([s.board EXCEPT ![c] = i + 1]))

\* Does p win by dropping here?
WinsAt(b, col, p) == LET c == DropCell(b, col) IN LineThrough([b EXCEPT ![c] = p], c, p)

\* A win, else a block, else the most central column that gives no win away.
C4Bot(s) ==
    LET b == s.board
        mine == {col \in Playable(b) : WinsAt(b, col, 2)}
        theirs == {col \in Playable(b) : WinsAt(b, col, 1)}
        after(col) == [b EXCEPT ![DropCell(b, col)] = 2]
        safe == {col \in Playable(b) :
                    \A reply \in Playable(after(col)) : ~WinsAt(after(col), reply, 1)}
        central(cols) == CentreFirst[Min({k \in DOMAIN CentreFirst : CentreFirst[k] \in cols})]
    IN  IF mine # {} THEN Min(mine) ELSE IF theirs # {} THEN Min(theirs)
        ELSE IF safe # {} THEN central(safe) ELSE central(Playable(b))

-----------------------------------------------------------------------------
(* Gomoku *)

GomokuReady == NewBoard(Empty(Grid(Board, Board)))
BoardFull(b) == \A c \in DOMAIN b : b[c] # 0

GomokuInput(s, i, c) ==
    IF i # s.turn \/ ~Holds(s.board, c, 0) THEN s
    ELSE Placed(s, i, c, BoardFull([s.board EXCEPT ![c] = i + 1]))

\* scoreRun
ScoreRun(count, open) ==
    IF count >= 5 THEN 1000000
    ELSE IF open = 0 THEN 0
    ELSE <<<<4, 12>>, <<60, 220>>, <<600, 5000>>, <<12000, 100000>>>>[count][open]

\* evalCell: the runs p would have through a cell, and their open ends.
EvalCell(b, c, p) ==
    LET ends(d) == {e \in {d, Back(d)} : Holds(b, Step(c, e, Reach(b, c, e, p) + 1), 0)}
        score(d) == ScoreRun(1 + Reach(b, c, d, p) + Reach(b, c, Back(d), p), Cardinality(ends(d)))
    IN  score(<<0, 1>>) + score(<<1, 0>>) + score(<<1, 1>>) + score(<<1, -1>>)

\* gomokuBot: the first cell of the best score among those near a stone.
GomokuBot(s) ==
    LET b == s.board
        near(c) == \E dr, dc \in -2..2 : LET e == Step(c, <<dr, dc>>, 1)
                                         IN  e # c /\ e \in DOMAIN b /\ b[e] # 0
        score == [c \in {c \in DOMAIN b : b[c] = 0 /\ near(c)} |->
                    10 * EvalCell(b, c, 2) + 9 * EvalCell(b, c, 1)]
    IN  IF DOMAIN score = {} THEN <<Board \div 2, Board \div 2>>
        ELSE FirstOf({c \in DOMAIN score : \A e \in DOMAIN score : score[c] >= score[e]})

-----------------------------------------------------------------------------
(* Reversi *)

ReversiCells == Grid(N, N)
Compass == Axes \cup {Back(d) : d \in Axes}

ReversiReady ==
    LET h == N \div 2
    IN  NewBoard([c \in ReversiCells |->
            IF c \in {<<h - 1, h - 1>>, <<h, h>>} THEN 2
            ELSE IF c \in {<<h - 1, h>>, <<h, h - 1>>} THEN 1 ELSE 0])

\* The discs that turn when p plays here; none when the move is not legal.
Flips(b, c, p) ==
    IF b[c] # 0 THEN {}
    ELSE UNION {LET k == Reach(b, c, d, 3 - p)
                IN  IF Holds(b, Step(c, d, k + 1), p) THEN {Step(c, d, j) : j \in 1..k} ELSE {}
                  : d \in {d \in Compass : Holds(b, Step(c, d, 1), 3 - p)}}
LegalMoves(b, p) == {c \in ReversiCells : Flips(b, c, p) # {}}
CanMove(b, p) == \E c \in ReversiCells : Flips(b, c, p) # {}

\* counts
Discs(b, p) == Cardinality({c \in ReversiCells : b[c] = p})

\* advance: a side without a move is passed over; without any move the game ends.
\* Mutation: nobody is passed over.
AdvanceAlways(s) ==
    IF CanMove(s.board, 1) \/ CanMove(s.board, 2) THEN [s EXCEPT !.turn = Other(@)]
    ELSE Finished(s, IF Discs(s.board, 1) = Discs(s.board, 2) THEN Draw
                     ELSE IF Discs(s.board, 1) > Discs(s.board, 2) THEN 0 ELSE 1)

Advance(s) ==
    IF CanMove(s.board, Other(s.turn) + 1) THEN [s EXCEPT !.turn = Other(@)]
    ELSE IF CanMove(s.board, s.turn + 1) THEN s
    ELSE Finished(s, IF Discs(s.board, 1) = Discs(s.board, 2) THEN Draw
                     ELSE IF Discs(s.board, 1) > Discs(s.board, 2) THEN 0 ELSE 1)

ReversiInput(s, i, c) ==
    LET flipped == Flips(s.board, c, i + 1)
        turned == flipped \cup {c}
    IN  IF i # s.turn \/ flipped = {} THEN s
        ELSE Advance([s EXCEPT !.board = [e \in ReversiCells |-> IF e \in turned THEN i + 1 ELSE @[e]]])

\* The first of the squares with the best weight and flips.
ReversiBot(s) ==
    LET score == [c \in LegalMoves(s.board, 2) |-> Weight[c] + Cardinality(Flips(s.board, c, 2))]
    IN  FirstOf({c \in DOMAIN score : \A e \in DOMAIN score : score[c] >= score[e]})

-----------------------------------------------------------------------------
BoardInit ==
    /\ vsBot \in BOOLEAN /\ forfeited = FALSE
    /\ \/ game = "connect4" /\ state = C4Ready
       \/ game = "gomoku" /\ state = GomokuReady
       \/ game = "reversi" /\ state = ReversiReady

BoardMove(i) ==
    /\ MayMove(i)
    /\ \/ game = "connect4" /\ \E m \in C4Columns : state' = C4Input(state, i, m)
       \/ game = "gomoku" /\ \E m \in Grid(Board, Board) : state' = GomokuInput(state, i, m)
       \/ game = "reversi" /\ \E m \in ReversiCells : state' = ReversiInput(state, i, m)
    /\ UNCHANGED <<game, vsBot, forfeited>>

BoardBotMove ==
    /\ BotMayMove
    /\ \/ game = "connect4" /\ state.turn = 1 /\ state' = C4Input(state, 1, C4Bot(state))
       \/ game = "gomoku" /\ state.turn = 1 /\ state' = GomokuInput(state, 1, GomokuBot(state))
       \/ game = "reversi" /\ state.turn = 1 /\ state' = ReversiInput(state, 1, ReversiBot(state))
    /\ UNCHANGED <<game, vsBot, forfeited>>

BoardRematch ==
    /\ state.status = "over"
    /\ \/ game = "connect4" /\ state' = C4Ready
       \/ game = "gomoku" /\ state' = GomokuReady
       \/ game = "reversi" /\ state' = ReversiReady
    /\ UNCHANGED <<game, vsBot>> /\ forfeited' = FALSE
=============================================================================
