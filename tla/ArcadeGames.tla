---------------------------- MODULE ArcadeGames ----------------------------
(***************************************************************************)
(* Snake, Tron and Pong (services/games/snake.js, tron.js, pong.js): games *)
(* with a tick.  An input changes what a player intends; the tick, which   *)
(* the room's loop runs after asking the bot (games.js), does the rest.    *)
(***************************************************************************)
EXTENDS Table, Sequences, FiniteSets, FiniteSetsExt

CONSTANTS
    Side,      \* GRID, 22 and 28
    Margin,    \* distance of the first heads from the wall: 4 and 3
    StartLen,  \* START_LEN, 3
    Larder,    \* bound: the cells where food turns up
    LongestSnake, \* bound: the length at which a snake is left alone
    WinScore   \* WIN_SCORE, 7

ASSUME ArcadeAssumption ==
    /\ {Side, Margin, StartLen, LongestSnake, WinScore} \subseteq Nat \ {0}
    /\ StartLen - 1 <= Margin /\ 2 * Margin + 1 < Side
    /\ Larder # {} /\ Larder \subseteq (0..(Side - 1)) \X (0..(Side - 1))

\* up, down, left, right, in the order in which the bots try them
Directions == 1..4
Vector == <<<<0, -1>>, <<0, 1>>, <<-1, 0>>, <<1, 0>>>>
Opposite == <<2, 1, 4, 3>>
Ahead(cell, d, k) == <<cell[1] + k * Vector[d][1], cell[2] + k * Vector[d][2]>>
Nowhere == <<-1, -1>>   \* the cell NaN,NaN
OnBoard(cell) == cell \in (0..(Side - 1)) \X (0..(Side - 1))
CellsOf(body) == {body[k] : k \in DOMAIN body}

\* makeSnake and makeCycle: the body lies behind the head.
Rider(head, d, len) ==
    [body |-> [k \in 1..len |-> Ahead(head, d, 1 - k)], dir |-> d, nextDir |-> d, alive |-> TRUE, grow |-> 0]
Riders(len) == <<Rider(<<Margin, Side \div 2>>, 4, len), Rider(<<Side - 1 - Margin, Side \div 2>>, 3, len)>>

SnakeReady == {[status |-> "playing", winner |-> None, riders |-> Riders(StartLen), food |-> f] : f \in Larder}
TronReady == [status |-> "playing", winner |-> None, riders |-> Riders(1)]
Solid(s) == CellsOf(s.riders[1].body) \cup CellsOf(s.riders[2].body)

\* Nobody turns on the spot.  The guard looks a key up in an object, and so lets
\* pass a key that every object has, which is no direction (0), and does not know
\* a direction in an array again (not plain).
SteerInput(s, i, d, plain) ==
    LET r == s.riders[i + 1]
    IN  IF r.alive /\ (plain /\ r.dir # 0 => d # Opposite[r.dir])
          THEN [s EXCEPT !.riders[i + 1].nextDir = d] ELSE s

-----------------------------------------------------------------------------
(* One tick of Snake and Tron: heads, crashes against the bodies as they were, *)
(* then one rider after the other                                              *)

Turned(s) == [s EXCEPT !.riders = [k \in 1..2 |-> [s.riders[k] EXCEPT !.dir = s.riders[k].nextDir]]]
HeadOf(s, k) ==
    LET r == s.riders[k]
    IN  IF r.dir = 0 \/ r.body[1] = Nowhere THEN Nowhere ELSE Ahead(r.body[1], r.dir, 1)

\* Every comparison with NaN fails, but a body there is found.
Crashed(s, k) ==
    \/ HeadOf(s, k) \in Solid(s)
    \/ HeadOf(s, k) # Nowhere /\ (~OnBoard(HeadOf(s, k)) \/ HeadOf(s, 1) = HeadOf(s, 2))

\* What becomes of rider k: it dies, or moves on; the snake that eats grows by
\* two and the food turns up at f.
Rode(s, k, head, dies, f) ==
    LET r == s.riders[k]
        body == <<head>> \o r.body
        eats == game = "snake" /\ head = s.food
        grow == IF eats THEN r.grow + 2 ELSE r.grow
        kept == IF game = "tron" \/ grow > 0 THEN body ELSE SubSeq(body, 1, Len(r.body))
    IN  IF dies THEN [s EXCEPT !.riders[k].alive = FALSE]
        ELSE IF eats THEN [s EXCEPT !.riders[k].body = kept, !.riders[k].grow = grow - 1, !.food = f]
        ELSE [s EXCEPT !.riders[k].body = kept, !.riders[k].grow = Max({0, grow - 1})]

\* The win or the draw
Judged(s) ==
    LET alive == {i \in Seats : s.riders[i + 1].alive}
    IN  IF alive = {} THEN Finished(s, Draw)
        ELSE IF alive # Seats THEN Finished(s, CHOOSE i \in alive : TRUE) ELSE s

Ticked(s0, f1, f2) ==
    LET s == Turned(s0)
    IN  Judged(Rode(Rode(s, 1, HeadOf(s, 1), Crashed(s, 1), f1), 2, HeadOf(s, 2), Crashed(s, 2), f2))

-----------------------------------------------------------------------------
(* The bots *)

Options(s) == Directions \ {Opposite[s.riders[2].dir]}
Safe(s, cell) == OnBoard(cell) /\ cell \notin Solid(s)
Abs(x) == IF x < 0 THEN -x ELSE x

\* Towards the food, among the directions that do not kill at once.
SnakeBot(s) ==
    LET from == s.riders[2].body[1]
        alive == {d \in Options(s) : Safe(s, Ahead(from, d, 1))}
        pool == IF alive # {} THEN alive ELSE Options(s)
        far(d) == Abs(Ahead(from, d, 1)[1] - s.food[1]) + Abs(Ahead(from, d, 1)[2] - s.food[2])
    IN  Min({d \in pool : \A e \in pool : far(d) <= far(e)})

\* Where there is most room ahead; straight on when there is none.
TronBot(s) ==
    LET from == s.riders[2].body[1]
        room(d) == Max({k \in 0..Side : \A j \in 1..k : Safe(s, Ahead(from, d, j))})
        best == {d \in Options(s) : room(d) > 0 /\ \A e \in Options(s) : room(d) >= room(e)}
    IN  IF best # {} THEN Min(best) ELSE s.riders[2].dir

-----------------------------------------------------------------------------
(* Pong, without its geometry: the ball heads for one side, whose paddle may  *)
(* return it or let it pass                                                   *)

PongReady == {[status |-> "playing", winner |-> None, scores |-> <<0, 0>>, heading |-> i] : i \in Seats}

\* afterScore: the serve goes to the side of the player who has just scored.
Scored(s, i) ==
    LET next == [s EXCEPT !.scores[i + 1] = @ + 1]
    IN  IF next.scores[i + 1] >= WinScore THEN Finished(next, i) ELSE [next EXCEPT !.heading = i]

PongTicked(s) == {s, [s EXCEPT !.heading = Other(@)], Scored(s, Other(s.heading))}

-----------------------------------------------------------------------------
ArcadeInit ==
    /\ vsBot \in BOOLEAN /\ forfeited = FALSE
    /\ \/ game = "snake" /\ state \in SnakeReady
       \/ game = "tron" /\ state = TronReady
       \/ game = "pong" /\ state \in PongReady

Steer(i) ==
    /\ MayMove(i) /\ game \in {"snake", "tron"}
    /\ \E d \in Directions \cup {0}, plain \in BOOLEAN : state' = SteerInput(state, i, d, plain)
    /\ UNCHANGED <<game, vsBot, forfeited>>

\* The room's loop (startLoop): the bot's input, then the tick.
ArcadeTick ==
    /\ state.status = "playing"
    /\ \/ /\ game = "snake" /\ \A k \in 1..2 : Len(state.riders[k].body) < LongestSnake
          /\ \E f1, f2 \in Larder :
                state' = Ticked(IF vsBot THEN SteerInput(state, 1, SnakeBot(state), TRUE) ELSE state, f1, f2)
       \/ /\ game = "tron"
          /\ state' = Ticked(IF vsBot THEN SteerInput(state, 1, TronBot(state), TRUE) ELSE state, <<0, 0>>, <<0, 0>>)
       \/ game = "pong" /\ state' \in PongTicked(state)
    /\ UNCHANGED <<game, vsBot, forfeited>>

ArcadeRematch ==
    /\ state.status = "over"
    /\ \/ game = "snake" /\ state' \in SnakeReady
       \/ game = "tron" /\ state' = TronReady
       \/ game = "pong" /\ state' \in PongReady
    /\ UNCHANGED <<game, vsBot>> /\ forfeited' = FALSE
=============================================================================
