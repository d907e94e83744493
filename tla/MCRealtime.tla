----------------------------- MODULE MCRealtime -----------------------------
(***************************************************************************)
(* The games for TLC: rooms, the engines that run in them on small boards, *)
(* and the game one plays alone.  They share no variable, so a behaviour   *)
(* follows one of them.                                                    *)
(***************************************************************************)
EXTENDS GameRooms, Engines, RpgGame, TLC

CONSTANTS w1, w2, w3, c1, c2, turns, ticks, rps

VARIABLE server

\* The bot's columns from the centre outwards, for four columns
FourColumns == <<2, 1, 3, 0>>

\* WEIGHTS without its four middle rows and columns
FourWeights ==
    [c \in (0..3) \X (0..3) |-> <<<<120, -20, -20, 120>>, <<-20, -40, -40, -20>>,
                                  <<-20, -40, -40, -20>>, <<120, -20, -20, 120>>>>[c[1] + 1][c[2] + 1]]

FoodCells == {<<1, 1>>, <<2, 3>>}

\* The engine that does not run
IdleTable == game = "none" /\ vsBot = FALSE /\ forfeited = FALSE /\ state = [status |-> "waiting"]

Init ==
    /\ GameInit /\ RpgInit
    /\ \/ server \in {"rooms", "saga"} /\ IdleTable
       \/ server = "engines" /\ EngineInit
    /\ server # "saga" => earned = 0
Next ==
    /\ UNCHANGED server
    /\ \/ server = "rooms" /\ GameNext /\ UNCHANGED <<tableVars, rpgVars>>
       \/ server = "engines" /\ EngineNext /\ UNCHANGED <<gameVars, rpgVars>>
       \/ server = "saga" /\ RpgNext /\ UNCHANGED <<gameVars, tableVars>>
Spec == Init /\ [][Next]_<<server, gameVars, tableVars, rpgVars>>
=============================================================================
