------------------------------ MODULE RpgGame ------------------------------
(***************************************************************************)
(* The single-player game (RpgGame.jsx): runs follow one another in one    *)
(* page, and the best level and the cleared region are kept in the         *)
(* browser's storage.  A frame is one action: timers, enemies, the reaping *)
(* of the dead, projectiles, effects, the end of the run and its record,   *)
(* in that order.  Places are left out: whatever may be in reach can be.   *)
(***************************************************************************)
EXTENDS Naturals, FiniteSets, Functions

CONSTANTS
    Glitches, Frags,    \* the enemies beside the boss that are followed one by one
    Earlier,            \* what the rest, felled before or never, have been worth
    Health,             \* hits the player stands
    MaxCooling          \* bound: timers that run at once

Boss == "boss"
Foes == Glitches \cup Frags \cup {Boss}
Skills == {"swirl", "bolt", "storm", "heal"}
Timers == {"attack", "dash", "dashing", "hurt"} \cup Skills

Worth(f) == IF f = Boss THEN 60 ELSE IF f \in Frags THEN 4 ELSE 5

\* What a set of enemies yields
Yield(fallen) == SumFunctionOnSet([f \in Foes |-> Worth(f)], fallen)

\* Nobody dies of one hit (100 points against 18), and all the enemies but the
\* boss are worth 51.
ASSUME RpgAssumption ==
    /\ Health \in Nat \ {0, 1} /\ Boss \notin Glitches \cup Frags /\ MaxCooling \in Nat
    /\ IsFiniteSet(Glitches) /\ IsFiniteSet(Frags)
    /\ Earlier \subseteq Nat /\ \A e \in Earlier : e + Yield(Glitches \cup Frags) <= 51

VARIABLES
    foe,        \* "dormant", "awake", "down" (to be reaped) or "gone"
    health, earned,         \* the player's hit points and experience in all
    cooling,    \* timers that run
    flying,     \* "player", "enemy": shots in the air; "storm": one rages
    run, paused,            \* "playing", "won" or "dead"
    best,       \* what is stored: [level, cleared]
    slain       \* history: the boss has fallen in a run that could be recorded

rpgVars == <<foe, health, earned, cooling, flying, run, paused, best, slain>>

-----------------------------------------------------------------------------
\* xpNext summed: 12, then half as much again, rounded, for each level.
XpUpTo == <<0, 12, 30, 57, 98, 160, 253, 393, 603>>
LevelAt(xp) == CHOOSE l \in 1..8 : XpUpTo[l] <= xp /\ xp < XpUpTo[l + 1]

Gain(fallen) == earned + Yield(fallen)

\* Mutation: a new level leaves the hit points as they are.
HealedNot(hp, xp) == hp
\* A new level restores all hit points.
Healed(hp, xp) == IF LevelAt(xp) > LevelAt(earned) THEN Health ELSE hp

Better(m, n) == IF m > n THEN m ELSE n

Fresh ==
    /\ foe' = [f \in Foes |-> IF f = Boss THEN "dormant" ELSE "awake"]
    /\ health' = Health /\ earned' \in Earlier /\ cooling' = {} /\ flying' = {}
    /\ run' = "playing" /\ paused' = FALSE

Awake == {f \in Foes : foe[f] = "awake"}
Struck(who, hit) == [f \in Foes |-> IF f \in hit THEN "down" ELSE who[f]]

-----------------------------------------------------------------------------
(* A frame *)

May(condition) == IF condition THEN BOOLEAN ELSE {FALSE}

\* The player can be hurt: neither just hit nor dashing.
Unshielded(timers) == {"hurt", "dashing"} \cap timers = {}
Touches(timers) == Unshielded(timers) /\ Awake \ Frags # {}
Aims == Awake \ Glitches # {}
\* A shot may hit, and land, in the frame in which it was fired.
Shots(aimed) == flying \cup (IF aimed THEN {"enemy"} ELSE {})
Shoots(timers, aimed) == Unshielded(timers) /\ "enemy" \in Shots(aimed)
\* Whom the player's shots and storm may fell
Falls == IF flying \cap {"player", "storm"} = {} THEN {{}} ELSE SUBSET Awake

Fallen == {f \in Foes : foe[f] = "down"}
Reaped(wakes) ==
    [f \in Foes |-> IF f \in Fallen THEN "gone" ELSE IF f = Boss /\ wakes THEN "awake" ELSE foe[f]]

\* A run is recorded once, when it has ended; the storage may refuse it, unnoticed.
Recorded(ends, xp) ==
    IF ends = "playing" THEN best
    ELSE [level |-> Better(best.level, LevelAt(xp)), cleared |-> best.cleared \/ ends = "won"]

Frame ==
    /\ run = "playing" /\ ~paused
    /\ \E over \in SUBSET cooling :
          LET still == cooling \ over
              xp    == Gain(Fallen)
          IN  \E wakes \in May(foe[Boss] = "dormant"), touched \in May(Touches(still)),
                 aimed \in May(Aims), felled \in Falls, stored \in BOOLEAN :
             \E shot \in May(Shoots(still, aimed)), landed \in SUBSET Shots(aimed) :
                 LET risen == Healed(health - (IF touched THEN 1 ELSE 0), xp)
                     left  == risen - (IF shot THEN 1 ELSE 0)
                     ends  == IF left = 0 THEN "dead" ELSE IF Boss \in Fallen THEN "won" ELSE "playing"
                 IN  /\ ~(touched /\ shot)
                     /\ foe' = Struck(Reaped(wakes), felled)
                     /\ health' = left /\ earned' = xp
                     /\ cooling' = IF touched \/ shot THEN still \cup {"hurt"} ELSE still
                     /\ flying' = Shots(aimed) \ landed
                     /\ run' = ends /\ best' = IF stored THEN Recorded(ends, xp) ELSE best
                     /\ slain' = (slain \/ (Boss \in Fallen /\ stored))
    /\ UNCHANGED paused

-----------------------------------------------------------------------------
(* Keys *)

Ready(t, also) ==
    /\ run = "playing" /\ ~paused /\ t \notin cooling
    /\ cooling' = cooling \cup {t} \cup also
    /\ Cardinality(cooling') <= MaxCooling
Acts == UNCHANGED <<earned, run, paused, best, slain>>

Attack ==
    /\ Ready("attack", {})
    /\ \E hit \in SUBSET Awake : foe' = Struck(foe, hit)
    /\ Acts /\ UNCHANGED <<health, flying>>

Dash == Ready("dash", {"dashing"}) /\ Acts /\ UNCHANGED <<foe, health, flying>>

\* A skill may be refused for want of mana, which is not counted.
Swirl ==
    /\ Ready("swirl", {})
    /\ \E hit \in SUBSET Awake : foe' = Struck(foe, hit)
    /\ Acts /\ UNCHANGED <<health, flying>>

Bolt == Ready("bolt", {}) /\ flying' = flying \cup {"player"} /\ Acts /\ UNCHANGED <<foe, health>>
Storm == Ready("storm", {}) /\ flying' = flying \cup {"storm"} /\ Acts /\ UNCHANGED <<foe, health>>
Heal ==
    /\ Ready("heal", {})
    /\ health' = IF health < Health THEN health + 1 ELSE Health
    /\ Acts /\ UNCHANGED <<foe, flying>>

PauseRun ==
    /\ run = "playing" /\ paused' = ~paused
    /\ UNCHANGED <<foe, health, earned, cooling, flying, run, best, slain>>

\* Enter or the overlay's button after the end; the page left and entered again.
Restart == Fresh /\ UNCHANGED <<best, slain>>

RpgInit ==
    /\ foe = [f \in Foes |-> IF f = Boss THEN "dormant" ELSE "awake"]
    /\ health = Health /\ earned \in Earlier /\ cooling = {} /\ flying = {}
    /\ run = "playing" /\ paused = FALSE
    /\ best = [level |-> 0, cleared |-> FALSE] /\ slain = FALSE

RpgNext == Frame \/ Attack \/ Dash \/ Swirl \/ Bolt \/ Storm \/ Heal \/ PauseRun \/ Restart
RpgSpec == RpgInit /\ [][RpgNext]_rpgVars

RpgTypeOK ==
    /\ foe \in [Foes -> {"dormant", "awake", "down", "gone"}] /\ health \in 0..Health
    /\ cooling \subseteq Timers /\ flying \subseteq {"player", "enemy", "storm"}
    /\ run \in {"playing", "won", "dead"} /\ paused \in BOOLEAN

\* Who has felled the boss has cleared the region for good: neither a hit in
\* the same frame, which would overwrite "won" by "dead" (RpgGame.jsx:199) but
\* for the level the boss is always worth, nor a lost run later takes it back,
\* unless the browser would not store it.
VictoryKept == slain => best.cleared
=============================================================================
