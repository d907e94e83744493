------------------------------- MODULE MCTree -------------------------------
(***************************************************************************)
(* What others reach of a drive, for TLC: FolderTree with the grants on    *)
(* it, the public links, and who is seen looking at a file.  They share no *)
(* variable, so a behaviour follows one of them; a link is used for        *)
(* downloads or as a drop-box, which count in different columns.           *)
(***************************************************************************)
EXTENDS AccessGrants, ShareLinks, Presence, TLC

CONSTANTS d1, d2, d3, f1, a, b, u, l1, g1, g2, p1, p2, f2, v1, v2, v3

VARIABLE way

ThreeUsers == (v1 :> "ann") @@ (v2 :> "bob") @@ (v3 :> "ann")

\* No two habits that get in each other's way.
SafeHabits == {{"reuse", "cross"}, {"reuse", "deep"}, {"rename", "deep", "batch"},
               {"share", "reuse", "rename", "deep"}}

RowSymmetry == Permutations(Folders) \cup Permutations(Names)

\* The habits of an owner do not matter to links and viewers.
ReachInit ==
    /\ AccessInit /\ ShareInit /\ PresenceInit
    /\ way \in {"guest", "download", "dropbox", "viewer"}
    /\ way # "guest" => habits = CHOOSE h \in Habits : TRUE
ReachNext ==
    \/ way = "guest" /\ AccessNext /\ UNCHANGED <<way, shareVars, presenceVars>>
    \/ way \in {"download", "dropbox"} /\ OwnerStep /\ UNCHANGED <<way, accessVars, presenceVars>>
    \/ way = "download" /\ Downloads /\ UNCHANGED <<way, accessVars, presenceVars>>
    \/ way = "dropbox" /\ Uploads /\ UNCHANGED <<way, accessVars, presenceVars>>
    \/ way = "viewer" /\ PresenceNext /\ UNCHANGED <<way, accessVars, shareVars>>
ReachSpec == ReachInit /\ [][ReachNext]_<<way, accessVars, shareVars, presenceVars>>
=============================================================================
