------------------------------- MODULE MCKept -------------------------------
(***************************************************************************)
(* What the server has acknowledged, or an editor shows, is kept: one      *)
(* upload session under every kind of failure, and one text edited         *)
(* together, for TLC.  They share no variable, so a behaviour follows one  *)
(* of them.                                                                *)
(***************************************************************************)
EXTENDS MCUpload, CollabEditor

CONSTANTS e1, e2, x1, x2

VARIABLE content

\* Each editor types one edit.
Typists == (x1 :> e1) @@ (x2 :> e2)
Ranks == (e1 :> 1) @@ (e2 :> 2)

KeptInit == Init /\ CollabInit /\ content \in {"upload", "text"}
KeptNext ==
    /\ UNCHANGED content
    /\ \/ content = "upload" /\ Next /\ UNCHANGED collabVars
       \/ content = "text" /\ CollabNext /\ UNCHANGED vars
KeptSpec == KeptInit /\ [][KeptNext]_<<content, vars, collabVars>>
=============================================================================
