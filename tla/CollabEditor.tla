---------------------------- MODULE CollabEditor ----------------------------
(***************************************************************************)
(* Editing one text file together: the editor component                    *)
(* (CollabEditor.jsx), the relay that seeds a shared document from the     *)
(* stored file (collab.js), and POST /files/:id/collab-save.               *)
(*                                                                         *)
(* A text is the set of the edits in it.  The merge of two documents, which*)
(* is the y-websocket library's, is their union.                           *)
(***************************************************************************)
EXTENDS Naturals, FiniteSets

CONSTANTS
    Editors, Edits,
    By,         \* the editor who types each edit
    Rank,       \* the clientID each editor's document draws
    NoText,     \* no text
    Calm,       \* do connections only fail, and users only type, with nothing
                \* unsaved and in sync; and do users wait for it to leave?
    MaxDrops, MaxRefusals,      \* bounds on lost connections, edits in failed saves,
    MaxSaving                   \* and texts on their way to the server

Original == "original"          \* what the file held at first
Texts == SUBSET (Edits \cup {Original})

ASSUME CollabAssumption ==
    /\ By \in [Edits -> Editors] /\ Rank \in [Editors -> Nat] /\ \A d, e \in Editors : Rank[d] = Rank[e] => d = e
    /\ Original \notin Edits /\ Calm \in BOOLEAN /\ MaxDrops \in Nat /\ MaxRefusals \in Nat /\ MaxSaving \in Nat

VARIABLES
    seat,       \* "away", "joining", "live", "closed" or "gone"
    doc,        \* the text in each open editor
    lastSaved,  \* what it takes to be stored; NoText before the first sync
    timer,      \* is its autosave scheduled?
    saving,     \* its texts on their way to the server
    room,       \* the relay's document; NoText while nobody has it open
    seed,       \* the stored text on its way into the room, or NoText
    current,    \* the file's current text
    kept,       \* the edits in any FileVersion
    typed, warned, drops    \* history: the edits made; those whose save was
                            \* reported to have failed; lost connections

collabVars == <<seat, doc, lastSaved, timer, saving, room, seed, current, kept,
                typed, warned, drops>>

IsOpen(e) == seat[e] \in {"joining", "live"}
Joined == {e \in Editors : seat[e] = "live"}
Unsaved(e) == IsOpen(e) /\ lastSaved[e] # doc[e]

CollabTypeOK ==
    /\ seat \in [Editors -> {"away", "joining", "live", "closed", "gone"}]
    /\ doc \in [Editors -> Texts] /\ lastSaved \in [Editors -> Texts \cup {NoText}]
    /\ timer \in [Editors -> BOOLEAN]
    /\ saving \in [Editors -> SUBSET Texts]
    /\ room \in Texts \cup {NoText} /\ seed \in Texts \cup {NoText}
    /\ current \in Texts /\ current \subseteq kept /\ warned \subseteq Edits

-----------------------------------------------------------------------------
(* The relay *)

\* attachCollab lets an editor in; the first one makes the document, which is
\* seeded from the file as it is stored now.
Enter(e) ==
    /\ seat[e] = "joining"
    /\ seat' = [seat EXCEPT ![e] = "live"]
    /\ IF room = NoText THEN room' = {} /\ seed' = current ELSE UNCHANGED <<room, seed>>

\* bindState: an empty document gets the text that was read.
Seed ==
    /\ seed # NoText /\ seed' = NoText
    /\ room' = IF room = {} THEN seed ELSE room
    /\ UNCHANGED <<seat, doc, lastSaved, timer, saving, current, kept, typed, warned, drops>>

\* The document goes with the last connection.
Leaves(e) ==
    IF Joined \subseteq {e} THEN room' = NoText /\ seed' = NoText ELSE UNCHANGED <<room, seed>>

-----------------------------------------------------------------------------
(* The editor *)

Opens(e) ==
    /\ seat[e] = "away"
    /\ seat' = [seat EXCEPT ![e] = "joining"]
    /\ UNCHANGED <<doc, lastSaved, timer, saving, room, seed, current, kept, typed, warned, drops>>

\* The listener of document changes, for one's own edits and others'.
Changed(e, text) ==
    /\ doc' = [doc EXCEPT ![e] = text]
    /\ timer' = [timer EXCEPT ![e] = TRUE]

\* The connection and the first exchange with the room: what the editor has now
\* counts as saved.
Sync(e) ==
    /\ Enter(e)
    /\ LET text == doc[e] \cup (IF room = NoText THEN {} ELSE room)
       IN  /\ doc' = [doc EXCEPT ![e] = text]
           /\ lastSaved' = [lastSaved EXCEPT ![e] = text]
           /\ timer' = [timer EXCEPT ![e] = @ \/ text # doc[e]]
    /\ UNCHANGED <<saving, current, kept, typed, warned, drops>>

\* A key or a command of the toolbar; each is one edit of the document.
Type(e, x) ==
    /\ IsOpen(e) /\ By[x] = e /\ x \notin typed
    /\ Calm => seat[e] = "live"
    /\ Changed(e, doc[e] \cup {x})
    /\ typed' = typed \cup {x}
    /\ UNCHANGED <<seat, lastSaved, saving, room, seed, current, kept, warned, drops>>

Send(e) ==
    /\ seat[e] = "live" /\ ~(doc[e] \subseteq room)
    /\ room' = room \cup doc[e]
    /\ UNCHANGED <<seat, doc, lastSaved, timer, saving, seed, current, kept, typed, warned, drops>>

Receive(e) ==
    /\ seat[e] = "live" /\ ~(room \subseteq doc[e])
    /\ Changed(e, doc[e] \cup room)
    /\ UNCHANGED <<seat, lastSaved, saving, room, seed, current, kept, typed, warned, drops>>

\* doSave
Saves(e) ==
    IF doc[e] = lastSaved[e] THEN UNCHANGED saving
    ELSE /\ saving' = [saving EXCEPT ![e] = @ \cup {doc[e]}]
         /\ Cardinality(UNION {{<<d, text>> : text \in saving'[d]} : d \in Editors}) <= MaxSaving

\* The editor with the lowest clientID it knows of.
Leader(e) == \A d \in Joined : Rank[e] <= Rank[d]

Autosave(e) ==
    /\ IsOpen(e) /\ timer[e]
    /\ timer' = [timer EXCEPT ![e] = FALSE]
    /\ IF Leader(e) THEN Saves(e) ELSE UNCHANGED saving
    /\ UNCHANGED <<seat, doc, lastSaved, room, seed, current, kept, typed, warned, drops>>

\* Ctrl-S, or the button.
SaveNow(e) ==
    /\ IsOpen(e) /\ (Calm => seat[e] = "live") /\ Saves(e)
    /\ UNCHANGED <<seat, doc, lastSaved, timer, room, seed, current, kept, typed, warned, drops>>

Ends(e, how) ==
    /\ seat' = [seat EXCEPT ![e] = how]
    /\ doc' = [doc EXCEPT ![e] = {}] /\ lastSaved' = [lastSaved EXCEPT ![e] = NoText]
    /\ timer' = [timer EXCEPT ![e] = FALSE]
    /\ Leaves(e)

Closing(e) ==
    /\ IsOpen(e) /\ (Calm => seat[e] = "live")
    /\ Ends(e, "closed")

\* Mutation: the flush of a closing editor is the leader's alone.
CloseLeaderOnly(e) ==
    /\ Closing(e)
    /\ IF Leader(e) THEN Saves(e) ELSE UNCHANGED saving
    /\ UNCHANGED <<current, kept, typed, warned, drops>>

\* An editor that closes saves what it has, leader or not.
Closes(e) ==
    /\ Closing(e) /\ Saves(e)
    /\ UNCHANGED <<current, kept, typed, warned, drops>>

\* The tab dies.
Dies(e) ==
    /\ IsOpen(e)
    /\ Ends(e, "gone") /\ saving' = [saving EXCEPT ![e] = {}]
    /\ UNCHANGED <<current, kept, typed, warned, drops>>

\* The connection is lost; it is made again later, and the documents merged.
Disconnects(e) ==
    /\ seat[e] = "live" /\ drops < MaxDrops /\ drops' = drops + 1
    /\ Calm => ~Unsaved(e)
    /\ seat' = [seat EXCEPT ![e] = "joining"]
    /\ Leaves(e)
    /\ UNCHANGED <<doc, lastSaved, timer, saving, current, kept, typed, warned>>

-----------------------------------------------------------------------------
(* POST /files/:id/collab-save: the text that is stored already makes no     *)
(* version.                                                                  *)

SaveServed(e, text) ==
    /\ text \in saving[e] /\ saving' = [saving EXCEPT ![e] = @ \ {text}]
    /\ current' = text /\ kept' = kept \cup text
    /\ lastSaved' = IF IsOpen(e) THEN [lastSaved EXCEPT ![e] = text] ELSE lastSaved
    /\ UNCHANGED <<seat, doc, timer, room, seed, typed, warned, drops>>

SaveRefused(e, text) ==
    /\ text \in saving[e] /\ saving' = [saving EXCEPT ![e] = @ \ {text}]
    /\ Cardinality(warned \cup (text \cap Edits)) <= MaxRefusals
    /\ warned' = warned \cup (text \cap Edits)
    /\ UNCHANGED <<seat, doc, lastSaved, timer, room, seed, current, kept, typed, drops>>

-----------------------------------------------------------------------------
CollabInit ==
    /\ seat = [e \in Editors |-> "away"] /\ doc = [e \in Editors |-> {}]
    /\ lastSaved = [e \in Editors |-> NoText]
    /\ timer = [e \in Editors |-> FALSE] /\ saving = [e \in Editors |-> {}]
    /\ room = NoText /\ seed = NoText
    /\ current = {Original} /\ kept = {Original}
    /\ typed = {} /\ warned = {} /\ drops = 0

CollabNext ==
    \/ Seed
    \/ \E e \in Editors :
          \/ Opens(e) \/ Sync(e) \/ Send(e) \/ Receive(e) \/ Autosave(e) \/ SaveNow(e)
          \/ Closes(e) \/ Dies(e) \/ Disconnects(e)
          \/ \E x \in Edits : Type(e, x)
          \/ \E text \in saving[e] : SaveServed(e, text) \/ SaveRefused(e, text)

CollabSpec == CollabInit /\ [][CollabNext]_collabVars

-----------------------------------------------------------------------------
\* "the closing tab must persist its own edits" (CollabEditor.jsx:294): what was
\* typed is in a version, on its way into one, or in an open editor that will
\* still save it, unless a save was reported to have failed or the tab died.
NoEditLost ==
    \A x \in typed :
        \/ seat[By[x]] = "gone"
        \/ x \in kept \cup warned
        \/ \E e \in Editors : x \in UNION saving[e] \/ (Unsaved(e) /\ x \in doc[e])

\* "so an unedited file or a redundant flush makes no new FileVersion"
\* (CollabEditor.jsx:296).
UneditedKept == typed = {} => current = {Original}
=============================================================================
