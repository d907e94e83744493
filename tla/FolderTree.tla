----------------------------- MODULE FolderTree -----------------------------
(***************************************************************************)
(* The folder tree of one owner, with the files in it and the trash:       *)
(* POST, PATCH and DELETE /folders, their WebDAV twins (MKCOL, MOVE,       *)
(* DELETE), the file routes that choose a folder or a name, and the three  *)
(* ways an item leaves the trash (restore, empty, retention sweep).        *)
(*                                                                         *)
(* A request decides on rows it reads and then writes in one transaction:  *)
(* two steps here.  todo holds the requests between the two.  A path is    *)
(* the sequence of names from the top folder down.                         *)
(***************************************************************************)
EXTENDS Naturals, Sequences, FiniteSets

CONSTANTS
    Folders, Files,   \* ids of rows
    Names,            \* names a user picks
    Suffixed,         \* the name an upload takes when its own is a folder's
    Habits,           \* the sets of habits below, one per behaviour
    InFlight,         \* bound: requests between their reads and their write
    MaxDepth,         \* bound: levels of folders a user makes
    SharedRows,       \* bound: folders an owner has who shares
    Root,             \* no parent: the top folder
    None              \* no row

\* What the owner does besides making, trashing and restoring single items:
\*   rename   renames and moves folders
\*   reuse    gives an item a name while an item of its kind in the trash has it
\*   cross    the same, while an item of the other kind in the trash has it
\*   deep     restores an item whose folder is in the trash, too
\*   batch    restores several items with one request
\*   share    grants others access
HabitSet == {"rename", "reuse", "cross", "deep", "batch", "share"}

ASSUME TreeAssumption ==
    /\ Habits \subseteq SUBSET HabitSet
    /\ {InFlight, MaxDepth, SharedRows} \subseteq Nat
    /\ Suffixed \notin Names /\ None \notin Names \cup {Suffixed}
    /\ {Root, None} \cap (Folders \cup Files) = {} /\ Root # None
    /\ Folders \cap Files = {} /\ IsFiniteSet(Folders) /\ IsFiniteSet(Files)

VARIABLES
    folder,   \* Folder rows
    file,     \* File rows
    todo,     \* requests that have read and not yet written
    habits    \* what this owner does

vars == <<folder, file, todo, habits>>

States == {"live", "trashed", "expired"}
Parents == Folders \cup {Root}
FolderRow == [name : Names, parent : Parents, path : Seq(Names), state : States]
FileRow == [name : Names \cup {Suffixed}, parent : Parents, state : States]

ASSUME TreeRowAssumption == None \notin FolderRow /\ None \notin FileRow

Init ==
    /\ folder = [d \in Folders |-> None]
    /\ file = [f \in Files |-> None]
    /\ todo = {}
    /\ habits \in Habits

-----------------------------------------------------------------------------
(* Reading the tree *)

Rows == {d \in Folders : folder[d] # None}
FileRows == {f \in Files : file[f] # None}
Live == {d \in Rows : folder[d].state = "live"}
LiveFiles == {f \in FileRows : file[f].state = "live"}

PathOf(p) == IF p = Root THEN <<>> ELSE folder[p].path

\* joinPath
Join(p, name) == Append(PathOf(p), name)

\* path startsWith(prefix + "/"): q lies strictly below p, by its path.
Under(p, q) == Len(q) > Len(p) /\ SubSeq(q, 1, Len(p)) = p

\* Folders whose path lies below that of d, whatever their parent links say.
BelowByPath(d) == {e \in Rows : Under(folder[d].path, folder[e].path)}

\* The folders on the way up from p, and below the folders ds, by parent link.
Up(p) ==
    LET level[n \in Nat] ==
          IF n = 0 THEN {p} \ {Root}
          ELSE level[n - 1] \cup ({folder[d].parent : d \in level[n - 1]} \ {Root})
    IN  level[Cardinality(Folders)]

Subtree(ds) ==
    LET level[n \in Nat] ==
          IF n = 0 THEN ds
          ELSE level[n - 1] \cup {d \in Rows : folder[d].parent \in level[n - 1]}
    IN  level[Cardinality(Folders)]

\* Every row has its type, parents exist, and the parent links form a forest.
TypeOK ==
    /\ \A d \in Folders : folder[d] = None \/ folder[d] \in FolderRow
    /\ \A f \in Files : file[f] = None \/ file[f] \in FileRow
    /\ \A d \in Rows : folder[d].parent \in Rows \cup {Root} /\ d \notin Up(folder[d].parent)
    /\ \A f \in FileRows : file[f].parent \in Rows \cup {Root}
    /\ Cardinality(todo) <= InFlight /\ habits \in Habits

\* assertNoSiblingCollision, folderPathTaken
PathTaken(path, except) == \E d \in Live \ except : folder[d].path = path

\* findFileNameClash and findFolderNameClash
FileClash(p, name, except) ==
    \E f \in LiveFiles \ except : file[f].parent = p /\ file[f].name = name
FolderClash(p, name) == \E d \in Live : folder[d].parent = p /\ folder[d].name = name

\* A name that is in the trash is taken again only by habit.
NameOfFolder(p, name) == \E d \in Rows : folder[d].parent = p /\ folder[d].name = name
NameOfFile(p, name) == \E f \in FileRows : file[f].parent = p /\ file[f].name = name
MayNameFolder(p, name) ==
    /\ NameOfFolder(p, name) => "reuse" \in habits
    /\ NameOfFile(p, name) => "cross" \in habits
MayNameFile(p, name) ==
    /\ NameOfFile(p, name) => "reuse" \in habits
    /\ NameOfFolder(p, name) => "cross" \in habits

Decide(w) ==
    /\ Cardinality(todo) < InFlight
    /\ todo' = todo \cup {w}
    /\ UNCHANGED <<folder, file, habits>>

Done(w) == w \in todo /\ todo' = todo \ {w} /\ UNCHANGED habits

-----------------------------------------------------------------------------
(* Folders *)

Unused(d) ==
    /\ folder[d] = None /\ \A w \in todo : w.op = "make" => w.id # d
    /\ "share" \in habits => Cardinality(Rows) < SharedRows

\* POST /folders and MKCOL.
DecideMake(d, p, name) ==
    /\ Unused(d) /\ MayNameFolder(p, name)
    /\ p \in Live \cup {Root}
    /\ Len(PathOf(p)) < MaxDepth
    /\ ~PathTaken(Join(p, name), {}) /\ ~FileClash(p, name, {})
    /\ Decide([op |-> "make", id |-> d, parent |-> p, name |-> name, path |-> Join(p, name)])

\* A parent deleted meanwhile fails the foreign key.
Make(w) ==
    /\ w.op = "make" /\ Done(w)
    /\ folder' = IF w.parent \in Rows \cup {Root}
                   THEN [folder EXCEPT ![w.id] = [name |-> w.name, parent |-> w.parent,
                                                  path |-> w.path, state |-> "live"]]
                   ELSE folder
    /\ UNCHANGED file

\* PATCH /folders/:id: a new parent must be live and not below; the parent
\* the folder already has is not looked at.
DecideMove(d, p, name) ==
    /\ "rename" \in habits
    /\ d \in Rows
    /\ p # folder[d].parent =>
         p \in Live \cup {Root} /\ p # d /\ ~Under(folder[d].path, PathOf(p))
    /\ <<p, name>> # <<folder[d].parent, folder[d].name>> =>
         MayNameFolder(p, name) /\ ~FileClash(p, name, {})
    /\ Len(PathOf(p)) < MaxDepth
    /\ Join(p, name) # folder[d].path => ~PathTaken(Join(p, name), {d})
    /\ Decide([op |-> "move", id |-> d, parent |-> p, name |-> name,
               old |-> folder[d].path, path |-> Join(p, name)])

\* Mutation: the folders below keep their path.
MovePath(w, d) == IF d = w.id THEN w.path ELSE folder[d].path

\* The path a move leaves folder d with: everything whose path starts with
\* the old one follows.
MovedPath(w, d) ==
    IF d = w.id THEN w.path
    ELSE IF Under(w.old, folder[d].path)
      THEN w.path \o SubSeq(folder[d].path, Len(w.old) + 1, Len(folder[d].path))
      ELSE folder[d].path

Move(w) ==
    /\ w.op = "move" /\ Done(w)
    /\ folder' =
         IF w.id \notin Rows THEN folder
         ELSE [d \in Folders |->
                 IF d \notin Rows THEN None
                 ELSE [folder[d] EXCEPT !.path = MovedPath(w, d),
                                        !.name = IF d = w.id THEN w.name ELSE @,
                                        !.parent = IF d = w.id THEN w.parent ELSE @]]
    /\ UNCHANGED file

\* DELETE /folders/:id reads the row, trashed or not.
DecideTrash(d) ==
    /\ d \in Rows
    /\ Decide([op |-> "trash", id |-> d, path |-> folder[d].path])

Trash(w) ==
    /\ w.op = "trash" /\ Done(w)
    /\ LET hit == {d \in Rows : d = w.id \/ Under(w.path, folder[d].path)}
       IN  /\ folder' = [d \in Folders |-> IF d \in hit THEN [folder[d] EXCEPT !.state = "trashed"]
                                           ELSE folder[d]]
           /\ file' = [f \in Files |-> IF f \in FileRows /\ file[f].parent \in hit
                                         THEN [file[f] EXCEPT !.state = "trashed"]
                                         ELSE file[f]]

-----------------------------------------------------------------------------
(* Files *)

\* An upload settles on its folder and name when it completes: a folder that
\* is gone or trashed becomes the top one, a folder's name gets a suffix.
DecideAdd(f, p, name) ==
    /\ file[f] = None /\ \A w \in todo : w.op = "add" => w.id # f
    /\ p \in Rows \cup {Root}
    /\ LET home == IF p \in Live THEN p ELSE Root
           settled == IF FolderClash(home, name) THEN Suffixed ELSE name
       IN  /\ MayNameFile(home, settled)
           /\ Decide([op |-> "add", id |-> f, parent |-> home, name |-> settled])

Add(w) ==
    /\ w.op = "add" /\ Done(w)
    /\ file' = IF w.parent \in Rows \cup {Root}
                 THEN [file EXCEPT ![w.id] = [name |-> w.name, parent |-> w.parent,
                                              state |-> "live"]]
                 ELSE file
    /\ UNCHANGED folder

\* PATCH /files/:id, and MOVE of a file onto a free name.  A field that stays is
\* not written.
DecideMoveFile(f, p, name) ==
    /\ f \in LiveFiles
    /\ p # file[f].parent => p \in Live \cup {Root}
    /\ <<p, name>> # <<file[f].parent, file[f].name>> =>
         MayNameFile(p, name) /\ ~FileClash(p, name, {f}) /\ ~FolderClash(p, name)
    /\ Decide([op |-> "movefile", id |-> f,
               parent |-> IF p = file[f].parent THEN None ELSE p,
               name |-> IF name = file[f].name THEN None ELSE name])

MoveFile(w) ==
    /\ w.op = "movefile" /\ Done(w)
    /\ file' = IF w.id \notin FileRows THEN file
               ELSE [file EXCEPT
                       ![w.id].name = IF w.name = None THEN @ ELSE w.name,
                       ![w.id].parent = IF w.parent \in Rows \cup {Root} THEN w.parent ELSE @]
    /\ UNCHANGED folder

\* DELETE /files/:id.
DecideTrashFile(f) ==
    /\ f \in LiveFiles
    /\ Decide([op |-> "trashfile", id |-> f])

TrashFile(w) ==
    /\ w.op = "trashfile" /\ Done(w)
    /\ file' = IF w.id \in FileRows THEN [file EXCEPT ![w.id].state = "trashed"] ELSE file
    /\ UNCHANGED folder

-----------------------------------------------------------------------------
(* The trash *)

TrashedUp(p) == {d \in Up(p) : folder[d].state # "live"}
ChainRestorable(p) == \A d \in TrashedUp(p) : ~PathTaken(folder[d].path, {d})

FileRestorable(f) == ~FolderClash(file[f].parent, file[f].name) /\ ChainRestorable(file[f].parent)

\* Mutation: a path a live folder has taken meanwhile does not matter.
FolderRestorableAnyway(d) ==
    ~FileClash(folder[d].parent, folder[d].name, {}) /\ ChainRestorable(folder[d].parent)

FolderRestorable(d) ==
    /\ ~PathTaken(folder[d].path, {d})
    /\ ~FileClash(folder[d].parent, folder[d].name, {})
    /\ ChainRestorable(folder[d].parent)

\* The folders a restore brings back: those it named and every trashed folder
\* on the way up to them.
RestoredFolders(ds, fs) ==
    ds \cup (UNION {TrashedUp(folder[d].parent) : d \in ds})
       \cup (UNION {TrashedUp(file[f].parent) : f \in fs})

\* POST /trash/restore: what cannot come back is skipped.
DecideRestore(ds, fs) ==
    /\ ds \cup fs # {} /\ ds \subseteq Rows \ Live /\ fs \subseteq FileRows \ LiveFiles
    /\ Cardinality(ds \cup fs) > 1 => "batch" \in habits
    /\ RestoredFolders(ds, fs) # ds => "deep" \in habits
    /\ LET back == {d \in ds : FolderRestorable(d)}
           backFiles == {f \in fs : FileRestorable(f)}
       IN  Decide([op |-> "restore", folders |-> RestoredFolders(back, backFiles),
                   files |-> backFiles])

Restore(w) ==
    /\ w.op = "restore" /\ Done(w)
    /\ folder' = [d \in Folders |-> IF d \in w.folders \cap Rows
                                      THEN [folder[d] EXCEPT !.state = "live"] ELSE folder[d]]
    /\ file' = [f \in Files |-> IF f \in w.files \cap FileRows
                                  THEN [file[f] EXCEPT !.state = "live"] ELSE file[f]]

\* Items an empty-trash or a sweep is after, by their state.
Due(sweep) == IF sweep THEN {"expired"} ELSE {"trashed", "expired"}

\* A file in a live folder waits: its folder was restored around it.
PurgedFiles(sweep) ==
    {f \in FileRows : /\ file[f].state \in Due(sweep)
                      /\ file[f].parent \notin Live}

Candidates(sweep) == {d \in Rows : folder[d].state \in Due(sweep)}

HoldsFile(sweep, gone) == {d \in Candidates(sweep) : \E f \in FileRows \ gone : file[f].parent = d}

\* Mutation: folders below that are to stay do not matter.
DeletableBlind(sweep) == Candidates(sweep) \ HoldsFile(sweep, PurgedFiles(sweep))

\* deletableFolderIds: candidates that hold no surviving file and have no
\* survivor, nor a candidate that holds one, below them by path.
Deletable(sweep) ==
    LET holding == HoldsFile(sweep, PurgedFiles(sweep))
    IN  {d \in Candidates(sweep) \ holding :
           \A e \in (Rows \ Candidates(sweep)) \cup holding :
              ~Under(folder[d].path, folder[e].path)}

\* POST /trash/empty, and the folder half of purgeExpiredTrash.
DecidePurge(sweep) ==
    /\ PurgedFiles(sweep) \cup Deletable(sweep) # {}
    /\ Decide([op |-> "purge", files |-> PurgedFiles(sweep), folders |-> Deletable(sweep)])

\* DELETE /trash/file/:id.
DecideDeleteFile(f) ==
    /\ f \in FileRows \ LiveFiles
    /\ Decide([op |-> "purge", files |-> {f}, folders |-> {}])

\* Deleting a folder row takes its subtree with it (onDelete: Cascade) and
\* moves the files that stay to the top folder (onDelete: SetNull).
Purge(w) ==
    /\ w.op = "purge" /\ Done(w)
    /\ LET gone == Subtree(w.folders \cap Rows)
       IN  /\ folder' = [d \in Folders |-> IF d \in gone THEN None ELSE folder[d]]
           /\ file' = [f \in Files |->
                         IF f \in w.files \/ f \notin FileRows THEN None
                         ELSE IF file[f].parent \in gone THEN [file[f] EXCEPT !.parent = Root]
                         ELSE file[f]]

\* The retention window passes for everything now in the trash.
Expire ==
    /\ todo = {}
    /\ \/ \E d \in Rows : folder[d].state = "trashed"
       \/ \E f \in FileRows : file[f].state = "trashed"
    /\ folder' = [d \in Folders |-> IF d \in Rows /\ folder[d].state = "trashed"
                                      THEN [folder[d] EXCEPT !.state = "expired"] ELSE folder[d]]
    /\ file' = [f \in Files |-> IF f \in FileRows /\ file[f].state = "trashed"
                                  THEN [file[f] EXCEPT !.state = "expired"] ELSE file[f]]
    /\ UNCHANGED <<todo, habits>>

Decision ==
    \/ \E d \in Folders :
         \/ \E p \in Parents, name \in Names : DecideMake(d, p, name) \/ DecideMove(d, p, name)
         \/ DecideTrash(d)
    \/ \E f \in Files :
         \/ \E p \in Parents, name \in Names : DecideAdd(f, p, name) \/ DecideMoveFile(f, p, name)
         \/ DecideTrashFile(f) \/ DecideDeleteFile(f)
    \/ \E ds \in SUBSET Folders, fs \in SUBSET Files : DecideRestore(ds, fs)
    \/ \E sweep \in BOOLEAN : DecidePurge(sweep)

Write ==
    \E w \in todo : Make(w) \/ Move(w) \/ Trash(w) \/ Add(w) \/ MoveFile(w)
                    \/ TrashFile(w) \/ Restore(w) \/ Purge(w)

Next == Decision \/ Write \/ Expire

Spec == Init /\ [][Next]_vars

-----------------------------------------------------------------------------
(* Properties *)

\* No two live folders share a path, which WebDAV, grants and every prefix query
\* take for the folder; and no live file has the name of a live folder beside it,
\* which would shadow it for every WebDAV verb.
OneOfAName ==
    /\ \A d, e \in Live : folder[d].path = folder[e].path => d = e
    /\ \A f \in LiveFiles : ~FolderClash(file[f].parent, file[f].name)

\* The path of a live folder is that of its parent and its own name, so prefix
\* queries and parent links agree about what lies below it.
PathMatchesParent ==
    \A d \in Live :
        /\ folder[d].parent \in Rows \cup {Root}
        /\ folder[d].path = Join(folder[d].parent, folder[d].name)

\* What is live is reachable: no live folder or file sits in a trashed folder,
\* where neither the listing nor the trash would show it.
Reachable ==
    /\ \A d \in Live : folder[d].parent \in Live \cup {Root}
    /\ \A f \in LiveFiles : file[f].parent \in Live \cup {Root}

\* The live tree is a tree, whether one follows paths or parent links.
TreeSound == PathMatchesParent /\ Reachable

\* Whatever the tree looks like, deleting what deletableFolderIds returns takes
\* no folder that is to stay, by the cascade along the parent links, and moves
\* no file that is to stay.
DeletableIsSafe ==
    \A sweep \in BOOLEAN :
        LET gone == Subtree(Deletable(sweep))
        IN  /\ gone \subseteq Candidates(sweep)
            /\ \A f \in FileRows : file[f].parent \in gone => f \in PurgedFiles(sweep)
=============================================================================
