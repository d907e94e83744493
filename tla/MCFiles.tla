------------------------------ MODULE MCFiles ------------------------------
(* MediaJobs for TLC: which request may name which file, and which come     *)
(* together.                                                               *)
EXTENDS MediaJobs, TLC

CONSTANTS f1, f2, m1, u1, u2, u3, s1, s2, o1, h1, h2, e1, w1, x1, x2, n1, n2, n3, n4, v1, v3

\* Writers of versions with each other; an overwrite, an empty-trash, a sweep
\* alone; hard deletes with each other; new files with each other; two
\* optimize requests, or a new version, of one video; a video imported: each while files
\* are trashed and restored.
PassingWorkloads ==
    {{u1, u2, s1}, {u1, s1, s2}, {o1}, {h1, h2}, {e1}, {w1},
     {n1, n2}, {n1, n4}, {n3}, {x1, x2}, {u3}}

\* A version of a video is uploaded while its renditions are being made.
StaleWorkload == {{x1, u3}}

\* Writers meet in one file, an overwrite is of a video, purges name any old file
\* but that.
Names ==
    [r \in Writers \cup Purges \cup Remuxes |->
        IF r \in {u3, o1} \cup Remuxes THEN {m1} ELSE IF r \in Writers THEN {f1} ELSE {f1, f2}]

Kinds == n1 :> "upload" @@ n2 :> "url" @@ n3 :> "import" @@ n4 :> "dav" @@ v1 :> "vtt" @@ v3 :> "vtt"
Subtitled == m1 :> v1 @@ n3 :> v3

History2 == <<1, 2>>
=============================================================================
