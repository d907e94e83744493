---------------------------- MODULE AccessGrants ----------------------------
(***************************************************************************)
(* Internal sharing over the folder tree: grants on folders and files to a *)
(* user or a group, group membership, and the level of access that         *)
(* fileAccessLevel and folderAccessLevel compute from the denormalised     *)
(* paths.  A second owner has folders of his own, at paths the first owner *)
(* may use too: Abroad stands for them.                                    *)
(***************************************************************************)
EXTENDS FolderTree

CONSTANTS
    Guests,         \* users who are neither owner
    Team,           \* a group
    Abroad,         \* the top folders of the other owner, one of every name
    Permissions,    \* what a grant may say: some of "view" and "edit"
    MaxGrants       \* bound: grants at one time

\* Grants are given in the behaviours whose owner has this habit.
ASSUME AccessAssumption ==
    /\ Team \notin Guests /\ Permissions \subseteq {"view", "edit"} /\ MaxGrants \in Nat
    /\ Abroad \notin Folders \cup Files \cup {Root, None}

VARIABLES
    grants,   \* FolderGrant and FileGrant rows
    members   \* GroupMember rows of Team

accessVars == <<vars, grants, members>>

Grantees == Guests \cup {Team}
Grant == [on : Folders \cup Files \cup {Abroad}, to : Grantees, permission : Permissions]

AccessInit == Init /\ grants = {} /\ members = {}

Exists(x) == x \in Rows \cup FileRows \cup {Abroad}

-----------------------------------------------------------------------------
(* access.service.js *)

\* granteeWhere over userGroupIds
GrantsOf(u) == {g \in grants : g.to = u \/ (g.to = Team /\ u \in members)}

\* Paths of what a grant is on.
GrantPaths(x) == IF x = Abroad THEN {<<name>> : name \in Names} ELSE {folder[x].path}

\* Mutation: paths are compared without the owner.
CoversAnyOwner(x, d) ==
    \E path \in GrantPaths(x) : path = folder[d].path \/ Under(path, folder[d].path)

\* grantCoversFolder: does a grant on x reach the owner's folder d?
Covers(x, d) ==
    /\ x # Abroad
    /\ \E path \in GrantPaths(x) : path = folder[d].path \/ Under(path, folder[d].path)

OnFolder(g) == g.on \in Folders \cup {Abroad}
GrantLive(g) == g.on = Abroad \/ g.on \in Live

\* The folder grants that reach folder d.
ReachingFolder(u, d) == {g \in GrantsOf(u) : OnFolder(g) /\ GrantLive(g) /\ Covers(g.on, d)}

\* The strongest permission among some grants.
Strongest(gs) ==
    IF \E g \in gs : g.permission = "edit" THEN "edit"
    ELSE IF gs # {} THEN "view" ELSE None

\* fileAccessLevel of a guest.
FileLevel(u, f) ==
    IF file[f].state # "live" THEN None
    ELSE Strongest({g \in GrantsOf(u) : g.on = f}
                   \cup IF file[f].parent = Root THEN {} ELSE ReachingFolder(u, file[f].parent))

\* folderAccessLevel of a guest.
FolderLevel(u, d) ==
    IF folder[d].state # "live" THEN None ELSE Strongest(ReachingFolder(u, d))

-----------------------------------------------------------------------------
(* grants.routes.js, groups.routes.js *)

Sharing == "share" \in habits

\* POST /grants: an upsert per resource and grantee, on what is live.
GiveGrant(x, to, permission) ==
    /\ Sharing
    /\ x = Abroad \/ x \in Live \cup LiveFiles
    /\ LET kept == {g \in grants : ~(g.on = x /\ g.to = to)}
       IN  /\ Cardinality(kept) < MaxGrants
           /\ grants' = kept \cup {[on |-> x, to |-> to, permission |-> permission]}
    /\ UNCHANGED <<vars, members>>

\* DELETE /grants/file/:id, /grants/folder/:id.
RevokeGrant(g) ==
    /\ grants' = grants \ {g}
    /\ UNCHANGED <<vars, members>>

\* POST and DELETE /groups/:id/members.
AddMember(u) ==
    /\ Sharing /\ u \notin members
    /\ members' = members \cup {u}
    /\ UNCHANGED <<vars, grants>>

RemoveMember(u) ==
    /\ u \in members
    /\ members' = members \ {u}
    /\ UNCHANGED <<vars, grants>>

\* DELETE /groups/:id takes memberships and grants with it.
DeleteGroup ==
    /\ members # {} \/ \E g \in grants : g.to = Team
    /\ members' = {}
    /\ grants' = {g \in grants : g.to # Team}
    /\ UNCHANGED vars

\* A deleted folder or file takes its grants with it (onDelete: Cascade).
TreeStep ==
    /\ Next
    /\ grants' = {g \in grants : g.on = Abroad \/ (g.on \in Folders /\ folder'[g.on] # None)
                                 \/ (g.on \in Files /\ file'[g.on] # None)}
    /\ UNCHANGED members

AccessNext ==
    \/ TreeStep
    \/ \E x \in Folders \cup Files \cup {Abroad}, to \in Grantees, permission \in Permissions :
         GiveGrant(x, to, permission)
    \/ \E g \in grants : RevokeGrant(g)
    \/ \E u \in Guests : AddMember(u) \/ RemoveMember(u)
    \/ DeleteGroup

AccessSpec == AccessInit /\ [][AccessNext]_accessVars

-----------------------------------------------------------------------------
(* Properties *)

\* Every grant has its type and names a row that exists, at most one per
\* resource and grantee.
AccessTypeOK ==
    /\ grants \subseteq Grant /\ members \subseteq Guests
    /\ \A g \in grants : Exists(g.on)
    /\ \A g, h \in grants : g.on = h.on /\ g.to = h.to => g = h

\* Where the tree itself puts an item: the folders on the way up, by parent
\* link, and the grants given on them or on the item.
GrantsAbove(u, x, p) == {g \in GrantsOf(u) : g.on = x \/ g.on \in Up(p)}

\* The level computed from paths is the one the tree gives: a grant reaches what
\* lies below its folder and nothing else, whatever was renamed, moved, trashed
\* and named again, and whoever else has a folder of that path; and trashing
\* un-shares, so nothing in the trash or below it is within reach of a guest.
LevelFollowsTree ==
    \A u \in Guests :
        /\ \A f \in FileRows :
             FileLevel(u, f) = IF file[f].state # "live" \/ TrashedUp(file[f].parent) # {} THEN None
                               ELSE Strongest(GrantsAbove(u, f, file[f].parent))
        /\ \A d \in Rows :
             FolderLevel(u, d) = IF TrashedUp(d) # {} THEN None
                                 ELSE Strongest(GrantsAbove(u, d, folder[d].parent))
=============================================================================
