----------------------------- MODULE ShareLinks -----------------------------
(***************************************************************************)
(* Public share links (shares.routes.js): anonymous downloads against a    *)
(* download limit and anonymous drop-box uploads against a file limit and  *)
(* the owner's quota, while the owner trashes, restores, extends, revokes. *)
(* One action per statement between which other requests run.              *)
(***************************************************************************)
EXTENDS Integers, FiniteSets

CONSTANTS
    Links,        \* share links
    Loads,        \* download requests
    Drops,        \* drop-box upload requests
    Caps,         \* download limits an owner picks, NoCap among them or not
    NoCap,        \* maxDownloads is null
    MaxUploads,   \* dropboxMaxUploadsPerShare, 0 = unlimited
    Quota,        \* the owner's quota
    DropSize,         \* the size of a dropped file
    NoFile

ASSUME LinkAssumption ==
    /\ Caps \subseteq Nat \cup {NoCap} /\ NoCap \notin Nat /\ NoFile \notin Nat
    /\ {MaxUploads, Quota, DropSize} \subseteq Nat /\ DropSize > 0
    /\ IsFiniteSet(Loads) /\ IsFiniteSet(Drops)

VARIABLES
    share,    \* Share rows
    live,     \* the shared file and folder: not in the trash
    load,     \* progress of each download
    drop,     \* progress of each upload
    used,     \* User.usedBytes of the owner
    other,    \* bytes of the owner's other files
    stored,   \* objects in MinIO, by the upload that put them
    lapsed    \* history: what a refused upload took and its undo did not give back

shareVars == <<share, live, load, drop, used, other, stored, lapsed>>

Kinds == {"file", "folder"}
Share == [kind : Kinds, cap : Nat \cup {NoCap}, downloads : Nat, uploads : Nat, expired : BOOLEAN]
\* Where a request stands.  seen is what it uses later of the Share row it read,
\* full meaning that the count had reached its limit; since says whether the
\* target was out of the trash at any time since it began.
LoadPcs == {"idle", "read", "authorized", "served", "refused"}
DropPcs == {"idle", "read", "checked", "claimed", "found", "named", "reserved", "put", "created",
            "owesBytes", "owesSlot", "owesNothing", "refused"}
Lapses == Drops \X {"slot", "bytes", "object"}
Seen == [kind : Kinds, cap : Nat \cup {NoCap}, full : BOOLEAN, expired : BOOLEAN]
Request(pcs) == [pc : pcs, link : Links \cup {NoFile}, seen : Seen \cup {NoFile}, since : BOOLEAN]
Idle == [pc |-> "idle", link |-> NoFile, seen |-> NoFile, since |-> FALSE]

ASSUME RowAssumption == NoFile \notin Share \cup Seen

ShareInit ==
    /\ share = [l \in Links |-> NoFile]
    /\ live = [k \in Kinds |-> TRUE]
    /\ load = [r \in Loads |-> Idle]
    /\ drop = [r \in Drops |-> Idle]
    /\ used = 0 /\ other = 0 /\ stored = {} /\ lapsed = {}

-----------------------------------------------------------------------------
(* The owner *)

Untouched == UNCHANGED <<load, drop, used, other, stored, lapsed>>

\* POST /shares: on what is live.
CreateShare(l, kind, cap) ==
    /\ share[l] = NoFile
    /\ \A r \in Loads : load[r].link # l
    /\ \A r \in Drops : drop[r].link # l
    /\ live[kind]
    /\ share' = [share EXCEPT ![l] = [kind |-> kind, cap |-> cap, downloads |-> 0,
                                      uploads |-> 0, expired |-> FALSE]]
    /\ UNCHANGED live /\ Untouched

\* The expiry passes, or PATCH /shares/:id extends it.
Expiry(l) ==
    /\ share[l] # NoFile
    /\ share' = [share EXCEPT ![l].expired = ~@]
    /\ UNCHANGED live /\ Untouched

\* DELETE /shares/:id
Revoke(l) ==
    /\ share[l] # NoFile
    /\ share' = [share EXCEPT ![l] = NoFile]
    /\ UNCHANGED live /\ Untouched

\* The target is trashed or restored; requests under way remember having seen it.
Toggle(kind) ==
    /\ live' = [live EXCEPT ![kind] = ~@]
    /\ load' = [r \in Loads |->
                  IF load[r].seen # NoFile /\ load[r].seen.kind = kind
                    THEN [load[r] EXCEPT !.since = TRUE] ELSE load[r]]
    /\ drop' = [r \in Drops |->
                  IF drop[r].seen # NoFile /\ kind = "folder"
                    THEN [drop[r] EXCEPT !.since = TRUE] ELSE drop[r]]
    /\ UNCHANGED <<share, used, other, stored, lapsed>>

\* The owner stores or deletes another file.
OwnFile ==
    /\ \/ other = 0 /\ used + DropSize <= Quota /\ other' = DropSize /\ used' = used + DropSize
       \/ other > 0 /\ other' = 0 /\ used' = used - other
    /\ UNCHANGED <<share, live, load, drop, stored, lapsed>>

-----------------------------------------------------------------------------
(* POST /public/:token/download *)

LoadTo(r, pc) == load' = [load EXCEPT ![r].pc = pc]
LoadOnly == UNCHANGED <<live, drop, used, other, stored, lapsed>>

LoadRead(r, l) ==
    /\ load[r].pc = "idle" /\ share[l] # NoFile
    /\ LET s == share[l]
       IN  load' = [load EXCEPT ![r] =
                      [pc |-> "read", link |-> l, since |-> live[s.kind],
                       seen |-> [kind |-> s.kind, cap |-> s.cap, expired |-> s.expired,
                                 full |-> s.cap # NoCap /\ s.downloads >= s.cap]]]
    /\ UNCHANGED share /\ LoadOnly

\* Mutation: nobody looks whether the target is in the trash.
LoadAuthorizeAnyway(r) ==
    /\ load[r].pc = "read"
    /\ LET seen == load[r].seen
           open == ~seen.expired /\ ~seen.full
       IN  \/ open /\ LoadTo(r, "authorized")
           \/ LoadTo(r, "refused")
    /\ UNCHANGED share /\ LoadOnly

\* authorizeShare: the target, the expiry and the limit of the row that was read,
\* then the password, which the caller may get wrong.
LoadAuthorize(r) ==
    /\ load[r].pc = "read"
    /\ LET seen == load[r].seen
           open == live[seen.kind] /\ ~seen.expired /\ ~seen.full
       IN  \/ open /\ LoadTo(r, "authorized")
           \/ LoadTo(r, "refused")
    /\ UNCHANGED share /\ LoadOnly

\* claimDownload: one conditional update, then bytes flow.  Without a limit the
\* update may find no row.
LoadClaim(r) ==
    LET l == load[r].link
        row == share[l]
    IN  /\ load[r].pc = "authorized"
        /\ IF load[r].seen.cap = NoCap \/ (row # NoFile /\ row.downloads < load[r].seen.cap)
             THEN /\ LoadTo(r, "served")
                  /\ share' = IF row = NoFile THEN share ELSE [share EXCEPT ![l].downloads = @ + 1]
             ELSE LoadTo(r, "refused") /\ UNCHANGED share
        /\ LoadOnly

-----------------------------------------------------------------------------
(* POST /public/:token/upload *)

DropTo(r, pc) == drop' = [drop EXCEPT ![r].pc = pc]
DropOnly == UNCHANGED <<live, load, other>>
\* What r took stays taken: nobody gives it back.
Lapse(r, what) == lapsed' = lapsed \cup ({r} \X what)

\* The link must be a drop-box: a folder's.
DropRead(r, l) ==
    /\ drop[r].pc = "idle" /\ share[l] # NoFile /\ share[l].kind = "folder"
    /\ LET s == share[l]
       IN  drop' = [drop EXCEPT ![r] =
                      [pc |-> "read", link |-> l, since |-> live["folder"],
                       seen |-> [kind |-> "folder", cap |-> NoCap, expired |-> s.expired,
                                 full |-> MaxUploads > 0 /\ s.uploads >= MaxUploads]]]
    /\ UNCHANGED <<share, used, stored, lapsed>> /\ DropOnly

\* The folder, the expiry, the password, the size.
DropCheck(r) ==
    /\ drop[r].pc = "read"
    /\ \/ live["folder"] /\ ~drop[r].seen.expired /\ DropTo(r, "checked")
       \/ DropTo(r, "refused")
    /\ UNCHANGED <<share, used, stored, lapsed>> /\ DropOnly

\* Mutation: the count read with the row decides, and a plain increment counts.
DropClaimStale(r) ==
    /\ drop[r].pc = "checked"
    /\ IF ~drop[r].seen.full
         THEN /\ DropTo(r, "claimed")
              /\ share' = IF share[drop[r].link] = NoFile THEN share
                          ELSE [share EXCEPT ![drop[r].link].uploads = @ + 1]
         ELSE DropTo(r, "refused") /\ UNCHANGED share
    /\ UNCHANGED <<used, stored, lapsed>> /\ DropOnly

\* The conditional update that takes one of the link's uploads.
DropClaim(r) ==
    LET l == drop[r].link
    IN  /\ drop[r].pc = "checked"
        /\ \/ MaxUploads = 0 /\ DropTo(r, "claimed") /\ UNCHANGED share
           \/ /\ MaxUploads > 0 /\ share[l] # NoFile /\ share[l].uploads < MaxUploads
              /\ DropTo(r, "claimed") /\ share' = [share EXCEPT ![l].uploads = @ + 1]
           \/ DropTo(r, "refused") /\ UNCHANGED share
        /\ UNCHANGED <<used, stored, lapsed>> /\ DropOnly

\* The folder is looked up again; that the look-up fails is caught.
DropFolder(r) ==
    /\ drop[r].pc = "claimed"
    /\ \/ live["folder"] /\ DropTo(r, "found")
       \/ DropTo(r, "owesSlot")
    /\ UNCHANGED <<share, used, stored, lapsed>> /\ DropOnly

\* The name, and whether a subfolder has it.  Nothing catches a failure of that
\* last query: the slot stays taken.
DropName(r) ==
    /\ drop[r].pc = "found"
    /\ \/ \E pc \in {"named", "owesSlot"} : DropTo(r, pc) /\ UNCHANGED lapsed
       \/ DropTo(r, "refused") /\ Lapse(r, {"slot"})
    /\ UNCHANGED <<share, used, stored>> /\ DropOnly

\* reserveQuota, which may fail as well as refuse.
DropReserve(r) ==
    /\ drop[r].pc = "named"
    /\ \/ used + DropSize <= Quota /\ DropTo(r, "reserved") /\ used' = used + DropSize
       \/ DropTo(r, "owesSlot") /\ UNCHANGED used
    /\ UNCHANGED <<share, stored, lapsed>> /\ DropOnly

\* putObjectStream, or its failure.
DropPut(r) ==
    /\ drop[r].pc = "reserved"
    /\ \/ DropTo(r, "put") /\ stored' = stored \cup {r}
       \/ DropTo(r, "owesBytes") /\ UNCHANGED stored
    /\ UNCHANGED <<share, used, lapsed>> /\ DropOnly

\* file.create with its version, or its failure.
DropCreate(r) ==
    /\ drop[r].pc = "put"
    /\ DropTo(r, "created") \/ DropTo(r, "owesBytes")
    /\ UNCHANGED <<share, used, stored, lapsed>> /\ DropOnly

\* Mutation: the bytes stay reserved.
DropReleaseNothing(r) ==
    /\ drop[r].pc = "owesBytes"
    /\ DropTo(r, "owesSlot")
    /\ UNCHANGED <<share, used, stored, lapsed>> /\ DropOnly

\* releaseQuota.  Its failure leaves the handler: the rest of the undo never runs.
DropRelease(r) ==
    /\ drop[r].pc = "owesBytes"
    /\ \/ /\ DropTo(r, "owesSlot") /\ UNCHANGED lapsed
          /\ used' = IF used >= DropSize THEN used - DropSize ELSE 0
       \/ /\ DropTo(r, "refused") /\ UNCHANGED used
          /\ Lapse(r, {"slot", "bytes"} \cup IF r \in stored THEN {"object"} ELSE {})
    /\ UNCHANGED <<share, stored>> /\ DropOnly

\* releaseSlot: a decrement that stops at zero and may find no row; that it fails
\* is swallowed.
DropGiveBack(r) ==
    LET l == drop[r].link
    IN  /\ drop[r].pc = "owesSlot"
        /\ DropTo(r, IF r \in stored THEN "owesNothing" ELSE "refused")
        /\ \/ /\ share' = IF MaxUploads > 0 /\ share[l] # NoFile /\ share[l].uploads > 0
                             THEN [share EXCEPT ![l].uploads = @ - 1] ELSE share
              /\ UNCHANGED lapsed
           \/ Lapse(r, {"slot"}) /\ UNCHANGED share
        /\ UNCHANGED <<used, stored>> /\ DropOnly

\* removeObject, whose failure is swallowed too.
DropRemove(r) ==
    /\ drop[r].pc = "owesNothing" /\ DropTo(r, "refused")
    /\ \/ stored' = stored \ {r} /\ UNCHANGED lapsed
       \/ Lapse(r, {"object"}) /\ UNCHANGED stored
    /\ UNCHANGED <<share, used>> /\ DropOnly

DropStep(r) ==
    \/ DropCheck(r) \/ DropClaim(r) \/ DropFolder(r) \/ DropName(r) \/ DropReserve(r) \/ DropPut(r)
    \/ DropCreate(r) \/ DropRelease(r) \/ DropGiveBack(r) \/ DropRemove(r)

LoadStep(r) == LoadAuthorize(r) \/ LoadClaim(r)

OwnerStep ==
    \/ \E l \in Links :
         \/ \E kind \in Kinds, cap \in Caps : CreateShare(l, kind, cap)
         \/ Expiry(l) \/ Revoke(l)
    \/ \E kind \in Kinds : Toggle(kind)
    \/ OwnFile

Downloads == \E r \in Loads : LoadStep(r) \/ \E l \in Links : LoadRead(r, l)
Uploads == \E r \in Drops : DropStep(r) \/ \E l \in Links : DropRead(r, l)

ShareNext == OwnerStep \/ Downloads \/ Uploads

ShareSpec == ShareInit /\ [][ShareNext]_shareVars

-----------------------------------------------------------------------------
(* Properties *)

\* Every variable has its type.
SharesTypeOK ==
    /\ share \in [Links -> Share \cup {NoFile}]
    /\ live \in [Kinds -> BOOLEAN]
    /\ load \in [Loads -> Request(LoadPcs)]
    /\ drop \in [Drops -> Request(DropPcs)]
    /\ {used, other} \subseteq 0 .. Quota
    /\ stored \subseteq Drops /\ lapsed \subseteq Lapses

\* A link with a limit serves no more downloads than that, however many arrive
\* together.
Served(l) == {r \in Loads : load[r].pc = "served" /\ load[r].link = l}
DownloadLimit ==
    \A l \in Links, r \in Loads :
        r \in Served(l) /\ load[r].seen.cap # NoCap
          => Cardinality(Served(l)) <= load[r].seen.cap

\* Uploads that hold one of the link's slots: taken or under way, or refused and not
\* given back.
Holders(l) ==
    {r \in Drops : /\ drop[r].link = l
                   /\ \/ drop[r].pc \in {"claimed", "found", "named", "reserved", "put",
                                          "created", "owesBytes", "owesSlot"}
                      \/ <<r, "slot">> \in lapsed}

\* The link's count is the uploads it took, those under way and those whose slot an
\* undo that failed or never ran left taken: no other refused or failed upload costs
\* it anything, and no more files arrive than it allows.
SlotsExact ==
    MaxUploads > 0 =>
      \A l \in Links :
        /\ share[l] # NoFile => share[l].uploads = Cardinality(Holders(l))
        /\ Cardinality(Holders(l)) <= MaxUploads

\* The limits of a link hold, of its downloads and of its uploads.
LimitsKept == DownloadLimit /\ SlotsExact

\* Uploads the owner pays for.
Paid == {r \in Drops : \/ drop[r].pc \in {"reserved", "put", "created", "owesBytes"}
                       \/ <<r, "bytes">> \in lapsed}

\* The owner pays for exactly what is stored or being stored, never for more than
\* the quota; an object in MinIO has a file, or an upload that will make or remove
\* it.  Excepted are refused uploads whose undo failed or never ran, each by name.
BooksExact ==
    /\ used <= Quota
    /\ used = other + DropSize * Cardinality(Paid)
    /\ \A r \in stored : drop[r].pc # "refused" \/ <<r, "object">> \in lapsed

\* Trashing un-shares: what was in the trash when a request began and stayed
\* there is neither served nor added to.
TrashUnshares ==
    /\ \A r \in Loads : load[r].pc = "served" => load[r].since
    /\ \A r \in Drops : drop[r].pc = "created" => drop[r].since
=============================================================================
