# Verification of uploadfile

TLA+ models, TLC runs and TLAPS proofs about *uploadfile*: the backend
(Node/Express, Prisma, MinIO) and the parts of the React client that keep state
of their own. `PROJECT.json` lists components, runs, findings, hazards and
theorems, and maps every definition to the lines it models.

Why a model checker: nearly every bug the repository's README tells of under
"Security" and "Data integrity" was a race between two requests. The backend keeps
its state in database rows and MinIO objects, each SQL statement and each MinIO
call is atomic, and *between* two of them any other request may run. There are
no long transactions: the code defends itself with conditional updates
(`updateMany` with the value it read in the `where`) and retry loops. Unit tests
run one request at a time; the models here run all interleavings.

## The system

| Component | State it keeps | Operations | What is hard | What makes it correct |
|---|---|---|---|---|
| quota accounting (`services/quota.service.js`) | `User.usedBytes`, `User.quotaBytes` | reserve, release/refund, charge, read-only check | quota read before a conditional write; refunds larger than the balance; retries under contention | each call acts once, whole; never above the quota by reservations; floor at zero erases nobody's bytes |
| chunked upload (`routes/upload.routes.js`, `storage.service.js`) | `UploadSession` rows, MinIO multipart uploads and objects, `File` rows | init, part, complete, delete | repeated completes, parallel parts, replace, delete during complete, failures after the reservation | one file per session, nothing acknowledged is lost, books balanced, objects present |
| file versions and trash (`files.routes.js`, `trash.routes.js`, `retention.service.js`) | `File.trashedAt`, `currentVersion`, `FileVersion` rows | version upload, collaborative save, soft/hard delete, restore, empty, sweep | version numbers from stale reads, two deletes refunding one file, restore against a sweep | version numbers unique and current, bytes refunded once |
| single-request uploads (`files.routes.js`, `webdav.routes.js`, `transcribe.service.js`) | `File` rows | upload, from URL, video import, WebDAV PUT, subtitles | failure after the reservation, a folder trashed meanwhile | reserve, store, create or release |
| background media work (`video`, `hls`, `transcribe`, `thumbnail` services) | one-at-a-time queues, `hlsReady`, thumbnail and checksum columns | remux, transcode, transcript, poster, checksum | works on a row read when the job was taken | what is shown was made from the content the file has; a failing job holds up no queue |
| folder tree (`folders.routes.js`, `utils/foldercascade.js`, `utils/namecollision.js`) | `Folder.path`, `parentId`, `trashedAt` | create, rename/move, trash, restore | cascades by path prefix, batches, trashed namesakes | one live item per path, nothing live below trash, no live file deleted |
| WebDAV (`webdav.routes.js`) | same rows | PUT, MKCOL, DELETE, MOVE | same races from another entry | same |
| shares and drop-box (`shares.routes.js`) | `downloads`, `uploads` counters | authorize, download, anonymous upload | counters at their limit, partial failures | limits hold, failures give back what they took |
| accounts, tokens, sessions (`auth`, `users`, `keys` routes, `totp`, `session` services, `middleware/auth.js`) | tokens, sessions, API keys, recovery codes, roles | register, verify, login, 2FA, reset, revoke, demote | one-time credentials used twice; login during a reset; two demotions | spent once; a reset cuts everything older; an admin remains |
| access control (`access.service.js`, grants, groups) | grants, memberships | level of a user on a file or folder | prefix matching, owners, trash | a grant reaches what it names and no more |
| presence (`realtime/presence.js`, `bus.js`) | rooms of sockets | join, leave, close | permission check awaited between leave and join | everyone is shown who is there |
| game rooms and engines (`realtime/games.js`, `services/games/*`) | rooms, queues, timers, boards | create, join, match, move, rematch, leave; rules and bots | late timers, capacity, leaving mid-game, ends of a game | seats and sockets agree, a loop runs exactly while a ticking game is live, a due bot has a timer, the result is the board's |
| single-player game (`components/games/rpg/`) | a run, the best score in localStorage | fight, level up, die, restart | two timers in one frame, what is stored when | a victory is kept |
| collaborative editing (`CollabEditor.jsx`, `realtime/collab.js`) | texts of the open editors, the relay's document, version rows | type, autosave, closing save, reconnect | one leader saves for all; tabs die; saves fail | no edit is lost unreported |
| upload client (`frontend/src/api/upload.js`, `lib/outbox.js`, `Uploader.jsx`) | offline outbox, sessions to resume | resume, retry, flush | retries of what already succeeded | each file is uploaded once |

Interactions: every upload, save and delete goes through quota accounting (calls);
uploads, trash, folders and WebDAV share the `File`, `FileVersion` and `Folder`
rows (shared state); a new content starts background work that later writes to the
row (queues); everything runs in the one Node process next to timers (the
retention sweep, the video queue, bot moves) and is delivered to browsers through
the presence bus (callbacks); the upload client drives the chunked upload over a
network that loses requests and answers.

The repository's README says that the games are switched off (`README.md:299`, `:392`):
`server.js:8` and `:25` have the import and the call of `attachGames()` commented out.
`GameRooms` and the engines model the code as it stands in `realtime/games.js` and
`services/games/`, as it would run once attached.

Not modelled: websocket authentication (a read-only check of a token);
notifications, mail, push and the audit trail (appended and never read back by
what is modelled); search, listing and streaming (read-only); request plumbing;
the React views other than the ones named above.

## Modules

| Module | Models | State and actions |
|---|---|---|
| `Accounting` | `netCost`, the effect of a refund, the quota bound | operators shared by all |
| `QuotaLedger` | what the quota service promises | abstract: each pending call takes effect in one step (`Reserve`, `Refuse`, `Refund`, `Charge`) or is lost (`Lose`) |
| `Quota` | `quota.service.js`, one action per SQL statement | `used`, `quota` are the owner's columns; `pc`, `amount`, `limit`, `seen`, `attempt` the locals of each call; `inForce`, `peak`, `charged` are history. `ReadQuota`/`TryReserve` = reserveQuota; `TryRefund`, `Reread`, `RefundAgain`, `Clear` = subUsage; `Charge` = addUsage; `Abandon` = a failing statement or a restart; `SetQuota` = the administrator's PATCH |
| `ChunkedUpload` | `upload.routes.js`, one action per SQL statement or MinIO call | `session` = UploadSession rows, `mpu`/`object` = MinIO, `file` = File rows, `put`/`comp`/`del` = progress of each request |
| `MCUpload` | `ChunkedUpload` for TLC | named sessions and the symmetry of requests |
| `CollabEditor` | the editor, its autosave and closing save, the relay | `doc`, `lastSaved`, `timer`, `saving` of each editor; `room`, `seed` of the relay; `current`, `kept` of the file. `Autosave` is the leader's, `Closes`/`Dies`/`Disconnects` the ways to go, `SaveServed`/`SaveRefused` the answers |
| `MCKept` | `ChunkedUpload` and `CollabEditor` for TLC | they share no variable: a behaviour follows one of them |
| `FileVersions` | version upload, collaborative save, WebDAV overwrite, trash, restore, hard delete, empty trash, retention sweep | `file` = File rows with their FileVersion rows, `object` = MinIO, `used` = the balance; `write`, `purge` = progress of each request. `UploadCreate`/`UploadPoint` are the two statements of POST /versions, `SaveFresh`/`SaveCommit` the retry loop of collab-save, `OverwriteCollapse`/`OverwriteSettle` the transaction of PUT and what follows; every purge lists rows, strips objects, drops rows, refunds. A removal of objects (`Removes`) is best effort and may leave any of them; `left` is history: the objects that a failed removal, or nobody, took away |
| `NewFiles` | files that come to be: upload, from URL, import, WebDAV, subtitles | extends `FileVersions`; `intake` = progress of each, `folder` = whether the folder they go into is live; `Reserves`, `Stores`, `Creates`, `Undoes` are the statements they share; an undo releases and tries to remove what was put |
| `MediaJobs` | remux, the two workers, posters and checksums | extends `NewFiles`; `queue`/`job` = the workers, `remux` = POST /optimize (`RemuxStart` with its poster backfill, `RemuxFetch`, `RemuxPut`, `RemuxUpdate`, `RemuxCharge`), `rendition`, `ready`, `derived` = what was made and from which content |
| `MCFiles` | `MediaJobs` for TLC | which requests come together, and about which file |
| `FolderTree` | folders and the names in them: create, rename, move, trash, restore, purge | `folder`, `file` = rows, a path is the sequence of its names; every request is two steps, `Decide...` (what it reads) and the write in `todo` |
| `AccessGrants` | grants, groups, `levelForFile`/`levelForFolder` | extends `FolderTree`; `grants`, `members` |
| `ShareLinks` | a public link: downloads and drop-box uploads statement by statement | `share` = the row, `load`/`drop` = the requests, `used` and `stored` = the owner's balance and MinIO. `DropName` = the look-up that may throw before the `try` of the handler; `lapsed` is history: what the undo of a refused upload failed to give back (`"slot"`, `"bytes"`, `"object"`) |
| `Presence` | `presence.js` and the push bus | `socket`, `viewing`, `checking` (a join awaiting its permission check), `shown` = what each browser was told last |
| `MCTree` | the four above for TLC | `way` picks the one a behaviour follows |
| `Accounts` | links, login, 2FA codes, password changes, sessions, keys, administrators | rows of one account; `req` = progress of each request, statement by statement |
| `MCAccounts` | `Accounts` for TLC | |
| `GameRooms` | `games.js` | `rooms`, `queues`, `sock`, `roomCode`; loops and bot timers are fields of a room. `Throw` = a message whose handler throws: the process ends and takes the rooms with it |
| `Table`, `Nim21`, `TurnGames`, `BoardGames`, `ArcadeGames`, `Engines` | the engines: nim, rock-paper-scissors, tic-tac-toe, memory; four-in-a-row, gomoku, reversi; snake, tron, pong | `state` is the engine's state object, one action per handler; bots are translated with their searches. `Abandon` = leaveRoom's write into the state of a live game, remembered in `forfeited`. A rider is steered by any key `DIRS[dir]` is truthy for: one that is no direction gives a head at `Nowhere`, the cell NaN,NaN |
| `RpgGame` | the single-player game frame by frame | `foe`, `health`, `earned`, `cooling` are the run, `best` is what is stored; localStorage may refuse a record |
| `MCRealtime` | rooms, engines and the single-player game for TLC | `server` picks the one a behaviour follows |
| `UploadClient` | `api/upload.js`, `outbox.js`, `Uploader.jsx` against the server's answers | `call` = each running chunkedUpload, `outbox`, `flush`, `flushed`, `page`; `session`, `made` = the server's side. `EndItem` marks an item flushed, `Clear` removes its row or fails; `missed` and `unsure` are history: what a flush could not do, and how often nobody could know whether a file was uploaded |
| `MCClient` | `UploadClient` for TLC: `way` picks the entry or the outbox | |
| `SumProofs`, `QuotaProofs`, `ChunkedUploadProofs`, `FilesProofs`, `BooksProofs`, `AccountsProofs`, `ReachProofs`, `TogetherProofs` | proofs, below | |

The routes use the quota service at the level of `QuotaLedger`: reserve, refund and
charge are single steps in `ChunkedUpload`, `FileVersions` and `ShareLinks`, which
the refinement proved in `QuotaProofs` justifies. A part's body is its size, a parts
list maps part numbers to sizes (0 = no entry), an object key is the session or
request that minted it. In `FileVersions` a content is its size (two texts of one
size are the same text) and removing the objects of one file is one step, in which any
of them may stay behind; names and
folders of the same operations are in `FolderTree`. `Init` of `MCFiles` picks one
of `Workloads`: the requests that come in this behaviour; trashing, restoring and
expiring may always happen.

A definition called "Mutation: ..." in a comment is a plausible bug in the action
it precedes; the table `mutants` in `PROJECT.json` says which property notices it.
No specification uses one.

## Runs

All runs are exhaustive over their bounds. Deadlock is checked for `Quota` only; in
the others every request is sent once or the system may rest, so they do stop.

| Run | Shows | Bounds, and why they are enough |
|---|---|---|
| `quota` (`Quota.cfg`) | balance bound, refinement of `QuotaLedger`, and that each call is answered | two requests, byte counts 0, 1 and 3, quotas 2 and 4: 0 exercises the early return, 3 fits one quota and not the other and exceeds small balances, so a refund clamps. The fallback has its three tries. Two requests suffice for any statement to fall between any two others; `MaxCharged` stops calling the unconditional charge after one byte was charged, or the balance would grow forever |
| `upload_books` (`MCUploadBooks.cfg`) | the balance is exact at every statement and within the quota, each row has its object without holes; no edit of a shared text is lost unreported | two sessions (one may replace the owner's file), two PUTs, two completions, declared sizes 0 and 2 with slack 1, quota 3, an old file of 2: two full files do not fit beside the old one, a session can miss part 1 and still reach its size within the slack. Two editors with an edit each, one lost connection, one refused save, two saves under way: enough for the leader to leave while its save is out and the other's edit is newer |
| `upload_chaos` (`MCUploadChaos.cfg`) | one file per session, ownership, acknowledged parts kept, the recorded bound, never undercharged | one session that replaces, two PUTs of sizes 1 and 2, two completions, one DELETE, one completion cut short at any statement |
| `files` (`MCFiles.cfg`) | version numbers are never shared, acknowledged edits stay, a file shows its newest version, balance and objects match the rows at every statement but for what is known to be left behind, previews and renditions are of the content the file has, queues go on | nine files of which six come to be during the behaviour, two versions each, sizes 1, 2 and 4 against a history of 1 and 2, so that the overwrite of a video shrinks or grows it, and a quota of 7 that not everything fits. Workloads: three writers of versions on one file (the loser of a race can lose twice, so `SaveAttempts` = 2 reaches giving up), one overwrite, two hard deletes, one empty-trash, one sweep, two new files at a time by any way, two remuxes, a version of a video with its jobs, an import; one put, create, removal or job may fail (`MaxFailures`): a second failure only meets what the first has already left |
| `tree` (`MCTree.cfg`) | paths unique among live folders and agreeing with the parents, nothing orphaned, a purge deletes nothing that stays, a guest's level is the tree's; limits, books and trash of a link; who is shown to whom | three folders, one file, two names, depth 3: a folder, its child and a namesake of either; one guest and one team. One link, two downloads, two drop-box uploads, cap 1 or none, a quota one upload fits and two do not, every statement of an undo failing where it can. Three sockets of two users over two files |
| `accounts` (`MCAccounts.cfg`) | after a password change or reset every older session, key and link is closed; links and recovery codes are spent once | two users, two requests at a time, two links, two sessions, a key, a batch of two codes, two password changes |
| `realtime` (`MCRealtime.cfg`) | seats, codes and queues agree, loops and timers run where they should; results are the board's, no game gets stuck, bots that cannot lose do not; a victory is kept | three players, two rooms, a turn-based, a ticking and a simultaneous game; a message that ends the process; boards of 3 or 4 lines, nim from 21, a player who leaves, riders steered by keys that are no direction; a boss and enemies for a player with 2 hit points |
| `client` (`MCClient.cfg`) | each file uploaded once but where nobody could know, completions asked only of whole sessions, a begun flush ends with each item arrived and gone, or known to have failed | two queued files and one uploaded by hand, two mounts of the page, two parts. Three lost requests or answers for the file uploaded by hand (one more than its parts, so that an answer to complete can be lost after both parts were sent again), one for the queue: a lost request or answer, a row that stays, a queue that cannot be read, or the network; the theorem is for any number |
| `upload_abort`, `media_stale`, `accounts_admin`, `editor_unedited` | findings, below | the smallest instances that show them |

`PartAttempts` is 2 where the code has 5: a second attempt is all the loop adds, a
larger number only repeats it. Requests of a kind are interchangeable, so the
upload, tree and account runs use symmetry; the runs with a liveness property do
not.

Bounds that leave cases out, rather than only repetitions:
`InFlight` = 1 (one request between its reading and its writing) in `tree`;
`SafeHabits`, which keeps apart ways of working that get in each other's way (below);
`MaxPending` = 1, one join of a socket awaiting its check (the theorem needs no such
bound for what it states);
`Calm`, a connection fails only with nothing unsaved, and users type, save and close
only while in sync;
`Overlap` = FALSE, a video does not change under its remux or its transcode;
the workloads of `files`, which keep overwrites away from writers of versions and
deletes of different kinds from each other.
Each stands for a departure listed below.

Fairness. `Quota`: weak fairness of each request's next statement. Node runs every
ready continuation and the database answers every statement, so a started call does
not stay between two statements for ever. `Answered` holds although the other request
may change the balance for ever, because the fallback counts its attempts.
`MediaSpec`: weak fairness of the two workers and of the subtitles step, which are
continuations of the same loop; no fairness of requests or users. `ClientSpec`: the
next step of a flush that has begun, which is a continuation in the browser or the
answer or failure of a request. Nothing promises that a flush *begins*: the effect of
`Uploader.jsx` runs on a mount and on an online event, and the latter is dropped while
a flush runs (`:178`), so after a refusal while online items may wait for ever.
`QueueDrains` therefore speaks of begun flushes. Nothing is assumed of users,
administrators or faults.

### Where the code departs from what it says

* `upload_abort`: DELETE decides on the flag it read. If a completion claims the
  session after that, the DELETE still aborts the upload or removes the finished
  object, leaving a File row without content.
* `media_stale`: a transcode marks the row it read when it began; a version uploaded
  meanwhile is played with the renditions of the one before.
* `accounts_admin`: the check for another administrator counts banned ones.
* `editor_unedited`: an editor saved or closed before its first synchronisation
  stores the empty text it starts with.

Met while modelling, kept out of the passing runs by the bounds above or by the
hypotheses of the theorems, and without a run of their own:

* Uploads. complete() catches nothing after `reserveQuota`: when two sessions replace
  one file the second's delete throws and its bytes stay charged without a file. Both
  netted the old bytes off their reservations, and the difference is charged with
  `addUsage`, unchecked. A part sent again with another size while complete() assembles
  makes the object differ from what is billed. complete() and the video import check
  the destination folder once, before their long work.
* Versions. A version upload whose name `sanitizeEntryName` refuses
  (`files.routes.js:976`) has reserved at `:970`, outside the `try`: the bytes stay
  reserved. So does what an overwrite reserved and put when its transaction throws.
  Removals are best effort everywhere and nothing retries one: an object whose removal
  failed stays without a row (`left`). A delete refunds the versions it read; one added before the row goes is
  removed unrefunded. A WebDAV PUT deletes the versions other than the one it read, so
  a save answered in between is lost. Two remuxes of one file settle the size
  difference twice; one that races a version upload leaves `File.size` stale; one that
  races a delete stores its object again. The retention sweep refunds also what it
  failed to delete.
* Media. A restart forgets the queued jobs; renditions of a failed transcode outlive
  the file; removing renditions races the transcode of the next version; `ocrText` is
  not reset by a new version.
* Folders. Two creates or moves that check a path before either writes make it twice.
  A rename rewrites by prefix and reaches children of a trashed namesake; restoring two
  trashed folders of one path restores both; trashing a folder already trashed stamps
  the live descendants of its namesake; `chainIsRestorable` looks at the path only.
* Accounts. A login or a key made around a reset may survive it when it was authorised
  before; a restart between the new password and the revocations leaves older sessions;
  the key cap is counted before the row is made; two administrators can demote each
  other.
* Drop-box. `findFolderNameClash` (`shares.routes.js:413`) may throw between the claim of
  the slot and the `try`: the slot is lost, against the comment at `:374`. A failing
  `releaseSlot` is swallowed (`:381`). A throwing `releaseQuota` (`:455`) skips the slot
  and the object as well, and a failing `removeObject` (`:457`) leaves the object. The
  properties of `ShareLinks` hold *but for* these, each by name (`lapsed`), and
  `LapsesEnded` says that only a request that is over has left any.
* Presence. A socket with two joins pending may enter the room of the first answer.
* Client. A page mounted while an earlier one flushes uploads again what that one did or
  still may, and so does a page mounted after a row could not be removed: the set of
  flushed ids is the page's own, the row stays (`Uploader.jsx:193`). A lost answer to
  complete uploads the file again. `UploadedOnce` counts these (`unsure`) and allows no
  other. After a refusal while online, or an online event during a flush, nothing starts
  the queue again until the next event or mount. A flush starts over instead of resuming
  its session.
* Editors. After a reconnect the merged text counts as saved, so edits unsaved until
  then are not stored by themselves; typing during a save ends as "saved"; two closing
  saves that arrive out of order leave the older text current; a document may be seeded
  twice around a reconnect.
* Games. `DIRS[dir]` passes every key an object inherits: the head goes to NaN,NaN, off
  the board yet past the checks of `snake.js` and `tron.js`, and lives one tick; the
  next head is NaN,NaN as well and is found in the rider's own body. A value that reads
  as a direction but is not that string (an array of one) gets around the guard against
  turning back. A join code that is no string (`games.js:215`) or a gomoku row that is
  no integer throws in the message handler, and with no handler of its own the process
  ends. Repeated rps moves stack timers of the bot; pong serves towards the player
  that scored; the head-on clause of snake and tron does not fire at the real board
  sizes. In the game one plays alone a failing `localStorage.setItem` is ignored
  (`RpgGame.jsx:981`): the star is shown and not kept, and a later lost run takes it off
  the page.

### What the models abstract from

* A database that refuses a statement in mid-request is modelled where the code has a
  path for it or a comment about it (`Quota`, completions cut short, the drop-box, a
  create after a put); elsewhere a statement once sent is executed.
* A put that is refused stores nothing. The release and the best-effort removal of an
  undo are one step, and so are the read of the optimize route and the one that
  `optimizeFileVideo` begins with.
* Collaborative saves are not aimed at videos (`MediaAssumption`), though the code
  would let a text that is named like one be saved.
* `NoOrphans`, the half of `ObjectsMatch` about objects without a row, excepts `left`.
  An object enters it only by a removal that failed, an overwrite that threw, or a remux
  whose file went; `Tended` is the rest, and what was removed is never in use (`Stowed`).
  A remux that puts onto an object removed meanwhile is in the model and in the proof,
  not in the workloads TLC sees.
* `DerivedCurrent` in `files` has `Overlap` = FALSE; `media_stale` shows what happens with it.
* `TreeSound` and `OneOfAName` are checked with one request between reading and writing
  at a time and without trashed namesakes being renamed or restored (below); the races
  are departures.
* The file a chunked upload replaces keeps its size from the reservation to the delete,
  unless another session replaces it too.
* `TrashUnshares` excuses a request whose target was trashed after it began (`since`).
* `RoomsSound` says that seats, sockets and queues agree, not that a waiting player finds
  an opponent: `quickMatch` at the room limit drops the one it found.

## Proofs

A theorem holds for every value of the constants that satisfies the module's
assumption (`QuotaAssumption`, `UploadAssumption`, `VersionsAssumption`, ...: numbers
are naturals, loops have at least one try, names are distinct, sets finite); TLC
evaluates each on the runs. Hypotheses beyond that stand in the theorem, and mirror
bounds of the runs.

| Module | Theorem | Statement | Argument |
|---|---|---|---|
| `SumProofs` | `SumRemove`, `TotalUpdate`, `SumParts` | the sum over a finite set of rows or parts, one of which changes | tlapm knows no recursive definition of sums; the equation is proved by taking the least size of a counterexample, since induction theorems cannot be instantiated |
| `QuotaProofs` | `TypeCorrect`, `Invariance`, `BalanceBound` | `Spec => []TypeOK`, `[]IInv`, `[]UsedBound` | `TryReserve` adds below the quota that was *read*, so the invariant also says that every quota a request still holds was in force during its call and lies below `peak` |
| | `ImplementsLedger` | `Spec => LedgerSpec` | `Clear` is a `Refund` because a request reaches it with a balance smaller than its refund and the statement checks that the balance is still that one; retries and reads stutter; giving up or failing is `Lose` |
| `ChunkedUploadProofs` | `OneOwner`, `OneFile` | `[]SessionOwner`, `[]OneFilePerSession` | `Inv`: a completion owns its session from the claim on, an owned session stays marked, and the claim succeeds only on an unmarked one |
| | `TypeCorrect`, `RecordedWithinDeclared`, `AcknowledgedPartsStay` | `[](TypeOK /\ Refs)`, `[]RecordedBound`, `[]NoAckLost` | the list is written only if it is the one read, so bound and entries survive the write |
| | `UninterruptedBooks`, `InterruptedBooks`, `WithinQuota`, `ExactlyCharged` | `[]NeverUndercharged` without interruptions, or with them but no two sessions replacing one file; `[]QuotaHolds` and `[]ExactBooks` under that condition | `Spare` = balance minus what rows, sessions and requests account for; every statement leaves it (`SumProofs`), or raises it. `Replacing` and `Terms` say what each completion has netted off. `ExactlyCharged` lets a file be cut into parts of any sizes, a shorter last one among them, and sent again: `SentAs(slice)` says only that part n of a session is always the same part, and `CutAs` carries that through MinIO, the lists and what the assembly read; without deletes and interrupted completions |
| | `FilesAreStored` | `[]FileStored` while no DELETE removes a claimed session's object | `Removing`, `Kept`: whose object may still be removed, and by whom |
| `FilesProofs` | `SavesAreKept` | `MediaSpec => []AckedSaveKept` under `OverwritesApart` | `KeptInv`: numbers grow only by a finished writer (`Counted`), so a create never meets its own number twice; a row of a fresh file is made once (`FreshOnce`); a version placed stays until its file goes (`Placed`) |
| | `NewestIsCurrent` | `[]CurrentIsNewest` under `OverwritesApart` and `~Overlap` | `NewestInv`: a newer version exists only while its upload is about to point at it; a remux rewrites the version it read (`RemuxTied`) |
| | `DerivedIsCurrent` | `[]DerivedCurrent` under the same hypotheses | `DerivedInv`: what a worker holds or a poster is being made of is the content of its file while that lasts (`Shows`), nobody rewrites it meanwhile (`NotUnderJobs`), and announced or stored renditions are not those about to be removed (`Announced`, `Packaging`) |
| `BooksProofs` | `BooksAreMatched` | `MediaSpec => []BooksMatch` under `BooksApart`, `0 \notin Sizes` and `~Overlap` | `BooksInv` beside `KeptInv` and `NewestInv`: the balance is the sum of what files occupy and what writers, purges, imports and remuxes hold or owe (`Balanced`, moved one term at a time by `FilesChange`, `WritersChange`, ...); a purge owes exactly the rows it listed, which nobody changes under it (`Listed`, `Lively`); sizes are not negative (`Heavy`); a reservation that a refused version upload or a failed overwrite never gives back is a term of its own (`"leaked"`) |
| | `ObjectsAreMatched` | `MediaSpec => []ObjectsMatch` under the same hypotheses | `ObjectsInv`: an object is of one file for good, its writer's or the one it began with (`Owned`), which shows it under one number (`OneNumber`); what a request will show is stored as it will be billed (`Stowed`), what a purge has done with is gone, or `left`, before the row is (`Stripped`; `Tended` = the objects no removal has failed on), an overwrite removes only what it no longer shows (`Replaced`), and one remux at a time has shortened it (`Shortened`) |
| `AccountsProofs` | `OlderWaysClosedHolds`, `SpentOnceHolds` | `Spec => []OlderWaysClosed`, `[]SpentOnce` | `Due`: each stage of a password change owes the revocations behind it, and what was authorised before carries the password count it read; `Spent`: a claim deletes the row it matched, a batch of codes never returns |
| `ReachProofs` | `TreeTypeCorrect`, `NamesAreHeldOnce`, `TreeStaysSound` | `AccessSpec => []TypeOK`, `[]OneOfAName`, `[]TreeSound` under `Orderly` | `TreeIInv`: paths follow parents in the trash too (`PathsFollow`), or a restore would bring back a wrong one; rows are told apart by parent and name as far as the owner keeps to it (`NamesApart`), so a prefix of paths names one folder; what is live is reached through live folders (`Reachable`); and what a request has read still holds when it writes (`Pending`, a formula per request). A move rebases every path below the folder (`RebasedAppend`); each write keeps the invariant by a lemma of its own (`MakeKeeps`, `MoveKeeps`, `RestoreKeeps`, `PurgeKeeps`, ...) |
| | `DeletingIsSafe` | `[]DeletableIsSafe` under `Orderly` | the subtree along parent links, the least closed set (`SubtreeLeast`), lies below the folder's path (`SubtreeUnder`), which is what `deletableFolderIds` looks at |
| | `LevelsFollowTheTree` | `[]LevelFollowsTree` under `Orderly` | one live folder is on the way up from another (`UpLeast`) exactly if its path is a prefix of the other's (`UpIsUnder`), so the grants found by path are those found by parent (`GrantsReach`) |
| | `ViewersAreShown` | `PresenceSpec => []ViewersShown` | every change of a room tells it before the handler returns |
| | `TrashIsUnshared`, `LimitsAreKept`, `DropBooksExact` | `ShareSpec => []TrashUnshares`, `[]LimitsKept`, `[]BooksExact` | what a request read is remembered with the state of the link since then (`Begun`, `Remembered`); the counters are the sizes of sets of requests (`LoadInv`, `SlotsExact`); the balance is a sum over paid uploads (`ShareBooks`); an upload counts, pays or stores on after its end exactly if its undo lapsed there (`LapsesEnded`) |
| `TogetherProofs` | `WholeFiles` | `ClientSpec => []AsksWhole` | `WholeInv`: what a call believes to be there is there |
| | `FilesUploadedOnce` | `[]UploadedOnce`, without hypotheses | `ItemsOnce`: rows made plus pages that may still make one are at most one more than `unsure`; a page may still upload what is queued, not yet flushed by it (`Storers`), and every event that lets a second one try raises `unsure` |
| | `EditsAreKept` | `CollabSpec => []NoEditLost` under `Calm` | `EditInv`: an edit is stored, reported as not saved, on its way, or in a text whose editor knows it to be unsaved; an editor's text only grows beyond what it saved |
| | `RoomsAreSound`, `ClockworkAlwaysRuns` | `GameSpec => []RoomsSound`, `[]ClockworkRuns` | `RoomsInv`: each handler is a sequence of small steps (leave the queues, leave a room, seat, begin), and each step keeps rooms (`Seated`, `Clocked`), codes (`Housed`) and queues (`WaitsFor`) in agreement; at most one connected socket waits for a game. `ClockworkRuns`: a loop runs exactly while a ticking game is live, and a bot that is due has a timer; timers that are no longer due may be pending and find nothing to do |
| | `PerfectNim`, `NimIsPerfect` | the human who opens a lost count never wins: `[]NimBotWins` of `NimSpec` and of `EngineSpec` | residues modulo 4 after the bot's answer |
| | `ResultsAreRight` | `EngineSpec => []ResultRight`, boards of every size | `EngineInv`, one invariant per game, and of a game a player left only who stayed (`forfeited`). A line that was not there before a stone goes through it (`LineIsThrough`), the other's lines do not change (`OthersLine`) and a stone of Connect Four falls on others (`DropFalls`), so that a full top row is a full board (`TopIsLast`); cards leave the table in pairs and no third card shows the same (`PairIs`); after a move of reversi a side that can move is on turn (`AdvanceKeeps`), from the first position on (`NextTurns`; from a side of four, since one of two is full at once); a head that does not crash is on free ground or, for one tick, at `Nowhere`, so riders stay apart (`Untangled`, `BodyMoves`, `TickKeeps`) |
| | `GamesGoOn` | `EngineSpec => []NeverStuck` | from `EngineInv`: what is chosen among scored moves exists (`SomeIsBest`, `SomeIsFirst`), is a legal one (`GomokuBotPlays`, `C4BotPlays`, `ReversiBotPlays`, `MemoryBotFlips`; gomoku looks at cells beside stones only, and there is an empty one: `EdgeOfStones`), and a legal move changes the state (`NimGoes`, ..., `MemoryGoes`) |
| | `VictoryStays` | `RpgSpec => []VictoryKept`, for hit points above one and enemies worth 51 points at most | `RpgInv`: a boss that is down is reaped in the next frame, which no other end of the run overtakes |

`OverwritesApart` says which workloads are meant: a WebDAV overwrite meets no writer
of a version. `BooksApart` adds that an overwrite comes alone, and a purge alone or
with hard deletes only, as in the workloads of the run `files`: a version added between
a purge's read and its delete goes unrefunded (above). `0 \notin Sizes` because a remux
of the model takes one byte off its video. `NoRivals` is a state predicate, "no two
sessions replace one file"; the theorems take it as `[]NoRivals`, since the code does
not exclude it (what happens otherwise is the first departure under Uploads above).

`Orderly` says what the theorems about the tree take for granted: one request reads and
writes before the next reads (`InFlight` at most 1), no folder is renamed and no batch
restored where a trashed name is taken again ("reuse" without "rename" and "batch"),
and nothing is restored along with its folders where a folder and a file share a name
in the trash ("cross" without "deep" and "batch"). Otherwise the code does what the
departures under Folders tell. Three of the four workloads of `tree` are of this kind,
and TLC found `TreeInv` and `Pending` invariant over them before they were proved; the
fourth, which renames, reuses and shares with two folder rows, is model-checked only.

Only model-checked, and why:

* `Answered`, `QueueServed`, `QueueDrains`: liveness under fairness.
* `BotUnbeaten` of tic-tac-toe (its half about nim is proved): the value of the empty
  board is what a recursive search over the whole game tree returns, which is induction
  over data.
* the fourth workload of the tree.

## Plan

1. More of the files' listing pages in the client (`Files.jsx`), whose selection and
   paging keep state across answers that arrive out of order.

The project keeps to a dozen runs: components that share no rows are checked in one
run whose behaviours follow one of them each, and a violation run is kept only for a
departure that matters.
