# Verification of arken-space

TLA+ models of the arken-space server and of the parts of its web client that
take part in a protocol with it, TLC configurations that check them on small
instances, and TLAPS proofs of the main safety properties for every instance.
`PROJECT.json` holds the machine-readable index: components, runs, the map from
each definition to the source lines it stands for, findings, hazards, theorems.

## The system

Arken is a private virtual tabletop. One Node.js process (Fastify and
Socket.IO, `src/apps/server`) serves a React application (`src/apps/web`), keeps
its state in PostgreSQL (READ COMMITTED unless a transaction asks for more, a
pool of ten connections) and its media in a local volume. `docs/architecture.md`
fixes a single instance of the process. So the concurrency of the system is

* between the `await`s of handlers in one process;
* between transactions in the database, which take row or advisory locks;
* between the process and the browsers, each of which has a socket that
  delivers in order and HTTP requests that do not;
* across a crash, for what is stored (the mail outbox, the journal, receipts).

Almost every command follows one pattern: look the client's `actionId` up, read
the row, compare its revision with the one the client saw, open a transaction,
take the campaign row, write with the revision in the `WHERE` clause, insert a
`game_events` row that is unique per `actionId`, commit, then tell the browsers.
The interesting questions are about what happens between those steps.

### Inventory

| Component | State | Operations | What is hard |
| --- | --- | --- | --- |
| Account e-mail | `users`, `account_action_tokens`, `account_mail_outbox`, the drain's local copies | register, request and confirm verification, request and confirm reset, change password; claim, revalidate, send, acknowledge | overlapping passes, leases that run out, crashes between statements, a user who acts while a mail is being sent |
| Canvas history | canvas rows with revisions, `action_journal`, `game_events` | create, update, delete, bulk, grid rescale; undo, redo; a definition's new image, an archived character, a deleted asset or definition | what was read before the lock; revisions that come back, and columns that change without one; retries |
| Rulers, cursors and the break | `campaigns.paused`, `revision`; per-socket ephemera; queues of intents | ruler and cursor events, disconnect; canvas command; pause, resume, their broadcast and replay | a relay under way when the break starts or its socket goes |
| Canvas synchronisation | sequence of `game_events`, coalescer slot, snapshots being built, the client's `snapshotVersion` | commit, broadcast, point event, settle, resync, merge | snapshots are not read at one moment; events and snapshots overtake each other |
| Connections and the campaign row | the pool, the lock queue of the row | begin, lock, query, finish | a transaction that needs a second connection |
| Drag previews, presence | process-local epochs, timers | `token:moving`, snapshot, connect, disconnect | a relay against a change of visibility, a timer against a reconnect |
| Sessions and access | `sessions`, `account_sessions`, invitations, roles | log in, revoke, redeem | a handler that authenticated before the revocation |
| Audio mixer, soundpad | audio rows with revisions; process-local cooldowns, receipts, stop generation | set, add, reorder; trigger, stop | a cap counted without a lock; a stop between two awaits of a trigger |
| Media, uploads, quota, clips | `assets`, clip candidates, reservations with a lifetime, files | reserve, upload, replace, delete; preview, save, cancel, expire | files are not part of the transaction; reservations run out; retries share one reservation; the answer to a commit can be lost |
| Story | documents with versions, attachments with a grace period | edit, attach, collect | collecting a file that is attached again |
| Abilities and their undo | character rows, entries with counters, `game_events` with receipts | roll, apply or cancel an area, undo, rest, recharge, edit | rows read before the transaction; an undo that restores whole rows after others wrote them; a retry beside a cancellation |
| Economy, creations, progression, item rows | wallets, item stacks, created objects, quotes, SP requests, audit | quote, buy, craft, consume, grant, apply, reverse, edit, delete | quotes that age; rows read outside the transaction; an item that is somebody's object and somebody's stock |
| Row locks | which rows a transaction holds and needs | the transactions of sheets, areas, the clock and tokens | two orders for the same rows; locks taken by foreign keys |
| Encounters, clock, world maps, spell packs, requests, chat | revisioned rows | commands of one writer or append-only rows | little beyond the common pattern |
| Bug intake | inbox, reviewed messages, files, deliveries, albums | ingest, download, review, approve, enqueue, claim, upload, post, record, reconcile | edits out of order, unknown outcomes, consent bound to a revision |
| Life cycle, telemetry, hosting, operations | timers, journals, files of the host | start, close, maintain, deploy | I/O and scripts, one operator at a time |

How they interact: the break excludes canvas commands and relays through the
campaign row; canvas commands feed the journal, the sequence and the broadcast;
the broadcast is also awaited inside the transaction that announces a break,
which is where the pool comes in; the account routes feed the outbox and revoke
sessions. Rolls, rests, purchases, crafting and SP records all write the one
row of a character and meet in its revision; crafting, abilities and the GM's
edits all write item rows; the messages and events of every one of them refer
to the campaign row and so lock it.

## Modules

| Module | Models | State and actions |
| --- | --- | --- |
| `AccountMail` | `account-mail-outbox.ts`, the token routes of `account-auth-routes.ts` | `user`, `token`, `row` are the tables; `work[w]` is the point a drain pass has reached with the copy it took at claim time. A user operation is one transaction under the user's lock and one action. `Claim` is the claim transaction with its three selections; `Revalidate`, `CheckOwned`, `CancelIneligible`, `Dispatch`, `Acknowledge`, `RecordFailure` are the statements that follow it, each an action. `Abandon` is a crash or a pass that throws. `TokenExpires`, `LeaseExpires`, `RetryTimeComes` are the clock. |
| `CanvasHistory` | `canvas-routes.ts`, `canvas-history.ts`, `token-routes.ts`, `drawing-routes.ts`, `token:moved` in `realtime.ts`, and of `asset-usage.ts` and `character-archive-service.ts` what they write to the canvas | `rows` are tokens, drawings and the scene in the columns that only change with the revision; `look` is the image and the character of a token, which change without one; `live` the images and definitions there are (foreign keys); `journal` is `action_journal` in the order of `transition_sequence`; `events` counts the events of an `actionId`. A request is a slot of `pend` that carries what was read before the lock. `Submit…` is the reading half, `…Tx` the transaction, `LoseRow` a transaction whose row has changed, `Refuse` every other rejection; `Ask`, `Pick`, `ReplayTx` are the three steps of undo and redo. `ChangeImage`, `Archive`, `DeleteAsset` and `DeleteDefinition` write the rows without an entry of their own. |
| `CanvasRelay` | `realtime.ts` (ruler, cursor, disconnect, cleanup), `campaign-pause-guard.ts`, `campaign-pause.ts`, the announcement in `routes.ts`, the client's ruler and cursor intents | `campaign` is the row, `writing` a canvas command that holds it; `ephemera`, `queue` and `relay` are the server's memory of each socket; `rulers`, `cursors` are what the others see. A relay is: arrive, take the shared lock, emit or fail. A pause is: ask, take the row and clean up (`Transition`), `Commit`, `Announce`, `Announced`; `Replay` is an exact retry. |
| `SnapshotSync` | `broadcast-coalescer.ts`, `routes.ts`, `snapshot.ts`, the point events, and the reducers of the client | `rows` are revisions; `handler[n]` is the request that committed sequence `n`; `slot` is the coalescer; `drafts` are snapshots being built, query by query; `client` is the merged view, its version and the per-token marks; `shown` remembers whose event went out last for a drawing. `Emit` sends a point event, `LoseEvent` is a read before it that fails, `Fail` one of a snapshot. |
| `ConnectionPool` | `packages/db/src/index.ts`, `campaign-pause-guard.ts`, `routes.ts` | A request is queued, waits for the row with a connection in hand, is inside, is done. The announcement runs queries while it is inside. |
| `AbilityPlay` | `character-play-routes.ts`, `ability-area-*.ts`, `undo-application.ts`, `creation-consumption.ts`, the rests of `campaign-clock.ts` | `char` and `entry` are rows with revisions, `event` the journal by `actionId`, `req` the rows a request has read. `Begin…` is the reading half of a handler, `Commit…` its transaction; `GiveUp` a refusal or a conflict; rests, recharges, edits and counters are the other writers of the rows. |
| `Market` | `economy-purchase.ts`, `economy-state.ts`, `economy-admin.ts`, `creation-operations.ts`, `creation-consumption.ts`, `progression-routes.ts`, the wallet command, `world-content-instances.ts` | `sheet` and `item` are rows; `object` the created objects; `offer`, `quote`, `upgrade`; `event` and `audit` what an `actionId` did to wallets and stacks. What holds its locks from the first read to the commit is one step; `Read…`, `Write…` are the commands that do not. |
| `BugReports` | `bug-intake-*.ts` without albums | `inbox` rows, the message row (`source`, `rev`, `state`, `approval`, `linear`), `file`, `delivery` by approved revision; `worker`, `fetch` and `draft` are what a process or an operator holds in hand; `uploaded`, `posts` is the tracker. Each transaction locks the message row and is an action. |
| `MediaLibrary` | `asset-routes.ts`, `asset-usage.ts`, `audio-clip-routes.ts`, `media-quota-reservations.ts`, `storage.ts` | `row`, `candidate`, `reserved`, `receipts` are tables, `disk` the files, `request` and `sweep` how far a handler or the timer is. A handler is prepared, reserves, stores its file, commits, releases and removes; each step may be its last. |
| `RowLocks` | the locks of `character-play-routes.ts`, `ability-area-apply.ts`, `undo-application.ts`, `campaign-clock.ts`, `token-routes.ts` | a transaction is the sequence of row locks it still needs (`next`) and those it holds; `Acquire` grants the next by PostgreSQL's table of conflicts, `Abort` breaks a circle |
| `PlayLedger` | nothing of the code: what the players are promised | pools, counters and what each `actionId` has come to; `Apply`, `Undo`, `Cancel` are atomic. `AbilityPlay!Ledger` is the refinement mapping, `KeepsLedger` the property |
| `ConsentedPosts` | nothing of the code: what the bug intake promises | the text, the standing approval, what was posted and confirmed. `BugReports!Tracker` is the mapping, `KeepsConsent` the property |
| `MailDelivery` | nothing of the code: what the outbox promises | per mail a status, the attempts begun, those that handed it over, and whether the provider took it; `Request`, `Begin`, `HandOver`, `Conclude`, several mails at a time. `AccountMail!Delivery` is the refinement mapping (a lease is an attempt), `KeepsPromise` the property |
| `AccountMailProofs`, `CanvasHistoryProofs`, `CanvasRelayProofs`, `SnapshotSyncProofs`, `AbilityPlayProofs`, `MarketProofs`, `BugReportsProofs`, `MediaLibraryProofs` | | theorems about the modules they extend |
| `MC…` | | constants and symmetry for TLC |

The modules do not compose into one state machine: the campaign row is the only
thing `CanvasHistory`, `CanvasRelay`, `SnapshotSync` and `ConnectionPool` share.
`AbilityPlay` and `Market` share the character row and the consumption of an
item: in `AbilityPlay` the interleaving of reading and writing it, in `Market`
(there one step) what it means for the item next to shop and workshop.
`RowLocks` has the orders of locks that the others take for granted.
Each of them keeps the half of its protocol it needs: `CanvasHistory` and
`SnapshotSync` rely on what it guarantees (a transaction is one step),
`CanvasRelay` models it as a shared and exclusive lock and proves what it is
for, `ConnectionPool` shows what it costs.

## Runs

Passing runs:

| Run | Instance | Checks |
| --- | --- | --- |
| `mail` | 1 user, 2 mails, one sealed under a key that is gone, 2 overlapping passes, 2 attempts, batches of 2, fair | one usable token per purpose; an open mail carries an unused token; sealed exactly while open; one dispatch per lease and at most `MaxAttempts`; accepted means the provider took it; `MailDelivery` is implemented; every mail is settled in the end, the one whose key is gone once it has expired |
| `history_safety` | 1 token, 1 drawing, 1 player and the GM, 2 handlers, 2 actionIds, 2 journal entries, revisions up to 2, 1 write that leaves no entry | a retried command happens once; the redo branch holds only what was undone after the last command; in the columns a revision guards, an undo writes only over what its entry left of tokens and grid, and no two versions of a token share a revision; a single token's undo leaves its image and character alone; invalidated entries stay so |
| `relay_safety` | the GM with 2 tabs, seen by players and GMs, 2 scenes, 2 cursor relays, 2 pause handlers, 2 commands, 3 events, failing relays | nothing is shown during a break; whatever is shown can be retracted; no canvas command writes into a break; announcements never go back |
| `sync_convergence` | 2 tokens, 1 drawing, 1 fog shape, 2 clients, 3 writes, 1 failing query, of a snapshot or before an event | a caller's snapshot includes its change; nobody waits for a broadcast that never starts; once the event of a drawing's last write is the last that went out for it, every client shows the drawing of the database; tokens converge where events are held back and where there are point events alone; a broadcast repairs whatever was lost |
| `play_ledger` | 2 characters, a counted roll, an area over both, a created item, 3 `actionId`s, 2 requests at a time, 1 write by somebody else | a counter is what it was set to less what is charged to it; an item is gone exactly while one application of it stands; `PlayLedger` is implemented |
| `market` | 1 wallet, 4 item rows, 3 `actionId`s, 2 quotes, 1 SP request, 1 pending edit | the journal explains every wallet and stack; a purchase takes what its buyer was shown, at the price of the moment; an object in use keeps its item; types, with the foreign key of the offer |
| `bug_reports` | 3 texts (two of one date) under 2 update ids, 1 file, 2 senders, revisions up to 6 | the newest processed text is shown; what is called linked was delivered as it reads; an unknown outcome can be resolved by the confirmation that is true; `ConsentedPosts` is implemented |
| `media` | 1 asset with 2 replacements and a deletion, an upload sent twice, a clip, quota 4, one fault (crash, failed removal by a handler or the timer, lost answer) | the quota holds; named files exist but for those an unanswered COMMIT names; nothing is left behind without a fault; what was deleted stays so |

Runs that find a violation (each is a finding in `PROJECT.json`, with the
statement it refutes):

| Run | What happens |
| --- | --- |
| `history_drawing_revived` | undo of an edit inserts a drawing that somebody deleted since |
| `sync_dropped_snapshot` | `token:moved` raises the client's version above a snapshot on its way, which is then discarded |
| `pool_deadlock` | the announcement of a break waits for a connection, all of them wait for its row |
| `locks` | a roll holds its character and needs the campaign for its message, an area application holds the campaign and needs that character |

Six more configurations stand beside these. Each of them names one property that does
not hold, and TLC shows the sequence of steps:

| Configuration | What happens |
| --- | --- |
| `MCCanvasHistoryPick.cfg` (`PicksCompatible`) | undo settles on an entry it cannot replay although an older one could be |
| `MCCanvasHistoryGrid.cfg` (`TokensUseSceneGrid`) | undo of a removal brings a token back in the coordinates of the grid before a rescale |
| `MCCanvasHistoryBulk.cfg` (`BulkReplayIsExact`) | undo of a bulk compares revisions, which a definition's new image and an archived character leave alone, and writes the older image or link back |
| `MCSnapshotSyncDrawings.cfg` (`AllDrawingsConverge`) | the events of two edits of one drawing go out in the other order, and the older drawing stays |
| `MCCanvasRelayGhost.cfg` (`NoGhostRuler`) | a clear that replaces a waiting clear forgets its scene, and the ruler there stays |
| `MCSnapshotSyncFog.cfg` (`FogConverges`) | the snapshot a client asked for after a late fog event is discarded because `token:moved` raised its version |

### Bounds

* **Mail.** The rules relate two mails of one user (supersede, cancel) and two
  passes (fence); a third of either repeats a case. Two attempts reach first,
  last and exhausted. Two mails let a pass fail on the first and go on.
* **History.** Two entries give an order, a redo branch and a conflict between
  entries of one object; two handlers give every stale read and every retry that
  overlaps its first attempt. `actionId`s are recycled once no request carries
  them, so two do not limit the number of commands and replays. What does is
  `MaxJournal` (two commands, however often each is undone and redone) and
  `MaxRev` (a transaction that would pass it is not taken): revisions up to 2
  let a creation or a removal be undone, redone, undone and redone, a change be
  undone, and a rescale come before or after either; the proofs have no bound.
  `MaxOther` allows one write outside the history before, between or after two
  commands. The configurations that look for a violation have one handler, up to
  four entries and revisions up to 4.
* **Relay.** `MaxInbox = 1` does not limit the order of events: the session
  check lets them overtake each other, and a client may send any event at any
  time, so every order the server can see is also sent in that order. Three
  events give an update, a clear and a cursor change around one pause and one
  resume (`MaxRevision = 2`).
* **Synchronisation.** Three writes are one that is running its broadcast, one
  that waits for the next and one that overtakes both. One failure is either a
  rejected broadcast with callers behind it or an event that is never sent, with
  two writes to make up for it.
* **Pool.** Three connections stand for ten and two queries for the read set:
  what counts is that the waiting transactions can take all that are left. With
  a pool larger than the number of requests the property holds.

* **Play.** Two requests at a time give every pair that overlaps: roll and
  undo, undo and undo, area and retry, cancellation and late application. Three
  `actionId`s give an application, its undo and a third command between or
  after them. One write by somebody else makes every row a request has in hand
  stale; a pool of 2 and a counter of 2 reach empty and full.
* **Market.** Three commands and one pending edit: two that race and one that
  prepares them (a craft, then an edit of the new item against its consumption).
  Two quotes are two buyers; two prices an old and a new one. Four item rows are
  the offer, a material and two that a purchase or craft creates.
* **Bug intake.** Three texts under two ids give an edit, an older one that
  arrives late, a collision of two with one date and a conflicting payload.
  Six revisions allow a file, an approval, a delivery, a second approval and
  delivery of the edited report as a comment on the first.
* **Media.** The quota of 4 is tight: the asset of 2 bytes with its replacement
  of 3, or with the upload of 1 and the clip estimated at 2, but not all of
  them. `MaxRunning = 2` handlers and the timer run at once; one fault is one
  crash, one lost answer or one file that will not go. The upload's
  reservation may run out at any time (`Slow`); `MCMediaLibraryClip.cfg` is the
  same instance with the clip's, and passes too. The proofs let all run out.
* **Locks.** Two transactions, two characters and one entry are enough for a
  circle of two, and a circle of more needs the same two orders.

Symmetry (`SYMMETRY`) is used for sets whose members the modules treat alike:
handlers, senders, retries of one upload, `actionId`s, quotes, new item rows.
`mail`, the passing run with a liveness property, uses none.

### Deadlock

It is checked where the system may not stop (`AccountMail`, `CanvasRelay`, whose
clock, crashes and connections always go on). The others reach states in which
all users are done, because each request is sent once, `actionId`s are used up
or a bound on revisions is reached; their configurations say
`CHECK_DEADLOCK FALSE`.

### Fairness

* `AccountMail!FairSpec`: a pass that has started goes on and a new one is
  always started, because the runtime polls for ever and awaits each statement;
  leases and retry delays are finite. Nothing forces a user to act, a token to
  expire soon or a transport to succeed. A crash may come at any time: the
  number of attempts bounds how often it can prevent progress.
* `ConnectionPool!Spec`: the pool gives a free connection to somebody who
  waits, the database grants a lock that is compatible and answers queries.
  Each request runs once, so no stream of relays can starve a writer; what the
  run finds is a state in which nobody can move.

## Proofs

`tlapm` checks every step; no obligation is assumed. Assumptions about constants
are those the modules name (`MaxAttempts` and `Batch` positive, sets disjoint,
bounds natural numbers, `None` no member of the records it stands beside). What
the theorems add to the runs: any number of users, mails, passes, tabs, relays,
commands, rows, clients, characters, quotes, texts, files and failures.

**AccountMailProofs.** The safety properties are not inductive: "a mail is
handed over once per lease" does not say that two passes cannot hold the same
lease. `IInv` adds `RowsAgree` (a row exists with its token, its attempts equal
the leases issued for it, and a row that is not `LEASED` has no lease token for
a stale pass to match), `ClaimsAgree` (every claim a pass holds was issued, its
lease is its attempt number, and a pass about to acknowledge was delivered) and
`OneHolder` (two passes never hold the same lease of one mail). With them every
write of a pass is fenced: either its lease is the row's, or the row is not
touched. `Invariance` proves `Spec => []IInv`; `TypeCorrect`,
`CredentialsAreUnique`, `OpenMailIsUsable`, `BearerIsErased`,
`DispatchIsBounded`, `AcceptedIsDelivered` and `SettledStaysFinal` follow.
*OutboxKeepsPromise* is the refinement: under `IInv` every step of the outbox
does to each mail one step of `MailDelivery` or none, and the initial states and
types agree. What it adds to the invariants is the order of things: a mail is
opened once, is declared `DEAD` only after its last attempt, never goes back to
open, and a hand-over after the verdict belongs to an attempt begun before it.

**CanvasHistoryProofs.** The code compares revisions; the properties speak of
contents and of the order of commands. They are equal only in the columns a
revision guards. A definition's new default image (`token-routes.ts:1312`) and an
archived character (`character-archive-service.ts:109`) change a token at the
revision it has, so the image and the character are kept apart (`look`) and no
theorem says that a revision knows them. What *ReplayFindsWhatItLeft* says of
them is that the replay of a single entry does not write them on a token that
stands: a change and a rescale journal other columns, and a whole row is written
only where there was none, with the image and the character it had when it was
journaled. The replay of a bulk does write whole rows over rows that stand and so
takes a newer image or link back: `BulkReplayIsExact` fails.

`IInv` says what a revision is worth for the guarded columns of tokens and the
grid: the present one is the highest there ever was (`RevisionsClimb`); an
object at the revision of a journal entry is as that entry left it, and what the
entry removed is gone and had that revision (`EntriesAgree`); at most one entry
of the history can bring a removed object back (`OneRemoval`). The last two
support each other: a removal that is undone gives the object the revision after
the entry's, which is a new one only because no other entry has brought the
object back since. *WrittenAsJournaled* is the argument for the four commands
that write (deleted assets and definitions raise revisions and remove rows,
which the same facts allow), *AcceptedAsLeft* for undo and redo: every
comparison the code makes, kind by kind, is one of contents. From it follow
*ReplayFindsWhatItLeft* and *NoRevisionTwice*; *NothingBehindTheBranch*,
*InvalidatedForGood* and *RecordedOnce* follow from the journal's own part of
the invariant (ids are unique, an entry that is undone remembers the commands
there were). Drawings are exempt from the first three, and must be: the run
`history_drawing_revived` shows an entry that puts a deleted drawing back.

**CanvasRelayProofs.** Four layers, each of which uses the ones before it.
`LockInv` (*RowIsLocked*): exclusive holders exclude each other and the
shared ones, and who holds the row knows the paused flag. `OwnerInv`
(*SocketsOwn*): a socket that has gone shows nothing and has no relay that could
still emit. *RulersStayRetractable* and *CursorsStayRetractable*: what is
displayed is in the record of a connected tab, including what the players see
of a GM. `CleanInv`: between the cleanup and the resume no tab has anything in
its record. *BreakIsClean* is the combination of the last two, *WriteExclusion*
and *AnnouncementsAdvance* follow from the lock and `AnnounceInv`.

**SnapshotSyncProofs.** `SlotInv` ties the callers that wait to the slot and the
slot to a broadcast being built (*NobodyForgotten*, with failures). `RowInv`
says that a row contains every write not undone by a later one; together they
give *CallersServed*, because a broadcast reads after its callers have
committed. For drawings, `LastInv` says that a row is what its last write made
of it, and `DrawnInv` relates the version of a draft or client to the writes it
must show: *DrawingsFollowTheLastEvent* holds for any number of editors and
whatever fails. Its condition is exact where it stands: as long as the event of
the last write is the last that went out for the drawing, all clients show the
row. What it does not promise is that this event goes out, and last. The code
promises neither. The reads of `publishDrawingChange` after the commit
(`routes.ts:265-273`) may fail, and then nothing is sent, by a retry neither;
and the events of two editors overtake each other (`drawing-routes.ts:241-246`
asks for the revision of the row, not for the event of the write before).
`drawing-point-events.ts:6-12` calls the order of delivery sufficient;
`AllDrawingsConverge` shows that it is not. Afterwards only the next event or a
snapshot at a later sequence repairs the drawing; *BroadcastRecovers* covers the
latter.

*BroadcastRecovers* rests on two facts. `VersionInv`: nobody holds a version or
a mark above the last committed sequence, so a snapshot that carries this
sequence is never discarded. `HealInv` follows a write that commits while
nothing else goes on: until the next commit every query reads the same canvas,
every draft has the write's sequence, and a client that is not yet in the
audience of a draft shows the rows already. A request whose broadcast fails ends
as failed, of which nothing is claimed.

*SettledTokensAgree* is the converse: no query fails, but any number of writes
at a time. A revision that is still under way is not above the row or, if the
token is gone, not above the one it was removed at (`PastInv`; it needs that a
new token has a new id, `UnusedInv`, and that only moves and edits have an event
of their own, `PointInv`). Snapshots of one broadcast share the read of the
tokens, so they agree on them (`SiblingInv`). `SettledInv` then says of each
client, and of each draft, why it will come to show a token: it does, or a
broadcast that starts later will read it, or a draft for it is being built, or
an event that is held back will carry the row to a client that shows the token
and whose mark lets it pass. The gate of `publishTokenChange` is what the last
case needs: a held event goes out only after the running broadcast has reached
every client. With point events alone there are no snapshots at all, and
`PointwiseInv` needs only the revisions: an event that a client refuses as old
is no newer than what it shows.

**AbilityPlayProofs.** What a request has read may be stale, and the receipt of
an application names rows that others have written since; both are used only
under a revision. `IInv` states what a revision is worth: a row still at the
revision a request has read is the row it read (`SeenAgrees`), and a row still
at the revision an application left is what the application made of the row in
its receipt, and is still charged with it (`ReceiptAgrees`). Revisions only
grow, with two exceptions the proof has to look at: a deletion keeps the
revision, so the agreement holds for rows that are there, and a consumed entry
comes back two revisions later, so that no request that read it before can
still match. A created item needs in addition that at most one application of
it stands. From this *UsesAccounted* and *ItemSpentOnce* follow, and
*LedgerKept*: every step is one step of `PlayLedger` under the mapping `Ledger`,
an application takes its price from the rows as they are at its commit although
it computed them from rows read earlier, and an undo, which writes back whole
rows, subtracts exactly what the application added.

**MarketProofs.** A quote and an edit are compared by revision with what they
have seen. `QuoteAgrees` and `EditAgrees` say that the revision is enough: at
the same revision the row is the same. For item rows that is not a matter of
course, because a row may be deleted: the invariant says that an id whose row is
gone is named by the audit and is not used again. *PurchaseAsShown* follows, and
*ObjectKeepsItem* from the guard of every writer of item rows together with
the agreement for the two that read before they lock.

*JournalIsComplete* states sums over all actions, and the invariant behind it is
short: the sums themselves, `WalletAgrees` (a wallet still at the revision an
edit has read is the wallet it read, so writing back what was computed from it
adds exactly what is booked), and that an action moves finitely many stacks.
The work is in the sums. Each transaction books under one `actionId` that was
unused before and changes the sum of each wallet by its own entry (*BookedOnce*)
and of each stack by its own audit (*MovedOnce*), including a craft, which takes
materials and adds a product in one audit, and the undo of a consumption. The
library's `MapThenSumSet` is a recursive function over subsets; *SumExists*,
*SumIsUnique* and *SumWithout* establish that it is well defined and additive for
every finite set, from the well-foundedness of the strict subset order.

**BugReportsProofs.** The invariant relates a report, its approvals and its
deliveries: an approval or an open form is of a text the report has or had at
that revision; at most one delivery is open, and an attempt that may still send
holds a claim under which nothing was posted; all posts are in one issue, and
once nothing is open the report is linked to it. *NewestTextIsShown*,
*LinkedWasDelivered* and *UnknownIsResolvable* follow. *ConsentIsKept* is the
refinement of `ConsentedPosts`.

**MediaLibraryProofs.** The invariant is the life of a file: the attempt that
wrote it is the only one to know it until a commit, only its owner may name it,
and what is marked for removal is named by nothing. *NamedMediaExist* holds but
for the file of a COMMIT whose answer is lost, which the handler removes
although its row is there; *MediaIsAccountedFor* but for the files that a crash
or a failed removal leaves. Both kinds are set apart in the properties (`lost`,
`left`). *DeletionIsFinal* needs no exception.

*QuotaIsKept* cannot be proved from what is stored and reserved at the moment: a
replacement reserves with the credit of the file it will remove, so both
together may exceed the quota. `QuotaAgrees` speaks of every outcome instead:
give each asset any size it may still come to take (nothing, at most that of its
file, or at most what is reserved for one command that would give it another),
and the total fits. An admission keeps this: an outcome that uses the new
reservation lacks the file it replaces, so it fits if the code's sum less that
credit does, and the other outcomes were there before; a commit chooses one
outcome; deletion, expiry and release leave fewer. That retries share a
reservation, and that it may run out while a file is written, is then harmless:
a commit needs it to be there.

### What is only model-checked

`EveryMailSettles` and `WaitersWake`: liveness under fairness is out of reach of
the prover. Every other property of a passing run is a theorem. `ConnectionPool`
and `RowLocks` have no theorems: what their runs show is a state in which the
real program blocks. Every violation, of course, is an instance.

## Simplifications

* **AccountMail.** The cipher is one bit (sealed or not), an id stands for a
  token and its row, which share an expiry. Disabling a user is an external
  action: the code only reads it. Sessions revoked by the same routes are left
  out.
* **CanvasHistory.** One scene; what a row contains is a value and the
  coordinate system it is given in; a bulk writes all its rows or none, as in
  the code. A new token takes any image and character: which ones its definition
  has then is left out. So are the owner of a token, who loses it without a
  revision when the membership goes, like a character, and the transfer of a
  linked scene's tokens, since there is one scene. A definition that is bound to
  an instance, or an asset whose use blocks its deletion, is one that is not
  deleted.
* **CanvasRelay.** The views are those of clients that stay connected and are
  not the author. A reconnected socket starts with fresh ephemera; the relay of
  a socket that has gone releases its lock at once. `map:ping` and
  `token:moving` are left out, as are restarts of the server and other commands
  that raise the campaign's revision.
* **SnapshotSync.** One active scene everybody sees. Stamps, which fall back to
  a full snapshot, reconnects and the snapshots of `connect` and `scene:view`
  are left out: the resync a client asks for stands for them. Drawings are
  written by their routes and fog is only created. A message is applied in the
  step that sends it, which is sound because a socket delivers in order and the
  client answers nothing but a late fog event. A read that fails before the
  event of an edit, a drawing or a fog reveal loses it (`LoseEvent`); one that
  fails in the listener of `token:moved` is an unhandled rejection, which stops
  the server. A commit is one step because of the row lock, which every writer
  that is modelled holds.
* **ConnectionPool.** A query needs a connection of its own. The driver may
  also pipeline a query on a busy connection that is not in a transaction; in
  the state the run finds there is none.

* **AbilityPlay.** One pool per character stands for its resources, one die for
  an area. Access roles, the target geometry, the wallet, the chat message and
  the receipts of the sheet commands, whose compare-and-set makes a repeat
  harmless, are left out. A conflict reported by the database is `GiveUp`.
* **Market.** One character; two quotes act as two buyers. Expiry, access and
  the identity of members can only refuse. What a price is made of (stock,
  calendar, factors) is one row, `offer`. The owner of an object, its bindings,
  portraits and the optional change of a characteristic are left out. The
  `actionId` is looked up at the write only, where the unique index decides.
  Consumption and its undo are one step each: their races are in `AbilityPlay`.
* **BugReports.** One message that is not part of an album. The operator attests
  what is true, including that a sender has ended before its delivery is called
  unknown. The id of a claim is its delivery; the flag that halts the drain and
  the receipts of the review commands are left out. A request to the tracker
  takes effect or not; its answer may be lost either way.
* **MediaLibrary.** Retries of one `actionId` carry the same bytes. A
  reservation may run out at any time, also before the candidate that was
  inserted under it by a retry. A removal that fails ends the timer's pass
  (`SweepFails`): its reservations wait for their own end and the file is left.
  The file of a COMMIT whose answer is lost is removed by the code;
  `NamedFilesExist` exempts exactly these, and no property covers that hazard.
  The second file of a poster or a dice frame and the random key of a sprite
  frame are left out; a full disk is `Fail`. Two observations that break none of
  the properties: a preview that races a save or a cancellation may leave a
  reservation until it runs out, and a failing retry releases the reservation it
  shares with its first attempt.
* **RowLocks.** Rows that only one handler locks, or that are reached only under
  an exclusive lock, are left out, as are the transactions of economy, crafting
  and history. The database breaks a circle with 40P01, which only the area,
  undo, creation and economy routes answer with 409. The order of the run is not
  the only one that disagrees: a long rest takes entries before characters, the
  opposite of the order that the comment at `character-play-routes.ts:1176`
  names.

## Not modelled

`PROJECT.json` lists every component with its status and reason. The largest
parts by lines are not protocols:

* **Web client** (`src/apps/web`): components, the renderers, forms and panels.
  What takes part in a protocol, the merge of snapshots and events and the
  intents of rulers and cursors, is in `SnapshotSync` and `CanvasRelay`.
* **Contracts, rules and schema packages**: validation schemas and pure game
  rules, functions of their input. Constraints and defaults of the schema enter
  the modules whose rows they define.
* **Sessions and access, story, chat, encounters, world maps and content, spell
  packs, campaigns, player requests, appearance, archive**: rows of one writer
  or under the common pattern (receipt, revision, one transaction) with nothing
  that interacts. Their models would repeat what `Market` and `AbilityPlay` say
  of that pattern.
* **Audio mixer, soundpad, presence, drag previews**: small process-local
  protocols that are worth a module; they come first in the plan.
* **Bug intake albums**: the protocol of `BugReports` once more, under the lock
  of an album.
* **Life cycle, telemetry, hosting, scripts, seed**: I/O of one machine, one
  operator at a time.

So the map covers a small share of the repository's lines: what is left is for
the most part code without a state to check, and the modules that exist name
only the lines they translate.

## Plan

Done, in this order: mail, history, relay, synchronisation, pool; abilities and
their undo with their ledger, bug intake with its promise, the market, media,
row locks; proofs for all of them except pool and locks.

1. **Soundpad and audio mixer.** Stop generation against the awaits of a
   trigger; the cap on tracks. An abstract "sound starts only before the stop"
   refined by the handler.
2. **Drag previews and presence**, as an extension of `CanvasRelay`: the epoch
   against a change of visibility, the timer against a reconnect.
3. **SnapshotSync**, a second class of writers that do not hold the campaign
   row, and optimistic moves of the client.
4. **Proofs**: an abstract "one canvas for all" that the parts of `SnapshotSync`
   which converge implement; a canvas history without the exemption of drawings,
   for the code with a revision check on restored drawings.
