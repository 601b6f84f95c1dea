# A TLA+ model of nits

nits is a code review tool for local checkouts.  A daemon (`nitsd`) keeps
reviews, comments and suggestions in an append-only event log, follows the
working trees the reviews show, and serves any number of clients: a terminal
and a desktop UI, a web UI, a command line and MCP servers for agents.

These modules model the parts of it where the order of steps decides about
correctness.  TLC checks them on small instances; TLAPS proves what matters
most for every value of the constants.  `PROJECT.json` lists the components,
the runs, the lines of source each definition stands for, the mutants that
show each property can fail, the findings, the hazards and the theorems.

## 1. Inventory

| Component (source) | State | Operations | Talks to |
|---|---|---|---|
| Event log and store (`nits-review-core/src/store`) | log, materialised views, indexes | append with views in one transaction, read, replay, rebuild, migrate | core |
| Core (`review.rs`, `comments.rs`, `anchor.rs`, `repository.rs`, `checkpoints.rs`) | none of its own; the open repositories | mutations: validate, append; resolution of targets; re-anchoring | store, Git |
| Suggestion application (`suggestion_file.rs`) | staging directory in the Git metadata | claim, check, install, restore, unlink | the checkout |
| Daemon (`nitsd/src/daemon.rs`, `admission.rs`, `serve.rs`, `server.rs`) | writer thread and queue, broadcast channels, permits, lifecycle, socket | read, write, publish, prepare_restart, stop | connections, watcher, controller |
| Connections (`connection.rs`, `dispatch.rs`) | subscriptions with watermarks, requests in flight, outbox | subscribe, unsubscribe, request, cancel, drain | daemon, client |
| Watcher (`watcher.rs`) | registrations, pending repositories, last tree | register, debounce, pass over a repository | daemon, file system |
| Ownership, launch, upgrade (`ownership.rs`, `launch.rs`, `upgrade.rs`, `control.rs`) | lock, record of the owner, upgrade operation | start, find, replace a daemon | processes, daemon |
| Client core (`nits-client-core`: `lib.rs`, `events.rs`, `connection.rs`) | connection, last_seq, pending mutations, the open review, drafts | user actions, server messages, optimistic mutations | host, daemon |
| Client content (`content.rs`, `cache.rs`) | memory and disk tier, fetches queued and in flight | open, scroll, answers, eviction | core, host's store, daemon |
| Client forms (`creation.rs`, `ref_selector.rs`, `browse.rs`, `suggestion.rs`) | the creation form and its submission, selector, Browse attempt, suggestion panel | edit, submit, reconcile, select, preview, apply | core, daemon |
| Client navigation (`focus.rs`, `keymap.rs`, `explorer.rs`, `home.rs`) | focus, selection, overlays, pending chords | commands, clicks, lists that arrive | core |
| Hosts (`nits-client-host`, `-web`, `-tauri`), `nits-cli` | sockets, timers | carry messages and effects | client core |
| MCP (`nits-mcp`) | host: tickets, queue, flight, checkpoint; worker: session, event waits | tool calls, restart of the daemon, replacement of the worker | agent, daemon |

**How they interact.**  Every mutation is a job for the one writer thread.  It
appends events; after it, still on that thread, they are broadcast.  Each
connection has a receiver of the broadcasts, a task that reads requests and a
task that writes; a subscription is a replay from the log joined to the
broadcasts.  Reads run beside the writer.  The watcher is a task of its own: it
reads, and mutates through the writer.  A client folds the events into its
view, keeps unanswered mutations on top of it, and resumes after `last_seq`
when it reconnects.  A planned restart closes admission, waits for jobs and
connections, and releases the store to the next daemon.

**What is hard.**  Replay and live delivery meeting without a gap or a repeat;
a bounded backlog; receipts and broadcasts in either order; answers lost with
a connection; mutations that outlive it; draining with cancellations and
panics; replacing a file under an editor, with errors and crashes between any
two system calls; comments that follow text through edits, renames and
interrupted passes; a watcher whose every step can be overtaken; processes that
replace each other over locks, sockets and a journal, any of which may die;
stores of earlier releases whose migration is cut off; operations of several
transactions, each of which may be the last; pages of history that are read
while it grows; a worker that is replaced with requests in it; snapshots, lists,
streams and events that reach a client in any order; slots, pins and budgets of
a cache; forms whose submission may or may not have happened.
`PROJECT.json` lists these hazards with their lines.

**What makes each part correct.**

* feed: no matching event is skipped, each arrives or the peer hears of the loss;
* client: a mutation runs once, is shown when committed, is resent only if it
  never ran; the view misses no event;
* restart: permits count the work, refused work never runs, the store is
  released when nothing can touch it, and an announced restart happens;
* suggestions: no bytes of anybody are lost, only reviewed bytes are replaced,
  a crash can be repaired, a receipt is final;
* comments: the index is exact, live means found and outdated means lost,
  threads stay together, deletion is final;
* watcher: when it is quiet, open reviews show their checkouts and archived
  ones are untouched;
* upgrade: no older build replaces a newer one, a replacement starts when its
  incumbent has closed the store, readiness and receipts are true, a serving
  daemon can be reached, coordinators end;
* store and reviews: the served views are the fold of the log, whatever was
  interrupted; pages and queries agree with it; a viewed mark is about what is
  shown; what an event names stays in Git;
* MCP: the session survives its workers, replies are true, nothing runs twice,
  nobody waits forever;
* client: the screen is never behind what was applied and current when nothing
  is under way, drafts are undisturbed, superseded answers are ignored, forms
  tell what happened, slots balance, motions visit every stop.

## 2. Modules

| Module | Models | Runs | Proofs |
|---|---|---|---|
| `EventFeed` | log, broadcasts, subscriptions of a connection | `event_feed` | `ClientSyncProofs` |
| `ClientSync` (extends `EventFeed`) | client, requests, daemon restarts and crashes | `client_sync`; violation `client_sync_overtaken` | `ClientSyncProofs` |
| `Handover` | abstract: what a daemon promises about its replacement | | |
| `Restart` (implements `Handover`) | admission, draining, shutdown | `restart` | `UpgradeProofs` |
| `SuggestionFile` | the replacement of one file | `comments` | `CommentsProofs` |
| `Reanchor` | comments over a moving tree | `comments` | `CommentsProofs` |
| `Watcher` | the watcher task, checkouts and reviews | `watcher` | `WatcherProofs` |
| `Upgrade` | requests, coordinators, launchers and daemon processes over one store and endpoint | `upgrade` | `UpgradeProofs` |
| `ReviewStore` | the store as functions: fold, migrations, pages, queries | `reviews` | |
| `Reviews` (extends `ReviewStore`) | the operations of the core, crashes, opening a store, a reader of the log | `reviews` | `ReviewsProofs` |
| `McpTools` | tools, their classes and contract | `mcp` | |
| `McpHost` (extends `McpTools`) | MCP host, worker, session, restarts | `mcp` | `McpProofs` |
| `ReviewView` | the review a client shows | `client` | `ClientProofs` |
| `Creation` | the form that creates a review | `client` | `ClientProofs` |
| `Selector` | the reference selector and Browse | `client` | `ClientProofs` |
| `SuggestionOffer` | a suggestion in the client | `client` | `ClientProofs` |
| `ContentCache` | content, its two tiers and its fetches | `content` | `ContentProofs` |
| `Keymap` | key tables, sequences, configuration | `navigation` | |
| `Navigation` (extends `Keymap`) | focus, motions, overlays, scopes | `navigation` | |

The `MC*` modules define the constants of the runs.  `MCComments` and `MCClient`
hold parts that share no state; a behaviour picks one of them at its start.
Where a module takes `Menus` or `Stores`, a behaviour starts by picking one:
what the users and the environment will do and how often, so that many small
scenarios share a run instead of one large product.  A definition whose comment
begins with "Mutant" is a plausible mistake that only the mutants use.

Besides the properties of the runs, the modules state others that no run checks
but section 4 proves: `FeedInv`; `RefusedNeverRan`, `FeedContiguous` and
`AppliedOnce`; `NoLostWakeup`, `ReleasedIsOver` and `RestartInv`;
`ReceiptIsFinal`, `LeftoverIsEvidence` and `SuggestionInv`; `ThreadTogether` and
`FixedComments`; `RegistrationsFollow` and `ArchivedKept`; `NoDowngrade`,
`IncumbentGone`, `ReadyIsConfirmed` and `QueuedCannotActivate`; `NoStaleReply`.

### EventFeed

`log` is the durable log, reduced to each event's topic; `published` is how far
the writer has broadcast; `tail` and `held` are a connection's receiver.
`Append1` is one append of a job, `Publish` the broadcast of one event after it.
`TailReceive`, `TailLagged` and `DeliverLive` are `event_tail` and
`deliver_live`; `SubscribeBegin`, `ReplayOne` and `SubscribeEnd` are the
critical section of `subscribe`, during which only the tail's receiver moves.
A receiver more than `Backlog` behind loses the oldest broadcasts and the peer
is sent `SeqTooOld`.

The subtle part is that one replay serves all scopes of the connection: it
starts at the smallest watermark of the active scopes, sends what each is owed,
and raises all watermarks, so the tail later drops what the replay has sent.
`NoGap` says that neither side leaves an event to the other.

### ClientSync

Extends `EventFeed` with a client per connection (`state`, `last`, `pending`,
`inFlight`), the queue of requests, the writer's jobs and a daemon that drains,
exits, crashes and starts again.  A mutation has one or two events.  A request
left unread on a lost connection (`orphans`) may still be admitted: the read
loop handles frames that arrived before the end of the stream.
`pending[c][k]` takes the values of the client's `PendingDelivery`; the client
resends only `NotAdmitted`.  The answers of a connection come in any order
(`ready` is a set), as its requests run beside each other (`connection.rs:205`).

### Restart and Handover

A request's future (`fut`) and its job (`job`) are separate: a future may be
cancelled, interrupted by the drain or dropped with its connection while the
job, which holds the permit, goes on.  `Register`, `CheckActive`, `Await` and
`Wake` are the loop of `Admission::drained`, one step for each point where
another thread can come in.  A panic kills the writer; its queue is dropped and
the shutdown token is cancelled by a guard.  `Handover` is the promise: work
begins only before a replacement is announced, always ends, and the owner lets
go when none is left; `Replacement` maps `work` to the jobs with a permit.

### SuggestionFile

Directories, a name in each, files with bytes and identity (inode, mode, link
count), and staging directories with `original` and `proposed`.  Every system
call of `WorkingFile::replace_with` is an action, with its failure as another;
`Drop` and `Unwind` are the destructor on every way out; `Crash` is the end of
the process between two calls.  Another program may save (in place or by
rename), delete, change the mode, hold a descriptor, or move the directory.
The order in which a *machine* crash persists directory entries is not
modelled; the calls to `sync_all` appear as steps that can fail.  Bytes written
through a descriptor that was opened before the claim are excepted (`late`), as
`docs/ARCHITECTURE.md` excepts them.

### Reanchor

One repository and one side of a diff.  A tree maps paths to blobs; `Similar`
are the pairs of blobs Git takes for a rename, and `Maps` those between which
the anchored lines are found with an equal context hash, which stands for
`map_range` and `context_hash`.  `Resolve` is the event of a resolution,
`ReanchorOne` one comment of the pass after it, `Fail` an error or crash in the
middle.  Comment mutations run on the same writer thread and therefore between
passes; a draft, however, is anchored to the tree its author saw, and
`AnchorsCurrent` speaks of a comment from the first complete pass after it.

### Watcher

The task is in one of nine places (`pc`), each before an `await`.  Checkouts
have a content tree, a counter for Git metadata, and a submodule whose metadata
lies outside the checkout.  `fs` is the channel from the callbacks, `pending`
the repositories in their quiet period (deadlines are abstracted: any nonempty
set of pending repositories may be due).  Reopening a review is two steps on the
writer, because it resolves before it writes.  A snapshot is one step; in the
code it reads the files one by one, but a change during it also notifies.
The ghosts `missed`, `raced` and `lost` record which exceptions apply: a review
whose last pass failed or resolved a repository elsewhere than the watcher
watches it, one that a change overtook while it was being reopened, and a
membership event that fell out of the backlog.

### Upgrade

Processes share files only: the occupancy lock with its phase byte, the
coordinators' lock, the journal (`jid`, `stage`), the receipts (`outcome`) and
the paths of the two sockets (`app`, `ctl`: whose file is there).  A request and
the daemon its coordinator spawns have one name, as do a launcher and its
daemon.  `pc` is a daemon process from its start over the leases, the store, the
check of a stale socket, binding and serving to the removal of the sockets and
the release; dying drops the locks and leaves the files.  `ask` is the requester
(`begin_inner`, `observe_operation`), `co` the coordinator (`run` to
`start_replacement`), `look` a turn of the loop of `ensure_daemon`; each read of
shared state is a step of its own where another process could come in.
`Revalidate` is one step: the lock keeps others from the journal, and Prepare
asks the daemon again.  A probe of the coordinators' lock takes it for a moment,
so a requester may take another probe for a coordinator (`ProbeLock`).  The
draining that `Restart` details is the one step `Drained`, at any time after
Prepare.  After it has spawned, or found a listener, a launcher changes nothing
and is not followed further.  A build is a digest with a release, a protocol and
a schema; the ghosts `confirmed`, `met` and `overtaken` remember what has served
and been published.

### ReviewStore and Reviews

`ReviewStore` has no variables.  An event is a record of its kind; `ApplyEvent`
is `views::apply` for every kind, `History` the tables after each prefix of the
log, `MigrateEvent` what a schema step rewrites, `ReplayPage` one bounded page
with its cursor, `ListComments` the query by status and activity.

`Reviews` keeps the store, the daemon's phase, the refs that keep trees alive,
the checkouts and a reader.  Since every append is a transaction of its own, an
operation of the core is a *plan*: a sequence of steps (retain trees, append an
event) and whether it then succeeds.  `Mutate` runs a plan whole, `Interrupted`
runs a proper prefix of one and takes the daemon down.  Opening is `Ensure`
(stamp), one `Migrate` per schema version and `OpenViews`, with a crash between
any two.  `Publish` is the broadcast, which wakes a follower; `FollowRegister`,
`FollowLook`, `FollowDecide`, `FollowWake` and `ReadPage` are the steps of
`replay_events` for the reader of `nits events`, which reconnects and resumes.  Git is a working tree, a HEAD
and a branch per checkout, named by numbers; a checkout may be unmounted.

### McpTools and McpHost

The host gives each request a ticket and forwards it, queues it or refuses it;
the worker serves dispatches in order, event waits overlap.  `pending`,
`external`, `queued`, `flight` and `ckpt` are the fields of `Host`; `srv` is the
`Server` in the child, `input` and `output` the lines between them.  `Send` is
the bounded channel, `Handled` and `WorkerMessage` the replies with the new
checkpoint.  A restart runs the activation task beside the loop: it asks the
daemon, prepares a worker from the checkpoint, confirms and reports events,
which the host handles between requests; session calls wait behind it and it
behind them (`Barriers`).  `WorkerDies` may happen at any line.  `ran` records
what the daemon executed and under which idempotency key, `answers` what each
client request was told.  Each handler of the host is a function on the record
`Host` of its state, which `Become` makes the next one.  `queued`, the requesters
of a restart and the runs of a dead worker are sets, since the order in which
management calls are answered tells no property apart; `CompleteAll` answers a
set of requests at once.  `CallMutating` has three ends: it ran, it did not, or,
for the tools of `ResolvesAfter`, it was appended and its resolution failed
("unresolved").  Two of those, `fetch_review` and `ensure_directory_review`, send
plain requests; numbering them like mutations allows more, not less.
`ValidateContract` is checked by the assumption of `MCMcpHost`.

### ReviewView

The daemon's targets move through versions; a client opens reviews by snapshot
or stream, narrows the scope, searches, drafts, loses requests and connections.
`InstallSnapshot` replays the events kept for a request since it was sent
(`KeepForSnapshots`), `SupersedeOpeningContent` cuts a stream off, `HoldBack`
and `DrainDeferred` keep a resolution from moving the lines under a draft.
`NeverBehind` compares the screen with what was applied, `SettledIsCurrent`
with the log once nothing is under way; the ghost `lost` marks what a failed
request or a lost connection took away for good.

### Creation, Selector, SuggestionOffer

`Creation` has the form (`Editing`, `Pending`, `Interrupted`, `Reconciling`, ...),
the lookups that settle a submission, the copy a browser keeps over a reload,
and a daemon whose writes for a lost connection may still come.
`CreatedAsShown`: what is created under a form's id is what it showed when it
was submitted.  `Selector` has the catalog, the query and the selection, the
target updates, and Browse, whose attempt becomes the selection only when its
tree has resolved.  An update that is lost with its connection stays pending
and is neither answered nor sent again; only its event ends the wait for it.
`SuggestionOffer` has `Stage` and inspection; a lost connection or an error
leaves `Uncertain`, and only a new inspection may offer the suggestion again.
After the restart deadline the panel learns of the loss from the transport's
report (`OfferReported`), unless the user connects first.  Closing a review
clears its panel and forgets an application that runs (`cleared`).

### ContentCache

Trees, headers and chunks with sizes, a memory tier in order of use with pins,
the host's store behind it, and fetches that load from disk, queue or are in
flight, `MaxInFlight` at a time.  `Scroll` pins and prefetches around the row;
`RenderStarts` and `FetchAnswer` are the daemon, `Stored` the host, which
answers its loads in any order.  An error in the middle of an opening stream is
left out.  `SlotsExact` counts slots against what is waiting; `QuietIsComplete`
says that when nothing is queued or in flight, the headers of the review and the
visible chunks of the open file are in memory, unless an answer was lost since
the review was opened; of a viewport set before its header came, only the first
chunk is expected.

### Keymap and Navigation

`Keymap` is the built-in table in its order, `Lookup` with its waiting prefixes
and `WithConfig`.  `Navigation` is one record: focus, open file, rows by file and
level of expansion, collapsed folders and files, threads, stepper, selection,
overlays.  `Resolve` turns a command into an action as `focus.rs` does,
`Perform` carries it out as `lib.rs` does, `Derive` is what follows every input
(clamping, realigning after an expansion, opening the first file).
`MotionsWalkTheDocument` compares a motion with the stops of the stacked
document, listed independently of the code's search.

## 3. Runs

| Run | Bounds | Shows |
|---|---|---|
| `event_feed` | 1 connection, 2 overlapping scopes, 2 events, backlog 1, 2 subscribes | `NoGap`, `EventuallySent` |
| `client_sync` | 1 mutation of up to 2 events, 2 connections in turn, 2 events, backlog 1 | `MutationOnce`, `CommittedShown`, `ReceiptResolved` |
| `restart` | 2 connections, 2 requests, 1 upgrade operation | `RestartHappens`; `Replacement`, the refinement of `Handover` |
| `comments` | 2 comments, 2 moves, 1 failed pass, 2 paths, 3 blobs; 2 attempts, 2 edits, 1 directory move, 4 files | `IndexExact`, `AnchorsCurrent`; `AbsentIsRecoverable`, `KeepsBytes`, `ReplacesReviewed` |
| `watcher` | 1 repository, 2 checkouts, 1 change, 2 memberships, 1 archiving or reopening, 1 error, backlog 2 | `QuietIsCurrent`, `EventuallyCurrent` |
| `upgrade` | 2 requests (1 automatic) for one build, 1 launcher of another, 1 fault | `ReceiptIsTrue`, `ServingIsReachable`, `CoordinatorEnds` |
| `reviews` | 3 scenarios of 3 to 5 events (a discussion, rounds of review, repositories), 24 readers, stores of 9 earlier schemas and an unstamped one in every shape, 1 crash | `ServedIsFolded`, `ReplayExact`, `FollowerAwake`, `QueriesAgree`, `ProgressIsTrue`, `NamedIsRetained` |
| `mcp` | 3 menus of 3 calls, 3 tickets over 2 ids, 1 event wait, queue of 2, 1 cancellation, 1 fault, 2 builds | `SessionKept`, `TruthfulOutcome`, `RanOnce`, `CursorsBelong`, `NothingStuck` |
| `client` | 11 menus of the view over 2 reviews of up to 3 versions, 10 of the form, 8 of the selector, 3 of the offer | `NeverBehind`, `SettledIsCurrent`, `DraftUndisturbed`; `CreatedAsShown`, `OutstandingUnlessCut`; `SelectorWaits`, `BrowseIsLatest`; `OfferIsChecked` |
| `content` | 7 menus, 3 paths, contents of 0 to 3 chunks, 2 slots, memory of 5, disk of 6 | `SlotsExact`, `QuietIsComplete` |
| `navigation` | 8 menus of 4 to 6 inputs over 3 files with a gap, a submodule, 2 threads and a stepper | `MotionsWalkTheDocument`, `ReturnsToOrigin` |

Why these bounds are enough to be of interest: two scopes are what it takes for
one replay to move another's watermark, and with a backlog smaller than the log
a receiver lags.  Two connections in turn give a reconnect after a restart or a
crash, with a request left over from the first.  Two requests make one running
while another is queued, refused or cancelled.  Two attempts meet each other's
leftovers.  Two comments make a thread; two moves lose a text and restore it,
or rename its file twice.  Two checkouts are what an id can be moved between,
and the one change of the `watcher` run can fall at any point of the first pass
over a checkout and so asks for a second one.  The launcher of `upgrade` may
have found the store vacant before the first daemon took it, and so can come in
at any point of an upgrade; its build has the release of the target and other
bytes, so that only a comparison of builds tells them apart.  In `reviews` the
page limits are below the length of the log, a comment is as large as a page
and another larger than any event may be, and each earlier schema is entered
with every shape its events had.  In `mcp` three calls are a change of the
session, a mutation or wait, and the restart between them, in any order and
interrupted once.  In `client` a version more than the requests under way makes
each answer stale once; two opens, drafts or attempts make one overtake the
other.  In `content` the memory holds less than two files and there are fewer
slots than visible chunks.  In `navigation` the middle file has no rows and the
first a hidden run.  Where a module has proofs, its safety does not rest on the
bounds.

`CHECK_DEADLOCK FALSE` stands in every configuration because the bounds on
events, edits, inputs and connections end each behaviour, and a daemon may stop;
`NothingStuck` states the absence of a deadlock for the MCP host.

### Fairness

* `EventFeed`: tokio keeps polling the tail and the replay of an open
  connection, and the writer publishes.  `ClientSync`: the writer takes and
  finishes its jobs, the loop of an open connection admits requests or drains,
  answers are sent, a client keeps reading and notices the end of a stream.
  Nothing is assumed about dialling, mutating, subscribing, crashing, and in
  `ClientSync` about the feed or the exit of the daemon.
* `Restart`: jobs end, tasks are polled, the flush timer of the drain fires.
  Nothing is assumed of peers and controllers.
* `Reanchor`, `SuggestionFile`, `Reviews`, `McpHost` and the client's modules:
  none; only safety is checked.  `NothingStuck`, `FollowerAwake`,
  `SettledIsCurrent`, `QuietIsComplete`, `SelectorWaits` and
  `OutstandingUnlessCut` say of a state at rest what liveness would say of the
  way there, and need no fairness.
* `Watcher`: the task and the writer are polled; timers expire.  Edits are
  bounded, so the quiet period ends; a checkout that changes forever within
  150 ms would be passed over forever, in the code as well.
* `Upgrade`: daemons and coordinators run.  Nothing is assumed of requesters
  and launchers, nor that a deadline expires: `CoordinatorEnds` holds without
  them, except when a launcher's daemon takes the vacated store, where only
  `DRAIN_TIMEOUT` or `READY_TIMEOUT` ends the coordinator.

### Violations

`client_sync_overtaken` states what a comment says and TLC shows a behaviour of
the code that contradicts it: a receipt overtakes the broadcast of an earlier
event of somebody else, and the client skips that event for good.  The finding
in `PROJECT.json` quotes the lines.

### Known deviations

The model has these behaviours of the code as they are; the properties name
them as exceptions or assumptions, and no run is spent on them.

Feed and client synchronisation:

* A `Subscribe` with a cursor past the end of the log makes that cursor the
  start of scopes subscribed later (`connection.rs:500`).  `EventFeed` has it
  behind the constant `FutureCursors`, which the run and the proofs set to
  `FALSE`; with `TRUE`, `NoGap` fails.
* A client that lost broadcasts to the backlog is told so under request id 0,
  which it rejects as unknown, and does not subscribe again
  (`connection.rs:284`, `nits-client-core/src/lib.rs:3852`); with `Backlog`
  1 and `MaxMutations` 0 in `ClientSyncOvertaken.cfg`, `MissesNothing` fails for
  this reason alone.

Comments, reviews and store:

* A comment whose lines are lost in the resolution that renames its file keeps
  its last good anchor at the old path, is looked for there and stays
  `Outdated` when the renamed file has the content again (`comments.rs:555`).
  `anchor.rs:15` says that it "comes back to `Live` when
  the content does".
* A comment drafted before a resolution and submitted after it keeps the blob of
  its draft until the checkout changes again (`comments.rs:113`).
* An outdated comment whose file is present gets one more identical
  `CommentReanchored` at every resolution (`anchor.rs:145`).
* Comments of a deleted review can still be replied to and deleted
  (`comments.rs:169`).
* A change of the targets of a review with two repositories is appended before
  both are resolved; when the second fails, the review keeps the new target with
  the old resolution (`review.rs:266` says that it cannot).

Watcher and upgrade:

* A pass that runs while its repository is detached fails and is not repeated;
  if the same checkout is attached again before the watcher handles the two
  events, the registration is kept without a new pass (`watcher.rs:316`).
  `docs/ARCHITECTURE.md:170` says that "repair also
  restores automatic refresh".
* A repository that is detached, attached to another checkout, resolved there by
  a refresh or a reopening, and attached back before the watcher handles the
  events leaves the review with what the other checkout held: the registration
  is as it should be, so no pass follows (`watcher.rs:316`).  `QuietIsCurrent`
  excepts it through `missed`.
* A watcher that lost an attachment to the backlog does not list the
  repositories again (`watcher.rs:80`); `RegistrationsFollow` excepts `lost`.
* After a failed delta the next one starts from a tree that nobody was sent
  (`watcher.rs:322`).
* A change between the two halves of a reopening is missed (`review.rs:246`);
  `QuietIsCurrent` excepts `raced`.
* A submodule added between discovery and registration is not watched
  (`watcher.rs:148`); `Covered` excepts it.
* A coordinator whose incumbent is already draining for an earlier operation
  goes on under that operation's id (`upgrade.rs:636`), so a request queued since
  that id was current does not notice that it was overtaken and activates; it
  takes three requests and two faults.  `docs/DAEMON-UPGRADES.md:51` says that
  its "queued child cannot activate later".  `QueuedCannotActivate` states that
  with this exception and is proved: there is no other.

Client view, content and forms:

* An opening stream that ends in an error or with the connection leaves part of
  the files on screen and the review checkable; so does opening another review
  meanwhile.
* A `ReviewDeleted` that overtakes a snapshot is not among the events kept for
  it; answers to `ListWorkspaces`, `ListReviews` and creation lookups that are
  older than an applied event overwrite it.
* A stale `ListCommits` answer stays in `in_flight`; a search whose answer is an
  error or lost with the connection stays pending.
* A header stream that outlives its review takes the mark of a later load of the
  same header away when it ends (`lib.rs:3819`), so the answer of the host is
  dropped (`content.rs:450`) and nothing asks for the header again; an open file
  then stays blank until the next scroll (`QuietIsComplete` excepts `lost`).
* A tree with another root than the requested one is an error of the core before
  its slot is given back (`lib.rs:4457`), although
  `content.rs:410` says that every response, stream end or error ends a request.
* Fetches queued before a disconnect are not sent after the next `Subscribed`
  until another one ends, and requests made while disconnected take slots
  (`content.rs:421`).
* A stream of a render whose header does not match is accepted chunk by chunk by
  path (`cache.rs:3`); preferences that change during an opening stream still
  get its headers under the old options; a viewport set before its header has
  arrived is not evaluated again.
* The deadline of a restart closes the connection without telling the forms
  (`lifecycle.rs:62`): a submitted creation stays `Pending` and a selector
  `Loading`; a suggestion stays `Applying` or `Checking` until the transport
  reports the end (`lib.rs:3703`), or for good if the user connects before.
  `OutstandingUnlessCut` and `OfferIsChecked` except what was `cut`; `Selector`
  leaves that deadline out.
* A target update that is lost with its connection is never answered or sent
  again (`lib.rs:4045`, `4247`), and only `Loading` selectors are told
  (`lib.rs:3724`): one that is `Saving` waits until the update's event arrives or
  the user closes it, and the entry stays `OutcomeUnknown`.
* An application that still runs when its review is closed and opened again may
  be offered a second time, as the file still reads as it did
  (`suggestion.rs:340`).
* `update_review_target` and its like append their event before they resolve
  (`review.rs:292`); when that fails, the caller gets an error for a change that
  was made.  `TruthfulOutcome` excepts it.
* A creation whose first write commits after the form was edited ends as
  `Interrupted` with different inputs.
* Choosing a Browse revision of another repository while the selector is
  `Saving` leaves it so; a selection by index may meet a catalog that arrived
  after the host drew the list.

Navigation:

* `V` and then `NextFile` carries the selection's rows into another file
  (`focus.rs:462`); expanding a gap realigns the focus and not
  the start of the selection.
* Help, a composer opened over it, help again and the draft discarded leave help
  open with nowhere to return to.
* `j` and `k` refuse on a file without rows, where `docs/UI-DESIGN.md:303` has them
  cross files; `Enter` on a thread takes the last line of its range for a row.
* A sequence that is a prefix of another in a different context is shadowed and
  not reported by `conflicts`; pending chords never expire, where
  `docs/ARCHITECTURE.md` speaks of a short timeout; a rejected key clears them
  but not what the view shows of them; `key` does not look at the mode that
  `modes_of` gives a command.
* The index of a thread or a node is kept while its list changes.

## 4. Proofs

All proofs use the assumptions named in the modules and nothing else; they hold
for any sets of connections, scopes, requests, directories and files.

**CommentsProofs.**  For `SuggestionFile`, `SuggestionInvariant` and from it `AlwaysRecoverable`,
`LeftoversAreEvidence`, `NeverLosesBytes`, `OnlyReviewedReplaced` and
`ReceiptsAreFinal`.  `AbsentIsRecoverable` needs to know that a file has one
name of ours at a time (`OneName`), which entries a staging directory has at
each step (`StageShape`), that what was claimed and checked is the file that was
opened (`ClaimedIsReviewed`), and why each remaining staging directory is there
(`EveryStageExplained`).  One lemma per action that moves a name preserves each
conjunct; the action properties are consequences of the invariant in the state
before the step.

For `Reanchor`, `ReanchorInvariant` and from it `IndexIsExact`,
`AnchorsAreCurrent`, `ThreadsTogether` and `FixedStay`.  A resolution visits the
comments one by one and may break off, so the invariant speaks of the comments
that are still to do and of those that are done: `Threads` compares two comments
of a thread while only one of them has been visited.  `Formed` and
`RenamesCurrent` are what `reanchor_thread` takes for granted of its input: an
outdated comment has a last good anchor in a file, and the renames are those of
the resolved tree.

**ClientSyncProofs.**  For `EventFeed`, `TypeCorrect`, `FeedInvariant` and `NoGapHolds`, assuming
clients present only cursors they were given (`~ FutureCursors`; section 3 says
what happens otherwise).  `NoGap` is not inductive: during a
replay the watermarks lag behind what was sent, and the tail goes on.  `FeedInv`
adds, per connection, that the replay's window holds every watermark and
everything the tail has finished with (`ReplayOK`), that what the replay has
passed it has sent to every scope that was owed it (`ReplaySent`), and that what
the tail passes over is below a watermark or was reported lost
(`TailCovered`).  At `SubscribeEnd` these give the new watermarks.

For `ClientSync`, `SyncInvariant` and from it `MutationsOnce`,
`RefusedStaysOut` and `AppliedInOrder`.  `MutationOnce` says that the log holds
the parts of a mutation once; to keep that, a copy of a mutation has to be in
one place at a time: the request stream (`SentOnce`), left over on a lost
connection, the writer's queue (`QueuedOnce`) or the writer itself (`OnePlace`),
and the parts in the log are those the running job counts (`Recorded`).  A
client sends again what it believes was not admitted, so there must be no copy
and no event of that (`SendableUntouched`), and this must be true of every
refusal on its way as well, before the client has read it (`RefusalsTrue`).
`CopiesMove` and `CopiesVanish` say what moving or dropping a copy preserves;
each action is an instance.  `Followed` places everything that has been folded
in between the first subscription and `last_seq`.

`ToldInvariant` and from it `CommittedIsShown` and `FeedIsContiguous` need the
feed and the client at once.  `Stream` says that every event in a client's queue
is the successor of a position the client has, or is about to be told of, unless
`SeqTooOld` is ahead of it; `Asked`, `Ordered` and `Feeding` tie that to the
replay, to the answer to `Subscribe` and to the position of the live tail.  A
receipt may be read before the broadcast of its event and then moves the
position over it, so `CommittedShown` further needs that a receipt names the
first event of its mutation (`Receipts`), that the job under way wrote the end of
the log (`JobLog`), that a client's mutations lie behind its first subscription
(`Begun`), and that whatever lies behind the client's position has been folded
in, or was skipped by the receipt of a later mutation of its own (`Shown`,
`Skipped`).  Nothing is assumed of the order of receipts, so a mutation whose
receipt comes after that of a later one may never be shown: `Overtaken` is that
exception.  The proof assumes of the
constants that scope `All` accepts every event (`AllAssumption`, which is
`SubscribeScope::All => true` in `daemon.rs`).

**WatcherProofs.**  `WatcherInvariant` and from it `QuietCurrent`,
`RegistrationsAreAttachments` and `ArchivedStay`.  `QuietIsCurrent` compares
reviews with the attached checkouts; no step-by-step argument does, because
attachments move without the watcher.  `NoneBehind` compares them with the
checkouts where they are *watched*: a review that was last resolved there shows
them, or a pass is owed to it (a notification, a quiet period, a place in the
list of work, or a step of the pass under way that still comes to it).
`Following` adds that registrations are attachments unless the list of
repositories is to be read again.  Trying to prove this found the case in which
a review is resolved at a checkout that is not the watched one (*Known
deviations*), which the instances of the run are too small to reach.

**UpgradeProofs.**  For `Upgrade`, `UpgradeInvariant` and from it `ServingReachable`,
`ReceiptsTrue`, `NeverDowngrades`, `ReplacementAfterRelease`,
`ReadinessConfirmed` and `QueuedActivation`.  `Owned` says that one process has
the store and that only this one has files at the two paths from binding to
their removal, which is why nobody removes another's socket.  `Locking`,
`Journal` and `Identity` tie lock, journal and coordinator together: an
operation's id is never used again, so a journal that still has the id a
coordinator wrote is its own.  `Drains` says that a coordinator goes on only
when the daemon that drained for its operation has ended; `Confirms` and
`Receipts` follow "the target has served" from the daemon over the journal and
the receipt to the requester, one conjunct for each source it may learn from.

For `Restart`, `RestartInvariant` gives `DrainSafe`, `RefusedSafe` and
`ReleaseSafe`; `RestartImplementsHandover` the refinement.  The invariant links
the count of permits to the cardinality of the set of jobs (with
`FiniteSetTheorems`), ties the waiter's place to the notification it would miss,
and says which futures a live connection polls.

**ClientProofs.**  For `SuggestionOffer`, `OfferInvariant` gives
`ReadyIsChecked`: requests are numbered in their order (`Numbered`), an
application that is not answered is older than the inspection on which an offer
rests (`Older`) and was lost or forgotten, unless the panel waits for it
(`Live`), and a panel that waits has a request (`Waits`).  For `Selector`,
`SelectorInvariant` gives `NobodyWaitsInVain` and `LatestIsShown`: an id names
one request (`OneEach`), and a request under way carries the repository it was
made for (`ListsRefs`, `LoadsTree`), without which an answer could complete the
wrong list and leave the right one loading; `SavesBrowse` and `SavesSide` say
what a saving selector waits for.  That the selected row is in the filtered list
(`InList`) needs that filtering keeps each rank exactly once, a pigeonhole
argument (`EveryRank`).

For `Creation`, `CreationInvariant` gives `SuccessIsShown` and
`NoFormIsStranded`.  `Holds` says of the form and the requests of its client
that a form which is submitted shows its snapshot, which the defaults that
arrive late cannot change in what would be created, and that a succeeded form
was created (`Settled`); that a request which has committed has its event in the
ledger, with its id and what it submitted (`IsPost`); and that a form which
waits has a request of this connection, unless `cut` (`Waited`).  What the ledger holds under an id and what
several lookups do to a form are folds; both are followed step by step.  The
assumption (`CreationAssumption`) is that another client's title is none of this
user's.

For `ReviewView`, `ViewInvariant` gives `ShownIsRecent` and `DraftKept`.  Every
handler is a function of the client and the daemon's jobs, and `Held` says what
all of them keep, whatever they compose: each open that the daemon has not read
yet remembers every event of its review that the client has handled since it was
asked (`Remembered`), so that a snapshot, however old, is brought up to what was
handled before it came; and the targets on screen are as recent as that, unless
a draft holds back a last event that is (`Recent`).  A step that only fills
lists, opens files or marks something as lost is disposed of once (`Merely`).
The end of a draft applies what was held back one by one, by induction over it.
`ViewAssumption` says that menus are menus.

**ContentProofs.**  `CacheInvariant` gives `SlotsKept`, for every budget, number
of slots and list of files.  `Slotted` says that the slots in use are the
requests that wait, one for each id (`Counted`), that every request the daemon
works on has its entry among them, with its key (`Owed`), and that each mark says
where its fetch is: sent, queued or loading (`Marked`); `Full`, that a fetch
stays queued only when no slot is free or a loss is on record.  In the middle of
a handler `Full` may fail, and the loop over the free slots restores it
(`DrainLoaded`), which is why it is kept apart.  What pins, evicts, writes
through or notes something changes nothing of this and is disposed of once
(`Beside`).  The loops over files, chunks, slots and the queue are folds,
followed by induction.  `CacheAssumption` says that the radius and the limit are
numbers and that there is a first version to list.

**ReviewsProofs.**  `ReviewsInvariant` and from it `ServedFolded`,
`FollowersAwake`, `NamedAreRetained` and `ReplayedExactly`.  The store is a fold of the log, built
again at a start and one event at a time while it serves; `RebuildAppend` says
that these agree, with `RebuildFollows` and `RunProgresses` giving the equations
of the two folds.  Operations are plans that may be interrupted after any step,
so what is needed of them is `Orderly`: an event that names trees is appended right
after the step that keeps them.  `StoreInv` speaks of the store in each phase of
the daemon: the log has shapes of its schema and names only what is kept, and
the tables are its fold once it is migrated and they are up to date.  `Rows` and
`Kept` carry the names from the log to the rows of the tables, from which the
scopes of a review take their trees.  `ReaderInv` is about a follower: beyond
what it has looked at, there is a wake-up or a broadcast still to come.
`ReplayInv` says that a reader has printed the events of its scope up to where it
has scanned, and no others: the window of a page ends where its cursor goes on.
The assumption (`StoresAssumption`) describes the stores a daemon may be started on:
events of known kinds, in shapes of their schema, about reviews created once
before them (`Placed`).

**McpProofs.**  `McpInvariant` and from it `McpSessionKept`,
`McpTruthfulOutcome`, `McpRanOnce`, `McpCursorsBelong`, `McpNothingStuck` and
`McpRepliesAreCurrent`.  Each part of `McpInv` is a predicate of the host's
record, the lines and the worker, so that a handler, which is a composition of
functions on that record, is proved one function at a time.  `Tickets` ties the
host's identifiers to the last request made under them.  `Management` finds each
management call in the queue, in a status call, among the requesters of the
restart or in an event on its way (`Held`), and says that a queue that is not
empty has a session call before it; `Flying` says that a restart under way ends with one event and
that no session call is under way beside it, which is why the checkpoint it
took is still the host's when the new worker is installed.  For requests to the
worker, `OnePlace` and `Somewhere` say that each is in exactly one place while
the worker lives (a line to it, one of its waits, a line from it, or cancelled),
and `Cancels` that a cancellation follows what it cancels; without these a
request could be answered twice or by nobody.  `SessionKept` compares the ends of a
queue of lines, and is inductive only when said of every two lines (`Sessions`):
between them the checkpoint differs only if the answer to a session call is
among them.  `TruthfulOutcome` needs the same of what ran: what is still on its
way to the worker has not begun, and every answer on its way is already true
(`Truths`); what the dead worker left to be done counts as begun.  `Keys` bounds
the idempotency keys in use by those of the session, which a new connection
renews.  `McpRepliesAreCurrent` states that a reply goes to the last request made
under its identifier; each handler answers only requests that nobody cancelled
(`Tells`), and `Tickets` says that these are the last of their identifier.

**Folds.**  The library's induction theorems take an operator as a parameter,
which the installed provers cannot instantiate.  Since `<` on the naturals is
well-founded (`WFMin` of `WellFoundedInduction`), induction over a *set* of
numbers can be proved from it (`NaturalsByStep`): for one given operator the
equations of `FoldLeft` then follow, first that the recursive function behind it
exists and then that it proceeds element by element (`DrainFollows`,
`RebuildFollows` and their like).  Each fold needs lemmas of its own.  `FoldSet`
over sets without an order and functions built with `@@` and `:>` stay opaque.

Both proved and among the properties of the runs are `NoGap`, `Replacement`,
`AbsentIsRecoverable`, `KeepsBytes`, `ReplacesReviewed`, `MutationOnce`, `CommittedShown`,
`IndexExact`, `AnchorsCurrent`, `QuietIsCurrent`, `ServingIsReachable`,
`ReceiptIsTrue`, `ServedIsFolded`, `ReplayExact`, `FollowerAwake`, `NamedIsRetained`,
`SessionKept`, `TruthfulOutcome`, `RanOnce`, `CursorsBelong`, `NothingStuck`,
`NeverBehind`, `DraftUndisturbed`, `CreatedAsShown`, `OutstandingUnlessCut`,
`OfferIsChecked`, `SelectorWaits`, `BrowseIsLatest` and `SlotsExact`.  The parts of the
inductive invariants were first checked with TLC on the instances of the runs,
or follow from a proof that holds for them too.

**Only model-checked.**

* Liveness (`EventuallySent`, `ReceiptResolved`, `RestartHappens`,
  `EventuallyCurrent`, `CoordinatorEnds`): the prover has no rules for fairness.
* `QueriesAgree` and `ProgressIsTrue` of `Reviews`: what queries and counts
  compute of the tables, a fold within each.
* `SettledIsCurrent` of `ReviewView`: it needs every request of the client, and
  what its answer would still change, in the invariant.
* `QuietIsComplete` of `ContentCache`, which needs what eviction chooses and each
  answer brings; `MotionsWalkTheDocument` and `ReturnsToOrigin` of `Navigation`,
  whose documents nest several folds.

## 5. Plan

Done, in this order because the log and its delivery are what everything else
rests on: `EventFeed`, `ClientSync`, `Restart`, `SuggestionFile`, `Reanchor`,
`Watcher`, `Upgrade`; then what is built on them: `McpTools` and `McpHost`,
`ReviewStore` and `Reviews`, `ReviewView`, `Creation`, `Selector`,
`SuggestionOffer`, `ContentCache`, `Keymap` and `Navigation`; then the proofs of
section 4.

Next, proofs: `SettledIsCurrent` of `ReviewView`, on top of `ViewInvariant`, and
`QuietIsComplete` of `ContentCache`, on top of `CacheInvariant`.

## 6. Not modelled

* Rendering, highlighting and patches: pure functions of text; which blobs share
  the anchored lines is a constant of `Reanchor`.
* Git itself, whose snapshots, refs and renames are external choices.
* The command line except the reader of `nits events`, daemon contexts and the
  client operations shared with MCP: each request is modelled where it is served.
* The hosts, which pass messages through; configuration; serialisation; the
  fixtures and the test support.  Frames are assumed ordered and whole until a
  connection ends, as Unix sockets and WebSockets give them.
* Of navigation: the Browse tab, recorded originals, links to references, and
  the commands that only submit or connect; the head of a stepped review is
  assumed to be a working tree.
* Of the fold of events in the client: what a comment looks like.  Events carry
  no payload beyond what a property distinguishes.
