----------------------------- MODULE ReviewView -----------------------------
(***************************************************************************)
(* The review a client has on screen (crates/nits-client-core).  The       *)
(* daemon's targets move on while the client opens the review, narrows its *)
(* scope, searches it, writes a draft and loses its connection; snapshots, *)
(* streamed opens, file lists, commit lists and events are read at         *)
(* different moments and arrive in any order.                              *)
(*                                                                         *)
(* A version of a review stands for its resolved targets; FilesAt gives    *)
(* the changed files of a version in a scope, in daemon order.  Trees,     *)
(* headers and chunks are in ContentCache, mutations in ClientSync.        *)
(***************************************************************************)
EXTENDS Integers, Sequences, FiniteSets, SequencesExt, TLC

CONSTANTS
  Reviews,          \* the reviews of the daemon: positive numbers
  Scopes,           \* the scopes besides "All" a user may pick; "Worktree" is one
  FilesAt,          \* [Reviews -> [{"All"} \cup Scopes -> Seq(Seq(file))]], by version
  Menus             \* bounds: how often each user action, resolution and fault may happen

NoReview == 0                    \* Reviews are positive numbers
Nothing == 0                     \* no request, no version, no file

ASSUME ViewAssumption ==
  Menus \subseteq [reviews : SUBSET Reviews, events : Nat, open : Nat, close : Nat, scope : Nat,
                   prefs : Nat, search : Nat, draft : Nat, fail : Nat, disconnect : Nat,
                   tier : {"OpenReview", "ReviewSnapshot"}]

AnyScope == {"All"} \cup Scopes

VARIABLES
  log,    \* the committed ReviewTargetsResolved events: a sequence of reviews
  seen,   \* how many of them the client has handled
  jobs,   \* the requests the daemon works on
  core,   \* the client; "lost" is a history variable: something the screen
          \* needs was lost, and nothing that is under way will replace it
  left    \* what remains of the chosen menu

viewVars == <<log, seen, jobs, core, left>>

\* The version of a review after n events: every resolution is a new one.
VersionAt(r, n) == 1 + Cardinality({i \in 1..n : log[i] = r})
Current(r) == VersionAt(r, Len(log))

\* The renders of a review's changed files under the given options.
Renders(r, v, scope, opts) ==
  [k \in DOMAIN FilesAt[r][scope][v] |-> [file |-> FilesAt[r][scope][v][k], opts |-> opts]]

NoSearch == [open |-> FALSE, query |-> Nothing, pending |-> FALSE, hits |-> Nothing]

Closed == [open |-> NoReview, committed |-> Nothing, scope |-> "All", scopedAt |-> Nothing,
           files |-> <<>>, openFile |-> Nothing, draft |-> FALSE, pendingRefresh |-> FALSE,
           deferred |-> <<>>, latestFiles |-> Nothing, latestCommits |-> Nothing,
           stepper |-> Nothing, byCommit |-> FALSE, search |-> NoSearch, latestSearch |-> Nothing,
           lost |-> FALSE, connection |-> "Subscribed", latestOpen |-> Nothing, opts |-> 1,
           inFlight |-> <<>>, snapshotEvents |-> <<>>]

\* What a client keeps when it closes a review.
Survives == {"connection", "latestOpen", "opts", "inFlight", "snapshotEvents"}

ViewInit ==
  /\ log = <<>> /\ seen = 0 /\ jobs = {}
  /\ core = Closed
  /\ left \in Menus

-----------------------------------------------------------------------------
(* A handler maps the client and the daemon's jobs to new ones.            *)

State == [c |-> core, jobs |-> jobs]

FreshId(s) ==
  LET used == {j.id : j \in s.jobs} \cup DOMAIN s.c.inFlight
                \cup {s.c.latestOpen, s.c.latestFiles, s.c.latestCommits, s.c.latestSearch}
  IN CHOOSE i \in 1..(Cardinality(used) + 1) : i \notin used

With(f, id, w) == [k \in DOMAIN f \cup {id} |-> IF k = id THEN w ELSE f[k]]
Without(f, id) == [k \in DOMAIN f \ {id} |-> f[k]]

Waiting(kind, r, scope) == [kind |-> kind, review |-> r, scope |-> scope, content |-> "AwaitingSnapshot"]

(* Sent to the daemon only while there is a writer; the core records the   *)
(* request in any case, so one made while disconnected is never answered.  *)
Request(s, w, query) ==
  LET id == FreshId(s)
      opens == w.kind \in {"OpenReview", "ReviewSnapshot"}
      sent == s.c.connection # "Disconnected"
  IN [c |-> [s.c EXCEPT
               !.inFlight = With(@, id, w),
               !.snapshotEvents = IF opens THEN With(@, id, [review |-> w.review, events |-> {}]) ELSE @,
               !.latestOpen = IF opens THEN id ELSE @,
               !.latestFiles = IF w.kind = "ListFiles" THEN id ELSE @,
               !.latestCommits = IF w.kind = "ListCommits" THEN id ELSE @,
               !.latestSearch = IF w.kind = "Search" THEN id ELSE @,
               !.lost = @ \/ ~sent],
      jobs |-> s.jobs \cup
        (IF sent THEN {[id |-> id, kind |-> w.kind, review |-> w.review, scope |-> w.scope,
                        opts |-> s.c.opts, query |-> query, stage |-> "asked", at |-> Len(log), sent |-> 0]}
         ELSE {})]

\* The request is answered: its entries go, and the daemon is done with it.
Retire(s, id) ==
  [c |-> [s.c EXCEPT !.inFlight = Without(@, id), !.snapshotEvents = Without(@, id)],
   jobs |-> {j \in s.jobs : j.id # id}]

CloseReview(s) ==
  [s EXCEPT !.c = [f \in DOMAIN Closed |-> IF f \in Survives THEN s.c[f] ELSE Closed[f]]]

ListFiles(s) == Request(s, Waiting("ListFiles", s.c.open, s.c.scope), Nothing)
ListCommits(s) == Request(s, Waiting("ListCommits", s.c.open, "All"), Nothing)

\* Mutant: an event that overtook its snapshot is forgotten.
InstallsAsRead(s, id, r, at) ==
  LET closed == CloseReview([s EXCEPT !.c.snapshotEvents = Without(@, id)])
  IN ListCommits([closed EXCEPT !.c.open = r, !.c.committed = VersionAt(r, at)])

(* Events that overtook the snapshot are applied on top of it.             *)
InstallSnapshot(s, id, r, at) ==
  LET later == {n \in s.c.snapshotEvents[id].events : n > at}
      upTo == CHOOSE n \in {at} \cup later : \A m \in later : m <= n
      closed == CloseReview([s EXCEPT !.c.snapshotEvents = Without(@, id)])
  IN ListCommits([closed EXCEPT !.c.open = r, !.c.committed = VersionAt(r, upTo)])

\* Mutant: the stream that is under way goes on filling the file list.
KeepsStreaming(s, r) == s

SupersedeOpeningContent(s, r) ==
  [s EXCEPT !.c.inFlight = [id \in DOMAIN @ |->
      IF @[id].kind = "OpenReview" /\ @[id].review = r /\ @[id].content = "Streaming"
      THEN [@[id] EXCEPT !.content = "Superseded"] ELSE @[id]]]

AutoOpenFirst(s) ==
  [s EXCEPT !.c.openFile = IF @ = Nothing /\ s.c.files # <<>> THEN s.c.files[1].file ELSE @]

ReviewFiles(s, files) ==
  AutoOpenFirst([s EXCEPT
    !.c.files = files,
    !.c.openFile = IF \E k \in DOMAIN files : files[k].file = @ THEN @ ELSE Nothing])

ClearFiles(s) == [s EXCEPT !.c.files = <<>>, !.c.openFile = Nothing]

ApplyScope(s, scope) ==
  IF s.c.open = NoReview \/ s.c.scope = scope THEN s
  ELSE LET t == SupersedeOpeningContent(
                  ClearFiles([s EXCEPT !.c.scope = scope, !.c.scopedAt = Nothing]), s.c.open)
       IN IF s.c.connection = "Subscribed" THEN ListFiles(t)
          ELSE [t EXCEPT !.c.lost = TRUE]

\* Mutant: the refresh disturbs a draft that is open.
AppliesAtOnce(s, n) ==
  IF s.c.open # log[n] THEN s
  ELSE ListCommits(ListFiles(SupersedeOpeningContent(
         ClearFiles([s EXCEPT !.c.committed = VersionAt(log[n], n)]), log[n])))

\* Whoever awaits a snapshot of the review keeps the event for it.
KeepForSnapshots(s, n) ==
  LET kept == s.c.snapshotEvents
  IN [s EXCEPT !.c.snapshotEvents = [id \in DOMAIN kept |->
       IF kept[id].review = log[n] THEN [review |-> log[n], events |-> kept[id].events \cup {n}] ELSE kept[id]]]

HoldBack(s, n) == [s EXCEPT !.c.deferred = Append(@, n), !.c.pendingRefresh = TRUE]

(* New targets of the open review: the lists are cleared and asked again.  *)
NewTargets(s, n) ==
  LET moved == ClearFiles([s EXCEPT !.c.committed = VersionAt(log[n], n), !.c.scopedAt = Nothing,
                                    !.c.lost = FALSE])
  IN ListCommits(ListFiles(SupersedeOpeningContent(moved, log[n])))

(* Event n of the log reaches the core, or is drained after a draft.       *)
ApplyEvent(s, n) ==
  LET kept == KeepForSnapshots(s, n)
  IN IF s.c.open # log[n] THEN kept
     ELSE IF s.c.draft THEN HoldBack(kept, n) ELSE NewTargets(kept, n)

DrainDeferred(s) ==
  FoldLeft(ApplyEvent, [s EXCEPT !.c.deferred = <<>>, !.c.pendingRefresh = FALSE], s.c.deferred)

(* The explicit "check current" action; whether chunks of the open file    *)
(* are missing is content and left out.                                    *)
CheckCurrentReady(c) ==
  /\ c.open # NoReview
  /\ c.latestFiles = Nothing
  /\ ~c.pendingRefresh
  /\ \A id \in DOMAIN c.inFlight :
       ~ /\ c.inFlight[id].kind = "OpenReview" /\ c.inFlight[id].review = c.open
         /\ c.inFlight[id].content \in {"AwaitingSnapshot", "Streaming"}

-----------------------------------------------------------------------------
(* What arrives from the daemon.                                           *)

StreamedSnapshot(s, j, at) ==
  LET t == InstallSnapshot(s, j.id, j.review, at)
      current == t.c.committed = VersionAt(j.review, at)
      next == IF current THEN t ELSE ListFiles(t)
  IN [next EXCEPT !.c.inFlight[j.id].content = IF current THEN "Streaming" ELSE "Superseded"]

(* A header rendered under other options than the present ones is taken    *)
(* too: that list is not the one the user asked for (lost).                *)
StreamedHeader(s, j, render) ==
  IF s.c.open = j.review /\ ~ \E k \in DOMAIN s.c.files : s.c.files[k] = render
  THEN [s EXCEPT !.c.files = Append(@, render), !.c.lost = @ \/ render.opts # s.c.opts] ELSE s

\* Items of an open that was superseded or is not the latest are ignored.
Ignored(c, j) ==
  j.kind = "OpenReview" /\ (c.inFlight[j.id].content = "Superseded" \/ c.latestOpen # j.id)

(* A header is lost to the list on screen when a later open is awaited.    *)
Overtaken(s, j) ==
  [s EXCEPT !.c.lost = @ \/ /\ s.c.open = j.review
                            /\ s.c.inFlight[j.id].content = "Streaming"]

StreamEnd(s, j) ==
  LET streaming == /\ s.c.latestOpen = j.id /\ s.c.open = j.review
                   /\ s.c.inFlight[j.id].content = "Streaming"
      t == Retire(s, j.id)
  IN IF streaming THEN AutoOpenFirst(t) ELSE t

SnapshotAnswer(s, j, at) ==
  IF s.c.latestOpen # j.id THEN Retire(s, j.id)
  ELSE Retire(ListFiles(InstallSnapshot(s, j.id, j.review, at)), j.id)

MatchesCurrent(c, j, at) ==
  /\ c.open = j.review /\ c.scope = j.scope
  /\ (j.scope # "All" \/ c.committed = VersionAt(j.review, at))

FilesAnswer(s, j, at) ==
  LET v == VersionAt(j.review, at)
      t == [s EXCEPT !.c.latestFiles = Nothing,
                     !.c.scopedAt = IF j.scope # "All" THEN v ELSE @]
  IN IF s.c.latestFiles = j.id /\ MatchesCurrent(s.c, j, at)
     THEN Retire(ReviewFiles(t, Renders(j.review, v, j.scope, s.c.opts)), j.id)
     ELSE Retire(s, j.id)

(* An answer that was overtaken leaves its in-flight entry behind.         *)
CommitsAnswer(s, j, at) ==
  LET t == [s EXCEPT !.c.latestCommits = Nothing, !.c.byCommit = FALSE,
                     !.c.stepper = VersionAt(j.review, at)]
      done == [s EXCEPT !.jobs = @ \ {j}]
  IN IF s.c.latestCommits # j.id THEN done
     ELSE IF s.c.open = NoReview THEN Retire([s EXCEPT !.c.latestCommits = Nothing], j.id)
     ELSE Retire(IF s.c.byCommit THEN ApplyScope(t, "Worktree") ELSE t, j.id)

SearchAnswer(s, j) ==
  Retire(IF s.c.latestSearch = j.id /\ s.c.search.open
         THEN [s EXCEPT !.c.latestSearch = Nothing, !.c.search.hits = j.query, !.c.search.pending = FALSE]
         ELSE s, j.id)

Answer(s, j, at) ==
  CASE j.kind = "ReviewSnapshot" -> SnapshotAnswer(s, j, at)
    [] j.kind = "ListFiles" -> FilesAnswer(s, j, at)
    [] j.kind = "ListCommits" -> CommitsAnswer(s, j, at)
    [] j.kind = "Search" -> SearchAnswer(s, j)

(* The request failed: the error is shown, nothing is asked again.         *)
Failed(s, j) ==
  LET t == Retire(s, j.id)
  IN IF j.kind \in {"OpenReview", "ReviewSnapshot"} /\ s.c.latestOpen # j.id THEN t
     ELSE [t EXCEPT !.c.lost = TRUE]

-----------------------------------------------------------------------------
(* Steps                                                                   *)

Install(s) == core' = s.c /\ jobs' = s.jobs

Spend(what) == left[what] > 0 /\ left' = [left EXCEPT ![what] = @ - 1]

\* The watcher or a writer records new targets of a review.
Resolves == \E r \in left.reviews :
  /\ Spend("events")
  /\ Current(r) < Len(FilesAt[r]["All"])
  /\ log' = Append(log, r)
  /\ UNCHANGED <<seen, jobs, core>>

\* The next event of the subscription: live, or in the replay after Connecting.
Event ==
  /\ core.connection # "Disconnected" /\ seen < Len(log)
  /\ seen' = seen + 1
  /\ Install(ApplyEvent(State, seen + 1))
  /\ UNCHANGED <<log, left>>

\* The job reads the store some time after it was asked.
Response == \E j \in jobs : \E at \in j.at..Len(log) :
  /\ j.kind # "OpenReview"
  /\ Install(Answer(State, j, at))
  /\ UNCHANGED <<log, seen, left>>

\* An opening stream reads the review and then, later, its files.
StreamItem == \E j \in jobs : \E at \in j.at..Len(log) :
  /\ j.kind = "OpenReview"
  /\ j.stage = "files" => at = j.at
  /\ LET renders == Renders(j.review, VersionAt(j.review, at), "All", j.opts)
         on == [j EXCEPT !.stage = IF @ = "asked" THEN "snapshot" ELSE "files", !.at = at,
                         !.sent = IF j.stage = "asked" THEN 0 ELSE @ + 1]
         s == [State EXCEPT !.jobs = (@ \ {j}) \cup {on}]
     IN \/ /\ j.stage = "asked"
           /\ Install(IF Ignored(core, j) THEN s ELSE StreamedSnapshot(s, j, at))
        \/ /\ j.stage # "asked" /\ j.sent < Len(renders)
           /\ Install(IF Ignored(core, j) THEN Overtaken(s, j)
                      ELSE StreamedHeader(s, j, renders[j.sent + 1]))
        \/ /\ j.stage # "asked" /\ j.sent = Len(renders)
           /\ Install(StreamEnd(State, j))
  /\ UNCHANGED <<log, seen, left>>

Error == \E j \in jobs :
  /\ Spend("fail")
  /\ Install(Failed(State, j))
  /\ UNCHANGED <<log, seen>>

Disconnected ==
  /\ core.connection # "Disconnected" /\ Spend("disconnect")
  /\ Install([c |-> [core EXCEPT !.connection = "Disconnected", !.inFlight = <<>>,
                                 !.snapshotEvents = <<>>, !.latestOpen = Nothing,
                                 !.lost = @ \/ jobs # {}],
              jobs |-> {}])
  /\ UNCHANGED <<log, seen>>

Reconnects ==
  /\ core.connection = "Disconnected"
  /\ core' = [core EXCEPT !.connection = "Connecting"]
  /\ UNCHANGED <<log, seen, jobs, left>>

\* The daemon replays the gap before it answers the subscribe.
Subscribed ==
  /\ core.connection = "Connecting" /\ seen = Len(log)
  /\ core' = [core EXCEPT !.connection = "Subscribed"]
  /\ UNCHANGED <<log, seen, jobs, left>>

\* With a disk tier the review is opened piecewise, otherwise as a stream.
OpenReview == \E r \in left.reviews, kind \in {"OpenReview", "ReviewSnapshot"} :
  /\ core.connection = "Subscribed" /\ Spend("open")
  /\ kind = left.tier
  /\ Install(Request(State, Waiting(kind, r, "All"), Nothing))
  /\ UNCHANGED <<log, seen>>

CloseOpenReview ==
  /\ core.open # NoReview /\ Spend("close")
  /\ Install(CloseReview([State EXCEPT !.c.latestOpen = Nothing]))
  /\ UNCHANGED <<log, seen>>

SetScope == \E scope \in AnyScope :
  /\ core.connection = "Subscribed" /\ core.open # NoReview /\ Spend("scope")
  /\ core.scope # scope
  /\ Install(ApplyScope(State, scope))
  /\ UNCHANGED <<log, seen>>

ByCommit ==
  /\ core.connection = "Subscribed" /\ core.open # NoReview /\ Spend("scope")
  /\ Install(IF core.stepper = Nothing THEN ListCommits([State EXCEPT !.c.byCommit = TRUE])
             ELSE ApplyScope(State, "Worktree"))
  /\ UNCHANGED <<log, seen>>

SetRenderOpts ==
  /\ Spend("prefs")
  /\ LET s == [State EXCEPT !.c.opts = 3 - @]
     IN Install(IF core.open = NoReview THEN s
                ELSE IF core.connection = "Subscribed" THEN ListFiles(ClearFiles(s))
                ELSE [ClearFiles(s) EXCEPT !.c.lost = TRUE])
  /\ UNCHANGED <<log, seen>>

ContentSearch == \E q \in {Nothing, 1, 2} :
  /\ core.open # NoReview /\ Spend("search")
  /\ LET s == [State EXCEPT !.c.latestSearch = Nothing,
                 !.c.search = IF q = Nothing THEN NoSearch
                              ELSE [open |-> TRUE, query |-> q, pending |-> TRUE, hits |-> Nothing]]
     IN IF q = Nothing THEN Install(s)
        ELSE /\ core.connection = "Subscribed"
             /\ Install(Request(s, Waiting("Search", core.open, core.scope), q))
  /\ UNCHANGED <<log, seen>>

DraftOpened ==
  /\ core.open # NoReview /\ ~core.draft /\ Spend("draft")
  /\ core' = [core EXCEPT !.draft = TRUE]
  /\ UNCHANGED <<log, seen, jobs>>

\* Submitted or discarded.
DraftClosed ==
  /\ core.draft
  /\ Install(DrainDeferred([State EXCEPT !.c.draft = FALSE]))
  /\ UNCHANGED <<log, seen, left>>

ViewNext ==
  \/ Resolves \/ Event \/ Response \/ StreamItem \/ Error
  \/ Disconnected \/ Reconnects \/ Subscribed
  \/ OpenReview \/ CloseOpenReview \/ SetScope \/ ByCommit \/ SetRenderOpts
  \/ ContentSearch \/ DraftOpened \/ DraftClosed

ViewSpec == ViewInit /\ [][ViewNext]_viewVars

-----------------------------------------------------------------------------
(* Properties                                                              *)

\* The shown targets are never older than an event the client has handled
\* for the open review, however snapshots and events overtake each other;
\* only a draft holds them back (install_snapshot, apply_event).
NeverBehind ==
  core.open # NoReview =>
    \/ core.committed >= VersionAt(core.open, seen)
    \/ core.draft /\ core.deferred # <<>> /\ core.pendingRefresh

\* When everything has arrived and no answer was lost, the screen shows the
\* daemon's targets, the files of the picked scope under the current render
\* options, an open file of that list and the commits of those targets, and
\* nothing is awaited any more.
SettledIsCurrent ==
  LET r == core.open
      v == Current(r)
      settled == /\ r # NoReview /\ core.connection = "Subscribed" /\ jobs = {}
                 /\ seen = Len(log) /\ ~core.draft /\ ~core.lost
  IN settled =>
       /\ core.committed = v /\ core.stepper = v
       /\ core.files = Renders(r, v, core.scope, core.opts)
       /\ core.scope = "All" \/ core.scopedAt = v
       /\ core.files # <<>> => \E k \in DOMAIN core.files : core.files[k].file = core.openFile
       /\ ~core.byCommit /\ CheckCurrentReady(core)

\* Nothing an event brings moves the targets, the scope or the open file
\* under a draft: only replacing or closing the review ends it.
DraftStep ==
  core.draft /\ core'.draft /\ seen' # seen =>
    core'.committed = core.committed /\ core'.files = core.files /\ core'.openFile = core.openFile
DraftUndisturbed == [][DraftStep]_viewVars
=============================================================================
