---------------------------- MODULE ReviewStore ----------------------------
(***************************************************************************)
(* The event store of nits-review-core (src/store): an append-only log of  *)
(* events, the tables derived from it, the walk of an old store to the     *)
(* current schema, bounded pages of history and the queries over the       *)
(* tables.                                                                 *)
(*                                                                         *)
(* Everything here is a function of the log and of the tables; Reviews     *)
(* holds them as variables and is the only writer.  A sequence number is a *)
(* position in the log, and 0 stands for "no event".                       *)
(***************************************************************************)
EXTENDS Integers, FiniteSets, SequencesExt

CONSTANTS
    ScanLimit,      \* REPLAY_SCAN_LIMIT: records scanned for one page
    PageBytes,      \* REPLAY_PAGE_BYTES
    EventBytes      \* REPLAY_EVENT_BYTES

ASSUME StoreAssumption ==
    ScanLimit \in Nat \ {0} /\ PageBytes \in Nat \ {0} /\ EventBytes \in Nat \ {0}

---------------------------------------------------------------------------
(* Events.  Each has a kind and `rv`, its review ("-" when it has none);   *)
(* the other fields depend on the kind.  `size` is its encoded length, and *)
(* `form` the shape its schema gave it.                                    *)

NoReview == "-"

(* The fields that every event has; the kind adds its own.                 *)
Header(kind, rv) == [kind |-> kind, rv |-> rv, size |-> 1, form |-> "now"]

Event(kind, rv, fields) ==
    [x \in DOMAIN Header(kind, rv) \cup DOMAIN fields |->
        IF x \in DOMAIN fields THEN fields[x] ELSE Header(kind, rv)[x]]

(* enum EventBody.                                                         *)
EventKinds ==
    {"WorkspaceCreated", "WorkspaceUpdated", "RepoAttached", "RepoDetached", "ReviewCreated",
     "ReviewUpdated", "ReviewTargetUpdated", "ReviewDeleted", "ReviewTargetsResolved",
     "CommentCreated", "CommentEdited", "CommentDeleted", "CommentReanchored", "ThreadDeferred",
     "ThreadResolved", "ThreadUnresolved", "SuggestionApplied", "FileViewed", "FileUnviewed",
     "ReviewRequested", "ReviewChecked"}

(* The events that name revisions, and those that dispose of a thread.     *)
Naming == {"ReviewTargetsResolved", "ReviewRequested", "ReviewChecked"}
Disposals == {"ThreadDeferred", "ThreadResolved", "ThreadUnresolved"}

(* EventBody::review_id: the events about a review that there is already.  *)
AboutReview ==
    EventKinds \ {"WorkspaceCreated", "WorkspaceUpdated", "RepoAttached", "RepoDetached", "ReviewCreated"}

(* The reviews that the first n events of a log created.                   *)
CreatedReviews(log, n) == {log[i].rv : i \in {j \in 1..n : log[j].kind = "ReviewCreated"}}

(* EventBody::workspace_id, for events about a workspace.                  *)
WorkspaceOf(e) == IF "ws" \in DOMAIN e THEN {e.ws} ELSE {}

---------------------------------------------------------------------------
(* The view tables.  A table is a function on the keys it holds.           *)

NoRow == [x \in {} |-> 0]

NoViews ==
    [workspaces |-> NoRow,      \* workspace -> repository -> checkout
     reviews |-> NoRow,         \* struct ReviewRecord
     comments |-> NoRow,        \* <<review, comment>>
     threads |-> NoRow,
     suggestions |-> NoRow,     \* <<review, comment>> -> applied?
     viewed |-> NoRow,          \* <<review, repository>>: one path per repository
     requests |-> NoRow,        \* <<review, seq>>
     checkpoints |-> NoRow]

Put(table, key, row) == [k \in DOMAIN table \cup {key} |-> IF k = key THEN row ELSE table[k]]
Without(table, keys) == [k \in DOMAIN table \ keys |-> table[k]]

(* What `apply` reports as Inconsistent: an event about a row that is not  *)
(* there.                                                                  *)
Applies(v, e) ==
    CASE e.kind \in {"WorkspaceUpdated", "RepoAttached", "RepoDetached"} -> e.ws \in DOMAIN v.workspaces
      [] e.kind \in {"ReviewUpdated", "ReviewDeleted", "ReviewTargetsResolved", "FileViewed"} ->
            e.rv \in DOMAIN v.reviews
      [] e.kind = "ReviewTargetUpdated" ->
            e.rv \in DOMAIN v.reviews /\ e.repo \in DOMAIN v.reviews[e.rv].targets
      [] e.kind = "CommentCreated" ->
            /\ e.rv \in DOMAIN v.reviews
            /\ <<e.rv, e.thread>> \in DOMAIN v.threads \/ e.thread = e.comment
      [] e.kind \in {"CommentEdited", "CommentDeleted", "CommentReanchored"} ->
            <<e.rv, e.comment>> \in DOMAIN v.comments
      [] e.kind \in Disposals ->
            <<e.rv, e.thread>> \in DOMAIN v.threads
      [] e.kind = "SuggestionApplied" -> <<e.rv, e.comment>> \in DOMAIN v.suggestions
      [] OTHER -> TRUE

(* ThreadResolution::for_root.                                             *)
ResolutionForRoot(intent) == IF intent = "Informational" THEN "Informational" ELSE "Open"

CommentCreated(v, e) ==
    LET key == <<e.rv, e.comment>>
        slot == <<e.rv, e.thread>>
        thread == IF slot \in DOMAIN v.threads
                  THEN [v.threads[slot] EXCEPT !.replies = Append(@, e.comment)]
                  ELSE [root |-> e.comment, replies |-> <<>>,
                        resolution |-> ResolutionForRoot(e.intent)]
    IN [v EXCEPT !.threads = Put(@, slot, thread),
                 !.comments = Put(@, key, [thread |-> e.thread, author |-> e.by, repo |-> e.repo,
                                           at |-> e.at, state |-> e.state, edits |-> 0]),
                 !.suggestions = IF e.intent = "Suggestion" THEN Put(@, key, FALSE) ELSE @]

(* views::apply: one event, at its sequence number.                        *)
ApplyReviewEvent(v, e) ==
    CASE e.kind = "ReviewCreated" ->
            [v EXCEPT !.reviews = Put(@, e.rv, [ws |-> e.ws, status |-> "Open", targets |-> e.targets,
                                               resolved |-> NoRow, live |-> TRUE])]
      [] e.kind = "ReviewUpdated" -> [v EXCEPT !.reviews[e.rv].status = e.status]
      [] e.kind = "ReviewTargetUpdated" -> [v EXCEPT !.reviews[e.rv].targets[e.repo] = e.target]
      [] e.kind = "ReviewDeleted" -> [v EXCEPT !.reviews[e.rv].live = FALSE]
      [] e.kind = "ReviewTargetsResolved" -> [v EXCEPT !.reviews[e.rv].resolved = e.resolved]

ApplyThreadEvent(v, e) ==
    [v EXCEPT !.threads[<<e.rv, e.thread>>].resolution =
        CASE e.kind = "ThreadDeferred" -> "Deferred"
          [] e.kind = "ThreadResolved" -> "Resolved"
          [] e.kind = "ThreadUnresolved" -> "Open"]

ApplyCommentEvent(v, e, seq) ==
    LET key == <<e.rv, e.comment>>
    IN CASE e.kind = "CommentEdited" -> [v EXCEPT !.comments[key].edits = seq]
         [] e.kind = "CommentDeleted" -> [v EXCEPT !.comments[key].state = "Deleted"]
         [] e.kind = "CommentReanchored" -> [v EXCEPT !.comments[key].state = e.state]

ApplyRoundEvent(v, e, seq) ==
    CASE e.kind = "FileViewed" -> [v EXCEPT !.viewed = Put(@, <<e.rv, e.repo>>, e.content)]
      [] e.kind = "FileUnviewed" -> [v EXCEPT !.viewed = Without(@, {<<e.rv, e.repo>>})]
      [] e.kind = "ReviewRequested" ->
            [v EXCEPT !.requests = Put(@, <<e.rv, seq>>, [agent |-> e.agent, targets |-> e.resolved])]
      [] e.kind = "ReviewChecked" ->
            [v EXCEPT !.checkpoints = Put(@, <<e.rv, seq>>, [reviewer |-> e.by, targets |-> e.resolved,
                                                            answers |-> e.answers])]
      [] e.kind = "SuggestionApplied" -> [v EXCEPT !.suggestions[<<e.rv, e.comment>>] = TRUE]

ApplyEvent(v, e, seq) ==
    CASE e.kind = "WorkspaceCreated" -> [v EXCEPT !.workspaces = Put(@, e.ws, NoRow)]
      [] e.kind = "WorkspaceUpdated" -> v       \* its name
      [] e.kind = "RepoAttached" ->
            [v EXCEPT !.workspaces[e.ws] = Put(@, e.repo, e.checkout)]
      [] e.kind = "RepoDetached" -> [v EXCEPT !.workspaces[e.ws] = Without(@, {e.repo})]
      [] e.kind \in {"ReviewCreated", "ReviewUpdated", "ReviewTargetUpdated", "ReviewDeleted",
                     "ReviewTargetsResolved"} -> ApplyReviewEvent(v, e)
      [] e.kind = "CommentCreated" -> CommentCreated(v, e)
      [] e.kind \in {"CommentEdited", "CommentDeleted", "CommentReanchored"} -> ApplyCommentEvent(v, e, seq)
      [] e.kind \in Disposals -> ApplyThreadEvent(v, e)
      [] OTHER -> ApplyRoundEvent(v, e, seq)

(* Store::rebuild_views: clear the tables and fold the whole log.          *)
RebuildViews(log) ==
    FoldLeft(LAMBDA acc, i : ApplyEvent(acc, log[i], i), NoViews, [i \in 1..Len(log) |-> i])

(* The tables after each prefix of the log: History(log)[n + 1] after n.   *)
History(log) ==
    FoldLeft(LAMBDA hist, i : Append(hist, ApplyEvent(hist[i], log[i], i)), <<NoViews>>,
             [i \in 1..Len(log) |-> i])

---------------------------------------------------------------------------
(* Schemas.  A step rewrites the shape of the events that its schema       *)
(* changed, and always empties the tables and forgets how far they were.   *)

CURRENT == 11

(* How an event was written under schema s (the history of EventBody).     *)
FormsAt(kind, s) ==
    CASE kind = "ReviewRequested" -> IF s < 6 THEN {"no targets"} ELSE {"Unknown", "now"}
      [] kind = "FileViewed" ->
            IF s < 8 THEN {"blob_oid", "blob_oid null"} ELSE IF s = 8 THEN {"Blob oid", "now"} ELSE {"Unknown mode", "now"}
      [] kind = "CommentCreated" ->
            IF s < 4 THEN {"now", "change"} ELSE IF s < 9 THEN {"now", "Diff oid"} ELSE {"now", "Unknown mode"}
      [] OTHER -> {"now"}

(* The shapes that today's types decode.                                   *)
Decodes(e) == e.form \in FormsAt(e.kind, CURRENT)

SkipsRequests(s, e) ==
    CASE s = 3 /\ e.form = "change" -> [e EXCEPT !.form = "Diff oid"]
      [] s = 7 /\ e.form = "blob_oid" -> [e EXCEPT !.form = "Blob oid"]
      [] s = 7 /\ e.form = "blob_oid null" -> [e EXCEPT !.form = "now"]
      [] s = 8 /\ e.form \in {"Blob oid", "Diff oid"} -> [e EXCEPT !.form = "Unknown mode"]
      [] OTHER -> e

(* MIGRATIONS[s], applied to one stored event: 3 wraps a comment's diff    *)
(* context, 5 gives a request explicitly unknown targets, 7 types a viewed *)
(* mark, 8 gives blobs an unknown mode; the others leave bodies alone.     *)
MigrateEvent(s, e) ==
    CASE s = 5 /\ e.kind = "ReviewRequested" -> [e EXCEPT !.form = "Unknown"]
      [] OTHER -> SkipsRequests(s, e)

MigrateLog(s, log) == [i \in DOMAIN log |-> MigrateEvent(s, log[i])]

(* Whether step s also empties the tables: every step but the first.       *)
ClearsViews(s) == s # 0

(* tables::ensure: the schema of a store that carries no stamp.            *)
Unstamped == -1

(* The schema that wrote the events of a store with this stamp.            *)
WrittenUnder(stamp) == IF stamp = Unstamped THEN 0 ELSE stamp

EnsureSchema(stamp, log) == IF stamp # Unstamped THEN stamp ELSE IF log = <<>> THEN CURRENT ELSE 0

---------------------------------------------------------------------------
(* Store::replay_page.  A position is Start (since Now or After), Continue *)
(* (a cursor) or Follow; a page has its fixed end, the records it scanned  *)
(* and whether there are more, or is an error.                             *)

StartNow == [type |-> "Now", after |-> 0, through |-> 0]
StartAfter(seq) == [type |-> "After", after |-> seq, through |-> 0]
Continue(after, through) == [type |-> "Continue", after |-> after, through |-> through]
Follow(after) == [type |-> "Follow", after |-> after, through |-> 0]

(* (after, through) of the scan.                                           *)
Window(pos, head) ==
    CASE pos.type = "Now" -> <<head, head>>
      [] pos.type = "Continue" -> <<pos.after, pos.through>>
      [] OTHER -> <<pos.after, IF head > pos.after THEN head ELSE pos.after>>

BytesOf(log, from, to) == FoldLeft(LAMBDA sum, e : sum + e.size, 0, SubSeq(log, from, to))

(* A page takes records in order while they fit; the first always does.    *)
Fits(log, first, last) ==
    /\ last - first < ScanLimit
    /\ last = first \/ BytesOf(log, first, last) <= PageBytes

PageEnd(log, after, through) ==
    LET ends == {n \in (after + 1)..through : \A m \in (after + 1)..n : Fits(log, after + 1, m)}
    IN Max(ends \cup {after})

PageError == [ok |-> FALSE, after |-> 0, through |-> 0, events |-> <<>>]

ReplayPage(log, pos) ==
    LET head == Len(log)
        after == Window(pos, head)[1]
        through == Window(pos, head)[2]
        scanned == IF after < through THEN PageEnd(log, after, through) ELSE through
    IN IF pos.type = "Continue" /\ pos.through > head THEN PageError
       ELSE IF after < through /\ log[after + 1].size > EventBytes THEN PageError
       ELSE [ok |-> TRUE, after |-> scanned, through |-> through,
             events |-> IF after < through THEN [i \in 1..(scanned - after) |-> after + i] ELSE <<>>]

(* Mutant of StoredReviewWorkspace: a deleted review has no workspace.     *)
LiveOnly(v, rv) == IF rv \in DOMAIN v.reviews /\ v.reviews[rv].live THEN {v.reviews[rv].ws} ELSE {}

(* Core::stored_review_workspace: tombstones keep their workspace.         *)
StoredReviewWorkspace(v, rv) == IF rv \in DOMAIN v.reviews THEN {v.reviews[rv].ws} ELSE {}

(* SubscribeScope::matches.                                                *)
Matches(v, scope, e) ==
    CASE scope.type = "All" -> TRUE
      [] scope.type = "Workspace" ->
            scope.id \in (IF WorkspaceOf(e) # {} THEN WorkspaceOf(e) ELSE StoredReviewWorkspace(v, e.rv))
      [] scope.type = "Review" -> e.rv = scope.id
      [] scope.type = "AwaitingAgent" -> e.kind = "ReviewRequested" /\ e.agent = scope.id

(* Positions in their order.                                               *)
Ascending(s) == \A i, j \in DOMAIN s : i < j => s[i] < s[j]
InOrder(S) == CHOOSE s \in [1..Cardinality(S) -> S] : Ascending(s) /\ ToSet(s) = S

(* Core::replay_events: the scanned records that match.                    *)
ReplayEvents(log, v, scope, pos) ==
    LET page == ReplayPage(log, pos)
    IN [page EXCEPT !.events = InOrder({n \in ToSet(@) : Matches(v, scope, log[n])})]

---------------------------------------------------------------------------
(* Queries over one snapshot.                                              *)

ThreadsOf(v, rv) == {k \in DOMAIN v.threads : k[1] = rv}

JoinThread(v, k) ==
    LET t == v.threads[k]
        members == <<t.root>> \o t.replies
    IN [comments |-> [i \in DOMAIN members |-> v.comments[<<k[1], members[i]>>]],
        resolution |-> t.resolution,
        applied |-> {m \in ToSet(members) : <<k[1], m>> \in DOMAIN v.suggestions
                                           /\ v.suggestions[<<k[1], m>>]}]

ThreadStatus(v, k) ==
    IF v.comments[<<k[1], v.threads[k].root>>].state = "Deleted" THEN "Deleted"
    ELSE v.threads[k].resolution

(* Mutant of TouchedComment: a comment that only moved is no activity.     *)
NoReanchors(e) ==
    CASE e.kind \in {"CommentCreated", "CommentEdited", "CommentDeleted", "SuggestionApplied"} -> {e.comment}
      [] OTHER -> {}

(* The comment an event of a thread is about.                              *)
TouchedComment(e) ==
    IF e.kind \in {"CommentCreated", "CommentEdited", "CommentDeleted", "CommentReanchored",
                   "SuggestionApplied"}
    THEN {e.comment} ELSE {}

(* changed_threads: the threads of a review with activity in (since, seq]. *)
ChangedThreads(log, v, rv, since) ==
    LET touched(e) ==
            IF e.kind \in Disposals THEN {e.thread}
            ELSE {v.comments[<<rv, c>>].thread : c \in {x \in TouchedComment(e) : <<rv, x>> \in DOMAIN v.comments}}
    IN UNION {IF log[n].rv = rv THEN touched(log[n]) ELSE {} : n \in (since + 1)..Len(log)}

Always == -1

(* Store::list_comments: whole threads, by status and activity.            *)
ListComments(log, v, rv, statuses, since) ==
    {k \in ThreadsOf(v, rv) : ThreadStatus(v, k) \in statuses
                              /\ (since = Always \/ k[2] \in ChangedThreads(log, v, rv, since))}

(* discussion_summary: what an overview of reviews counts.                 *)
OpenFindings(v, rv) ==
    Cardinality({k \in ThreadsOf(v, rv) : /\ v.threads[k].resolution = "Open"
                                          /\ v.comments[<<rv, v.threads[k].root>>].state # "Deleted"})

PendingRequests(v, rv) ==
    {k \in DOMAIN v.requests :
        /\ k[1] = rv
        /\ ~\E c \in DOMAIN v.checkpoints :
               /\ c[1] = rv /\ v.checkpoints[c].answers = k[2]
               /\ v.checkpoints[c].reviewer = v.requests[k].agent}

(* Store::discover_reviews: live reviews, those with an unanswered request *)
(* to an agent when one is named, with their last event.                   *)
LastActivity(log, rv) == Max({0} \cup {n \in DOMAIN log : log[n].rv = rv})

DiscoverReviews(log, v, awaiting) ==
    {[id |-> rv, open |-> OpenFindings(v, rv), pending |-> PendingRequests(v, rv),
      last |-> LastActivity(log, rv)] :
        rv \in {r \in DOMAIN v.reviews :
                    /\ v.reviews[r].live
                    /\ \/ awaiting = "none"
                       \/ \E k \in PendingRequests(v, r) : v.requests[k].agent = awaiting}}

=============================================================================
