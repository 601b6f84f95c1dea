------------------------------ MODULE Reviews ------------------------------
(***************************************************************************)
(* The daemon's core: workspaces and their repositories, reviews and their *)
(* targets, discussions, requests and checkpoints (nits-review-core:       *)
(* review.rs, comments.rs, checkpoints.rs, repository.rs, directory.rs,    *)
(* core.rs), the mutations that reach them (nitsd dispatch.rs), and a      *)
(* reader that follows the log from the command line.                      *)
(*                                                                         *)
(* One writer runs the operations in turn.  Each appends its events one    *)
(* transaction at a time, so a crash may keep only the first of them; an   *)
(* operation is therefore a plan, a sequence of steps and whether it       *)
(* succeeds.  Git is external: a checkout has a working tree, a HEAD and   *)
(* one branch, all named by numbers, and the user changes them.            *)
(***************************************************************************)
EXTENDS ReviewStore

CONSTANTS
    Stores,         \* where a run starts: a store, what happens to it, a reader, and
                    \* `budget`, a bound: the events that may be appended
    MaxTree,        \* bound: contents a checkout goes through
    MaxCrashes,     \* bound: crashes of the daemon, lost connections of the reader
    FirstGit        \* the checkouts at first: checkout -> [tree, head, branch]

ASSUME ReviewsAssumption ==
    /\ MaxTree \in Nat /\ MaxCrashes \in Nat
    /\ \A s \in Stores : s.schema \in (0..CURRENT) \cup {Unstamped}

(* Where an event may stand: one about a review after the one creation of  *)
(* it, and one that has a workspace is about none, or creates it.          *)
Placed(e, reviews) ==
    /\ "ws" \in DOMAIN e <=> e.kind \notin AboutReview
    /\ e.kind \in AboutReview => e.rv \in reviews
    /\ e.kind = "ReviewCreated" => e.rv \notin reviews \cup {NoReview}
    /\ e.kind \notin AboutReview \cup {"ReviewCreated"} => e.rv = NoReview

(* A store holds events as its schema wrote them, those of a review after  *)
(* its one creation, and a request is of its type in nits-protocol: a      *)
(* reader starts at Now or After a position.                               *)
ASSUME StoresAssumption ==
    \A s \in Stores :
        /\ s.log \in Seq({s.log[n] : n \in DOMAIN s.log})
        /\ \A n \in DOMAIN s.log :
            /\ {"kind", "rv", "form"} \subseteq DOMAIN s.log[n]
            /\ s.log[n].kind \in EventKinds
            /\ s.log[n].form \in FormsAt(s.log[n].kind, WrittenUnder(s.schema))
            /\ Placed(s.log[n], CreatedReviews(s.log, n - 1))
            /\ s.log[n].kind \in Naming =>
                /\ "resolved" \in DOMAIN s.log[n]
                /\ \A p \in DOMAIN s.log[n].resolved : {"base", "head"} \subseteq DOMAIN s.log[n].resolved[p]
        /\ s.reader \in {"off", "ask"}
        /\ s.scope.type \in {"All", "Workspace", "Review", "AwaitingAgent"}
        /\ s.pos.type \in {"Now", "After"} /\ s.pos.after \in Nat /\ s.pos.through \in Nat
        /\ \A m \in s.menu :
            /\ m.op = "Dispose" => m.kind \in Disposals
            /\ m.op \in {"CreateReview", "EnsureDirectoryReview"} => m.rv # NoReview

VARIABLES
    menu,           \* the mutations and outside changes of this behaviour
    log, views, viewSeq, schema,    \* the store: events and tables
    phase,          \* the daemon: "down", "ensured", "migrated", "up"
    published,      \* events the writer has broadcast
    retained,       \* revisions kept alive by refs: <<review, repository, tree>>
    git, available, \* the checkouts, and which of them can be opened
    reader,         \* the command line: `nits events`
    crashes,
    budget          \* bound: events that may still be appended

storeVars == <<log, views, viewSeq, schema>>
outsideVars == <<git, available>>
reviewVars == <<menu, log, views, viewSeq, schema, phase, published, retained, git, available,
                reader, crashes, budget>>

---------------------------------------------------------------------------
(* Plans.                                                                  *)

NoEvent == Event("-", NoReview, NoRow)

Emit(e) == [event |-> e, keys |-> {}, git |-> <<>>]
Keep(keys) == [event |-> NoEvent, keys |-> keys, git |-> <<>>]
Touch(g) == [event |-> NoEvent, keys |-> {}, git |-> <<g>>]

Done(steps) == [ok |-> TRUE, steps |-> steps]
Failed(steps) == [ok |-> FALSE, steps |-> steps]
Refused == Failed(<<>>)

Then(plan, rest) == [ok |-> rest.ok, steps |-> plan.steps \o rest.steps]

---------------------------------------------------------------------------
(* repository.rs.  A repository id names one checkout, in every workspace  *)
(* that lists it.                                                          *)

Members(p) == {views.workspaces[w][p] : w \in {x \in DOMAIN views.workspaces : p \in DOMAIN views.workspaces[x]}}

(* bound_repo: every membership is opened before one of them is trusted.   *)
Bound(p) == Members(p) \subseteq available /\ Cardinality(Members(p)) <= 1

(* check_repo_owner.                                                       *)
MayOwn(p, k) == Bound(p) /\ Members(p) \subseteq {k}

WorkspaceRepo(w, p) ==
    w \in DOMAIN views.workspaces /\ p \in DOMAIN views.workspaces[w] /\ Bound(p)

Live(rv) == rv \in DOMAIN views.reviews /\ views.reviews[rv].live

ReviewRepo(rv, p) ==
    /\ Live(rv) /\ p \in DOMAIN views.reviews[rv].targets
    /\ WorkspaceRepo(views.reviews[rv].ws, p)

CreateWorkspace(m) ==
    IF m.ws \in DOMAIN views.workspaces THEN Refused
    ELSE Done(<<Emit(Event("WorkspaceCreated", NoReview, [ws |-> m.ws]))>>)

RenameWorkspace(m) ==
    IF m.ws \notin DOMAIN views.workspaces THEN Refused
    ELSE Done(<<Emit(Event("WorkspaceUpdated", NoReview, [ws |-> m.ws]))>>)

Attached(w, p, k) ==
    Emit(Event("RepoAttached", NoReview, [ws |-> w, repo |-> p, checkout |-> k]))

AttachRepo(m) ==
    IF /\ m.ws \in DOMAIN views.workspaces
       /\ m.repo \notin DOMAIN views.workspaces[m.ws]
       /\ m.checkout \in available /\ MayOwn(m.repo, m.checkout)
       /\ \A p \in DOMAIN views.workspaces[m.ws] : views.workspaces[m.ws][p] # m.checkout
    THEN Done(<<Attached(m.ws, m.repo, m.checkout)>>) ELSE Refused

DetachRepo(m) ==
    IF m.ws \in DOMAIN views.workspaces /\ m.repo \in DOMAIN views.workspaces[m.ws]
    THEN Done(<<Emit(Event("RepoDetached", NoReview, [ws |-> m.ws, repo |-> m.repo]))>>) ELSE Refused

---------------------------------------------------------------------------
(* Resolving targets.  A target is a base and a head: "Head", "Branch" or, *)
(* for a head, "WorkingTree"; resolved they are trees with their source.   *)

CheckoutOf(p) == CHOOSE k \in Members(p) : TRUE

RefExists(g, p, spec) == spec # "Branch" \/ g[CheckoutOf(p)].branch # 0

ResolveRef(g, p, spec) ==
    LET k == g[CheckoutOf(p)]
    IN CASE spec = "WorkingTree" -> [source |-> "WorkingTree", tree |-> k.tree, head |-> k.head]
         [] spec = "Head" -> [source |-> "Commit", tree |-> k.head, head |-> k.head]
         [] spec = "Branch" -> [source |-> "Commit", tree |-> k.branch, head |-> k.branch]

TargetResolves(g, w, p, target) ==
    WorkspaceRepo(w, p) /\ RefExists(g, p, target.base) /\ RefExists(g, p, target.head)

(* resolve_review_targets, all or nothing.                                 *)
Resolvable(g, w, targets) == \A p \in DOMAIN targets : TargetResolves(g, w, p, targets[p])

Resolution(g, targets) ==
    [p \in DOMAIN targets |-> [base |-> ResolveRef(g, p, targets[p].base),
                               head |-> ResolveRef(g, p, targets[p].head)]]

(* retain_targets.                                                         *)
Retain(rv, resolved) ==
    Keep({<<rv, p, resolved[p].base.tree>> : p \in DOMAIN resolved}
            \cup {<<rv, p, resolved[p].head.tree>> : p \in DOMAIN resolved})

(* reanchor_review (Reanchor has its detail): a comment is found again in  *)
(* the tree that holds its lines and lost in any other.                    *)
Reanchored(rv, old, new) ==
    LET moved == {c \in {k[2] : k \in {x \in DOMAIN views.comments : x[1] = rv}} :
                    LET r == views.comments[<<rv, c>>]
                    IN /\ r.state # "Deleted" /\ r.repo \in DOMAIN new
                       /\ new[r.repo].head.tree # old[r.repo].head.tree
                       /\ r.state # (IF new[r.repo].head.tree = r.at THEN "Live" ELSE "Outdated")}
    IN [i \in 1..Cardinality(moved) |->
            LET c == SetToSeq(moved)[i]
                r == views.comments[<<rv, c>>]
            IN Emit(Event("CommentReanchored", rv,
                          [comment |-> c,
                           state |-> IF new[r.repo].head.tree = r.at THEN "Live" ELSE "Outdated"]))]

(* Mutant of RecordResolved: trees are retained after an event names them. *)
RetainsLast(rv, old, new) ==
    IF old = new THEN <<>>
    ELSE <<Emit(Event("ReviewTargetsResolved", rv, [resolved |-> new])), Retain(rv, new)>>
            \o (IF old = NoRow THEN <<>> ELSE Reanchored(rv, old, new))

(* record_resolved_targets: nothing when they have not changed.            *)
RecordResolved(rv, old, new) ==
    IF old = new THEN <<>>
    ELSE <<Retain(rv, new), Emit(Event("ReviewTargetsResolved", rv, [resolved |-> new]))>>
            \o (IF old = NoRow THEN <<>> ELSE Reanchored(rv, old, new))

(* resolve_targets of a review whose targets may just have been replaced.  *)
ResolveAs(g, rv, targets) ==
    IF Resolvable(g, views.reviews[rv].ws, targets)
    THEN Done(RecordResolved(rv, views.reviews[rv].resolved, Resolution(g, targets)))
    ELSE Refused

ResolveTargets(m) == IF Live(m.rv) THEN ResolveAs(git, m.rv, views.reviews[m.rv].targets) ELSE Refused

(* refresh_working_tree_review: the watcher's call, for open reviews that  *)
(* show a working tree.                                                    *)
WatchesWorkingTree(rv, p) ==
    /\ views.reviews[rv].status = "Open" /\ p \in DOMAIN views.reviews[rv].targets
    /\ views.reviews[rv].targets[p].head = "WorkingTree"

RefreshReview(m) ==
    IF Live(m.rv) /\ WatchesWorkingTree(m.rv, m.repo) THEN ResolveTargets(m) ELSE Refused

(* fetch_review: git moves the branch, and the review is resolved again;   *)
(* it succeeds also when that fails.                                       *)
FetchReview(m) ==
    IF ~Live(m.rv) \/ ~ReviewRepo(m.rv, m.repo) THEN Refused
    ELSE LET fetched == [git EXCEPT ![CheckoutOf(m.repo)].branch = m.to]
         IN Done(<<Touch(fetched)>> \o ResolveAs(fetched, m.rv, views.reviews[m.rv].targets).steps)

---------------------------------------------------------------------------
(* Reviews.                                                                *)

Created(rv, w, targets) ==
    Emit(Event("ReviewCreated", rv, [ws |-> w, targets |-> targets]))

(* Every target resolves before anything is committed.                     *)
CreateReview(m) ==
    IF /\ m.ws \in DOMAIN views.workspaces /\ m.rv \notin DOMAIN views.reviews
       /\ Resolvable(git, m.ws, m.targets)
    THEN Done(<<Created(m.rv, m.ws, m.targets)>>
                \o RecordResolved(m.rv, NoRow, Resolution(git, m.targets)))
    ELSE Refused

(* Reopening resolves first and publishes the resolution it checked.       *)
UpdateReview(m) ==
    IF ~Live(m.rv) THEN Refused
    ELSE LET r == views.reviews[m.rv]
             event == Emit(Event("ReviewUpdated", m.rv, [status |-> m.status]))
         IN IF r.status = "Archived" /\ m.status = "Open"
            THEN IF Resolvable(git, r.ws, r.targets)
                 THEN Done(<<event>> \o RecordResolved(m.rv, r.resolved, Resolution(git, r.targets)))
                 ELSE Refused
            ELSE Done(<<event>>)

(* The new target of one repository is checked; then all are resolved.     *)
UpdateReviewTarget(m) ==
    IF /\ Live(m.rv) /\ m.repo \in DOMAIN views.reviews[m.rv].targets
       /\ TargetResolves(git, views.reviews[m.rv].ws, m.repo, m.target)
    THEN Then(Done(<<Emit(Event("ReviewTargetUpdated", m.rv, [repo |-> m.repo, target |-> m.target]))>>),
              ResolveAs(git, m.rv, [views.reviews[m.rv].targets EXCEPT ![m.repo] = m.target]))
    ELSE Refused

DeleteReview(m) ==
    IF Live(m.rv) THEN Done(<<Emit(Event("ReviewDeleted", m.rv, NoRow))>>) ELSE Refused

(* directory.rs: the attachment of a checkout, then an open review of it   *)
(* with the requested targets, or a new workspace and review.              *)
Attachments(k) ==
    {a \in UNION {{w} \X DOMAIN views.workspaces[w] : w \in DOMAIN views.workspaces} :
        views.workspaces[a[1]][a[2]] = k}

MatchingReview(w, p, head) ==
    {rv \in DOMAIN views.reviews :
        /\ Live(rv) /\ views.reviews[rv].ws = w /\ views.reviews[rv].status = "Open"
        /\ p \in DOMAIN views.reviews[rv].targets /\ views.reviews[rv].targets[p].head = head}

EnsureDirectoryReview(m) ==
    LET located == Attachments(m.checkout)
        k == git[m.checkout]
        target == [base |-> "Head", head |-> m.head]
        fresh == [p \in {m.repo} |-> target]
        created == [p \in {m.repo} |->
                        [base |-> [source |-> "Commit", tree |-> k.head, head |-> k.head],
                         head |-> IF m.head = "WorkingTree"
                                  THEN [source |-> "WorkingTree", tree |-> k.tree, head |-> k.head]
                                  ELSE [source |-> "Commit", tree |-> k.branch, head |-> k.branch]]]
    IN IF m.checkout \notin available \/ Cardinality(located) > 1
          \/ (m.head = "Branch" /\ k.branch = 0) THEN Refused
       ELSE IF located = {}
       THEN IF m.rv \notin DOMAIN views.reviews /\ MayOwn(m.repo, m.checkout)
               /\ m.ws \notin DOMAIN views.workspaces
            THEN Done(<<Emit(Event("WorkspaceCreated", NoReview, [ws |-> m.ws])),
                        Attached(m.ws, m.repo, m.checkout), Created(m.rv, m.ws, fresh)>>
                        \o RecordResolved(m.rv, NoRow, created))
            ELSE Refused
       ELSE LET w == (CHOOSE x \in located : TRUE)[1]
                p == (CHOOSE x \in located : TRUE)[2]
                found == MatchingReview(w, p, m.head)
            IN IF found # {} THEN ResolveTargets([rv |-> CHOOSE rv \in found : TRUE])
               ELSE CreateReview([ws |-> w, rv |-> m.rv, targets |-> [q \in {p} |-> target]])

---------------------------------------------------------------------------
(* Comments and threads.                                                   *)

NoRepo == "-"

(* validate_anchor: of the review itself, or of a repository it targets.   *)
ValidAnchor(rv, p) == Live(rv) /\ (p = NoRepo \/ ReviewRepo(rv, p))

(* The new comment of a thread, anchored where `origin` says.              *)
NewComment(m, thread, origin) ==
    Emit(Event("CommentCreated", m.rv,
               [comment |-> m.comment, thread |-> thread, by |-> m.by, intent |-> m.intent,
                repo |-> origin.repo, at |-> origin.at, state |-> origin.state, size |-> m.size]))

AddComment(m) ==
    IF /\ <<m.rv, m.comment>> \notin DOMAIN views.comments
       /\ m.intent = "Informational" => m.repo = NoRepo
       /\ ValidAnchor(m.rv, m.repo)
    THEN LET r == views.reviews[m.rv].resolved
         IN Done(<<NewComment(m, m.comment,
                              [repo |-> m.repo, state |-> "Live",
                               at |-> IF m.repo \in DOMAIN r THEN r[m.repo].head.tree ELSE 0])>>)
    ELSE Refused

(* The comment of a stored row that is not deleted: Core::comment.         *)
HasComment(rv, c) == <<rv, c>> \in DOMAIN views.comments /\ views.comments[<<rv, c>>].state # "Deleted"

HasThread(rv, t) == <<rv, t>> \in DOMAIN views.threads

Reply(m) ==
    IF /\ <<m.rv, m.comment>> \notin DOMAIN views.comments
       /\ HasThread(m.rv, m.thread) /\ HasComment(m.rv, views.threads[<<m.rv, m.thread>>].root)
    THEN Done(<<NewComment(m, m.thread, views.comments[<<m.rv, views.threads[<<m.rv, m.thread>>].root>>])>>)
    ELSE Refused

Authored(m) == HasComment(m.rv, m.comment) /\ views.comments[<<m.rv, m.comment>>].author = m.by

EditComment(m) ==
    IF Authored(m) THEN Done(<<Emit(Event("CommentEdited", m.rv, [comment |-> m.comment]))>>) ELSE Refused

DeleteComment(m) ==
    IF Authored(m) THEN Done(<<Emit(Event("CommentDeleted", m.rv, [comment |-> m.comment]))>>) ELSE Refused

(* From which resolutions a thread may be given another.                   *)
MayBecome(kind) ==
    CASE kind = "ThreadDeferred" -> {"Open"}
      [] kind = "ThreadResolved" -> {"Open", "Deferred"}
      [] kind = "ThreadUnresolved" -> {"Resolved", "Deferred"}

DisposeThread(m) ==
    IF HasThread(m.rv, m.thread) /\ views.threads[<<m.rv, m.thread>>].resolution \in MayBecome(m.kind)
    THEN Done(<<Emit(Event(m.kind, m.rv, [thread |-> m.thread]))>>) ELSE Refused

(* apply_suggestion (SuggestionFile has its detail): the checkout still    *)
(* holds the file the suggestion was made for, and it is applied once.     *)
ApplySuggestion(m) ==
    IF /\ Live(m.rv) /\ HasComment(m.rv, m.comment)
       /\ <<m.rv, m.comment>> \in DOMAIN views.suggestions /\ ~views.suggestions[<<m.rv, m.comment>>]
       /\ LET c == views.comments[<<m.rv, m.comment>>]
          IN ReviewRepo(m.rv, c.repo) /\ git[CheckoutOf(c.repo)].tree = c.at
    THEN Done(<<Touch([git EXCEPT ![CheckoutOf(views.comments[<<m.rv, m.comment>>].repo)].tree = @ + 1]),
                Emit(Event("SuggestionApplied", m.rv, [comment |-> m.comment]))>>)
    ELSE Refused

(* Viewed marks: humans only, bound to the resolved content.               *)
MarkViewed(m) ==
    IF m.by # "agent" /\ ReviewRepo(m.rv, m.repo) /\ m.repo \in DOMAIN views.reviews[m.rv].resolved
    THEN Done(<<Emit(Event("FileViewed", m.rv,
                           [repo |-> m.repo,
                            content |-> views.reviews[m.rv].resolved[m.repo].head.tree]))>>)
    ELSE Refused

UnmarkViewed(m) ==
    IF m.by # "agent" /\ Live(m.rv)
    THEN Done(<<Emit(Event("FileUnviewed", m.rv, [repo |-> m.repo]))>>) ELSE Refused

(* Mutant of ViewedState: the mark is not compared with the content.       *)
StaysViewed(rv, p) == IF <<rv, p>> \in DOMAIN views.viewed THEN "Viewed" ELSE "Unviewed"

(* viewed_state.                                                           *)
ViewedState(rv, p) ==
    IF <<rv, p>> \notin DOMAIN views.viewed THEN "Unviewed"
    ELSE IF views.viewed[<<rv, p>>] = views.reviews[rv].resolved[p].head.tree THEN "Viewed"
    ELSE "ChangedSinceViewed"

---------------------------------------------------------------------------
(* Requests and checkpoints.                                               *)

(* same_targets: where a working tree came from is not compared.           *)
SameRef(a, b) == a.tree = b.tree /\ a.source = b.source /\ (a.source = "Commit" => a.head = b.head)

SameTargets(a, b) ==
    /\ DOMAIN a = DOMAIN b
    /\ \A p \in DOMAIN a : SameRef(a[p].base, b[p].base) /\ SameRef(a[p].head, b[p].head)

CheckpointsOf(v, rv) == {k[2] : k \in {x \in DOMAIN v.checkpoints : x[1] = rv}}

(* RequestCheckpointComparison::against the last checkpoint of the review, *)
(* whoever made it; the commit under a working tree does count here.       *)
Comparison(rv, targets) ==
    IF CheckpointsOf(views, rv) = {} THEN [checkpoint |-> 0, outcome |-> "NoCheckpoint"]
    ELSE LET last == Max(CheckpointsOf(views, rv))
             old == views.checkpoints[<<rv, last>>].targets
             moved(a, b) == a.source = "WorkingTree" /\ b.source = "WorkingTree" /\ a.head # b.head
         IN [checkpoint |-> last,
             outcome |->
                IF \/ ~SameTargets(old, targets)
                   \/ \E p \in DOMAIN old : moved(old[p].base, targets[p].base) \/ moved(old[p].head, targets[p].head)
                THEN "ChangedTargets" ELSE "SameTargets"]

(* The invitation captures the targets it publishes.                       *)
RequestReview(m) ==
    IF ~Live(m.rv) THEN Refused
    ELSE LET r == views.reviews[m.rv] IN
         IF ~Resolvable(git, r.ws, r.targets) THEN Refused
         ELSE LET now == Resolution(git, r.targets)
              IN Done(<<Retain(m.rv, now),
                        Emit(Event("ReviewRequested", m.rv,
                                   [agent |-> m.agent, resolved |-> now, compared |-> Comparison(m.rv, now)]))>>
                      \o RecordResolved(m.rv, r.resolved, now))

Revisions(resolved) == {<<p, resolved[p].base>> : p \in DOMAIN resolved}
                          \cup {<<p, resolved[p].head>> : p \in DOMAIN resolved}

(* Working trees of this review that the daemon captured itself.           *)
Captured(rv) ==
    Revisions(views.reviews[rv].resolved)
        \cup UNION {Revisions(views.requests[k].targets) : k \in {x \in DOMAIN views.requests : x[1] = rv}}
        \cup UNION {Revisions(views.checkpoints[k].targets) : k \in {x \in DOMAIN views.checkpoints : x[1] = rv}}
        \cup UNION {Revisions(log[n].resolved) :
                        n \in {i \in DOMAIN log : log[i].kind = "ReviewTargetsResolved" /\ log[i].rv = rv}}

ValidRound(rv, round) ==
    round = 0 \/ <<rv, round>> \in DOMAIN views.requests \cup DOMAIN views.checkpoints

RecordCheckpoint(m) ==
    IF /\ Live(m.rv) /\ m.by # "daemon"
       /\ DOMAIN m.resolved = DOMAIN views.reviews[m.rv].targets
       /\ ValidRound(m.rv, m.answers)
       /\ \A p \in DOMAIN m.resolved : ReviewRepo(m.rv, p)
       /\ \A x \in Revisions(m.resolved) : x[2].source = "WorkingTree" => x \in Captured(m.rv)
    THEN Done(<<Retain(m.rv, m.resolved),
                Emit(Event("ReviewChecked", m.rv,
                           [by |-> m.by, resolved |-> m.resolved, answers |-> m.answers]))>>)
    ELSE Refused

---------------------------------------------------------------------------
(* Reads: Core answers them from one transaction each.                     *)

(* Store::review_snapshot: every row of a live review, with the position   *)
(* in the log from which a subscriber goes on.                             *)
OfReview(table, rv) == [k \in {x \in DOMAIN table : x[1] = rv} |-> table[k]]

ReviewSnapshot(v, seq, rv) ==
    [review |-> v.reviews[rv], threads |-> OfReview(v.threads, rv), comments |-> OfReview(v.comments, rv),
     suggestions |-> OfReview(v.suggestions, rv), viewed |-> OfReview(v.viewed, rv),
     requests |-> OfReview(v.requests, rv), checkpoints |-> OfReview(v.checkpoints, rv), seq |-> seq]

(* latest_checkpoints: the last check of each reviewer, and whether it is  *)
(* of what the review shows now.                                           *)
LatestCheckpoint(v, rv, who) ==
    Max({0} \cup {n \in CheckpointsOf(v, rv) : v.checkpoints[<<rv, n>>].reviewer = who})

Freshness(v, rv, n) ==
    IF v.reviews[rv].resolved = NoRow THEN "Unknown"
    ELSE IF SameTargets(v.checkpoints[<<rv, n>>].targets, v.reviews[rv].resolved) THEN "Current" ELSE "Changed"

(* commit_step: a commit against its first parent (commits are numbered).  *)
AtCommit(n) == [source |-> "Commit", tree |-> n, head |-> n]
CommitStep(p, n) == [q \in {p} |-> [base |-> AtCommit(n - 1), head |-> AtCommit(n)]]

(* scoped_targets: what a diff scope compares, {} when it is refused.      *)
ScopedTargets(rv, scope) ==
    LET now == views.reviews[rv].resolved
        last == views.checkpoints[<<rv, scope.id>>].targets
        of(p) == now[p].head
    IN IF ~Live(rv) \/ now = NoRow THEN {}
       ELSE CASE scope.type = "All" -> {now}
         [] scope.type = "Requested" ->
                {views.requests[k].targets : k \in {<<rv, scope.id>>} \cap DOMAIN views.requests} \ {NoRow}
         [] scope.type = "SinceCheckpoint" ->
                IF <<rv, scope.id>> \notin DOMAIN views.checkpoints THEN {}
                ELSE IF DOMAIN last # DOMAIN now THEN {}
                ELSE {[p \in DOMAIN now |-> [now[p] EXCEPT !.base = last[p].head]]}
         [] scope.type = "Committed" ->
                {[p \in DOMAIN now |-> [now[p] EXCEPT !.head = AtCommit(of(p).head)]]}
         [] scope.type = "Commit" ->
                IF scope.repo \in DOMAIN now /\ ReviewRepo(rv, scope.repo) THEN {CommitStep(scope.repo, scope.id)} ELSE {}
         [] scope.type = "Worktree" ->
                IF scope.repo \notin DOMAIN now \/ ~ReviewRepo(rv, scope.repo) THEN {}
                ELSE {[p \in {scope.repo} |->
                        IF of(p).source = "WorkingTree"
                        THEN [base |-> AtCommit(of(p).head), head |-> of(p)]
                        ELSE [base |-> ResolveRef(git, p, "Head"), head |-> ResolveRef(git, p, "WorkingTree")]]}

(* files_scoped: a checkout has one file, which changed if the trees did.  *)
Files(targets) == {p \in DOMAIN targets : targets[p].base.tree # targets[p].head.tree}

(* open_review reads the snapshot, then the trees, then the files.         *)
OpenTrees(rv) == UNION {{<<p, t>> : t \in {views.reviews[rv].resolved[p].base.tree, views.reviews[rv].resolved[p].head.tree}} :
                            p \in DOMAIN views.reviews[rv].resolved}

---------------------------------------------------------------------------
(* dispatch.rs: from a request to its plan.                                *)

Plan(m) ==
    CASE m.op = "CreateWorkspace" -> CreateWorkspace(m)
      [] m.op = "RenameWorkspace" -> RenameWorkspace(m)
      [] m.op = "AttachRepo" -> AttachRepo(m)
      [] m.op = "DetachRepo" -> DetachRepo(m)
      [] m.op = "CreateReview" -> CreateReview(m)
      [] m.op = "EnsureDirectoryReview" -> EnsureDirectoryReview(m)
      [] m.op = "UpdateReview" -> UpdateReview(m)
      [] m.op = "UpdateReviewTarget" -> UpdateReviewTarget(m)
      [] m.op = "ResolveTargets" -> ResolveTargets(m)
      [] m.op = "Refresh" -> RefreshReview(m)
      [] m.op = "FetchReview" -> FetchReview(m)
      [] m.op = "DeleteReview" -> DeleteReview(m)
      [] m.op = "AddComment" -> AddComment(m)
      [] m.op = "Reply" -> Reply(m)
      [] m.op = "EditComment" -> EditComment(m)
      [] m.op = "DeleteComment" -> DeleteComment(m)
      [] m.op = "Dispose" -> DisposeThread(m)
      [] m.op = "ApplySuggestion" -> ApplySuggestion(m)
      [] m.op = "MarkViewed" -> MarkViewed(m)
      [] m.op = "UnmarkViewed" -> UnmarkViewed(m)
      [] m.op = "RequestReview" -> RequestReview(m)
      [] m.op = "RecordCheckpoint" -> RecordCheckpoint(m)
      [] OTHER -> Refused

(* A step of a plan: Store::append writes the event and its rows in one    *)
(* transaction.                                                            *)
Execute(s, step) ==
    LET appends == step.event.kind # "-"
    IN [log |-> IF appends THEN Append(s.log, step.event) ELSE s.log,
        views |-> IF appends THEN ApplyEvent(s.views, step.event, Len(s.log) + 1) ELSE s.views,
        retained |-> s.retained \cup step.keys,
        git |-> IF step.git = <<>> THEN s.git ELSE step.git[1]]

(* The steps that ran, in order.                                           *)
Run(steps) ==
    LET done == FoldLeft(Execute, [log |-> log, views |-> views, retained |-> retained, git |-> git], steps)
    IN /\ log' = done.log /\ views' = done.views /\ viewSeq' = Len(done.log)
       /\ retained' = done.retained /\ git' = done.git
       /\ budget' = budget - (Len(done.log) - Len(log))
       /\ budget' >= 0

(* Daemon::write: the operation, and then its events to the subscribers,   *)
(* also when it failed.                                                    *)
Mutate(m) ==
    /\ phase = "up" /\ published = Len(log)
    /\ LET plan == Plan(m)
       IN /\ plan.steps # <<>>
          /\ Run(plan.steps)
    /\ UNCHANGED <<menu, schema, phase, published, available, reader, crashes>>

(* Mutant of Registered: the follower subscribes when it goes to sleep.    *)
OnceAsleep(state) == state = "sleep"

(* A follower subscribes before it looks at the head.                      *)
Registered(state) == state \in {"watch", "looked", "sleep"}

Publish ==
    /\ phase = "up" /\ published < Len(log)
    /\ published' = Len(log)
    /\ reader' = [reader EXCEPT !.wake = @ \/ Registered(reader.state)]
    /\ UNCHANGED <<menu, storeVars, phase, retained, outsideVars, crashes, budget>>

(* A broken connection: a follower keeps its position and asks again,      *)
(* unless it has none yet; other readers give up.                          *)
Reading == reader.state \in {"ask", "watch", "looked", "sleep"}

Disconnected(r) ==
    [r EXCEPT !.wake = FALSE, !.state = IF r.follow /\ r.pos.type # "Now" THEN "ask" ELSE "lost"]

(* A crash after the first steps of an operation.                          *)
Interrupted(m) ==
    /\ phase = "up" /\ published = Len(log) /\ crashes < MaxCrashes
    /\ \E n \in 0..(Len(Plan(m).steps) - 1) : Run(SubSeq(Plan(m).steps, 1, n))
    /\ phase' = "down" /\ published' = 0 /\ crashes' = crashes + 1
    /\ reader' = IF Reading THEN Disconnected(reader) ELSE reader
    /\ UNCHANGED <<menu, schema, available>>

---------------------------------------------------------------------------
(* Opening the store: stamp, walk to the current schema one transaction    *)
(* per step, rebuild the tables when they are not at the end of the log.   *)

Ensure ==
    /\ phase = "down"
    /\ schema' = EnsureSchema(schema, log)
    /\ phase' = "ensured"
    /\ UNCHANGED <<menu, log, views, viewSeq, published, retained, outsideVars, reader, crashes, budget>>

(* Mutant of MigrateStep: the position of the emptied tables is kept.      *)
ForgetsPosition(s) ==
    /\ log' = MigrateLog(s, log)
    /\ schema' = s + 1
    /\ views' = IF ClearsViews(s) THEN NoViews ELSE views
    /\ viewSeq' = viewSeq

MigrateStep(s) ==
    /\ log' = MigrateLog(s, log)
    /\ schema' = s + 1
    /\ views' = IF ClearsViews(s) THEN NoViews ELSE views
    /\ viewSeq' = IF ClearsViews(s) THEN 0 ELSE viewSeq

Migrate ==
    /\ phase = "ensured" /\ schema < CURRENT
    /\ MigrateStep(schema)
    /\ UNCHANGED <<menu, phase, published, retained, outsideVars, reader, crashes, budget>>

OpenViews ==
    /\ phase = "ensured" /\ schema = CURRENT
    /\ IF viewSeq = Len(log) THEN UNCHANGED <<views, viewSeq>>
       ELSE views' = RebuildViews(log) /\ viewSeq' = Len(log)
    /\ phase' = "up" /\ published' = Len(log)
    /\ UNCHANGED <<menu, log, schema, retained, outsideVars, reader, crashes, budget>>

CrashOpening ==
    /\ phase = "ensured" /\ crashes < MaxCrashes
    /\ phase' = "down" /\ crashes' = crashes + 1
    /\ UNCHANGED <<menu, storeVars, published, retained, outsideVars, reader, budget>>

---------------------------------------------------------------------------
(* The user's side: edits, commits, branches, and checkouts that go away.  *)

Outside(m) ==
    /\ \/ /\ m.op = "edit" /\ git[m.checkout].tree < MaxTree
          /\ git' = [git EXCEPT ![m.checkout].tree = @ + 1] /\ UNCHANGED available
       \/ /\ m.op = "revert" /\ git[m.checkout].tree # git[m.checkout].head
          /\ git' = [git EXCEPT ![m.checkout].tree = git[m.checkout].head] /\ UNCHANGED available
       \/ /\ m.op = "commit" /\ git[m.checkout].head # git[m.checkout].tree
          /\ git' = [git EXCEPT ![m.checkout].head = git[m.checkout].tree] /\ UNCHANGED available
       \/ /\ m.op = "branch" /\ git[m.checkout].branch # m.to
          /\ git' = [git EXCEPT ![m.checkout].branch = m.to] /\ UNCHANGED available
       \/ /\ m.op = "unmount" /\ m.checkout \in available
          /\ available' = available \ {m.checkout} /\ UNCHANGED git
       \/ /\ m.op = "mount" /\ m.checkout \notin available
          /\ available' = available \cup {m.checkout} /\ UNCHANGED git
    /\ UNCHANGED <<menu, storeVars, phase, published, retained, reader, crashes, budget>>

---------------------------------------------------------------------------
(* `nits events`: one page at a time, printed before the position moves.   *)

ReaderPage ==
    LET page == ReplayEvents(log, views, reader.scope, reader.pos)
    IN reader' =
        IF ~page.ok THEN [reader EXCEPT !.state = "lost"]
        ELSE [reader EXCEPT
                !.printed = @ \o page.events,
                !.scanned = page.after, !.head = 0,
                !.from = IF reader.pos.type = "Now" THEN page.through ELSE @,
                !.wake = FALSE,
                !.pos = IF page.after < page.through THEN Continue(page.after, page.through)
                        ELSE Follow(page.through),
                !.state = IF page.after < page.through \/ reader.follow THEN "ask" ELSE "done"]

ReadPage ==
    /\ phase = "up" /\ reader.state = "ask" /\ reader.pos.type # "Follow"
    /\ ReaderPage
    /\ UNCHANGED <<menu, storeVars, phase, published, retained, outsideVars, crashes, budget>>

(* Daemon::replay_events for Follow: register, look at the head, and sleep *)
(* until a broadcast.                                                      *)
FollowRegister ==
    /\ phase = "up" /\ reader.state = "ask" /\ reader.pos.type = "Follow"
    /\ reader' = [reader EXCEPT !.state = "watch", !.wake = FALSE]
    /\ UNCHANGED <<menu, storeVars, phase, published, retained, outsideVars, crashes, budget>>

FollowLook ==
    /\ phase = "up" /\ reader.state = "watch"
    /\ reader' = [reader EXCEPT !.state = "looked", !.head = Len(log)]
    /\ UNCHANGED <<menu, storeVars, phase, published, retained, outsideVars, crashes, budget>>

FollowDecide ==
    /\ phase = "up" /\ reader.state = "looked"
    /\ IF reader.head > reader.pos.after THEN ReaderPage
       ELSE reader' = [reader EXCEPT !.state = "sleep"]
    /\ UNCHANGED <<menu, storeVars, phase, published, retained, outsideVars, crashes, budget>>

FollowWake ==
    /\ phase = "up" /\ reader.state = "sleep" /\ reader.wake
    /\ reader' = [reader EXCEPT !.state = "watch", !.wake = FALSE]
    /\ UNCHANGED <<menu, storeVars, phase, published, retained, outsideVars, crashes, budget>>

(* The connection breaks, also without a crash.                            *)
ReaderDropped ==
    /\ Reading /\ crashes < MaxCrashes
    /\ reader' = Disconnected(reader)
    /\ crashes' = crashes + 1
    /\ UNCHANGED <<menu, storeVars, phase, published, retained, outsideVars, budget>>

---------------------------------------------------------------------------
ReviewsInit ==
    \E s \in Stores :
        /\ menu = s.menu
        /\ log = s.log /\ schema = s.schema
        /\ views = IF s.schema = CURRENT THEN RebuildViews(s.log) ELSE NoViews
        /\ viewSeq = IF s.schema \in {0, Unstamped} THEN 0 ELSE Len(s.log)
        /\ phase = "down" /\ published = 0
        /\ retained = UNION {Retain(s.log[n].rv, s.log[n].resolved).keys :
                                n \in {i \in DOMAIN s.log : s.log[i].kind \in Naming}}
        /\ git = FirstGit /\ available = DOMAIN FirstGit
        /\ reader = [state |-> s.reader, scope |-> s.scope, follow |-> s.follow,
                     pos |-> s.pos, from |-> s.pos.after, scanned |-> s.pos.after,
                     printed |-> <<>>, wake |-> FALSE, head |-> 0]
        /\ crashes = 0 /\ budget = s.budget

ReviewsNext ==
    \/ \E m \in menu : Mutate(m) \/ Interrupted(m) \/ Outside(m)
    \/ Publish
    \/ Ensure \/ Migrate \/ OpenViews \/ CrashOpening
    \/ ReadPage \/ FollowRegister \/ FollowLook \/ FollowDecide \/ FollowWake \/ ReaderDropped

ReviewsSpec == ReviewsInit /\ [][ReviewsNext]_reviewVars

---------------------------------------------------------------------------
(* Properties.                                                             *)

(* What the daemon serves is what its log says, in today's types: the      *)
(* tables kept up to date by `append`, and the tables and events of an old *)
(* store that was migrated, are those of a fold over the whole log, though *)
(* the daemon crashed between any two transactions of an operation or of   *)
(* the migration (store/mod.rs, store/migrate.rs).                         *)
ServedIsFolded ==
    phase = "up" => /\ views = RebuildViews(log) /\ viewSeq = Len(log)
                    /\ \A n \in DOMAIN log : Decodes(log[n])

(* The workspace of a review, from the log alone.                          *)
InScope(scope, n) ==
    CASE scope.type = "Workspace" ->
            \E i \in 1..n : /\ log[i].kind \in {"WorkspaceCreated", "WorkspaceUpdated", "RepoAttached",
                                                "RepoDetached", "ReviewCreated"}
                            /\ log[i].ws = scope.id
                            /\ i = n \/ (log[i].rv # NoReview /\ log[i].rv = log[n].rv)
      [] scope.type = "Review" -> log[n].rv = scope.id
      [] scope.type = "AwaitingAgent" -> log[n].kind = "ReviewRequested" /\ log[n].agent = scope.id
      [] OTHER -> TRUE

(* `nits events` prints every event of its scope exactly once and in       *)
(* order, as far as it has scanned: pages bounded by count and size,       *)
(* writes between them, deleted reviews, a restarted daemon and a broken   *)
(* connection neither skip nor repeat one (store/replay.rs, nits-cli).     *)
ReplayExact ==
    reader.state # "off" =>
        /\ Ascending(reader.printed)
        /\ ToSet(reader.printed) =
               {n \in (reader.from + 1)..reader.scanned : InScope(reader.scope, n)}

(* A follower does not sleep through an event: when the log is ahead of    *)
(* it, a wake-up is pending or still to be broadcast (daemon.rs:335).      *)
FollowerAwake ==
    phase = "up" /\ reader.state = "sleep" /\ Len(log) > reader.pos.after
        => reader.wake \/ published < Len(log)

(* The change of a thread since then is in the listing.                    *)
ListsChanges(history, rv) ==
    \A since \in 0..Len(log) :
        LET then == history[since + 1]
            listed == ListComments(log, views, rv, {"Open", "Resolved", "Deferred",
                                                    "Informational", "Deleted"}, since)
        IN \A k \in ThreadsOf(views, rv) \ listed :
                k \in DOMAIN then.threads /\ JoinThread(then, k) = JoinThread(views, k)

(* A snapshot and the events after it make the snapshot of now.            *)
SnapshotContinues(history, rv) ==
    \A n \in 0..Len(log) :
        rv \in DOMAIN history[n + 1].reviews =>
            LET old == ReviewSnapshot(history[n + 1], n, rv)
                mine == SelectSeq([i \in 1..(Len(log) - n) |-> n + i], LAMBDA i : log[i].rv = rv)
                tables == [history[n + 1] EXCEPT !.comments = old.comments, !.threads = old.threads,
                                                 !.suggestions = old.suggestions, !.viewed = old.viewed,
                                                 !.requests = old.requests, !.checkpoints = old.checkpoints]
            IN ReviewSnapshot(FoldLeft(LAMBDA v, i : ApplyEvent(v, log[i], i), tables, mine), Len(log), rv)
                = ReviewSnapshot(views, viewSeq, rv)

(* An agent is awaited exactly while a request to it has no later check of *)
(* its own in reply.                                                       *)
Awaited(rv, agent) ==
    \E n \in DOMAIN log :
        /\ log[n].kind = "ReviewRequested" /\ log[n].rv = rv /\ log[n].agent = agent
        /\ \A i \in (n + 1)..Len(log) :
              ~(log[i].kind = "ReviewChecked" /\ log[i].rv = rv /\ log[i].by = agent /\ log[i].answers = n)

(* A request that says "same targets" repeats what was last checked.       *)
ComparedWith(n) ==
    LET checks == {i \in 1..(n - 1) : log[i].kind = "ReviewChecked" /\ log[i].rv = log[n].rv}
    IN log[n].compared.outcome = "SameTargets" <=>
            checks # {} /\ log[Max(checks)].resolved = log[n].resolved

(* The queries over the tables tell what the log tells.  Listing the       *)
(* comments with activity since a sequence number misses no change: a      *)
(* thread that is not listed is exactly as it was then, whichever of       *)
(* reply, edit, deletion, re-anchoring, disposition or application changed *)
(* it; the overview counts the same open findings as the listing, and      *)
(* awaits the agents that have not answered; a snapshot and the events of  *)
(* the review after its position make the present one; a request knows     *)
(* whether it repeats what was checked (store/comment_query.rs,            *)
(* store/discovery.rs, store/mod.rs, domain.rs).                           *)
QueriesAgree ==
    phase = "up" =>
        LET history == History(log) IN
        /\ \A rv \in DOMAIN views.reviews :
            /\ ListsChanges(history, rv)
            /\ SnapshotContinues(history, rv)
            /\ OpenFindings(views, rv) = Cardinality(ListComments(log, views, rv, {"Open"}, Always))
            /\ views.reviews[rv].live =>
                    (Awaited(rv, "agent") <=> rv \in {d.id : d \in DiscoverReviews(log, views, "agent")})
        /\ \A n \in DOMAIN log : log[n].kind = "ReviewRequested" /\ log[n].form = "now" => ComparedWith(n)

(* What a reviewer is told about his own progress is true.  A file is      *)
(* "viewed" only while the review shows the very content at his last mark  *)
(* of it, and a check is "current" only while the review shows the         *)
(* revisions that the check is of; a commit, an edit, an undo, a new       *)
(* target or an archived round cannot make either out of date              *)
(* (review.rs, viewed_state; domain.rs, latest_checkpoints).               *)
ProgressIsTrue ==
    phase = "up" => \A rv \in {r \in DOMAIN views.reviews : Live(r)} :
        /\ \A p \in DOMAIN views.reviews[rv].resolved :
            LET marks == {n \in DOMAIN log : log[n].kind \in {"FileViewed", "FileUnviewed"}
                                               /\ log[n].rv = rv /\ log[n].repo = p}
                shown == {n \in DOMAIN log : log[n].kind = "ReviewTargetsResolved" /\ log[n].rv = rv}
                last == log[Max(marks)]
            IN ViewedState(rv, p) = "Viewed" <=>
                    /\ marks # {} /\ last.kind = "FileViewed"
                    /\ last.content = log[Max(shown)].resolved[p].head.tree
        /\ \A who \in {"agent", "human"} :
            LET n == LatestCheckpoint(views, rv, who)
            IN n # 0 => /\ \A i \in (n + 1)..Len(log) :
                                ~(log[i].kind = "ReviewChecked" /\ log[i].rv = rv /\ log[i].by = who)
                        /\ Freshness(views, rv, n) = "Current" =>
                                Files([p \in DOMAIN log[n].resolved |->
                                        [base |-> log[n].resolved[p].head,
                                         head |-> views.reviews[rv].resolved[p].head]]) = {}

(* Every revision that a review, a request or a checkpoint names is kept   *)
(* alive by a ref, whatever an interrupted operation left out, so that its *)
(* diff can still be shown after the checkout moved on; and so is every    *)
(* captured tree that a scope of the review compares (checkpoints.rs,      *)
(* review.rs, scoped_targets).                                             *)
NamedIsRetained ==
    /\ \A n \in DOMAIN log :
        log[n].kind \in Naming /\ log[n].form = "now"
            => Retain(log[n].rv, log[n].resolved).keys \subseteq retained
    /\ phase = "up" => \A rv \in DOMAIN views.reviews :
        /\ OpenTrees(rv) \subseteq {<<k[2], k[3]>> : k \in {x \in retained : x[1] = rv}}
        /\ \A scope \in {[type |-> t, id |-> n, repo |-> p] :
                        t \in {"All", "Requested", "SinceCheckpoint", "Committed", "Commit", "Worktree"},
                        n \in DOMAIN log, p \in DOMAIN views.reviews[rv].resolved} :
            \A targets \in ScopedTargets(rv, scope) : \A p \in DOMAIN targets :
                LET head == targets[p].head
                IN head.source = "WorkingTree" /\ views.reviews[rv].resolved[p].head.source = "WorkingTree"
                    => <<rv, p, head.tree>> \in retained

=============================================================================
