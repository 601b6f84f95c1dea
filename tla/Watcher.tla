------------------------------ MODULE Watcher ------------------------------
(***************************************************************************)
(* The file watcher of the daemon and the reviews it keeps current.        *)
(*                                                                         *)
(* nitsd/src/watcher.rs (run, sync_repos, watch_one, refresh_paths,        *)
(* process) with the core operations it calls (nits-review-core/src/       *)
(* review.rs: working_tree, tree_delta, working_tree_reviews,              *)
(* refresh_working_tree_review, resolve_targets) and the ones that run     *)
(* beside it on the writer thread (update_review, delete_review,           *)
(* attach_repo and detach_repo in repository.rs).                          *)
(*                                                                         *)
(* The watcher is one task.  It waits for file system notifications, for   *)
(* events of the log and for debounced work; while it works on a           *)
(* repository, checkouts change, notifications and events queue up and the *)
(* writer serves clients.  A checkout is a content tree, its Git metadata  *)
(* (HEAD, index, refs: a counter) and whether it has a submodule, whose    *)
(* metadata lies outside the checkout and needs a watch of its own.        *)
(***************************************************************************)
EXTENDS Naturals, Sequences

CONSTANTS
    Repos, Reviews,
    Targets,        \* the repositories whose working tree a review shows
    Roots, NoRoot,  \* checkouts; no checkout
    Trees, NoTree,  \* content trees; `last_tree` before the first pass
    FirstTree,      \* the content every checkout starts with
    Backlog,        \* EVENT_BACKLOG
    MaxEdit,        \* bound: changes to checkouts
    MaxMember,      \* bound: attachments and detachments
    MaxEvent,       \* bound: other mutations of clients
    MaxFailure      \* bound: Git and notify errors

ASSUME WatcherAssumption ==
    /\ Targets \in [Reviews -> (SUBSET Repos) \ {{}}]
    /\ NoRoot \notin Roots /\ NoTree \notin Trees /\ FirstTree \in Trees
    /\ Backlog \in Nat \ {0}
    /\ MaxEdit \in Nat /\ MaxMember \in Nat /\ MaxEvent \in Nat /\ MaxFailure \in Nat

VARIABLES
    tree, meta, sub,        \* of every checkout
    root,                   \* the checkout a repository is attached at
    status, resolved,       \* of every review
    job,                    \* the reopening on the writer thread, or {}
    inbox, lagged,          \* the watcher's receiver of events
    fs,                     \* notifications sent by the callbacks
    pending,                \* repositories waiting for the quiet period
    watched,                \* the registrations
    pc, sync, work, listed, cur, found, cands,   \* where the task is
    lost,                   \* ghost: a membership event was lost
    missed,                 \* ghost: reviews whose last pass failed or was of an unwatched checkout
    raced,                  \* ghost: reviews reopened with overtaken targets
    edits, members, events, failures

checkoutVars == <<tree, meta, sub, edits>>
reviewVars == <<status, resolved, job, missed, raced>>
inboxVars == <<inbox, lagged, lost>>
taskVars == <<pc, sync, work, listed, cur, found, cands>>
watchVars == <<pending, watched>>
countVars == <<members, events, failures>>
vars == <<tree, meta, sub, root, status, resolved, job, inbox, lagged, fs, pending,
          watched, pc, sync, work, listed, cur, found, cands, lost, missed, raced,
          edits, members, events, failures>>

(* A checkout as a resolution records it, and a review that has none.       *)
Content(k) == <<tree[k], meta[k]>>
Attached(v) == \A r \in Targets[v] : root[r] # NoRoot
Current(v) == [r \in Targets[v] |-> Content(root[r])]

NoWatch == [root |-> NoRoot, sub |-> FALSE, last |-> NoTree]
Watch == [root : Roots \cup {NoRoot}, sub : BOOLEAN, last : Trees \cup {NoTree}]
Watches(r, k) == watched[r].root = k
Registered(v) == \A r \in Targets[v] : Watches(r, root[r])

(* A pass is of what is watched, or another is needed once it is.           *)
Resolves(v) == missed' = IF Registered(v) THEN missed \ {v} ELSE missed \cup {v}

(* The variables of a pass, out of scope between two of them.               *)
NoList == [r \in Repos |-> NoRoot]
NoRepo == CHOOSE r \in Repos : TRUE

(* The task starts with sync_repos, already subscribed to the events; some  *)
(* repositories are attached and their reviews resolved earlier.            *)
Init ==
    /\ tree = [k \in Roots |-> FirstTree]
    /\ meta = [k \in Roots |-> 0]
    /\ sub \in [Roots -> BOOLEAN]
    /\ root \in {a \in [Repos -> Roots \cup {NoRoot}] :
                   \A r, s \in Repos : a[r] = a[s] => r = s \/ a[r] = NoRoot}
    /\ status \in [Reviews -> {"open", "archived"}]
    /\ resolved = [v \in Reviews |-> [r \in Targets[v] |-> <<FirstTree, 0>>]]
    /\ job = {}
    /\ inbox = <<>> /\ lagged = FALSE /\ lost = FALSE
    /\ fs = {} /\ pending = {}
    /\ watched = [r \in Repos |-> NoWatch]
    /\ pc = "list" /\ sync = TRUE /\ work = {}
    /\ listed = NoList /\ cur = NoRepo /\ found = FALSE /\ cands = {}
    /\ missed = {} /\ raced = {}
    /\ edits = 0 /\ members = 0 /\ events = 0 /\ failures = 0

-----------------------------------------------------------------------------
(* Checkouts change.  The callback of every registration that covers the    *)
(* changed path sends its repository's id.                                  *)

Notified(ids) == fs' = fs \cup ids
Covering(k) == {r \in Repos : Watches(r, k)}

Change ==
    /\ edits < MaxEdit
    /\ edits' = edits + 1
    /\ UNCHANGED <<root, reviewVars, inboxVars, taskVars, watchVars, countVars>>

(* A file is written.                                                       *)
Edit(k, t) ==
    /\ Change
    /\ t # tree[k]
    /\ tree' = [tree EXCEPT ![k] = t]
    /\ Notified(Covering(k))
    /\ UNCHANGED <<meta, sub>>

(* A commit, a branch switch, an index or configuration change.             *)
Metadata(k) ==
    /\ Change
    /\ meta' = [meta EXCEPT ![k] = @ + 1]
    /\ Notified(Covering(k))
    /\ UNCHANGED <<tree, sub>>

(* A submodule is added: that touches the checkout itself.                  *)
AddSubmodule(k) ==
    /\ Change
    /\ ~ sub[k]
    /\ sub' = [sub EXCEPT ![k] = TRUE]
    /\ meta' = [meta EXCEPT ![k] = @ + 1]
    /\ Notified(Covering(k))
    /\ UNCHANGED tree

(* The HEAD of the submodule moves: that is seen only by a registration     *)
(* which includes the submodule's metadata.                                 *)
SubmoduleMetadata(k) ==
    /\ Change
    /\ sub[k]
    /\ meta' = [meta EXCEPT ![k] = @ + 1]
    /\ Notified({r \in Covering(k) : watched[r].sub})
    /\ UNCHANGED <<tree, sub>>

-----------------------------------------------------------------------------
(* The writer thread.  Its events reach the watcher's receiver too, which   *)
(* keeps the last Backlog of them and reports once that it lost some.       *)

Send(kind) ==
    LET full == Len(inbox) = Backlog
    IN  /\ inbox' = Append(IF full THEN Tail(inbox) ELSE inbox, kind)
        /\ lagged' = (lagged \/ full)
        /\ lost' = (lost \/ (full /\ Head(inbox) = "membership"))

Mutation ==
    /\ job = {}
    /\ UNCHANGED <<checkoutVars, fs, watchVars, taskVars>>

(* attach_repo: a checkout has one attachment.                              *)
Attach(r, k) ==
    /\ Mutation
    /\ members < MaxMember
    /\ members' = members + 1
    /\ root[r] = NoRoot
    /\ \A s \in Repos : root[s] # k
    /\ root' = [root EXCEPT ![r] = k]
    /\ Send("membership")
    /\ UNCHANGED <<reviewVars, events, failures>>

(* detach_repo.                                                             *)
Detach(r) ==
    /\ Mutation
    /\ members < MaxMember
    /\ members' = members + 1
    /\ root[r] # NoRoot
    /\ root' = [root EXCEPT ![r] = NoRoot]
    /\ Send("membership")
    /\ UNCHANGED <<reviewVars, events, failures>>

ClientMutation ==
    /\ Mutation
    /\ events < MaxEvent
    /\ events' = events + 1
    /\ UNCHANGED <<root, members, failures>>

(* update_review to Archived, and delete_review.                            *)
Close(v, s) ==
    /\ ClientMutation
    /\ status[v] # "deleted" /\ status[v] # s
    /\ status' = [status EXCEPT ![v] = s]
    /\ Send("other")
    /\ UNCHANGED <<resolved, job, missed, raced>>

(* update_review to Open: the targets are resolved first, and the status    *)
(* and the targets appended afterwards.                                     *)
ReopenResolve(v) ==
    /\ ClientMutation
    /\ status[v] = "archived"
    /\ Attached(v)
    /\ job' = {[review |-> v, targets |-> Current(v)]}
    /\ UNCHANGED <<status, resolved, inboxVars, missed, raced>>

ReopenCommit ==
    /\ \E j \in job :
         LET v == j.review
         IN  /\ status' = [status EXCEPT ![v] = "open"]
             /\ resolved' = [resolved EXCEPT ![v] = j.targets]
             /\ Resolves(v)
             /\ raced' = IF Attached(v) /\ Current(v) = j.targets
                         THEN raced \ {v} ELSE raced \cup {v}
    /\ job' = {}
    /\ Send("other")
    /\ UNCHANGED <<checkoutVars, root, fs, watchVars, taskVars, countVars>>

(* resolve_targets on the writer.  It fails when a target is detached and   *)
(* appends nothing when nothing moved.                                      *)
ResolveTargets(v) ==
    /\ Attached(v)
    /\ resolved' = [resolved EXCEPT ![v] = Current(v)]
    /\ Resolves(v)
    /\ raced' = raced \ {v}
    /\ IF resolved[v] # Current(v) THEN Send("other") ELSE UNCHANGED inboxVars
    /\ UNCHANGED <<status, job>>

(* A client asks for a refresh, which an archived review allows as well.    *)
Refresh(v) ==
    /\ ClientMutation
    /\ status[v] # "deleted"
    /\ ResolveTargets(v)

(* Any other event of the log.                                              *)
OtherEvent ==
    /\ ClientMutation
    /\ Send("other")
    /\ UNCHANGED reviewVars

-----------------------------------------------------------------------------
(* run: the select of the task.                                             *)

Failure ==
    /\ failures < MaxFailure
    /\ failures' = failures + 1

Task(here) ==
    /\ pc = here
    /\ UNCHANGED <<checkoutVars, root, members, events>>

(* Mutant of TakeNotification: no deadline is set for the repository.       *)
TakeNotificationOnly(r) ==
    /\ Task("select")
    /\ r \in fs
    /\ fs' = fs \ {r}
    /\ UNCHANGED <<reviewVars, inboxVars, taskVars, watchVars, failures>>

TakeNotification(r) ==
    /\ Task("select")
    /\ r \in fs
    /\ fs' = fs \ {r}
    /\ pending' = pending \cup {r}
    /\ UNCHANGED <<reviewVars, inboxVars, taskVars, watched, failures>>

(* The report of lost events is an Err and ignored, like every event that   *)
(* is not about a membership.                                               *)
TakeEvent ==
    /\ Task("select")
    /\ inbox # <<>>
    /\ IF lagged
       THEN lagged' = FALSE /\ UNCHANGED <<inbox, pc>>
       ELSE /\ inbox' = Tail(inbox)
            /\ pc' = IF Head(inbox) = "membership" THEN "list" ELSE "select"
            /\ UNCHANGED lagged
    /\ UNCHANGED <<lost, reviewVars, fs, watchVars, sync, work, listed, cur, found, cands, failures>>

(* The quiet period of some repositories is over.                           *)
TakeDue(due) ==
    /\ Task("select")
    /\ due # {}
    /\ pending' = pending \ due
    /\ pc' = "next"
    /\ sync' = FALSE
    /\ work' = due
    /\ UNCHANGED <<reviewVars, inboxVars, fs, watched, listed, cur, found, cands, failures>>

(* The next repository of a due set or of sync_repos; an id that is due but *)
(* not registered is skipped.                                               *)
TakeRepo(r) ==
    /\ Task("next")
    /\ r \in work
    /\ work' = work \ {r}
    /\ cur' = r
    /\ pc' = IF sync \/ watched[r] # NoWatch THEN "discover" ELSE "next"
    /\ UNCHANGED <<reviewVars, inboxVars, fs, watchVars, sync, listed, found, cands, failures>>

TaskDone ==
    /\ Task("next")
    /\ work = {}
    /\ pc' = "select"
    /\ sync' = TRUE
    /\ listed' = NoList /\ cur' = NoRepo /\ found' = FALSE
    /\ UNCHANGED <<reviewVars, inboxVars, fs, watchVars, work, cands, failures>>

-----------------------------------------------------------------------------
(* sync_repos and refresh_paths: registrations.                             *)

(* The checkouts that are attached, read in one transaction; registrations  *)
(* of other checkouts are dropped.                                          *)
ListRepos ==
    /\ Task("list")
    /\ LET kept == {r \in Repos : watched[r] # NoWatch /\ root[r] = watched[r].root}
       IN  /\ watched' = [r \in Repos |-> IF r \in kept THEN watched[r] ELSE NoWatch]
           /\ work' = {r \in Repos : root[r] # NoRoot} \ kept
    /\ listed' = root
    /\ pc' = "next"
    /\ sync' = TRUE
    /\ UNCHANGED <<reviewVars, inboxVars, fs, pending, cur, found, cands, failures>>

ListFails ==
    /\ Task("list")
    /\ Failure
    /\ pc' = "select"
    /\ UNCHANGED <<reviewVars, inboxVars, fs, watchVars, sync, work, listed, cur, found, cands>>

(* The checkout to register: the one listed, or the one registered.         *)
Path == IF sync THEN listed[cur] ELSE watched[cur].root

(* WatchPaths::discover.  refresh_paths is done when nothing changed.       *)
Discover ==
    /\ Task("discover")
    /\ found' = sub[Path]
    /\ pc' = IF sync \/ sub[Path] # watched[cur].sub THEN "watch" ELSE "snapshot"
    /\ UNCHANGED <<reviewVars, inboxVars, fs, watchVars, sync, work, listed, cur, cands,
                   failures>>

(* watch_one: the new registration is there before the old one is dropped,  *)
(* and takes its last_tree over.                                            *)
WatchOne ==
    /\ Task("watch")
    /\ watched' = [watched EXCEPT ![cur] =
                     [root |-> Path, sub |-> found, last |-> watched[cur].last]]
    /\ pc' = "snapshot"
    /\ UNCHANGED <<reviewVars, inboxVars, fs, pending, sync, work, listed, cur, found,
                   cands, failures>>

(* Either fails: sync_repos gives the repository up, refresh_paths goes on  *)
(* with the registration it has.                                            *)
WatchFails ==
    /\ Task(pc) /\ pc \in {"discover", "watch"}
    /\ Failure
    /\ pc' = IF sync THEN "next" ELSE "snapshot"
    /\ UNCHANGED <<reviewVars, inboxVars, fs, watchVars, sync, work, listed, cur, found, cands>>

-----------------------------------------------------------------------------
(* process: one pass over the repository `cur`.                             *)

(* Mutant of Snapshot: an unchanged tree ends the pass.                     *)
SnapshotUnchanged ==
    /\ Task("snapshot")
    /\ root[cur] # NoRoot
    /\ LET t == tree[root[cur]]
           last == watched[cur].last
       IN  /\ watched' = [watched EXCEPT ![cur].last = t]
           /\ pc' = IF last = NoTree THEN "reviews" ELSE IF last = t THEN "next" ELSE "delta"
    /\ UNCHANGED <<reviewVars, inboxVars, fs, pending, sync, work, listed, cur, found, cands,
                   failures>>

(* working_tree: the snapshot is of the checkout the id is attached at now. *)
Snapshot ==
    /\ Task("snapshot")
    /\ root[cur] # NoRoot
    /\ LET t == tree[root[cur]]
           last == watched[cur].last
       IN  /\ watched' = [watched EXCEPT ![cur].last = t]
           /\ pc' = IF last \notin {NoTree, t} THEN "delta" ELSE "reviews"
    /\ UNCHANGED <<reviewVars, inboxVars, fs, pending, sync, work, listed, cur, found, cands,
                   failures>>

(* tree_delta and broadcast_delta.                                          *)
Delta ==
    /\ Task("delta")
    /\ root[cur] # NoRoot
    /\ pc' = "reviews"
    /\ UNCHANGED <<reviewVars, inboxVars, fs, watchVars, sync, work, listed, cur, found,
                   cands, failures>>

(* Git fails, or the id was detached or moved to a checkout that has other  *)
(* objects.  The pass goes on to the reviews.                               *)
DeltaFails ==
    /\ Task("delta")
    /\ Failure \/ (root[cur] # watched[cur].root /\ UNCHANGED failures)
    /\ pc' = "reviews"
    /\ UNCHANGED <<reviewVars, inboxVars, fs, watchVars, sync, work, listed, cur, found, cands>>

(* working_tree_reviews.                                                    *)
ListReviews ==
    /\ Task("reviews")
    /\ cands' = {v \in Reviews : status[v] = "open" /\ cur \in Targets[v]}
    /\ pc' = "refresh"
    /\ UNCHANGED <<reviewVars, inboxVars, fs, watchVars, sync, work, listed, cur, found, failures>>

(* The snapshot or the listing fails: the pass is over and nothing repeats  *)
(* it.                                                                      *)
PassFails ==
    /\ Task(pc) /\ pc \in {"snapshot", "reviews"}
    /\ Failure \/ (pc = "snapshot" /\ root[cur] = NoRoot /\ UNCHANGED failures)
    /\ missed' = missed \cup {v \in Reviews : cur \in Targets[v]}
    /\ pc' = "next"
    /\ UNCHANGED <<status, resolved, job, raced, inboxVars, fs, watchVars, sync, work, listed,
                   cur, found, cands>>

(* refresh_working_tree_review, on the writer: the candidate may have been  *)
(* archived or deleted since it was listed.                                 *)
RefreshOne(v) ==
    /\ Task("refresh") /\ job = {}
    /\ v \in cands
    /\ cands' = cands \ {v}
    /\ IF status[v] = "open" /\ Attached(v) THEN ResolveTargets(v)
       ELSE /\ missed' = IF status[v] = "open" THEN missed \cup {v} ELSE missed
            /\ UNCHANGED <<status, resolved, job, raced, inboxVars>>
    /\ UNCHANGED <<fs, watchVars, pc, sync, work, listed, cur, found, failures>>

RefreshFails(v) ==
    /\ Task("refresh") /\ job = {}
    /\ v \in cands
    /\ Failure
    /\ cands' = cands \ {v}
    /\ missed' = missed \cup {v}
    /\ UNCHANGED <<status, resolved, job, raced, inboxVars, fs, watchVars, pc, sync, work, listed,
                   cur, found>>

PassDone ==
    /\ Task("refresh")
    /\ cands = {}
    /\ pc' = "next"
    /\ UNCHANGED <<reviewVars, inboxVars, fs, watchVars, sync, work, listed, cur, found, cands,
                   failures>>

-----------------------------------------------------------------------------

Checkouts ==
    \E k \in Roots :
        \/ \E t \in Trees : Edit(k, t)
        \/ Metadata(k)
        \/ AddSubmodule(k)
        \/ SubmoduleMetadata(k)

Clients ==
    \/ \E r \in Repos : Detach(r) \/ \E k \in Roots : Attach(r, k)
    \/ \E v \in Reviews :
          \/ \E s \in {"archived", "deleted"} : Close(v, s)
          \/ ReopenResolve(v)
          \/ Refresh(v)
    \/ OtherEvent

Step ==
    \/ \E r \in Repos : TakeNotification(r) \/ TakeRepo(r)
    \/ TakeEvent
    \/ \E due \in SUBSET pending : TakeDue(due)
    \/ TaskDone
    \/ ListRepos \/ Discover \/ WatchOne
    \/ Snapshot \/ Delta \/ ListReviews \/ PassDone
    \/ \E v \in Reviews : RefreshOne(v)
    \/ ListFails \/ WatchFails \/ DeltaFails \/ PassFails
    \/ \E v \in Reviews : RefreshFails(v)

Next == Checkouts \/ Clients \/ ReopenCommit \/ Step

Spec == Init /\ [][Next]_vars

(* The task and the writer are polled as long as the daemon runs; timers    *)
(* expire, so a repository does not stay pending once its notifications     *)
(* stop.                                                                    *)
FairSpec == Spec /\ WF_vars(Step) /\ WF_vars(ReopenCommit)

-----------------------------------------------------------------------------
(* Properties.                                                              *)

(* The state stays within its types.                                        *)
WatcherTypeOK ==
    /\ tree \in [Roots -> Trees]
    /\ meta \in [Roots -> 0..MaxEdit]
    /\ sub \in [Roots -> BOOLEAN]
    /\ root \in [Repos -> Roots \cup {NoRoot}]
    /\ status \in [Reviews -> {"open", "archived", "deleted"}]
    /\ Len(inbox) <= Backlog
    /\ fs \subseteq Repos /\ pending \subseteq Repos
    /\ watched \in [Repos -> Watch]
    /\ pc \in {"select", "list", "next", "discover", "watch", "snapshot", "delta",
               "reviews", "refresh"}
    /\ (pc \in {"discover", "watch"} => Path \in Roots)
    /\ (~ sync /\ pc \notin {"select", "list", "next"} => watched[cur] # NoWatch)
    /\ work \subseteq Repos /\ cands \subseteq Reviews

(* Nothing is left for the watcher to do.                                   *)
Quiet ==
    /\ pc = "select" /\ fs = {} /\ pending = {} /\ job = {} /\ ~ lagged
    /\ ~ \E i \in 1..Len(inbox) : inbox[i] = "membership"

(* A review whose repositories are registered where they are attached.      *)
Covered(v) ==
    \A r \in Targets[v] : /\ root[r] # NoRoot
                          /\ Watches(r, root[r])
                          /\ watched[r].sub = sub[root[r]]

(* A watcher that has nothing to do has left no open review behind: it      *)
(* shows its checkouts as they are, content and provenance, however edits,  *)
(* attachments, archiving and the steps of passes interleaved.  Excepted    *)
(* are a review whose last pass failed or found a repository where it is    *)
(* not watched, and one that a change overtook while it was being reopened. *)
QuietIsCurrent ==
    Quiet =>
        \A v \in Reviews :
            (status[v] = "open" /\ Covered(v) /\ v \notin missed /\ v \notin raced) =>
                resolved[v] = Current(v)

(* As long as no membership event was lost and no registration failed, a    *)
(* quiet watcher watches exactly the checkouts that are attached, through   *)
(* detachments and attachments of an id at other places.                    *)
RegistrationsFollow ==
    Quiet /\ ~ lost /\ failures = 0 =>
        \A r \in Repos : Watches(r, root[r])

(* "Archived reviews retain their last resolution": no step of the watcher  *)
(* changes the targets of a review that is archived or deleted, though it   *)
(* works from a list that may be older.                                     *)
ArchivedKept ==
    [][\A v \in Reviews :
         (status[v] # "open" /\ resolved'[v] # resolved[v]) => UNCHANGED taskVars]_vars

(* A change is not only noticed but acted upon: a review that does not show *)
(* its checkouts is brought up to date, unless it is closed, loses its      *)
(* registrations, or its pass fails.                                        *)
EventuallyCurrent ==
    \A v \in Reviews :
        (status[v] = "open" /\ Covered(v) /\ resolved[v] # Current(v)) ~>
            \/ status[v] # "open"
            \/ ~ Covered(v)
            \/ v \in missed \cup raced
            \/ resolved[v] = Current(v)

=============================================================================
