----------------------------- MODULE Reanchor -----------------------------
(***************************************************************************)
(* The comments of one review and the moving tree they are anchored to.    *)
(*                                                                         *)
(* nits-review-core/src/comments.rs (add_comment, reply, delete_comment,   *)
(* reanchor_review, path_fates), anchor.rs (reanchor), review.rs           *)
(* (resolve_targets, record_resolved_targets, delete_review), the fold of  *)
(* those events in store/views.rs, and the draft a client holds            *)
(* (nits-client-core/src/lib.rs).                                          *)
(*                                                                         *)
(* A resolution records the new tree in one event and then re-anchors the  *)
(* comments in one event each; an error or a crash may end it between two  *)
(* of them.  Resolutions and comment mutations run on one writer thread,   *)
(* so no mutation falls inside a resolution, but a client composes its     *)
(* comment against whatever tree it saw when it opened the draft.          *)
(*                                                                         *)
(* One repository and one side of its diff.  The lines of an anchor are    *)
(* represented by the relation Maps: whether map_range finds the anchored  *)
(* lines of one blob in another, with an equal context hash.               *)
(***************************************************************************)
EXTENDS Naturals

CONSTANTS
    Paths,
    Blobs,
    NoBlob,         \* a path that is not in a tree
    NoPath,         \* the path of an anchor to the whole review
    Maps,           \* the pairs of blobs between which the anchored lines map
    Similar,        \* the pairs of blobs Git takes for one renamed file
    FirstTree,      \* the tree the review was created on
    MaxComment,     \* bound: comments ever created
    MaxMove,        \* bound: changes to the checkout
    MaxFailure      \* bound: resolutions that end early

ASSUME ReanchorAssumption ==
    /\ NoBlob \notin Blobs
    /\ NoPath \notin Paths
    /\ Maps \subseteq Blobs \X Blobs
    /\ Similar \subseteq Blobs \X Blobs
    /\ \A b \in Blobs : <<b, b>> \in Similar
    /\ FirstTree \in [Paths -> Blobs \cup {NoBlob}]
    /\ MaxComment \in Nat
    /\ MaxMove \in Nat
    /\ MaxFailure \in Nat

Ids == 1..MaxComment
Tree == [Paths -> Blobs \cup {NoBlob}]

(* Anchor: to the review, to a file, or to lines of a file.                 *)
ReviewAnchor == [kind |-> "review", path |-> NoPath, blob |-> NoBlob]
FileAnchors == [kind : {"file", "lines"}, path : Paths, blob : Blobs]
Anchor == FileAnchors \cup {ReviewAnchor}

(* A comment: its thread's root, its anchor, its state (with the last good  *)
(* anchor of an outdated one) and whether it was made in Browse mode.       *)
Comment == [root : Ids \cup {0}, anchor : Anchor, good : Anchor,
            state : {"none", "live", "outdated", "deleted"}, browse : BOOLEAN]
NoComment == [root |-> 0, anchor |-> ReviewAnchor, good |-> ReviewAnchor,
              state |-> "none", browse |-> FALSE]

VARIABLES
    tree,       \* what the review's ref names: the checkout now
    commit,     \* the provenance of that tree, which changes on its own
    resolved,   \* ReviewRecord.resolved: the tree of the last resolution
    basis,      \* and its provenance
    deleted,    \* ReviewLifecycle::Deleted
    comment,    \* [Ids -> Comment]
    index,      \* anchors_by_blob: pairs of a blob and a comment
    created,    \* how many comments were created
    todo,       \* the comments the running resolution has yet to look at
    renames,    \* its renamed paths: [Paths -> Paths \cup {NoPath}]
    draft,      \* the anchor of the client's open draft, or ReviewAnchor
    moves,      \* changes to the checkout so far
    failures,   \* resolutions that ended early
    stale,      \* ghost: comments no resolution has looked at since they
                \* were given a blob that is not the resolved one
    follows     \* ghost: where each comment's file is, renames followed

reviewVars == <<resolved, basis, deleted>>
commentVars == <<comment, index, created, stale, follows>>
reanchorVars == <<tree, commit, resolved, basis, deleted, comment, index, created,
          todo, renames, draft, moves, failures, stale, follows>>

ReanchorInit ==
    /\ tree = FirstTree
    /\ commit = 0
    /\ resolved = FirstTree
    /\ basis = 0
    /\ deleted = FALSE
    /\ comment = [c \in Ids |-> NoComment]
    /\ index = {}
    /\ created = 0
    /\ todo = {}
    /\ renames = [p \in Paths |-> NoPath]
    /\ draft = ReviewAnchor
    /\ moves = 0
    /\ failures = 0
    /\ stale = {}
    /\ follows = [c \in Ids |-> NoPath]

Idle == todo = {}           \* the writer thread is between two jobs

-----------------------------------------------------------------------------
(* The checkout moves: a file is edited, created or deleted, renamed        *)
(* (perhaps edited on the way), or the same content is committed.           *)

Move ==
    /\ moves < MaxMove
    /\ moves' = moves + 1
    /\ UNCHANGED <<reviewVars, commentVars, todo, renames, draft, failures>>

Write(p, b) ==
    /\ Move
    /\ tree[p] # b
    /\ tree' = [tree EXCEPT ![p] = b]
    /\ UNCHANGED commit

Rename(p, q, b) ==
    /\ Move
    /\ tree[p] # NoBlob
    /\ tree[q] = NoBlob
    /\ tree' = [tree EXCEPT ![p] = NoBlob, ![q] = b]
    /\ UNCHANGED commit

Commit ==
    /\ Move
    /\ commit' = commit + 1
    /\ UNCHANGED tree

-----------------------------------------------------------------------------
(* The store's fold of comment events.                                      *)

IndexEntry(c, a) == IF a.kind = "review" THEN {} ELSE {<<a.blob, c>>}

(* CommentCreated.                                                          *)
Created(c, rec) ==
    /\ comment' = [comment EXCEPT ![c] = rec]
    /\ index' = index \cup IndexEntry(c, rec.anchor)

(* CommentDeleted.                                                          *)
Deleted(c) ==
    /\ index' = index \ IndexEntry(c, comment[c].anchor)
    /\ comment' = [comment EXCEPT ![c].state = "deleted"]

(* Mutant of Reanchored: the entry of the old blob stays.                   *)
ReanchoredTwice(c, rec) ==
    /\ index' = index \cup IndexEntry(c, rec.anchor)
    /\ comment' = [comment EXCEPT ![c] = rec]

(* CommentReanchored.                                                       *)
Reanchored(c, rec) ==
    /\ index' = (index \ IndexEntry(c, comment[c].anchor)) \cup IndexEntry(c, rec.anchor)
    /\ comment' = [comment EXCEPT ![c] = rec]

-----------------------------------------------------------------------------
(* Comment mutations.                                                       *)

(* A client opens a draft on a file of the tree it is shown.                *)
OpenDraft(p, kind) ==
    /\ draft = ReviewAnchor
    /\ ~ deleted
    /\ resolved[p] # NoBlob
    /\ draft' = [kind |-> kind, path |-> p, blob |-> resolved[p]]
    /\ UNCHANGED <<tree, commit, reviewVars, commentVars, todo, renames, moves, failures>>

(* add_comment: the anchor's blob must exist in the repository, which it    *)
(* does for as long as the retained trees do; nothing compares it with the  *)
(* resolved tree.  Browse comments cannot be to the review.                 *)
AddComment(a, browse) ==
    /\ Idle
    /\ ~ deleted
    /\ created < MaxComment
    /\ browse => a # ReviewAnchor
    /\ LET c == created + 1
       IN  /\ created' = c
           /\ Created(c, [root |-> c, anchor |-> a, good |-> ReviewAnchor,
                          state |-> "live", browse |-> browse])
           /\ stale' = IF a # ReviewAnchor /\ resolved[a.path] # a.blob
                       THEN stale \cup {c} ELSE stale
           /\ follows' = [follows EXCEPT ![c] = a.path]
    /\ UNCHANGED <<tree, commit, reviewVars, todo, renames, moves, failures>>

SubmitDraft(browse) ==
    /\ draft # ReviewAnchor
    /\ draft' = ReviewAnchor
    /\ AddComment(draft, browse)

AddReviewComment ==
    /\ AddComment(ReviewAnchor, FALSE)
    /\ UNCHANGED draft

(* reply: the root must exist and not be deleted; the review is not looked  *)
(* at.  Anchor, state and context are the root's.                           *)
Reply(r) ==
    /\ Idle
    /\ created < MaxComment
    /\ comment[r].state \in {"live", "outdated"}
    /\ comment[r].root = r
    /\ LET c == created + 1
       IN  /\ created' = c
           /\ Created(c, comment[r])
           /\ stale' = IF r \in stale THEN stale \cup {c} ELSE stale
           /\ follows' = [follows EXCEPT ![c] = follows[r]]
    /\ UNCHANGED <<tree, commit, reviewVars, todo, renames, draft, moves, failures>>

(* delete_comment by its author.                                            *)
DeleteComment(c) ==
    /\ Idle
    /\ comment[c].state \in {"live", "outdated"}
    /\ Deleted(c)
    /\ UNCHANGED <<tree, commit, reviewVars, created, todo, renames, draft, moves,
                   failures, stale, follows>>

DeleteReview ==
    /\ Idle
    /\ ~ deleted
    /\ deleted' = TRUE
    /\ UNCHANGED <<tree, commit, resolved, basis, commentVars, todo, renames, draft,
                   moves, failures>>

-----------------------------------------------------------------------------
(* Resolution.                                                              *)

(* The renames Git may report between two trees: files that disappeared     *)
(* paired with similar files that appeared, as many as it finds.            *)
RenamePair(old, new, p, q) ==
    /\ old[p] # NoBlob /\ new[p] = NoBlob
    /\ old[q] = NoBlob /\ new[q] # NoBlob
    /\ <<old[p], new[q]>> \in Similar

Renames(old, new) ==
    {m \in [Paths -> Paths \cup {NoPath}] :
        /\ \A p \in Paths : m[p] # NoPath => RenamePair(old, new, p, m[p])
        /\ \A p, q \in Paths : m[p] = m[q] /\ m[p] # NoPath => p = q
        /\ \A p, q \in Paths :
              RenamePair(old, new, p, q) => m[p] # NoPath \/ \E r \in Paths : m[r] = q}

(* record_resolved_targets: an unchanged resolution does nothing; a changed *)
(* one appends ReviewTargetsResolved and goes on to the comments.           *)
Resolve ==
    /\ Idle
    /\ ~ deleted
    /\ <<tree, commit>> # <<resolved, basis>>
    /\ resolved' = tree
    /\ basis' = commit
    /\ renames' \in Renames(resolved, tree)
    /\ todo' = {c \in Ids : comment[c].state # "none"}
    /\ stale' = stale \cup {c \in Ids : /\ comment[c].state # "none"
                                        /\ comment[c].anchor.kind # "review"}
    /\ UNCHANGED <<tree, commit, deleted, comment, index, created, draft, moves,
                   failures, follows>>

(* path_fates: the path a file of the old tree has in the new one.          *)
Fate(p) ==
    IF p \in Paths /\ renames[p] # NoPath THEN renames[p]
    ELSE IF p \in Paths /\ resolved[p] # NoBlob THEN p
    ELSE NoPath

(* reanchor: the comment as it should be after the resolution.  Its attempt *)
(* starts from the last good anchor of an outdated comment.                 *)
Base(rec) == IF rec.state = "outdated" THEN rec.good ELSE rec.anchor

Outdated(rec) == [rec EXCEPT !.state = "outdated", !.good = Base(rec)]

LiveAt(rec, p) ==
    [rec EXCEPT !.state = "live", !.good = ReviewAnchor,
                !.anchor = [kind |-> Base(rec).kind, path |-> p, blob |-> resolved[p]]]

(* Mutant of Follow: lines are not looked for in a changed blob.            *)
FollowSameBlob(rec) ==
    LET base == Base(rec)
        p == Fate(base.path)
    IN  IF p = NoPath THEN Outdated(rec)
        ELSE IF base.kind = "file" \/ resolved[p] = base.blob
             THEN LiveAt(rec, p)
             ELSE Outdated(rec)

Follow(rec) ==
    LET base == Base(rec)
        p == Fate(base.path)
    IN  IF p = NoPath THEN Outdated(rec)
        ELSE IF \/ base.kind = "file"
                \/ resolved[p] = base.blob
                \/ <<base.blob, resolved[p]>> \in Maps
             THEN LiveAt(rec, p)
             ELSE Outdated(rec)

(* The comments reanchor_review passes over.                                *)
Skips(rec) ==
    rec.state = "deleted" \/ rec.browse \/ Base(rec).kind = "review"

(* Whether `reanchor` returns Moved.  For lines whose file is still there   *)
(* it does so each time they cannot be found, even when the comment is      *)
(* already outdated.                                                        *)
Emits(rec) ==
    \/ Follow(rec) # rec
    \/ Base(rec).kind = "lines" /\ Fate(Base(rec).path) # NoPath /\ rec.state = "outdated"

(* One comment of the running resolution, in the order of their ids.        *)
ReanchorOne(c) ==
    /\ c \in todo
    /\ \A d \in todo : c <= d
    /\ todo' = todo \ {c}
    /\ stale' = stale \ {c}
    /\ IF ~ Skips(comment[c]) /\ Emits(comment[c])
       THEN Reanchored(c, Follow(comment[c]))
       ELSE UNCHANGED <<comment, index>>
    /\ follows' = [follows EXCEPT ![c] = IF Fate(@) = NoPath THEN @ ELSE Fate(@)]
    /\ UNCHANGED <<tree, commit, reviewVars, created, renames, draft, moves, failures>>

(* An error (an object Git cannot read, an append the store refuses) or a   *)
(* crash ends the resolution; what it appended stays.                       *)
Fail ==
    /\ ~ Idle
    /\ failures < MaxFailure
    /\ failures' = failures + 1
    /\ todo' = {}
    /\ UNCHANGED <<tree, commit, reviewVars, commentVars, renames, draft, moves>>

-----------------------------------------------------------------------------

Checkout ==
    \/ \E p \in Paths : \E b \in Blobs \cup {NoBlob} : Write(p, b)
    \/ \E p, q \in Paths : \E b \in Blobs : Rename(p, q, b)
    \/ Commit

Client ==
    \/ \E p \in Paths : \E kind \in {"file", "lines"} : OpenDraft(p, kind)
    \/ \E browse \in BOOLEAN : SubmitDraft(browse)
    \/ AddReviewComment
    \/ \E c \in Ids : Reply(c) \/ DeleteComment(c)
    \/ DeleteReview

Resolution ==
    \/ Resolve
    \/ \E c \in Ids : ReanchorOne(c)

ReanchorNext == Checkout \/ Client \/ Resolution \/ Fail

ReanchorSpec == ReanchorInit /\ [][ReanchorNext]_reanchorVars

-----------------------------------------------------------------------------
(* Properties.                                                              *)

(* The state stays within its types.                                        *)
ReanchorTypeOK ==
    /\ tree \in Tree /\ resolved \in Tree
    /\ commit \in 0..MaxMove /\ basis \in 0..MaxMove
    /\ deleted \in BOOLEAN
    /\ comment \in [Ids -> Comment]
    /\ index \subseteq Blobs \X Ids
    /\ created \in 0..MaxComment
    /\ todo \subseteq 1..created
    /\ renames \in [Paths -> Paths \cup {NoPath}]
    /\ draft \in Anchor
    /\ moves \in 0..MaxMove
    /\ failures \in 0..MaxFailure
    /\ stale \subseteq 1..created
    /\ follows \in [Ids -> Paths \cup {NoPath}]

(* anchors_by_blob has exactly one entry for every comment that is anchored *)
(* to a blob and not deleted, through creation, replies, deletion and any   *)
(* number of re-anchorings, finished or not.                                *)
IndexExact ==
    index = {<<comment[c].anchor.blob, c>> :
               c \in {d \in Ids : /\ comment[d].state \in {"live", "outdated"}
                                  /\ comment[d].anchor.kind # "review"}}

Followed(c) == ~ Skips(comment[c]) /\ c \notin stale /\ comment[c].state # "none"

(* A live comment that a resolution has looked at is anchored to the file   *)
(* the resolved tree has at its path, also after resolutions that ended     *)
(* early, and an outdated one really is lost there: its file is gone, or    *)
(* its lines cannot be found in it.                                         *)
AnchorsCurrent ==
    \A c \in Ids : Followed(c) =>
        LET rec == comment[c]
            there == resolved[Base(rec).path]
        IN  /\ rec.state = "live" => there = rec.anchor.blob
            /\ rec.state = "outdated" =>
                 \/ there = NoBlob
                 \/ /\ rec.good.kind = "lines"
                    /\ there # rec.good.blob
                    /\ <<rec.good.blob, there>> \notin Maps

(* Replies stay with their thread: as long as every resolution ran to its   *)
(* end, the comments of a thread that are not deleted have one anchor and   *)
(* one state.                                                               *)
ThreadTogether ==
    Idle /\ failures = 0 =>
        \A c, d \in Ids :
            (/\ comment[c].root = comment[d].root
             /\ comment[c].state \in {"live", "outdated"}
             /\ comment[d].state \in {"live", "outdated"}) =>
                /\ comment[c].anchor = comment[d].anchor
                /\ comment[c].state = comment[d].state
                /\ comment[c].good = comment[d].good

(* Deletion is final and Browse comments are pinned: no resolution brings a *)
(* deleted comment back or touches its anchor, and none moves a comment     *)
(* made in Browse mode.                                                     *)
FixedComments ==
    [][\A c \in Ids :
         /\ comment[c].state = "deleted" => comment'[c] = comment[c]
         /\ comment[c].state # "none" /\ comment[c].browse =>
              comment'[c].anchor = comment[c].anchor]_reanchorVars

=============================================================================
