-------------------------- MODULE CommentsProofs --------------------------
(***************************************************************************)
(* Proofs about the two parts of the core that are behind a comment and    *)
(* its suggestion.                                                         *)
(*                                                                         *)
(* Reanchor, for any paths, contents, number of comments, moves and        *)
(* interrupted resolutions: the index of anchors is exact, an anchor that  *)
(* a resolution has looked at is current or truly lost, deleted and pinned *)
(* comments stay as they are, and threads stay together.                   *)
(*                                                                         *)
(* SuggestionFile, for every set of suggestions and contents and any       *)
(* number of files, directories, attempts and edits: no bytes of anybody   *)
(* are lost, only reviewed bytes are replaced, and a receipt is final.     *)
(***************************************************************************)
EXTENDS Reanchor, SuggestionFile, TLAPS

-----------------------------------------------------------------------------
(***************************************************************************)
(* Anchors.                                                                *)
(***************************************************************************)
Alive(rec) == rec.state \in {"live", "outdated"}

(* Comments are numbered in the order of their creation.                    *)
Numbered ==
    \A c \in Ids : /\ comment[c].state = "none" <=> c > created
                   /\ c <= created => comment[c].root \in 1..created

(* Only a comment to a file becomes outdated, and it keeps where it was.    *)
Formed ==
    \A c \in Ids : comment[c].state = "outdated" =>
        comment[c].anchor \in FileAnchors /\ comment[c].good \in FileAnchors

(* The renames are those of the resolved tree.                              *)
RenamesCurrent ==
    \A p \in Paths : renames[p] # NoPath =>
        resolved[p] = NoBlob /\ resolved[renames[p]] # NoBlob

(* The index, entry by entry.                                               *)
Entry(rec, c) == IF Alive(rec) THEN IndexEntry(c, rec.anchor) ELSE {}
IndexKept == \A x : x \in index <=> \E c \in Ids : x \in Entry(comment[c], c)

(* What a resolution makes of a comment, and how the comments of a thread   *)
(* compare while it is under way.                                           *)
Result(rec) == IF ~ Skips(rec) /\ Emits(rec) THEN Follow(rec) ELSE rec
Threads ==
    failures = 0 =>
        \A c, d \in Ids :
            Alive(comment[c]) /\ Alive(comment[d]) /\ comment[c].root = comment[d].root =>
                /\ (c \in todo <=> d \in todo) => comment[c] = comment[d]
                /\ c \notin todo /\ d \in todo => comment[c] = Result(comment[d])

ReanchorInv ==
    /\ ReanchorTypeOK /\ commit <= moves /\ Numbered /\ Formed /\ RenamesCurrent /\ IndexKept
    /\ AnchorsCurrent /\ Threads

-----------------------------------------------------------------------------
(* The kinds of steps.                                                      *)

(* Nothing happens to the comments, the resolution or the index.            *)
Still ==
    UNCHANGED <<resolved, comment, index, created, todo, renames, failures, stale>>
Puts(c, rec) == comment'[c] = rec /\ \A d \in Ids : d # c => comment'[d] = comment[d]

(* Every step is one of these.                                              *)
LEMMA StepKinds ==
    ASSUME ReanchorTypeOK, [ReanchorNext]_reanchorVars
    PROVE  \/ Still
           \/ \E a \in Anchor, browse \in BOOLEAN : AddComment(a, browse)
           \/ \E c \in Ids : Reply(c) \/ DeleteComment(c) \/ ReanchorOne(c)
           \/ Resolve
           \/ Fail
<1>1. CASE Checkout
  BY <1>1 DEF Checkout, Write, Rename, Commit, Move, Still, reviewVars, commentVars
<1>2. CASE Client
  <2>1. CASE \E p \in Paths : \E kind \in {"file", "lines"} : OpenDraft(p, kind)
    BY <2>1 DEF OpenDraft, Still, reviewVars, commentVars
  <2>2. CASE \E browse \in BOOLEAN : SubmitDraft(browse)
    BY <2>2 DEF SubmitDraft, ReanchorTypeOK
  <2>3. CASE AddReviewComment
    BY <2>3 DEF AddReviewComment, Anchor
  <2>4. CASE DeleteReview
    BY <2>4 DEF DeleteReview, Still, commentVars
  <2>. QED  BY <1>2, <2>1, <2>2, <2>3, <2>4 DEF Client
<1>3. CASE UNCHANGED reanchorVars
  BY <1>3 DEF reanchorVars, Still
<1>. QED  BY <1>1, <1>2, <1>3 DEF ReanchorNext, Resolution

(* A comment is added under the next number.                                *)
LEMMA Adds ==
    ASSUME ReanchorTypeOK, NEW a \in Anchor, NEW browse \in BOOLEAN, AddComment(a, browse)
    PROVE  /\ todo = {} /\ created' = created + 1 /\ created + 1 \in Ids
           /\ Puts(created + 1, [root |-> created + 1, anchor |-> a, good |-> ReviewAnchor,
                                 state |-> "live", browse |-> browse])
           /\ index' = index \cup IndexEntry(created + 1, a)
           /\ stale' = IF a # ReviewAnchor /\ resolved[a.path] # a.blob
                       THEN stale \cup {created + 1} ELSE stale
           /\ UNCHANGED <<resolved, todo, renames, failures>>
<1>1. created + 1 \in Ids
  BY ReanchorAssumption DEF AddComment, ReanchorTypeOK, Ids
<1>. QED  BY <1>1 DEF AddComment, Created, Puts, Idle, ReanchorTypeOK, reviewVars

(* A reply is added under the next number.                                  *)
LEMMA Replies ==
    ASSUME ReanchorTypeOK, NEW r \in Ids, Reply(r)
    PROVE  /\ todo = {} /\ created' = created + 1 /\ created + 1 \in Ids
           /\ Alive(comment[r]) /\ comment[r].root = r
           /\ Puts(created + 1, comment[r])
           /\ index' = index \cup IndexEntry(created + 1, comment[r].anchor)
           /\ stale' = IF r \in stale THEN stale \cup {created + 1} ELSE stale
           /\ UNCHANGED <<resolved, todo, renames, failures>>
<1>1. created + 1 \in Ids
  BY ReanchorAssumption DEF Reply, ReanchorTypeOK, Ids
<1>. QED  BY <1>1 DEF Reply, Created, Puts, Idle, Alive, ReanchorTypeOK, reviewVars

(* A deletion only marks the comment.                                       *)
LEMMA Deletes ==
    ASSUME ReanchorTypeOK, NEW c \in Ids, DeleteComment(c)
    PROVE  /\ todo = {} /\ Alive(comment[c])
           /\ comment'[c] \in Comment /\ comment'[c].state = "deleted"
           /\ comment'[c].root = comment[c].root /\ comment'[c].anchor = comment[c].anchor
           /\ \A d \in Ids : d # c => comment'[d] = comment[d]
           /\ index' = index \ IndexEntry(c, comment[c].anchor)
           /\ UNCHANGED <<resolved, created, todo, renames, failures, stale>>
<1>1. comment' = [comment EXCEPT ![c].state = "deleted"]
  BY DEF DeleteComment, Deleted
<1>2. comment'[c] = [comment[c] EXCEPT !.state = "deleted"]
  BY <1>1 DEF ReanchorTypeOK
<1>3. comment[c] \in Comment
  BY DEF ReanchorTypeOK
<1>4. comment'[c] \in Comment /\ comment'[c].state = "deleted"
      /\ comment'[c].root = comment[c].root /\ comment'[c].anchor = comment[c].anchor
  BY <1>2, <1>3 DEF Comment
<1>5. \A d \in Ids : d # c => comment'[d] = comment[d]
  BY <1>1 DEF ReanchorTypeOK
<1>. QED  BY <1>4, <1>5 DEF DeleteComment, Deleted, Idle, Alive, reviewVars

-----------------------------------------------------------------------------
(* What a resolution makes of a comment.                                    *)

(* The anchor a followed comment is looked for from is one to a file.       *)
LEMMA BaseForm ==
    ASSUME NEW rec \in Comment, Alive(rec), ~ Skips(rec),
           rec.state = "outdated" => rec.anchor \in FileAnchors /\ rec.good \in FileAnchors
    PROVE  /\ Base(rec) \in FileAnchors /\ rec.anchor \in FileAnchors
           /\ Base(rec).path \in Paths /\ Base(rec).blob \in Blobs
           /\ Base(rec).kind \in {"file", "lines"}
<1>1. Base(rec) \in Anchor /\ Base(rec).kind # "review"
  BY DEF Base, Skips, Comment
<1>2. Base(rec) \in FileAnchors
  BY <1>1 DEF Anchor, ReviewAnchor
<1>3. rec.anchor \in FileAnchors
  BY <1>2 DEF Base, Alive
<1>4. /\ Base(rec).path \in Paths /\ Base(rec).blob \in Blobs
      /\ Base(rec).kind \in {"file", "lines"}
  BY <1>2 DEF FileAnchors
<1>. QED  BY <1>2, <1>3, <1>4

(* A file of the old tree that is still at its path is found there; one     *)
(* that was renamed has left its path.                                      *)
LEMMA FateForm ==
    ASSUME ReanchorTypeOK, RenamesCurrent, NEW p \in Paths
    PROVE  /\ Fate(p) \in Paths \cup {NoPath}
           /\ Fate(p) # NoPath => resolved[Fate(p)] \in Blobs
           /\ resolved[p] = NoBlob \/ Fate(p) = p
  BY ReanchorAssumption DEF ReanchorTypeOK, RenamesCurrent, Fate, Tree

(* What AnchorsCurrent says of one comment.                                 *)
CurrentIn(rec) ==
    LET there == resolved[Base(rec).path]
    IN  /\ rec.state = "live" => there = rec.anchor.blob
        /\ rec.state = "outdated" =>
             \/ there = NoBlob
             \/ /\ rec.good.kind = "lines"
                /\ there # rec.good.blob
                /\ <<rec.good.blob, there>> \notin Maps

(* An outdated comment, field by field.                                     *)
LEMMA OutdatedForm ==
    ASSUME NEW rec \in Comment, Base(rec) \in FileAnchors
    PROVE  /\ Outdated(rec) \in Comment
           /\ Outdated(rec).state = "outdated" /\ Outdated(rec).good = Base(rec)
           /\ Outdated(rec).anchor = rec.anchor /\ Outdated(rec).root = rec.root
           /\ Outdated(rec).browse = rec.browse
<1>1. PICK b \in Anchor : b = Base(rec)
  BY DEF Anchor
<1>. QED  BY <1>1 DEF Outdated, Comment

(* A comment that was found, field by field.                                *)
LEMMA LiveForm ==
    ASSUME NEW rec \in Comment, Base(rec) \in FileAnchors, NEW p \in Paths, resolved[p] \in Blobs
    PROVE  /\ LiveAt(rec, p) \in Comment
           /\ LiveAt(rec, p).state = "live"
           /\ LiveAt(rec, p).anchor = [kind |-> Base(rec).kind, path |-> p, blob |-> resolved[p]]
           /\ LiveAt(rec, p).root = rec.root /\ LiveAt(rec, p).browse = rec.browse
<1>1. PICK a \in Anchor : a = [kind |-> Base(rec).kind, path |-> p, blob |-> resolved[p]]
  BY DEF Anchor, FileAnchors
<1>2. ReviewAnchor \in Anchor
  BY DEF Anchor
<1>3. LiveAt(rec, p) = [rec EXCEPT !.state = "live", !.good = ReviewAnchor, !.anchor = a]
  BY <1>1 DEF LiveAt
<1>. QED  BY <1>1, <1>2, <1>3 DEF Comment

(* The comment a resolution leaves behind is well formed and current.       *)
LEMMA FollowForm ==
    ASSUME ReanchorTypeOK, RenamesCurrent, NEW rec \in Comment, Alive(rec), ~ Skips(rec),
           rec.state = "outdated" => rec.anchor \in FileAnchors /\ rec.good \in FileAnchors
    PROVE  /\ Follow(rec) \in Comment /\ Alive(Follow(rec))
           /\ Follow(rec).root = rec.root /\ Follow(rec).browse = rec.browse
           /\ Follow(rec).state = "outdated" =>
                Follow(rec).anchor \in FileAnchors /\ Follow(rec).good \in FileAnchors
           /\ CurrentIn(Follow(rec))
<1>0. /\ Base(rec) \in FileAnchors /\ rec.anchor \in FileAnchors
      /\ Base(rec).path \in Paths /\ Base(rec).blob \in Blobs
      /\ Base(rec).kind \in {"file", "lines"}
  BY BaseForm
<1>. DEFINE from == Base(rec).path
            p == Fate(from)
<1>1. /\ p \in Paths \cup {NoPath}
      /\ p # NoPath => resolved[p] \in Blobs
      /\ resolved[from] = NoBlob \/ p = from
  BY <1>0, FateForm
<1>2. CASE /\ Follow(rec) = Outdated(rec)
           /\ \/ p = NoPath
              \/ /\ Base(rec).kind # "file" /\ resolved[p] # Base(rec).blob
                 /\ <<Base(rec).blob, resolved[p]>> \notin Maps
  <2>1. /\ Follow(rec) \in Comment
        /\ Follow(rec).state = "outdated" /\ Follow(rec).good = Base(rec)
        /\ Follow(rec).anchor = rec.anchor /\ Follow(rec).root = rec.root
        /\ Follow(rec).browse = rec.browse
    BY <1>0, <1>2, OutdatedForm
  <2>2. Base(Follow(rec)) = Base(rec)
    BY <2>1 DEF Base
  <2>3. p = NoPath => resolved[from] = NoBlob
    BY <1>0, <1>1, ReanchorAssumption
  <2>4. CurrentIn(Follow(rec))
    BY <1>0, <1>1, <1>2, <2>1, <2>2, <2>3 DEF CurrentIn
  <2>. QED  BY <1>0, <2>1, <2>4 DEF Alive
<1>3. CASE Follow(rec) = LiveAt(rec, p) /\ p # NoPath
  <2>1. p \in Paths /\ resolved[p] \in Blobs
    BY <1>1, <1>3
  <2>2. /\ Follow(rec) \in Comment /\ Follow(rec).state = "live"
        /\ Follow(rec).anchor = [kind |-> Base(rec).kind, path |-> p, blob |-> resolved[p]]
        /\ Follow(rec).root = rec.root /\ Follow(rec).browse = rec.browse
    BY <1>0, <1>3, <2>1, LiveForm
  <2>3. Base(Follow(rec)).path = p /\ Follow(rec).anchor.blob = resolved[p]
    BY <2>2 DEF Base
  <2>. QED  BY <2>2, <2>3 DEF CurrentIn, Alive
<1>. QED  BY <1>2, <1>3 DEF Follow

(* One comment of a resolution.                                             *)
LEMMA Follows ==
    ASSUME ReanchorInv, NEW c \in Ids, ReanchorOne(c)
    PROVE  /\ c \in todo /\ todo' = todo \ {c} /\ stale' = stale \ {c}
           /\ Puts(c, Result(comment[c]))
           /\ index' = (index \ Entry(comment[c], c)) \cup Entry(Result(comment[c]), c)
           /\ Result(comment[c]) \in Comment
           /\ Result(comment[c]).root = comment[c].root
           /\ Result(comment[c]).state # "none"
           /\ Alive(Result(comment[c])) <=> Alive(comment[c])
           /\ Result(comment[c]).state = "outdated" =>
                Result(comment[c]).anchor \in FileAnchors /\ Result(comment[c]).good \in FileAnchors
           /\ ~ Skips(comment[c]) => CurrentIn(Result(comment[c]))
           /\ comment[c].state = "deleted" \/ comment[c].browse => Result(comment[c]) = comment[c]
           /\ UNCHANGED <<resolved, created, renames, failures>>
<1>1. /\ c \in todo /\ todo' = todo \ {c} /\ stale' = stale \ {c}
      /\ UNCHANGED <<resolved, created, renames, failures>>
  BY DEF ReanchorOne, reviewVars
<1>2. comment[c] \in Comment /\ comment[c].state # "none"
  BY <1>1 DEF ReanchorInv, ReanchorTypeOK, Numbered
<1>3. comment[c].state = "outdated" =>
        comment[c].anchor \in FileAnchors /\ comment[c].good \in FileAnchors
  BY DEF ReanchorInv, Formed
<1>4. CASE Skips(comment[c])
  <2>1. Result(comment[c]) = comment[c] /\ comment' = comment /\ index' = index
    BY <1>4 DEF Result, ReanchorOne
  <2>2. index = (index \ Entry(comment[c], c)) \cup Entry(comment[c], c)
    BY DEF ReanchorInv, IndexKept
  <2>. QED  BY <1>1, <1>2, <1>3, <1>4, <2>1, <2>2 DEF Puts
<1>5. CASE ~ Skips(comment[c])
  <2>1. Alive(comment[c]) /\ comment[c].state # "deleted" /\ ~ comment[c].browse
    BY <1>2, <1>5 DEF Alive, Skips, Comment
  <2>2. /\ Follow(comment[c]) \in Comment /\ Alive(Follow(comment[c]))
        /\ Follow(comment[c]).root = comment[c].root
        /\ Follow(comment[c]).state = "outdated" =>
             Follow(comment[c]).anchor \in FileAnchors /\ Follow(comment[c]).good \in FileAnchors
        /\ CurrentIn(Follow(comment[c]))
    BY <1>2, <1>3, <1>5, <2>1, FollowForm DEF ReanchorInv
  <2>3. Result(comment[c]) = Follow(comment[c])
    BY <1>5 DEF Result, Emits
  <2>4. Puts(c, Follow(comment[c]))
    <3>1. CASE Emits(comment[c])
      BY <1>5, <3>1 DEF ReanchorOne, Reanchored, Puts, ReanchorInv, ReanchorTypeOK
    <3>2. CASE ~ Emits(comment[c])
      BY <1>5, <3>2 DEF ReanchorOne, Emits, Puts
    <3>. QED  BY <3>1, <3>2
  <2>5. index' = (index \ Entry(comment[c], c)) \cup Entry(Follow(comment[c]), c)
    <3>1. CASE Emits(comment[c])
      BY <1>5, <2>1, <2>2, <3>1 DEF ReanchorOne, Reanchored, Entry
    <3>2. CASE ~ Emits(comment[c])
      <4>1. Follow(comment[c]) = comment[c] /\ index' = index
        BY <1>5, <3>2 DEF ReanchorOne, Emits
      <4>2. index = (index \ Entry(comment[c], c)) \cup Entry(comment[c], c)
        BY DEF ReanchorInv, IndexKept
      <4>. QED  BY <4>1, <4>2
    <3>. QED  BY <3>1, <3>2
  <2>6. Follow(comment[c]).state # "none"
    BY <2>2 DEF Alive
  <2>. QED  BY <1>1, <1>5, <2>1, <2>2, <2>3, <2>4, <2>5, <2>6
<1>. QED  BY <1>4, <1>5

-----------------------------------------------------------------------------
(* The invariant is kept.                                                   *)

(* Changing the entry of one comment keeps the index: no two comments share *)
(* an entry.                                                                *)
LEMMA IndexUpdate ==
    ASSUME IndexKept, NEW c \in Ids, \A d \in Ids : d # c => comment'[d] = comment[d],
           index' = (index \ Entry(comment[c], c)) \cup Entry(comment'[c], c)
    PROVE  IndexKept'
<1>1. \A d, e \in Ids : \A x, y, z : x \in IndexEntry(d, y) /\ x \in IndexEntry(e, z) => d = e
  BY DEF IndexEntry
<1>2. \A d \in Ids : \A x : d # c /\ x \in Entry(comment[d], d) => x \notin Entry(comment[c], c)
  BY <1>1 DEF Entry
<1>3. \A d \in Ids : \A x : d # c => (x \in Entry(comment'[d], d) <=> x \in Entry(comment[d], d))
  OBVIOUS
<1>4. \A x : x \in index' <=> \E d \in Ids : x \in Entry(comment'[d], d)
  BY <1>2, <1>3 DEF IndexKept
<1>. QED  BY <1>4 DEF IndexKept, Entry, Alive, IndexEntry

(* The entry of a comment that is put under a number not used before.       *)
LEMMA IndexAdded ==
    ASSUME IndexKept, Numbered, ReanchorTypeOK, created + 1 \in Ids, NEW rec \in Comment, Alive(rec),
           Puts(created + 1, rec), index' = index \cup IndexEntry(created + 1, rec.anchor)
    PROVE  IndexKept'
<1>1. comment[created + 1].state = "none"
  BY DEF Numbered, ReanchorTypeOK
<1>2. Entry(comment[created + 1], created + 1) = {}
  BY <1>1 DEF Entry, Alive
<1>3. Entry(comment'[created + 1], created + 1) = IndexEntry(created + 1, rec.anchor)
  BY DEF Puts, Entry
<1>. QED  BY <1>2, <1>3, IndexUpdate DEF Puts

(* The index stays exact.                                                   *)
LEMMA IndexStep ==
    ASSUME ReanchorInv, [ReanchorNext]_reanchorVars
    PROVE  IndexKept'
<1>. USE DEF ReanchorInv
<1>1. CASE comment' = comment /\ index' = index
  BY <1>1 DEF IndexKept, Entry, Alive, IndexEntry
<1>2. ASSUME NEW a \in Anchor, NEW browse \in BOOLEAN, AddComment(a, browse) PROVE IndexKept'
  <2>1. PICK rec \in Comment : rec = [root |-> created + 1, anchor |-> a, good |-> ReviewAnchor,
                                      state |-> "live", browse |-> browse]
    BY <1>2, Adds DEF Comment, Anchor
  <2>2. Alive(rec) /\ rec.anchor = a
    BY <2>1 DEF Alive
  <2>3. Puts(created + 1, rec) /\ index' = index \cup IndexEntry(created + 1, rec.anchor)
        /\ created + 1 \in Ids
    BY <1>2, <2>1, <2>2, Adds
  <2>. QED  BY <2>2, <2>3, IndexAdded
<1>3. ASSUME NEW r \in Ids, Reply(r) PROVE IndexKept'
  <2>1. comment[r] \in Comment
    BY DEF ReanchorTypeOK
  <2>. QED  BY <1>3, <2>1, Replies, IndexAdded
<1>4. ASSUME NEW c \in Ids, DeleteComment(c) PROVE IndexKept'
  <2>1. Entry(comment'[c], c) = {}
    BY <1>4, Deletes DEF Entry, Alive
  <2>2. Entry(comment[c], c) = IndexEntry(c, comment[c].anchor)
    BY <1>4, Deletes DEF Entry
  <2>. QED  BY <1>4, <2>1, <2>2, Deletes, IndexUpdate
<1>5. ASSUME NEW c \in Ids, ReanchorOne(c) PROVE IndexKept'
  BY <1>5, Follows, IndexUpdate DEF Puts
<1>. QED  BY <1>1, <1>2, <1>3, <1>4, <1>5, StepKinds DEF Still, Resolve, Fail, commentVars

(* Numbers, the forms of comments, and the renames.                         *)
LEMMA FormStep ==
    ASSUME ReanchorInv, [ReanchorNext]_reanchorVars
    PROVE  Numbered' /\ Formed' /\ RenamesCurrent'
<1>. USE DEF ReanchorInv
<1>0. created \in Nat
  BY ReanchorAssumption DEF ReanchorTypeOK
<1>1. CASE Still
  BY <1>1 DEF Still, Numbered, Formed, RenamesCurrent
<1>2. ASSUME NEW a \in Anchor, NEW browse \in BOOLEAN, AddComment(a, browse)
      PROVE  Numbered' /\ Formed' /\ RenamesCurrent'
  <2>0. /\ comment'[created + 1].state = "live" /\ comment'[created + 1].root = created + 1
        /\ created' = created + 1
        /\ \A d \in Ids : d # created + 1 => comment'[d] = comment[d]
    <3>1. /\ Puts(created + 1, [root |-> created + 1, anchor |-> a, good |-> ReviewAnchor,
                                state |-> "live", browse |-> browse])
          /\ created' = created + 1
      BY <1>2, Adds
    <3>. QED  BY <3>1 DEF Puts
  <2>1. Numbered'
    BY <1>0, <2>0 DEF Numbered, Ids
  <2>2. Formed'
    BY <2>0 DEF Formed
  <2>3. RenamesCurrent'
    BY <1>2, Adds DEF RenamesCurrent
  <2>. QED  BY <2>1, <2>2, <2>3
<1>3. ASSUME NEW r \in Ids, Reply(r) PROVE Numbered' /\ Formed' /\ RenamesCurrent'
  <2>1. Numbered'
    <3>1. r <= created /\ created' = created + 1
      BY <1>0, <1>3, Replies DEF Numbered, Alive, Ids
    <3>2. comment'[created + 1].state # "none" /\ comment'[created + 1].root = r
      BY <1>3, Replies DEF Puts, Alive
    <3>. QED  BY <1>0, <1>3, <3>1, <3>2, Replies DEF Numbered, Puts, Ids
  <2>2. Formed'
    BY <1>3, Replies DEF Formed, Puts
  <2>3. RenamesCurrent'
    BY <1>3, Replies DEF RenamesCurrent
  <2>. QED  BY <2>1, <2>2, <2>3
<1>4. ASSUME NEW c \in Ids, DeleteComment(c) PROVE Numbered' /\ Formed' /\ RenamesCurrent'
  <2>1. Numbered'
    BY <1>4, Deletes DEF Numbered, Alive
  <2>2. Formed' /\ RenamesCurrent'
    BY <1>4, Deletes DEF Formed, RenamesCurrent
  <2>. QED  BY <2>1, <2>2
<1>5. ASSUME NEW c \in Ids, ReanchorOne(c) PROVE Numbered' /\ Formed' /\ RenamesCurrent'
  <2>1. comment[c].state # "none"
    <3>1. c \in 1..created
      BY <1>5 DEF ReanchorOne, ReanchorTypeOK
    <3>. QED  BY <1>0, <3>1 DEF Numbered
  <2>2. Numbered'
    BY <1>5, <2>1, Follows DEF Numbered, Puts
  <2>3. Formed' /\ RenamesCurrent'
    BY <1>5, Follows DEF Formed, RenamesCurrent, Puts
  <2>. QED  BY <2>2, <2>3
<1>6. CASE Resolve
  <2>1. comment' = comment /\ created' = created
    BY <1>6 DEF Resolve
  <2>2. RenamesCurrent'
    BY <1>6 DEF Resolve, Renames, RenamePair, RenamesCurrent
  <2>. QED  BY <2>1, <2>2 DEF Numbered, Formed
<1>7. CASE Fail
  BY <1>7 DEF Fail, commentVars, reviewVars, Numbered, Formed, RenamesCurrent
<1>. QED  BY <1>1, <1>2, <1>3, <1>4, <1>5, <1>6, <1>7, StepKinds

(* Anchors stay current: a comment that a step leaves alone is followed     *)
(* only if it was, and the one it writes is checked or marked stale.        *)
LEMMA CurrentStep ==
    ASSUME ReanchorInv, [ReanchorNext]_reanchorVars
    PROVE  AnchorsCurrent'
<1>. USE DEF ReanchorInv
<1>0. AnchorsCurrent <=> \A c \in Ids : Followed(c) => CurrentIn(comment[c])
  BY DEF AnchorsCurrent, CurrentIn
<1>a. (\A c \in Ids : Followed(c)' => CurrentIn(comment[c])') => AnchorsCurrent'
  BY DEF AnchorsCurrent, CurrentIn
<1>b. ASSUME NEW d \in Ids, comment'[d] = comment[d], resolved' = resolved,
             Followed(d)', d \notin stale
      PROVE  CurrentIn(comment[d])'
  BY <1>0, <1>b DEF Followed, Skips, Base, CurrentIn
<1>c. created \in Nat
  BY ReanchorAssumption DEF ReanchorTypeOK
<1>1. CASE Still
  BY <1>a, <1>b, <1>1 DEF Still, Followed
<1>2. ASSUME NEW a \in Anchor, NEW browse \in BOOLEAN, AddComment(a, browse)
      PROVE  AnchorsCurrent'
  <2>0. PICK c \in Ids : c = created + 1
    BY <1>2, Adds
  <2>1. ASSUME NEW d \in Ids, d # c, Followed(d)' PROVE CurrentIn(comment[d])'
    BY <1>2, <1>b, <2>0, <2>1, Adds DEF Puts, Followed
  <2>2. ASSUME Followed(c)' PROVE CurrentIn(comment[c])'
    <3>1. /\ comment'[c] = [root |-> c, anchor |-> a, good |-> ReviewAnchor,
                            state |-> "live", browse |-> browse]
          /\ resolved' = resolved
      BY <1>2, <2>0, Adds DEF Puts
    <3>2. a # ReviewAnchor
      BY <2>2, <3>1 DEF Followed, Skips, Base, ReviewAnchor
    <3>3. resolved[a.path] = a.blob
      BY <1>2, <2>0, <2>2, <3>2, Adds DEF Followed
    <3>. QED  BY <3>1, <3>3 DEF CurrentIn, Base
  <2>. QED  BY <1>a, <2>1, <2>2
<1>3. ASSUME NEW r \in Ids, Reply(r) PROVE AnchorsCurrent'
  <2>0. PICK c \in Ids : c = created + 1
    BY <1>3, Replies
  <2>1. ASSUME NEW d \in Ids, d # c, Followed(d)' PROVE CurrentIn(comment[d])'
    BY <1>3, <1>b, <2>0, <2>1, Replies DEF Puts, Followed
  <2>2. ASSUME Followed(c)' PROVE CurrentIn(comment[c])'
    <3>1. comment'[c] = comment[r] /\ resolved' = resolved
      BY <1>3, <2>0, Replies DEF Puts
    <3>2. r \notin stale
      BY <1>3, <2>0, <2>2, Replies DEF Followed
    <3>3. Followed(r)
      BY <2>2, <3>1, <3>2 DEF Followed, Skips, Base
    <3>. QED  BY <1>0, <3>1, <3>3 DEF CurrentIn, Base
  <2>. QED  BY <1>a, <2>1, <2>2
<1>4. ASSUME NEW c \in Ids, DeleteComment(c) PROVE AnchorsCurrent'
  <2>1. ASSUME NEW d \in Ids, d # c, Followed(d)' PROVE CurrentIn(comment[d])'
    BY <1>4, <1>b, <2>1, Deletes DEF Followed
  <2>2. ~ Followed(c)'
    BY <1>4, Deletes DEF Followed, Skips
  <2>. QED  BY <1>a, <2>1, <2>2
<1>5. ASSUME NEW c \in Ids, ReanchorOne(c) PROVE AnchorsCurrent'
  <2>1. ASSUME NEW d \in Ids, d # c, Followed(d)' PROVE CurrentIn(comment[d])'
    BY <1>5, <1>b, <2>1, Follows DEF Puts, Followed
  <2>2. ASSUME Followed(c)' PROVE CurrentIn(comment[c])'
    <3>1. CASE ~ Skips(comment[c])
      BY <1>5, <3>1, Follows DEF Puts, CurrentIn, Base
    <3>2. CASE Skips(comment[c])
      BY <1>5, <2>2, <3>2, Follows DEF Puts, Result, Followed, Skips, Base
    <3>. QED  BY <3>1, <3>2
  <2>. QED  BY <1>a, <2>1, <2>2
<1>6. CASE Resolve
  <2>1. ASSUME NEW c \in Ids, Followed(c)' PROVE FALSE
    <3>1. comment'[c] = comment[c] /\ comment[c] \in Comment
      BY <1>6 DEF Resolve, ReanchorTypeOK
    <3>2. Alive(comment[c]) /\ Base(comment[c]).kind # "review"
      BY <2>1, <3>1 DEF Followed, Skips, Alive, Base, Comment
    <3>3. comment[c].anchor.kind # "review"
      BY <3>2 DEF Base, Alive, Formed, FileAnchors
    <3>4. c \in stale'
      BY <1>6, <3>2, <3>3 DEF Resolve, Alive
    <3>. QED  BY <2>1, <3>4 DEF Followed
  <2>. QED  BY <1>a, <2>1
<1>7. CASE Fail
  BY <1>a, <1>b, <1>7 DEF Fail, commentVars, reviewVars, Followed
<1>. QED  BY <1>1, <1>2, <1>3, <1>4, <1>5, <1>6, <1>7, StepKinds

(* What a resolution makes of a comment depends on the resolved tree and    *)
(* its renames.                                                             *)
LEMMA ResultSame ==
    ASSUME resolved' = resolved, renames' = renames, NEW rec
    PROVE  Result(rec)' = Result(rec)
  BY DEF Result, Skips, Emits, Follow, Fate, Base, Outdated, LiveAt

(* The comments of a thread go through a resolution one after the other and *)
(* come out alike.                                                          *)
LEMMA ThreadsStep ==
    ASSUME ReanchorInv, [ReanchorNext]_reanchorVars
    PROVE  Threads'
<1>0. created \in Nat
  BY ReanchorAssumption DEF ReanchorInv, ReanchorTypeOK
<1>a. failures \in Nat
  BY ReanchorAssumption DEF ReanchorInv, ReanchorTypeOK
<1>1. CASE Still
  <2>1. \A rec : Result(rec)' = Result(rec)
    BY <1>1, ResultSame DEF Still
  <2>2. /\ failures' = failures /\ todo' = todo /\ comment' = comment
        /\ \A d \in Ids : Result(comment[d])' = Result(comment[d])
    BY <1>1, <2>1 DEF Still, Result, Skips, Emits, Follow, Fate, Base, Outdated, LiveAt
  <2>. QED  BY <2>2 DEF ReanchorInv, Threads, Alive
<1>2. ASSUME NEW a \in Anchor, NEW browse \in BOOLEAN, AddComment(a, browse) PROVE Threads'
  <2>1. PICK c \in Ids : c = created + 1
    BY <1>2, Adds DEF ReanchorInv
  <2>2. /\ comment'[c].root = c /\ todo' = {} /\ todo = {} /\ failures' = failures
        /\ \A d \in Ids : d # c => comment'[d] = comment[d]
    <3>1. /\ Puts(created + 1, [root |-> created + 1, anchor |-> a, good |-> ReviewAnchor,
                                state |-> "live", browse |-> browse])
          /\ todo = {} /\ todo' = todo /\ failures' = failures
      BY <1>2, Adds DEF ReanchorInv
    <3>. QED  BY <2>1, <3>1 DEF Puts
  <2>3. \A d \in Ids : d # c /\ comment[d].root = c => ~ Alive(comment[d])
    BY <1>0, <2>1 DEF ReanchorInv, Numbered, Alive, Ids
  <2>. QED  BY <2>2, <2>3 DEF ReanchorInv, Threads, Alive
<1>3. ASSUME NEW r \in Ids, Reply(r) PROVE Threads'
  <2>1. PICK c \in Ids : c = created + 1
    BY <1>3, Replies DEF ReanchorInv
  <2>2. /\ comment'[c] = comment[r] /\ Alive(comment[r])
        /\ todo' = {} /\ todo = {} /\ failures' = failures
        /\ \A d \in Ids : d # c => comment'[d] = comment[d]
    BY <1>3, <2>1, Replies DEF ReanchorInv, Puts
  <2>. QED  BY <2>2 DEF ReanchorInv, Threads, Alive
<1>4. ASSUME NEW c \in Ids, DeleteComment(c) PROVE Threads'
  <2>1. /\ ~ Alive(comment'[c]) /\ todo' = {} /\ todo = {} /\ failures' = failures
        /\ \A d \in Ids : d # c => comment'[d] = comment[d]
    BY <1>4, Deletes DEF ReanchorInv, Alive
  <2>. QED  BY <2>1 DEF ReanchorInv, Threads, Alive
<1>5. ASSUME NEW c \in Ids, ReanchorOne(c) PROVE Threads'
  <2>1. /\ c \in todo /\ todo' = todo \ {c} /\ failures' = failures
        /\ comment'[c] = Result(comment[c]) /\ \A d \in Ids : d # c => comment'[d] = comment[d]
        /\ comment'[c].root = comment[c].root /\ (Alive(comment'[c]) => Alive(comment[c]))
    BY <1>5, Follows DEF Puts
  <2>2. \A d \in Ids : d # c => Result(comment[d])' = Result(comment[d])
    <3>1. resolved' = resolved /\ renames' = renames
      BY <1>5, Follows
    <3>2. ASSUME NEW d \in Ids, comment'[d] = comment[d]
          PROVE  Result(comment[d])' = Result(comment[d])
      BY <3>1, <3>2 DEF Result, Skips, Emits, Follow, Fate, Base, Outdated, LiveAt
    <3>. QED  BY <2>1, <3>2
  <2>3. SUFFICES ASSUME failures = 0, NEW d \in Ids, NEW e \in Ids,
                        Alive(comment'[d]), Alive(comment'[e]), comment'[d].root = comment'[e].root
                 PROVE  /\ (d \in todo' <=> e \in todo') => comment'[d] = comment'[e]
                        /\ d \notin todo' /\ e \in todo' => comment'[d] = Result(comment[e])'
    BY <2>1 DEF Threads, Alive
  <2>4. \A f, g \in Ids :
          Alive(comment[f]) /\ Alive(comment[g]) /\ comment[f].root = comment[g].root =>
            /\ (f \in todo <=> g \in todo) => comment[f] = comment[g]
            /\ f \notin todo /\ g \in todo => comment[f] = Result(comment[g])
    BY <2>3 DEF ReanchorInv, Threads
  <2>5. CASE d = c /\ e = c
    BY <2>1, <2>5
  <2>6. CASE d = c /\ e # c
    BY <2>1, <2>2, <2>3, <2>4, <2>6
  <2>7. CASE d # c /\ e = c
    BY <2>1, <2>3, <2>4, <2>7
  <2>8. CASE d # c /\ e # c
    BY <2>1, <2>2, <2>3, <2>4, <2>8
  <2>. QED  BY <2>5, <2>6, <2>7, <2>8
<1>6. CASE Resolve
  <2>1. /\ todo = {} /\ comment' = comment /\ failures' = failures
        /\ \A d \in Ids : Alive(comment[d]) => d \in todo'
    BY <1>6 DEF Resolve, Idle, Alive
  <2>. QED  BY <2>1 DEF ReanchorInv, Threads, Alive
<1>7. CASE Fail
  BY <1>a, <1>7 DEF Fail, Threads
<1>. QED  BY <1>1, <1>2, <1>3, <1>4, <1>5, <1>6, <1>7, StepKinds DEF ReanchorInv

(* The types of what the comments and the resolution are made of.           *)
LEMMA CommentTypes ==
    ASSUME ReanchorInv, [ReanchorNext]_reanchorVars
    PROVE  /\ comment' \in [Ids -> Comment]
           /\ created' \in 0..MaxComment /\ todo' \subseteq 1..created' /\ stale' \subseteq 1..created'
<1>0. created \in 0..MaxComment /\ todo \subseteq 1..created /\ stale \subseteq 1..created
      /\ comment \in [Ids -> Comment] /\ MaxComment \in Nat
  BY ReanchorAssumption DEF ReanchorInv, ReanchorTypeOK
<1>1. CASE Still
  BY <1>0, <1>1 DEF Still
<1>2. ASSUME NEW a \in Anchor, NEW browse \in BOOLEAN, AddComment(a, browse)
      PROVE  /\ comment' \in [Ids -> Comment]
             /\ created' \in 0..MaxComment /\ todo' \subseteq 1..created'
             /\ stale' \subseteq 1..created'
  <2>1. /\ created' = created + 1 /\ created + 1 \in Ids /\ todo' = {} /\ todo = {}
        /\ stale' \subseteq stale \cup {created + 1}
    BY <1>2, Adds DEF ReanchorInv
  <2>2. [root |-> created + 1, anchor |-> a, good |-> ReviewAnchor, state |-> "live",
         browse |-> browse] \in Comment
    BY <2>1 DEF Comment, Anchor
  <2>3. comment' \in [Ids -> Comment]
    BY <1>0, <1>2, <2>2 DEF AddComment, Created
  <2>. QED  BY <1>0, <2>1, <2>3 DEF Ids
<1>3. ASSUME NEW r \in Ids, Reply(r)
      PROVE  /\ comment' \in [Ids -> Comment]
             /\ created' \in 0..MaxComment /\ todo' \subseteq 1..created'
             /\ stale' \subseteq 1..created'
  <2>1. /\ created' = created + 1 /\ created + 1 \in Ids /\ todo' = {}
        /\ stale' \subseteq stale \cup {created + 1}
    BY <1>3, Replies DEF ReanchorInv
  <2>2. comment' \in [Ids -> Comment]
    BY <1>0, <1>3 DEF Reply, Created
  <2>. QED  BY <1>0, <2>1, <2>2 DEF Ids
<1>4. ASSUME NEW c \in Ids, DeleteComment(c)
      PROVE  /\ comment' \in [Ids -> Comment]
             /\ created' \in 0..MaxComment /\ todo' \subseteq 1..created'
             /\ stale' \subseteq 1..created'
  <2>1. created' = created /\ todo' = todo /\ stale' = stale
    BY <1>4, Deletes DEF ReanchorInv
  <2>2. comment' = [comment EXCEPT ![c].state = "deleted"]
    BY <1>4 DEF DeleteComment, Deleted
  <2>3. [comment[c] EXCEPT !.state = "deleted"] \in Comment
    BY <1>0 DEF Comment
  <2>4. comment' = [comment EXCEPT ![c] = [comment[c] EXCEPT !.state = "deleted"]]
    BY <2>2
  <2>5. comment' \in [Ids -> Comment]
    BY <1>0, <2>3, <2>4
  <2>. QED  BY <1>0, <2>1, <2>5
<1>5. ASSUME NEW c \in Ids, ReanchorOne(c)
      PROVE  /\ comment' \in [Ids -> Comment]
             /\ created' \in 0..MaxComment /\ todo' \subseteq 1..created'
             /\ stale' \subseteq 1..created'
  <2>1. created' = created /\ todo' \subseteq todo /\ stale' \subseteq stale
        /\ Puts(c, Result(comment[c])) /\ Result(comment[c]) \in Comment
    BY <1>5, Follows
  <2>2. comment' = comment \/ comment' = [comment EXCEPT ![c] = Follow(comment[c])]
    BY <1>5 DEF ReanchorOne, Reanchored
  <2>3. comment'[c] \in Comment
    BY <2>1 DEF Puts
  <2>4. comment' \in [Ids -> Comment]
    BY <1>0, <2>2, <2>3
  <2>. QED  BY <1>0, <2>1, <2>4
<1>6. CASE Resolve
  <2>1. comment' = comment /\ created' = created
    BY <1>6 DEF Resolve
  <2>2. \A c \in Ids : comment[c].state # "none" => c \in 1..created
    BY <1>0 DEF ReanchorInv, Numbered, Ids
  <2>3. todo' \subseteq 1..created /\ stale' \subseteq 1..created
    BY <1>0, <1>6, <2>2 DEF Resolve
  <2>. QED  BY <1>0, <2>1, <2>3
<1>7. CASE Fail
  BY <1>0, <1>7 DEF Fail, commentVars
<1>. QED  BY <1>1, <1>2, <1>3, <1>4, <1>5, <1>6, <1>7, StepKinds DEF ReanchorInv

(* The index holds blobs and comments.                                      *)
LEMMA IndexTypes ==
    ASSUME IndexKept', comment' \in [Ids -> Comment]
    PROVE  index' \subseteq Blobs \X Ids
<1>1. SUFFICES ASSUME NEW x \in index' PROVE x \in Blobs \X Ids
  OBVIOUS
<1>2. PICK c \in Ids : x \in Entry(comment'[c], c)
  BY DEF IndexKept, Entry, Alive, IndexEntry
<1>3. comment'[c].anchor \in Anchor /\ comment'[c].anchor.kind # "review"
      /\ x = <<comment'[c].anchor.blob, c>>
  BY <1>2 DEF Entry, IndexEntry, Comment
<1>4. comment'[c].anchor.blob \in Blobs
  BY <1>3 DEF Anchor, FileAnchors, ReviewAnchor
<1>. QED  BY <1>3, <1>4

(* The types of the checkout, the review and the draft.                     *)
LEMMA TreeTypes ==
    ASSUME ReanchorInv, [ReanchorNext]_reanchorVars
    PROVE  /\ tree' \in Tree /\ resolved' \in Tree
           /\ commit' \in 0..MaxMove /\ basis' \in 0..MaxMove /\ moves' \in 0..MaxMove
           /\ commit' <= moves' /\ deleted' \in BOOLEAN /\ draft' \in Anchor
           /\ failures' \in 0..MaxFailure
<1>0. /\ tree \in Tree /\ resolved \in Tree
      /\ commit \in 0..MaxMove /\ basis \in 0..MaxMove /\ moves \in 0..MaxMove
      /\ commit <= moves /\ deleted \in BOOLEAN /\ draft \in Anchor
      /\ failures \in 0..MaxFailure /\ MaxMove \in Nat /\ MaxFailure \in Nat
  BY ReanchorAssumption DEF ReanchorInv, ReanchorTypeOK
<1>1. CASE Checkout
  <2>1. tree' \in Tree
    <3>1. CASE \E p \in Paths : \E b \in Blobs \cup {NoBlob} : Write(p, b)
      BY <1>0, <3>1 DEF Write, Tree
    <3>2. CASE \E p, q \in Paths : \E b \in Blobs : Rename(p, q, b)
      BY <1>0, <3>2 DEF Rename, Tree
    <3>3. CASE Commit
      BY <1>0, <3>3 DEF Commit
    <3>. QED  BY <1>1, <3>1, <3>2, <3>3 DEF Checkout
  <2>2. /\ moves' = moves + 1 /\ moves < MaxMove /\ (commit' = commit \/ commit' = commit + 1)
        /\ UNCHANGED <<resolved, basis, deleted, draft, failures>>
    BY <1>1 DEF Checkout, Write, Rename, Commit, Move, reviewVars
  <2>. QED  BY <1>0, <2>1, <2>2
<1>2. CASE Client
  <2>1. UNCHANGED <<tree, commit, resolved, basis, moves, failures>>
    BY <1>2 DEF Client, OpenDraft, SubmitDraft, AddReviewComment, AddComment, Reply,
                DeleteComment, DeleteReview, reviewVars
  <2>2. deleted' = deleted \/ deleted' = TRUE
    BY <1>2 DEF Client, OpenDraft, SubmitDraft, AddReviewComment, AddComment, Reply,
                DeleteComment, DeleteReview, reviewVars
  <2>3. draft' \in Anchor
    <3>1. CASE \E p \in Paths : \E kind \in {"file", "lines"} : OpenDraft(p, kind)
      <4>1. PICK p \in Paths, kind \in {"file", "lines"} : OpenDraft(p, kind)
        BY <3>1
      <4>2. resolved[p] \in Blobs
        BY <1>0, <4>1 DEF OpenDraft, Tree
      <4>. QED  BY <4>1, <4>2 DEF OpenDraft, Anchor, FileAnchors
    <3>2. CASE draft' = draft \/ draft' = ReviewAnchor
      BY <1>0, <3>2 DEF Anchor
    <3>. QED  BY <1>2, <3>1, <3>2 DEF Client, SubmitDraft, AddReviewComment, Reply,
                                      DeleteComment, DeleteReview
  <2>. QED  BY <1>0, <2>1, <2>2, <2>3
<1>3. CASE Resolve
  BY <1>0, <1>3 DEF Resolve
<1>4. ASSUME NEW c \in Ids, ReanchorOne(c)
      PROVE  UNCHANGED <<tree, commit, resolved, basis, deleted, moves, draft, failures>>
  BY <1>4 DEF ReanchorOne, reviewVars
<1>5. CASE Fail
  BY <1>0, <1>5 DEF Fail, reviewVars
<1>6. CASE UNCHANGED reanchorVars
  BY <1>0, <1>6 DEF reanchorVars
<1>. QED  BY <1>0, <1>1, <1>2, <1>3, <1>4, <1>5, <1>6 DEF ReanchorNext, Resolution

(* The types of the paths a resolution and its observer follow.             *)
LEMMA PathTypes ==
    ASSUME ReanchorInv, [ReanchorNext]_reanchorVars
    PROVE  /\ renames' \in [Paths -> Paths \cup {NoPath}]
           /\ follows' \in [Ids -> Paths \cup {NoPath}]
<1>0. /\ renames \in [Paths -> Paths \cup {NoPath}] /\ draft \in Anchor
      /\ follows \in [Ids -> Paths \cup {NoPath}]
  BY DEF ReanchorInv, ReanchorTypeOK
<1>1. CASE Checkout
  BY <1>0, <1>1 DEF Checkout, Write, Rename, Commit, Move, commentVars
<1>2. CASE Client
  <2>1. renames' = renames
    BY <1>2 DEF Client, OpenDraft, SubmitDraft, AddReviewComment, AddComment, Reply,
                DeleteComment, DeleteReview
  <2>2. ASSUME NEW a \in Anchor, NEW browse \in BOOLEAN, AddComment(a, browse)
        PROVE  follows' \in [Ids -> Paths \cup {NoPath}]
    <3>1. a.path \in Paths \cup {NoPath}
      BY DEF Anchor, FileAnchors, ReviewAnchor
    <3>. QED  BY <1>0, <2>2, <3>1 DEF AddComment
  <2>3. ReviewAnchor \in Anchor
    BY DEF Anchor
  <2>4. ASSUME NEW c \in Ids, Reply(c) PROVE follows' \in [Ids -> Paths \cup {NoPath}]
    BY <1>0, <2>4 DEF Reply
  <2>. QED  BY <1>0, <1>2, <2>1, <2>2, <2>3, <2>4
            DEF Client, OpenDraft, SubmitDraft, AddReviewComment, DeleteComment, DeleteReview,
                commentVars
<1>3. CASE Resolve
  BY <1>0, <1>3 DEF Resolve, Renames
<1>4. ASSUME NEW c \in Ids, ReanchorOne(c)
      PROVE  /\ renames' = renames
             /\ follows' \in [Ids -> Paths \cup {NoPath}]
  <2>1. Fate(follows[c]) \in Paths \cup {NoPath}
    BY <1>0 DEF Fate
  <2>. QED  BY <1>0, <1>4, <2>1 DEF ReanchorOne
<1>5. CASE Fail
  BY <1>0, <1>5 DEF Fail, commentVars
<1>6. CASE UNCHANGED reanchorVars
  BY <1>0, <1>6 DEF reanchorVars
<1>. QED  BY <1>0, <1>1, <1>2, <1>3, <1>4, <1>5, <1>6 DEF ReanchorNext, Resolution

-----------------------------------------------------------------------------
(* Theorems.                                                                *)

(* A new review: no comment, nothing to follow.                             *)
LEMMA ReanchorInitInv ==
    ASSUME ReanchorInit PROVE ReanchorInv
<1>1. NoComment \in Comment
  BY DEF NoComment, Comment, Anchor
<1>2. comment \in [Ids -> Comment] /\ \A c \in Ids : comment[c].state = "none"
  BY <1>1 DEF ReanchorInit, NoComment
<1>3. ReanchorTypeOK
  <2>1. tree \in Tree /\ resolved \in Tree /\ draft \in Anchor
    BY ReanchorAssumption DEF ReanchorInit, Tree, Anchor
  <2>2. /\ commit \in 0..MaxMove /\ basis \in 0..MaxMove /\ moves \in 0..MaxMove
        /\ created \in 0..MaxComment /\ failures \in 0..MaxFailure
    BY ReanchorAssumption DEF ReanchorInit
  <2>3. index = {} /\ todo = {} /\ stale = {} /\ deleted \in BOOLEAN
    BY DEF ReanchorInit
  <2>4. /\ renames \in [Paths -> Paths \cup {NoPath}]
        /\ follows \in [Ids -> Paths \cup {NoPath}]
    BY DEF ReanchorInit
  <2>. QED  BY <1>2, <2>1, <2>2, <2>3, <2>4 DEF ReanchorTypeOK
<1>4. commit <= moves
  BY DEF ReanchorInit
<1>5. Numbered /\ Formed /\ RenamesCurrent
  BY <1>2 DEF ReanchorInit, Numbered, Formed, RenamesCurrent, Ids
<1>6. IndexKept
  BY <1>2 DEF ReanchorInit, IndexKept, Entry, Alive
<1>7. AnchorsCurrent /\ Threads
  BY <1>2 DEF AnchorsCurrent, Followed, Threads, Alive
<1>. QED  BY <1>3, <1>4, <1>5, <1>6, <1>7 DEF ReanchorInv

(* Every step of a client, of the checkout or of a resolution keeps it.     *)
LEMMA ReanchorStep ==
    ASSUME ReanchorInv, [ReanchorNext]_reanchorVars PROVE ReanchorInv'
<1>1. IndexKept'
  BY IndexStep
<1>2. comment' \in [Ids -> Comment]
  BY CommentTypes
<1>3. index' \subseteq Blobs \X Ids
  BY <1>1, <1>2, IndexTypes
<1>4. ReanchorTypeOK' /\ (commit <= moves)'
  BY <1>3, CommentTypes, TreeTypes, PathTypes DEF ReanchorTypeOK
<1>. QED  BY <1>1, <1>4, FormStep, CurrentStep, ThreadsStep DEF ReanchorInv

(* The inductive invariant: the index is exact, comments are numbered and   *)
(* well formed, the renames at hand are those of the resolved tree, anchors *)
(* are current, and threads go through a resolution alike.                  *)
THEOREM ReanchorInvariant == ReanchorSpec => []ReanchorInv
<1>1. ReanchorInit => ReanchorInv
  BY ReanchorInitInv
<1>2. ReanchorInv /\ [ReanchorNext]_reanchorVars => ReanchorInv'
  BY ReanchorStep
<1>. QED  BY <1>1, <1>2, PTL DEF ReanchorSpec

(* anchors_by_blob is exact whatever order comments are created, answered,  *)
(* re-anchored and deleted in, and wherever a resolution breaks off.        *)
THEOREM IndexIsExact == ReanchorSpec => []IndexExact
<1>1. ReanchorInv => IndexExact
  <2>1. SUFFICES ASSUME ReanchorInv PROVE IndexExact
    OBVIOUS
  <2>2. \A x : x \in index <=>
               \E c \in Ids : /\ comment[c].state \in {"live", "outdated"}
                              /\ comment[c].anchor.kind # "review"
                              /\ x = <<comment[c].anchor.blob, c>>
    BY <2>1 DEF ReanchorInv, IndexKept, Entry, IndexEntry, Alive
  <2>. QED  BY <2>2 DEF IndexExact
<1>. QED  BY <1>1, ReanchorInvariant, PTL

(* An anchor that a resolution has looked at is current or truly lost,      *)
(* after any number of moves, renames and resolutions that broke off.       *)
THEOREM AnchorsAreCurrent == ReanchorSpec => []AnchorsCurrent
<1>1. ReanchorInv => AnchorsCurrent
  BY DEF ReanchorInv
<1>. QED  BY <1>1, ReanchorInvariant, PTL

(* As long as every resolution ran to its end, the replies of a thread are  *)
(* anchored where their root is, for threads and resolutions of any length. *)
THEOREM ThreadsTogether == ReanchorSpec => []ThreadTogether
<1>1. ReanchorInv => ThreadTogether
  BY DEF ReanchorInv, Threads, ThreadTogether, Alive, Idle
<1>. QED  BY <1>1, ReanchorInvariant, PTL

(* Deletion is final and comments made in Browse mode are pinned: no step   *)
(* brings a deleted comment back, and none moves a Browse comment.          *)
THEOREM FixedStay == ReanchorSpec => FixedComments
<1>1. ASSUME ReanchorInv, [ReanchorNext]_reanchorVars, NEW c \in Ids
      PROVE  /\ comment[c].state = "deleted" => comment'[c] = comment[c]
             /\ comment[c].state # "none" /\ comment[c].browse =>
                  comment'[c].anchor = comment[c].anchor
  <2>0. created \in Nat /\ ReanchorTypeOK
    BY <1>1, ReanchorAssumption DEF ReanchorInv, ReanchorTypeOK
  <2>1. CASE comment' = comment
    BY <2>1
  <2>2. ASSUME NEW d \in Ids, d = created + 1, \A e \in Ids : e # d => comment'[e] = comment[e]
        PROVE  comment[c].state # "none" => comment'[c] = comment[c]
    BY <1>1, <2>0, <2>2 DEF ReanchorInv, Numbered
  <2>3. ASSUME NEW a \in Anchor, NEW browse \in BOOLEAN, AddComment(a, browse)
        PROVE  comment[c].state # "none" => comment'[c] = comment[c]
    BY <2>0, <2>2, <2>3, Adds DEF Puts
  <2>4. ASSUME NEW r \in Ids, Reply(r)
        PROVE  comment[c].state # "none" => comment'[c] = comment[c]
    BY <2>0, <2>2, <2>4, Replies DEF Puts
  <2>5. ASSUME NEW d \in Ids, DeleteComment(d)
        PROVE  /\ comment[c].state = "deleted" => comment'[c] = comment[c]
               /\ comment'[c].anchor = comment[c].anchor
    BY <2>0, <2>5, Deletes DEF Alive
  <2>6. ASSUME NEW d \in Ids, ReanchorOne(d)
        PROVE  comment[c].state = "deleted" \/ comment[c].browse => comment'[c] = comment[c]
    BY <1>1, <2>6, Follows DEF Puts
  <2>. QED  BY <1>1, <2>0, <2>1, <2>3, <2>4, <2>5, <2>6, StepKinds
            DEF Still, Resolve, Fail, commentVars
<1>2. ReanchorInv /\ [ReanchorNext]_reanchorVars =>
        [\A c \in Ids :
           /\ comment[c].state = "deleted" => comment'[c] = comment[c]
           /\ comment[c].state # "none" /\ comment[c].browse =>
                comment'[c].anchor = comment[c].anchor]_reanchorVars
  BY <1>1
<1>. QED  BY <1>2, ReanchorInvariant, PTL DEF ReanchorSpec, FixedComments

-----------------------------------------------------------------------------
(***************************************************************************)
(* The replacement of a file.                                              *)
(***************************************************************************)
(***************************************************************************)
(* Types.                                                                  *)
(***************************************************************************)
LEMMA Numbers ==
  /\ NoFile \in Name /\ NoFile \notin File
  /\ \A i \in File : i \in Name
  /\ \A i \in Name : i # NoFile => i \in File
  /\ 1 \in File /\ 1 \in Dir
  /\ \A n \in 2..(MaxFile + 1) : n \in File => n + 1 \in 2..(MaxFile + 1)
  /\ \A n \in 0..MaxAttempt : n < MaxAttempt =>
       /\ n + 1 \in Attempt /\ n + 1 \in 0..MaxAttempt
       /\ \A S \in SUBSET (1..n) : S \in SUBSET (1..(n + 1))
       /\ \A S \in SUBSET (1..n) : (S \cup {n + 1}) \in SUBSET (1..(n + 1))
  /\ \A n \in 0..MaxEdit : n < MaxEdit => n + 1 \in 0..MaxEdit
  BY SuggestionAssumption DEF NoFile, Name, File, Dir, Attempt

\* An exit records only its outcome.
LEMMA ExitTyped ==
  ASSUME job \in Job, NEW ok \in BOOLEAN, Exit(ok)
  PROVE  job' \in Job
  BY DEF Job, Exit

\* The fields of the application under way.
LEMMA JobFields ==
  ASSUME job \in Job
  PROVE  /\ job.s \in Suggestions /\ job.parent \in Dir
         /\ job.file \in File /\ job.mode \in Meta /\ job.ok \in BOOLEAN
  BY DEF Job

(* While `stage` is alive, `attempt` numbers a directory that exists.       *)
LEMMA StageNumbered ==
  ASSUME SuggestionTypeOK, StageShape, pc \in Staging
  PROVE  attempt \in Attempt /\ attempt \in staged /\ attempt \in 1..attempt
  BY SuggestionAssumption DEF SuggestionTypeOK, StageShape, Attempt

\* A fresh inode is later than every one in use.
LEMMA FreshIsLater ==
  ASSUME SuggestionTypeOK
  PROVE  /\ NoFile < fresh /\ fresh < fresh + 1 /\ fresh # NoFile
         /\ \A n \in Name : n < fresh => n < fresh + 1
  BY SuggestionAssumption DEF SuggestionTypeOK, NoFile, Name

\* The disk starts well typed.
LEMMA TypeInit == Init => SuggestionTypeOK
<1> SUFFICES ASSUME Init PROVE SuggestionTypeOK
  OBVIOUS
<1>1. /\ meta \in [File -> Meta] /\ bytes \in [File -> Contents]
      /\ dir \in [Dir -> Name] /\ left \in [Dir -> Name]
      /\ original \in [Attempt -> Name] /\ proposed \in [Attempt -> Name]
      /\ here \in Dir /\ fd \in Name
  BY Numbers DEF Init, Meta, Name
<1>2. fresh \in 2..(MaxFile + 1) /\ attempt \in 0..MaxAttempt /\ edits \in 0..MaxEdit
  BY SuggestionAssumption DEF Init
<1>3. job \in Job
  BY Numbers DEF Init, Job, Meta
<1>4. QED
  BY <1>1, <1>2, <1>3 DEF Init, SuggestionTypeOK, Steps

\* Every step of the application and of the editor is well typed.
LEMMA TypeStep ==
  ASSUME SuggestionTypeOK, StageShape, [Next]_vars
  PROVE  SuggestionTypeOK'
<1> USE JobFields, Numbers DEF SuggestionTypeOK
<1>1. CASE \E s \in Suggestions : Open(s)
  BY <1>1 DEF Open, Openable, diskVars, stageVars, editorVars, Goto, Steps, Job
<1>2. CASE Read
  BY <1>2 DEF Read, diskVars, stageVars, editorVars, Goto, Steps
<1>3. CASE Verify
  BY <1>3 DEF Verify, diskVars, stageVars, editorVars, Goto, Steps
<1>4. CASE VerifyCurrent
  BY <1>4 DEF VerifyCurrent, diskVars, stageVars, editorVars, Goto, Steps
<1>5. CASE StageFails
  BY <1>5 DEF StageFails, diskVars, stageVars, editorVars, Goto, Steps
<1>6. CASE Check
  BY <1>6 DEF Check, diskVars, stageVars, editorVars, Goto, Steps
<1>7. CASE CheckFails
  BY <1>7 DEF CheckFails, diskVars, stageVars, editorVars, Goto, Steps
<1>8. CASE Reverify
  BY <1>8 DEF Reverify, diskVars, stageVars, editorVars, Goto, Steps
<1>9. CASE InstallFails
  BY <1>9 DEF InstallFails, diskVars, stageVars, editorVars, Goto, Steps
<1>10. CASE Stage
  BY <1>10, SuggestionAssumption DEF Stage, diskVars, stageVars, editorVars, Goto, Steps
<1>11. CASE Claim
  BY <1>11 DEF Claim, diskVars, stageVars, editorVars, Goto, Steps
<1>12. CASE Install
  BY <1>12, StageNumbered DEF Install, diskVars, stageVars, editorVars, Goto, Steps,
     Staging
<1>13. CASE Drop
  BY <1>13 DEF Drop, diskVars, stageVars, editorVars, Goto, Steps
<1>14. CASE ClaimFails
  BY <1>14, ExitTyped DEF ClaimFails, diskVars, stageVars, editorVars, Goto, Steps, Exit
<1>15. CASE Unverify
  BY <1>15, ExitTyped DEF Unverify, diskVars, stageVars, editorVars, Goto, Steps, Exit
<1>16. CASE RestoreFails
  BY <1>16, ExitTyped DEF RestoreFails, diskVars, stageVars, editorVars, Goto, Steps,
     Exit
<1>17. CASE Installed
  BY <1>17, ExitTyped DEF Installed, diskVars, stageVars, editorVars, Goto, Steps, Exit
<1>18. CASE Unlink
  BY <1>18, ExitTyped DEF Unlink, diskVars, stageVars, editorVars, Goto, Steps, Exit
<1>19. CASE UnlinkFails
  BY <1>19, ExitTyped DEF UnlinkFails, diskVars, stageVars, editorVars, Goto, Steps,
     Exit
<1>20. CASE Unwind
  BY <1>20, ExitTyped DEF Unwind, diskVars, stageVars, editorVars, Goto, Steps, Exit
<1>21. CASE Restore
  BY <1>21, ExitTyped, StageNumbered DEF Restore, diskVars, stageVars, editorVars,
     Goto, Steps, Exit, Staging
<1>22. CASE AppendApplied
  BY <1>22 DEF AppendApplied, diskVars, stageVars, editorVars, Goto, Steps
<1>23. CASE Crash
  BY <1>23, StageNumbered DEF Crash, diskVars, stageVars, editorVars, Goto, Steps,
     Staging
<1>24. CASE \E c \in Contents : Save(c)
  BY <1>24 DEF Save, Edit, programVars, diskVars, Meta
<1>25. CASE \E c \in Contents : WriteFile(c)
  BY <1>25 DEF WriteFile, Edit, programVars, diskVars
<1>26. CASE \E m \in Meta : SetMeta(m)
  BY <1>26 DEF SetMeta, Edit, programVars, diskVars
<1>27. CASE Remove
  BY <1>27 DEF Remove, Edit, programVars, diskVars
<1>28. CASE OpenFile
  BY <1>28 DEF OpenFile, Edit, programVars, diskVars
<1>29. CASE \E d \in Dir : MoveParent(d)
  BY <1>29 DEF MoveParent, Edit, programVars, diskVars
<1>30. CASE UNCHANGED vars
  BY <1>30 DEF vars
<1>31. QED
  BY <1>1, <1>2, <1>3, <1>4, <1>5, <1>6, <1>7, <1>8, <1>9, <1>10, <1>11, <1>12, <1>13,
     <1>14, <1>15, <1>16, <1>17, <1>18, <1>19, <1>20, <1>21, <1>22, <1>23, <1>24, <1>25,
     <1>26, <1>27, <1>28, <1>29, <1>30 DEF Next, Apply, Editor

-----------------------------------------------------------------------------
(***************************************************************************)
(* The invariant. Most steps move no name; the others move one name from   *)
(* one place to another.                                                   *)
(***************************************************************************)
LEMMA InvInit == Init => SuggestionInv
<1> SUFFICES ASSUME Init PROVE SuggestionInv
  OBVIOUS
<1>1. SuggestionTypeOK
  BY TypeInit
<1>2. FilesExist /\ OneName /\ NoStrayEntry /\ NothingForeign
  BY DEF Init, FilesExist, OneName, NoStrayEntry, NothingForeign, NoFile
<1>3. StageShape /\ ClaimedIsReviewed /\ NotYetReceipted /\ EveryStageExplained
  BY DEF Init, StageShape, ClaimedIsReviewed, NotYetReceipted, EveryStageExplained,
         Staging, HoldsOriginal, HoldsProposed, Reviewed
<1>4. AbsentIsRecoverable
  BY DEF Init, AbsentIsRecoverable
<1>5. QED
  BY <1>1, <1>2, <1>3, <1>4 DEF SuggestionInv

\* A step that moves no name keeps what names alone decide.
LEMMA NamesKept ==
  ASSUME SuggestionInv, UNCHANGED <<dir, left, original, proposed, staged, fresh>>
  PROVE  /\ FilesExist' /\ OneName' /\ NoStrayEntry' /\ NothingForeign'
         /\ AbsentIsRecoverable'
  BY DEF SuggestionInv, FilesExist, OneName, NoStrayEntry, NothingForeign,
         AbsentIsRecoverable

(* The steps of the application that move no name.                          *)
LEMMA QuietStep ==
  ASSUME SuggestionInv,
         \/ \E s \in Suggestions : Open(s)
         \/ Read
         \/ Verify
         \/ VerifyCurrent
         \/ StageFails
         \/ ClaimFails
         \/ Check
         \/ CheckFails
         \/ Reverify
         \/ InstallFails
         \/ Unverify
         \/ RestoreFails
         \/ Installed
         \/ UnlinkFails
         \/ AppendApplied
         \/ Unwind
         \/ Crash
  PROVE  StageShape' /\ ClaimedIsReviewed' /\ NotYetReceipted' /\ EveryStageExplained'
<1> USE JobFields DEF SuggestionInv, SuggestionTypeOK, diskVars, stageVars, editorVars, Goto,
        Exit, Staging, HoldsOriginal, HoldsProposed, Reviewed, Steps
<1>1. CASE \E s \in Suggestions : Open(s)
  <2>1. StageShape'
    BY <1>1, StageNumbered DEF Open, Openable, StageShape
  <2>2. ClaimedIsReviewed'
    BY <1>1 DEF Open, Openable, ClaimedIsReviewed
  <2>3. NotYetReceipted'
    BY <1>1 DEF Open, Openable, NotYetReceipted
  <2>4. EveryStageExplained'
    BY <1>1 DEF Open, Openable, EveryStageExplained, StageShape
  <2>5. QED
    BY <2>1, <2>2, <2>3, <2>4
<1>2. CASE Read
  <2>1. StageShape'
    BY <1>2, StageNumbered DEF Read, StageShape
  <2>2. ClaimedIsReviewed'
    BY <1>2 DEF Read, ClaimedIsReviewed
  <2>3. NotYetReceipted'
    BY <1>2 DEF Read, NotYetReceipted
  <2>4. EveryStageExplained'
    BY <1>2 DEF Read, EveryStageExplained, StageShape
  <2>5. QED
    BY <2>1, <2>2, <2>3, <2>4
<1>3. CASE Verify
  <2>1. StageShape'
    BY <1>3, StageNumbered DEF Verify, StageShape
  <2>2. ClaimedIsReviewed'
    BY <1>3 DEF Verify, ClaimedIsReviewed
  <2>3. NotYetReceipted'
    BY <1>3 DEF Verify, NotYetReceipted
  <2>4. EveryStageExplained'
    BY <1>3 DEF Verify, EveryStageExplained, StageShape
  <2>5. QED
    BY <2>1, <2>2, <2>3, <2>4
<1>4. CASE VerifyCurrent
  <2>1. StageShape'
    BY <1>4, StageNumbered DEF VerifyCurrent, StageShape
  <2>2. ClaimedIsReviewed'
    BY <1>4 DEF VerifyCurrent, ClaimedIsReviewed
  <2>3. NotYetReceipted'
    BY <1>4 DEF VerifyCurrent, NotYetReceipted
  <2>4. EveryStageExplained'
    BY <1>4 DEF VerifyCurrent, EveryStageExplained, StageShape
  <2>5. QED
    BY <2>1, <2>2, <2>3, <2>4
<1>5. CASE StageFails
  <2>1. StageShape'
    BY <1>5, StageNumbered DEF StageFails, StageShape
  <2>2. ClaimedIsReviewed'
    BY <1>5 DEF StageFails, ClaimedIsReviewed
  <2>3. NotYetReceipted'
    BY <1>5 DEF StageFails, NotYetReceipted
  <2>4. EveryStageExplained'
    BY <1>5 DEF StageFails, EveryStageExplained, StageShape
  <2>5. QED
    BY <2>1, <2>2, <2>3, <2>4
<1>6. CASE ClaimFails
  <2>1. StageShape'
    BY <1>6, StageNumbered DEF ClaimFails, StageShape
  <2>2. ClaimedIsReviewed'
    BY <1>6 DEF ClaimFails, ClaimedIsReviewed
  <2>3. NotYetReceipted'
    BY <1>6 DEF ClaimFails, NotYetReceipted
  <2>4. EveryStageExplained'
    BY <1>6 DEF ClaimFails, EveryStageExplained, StageShape
  <2>5. QED
    BY <2>1, <2>2, <2>3, <2>4
<1>7. CASE Check
  <2>1. StageShape'
    BY <1>7, StageNumbered DEF Check, IsReviewed, StageShape
  <2>2. ClaimedIsReviewed'
    BY <1>7 DEF Check, IsReviewed, ClaimedIsReviewed
  <2>3. NotYetReceipted'
    BY <1>7 DEF Check, IsReviewed, NotYetReceipted
  <2>4. EveryStageExplained'
    BY <1>7 DEF Check, IsReviewed, EveryStageExplained, StageShape
  <2>5. QED
    BY <2>1, <2>2, <2>3, <2>4
<1>8. CASE CheckFails
  <2>1. StageShape'
    BY <1>8, StageNumbered DEF CheckFails, StageShape
  <2>2. ClaimedIsReviewed'
    BY <1>8 DEF CheckFails, ClaimedIsReviewed
  <2>3. NotYetReceipted'
    BY <1>8 DEF CheckFails, NotYetReceipted
  <2>4. EveryStageExplained'
    BY <1>8 DEF CheckFails, EveryStageExplained, StageShape
  <2>5. QED
    BY <2>1, <2>2, <2>3, <2>4
<1>9. CASE Reverify
  <2>1. StageShape'
    BY <1>9, StageNumbered DEF Reverify, StageShape
  <2>2. ClaimedIsReviewed'
    BY <1>9 DEF Reverify, ClaimedIsReviewed
  <2>3. NotYetReceipted'
    BY <1>9 DEF Reverify, NotYetReceipted
  <2>4. EveryStageExplained'
    BY <1>9 DEF Reverify, EveryStageExplained, StageShape
  <2>5. QED
    BY <2>1, <2>2, <2>3, <2>4
<1>10. CASE InstallFails
  <2>1. StageShape'
    BY <1>10, StageNumbered DEF InstallFails, StageShape
  <2>2. ClaimedIsReviewed'
    BY <1>10 DEF InstallFails, ClaimedIsReviewed
  <2>3. NotYetReceipted'
    BY <1>10 DEF InstallFails, NotYetReceipted
  <2>4. EveryStageExplained'
    BY <1>10 DEF InstallFails, EveryStageExplained, StageShape
  <2>5. QED
    BY <2>1, <2>2, <2>3, <2>4
<1>11. CASE Unverify
  <2>1. StageShape'
    BY <1>11, StageNumbered DEF Unverify, StageShape
  <2>2. ClaimedIsReviewed'
    BY <1>11 DEF Unverify, ClaimedIsReviewed
  <2>3. NotYetReceipted'
    BY <1>11 DEF Unverify, NotYetReceipted
  <2>4. EveryStageExplained'
    BY <1>11 DEF Unverify, EveryStageExplained, StageShape
  <2>5. QED
    BY <2>1, <2>2, <2>3, <2>4
<1>12. CASE RestoreFails
  <2>1. StageShape'
    BY <1>12, StageNumbered DEF RestoreFails, StageShape
  <2>2. ClaimedIsReviewed'
    BY <1>12 DEF RestoreFails, ClaimedIsReviewed
  <2>3. NotYetReceipted'
    BY <1>12 DEF RestoreFails, NotYetReceipted
  <2>4. EveryStageExplained'
    BY <1>12 DEF RestoreFails, EveryStageExplained, StageShape
  <2>5. QED
    BY <2>1, <2>2, <2>3, <2>4
<1>13. CASE Installed
  <2>1. StageShape'
    BY <1>13, StageNumbered DEF Installed, StageShape
  <2>2. ClaimedIsReviewed'
    BY <1>13 DEF Installed, ClaimedIsReviewed
  <2>3. NotYetReceipted'
    BY <1>13 DEF Installed, NotYetReceipted
  <2>4. EveryStageExplained'
    BY <1>13 DEF Installed, EveryStageExplained, StageShape
  <2>5. QED
    BY <2>1, <2>2, <2>3, <2>4
<1>14. CASE UnlinkFails
  <2>1. StageShape'
    BY <1>14, StageNumbered DEF UnlinkFails, StageShape
  <2>2. ClaimedIsReviewed'
    BY <1>14 DEF UnlinkFails, ClaimedIsReviewed
  <2>3. NotYetReceipted'
    BY <1>14 DEF UnlinkFails, NotYetReceipted
  <2>4. EveryStageExplained'
    BY <1>14 DEF UnlinkFails, EveryStageExplained, StageShape
  <2>5. QED
    BY <2>1, <2>2, <2>3, <2>4
<1>15. CASE AppendApplied
  <2>1. StageShape'
    BY <1>15, StageNumbered DEF AppendApplied, StageShape
  <2>2. ClaimedIsReviewed'
    BY <1>15 DEF AppendApplied, ClaimedIsReviewed
  <2>3. NotYetReceipted'
    BY <1>15 DEF AppendApplied, NotYetReceipted
  <2>4. EveryStageExplained'
    BY <1>15 DEF AppendApplied, EveryStageExplained, StageShape
  <2>5. QED
    BY <2>1, <2>2, <2>3, <2>4
<1>16. CASE Unwind
  <2>1. StageShape'
    BY <1>16, StageNumbered DEF Unwind, StageShape
  <2>2. ClaimedIsReviewed'
    BY <1>16 DEF Unwind, ClaimedIsReviewed
  <2>3. NotYetReceipted'
    BY <1>16 DEF Unwind, NotYetReceipted
  <2>4. EveryStageExplained'
    BY <1>16 DEF Unwind, EveryStageExplained, StageShape
  <2>5. QED
    BY <2>1, <2>2, <2>3, <2>4
<1>17. CASE Crash
  <2>1. StageShape'
    BY <1>17, StageNumbered DEF Crash, StageShape
  <2>2. ClaimedIsReviewed'
    BY <1>17 DEF Crash, ClaimedIsReviewed
  <2>3. NotYetReceipted'
    BY <1>17 DEF Crash, NotYetReceipted
  <2>4. EveryStageExplained'
    BY <1>17 DEF Crash, EveryStageExplained, StageShape
  <2>5. QED
    BY <2>1, <2>2, <2>3, <2>4
<1>18. QED
  BY <1>1, <1>2, <1>3, <1>4, <1>5, <1>6, <1>7, <1>8, <1>9, <1>10, <1>11, <1>12, <1>13,
     <1>14, <1>15, <1>16, <1>17

\* Staging writes only files of its own attempt.
LEMMA StageStep ==
  ASSUME SuggestionInv, Stage, SuggestionTypeOK'
  PROVE  SuggestionInv'
<1> USE JobFields, Numbers DEF SuggestionInv, SuggestionTypeOK, diskVars, stageVars,
        editorVars, Goto, Exit, Staging, HoldsOriginal, HoldsProposed, Reviewed
<1>1. FilesExist'
  BY SuggestionAssumption, FreshIsLater DEF Stage, FilesExist
<1>2. OneName'
  BY SuggestionAssumption DEF Stage, OneName, FilesExist, StageShape
<1>3. NoStrayEntry'
  BY SuggestionAssumption DEF Stage, NoStrayEntry, StageShape
<1>4. NothingForeign'
  BY SuggestionAssumption DEF Stage, NothingForeign, StageShape
<1>5. StageShape'
  BY SuggestionAssumption DEF Stage, StageShape, FilesExist, OneName, NoStrayEntry,
     NothingForeign
<1>6. ClaimedIsReviewed'
  BY SuggestionAssumption DEF Stage, ClaimedIsReviewed, StageShape, OneName, FilesExist
<1>7. NotYetReceipted'
  BY SuggestionAssumption DEF Stage, NotYetReceipted
<1>8. EveryStageExplained'
  BY SuggestionAssumption DEF Stage, EveryStageExplained, StageShape
<1>9. AbsentIsRecoverable'
  BY SuggestionAssumption DEF Stage, AbsentIsRecoverable, NothingForeign, StageShape,
     OneName, FilesExist
<1>10. QED
  BY <1>1, <1>2, <1>3, <1>4, <1>5, <1>6, <1>7, <1>8, <1>9

\* The claim takes the reviewed file away under the name of its attempt.
LEMMA ClaimStep ==
  ASSUME SuggestionInv, Claim, SuggestionTypeOK'
  PROVE  SuggestionInv'
<1> USE JobFields, Numbers DEF SuggestionInv, SuggestionTypeOK, diskVars, stageVars,
        editorVars, Goto, Exit, Staging, HoldsOriginal, HoldsProposed, Reviewed
<1>1. FilesExist'
  BY SuggestionAssumption, FreshIsLater, StageNumbered DEF Claim, FilesExist
<1>2. OneName'
  BY SuggestionAssumption, StageNumbered DEF Claim, OneName, FilesExist, StageShape
<1>3. NoStrayEntry'
  BY SuggestionAssumption, StageNumbered DEF Claim, NoStrayEntry, StageShape
<1>4. NothingForeign'
  BY SuggestionAssumption, StageNumbered DEF Claim, NothingForeign, StageShape
<1>5. StageShape'
  BY SuggestionAssumption, StageNumbered DEF Claim, StageShape, FilesExist, OneName,
     NoStrayEntry, NothingForeign
<1>6. ClaimedIsReviewed'
  BY SuggestionAssumption, StageNumbered DEF Claim, ClaimedIsReviewed, StageShape,
     OneName, FilesExist
<1>7. NotYetReceipted'
  BY SuggestionAssumption, StageNumbered DEF Claim, NotYetReceipted
<1>8. EveryStageExplained'
  BY SuggestionAssumption, StageNumbered DEF Claim, EveryStageExplained, StageShape
<1>9. AbsentIsRecoverable'
  BY SuggestionAssumption, StageNumbered DEF Claim, AbsentIsRecoverable,
     NothingForeign, StageShape, OneName, FilesExist
<1>10. QED
  BY <1>1, <1>2, <1>3, <1>4, <1>5, <1>6, <1>7, <1>8, <1>9

\* The install puts the proposed file where nothing is.
LEMMA InstallStep ==
  ASSUME SuggestionInv, Install, SuggestionTypeOK'
  PROVE  SuggestionInv'
<1> USE JobFields, Numbers DEF SuggestionInv, SuggestionTypeOK, diskVars, stageVars,
        editorVars, Goto, Exit, Staging, HoldsOriginal, HoldsProposed, Reviewed
<1>1. FilesExist'
  BY SuggestionAssumption, FreshIsLater, StageNumbered DEF Install, FilesExist
<1>2. OneName'
  BY SuggestionAssumption, StageNumbered DEF Install, OneName, FilesExist, StageShape
<1>3. NoStrayEntry'
  BY SuggestionAssumption, StageNumbered DEF Install, NoStrayEntry, StageShape
<1>4. NothingForeign'
  BY SuggestionAssumption, StageNumbered DEF Install, NothingForeign, StageShape
<1>5. StageShape'
  BY SuggestionAssumption, StageNumbered DEF Install, StageShape, FilesExist, OneName,
     NoStrayEntry, NothingForeign
<1>6. ClaimedIsReviewed'
  BY SuggestionAssumption, StageNumbered DEF Install, ClaimedIsReviewed, StageShape,
     OneName, FilesExist
<1>7. NotYetReceipted'
  BY SuggestionAssumption, StageNumbered DEF Install, NotYetReceipted
<1>8. EveryStageExplained'
  BY SuggestionAssumption, StageNumbered DEF Install, EveryStageExplained, StageShape
<1>9. AbsentIsRecoverable'
  BY SuggestionAssumption, StageNumbered DEF Install, AbsentIsRecoverable,
     NothingForeign, StageShape, OneName, FilesExist
<1>10. QED
  BY <1>1, <1>2, <1>3, <1>4, <1>5, <1>6, <1>7, <1>8, <1>9

\* The restore puts the original back where nothing is.
LEMMA RestoreStep ==
  ASSUME SuggestionInv, Restore, SuggestionTypeOK'
  PROVE  SuggestionInv'
<1> USE JobFields, Numbers DEF SuggestionInv, SuggestionTypeOK, diskVars, stageVars,
        editorVars, Goto, Exit, Staging, HoldsOriginal, HoldsProposed, Reviewed
<1>1. FilesExist'
  BY SuggestionAssumption, FreshIsLater, StageNumbered DEF Restore, FilesExist
<1>2. OneName'
  BY SuggestionAssumption, StageNumbered DEF Restore, OneName, FilesExist, StageShape
<1>3. NoStrayEntry'
  BY SuggestionAssumption, StageNumbered DEF Restore, NoStrayEntry, StageShape
<1>4. NothingForeign'
  BY SuggestionAssumption, StageNumbered DEF Restore, NothingForeign, StageShape
<1>5. StageShape'
  BY SuggestionAssumption, StageNumbered DEF Restore, StageShape, FilesExist, OneName,
     NoStrayEntry, NothingForeign
<1>6. ClaimedIsReviewed'
  BY SuggestionAssumption, StageNumbered DEF Restore, ClaimedIsReviewed, StageShape,
     OneName, FilesExist
<1>7. NotYetReceipted'
  BY SuggestionAssumption, StageNumbered DEF Restore, NotYetReceipted
<1>8. EveryStageExplained'
  BY SuggestionAssumption, StageNumbered DEF Restore, EveryStageExplained, StageShape
<1>9. AbsentIsRecoverable'
  BY SuggestionAssumption, StageNumbered DEF Restore, AbsentIsRecoverable,
     NothingForeign, StageShape, OneName, FilesExist
<1>10. QED
  BY <1>1, <1>2, <1>3, <1>4, <1>5, <1>6, <1>7, <1>8, <1>9

\* Once the result is installed its original is let go.
LEMMA UnlinkStep ==
  ASSUME SuggestionInv, Unlink, SuggestionTypeOK'
  PROVE  SuggestionInv'
<1> USE JobFields, Numbers DEF SuggestionInv, SuggestionTypeOK, diskVars, stageVars,
        editorVars, Goto, Exit, Staging, HoldsOriginal, HoldsProposed, Reviewed
<1>1. FilesExist'
  BY SuggestionAssumption, FreshIsLater, StageNumbered DEF Unlink, FilesExist
<1>2. OneName'
  BY SuggestionAssumption, StageNumbered DEF Unlink, OneName, FilesExist, StageShape
<1>3. NoStrayEntry'
  BY SuggestionAssumption, StageNumbered DEF Unlink, NoStrayEntry, StageShape
<1>4. NothingForeign'
  BY SuggestionAssumption, StageNumbered DEF Unlink, NothingForeign, StageShape
<1>5. StageShape'
  BY SuggestionAssumption, StageNumbered DEF Unlink, StageShape, FilesExist, OneName,
     NoStrayEntry, NothingForeign
<1>6. ClaimedIsReviewed'
  BY SuggestionAssumption, StageNumbered DEF Unlink, ClaimedIsReviewed, StageShape,
     OneName, FilesExist
<1>7. NotYetReceipted'
  BY SuggestionAssumption, StageNumbered DEF Unlink, NotYetReceipted
<1>8. EveryStageExplained'
  BY SuggestionAssumption, StageNumbered DEF Unlink, EveryStageExplained, StageShape
<1>9. AbsentIsRecoverable'
  BY SuggestionAssumption, StageNumbered DEF Unlink, AbsentIsRecoverable,
     NothingForeign, StageShape, OneName, FilesExist
<1>10. QED
  BY <1>1, <1>2, <1>3, <1>4, <1>5, <1>6, <1>7, <1>8, <1>9

\* What was staged and never installed is dropped.
LEMMA DropStep ==
  ASSUME SuggestionInv, Drop, SuggestionTypeOK'
  PROVE  SuggestionInv'
<1> USE JobFields, Numbers DEF SuggestionInv, SuggestionTypeOK, diskVars, stageVars,
        editorVars, Goto, Exit, Staging, HoldsOriginal, HoldsProposed, Reviewed
<1>1. FilesExist'
  BY SuggestionAssumption, FreshIsLater, StageNumbered DEF Drop, FilesExist
<1>2. OneName'
  BY SuggestionAssumption, StageNumbered DEF Drop, OneName, FilesExist, StageShape
<1>3. NoStrayEntry'
  BY SuggestionAssumption, StageNumbered DEF Drop, NoStrayEntry, StageShape
<1>4. NothingForeign'
  BY SuggestionAssumption, StageNumbered DEF Drop, NothingForeign, StageShape
<1>5. StageShape'
  BY SuggestionAssumption, StageNumbered DEF Drop, StageShape, FilesExist, OneName,
     NoStrayEntry, NothingForeign
<1>6. ClaimedIsReviewed'
  BY SuggestionAssumption, StageNumbered DEF Drop, ClaimedIsReviewed, StageShape,
     OneName, FilesExist
<1>7. NotYetReceipted'
  BY SuggestionAssumption, StageNumbered DEF Drop, NotYetReceipted
<1>8. EveryStageExplained'
  BY SuggestionAssumption, StageNumbered DEF Drop, EveryStageExplained, StageShape
<1>9. AbsentIsRecoverable'
  BY SuggestionAssumption, StageNumbered DEF Drop, AbsentIsRecoverable,
     NothingForeign, StageShape, OneName, FilesExist
<1>10. QED
  BY <1>1, <1>2, <1>3, <1>4, <1>5, <1>6, <1>7, <1>8, <1>9

\* An editor saves by a rename over the file.
LEMMA SaveStep ==
  ASSUME SuggestionInv, NEW c \in Contents, Save(c), SuggestionTypeOK'
  PROVE  SuggestionInv'
<1> USE JobFields, Numbers DEF SuggestionInv, SuggestionTypeOK, diskVars, stageVars,
        editorVars, Goto, Exit, Staging, HoldsOriginal, HoldsProposed, Reviewed
<1>1. FilesExist'
  BY SuggestionAssumption, FreshIsLater, StageNumbered DEF Save, Edit, programVars,
     FilesExist
<1>2. OneName'
  BY SuggestionAssumption, StageNumbered DEF Save, Edit, programVars, OneName,
     FilesExist, StageShape
<1>3. NoStrayEntry'
  BY SuggestionAssumption, StageNumbered DEF Save, Edit, programVars, NoStrayEntry,
     StageShape
<1>4. NothingForeign'
  BY SuggestionAssumption, StageNumbered DEF Save, Edit, programVars, NothingForeign,
     StageShape
<1>5. StageShape'
  BY SuggestionAssumption, StageNumbered DEF Save, Edit, programVars, StageShape,
     FilesExist, OneName, NoStrayEntry, NothingForeign
<1>6. ClaimedIsReviewed'
  BY SuggestionAssumption, StageNumbered DEF Save, Edit, programVars,
     ClaimedIsReviewed, StageShape, OneName, FilesExist
<1>7. NotYetReceipted'
  BY SuggestionAssumption, StageNumbered DEF Save, Edit, programVars, NotYetReceipted
<1>8. EveryStageExplained'
  BY SuggestionAssumption, StageNumbered DEF Save, Edit, programVars,
     EveryStageExplained, StageShape
<1>9. AbsentIsRecoverable'
  BY SuggestionAssumption, StageNumbered DEF Save, Edit, programVars,
     AbsentIsRecoverable, NothingForeign, StageShape, OneName, FilesExist
<1>10. QED
  BY <1>1, <1>2, <1>3, <1>4, <1>5, <1>6, <1>7, <1>8, <1>9

\* An editor writes through the file it holds open.
LEMMA WriteFileStep ==
  ASSUME SuggestionInv, NEW c \in Contents, WriteFile(c), SuggestionTypeOK'
  PROVE  SuggestionInv'
<1> USE JobFields, Numbers DEF SuggestionInv, SuggestionTypeOK, diskVars, stageVars,
        editorVars, Goto, Exit, Staging, HoldsOriginal, HoldsProposed, Reviewed
<1>1. FilesExist'
  BY SuggestionAssumption, FreshIsLater, StageNumbered DEF WriteFile, Edit,
     programVars, FilesExist
<1>2. OneName'
  BY SuggestionAssumption, StageNumbered DEF WriteFile, Edit, programVars, OneName,
     FilesExist, StageShape
<1>3. NoStrayEntry'
  BY SuggestionAssumption, StageNumbered DEF WriteFile, Edit, programVars,
     NoStrayEntry, StageShape
<1>4. NothingForeign'
  BY SuggestionAssumption, StageNumbered DEF WriteFile, Edit, programVars,
     NothingForeign, StageShape
<1>5. StageShape'
  BY SuggestionAssumption, StageNumbered DEF WriteFile, Edit, programVars, StageShape,
     FilesExist, OneName, NoStrayEntry, NothingForeign
<1>6. ClaimedIsReviewed'
  BY SuggestionAssumption, StageNumbered DEF WriteFile, Edit, programVars,
     ClaimedIsReviewed, StageShape, OneName, FilesExist
<1>7. NotYetReceipted'
  BY SuggestionAssumption, StageNumbered DEF WriteFile, Edit, programVars,
     NotYetReceipted
<1>8. EveryStageExplained'
  BY SuggestionAssumption, StageNumbered DEF WriteFile, Edit, programVars,
     EveryStageExplained, StageShape
<1>9. AbsentIsRecoverable'
  BY SuggestionAssumption, StageNumbered DEF WriteFile, Edit, programVars,
     AbsentIsRecoverable, NothingForeign, StageShape, OneName, FilesExist
<1>10. QED
  BY <1>1, <1>2, <1>3, <1>4, <1>5, <1>6, <1>7, <1>8, <1>9

\* Another program changes the mode of the file, or links it once more.
LEMMA SetMetaStep ==
  ASSUME SuggestionInv, NEW m \in Meta, SetMeta(m), SuggestionTypeOK'
  PROVE  SuggestionInv'
<1> USE JobFields, Numbers DEF SuggestionInv, SuggestionTypeOK, diskVars, stageVars,
        editorVars, Goto, Exit, Staging, HoldsOriginal, HoldsProposed, Reviewed
<1>1. FilesExist'
  BY SuggestionAssumption, FreshIsLater, StageNumbered DEF SetMeta, Edit, programVars,
     FilesExist
<1>2. OneName'
  BY SuggestionAssumption, StageNumbered DEF SetMeta, Edit, programVars, OneName,
     FilesExist, StageShape
<1>3. NoStrayEntry'
  BY SuggestionAssumption, StageNumbered DEF SetMeta, Edit, programVars, NoStrayEntry,
     StageShape
<1>4. NothingForeign'
  BY SuggestionAssumption, StageNumbered DEF SetMeta, Edit, programVars,
     NothingForeign, StageShape
<1>5. StageShape'
  BY SuggestionAssumption, StageNumbered DEF SetMeta, Edit, programVars, StageShape,
     FilesExist, OneName, NoStrayEntry, NothingForeign
<1>6. ClaimedIsReviewed'
  BY SuggestionAssumption, StageNumbered DEF SetMeta, Edit, programVars,
     ClaimedIsReviewed, StageShape, OneName, FilesExist
<1>7. NotYetReceipted'
  BY SuggestionAssumption, StageNumbered DEF SetMeta, Edit, programVars, NotYetReceipted
<1>8. EveryStageExplained'
  BY SuggestionAssumption, StageNumbered DEF SetMeta, Edit, programVars,
     EveryStageExplained, StageShape
<1>9. AbsentIsRecoverable'
  BY SuggestionAssumption, StageNumbered DEF SetMeta, Edit, programVars,
     AbsentIsRecoverable, NothingForeign, StageShape, OneName, FilesExist
<1>10. QED
  BY <1>1, <1>2, <1>3, <1>4, <1>5, <1>6, <1>7, <1>8, <1>9

\* Another program removes the file.
LEMMA RemoveStep ==
  ASSUME SuggestionInv, Remove, SuggestionTypeOK'
  PROVE  SuggestionInv'
<1> USE JobFields, Numbers DEF SuggestionInv, SuggestionTypeOK, diskVars, stageVars,
        editorVars, Goto, Exit, Staging, HoldsOriginal, HoldsProposed, Reviewed
<1>1. FilesExist'
  BY SuggestionAssumption, FreshIsLater, StageNumbered DEF Remove, Edit, programVars,
     FilesExist
<1>2. OneName'
  BY SuggestionAssumption, StageNumbered DEF Remove, Edit, programVars, OneName,
     FilesExist, StageShape
<1>3. NoStrayEntry'
  BY SuggestionAssumption, StageNumbered DEF Remove, Edit, programVars, NoStrayEntry,
     StageShape
<1>4. NothingForeign'
  BY SuggestionAssumption, StageNumbered DEF Remove, Edit, programVars,
     NothingForeign, StageShape
<1>5. StageShape'
  BY SuggestionAssumption, StageNumbered DEF Remove, Edit, programVars, StageShape,
     FilesExist, OneName, NoStrayEntry, NothingForeign
<1>6. ClaimedIsReviewed'
  BY SuggestionAssumption, StageNumbered DEF Remove, Edit, programVars,
     ClaimedIsReviewed, StageShape, OneName, FilesExist
<1>7. NotYetReceipted'
  BY SuggestionAssumption, StageNumbered DEF Remove, Edit, programVars, NotYetReceipted
<1>8. EveryStageExplained'
  BY SuggestionAssumption, StageNumbered DEF Remove, Edit, programVars,
     EveryStageExplained, StageShape
<1>9. AbsentIsRecoverable'
  BY SuggestionAssumption, StageNumbered DEF Remove, Edit, programVars,
     AbsentIsRecoverable, NothingForeign, StageShape, OneName, FilesExist
<1>10. QED
  BY <1>1, <1>2, <1>3, <1>4, <1>5, <1>6, <1>7, <1>8, <1>9

\* An editor opens the file.
LEMMA OpenFileStep ==
  ASSUME SuggestionInv, OpenFile, SuggestionTypeOK'
  PROVE  SuggestionInv'
<1> USE JobFields, Numbers DEF SuggestionInv, SuggestionTypeOK, diskVars, stageVars,
        editorVars, Goto, Exit, Staging, HoldsOriginal, HoldsProposed, Reviewed
<1>1. FilesExist'
  BY SuggestionAssumption, FreshIsLater, StageNumbered DEF OpenFile, Edit,
     programVars, FilesExist
<1>2. OneName'
  BY SuggestionAssumption, StageNumbered DEF OpenFile, Edit, programVars, OneName,
     FilesExist, StageShape
<1>3. NoStrayEntry'
  BY SuggestionAssumption, StageNumbered DEF OpenFile, Edit, programVars,
     NoStrayEntry, StageShape
<1>4. NothingForeign'
  BY SuggestionAssumption, StageNumbered DEF OpenFile, Edit, programVars,
     NothingForeign, StageShape
<1>5. StageShape'
  BY SuggestionAssumption, StageNumbered DEF OpenFile, Edit, programVars, StageShape,
     FilesExist, OneName, NoStrayEntry, NothingForeign
<1>6. ClaimedIsReviewed'
  BY SuggestionAssumption, StageNumbered DEF OpenFile, Edit, programVars,
     ClaimedIsReviewed, StageShape, OneName, FilesExist
<1>7. NotYetReceipted'
  BY SuggestionAssumption, StageNumbered DEF OpenFile, Edit, programVars,
     NotYetReceipted
<1>8. EveryStageExplained'
  BY SuggestionAssumption, StageNumbered DEF OpenFile, Edit, programVars,
     EveryStageExplained, StageShape
<1>9. AbsentIsRecoverable'
  BY SuggestionAssumption, StageNumbered DEF OpenFile, Edit, programVars,
     AbsentIsRecoverable, NothingForeign, StageShape, OneName, FilesExist
<1>10. QED
  BY <1>1, <1>2, <1>3, <1>4, <1>5, <1>6, <1>7, <1>8, <1>9

\* Another program moves the directory of the file.
LEMMA MoveParentStep ==
  ASSUME SuggestionInv, NEW d \in Dir, MoveParent(d), SuggestionTypeOK'
  PROVE  SuggestionInv'
<1> USE JobFields, Numbers DEF SuggestionInv, SuggestionTypeOK, diskVars, stageVars,
        editorVars, Goto, Exit, Staging, HoldsOriginal, HoldsProposed, Reviewed
<1>1. FilesExist'
  BY SuggestionAssumption, FreshIsLater, StageNumbered DEF MoveParent, Edit,
     programVars, FilesExist
<1>2. OneName'
  BY SuggestionAssumption, StageNumbered DEF MoveParent, Edit, programVars, OneName,
     FilesExist, StageShape
<1>3. NoStrayEntry'
  BY SuggestionAssumption, StageNumbered DEF MoveParent, Edit, programVars,
     NoStrayEntry, StageShape
<1>4. NothingForeign'
  BY SuggestionAssumption, StageNumbered DEF MoveParent, Edit, programVars,
     NothingForeign, StageShape
<1>5. StageShape'
  BY SuggestionAssumption, StageNumbered DEF MoveParent, Edit, programVars,
     StageShape, FilesExist, OneName, NoStrayEntry, NothingForeign
<1>6. ClaimedIsReviewed'
  BY SuggestionAssumption, StageNumbered DEF MoveParent, Edit, programVars,
     ClaimedIsReviewed, StageShape, OneName, FilesExist
<1>7. NotYetReceipted'
  BY SuggestionAssumption, StageNumbered DEF MoveParent, Edit, programVars,
     NotYetReceipted
<1>8. EveryStageExplained'
  BY SuggestionAssumption, StageNumbered DEF MoveParent, Edit, programVars,
     EveryStageExplained, StageShape
<1>9. AbsentIsRecoverable'
  BY SuggestionAssumption, StageNumbered DEF MoveParent, Edit, programVars,
     AbsentIsRecoverable, NothingForeign, StageShape, OneName, FilesExist
<1>10. QED
  BY <1>1, <1>2, <1>3, <1>4, <1>5, <1>6, <1>7, <1>8, <1>9

\* Every step keeps the invariant.
LEMMA InvStep == SuggestionInv /\ [Next]_vars => SuggestionInv'
<1> SUFFICES ASSUME SuggestionInv, [Next]_vars
             PROVE  SuggestionInv'
  OBVIOUS
<1>1. SuggestionTypeOK'
  BY TypeStep DEF SuggestionInv
<1>2. ASSUME \/ \E s \in Suggestions : Open(s)
             \/ Read
             \/ Verify
             \/ VerifyCurrent
             \/ StageFails
             \/ ClaimFails
             \/ Check
             \/ CheckFails
             \/ Reverify
             \/ InstallFails
             \/ Unverify
             \/ RestoreFails
             \/ Installed
             \/ UnlinkFails
             \/ AppendApplied
             \/ Unwind
             \/ Crash
      PROVE  SuggestionInv'
  <2>1. UNCHANGED <<dir, left, original, proposed, staged, fresh>>
    BY <1>2 DEF diskVars, stageVars, editorVars, Open, Read, Verify, VerifyCurrent,
       StageFails, ClaimFails, Check, CheckFails, Reverify, InstallFails, Unverify,
       RestoreFails, Installed, UnlinkFails, AppendApplied, Unwind, Crash
  <2>2. QED
    BY <1>1, <1>2, <2>1, NamesKept, QuietStep DEF SuggestionInv
<1>3. CASE Stage \/ Claim \/ Install \/ Restore \/ Unlink \/ Drop
  BY <1>1, <1>3, StageStep, ClaimStep, InstallStep, RestoreStep, UnlinkStep, DropStep
<1>4. CASE Editor
  BY <1>1, <1>4, SaveStep, WriteFileStep, SetMetaStep, RemoveStep, OpenFileStep,
     MoveParentStep DEF Editor
<1>5. CASE UNCHANGED vars
  <2>1. /\ StageShape' /\ ClaimedIsReviewed' /\ NotYetReceipted'
        /\ EveryStageExplained'
    BY <1>5 DEF vars, SuggestionInv, StageShape, ClaimedIsReviewed, NotYetReceipted,
                EveryStageExplained
  <2>2. QED
    BY <1>1, <1>5, <2>1, NamesKept DEF SuggestionInv, vars
<1>6. QED
  BY <1>2, <1>3, <1>4, <1>5 DEF Next, Apply

-----------------------------------------------------------------------------
(***************************************************************************)
(* The theorems.                                                           *)
(***************************************************************************)

(* Every file of the checkout and of the staging directories has one name,  *)
(* and between the check of the claimed file and its unlinking that file is *)
(* the one that was opened and compared.                                    *)
THEOREM SuggestionInvariant == Spec => []SuggestionInv
<1>1. QED
  BY InvInit, InvStep, PTL DEF Spec

(* Whatever fails, unwinds or crashes between the claim and the unlinking,  *)
(* the file a directory should have is there or in a staging directory.     *)
THEOREM AlwaysRecoverable == Spec => []AbsentIsRecoverable
<1>1. SuggestionInv => AbsentIsRecoverable
  BY DEF SuggestionInv
<1>2. QED
  BY <1>1, SuggestionInvariant, PTL

(* A staging directory outlives its application only as evidence.           *)
THEOREM LeftoversAreEvidence == Spec => []LeftoverIsEvidence
<1>1. SuggestionInv => LeftoverIsEvidence
  BY DEF SuggestionInv, EveryStageExplained, LeftoverIsEvidence, Staging
<1>2. QED
  BY <1>1, SuggestionInvariant, PTL

(* No failure, panic or crash of an application, and no success, loses a    *)
(* file of the user: see KeepsBytes.                                        *)
THEOREM NeverLosesBytes == Spec => KeepsBytes
<1>1. SuggestionInv /\ [Next]_vars => [KeepsBytesStep]_vars
  <2> SUFFICES ASSUME SuggestionInv, [Next]_vars, pc' # pc, NEW i \in File,
                      Reachable(i), ~ Reachable(i)'
               PROVE  \/ pc = "drop" /\ i = proposed[attempt]
                      \/ /\ pc = "unlink"
                         /\ proposed[attempt] = NoFile
                         /\ i = job.file
                         /\ bytes[i] = Before[job.s] \/ i \in late
    BY DEF KeepsBytesStep
  <2> USE Numbers, JobFields, StageNumbered
      DEF SuggestionInv, SuggestionTypeOK, Reachable, diskVars, stageVars, editorVars,
          Goto, Exit, Staging, HoldsOriginal, HoldsProposed, Reviewed
  <2>1. ~ UNCHANGED <<dir, original, proposed, staged>>
    OBVIOUS
  <2>2. CASE Stage
    BY <2>2 DEF Stage, NoStrayEntry
  <2>3. CASE Claim
    BY <2>3 DEF Claim, StageShape
  <2>4. CASE Install
    BY <2>4 DEF Install, StageShape
  <2>5. CASE Restore
    BY <2>5 DEF Restore, StageShape
  <2>6. CASE Unlink
    <3>1. i = original[attempt]
      BY <2>6 DEF Unlink
    <3>2. QED
      BY <2>6, <3>1 DEF Unlink, StageShape, ClaimedIsReviewed
  <2>7. CASE Drop
    <3>1. staged \subseteq Attempt
      BY SuggestionAssumption DEF Attempt
    <3>2. original[attempt] = NoFile /\ staged' = staged \ {attempt} /\ UNCHANGED <<dir, original>>
      BY <2>1, <2>7 DEF Drop
    <3>3. ASSUME NEW a \in staged, a # attempt
          PROVE  proposed'[a] = proposed[a]
      BY <2>7, <3>1, <3>3 DEF Drop
    <3>4. QED
      BY <2>7, <3>2, <3>3 DEF Drop
  <2>8. CASE Editor
    BY <2>8 DEF Editor, Edit, programVars, Save, WriteFile, SetMeta, Remove, OpenFile,
                MoveParent
  <2>9. QED
    BY <2>1, <2>2, <2>3, <2>4, <2>5, <2>6, <2>7, <2>8
    DEF Next, Apply, vars, Open, Read, Verify, VerifyCurrent, StageFails, ClaimFails,
       Check, CheckFails, Reverify, InstallFails, Unverify, RestoreFails, Installed,
       UnlinkFails, AppendApplied, Unwind, Crash
<1>2. QED
  BY <1>1, SuggestionInvariant, PTL DEF Spec, KeepsBytes

(* The patched file replaces the file that was opened and compared, and no  *)
(* other.                                                                   *)
THEOREM OnlyReviewedReplaced == Spec => ReplacesReviewed
<1>1. SuggestionInv /\ [Next]_vars => [ReplacesReviewedStep]_vars
  <2> SUFFICES ASSUME SuggestionInv, [Next]_vars, NEW a \in staged, NEW d \in Dir,
                      proposed[a] # NoFile, dir'[d] = proposed[a]
               PROVE  /\ original[a] = job.file
                      /\ meta[job.file] = meta[proposed[a]]
                      /\ bytes[job.file] = Before[job.s] \/ job.file \in late
    BY DEF ReplacesReviewedStep
  <2> USE Numbers, JobFields, StageNumbered
      DEF SuggestionInv, SuggestionTypeOK, diskVars, stageVars, editorVars
  <2>1. a \in Attempt
    BY SuggestionAssumption DEF Attempt
  <2>2. dir[d] # dir'[d]
    BY <2>1 DEF OneName
  <2>3. CASE Install
    <3>1. a = attempt
      BY <2>1, <2>2, <2>3 DEF Install, OneName, Staging
    <3>2. QED
      BY <2>3, <3>1 DEF Install, StageShape, ClaimedIsReviewed, Reviewed, HoldsProposed
  <2>4. CASE Claim \/ Restore
    <3>1. CASE Claim
      BY <2>2, <3>1 DEF Claim
    <3>2. CASE Restore
      <4>1. attempt \in Attempt /\ original[attempt] # NoFile
        BY <3>2 DEF Restore, StageShape, HoldsOriginal, Staging
      <4>2. dir'[d] = original[attempt]
        BY <2>2, <3>2 DEF Restore
      <4>3. QED
        BY <2>1, <4>1, <4>2 DEF OneName
    <3>3. QED
      BY <2>4, <3>1, <3>2
  <2>5. CASE Editor
    BY <2>1, <2>2, <2>5, FreshIsLater
    DEF Editor, Edit, Save, WriteFile, SetMeta, Remove, OpenFile, MoveParent, FilesExist
  <2>6. QED
    BY <2>2, <2>3, <2>4, <2>5
    DEF Next, Apply, vars, Stage, Unlink, Drop, Open, Read, Verify, VerifyCurrent,
       StageFails, ClaimFails, Check, CheckFails, Reverify, InstallFails, Unverify,
       RestoreFails, Installed, UnlinkFails, AppendApplied, Unwind, Crash
<1>2. QED
  BY <1>1, SuggestionInvariant, PTL DEF Spec, ReplacesReviewed

(* A suggestion with a receipt is never installed again, and a receipt is   *)
(* the receipt of an installation.                                          *)
THEOREM ReceiptsAreFinal == Spec => ReceiptIsFinal
<1>1. SuggestionInv /\ [Next]_vars => [ReceiptIsFinalStep]_vars
  <2> SUFFICES ASSUME SuggestionInv, [Next]_vars
               PROVE  ReceiptIsFinalStep
    OBVIOUS
  <2>1. (pc = "install" /\ pc' = "installed") => job.s \notin receipts
    BY DEF SuggestionInv, NotYetReceipted
  <2>2. ASSUME NEW s \in receipts' \ receipts
        PROVE  AppendApplied
    BY <2>2 DEF Next, Apply, Editor, vars, Goto, Exit, Edit, programVars, Stage, Claim,
       Install, Restore, Unlink, Drop, Save, WriteFile, SetMeta, Remove, OpenFile,
       MoveParent, Open, Read, Verify, VerifyCurrent, StageFails, ClaimFails, Check,
          CheckFails, Reverify, InstallFails, Unverify, RestoreFails, Installed,
          UnlinkFails, Unwind, Crash
  <2>3. QED
    BY <2>1, <2>2 DEF ReceiptIsFinalStep, AppendApplied, SuggestionInv, StageShape
<1>2. QED
  BY <1>1, SuggestionInvariant, PTL DEF Spec, ReceiptIsFinal
=============================================================================
