---------------------------- MODULE ClientProofs ----------------------------
(***************************************************************************)
(* Proofs about the client, for any menus of inputs: the suggestion panel  *)
(* (SuggestionOffer), the revision selector with Browse (Selector), the    *)
(* form that creates a review (Creation) and the review on screen          *)
(* (ReviewView).                                                           *)
(***************************************************************************)
EXTENDS ReviewView, Creation, Selector, SuggestionOffer, FiniteSetTheorems,
        SequenceTheorems, WellFoundedInduction, TLAPS

-----------------------------------------------------------------------------
(* The suggestion panel: the inductive invariant.                          *)

Stages == {"Idle", "Checking", "Applying", "Uncertain", "Rejected"}
Contents == {"Original", "Changed", "Proposed"}

Offers ==
  [open : BOOLEAN, subscribed : BOOLEAN, seen : Nat, applied : BOOLEAN, deleted : BOOLEAN,
   next : Nat, cut : BOOLEAN, cleared : Nat, stage : Stages, request : Nat,
   inspection : Contents \cup {"None", "Rejected"}, notice : BOOLEAN]
Errands == [id : Nat, kind : {"Preview", "Apply"}, at : Nat, done : BOOLEAN, orphan : BOOLEAN]

OfferTyped(o, es) == o \in Offers /\ es \in SUBSET Errands

\* Requests are numbered once, and nothing of a closed review is remembered.
Numbered(o, es) ==
  /\ o.request < o.next
  /\ \A j \in es : j.id < o.next
  /\ \A i, j \in es : i.id = j.id => i = j
  /\ ~o.open => o.stage = "Idle" /\ o.inspection = "None"

\* While an inspection is under way, and after it until something else is
\* known, every application that is not answered is older than it.
Older(o, es) ==
  (o.stage = "Checking" \/ (o.stage = "Idle" /\ o.inspection = "Original" /\ ~o.applied)) =>
    \A j \in es : j.kind = "Apply" => j.id < o.request

\* An application of the live connection is the one the form waits for, one whose
\* event came before its answer, or one that was forgotten with the review.
Live(o, es) ==
  /\ o.cleared <= o.next
  /\ (o.stage # "Idle" \/ o.inspection # "None") => o.cleared <= o.request
  /\ \A j \in es : (j.kind = "Apply" /\ ~j.orphan) =>
       /\ o.subscribed
       /\ j.id < o.cleared \/ (o.open /\ (o.applied \/ (o.stage = "Applying" /\ o.request = j.id)))

\* A form that waits does so for a request of this connection.
Waits(o, es) ==
  (HasRecord(o) /\ o.stage \in {"Checking", "Applying"} /\ ~o.cut) =>
    /\ o.subscribed
    /\ \E j \in es : /\ j.id = o.request /\ ~j.orphan
                     /\ j.kind = (IF o.stage = "Checking" THEN "Preview" ELSE "Apply")

Sound(o, es) == OfferTyped(o, es) /\ Numbered(o, es) /\ Older(o, es) /\ Waits(o, es) /\ Live(o, es)

OfferInv ==
  /\ Sound(offer, errands)
  /\ disk \in Contents
  /\ receipts \in Seq({"Applied", "Deleted"})

-----------------------------------------------------------------------------
(* The suggestion panel: what its functions do to a sound form.            *)

\* An inspection is younger than every request there is.
LEMMA PreviewSound ==
  ASSUME NEW o, NEW es, Sound(o, es), receipts \in Seq({"Applied", "Deleted"})
  PROVE  LET s == Preview([o |-> o, errands |-> es]) IN Sound(s.o, s.errands)
<1>. DEFINE t == [o |-> o, errands |-> es]
            s == Preview(t)
<1>0. t.o = o /\ t.errands = es
  OBVIOUS
<1>. SUFFICES Sound(s.o, s.errands)
  OBVIOUS
<1>. HIDE DEF t
<1>1. CASE ~o.subscribed \/ ~HasRecord(o) \/ o.stage \in {"Checking", "Applying"}
  <2>1. s = t
    BY <1>0, <1>1 DEF Preview
  <2>. QED  BY <1>0, <2>1
<1>2. CASE ~(~o.subscribed \/ ~HasRecord(o) \/ o.stage \in {"Checking", "Applying"})
  <2>. DEFINE e == Errand(o.next, "Preview")
              q == [o EXCEPT !.stage = "Checking", !.request = o.next, !.next = o.next + 1]
  <2>1. s.o = q /\ s.errands = es \cup {e}
    BY <1>0, <1>2 DEF Preview
  <2>2. o \in Offers /\ es \in SUBSET Errands /\ o.next \in Nat
    BY DEF Sound, OfferTyped, Offers
  <2>3. /\ e \in Errands /\ e.id = o.next /\ e.kind = "Preview" /\ e.orphan = FALSE
    BY <2>2 DEF Errand, Errands
  <2>a. o.next + 1 \in Nat /\ "Checking" \in Stages
    BY <2>2 DEF Stages
  <2>4. /\ q \in Offers /\ q.stage = "Checking" /\ q.request = o.next /\ q.next = o.next + 1
        /\ q.open = o.open /\ q.subscribed = o.subscribed
        /\ q.applied = o.applied /\ q.cleared = o.cleared
    BY <2>2, <2>a DEF Offers
  <2>5. o.open /\ o.subscribed
    BY <1>2 DEF HasRecord
  <2>6. \A j \in es : j.id \in Nat /\ j.id < o.next
    BY <2>2 DEF Sound, Numbered, Errands
  <2>7. OfferTyped(q, es \cup {e})
    BY <2>2, <2>3, <2>4 DEF OfferTyped
  <2>8. Numbered(q, es \cup {e})
    BY <2>2, <2>3, <2>4, <2>5, <2>6 DEF Sound, Numbered
  <2>9. Older(q, es \cup {e})
    BY <2>3, <2>4, <2>6 DEF Older
  <2>10. Waits(q, es \cup {e})
    BY <2>3, <2>4, <2>5 DEF Waits
  <2>11. Live(q, es \cup {e})
    <3>1. o.cleared \in Nat /\ o.request \in Nat
      BY <2>2 DEF Offers
    <3>2. o.cleared <= o.next /\ o.cleared <= o.next + 1
      BY <2>2, <3>1 DEF Sound, Live
    <3>3. \A j \in es : (j.kind = "Apply" /\ ~j.orphan) => j.id < o.cleared \/ o.applied
      BY <1>2 DEF Sound, Live
    <3>. QED  BY <2>3, <2>4, <2>5, <3>2, <3>3 DEF Live
  <2>. QED  BY <2>1, <2>7, <2>8, <2>9, <2>10, <2>11 DEF Sound
<1>. QED  BY <1>1, <1>2

\* An answer is taken away, and the form does not wait for it afterwards.
LEMMA AnswerSound ==
  ASSUME NEW o, NEW es, Sound(o, es), NEW j \in es, NEW q \in Offers,
         q.next = o.next, q.request = o.request, q.subscribed = o.subscribed, q.cut = o.cut,
         q.open = o.open, q.cleared = o.cleared,
         o.deleted => q.deleted, o.applied => q.applied,
         q.stage = o.stage \/ (o.stage # "Idle" /\ (q.applied \/ o.request = j.id)),
         q.inspection = o.inspection \/ o.stage # "Idle",
         ~o.open => q.stage = o.stage /\ q.inspection = o.inspection,
         q.stage \in {"Checking", "Applying"} =>
            q.stage = o.stage /\ (HasRecord(q) /\ ~q.cut => j.orphan \/ j.id # o.request
               \/ j.kind # (IF o.stage = "Checking" THEN "Preview" ELSE "Apply")),
         \/ Older(q, es \ {j})
         \/ q.stage = o.stage /\ q.inspection = o.inspection
  PROVE  Sound(q, es \ {j})
<1>1. OfferTyped(q, es \ {j})
  BY DEF Sound, OfferTyped
<1>2. Numbered(q, es \ {j})
  BY DEF Sound, Numbered
<1>3. Older(q, es \ {j})
  <2>1. CASE q.stage = o.stage /\ q.inspection = o.inspection
    <3>1. q.applied \in BOOLEAN /\ o.applied \in BOOLEAN
      BY DEF Sound, OfferTyped, Offers
    <3>. QED  BY <2>1, <3>1 DEF Sound, Older
  <2>. QED  BY <2>1
<1>4. Waits(q, es \ {j})
  <2>. SUFFICES ASSUME HasRecord(q), q.stage \in {"Checking", "Applying"}, ~q.cut
                PROVE  /\ q.subscribed
                       /\ \E i \in es \ {j} : /\ i.id = q.request /\ ~i.orphan
                                              /\ i.kind = (IF q.stage = "Checking" THEN "Preview" ELSE "Apply")
    BY DEF Waits
  <2>1. HasRecord(o) /\ o.stage = q.stage /\ ~o.cut
    <3>1. o.deleted \in BOOLEAN /\ q.deleted \in BOOLEAN
      BY DEF Sound, OfferTyped, Offers
    <3>. QED  BY <3>1 DEF HasRecord
  <2>2. /\ o.subscribed
        /\ \E i \in es : /\ i.id = o.request /\ ~i.orphan
                         /\ i.kind = (IF o.stage = "Checking" THEN "Preview" ELSE "Apply")
    BY <2>1 DEF Sound, Waits
  <2>. QED  BY <2>1, <2>2
<1>5. Live(q, es \ {j})
  <2>1. /\ q.cleared <= q.next
        /\ (q.stage # "Idle" \/ q.inspection # "None") => q.cleared <= q.request
    BY DEF Sound, Live
  <2>2. ASSUME NEW i \in es \ {j}, i.kind = "Apply", ~i.orphan
        PROVE  /\ q.subscribed
               /\ i.id < q.cleared \/ (q.open /\ (q.applied \/ (q.stage = "Applying" /\ q.request = i.id)))
    <3>1. /\ o.subscribed
          /\ i.id < o.cleared \/ (o.open /\ (o.applied \/ (o.stage = "Applying" /\ o.request = i.id)))
      BY <2>2 DEF Sound, Live
    <3>2. i.id # j.id
      BY <2>2 DEF Sound, Numbered
    <3>. QED  BY <3>1, <3>2
  <2>. QED  BY <2>1, <2>2 DEF Live
<1>. QED  BY <1>1, <1>2, <1>3, <1>4, <1>5 DEF Sound

\* The fields of a form that only its stage changes in.
LEMMA StageOnly ==
  ASSUME NEW o \in Offers, NEW x \in Stages, NEW q, q = [o EXCEPT !.stage = x]
  PROVE  /\ q \in Offers /\ q.stage = x
         /\ q.next = o.next /\ q.request = o.request /\ q.subscribed = o.subscribed /\ q.cut = o.cut
         /\ q.open = o.open /\ q.deleted = o.deleted /\ q.applied = o.applied
         /\ q.inspection = o.inspection /\ q.notice = o.notice /\ q.cleared = o.cleared
BY DEF Offers

\* suggestion_failed ends what waited for the request.
LEMMA FailsSound ==
  ASSUME NEW o, NEW es, Sound(o, es), NEW j \in es
  PROVE  Sound(Fails(o, j), es \ {j})
<1>1. o \in Offers /\ o.open \in BOOLEAN /\ o.applied \in BOOLEAN /\ o.deleted \in BOOLEAN
  BY DEF Sound, OfferTyped, Offers
<1>2. {"Idle", "Uncertain", "Rejected"} \subseteq Stages
  BY DEF Stages
<1>3. CASE ~o.open
  <2>1. Fails(o, j) = o
    BY <1>1, <1>3 DEF Fails
  <2>2. o.stage = "Idle"
    BY <1>3 DEF Sound, Numbered
  <2>. QED  BY <1>1, <2>1, <2>2, AnswerSound
<1>4. CASE o.open /\ HasRecord(o) /\ o.applied
  <2>1. Fails(o, j) = [o EXCEPT !.stage = "Idle"]
    BY <1>1, <1>4 DEF Fails
  <2>. DEFINE q == [o EXCEPT !.stage = "Idle"]
  <2>2. /\ q \in Offers /\ q.stage = "Idle"
        /\ q.next = o.next /\ q.request = o.request /\ q.subscribed = o.subscribed /\ q.cut = o.cut
        /\ q.open = o.open /\ q.deleted = o.deleted /\ q.applied = o.applied
        /\ q.cleared = o.cleared /\ q.inspection = o.inspection
    BY <1>1, <1>2, StageOnly
  <2>. HIDE DEF q
  <2>3. Older(q, es \ {j})
    BY <1>4, <2>2 DEF Older
  <2>4. Sound(q, es \ {j})
    BY <1>4, <2>2, <2>3, AnswerSound
  <2>. QED  BY <2>1, <2>4 DEF q
<1>5. CASE o.open /\ ~(HasRecord(o) /\ o.applied)
  <2>1. CASE o.request # j.id
    <3>1. Fails(o, j) = o
      BY <1>1, <1>5, <2>1 DEF Fails
    <3>. QED  BY <1>1, <1>5, <2>1, <3>1, AnswerSound
  <2>2. CASE o.request = j.id /\ o.stage = "Applying"
    <3>. DEFINE q == [o EXCEPT !.stage = "Uncertain", !.notice = TRUE]
    <3>1. Fails(o, j) = q
      BY <1>1, <1>5, <2>2 DEF Fails
    <3>2. /\ q \in Offers /\ q.stage = "Uncertain"
          /\ q.next = o.next /\ q.request = o.request /\ q.subscribed = o.subscribed /\ q.cut = o.cut
          /\ q.open = o.open /\ q.deleted = o.deleted /\ q.applied = o.applied
          /\ q.cleared = o.cleared /\ q.inspection = o.inspection
      BY <1>1, <1>2 DEF Offers
    <3>. HIDE DEF q
    <3>3. Older(q, es \ {j})
      BY <3>2 DEF Older
    <3>4. Sound(q, es \ {j})
      BY <1>5, <2>2, <3>2, <3>3, AnswerSound
    <3>. QED  BY <3>1, <3>4
  <2>3. CASE o.request = j.id /\ o.stage = "Checking"
    <3>. DEFINE q == [o EXCEPT !.stage = "Rejected"]
    <3>1. Fails(o, j) = q
      BY <1>1, <1>5, <2>3 DEF Fails
    <3>2. /\ q \in Offers /\ q.stage = "Rejected"
          /\ q.next = o.next /\ q.request = o.request /\ q.subscribed = o.subscribed /\ q.cut = o.cut
          /\ q.open = o.open /\ q.deleted = o.deleted /\ q.applied = o.applied
          /\ q.cleared = o.cleared /\ q.inspection = o.inspection
      BY <1>1, <1>2, StageOnly
    <3>. HIDE DEF q
    <3>3. Older(q, es \ {j})
      BY <3>2 DEF Older
    <3>4. Sound(q, es \ {j})
      BY <1>5, <2>3, <3>2, <3>3, AnswerSound
    <3>. QED  BY <3>1, <3>4
  <2>4. CASE o.request = j.id /\ o.stage \notin {"Applying", "Checking"}
    <3>1. Fails(o, j) = o
      BY <1>1, <1>5, <2>4 DEF Fails
    <3>. QED  BY <1>1, <1>5, <2>4, <3>1, AnswerSound
  <2>. QED  BY <2>1, <2>2, <2>3, <2>4
<1>. QED  BY <1>1, <1>3, <1>4, <1>5

\* The requests that are left of a lost connection: applications under way.
LEMMA OrphansSound ==
  ASSUME Sound(offer, errands)
  PROVE  /\ Orphaned \in SUBSET Errands
         /\ \A i, j \in Orphaned : i.id = j.id => i = j
         /\ \A i \in Orphaned : i.orphan /\ \E j \in errands : i.id = j.id /\ j.kind = "Apply"
<1>1. \A j \in Running : j \in errands /\ j \in Errands /\ j.kind = "Apply" /\ ~j.done
  BY DEF Running, Sound, OfferTyped
<1>2. \A j \in Errands : /\ [j EXCEPT !.orphan = TRUE] \in Errands
                         /\ [j EXCEPT !.orphan = TRUE].id = j.id /\ [j EXCEPT !.orphan = TRUE].orphan
  BY DEF Errands
<1>3. ASSUME NEW i \in Orphaned
      PROVE  \E j \in Running : /\ i = [j EXCEPT !.orphan = TRUE] /\ i.id = j.id /\ i \in Errands
                               /\ i.orphan
  BY <1>1, <1>2 DEF Orphaned
<1>4. ASSUME NEW i \in Orphaned, NEW k \in Orphaned, i.id = k.id  PROVE i = k
  <2>1. PICK j \in Running : i = [j EXCEPT !.orphan = TRUE] /\ i.id = j.id
    BY <1>3
  <2>2. PICK l \in Running : k = [l EXCEPT !.orphan = TRUE] /\ k.id = l.id
    BY <1>3
  <2>3. j = l
    BY <1>1, <1>4, <2>1, <2>2 DEF Sound, Numbered
  <2>. QED  BY <2>1, <2>2, <2>3
<1>. QED  BY <1>1, <1>3, <1>4

\* A form that loses its connection: it waits for nothing, or it was cut.
LEMMA LostSound ==
  ASSUME Sound(offer, errands), NEW q \in Offers,
         q.next = offer.next, q.request = offer.request, q.open = offer.open,
         q.inspection = offer.inspection, q.applied = offer.applied, q.cleared = offer.cleared,
         q.stage = offer.stage \/ (q.stage = "Uncertain" /\ offer.stage \in {"Applying", "Checking"}),
         q.cut \/ q.stage \notin {"Applying", "Checking"}
  PROVE  Sound(q, Orphaned)
<1>1. OfferTyped(q, Orphaned)
  BY OrphansSound DEF OfferTyped
<1>2. Numbered(q, Orphaned)
  BY OrphansSound DEF Sound, Numbered
<1>3. Older(q, Orphaned)
  BY OrphansSound DEF Sound, Older
<1>4. Waits(q, Orphaned)
  BY DEF Waits
<1>5. Live(q, Orphaned)
  BY OrphansSound DEF Sound, Live
<1>. QED  BY <1>1, <1>2, <1>3, <1>4, <1>5 DEF Sound

-----------------------------------------------------------------------------
(* The suggestion panel: its steps.                                        *)

\* An application is sent when one is on offer.
LEMMA ApplyStep ==
  ASSUME OfferInv, ApplySuggestion
  PROVE  Sound(offer', errands')
<1>. DEFINE e == Errand(offer.next, "Apply")
            q == [offer EXCEPT !.stage = "Applying", !.request = offer.next, !.next = offer.next + 1]
<1>1. offer \in Offers /\ errands \in SUBSET Errands /\ offer.next \in Nat /\ offer.next + 1 \in Nat
  BY DEF OfferInv, Sound, OfferTyped, Offers
<1>2. offer' = q /\ errands' = errands \cup {e} /\ offer.subscribed /\ offer.open
  BY DEF ApplySuggestion, OfferBecomes, HasRecord
<1>3. e \in Errands /\ e.id = offer.next /\ e.kind = "Apply" /\ e.orphan = FALSE
  BY <1>1 DEF Errand, Errands, OfferInv
<1>4. /\ q \in Offers /\ q.stage = "Applying" /\ q.request = offer.next /\ q.next = offer.next + 1
      /\ q.open = offer.open /\ q.subscribed = offer.subscribed
      /\ q.applied = offer.applied /\ q.cleared = offer.cleared
  <2>1. "Applying" \in Stages
    BY DEF Stages
  <2>. QED  BY <1>1, <2>1 DEF Offers
<1>. HIDE DEF q, e
<1>5. \A j \in errands : j.id \in Nat /\ j.id < offer.next
  BY <1>1 DEF OfferInv, Sound, Numbered, Errands
<1>6. OfferTyped(q, errands \cup {e})
  BY <1>1, <1>3, <1>4 DEF OfferTyped
<1>7. Numbered(q, errands \cup {e})
  BY <1>1, <1>2, <1>3, <1>4, <1>5 DEF OfferInv, Sound, Numbered
<1>8. Older(q, errands \cup {e})
  BY <1>4 DEF Older
<1>9. Waits(q, errands \cup {e})
  BY <1>2, <1>3, <1>4 DEF Waits
<1>10. offer.stage # "Applying"
  <2>1. offer.stage \in Stages
    BY <1>1 DEF Offers
  <2>. QED  BY <2>1 DEF ApplySuggestion, StatusOf, Stages
<1>11. Live(q, errands \cup {e})
  <2>1. offer.cleared \in Nat
    BY <1>1 DEF Offers
  <2>2. offer.cleared <= offer.next /\ offer.cleared <= offer.next + 1
    BY <1>1, <2>1 DEF OfferInv, Sound, Live
  <2>3. \A j \in errands : (j.kind = "Apply" /\ ~j.orphan) => j.id < offer.cleared \/ offer.applied
    BY <1>10 DEF OfferInv, Sound, Live
  <2>. QED  BY <1>2, <1>3, <1>4, <2>2, <2>3 DEF Live
<1>. QED  BY <1>2, <1>6, <1>7, <1>8, <1>9, <1>11 DEF Sound

\* The daemon commits an application: its request is done and still there.
LEMMA CommitStep ==
  ASSUME OfferInv, ApplyCommits
  PROVE  Sound(offer', errands')
<1>1. PICK j \in Running :
        errands' = (errands \ {j}) \cup {[j EXCEPT !.done = TRUE, !.at = Len(receipts) + 1]}
  BY DEF ApplyCommits
<1>. DEFINE d == [j EXCEPT !.done = TRUE, !.at = Len(receipts) + 1]
<1>2. offer' = offer /\ j \in errands /\ j \in Errands /\ errands \in SUBSET Errands
  BY DEF ApplyCommits, Running, OfferInv, Sound, OfferTyped
<1>3. d \in Errands /\ d.id = j.id /\ d.kind = j.kind /\ d.done = TRUE /\ d.orphan = j.orphan
  <2>1. Len(receipts) + 1 \in Nat
    BY DEF OfferInv
  <2>. QED  BY <1>2, <2>1 DEF Errands
<1>. HIDE DEF d
<1>. DEFINE es == (errands \ {j}) \cup {d}
<1>4. OfferTyped(offer, es)
  BY <1>2, <1>3 DEF OfferInv, Sound, OfferTyped
<1>5. Numbered(offer, es)
  BY <1>2, <1>3 DEF OfferInv, Sound, Numbered
<1>6. Older(offer, es)
  BY <1>2, <1>3 DEF OfferInv, Sound, Older
<1>7. Waits(offer, es)
  BY <1>2, <1>3 DEF OfferInv, Sound, Waits
<1>8. Live(offer, es)
  BY <1>2, <1>3 DEF OfferInv, Sound, Live
<1>. QED  BY <1>1, <1>2, <1>4, <1>5, <1>6, <1>7, <1>8 DEF Sound, d

\* An application is refused or fails.
LEMMA ErrorStep ==
  ASSUME OfferInv, NEW j \in errands, AnswersError(j)
  PROVE  Sound(offer', errands')
<1>1. CASE j.orphan
  <2>1. offer' = offer /\ errands' = errands \ {j} /\ offer \in Offers
    BY <1>1 DEF AnswersError, OfferInv, Sound, OfferTyped
  <2>. QED  BY <1>1, <2>1, AnswerSound DEF OfferInv
<1>2. CASE ~j.orphan
  BY <1>2, FailsSound DEF AnswersError, OfferInv
<1>. QED  BY <1>1, <1>2

\* What the form learns of the record leaves what it waits for alone.
LEMMA LearnSound ==
  ASSUME NEW o, NEW es, Sound(o, es), NEW q \in Offers,
         q.next = o.next, q.request = o.request, q.subscribed = o.subscribed, q.cut = o.cut,
         q.open = o.open, q.stage = o.stage, q.inspection = o.inspection, q.cleared = o.cleared,
         o.applied => q.applied, o.deleted => q.deleted
  PROVE  Sound(q, es)
<1>1. OfferTyped(q, es)
  BY DEF Sound, OfferTyped
<1>2. Numbered(q, es)
  BY DEF Sound, Numbered
<1>3. Older(q, es)
  BY DEF Sound, Older
<1>4. Waits(q, es)
  <2>1. o.deleted \in BOOLEAN /\ q.deleted \in BOOLEAN
    BY DEF Sound, OfferTyped, Offers
  <2>2. HasRecord(q) => HasRecord(o)
    BY <2>1 DEF HasRecord
  <2>. QED  BY <2>2 DEF Sound, Waits
<1>5. Live(q, es)
  BY DEF Sound, Live
<1>. QED  BY <1>1, <1>2, <1>3, <1>4, <1>5 DEF Sound

\* A form that waits for nothing and has inspected nothing.
LEMMA BlankSound ==
  ASSUME NEW o, NEW es, Sound(o, es), NEW q \in Offers,
         q.next = o.next, q.request = o.request \/ q.request = 0,
         q.stage = "Idle", q.inspection = "None", q.subscribed = o.subscribed,
         q.cleared = o.next \/ (q.cleared = o.cleared /\ ~o.open)
  PROVE  Sound(q, es)
<1>1. OfferTyped(q, es)
  BY DEF Sound, OfferTyped
<1>2. Numbered(q, es)
  <2>1. o.request \in Nat /\ o.next \in Nat
    BY DEF Sound, OfferTyped, Offers
  <2>2. q.request < q.next
    BY <2>1 DEF Sound, Numbered
  <2>. QED  BY <2>2 DEF Sound, Numbered
<1>3. Older(q, es)
  BY DEF Older
<1>4. Waits(q, es)
  BY DEF Waits
<1>5. Live(q, es)
  <2>1. o.next \in Nat /\ o.cleared \in Nat
    BY DEF Sound, OfferTyped, Offers
  <2>. QED  BY <2>1 DEF Sound, Numbered, Live
<1>. QED  BY <1>1, <1>2, <1>3, <1>4, <1>5 DEF Sound

\* The receipt of an application arrives with its answer.
LEMMA AppliedStep ==
  ASSUME OfferInv, SuggestionApplied
  PROVE  Sound(offer', errands')
<1>1. PICK j \in errands :
        /\ j.kind = "Apply" /\ j.done
        /\ errands' = errands \ {j}
        /\ offer' = IF j.orphan THEN offer
                    ELSE [Applies(IF offer.open /\ offer.stage = "Applying" /\ offer.request = j.id
                                  THEN [offer EXCEPT !.stage = "Idle"] ELSE offer, "Applied")
                          EXCEPT !.seen = IF @ < j.at THEN j.at ELSE @]
  BY DEF SuggestionApplied
<1>2. offer \in Offers /\ Sound(offer, errands)
  BY DEF OfferInv, Sound, OfferTyped
<1>3. j \in Errands /\ j.at \in Nat
  BY <1>2 DEF Errands, Sound, OfferTyped
<1>4. CASE j.orphan
  BY <1>1, <1>2, <1>4, AnswerSound
<1>5. CASE ~j.orphan
  <2>. DEFINE b == IF offer.open /\ offer.stage = "Applying" /\ offer.request = j.id
                   THEN [offer EXCEPT !.stage = "Idle"] ELSE offer
              a == Applies(b, "Applied")
              q == [a EXCEPT !.seen = IF @ < j.at THEN j.at ELSE @]
  <2>1. offer' = q
    BY <1>1, <1>5
  <2>2. /\ b \in Offers /\ b.next = offer.next /\ b.request = offer.request
        /\ b.subscribed = offer.subscribed /\ b.cut = offer.cut /\ b.open = offer.open
        /\ b.deleted = offer.deleted /\ b.applied = offer.applied /\ b.inspection = offer.inspection
        /\ b.cleared = offer.cleared
        /\ b.stage = IF offer.open /\ offer.stage = "Applying" /\ offer.request = j.id
                     THEN "Idle" ELSE offer.stage
    <3>1. "Idle" \in Stages
      BY DEF Stages
    <3>. QED  BY <1>2, <3>1, StageOnly
  <2>. HIDE DEF b
  <2>3. /\ a \in Offers /\ a.next = b.next /\ a.request = b.request
        /\ a.subscribed = b.subscribed /\ a.cut = b.cut /\ a.open = b.open
        /\ a.deleted = b.deleted /\ a.stage = b.stage /\ a.inspection = b.inspection
        /\ a.cleared = b.cleared
        /\ (b.open => a.applied = TRUE) /\ (b.applied => a.applied)
    <3>1. CASE ~b.open
      BY <2>2, <3>1 DEF Applies
    <3>2. CASE b.open
      <4>1. a = [b EXCEPT !.applied = TRUE]
        BY <3>2 DEF Applies
      <4>. QED  BY <2>2, <4>1 DEF Offers
    <3>. QED  BY <3>1, <3>2
  <2>. HIDE DEF a
  <2>4. /\ q \in Offers /\ q.next = a.next /\ q.request = a.request
        /\ q.subscribed = a.subscribed /\ q.cut = a.cut /\ q.open = a.open
        /\ q.deleted = a.deleted /\ q.stage = a.stage /\ q.inspection = a.inspection
        /\ q.applied = a.applied /\ q.cleared = a.cleared
    <3>1. (IF a.seen < j.at THEN j.at ELSE a.seen) \in Nat
      BY <1>3, <2>3 DEF Offers
    <3>. QED  BY <2>3, <3>1 DEF Offers
  <2>. HIDE DEF q
  <2>5. /\ q \in Offers /\ q.next = offer.next /\ q.request = offer.request
        /\ q.subscribed = offer.subscribed /\ q.cut = offer.cut /\ q.open = offer.open
        /\ q.cleared = offer.cleared /\ q.inspection = offer.inspection
        /\ (offer.deleted => q.deleted) /\ (offer.applied => q.applied)
    BY <2>2, <2>3, <2>4
  <2>6. ~offer.open => offer.stage = "Idle"
    BY <1>2 DEF Sound, Numbered
  <2>7. CASE offer.open /\ offer.stage = "Applying" /\ offer.request = j.id
    <3>1. q.stage = "Idle" /\ q.applied
      BY <2>2, <2>3, <2>4, <2>7
    <3>2. Older(q, errands \ {j})
      BY <3>1 DEF Older
    <3>3. Sound(q, errands \ {j})
      BY <1>2, <2>7, <2>5, <3>1, <3>2, AnswerSound
    <3>. QED  BY <1>1, <2>1, <3>3
  <2>8. CASE ~(offer.open /\ offer.stage = "Applying" /\ offer.request = j.id)
    <3>1. q.stage = offer.stage /\ q.inspection = offer.inspection /\ (offer.applied => q.applied)
      BY <2>2, <2>3, <2>4, <2>8
    <3>2. offer.stage = "Applying" => j.id # offer.request
      BY <2>6, <2>8
    <3>3. Sound(q, errands \ {j})
      BY <1>1, <1>2, <2>5, <3>1, <3>2, AnswerSound
    <3>. QED  BY <1>1, <2>1, <3>3
  <2>. QED  BY <2>7, <2>8
<1>. QED  BY <1>4, <1>5

\* An inspection ends: what runs is older, as it was when the inspection began.
LEMMA PreviewedStep ==
  ASSUME OfferInv, SuggestionPreviewed
  PROVE  Sound(offer', errands')
<1>1. PICK j \in errands, at \in Nat, inspection \in Inspections :
        /\ j.kind = "Preview"
        /\ offer' = Previewed(offer, j, inspection, \E i \in 1..at : receipts[i] = "Applied")
        /\ errands' = errands \ {j}
  <2>1. PICK j \in errands : \E at \in j.at..Len(receipts), inspection \in Inspections :
          /\ j.kind = "Preview"
          /\ OfferBecomes([o |-> Previewed(offer, j, inspection, \E i \in 1..at : receipts[i] = "Applied"),
                           errands |-> errands \ {j}])
    BY DEF SuggestionPreviewed
  <2>2. PICK at \in j.at..Len(receipts), inspection \in Inspections :
          /\ j.kind = "Preview"
          /\ OfferBecomes([o |-> Previewed(offer, j, inspection, \E i \in 1..at : receipts[i] = "Applied"),
                           errands |-> errands \ {j}])
    BY <2>1
  <2>3. j.at \in Nat /\ Len(receipts) \in Nat
    BY DEF OfferInv, Sound, OfferTyped, Errands
  <2>4. at \in Nat
    BY <2>2, <2>3
  <2>5. /\ offer' = Previewed(offer, j, inspection, \E i \in 1..at : receipts[i] = "Applied")
        /\ errands' = errands \ {j}
    BY <2>2 DEF OfferBecomes
  <2>. QED  BY <2>2, <2>4, <2>5
<1>. DEFINE known == \E i \in 1..at : receipts[i] = "Applied"
<1>2. known \in BOOLEAN
  OBVIOUS
<1>. HIDE DEF known
<1>3. offer' = Previewed(offer, j, inspection, known)
  BY <1>1 DEF known
<1>4. offer \in Offers /\ Sound(offer, errands)
  BY DEF OfferInv, Sound, OfferTyped
<1>5. CASE ~HasRecord(offer) \/ offer.stage # "Checking" \/ offer.request # j.id
  <2>1. offer' = offer
    BY <1>3, <1>5 DEF Previewed
  <2>2. offer.stage \in {"Checking", "Applying"} =>
          (HasRecord(offer) => j.id # offer.request
             \/ j.kind # (IF offer.stage = "Checking" THEN "Preview" ELSE "Apply"))
    BY <1>1, <1>5
  <2>3. Sound(offer, errands \ {j})
    BY <1>4, <2>2, AnswerSound
  <2>. QED  BY <1>1, <2>1, <2>3
<1>6. CASE HasRecord(offer) /\ offer.stage = "Checking" /\ offer.request = j.id
  <2>. DEFINE q == [offer EXCEPT !.inspection = inspection, !.stage = "Idle",
                                 !.applied = offer.applied \/ known]
  <2>1. offer' = q
    BY <1>3, <1>6 DEF Previewed
  <2>2. /\ "Idle" \in Stages /\ inspection \in Contents \cup {"None", "Rejected"}
        /\ (offer.applied \/ known) \in BOOLEAN
    BY <1>1 DEF Stages, Inspections, OfferInv
  <2>3. /\ q \in Offers /\ q.next = offer.next /\ q.request = offer.request
        /\ q.subscribed = offer.subscribed /\ q.cut = offer.cut /\ q.open = offer.open
        /\ q.deleted = offer.deleted /\ q.stage = "Idle" /\ q.cleared = offer.cleared
        /\ (offer.applied => q.applied)
    BY <1>4, <2>2 DEF Offers
  <2>. HIDE DEF q
  <2>4. Older(q, errands \ {j})
    BY <1>4, <1>6, <2>3 DEF Sound, Older
  <2>5. offer.open
    BY <1>6 DEF HasRecord
  <2>6. Sound(q, errands \ {j})
    BY <1>4, <1>6, <2>3, <2>4, <2>5, AnswerSound
  <2>. QED  BY <1>1, <2>1, <2>6
<1>. QED  BY <1>5, <1>6

\* An event of the review.
LEMMA EventStep ==
  ASSUME OfferInv, OfferEvent
  PROVE  Sound(offer', errands')
<1>. DEFINE e == receipts[offer.seen + 1]
            a == Applies(offer, e)
            q == [a EXCEPT !.seen = @ + 1]
<1>1. offer' = q /\ errands' = errands
  BY DEF OfferEvent
<1>2. offer \in Offers /\ Sound(offer, errands)
  BY DEF OfferInv, Sound, OfferTyped
<1>3. /\ a \in Offers /\ a.next = offer.next /\ a.request = offer.request
      /\ a.subscribed = offer.subscribed /\ a.cut = offer.cut /\ a.open = offer.open
      /\ a.stage = offer.stage /\ a.inspection = offer.inspection /\ a.cleared = offer.cleared
      /\ (offer.applied => a.applied) /\ (offer.deleted => a.deleted)
  <2>1. CASE ~offer.open
    BY <1>2, <2>1 DEF Applies
  <2>2. CASE offer.open /\ e = "Applied"
    <3>1. a = [offer EXCEPT !.applied = TRUE]
      BY <2>2 DEF Applies
    <3>. HIDE DEF a
    <3>. QED  BY <1>2, <3>1 DEF Offers
  <2>3. CASE offer.open /\ e # "Applied"
    <3>1. a = [offer EXCEPT !.deleted = TRUE]
      BY <2>3 DEF Applies
    <3>. HIDE DEF a
    <3>. QED  BY <1>2, <3>1 DEF Offers
  <2>. QED  BY <2>1, <2>2, <2>3
<1>. HIDE DEF a
<1>4. /\ q \in Offers /\ q.next = a.next /\ q.request = a.request
      /\ q.subscribed = a.subscribed /\ q.cut = a.cut /\ q.open = a.open
      /\ q.stage = a.stage /\ q.inspection = a.inspection
      /\ q.applied = a.applied /\ q.deleted = a.deleted /\ q.cleared = a.cleared
  <2>1. a.seen + 1 \in Nat
    BY <1>3 DEF Offers
  <2>. QED  BY <1>3, <2>1 DEF Offers
<1>. HIDE DEF q
<1>5. Sound(q, errands)
  BY <1>2, <1>3, <1>4, LearnSound
<1>. QED  BY <1>1, <1>5

\* The connection is lost, or closed at a deadline, or reported gone after it.
LEMMA DroppedStep ==
  ASSUME OfferInv, OfferDisconnected \/ OfferDeadline \/ OfferReported
  PROVE  Sound(offer', errands')
<1>1. offer \in Offers /\ Sound(offer, errands)
  BY DEF OfferInv, Sound, OfferTyped
<1>2. CASE OfferDisconnected
  <2>. DEFINE u == [offer EXCEPT !.subscribed = FALSE, !.cut = FALSE]
              x == IF u.stage \in {"Applying", "Checking"} THEN "Uncertain" ELSE u.stage
              q == [u EXCEPT !.stage = x]
  <2>1. offer' = q /\ errands' = Orphaned
    BY <1>2 DEF OfferDisconnected, SuggestionsDisconnected
  <2>2. /\ u \in Offers /\ u.next = offer.next /\ u.request = offer.request /\ u.open = offer.open
        /\ u.inspection = offer.inspection /\ u.applied = offer.applied /\ u.stage = offer.stage
        /\ u.cleared = offer.cleared
    BY <1>1 DEF Offers
  <2>. HIDE DEF u
  <2>3. x \in Stages
    BY <2>2 DEF Offers, Stages
  <2>4. /\ q \in Offers /\ q.next = u.next /\ q.request = u.request /\ q.open = u.open
        /\ q.inspection = u.inspection /\ q.applied = u.applied /\ q.stage = x
        /\ q.cleared = u.cleared
    BY <2>2, <2>3, StageOnly
  <2>. HIDE DEF q
  <2>5. Sound(q, Orphaned)
    BY <1>1, <2>2, <2>4, LostSound
  <2>. QED  BY <2>1, <2>5
<1>3. CASE OfferDeadline
  <2>. DEFINE q == [offer EXCEPT !.subscribed = FALSE, !.cut = TRUE]
  <2>1. offer' = q /\ errands' = Orphaned
    BY <1>3 DEF OfferDeadline
  <2>2. /\ q \in Offers /\ q.next = offer.next /\ q.request = offer.request /\ q.open = offer.open
        /\ q.inspection = offer.inspection /\ q.applied = offer.applied /\ q.stage = offer.stage
        /\ q.cut = TRUE /\ q.cleared = offer.cleared
    BY <1>1 DEF Offers
  <2>. HIDE DEF q
  <2>3. Sound(q, Orphaned)
    BY <1>1, <2>2, LostSound
  <2>. QED  BY <2>1, <2>3
<1>4. CASE OfferReported
  <2>. DEFINE u == [offer EXCEPT !.cut = FALSE]
              x == IF u.stage \in {"Applying", "Checking"} THEN "Uncertain" ELSE u.stage
              q == [u EXCEPT !.stage = x]
  <2>1. offer' = q /\ errands' = errands /\ ~offer.subscribed
    BY <1>4 DEF OfferReported, SuggestionsDisconnected
  <2>2. /\ u \in Offers /\ u.next = offer.next /\ u.request = offer.request /\ u.open = offer.open
        /\ u.inspection = offer.inspection /\ u.applied = offer.applied /\ u.stage = offer.stage
        /\ u.cleared = offer.cleared
    BY <1>1 DEF Offers
  <2>. HIDE DEF u
  <2>3. x \in Stages /\ x \notin {"Applying", "Checking"} /\ (x = u.stage \/ (x = "Uncertain" /\ u.stage # "Idle"))
    BY <2>2 DEF Offers, Stages
  <2>4. /\ q \in Offers /\ q.next = u.next /\ q.request = u.request /\ q.open = u.open
        /\ q.inspection = u.inspection /\ q.applied = u.applied /\ q.stage = x
        /\ q.cleared = u.cleared
    BY <2>2, <2>3, StageOnly
  <2>. HIDE DEF q, x
  <2>5. OfferTyped(q, errands)
    BY <1>1, <2>4 DEF Sound, OfferTyped
  <2>6. Numbered(q, errands)
    BY <1>1, <2>2, <2>3, <2>4 DEF Sound, Numbered
  <2>7. Older(q, errands) /\ Waits(q, errands)
    BY <1>1, <2>2, <2>3, <2>4 DEF Sound, Older, Waits
  <2>8. Live(q, errands)
    BY <1>1, <2>1, <2>2, <2>3, <2>4 DEF Sound, Live
  <2>. QED  BY <2>1, <2>5, <2>6, <2>7, <2>8 DEF Sound
<1>. QED  BY <1>2, <1>3, <1>4

\* A form of a lost connection is sound on the next one: what it waits for, if it
\* was cut, it is excused from; and it inspects what is uncertain.
LEMMA ReconnectedStep ==
  ASSUME OfferInv, OfferReconnected
  PROVE  Sound(offer', errands')
<1>. DEFINE q == [offer EXCEPT !.subscribed = TRUE]
            t == [o |-> q, errands |-> errands]
<1>1. offer \in Offers /\ Sound(offer, errands) /\ ~offer.subscribed
  BY DEF OfferInv, Sound, OfferTyped, OfferReconnected
<1>2. OfferBecomes(SuggestionsReconnected(t))
  BY DEF OfferReconnected
<1>3. /\ q \in Offers /\ q.next = offer.next /\ q.request = offer.request /\ q.open = offer.open
      /\ q.inspection = offer.inspection /\ q.applied = offer.applied /\ q.stage = offer.stage
      /\ q.cut = offer.cut /\ q.deleted = offer.deleted /\ q.cleared = offer.cleared
  BY <1>1 DEF Offers
<1>4. t.o = q /\ t.errands = errands
  OBVIOUS
<1>5. offer' = SuggestionsReconnected(t).o /\ errands' = SuggestionsReconnected(t).errands
  BY <1>2 DEF OfferBecomes
<1>. HIDE DEF q
<1>6. Sound(q, errands)
  <2>1. OfferTyped(q, errands)
    BY <1>1, <1>3 DEF Sound, OfferTyped
  <2>2. Numbered(q, errands)
    BY <1>1, <1>3 DEF Sound, Numbered
  <2>3. Older(q, errands)
    BY <1>1, <1>3 DEF Sound, Older
  <2>4. Waits(q, errands)
    BY <1>1, <1>3 DEF Sound, Waits, HasRecord
  <2>5. Live(q, errands)
    BY <1>1, <1>3 DEF Sound, Live
  <2>. QED  BY <2>1, <2>2, <2>3, <2>4, <2>5 DEF Sound
<1>7. Sound(Preview(t).o, Preview(t).errands)
  BY <1>6, PreviewSound DEF OfferInv
<1>. HIDE DEF t
<1>. QED  BY <1>4, <1>5, <1>6, <1>7 DEF SuggestionsReconnected

\* The review is closed, or read again.
LEMMA OpenStep ==
  ASSUME OfferInv, CloseOffer \/ ReopenOffer
  PROVE  Sound(offer', errands')
<1>1. offer \in Offers /\ Sound(offer, errands)
  BY DEF OfferInv, Sound, OfferTyped
<1>2. CASE CloseOffer
  <2>. DEFINE u == [offer EXCEPT !.open = FALSE, !.applied = FALSE, !.deleted = FALSE, !.cleared = offer.next]
              q == [u EXCEPT !.stage = "Idle", !.request = 0, !.inspection = "None", !.notice = FALSE]
  <2>1. offer' = q /\ errands' = errands
    BY <1>2 DEF CloseOffer, NoState
  <2>2. u \in Offers /\ u.next = offer.next /\ u.subscribed = offer.subscribed /\ u.cleared = offer.next
    BY <1>1 DEF Offers
  <2>. HIDE DEF u
  <2>3. "Idle" \in Stages
    BY DEF Stages
  <2>4. q \in Offers /\ q.next = u.next /\ q.request = 0 /\ q.stage = "Idle" /\ q.inspection = "None"
        /\ q.subscribed = u.subscribed /\ q.cleared = u.cleared
    BY <2>2, <2>3 DEF Offers
  <2>. HIDE DEF q
  <2>5. Sound(q, errands)
    BY <1>1, <2>2, <2>4, BlankSound
  <2>. QED  BY <2>1, <2>5
<1>3. CASE ReopenOffer
  <2>. DEFINE a == HasEvent("Applied")
              d == HasEvent("Deleted")
  <2>1. a \in BOOLEAN /\ d \in BOOLEAN
    BY DEF HasEvent
  <2>. HIDE DEF a, d
  <2>. DEFINE q == [offer EXCEPT !.open = TRUE, !.applied = a, !.deleted = d]
  <2>2. offer' = q /\ errands' = errands /\ ~offer.open
    BY <1>3 DEF ReopenOffer, a, d
  <2>3. /\ q \in Offers /\ q.next = offer.next /\ q.request = offer.request
        /\ q.stage = offer.stage /\ q.inspection = offer.inspection
        /\ q.subscribed = offer.subscribed /\ q.cleared = offer.cleared
    BY <1>1, <2>1 DEF Offers
  <2>. HIDE DEF q
  <2>4. offer.stage = "Idle" /\ offer.inspection = "None"
    BY <1>1, <2>2 DEF Sound, Numbered
  <2>5. Sound(q, errands)
    BY <1>1, <2>2, <2>3, <2>4, BlankSound
  <2>. QED  BY <2>2, <2>5
<1>. QED  BY <1>2, <1>3

-----------------------------------------------------------------------------
(* The suggestion panel: the theorems.                                     *)

\* At the start nothing runs and nothing was inspected.
LEMMA OfferStart == OfferInit => OfferInv
<1>. SUFFICES ASSUME OfferInit PROVE OfferInv
  OBVIOUS
<1>1. "Idle" \in Stages /\ 0 \in Nat /\ 1 \in Nat
  BY DEF Stages
<1>2. /\ offer \in Offers /\ errands = {} /\ offer.open /\ offer.next = 1 /\ offer.request = 0
      /\ offer.stage = "Idle" /\ offer.inspection = "None" /\ offer.cleared = 0
  BY <1>1 DEF OfferInit, Offers
<1>3. OfferTyped(offer, errands) /\ Numbered(offer, errands)
  BY <1>2 DEF OfferTyped, Numbered
<1>4. Older(offer, errands) /\ Waits(offer, errands) /\ Live(offer, errands)
  BY <1>2 DEF Older, Waits, Live
<1>5. disk \in Contents /\ receipts \in Seq({"Applied", "Deleted"})
  BY DEF OfferInit, Contents
<1>. QED  BY <1>3, <1>4, <1>5 DEF OfferInv, Sound

\* What the steps do to the file and to the events.
LEMMA WorldStep ==
  ASSUME OfferInv, OfferNext
  PROVE  disk' \in Contents /\ receipts' \in Seq({"Applied", "Deleted"})
<1>1. CASE ApplyCommits
  BY <1>1 DEF ApplyCommits, OfferInv, Contents
<1>2. CASE ApplyFaults
  BY <1>2 DEF ApplyFaults, OfferInv, Contents
<1>3. CASE OffersChange
  BY <1>3 DEF OffersChange, OfferInv, Contents
<1>4. CASE UNCHANGED <<disk, receipts>>
  BY <1>4 DEF OfferInv
<1>. QED
  BY <1>1, <1>2, <1>3, <1>4
     DEF OfferNext, PreviewSuggestion, ApplySuggestion, ApplyRefused, SuggestionApplied,
         SuggestionPreviewed, PreviewFailed, OfferEvent, OfferDisconnected, OfferDeadline,
         OfferReported, OfferReconnected, CloseOffer, ReopenOffer

\* Every step keeps the form sound.
LEMMA OfferStep ==
  ASSUME OfferInv, [OfferNext]_offerVars
  PROVE  OfferInv'
<1>1. CASE OfferNext
  <2>1. Sound(offer', errands')
    <3>1. CASE PreviewSuggestion
      <4>1. offer' = Preview(Client).o /\ errands' = Preview(Client).errands
        BY <3>1 DEF PreviewSuggestion, OfferBecomes
      <4>2. Sound(Preview(Client).o, Preview(Client).errands)
        BY PreviewSound DEF OfferInv, Client
      <4>. QED  BY <4>1, <4>2
    <3>2. CASE ApplySuggestion
      BY <3>2, ApplyStep
    <3>3. CASE ApplyCommits
      BY <3>3, CommitStep
    <3>4. CASE ApplyRefused \/ ApplyFaults
      <4>1. PICK j \in Running : AnswersError(j)
        BY <3>4 DEF ApplyRefused, ApplyFaults
      <4>2. j \in errands
        BY DEF Running
      <4>. QED  BY <4>1, <4>2, ErrorStep
    <3>5. CASE SuggestionApplied
      BY <3>5, AppliedStep
    <3>6. CASE SuggestionPreviewed
      BY <3>6, PreviewedStep
    <3>7. CASE PreviewFailed
      <4>1. PICK j \in errands : OfferBecomes([o |-> Fails(offer, j), errands |-> errands \ {j}])
        BY <3>7 DEF PreviewFailed
      <4>2. offer' = Fails(offer, j) /\ errands' = errands \ {j}
        BY <4>1 DEF OfferBecomes
      <4>. QED  BY <4>2, FailsSound DEF OfferInv
    <3>8. CASE OfferEvent
      BY <3>8, EventStep
    <3>9. CASE OffersChange
      BY <3>9 DEF OffersChange, OfferInv
    <3>10. CASE OfferDisconnected \/ OfferDeadline \/ OfferReported
      BY <3>10, DroppedStep
    <3>11. CASE OfferReconnected
      BY <3>11, ReconnectedStep
    <3>12. CASE CloseOffer \/ ReopenOffer
      BY <3>12, OpenStep
    <3>. QED
      BY <1>1, <3>1, <3>2, <3>3, <3>4, <3>5, <3>6, <3>7, <3>8, <3>9, <3>10, <3>11, <3>12 DEF OfferNext
  <2>2. disk' \in Contents /\ receipts' \in Seq({"Applied", "Deleted"})
    BY <1>1, WorldStep
  <2>. QED  BY <2>1, <2>2 DEF OfferInv
<1>2. CASE UNCHANGED offerVars
  BY <1>2 DEF offerVars, OfferInv
<1>. QED  BY <1>1, <1>2

\* The invariant of the suggestion panel, for any menus of inputs, any number of
\* requests and lost connections.
THEOREM OfferInvariant == OfferSpec => []OfferInv
<1>1. OfferInv /\ [OfferNext]_offerVars => OfferInv'
  BY OfferStep
<1>. QED  BY OfferStart, <1>1, PTL DEF OfferSpec

\* SuggestionState::view shows Ready only after an inspection younger than every
\* application not answered yet, each of which was lost with its connection or
\* forgotten with the review, and a form that waits does so for a request of the live
\* connection, unless a report of the restart deadline was outrun.
THEOREM ReadyIsChecked == OfferSpec => []OfferIsChecked
<1>1. OfferInv => OfferIsChecked
  <2>. SUFFICES ASSUME OfferInv PROVE OfferIsChecked
    OBVIOUS
  <2>1. offer \in Offers
    BY DEF OfferInv, Sound, OfferTyped
  <2>2. ASSUME StatusOf(offer) = "Ready"
        PROVE  offer.stage = "Idle" /\ offer.inspection = "Original" /\ ~offer.applied
    <3>1. offer.stage \in Stages /\ offer.inspection \in Contents \cup {"None", "Rejected"}
      BY <2>1 DEF Offers
    <3>. QED  BY <2>2, <3>1 DEF StatusOf, Inspected, Stages, Contents
  <2>3. StatusOf(offer) = "Ready" =>
          /\ offer.cleared <= offer.request
          /\ \A j \in errands : j.kind = "Apply" =>
               j.id < offer.request /\ (j.orphan \/ j.id < offer.cleared)
    BY <2>2 DEF OfferInv, Sound, Older, Live
  <2>4. (HasRecord(offer) /\ offer.stage \in {"Checking", "Applying"} /\ ~offer.cut) =>
          offer.subscribed /\ \E j \in errands : j.id = offer.request /\ ~j.orphan
    BY DEF OfferInv, Sound, Waits
  <2>. QED  BY <2>3, <2>4 DEF OfferIsChecked
<1>. QED  BY <1>1, OfferInvariant, PTL

-----------------------------------------------------------------------------
(* The revision selector: the inductive invariant.                         *)

Selectors ==
  [repo : ReviewRepos \cup {NoRepo}, purpose : Purposes, id : Nat, current : Nat, query : Queries,
   catalog : Seq(Nat), options : Seq(Nat), selected : Nat,
   status : {"Closed", "Loading", "Ready", "Saving", "Error"}]
Browses == [repo : ReviewRepos \cup {NoRepo}, ref : Nat, id : Nat]
Attempts ==
  [repo : ReviewRepos \cup {NoRepo}, ref : Nat, id : Nat, state : {"None", "Loading", "Failed"}]
Picks ==
  [subscribed : BOOLEAN, draft : BOOLEAN, repo : ReviewRepos \cup {NoRepo}, next : Nat,
   pending : SUBSET Nat, targets : [ReviewRepos -> [Base : Nat, Head : Nat]], chosen : Nat,
   asked : Nat, lost : SUBSET Nat]
Calls ==
  [id : Nat, kind : {"ListRefs", "BrowseTree", "Update"}, repo : ReviewRepos, ref : Nat,
   side : Sides \cup {"None"}]

\* Requests the daemon has or had, and updates the client has yet to see.
Coming == calls \cup Range(feed)

SelectorTyped ==
  /\ selector \in Selectors /\ browse \in Browses /\ attempt \in Attempts /\ picks \in Picks
  /\ calls \in SUBSET Calls /\ feed \in Seq(Calls)
  /\ selector.status # "Closed" => selector.repo \in ReviewRepos

\* A number is given to one request, and what is left of a lost connection is updates.
OneEach ==
  /\ \A id \in picks.lost : id < picks.next
  /\ \A j \in calls : j.id \in picks.lost => j.kind = "Update"
  /\ \A j \in Coming : j.id < picks.next
  /\ \A i, j \in Coming : i.id = j.id => i = j
  /\ \A j \in Coming : j.kind = "Update" => j.side \in Sides
  /\ \A j \in Range(feed) : j.kind = "Update"

\* What each form waits for, with the repository it asked about.
ListsRefs(sel, cs) ==
  sel.status = "Loading" => \E j \in cs : j.kind = "ListRefs" /\ j.id = sel.id /\ j.repo = sel.repo
LoadsTree(a, cs, chosen) ==
  a.state = "Loading" =>
    /\ chosen = a.id
    /\ \E j \in cs : j.kind = "BrowseTree" /\ j.id = a.id /\ j.repo = a.repo
SavesBrowse(sel, a) ==
  (sel.status = "Saving" /\ sel.purpose = "Browse") => a.state = "Loading" /\ a.repo = sel.repo
SavesSide(sel, coming, p) ==
  (sel.status = "Saving" /\ sel.purpose # "Browse") =>
    p.asked \in p.pending /\ \E j \in coming : j.kind = "Update" /\ j.repo = sel.repo /\ j.id = p.asked
InList(sel) == sel.selected = 0 \/ sel.selected < Len(sel.options)

SelectorInv ==
  /\ SelectorTyped /\ OneEach
  /\ ListsRefs(selector, calls)
  /\ LoadsTree(attempt, calls, picks.chosen)
  /\ SavesBrowse(selector, attempt)
  /\ SavesSide(selector, Coming, picks)
  /\ InList(selector)

-----------------------------------------------------------------------------
(* The revision selector: what its functions return.                       *)

\* The places that are kept have different ranks, so every rank is some place's.
LEMMA EveryRank ==
  ASSUME NEW at \in SUBSET Nat, IsFiniteSet(at), NEW n \in 1..Cardinality(at)
  PROVE  \E i \in at : Cardinality({k \in at : k <= i}) = n
<1>. DEFINE c == Cardinality(at)
            upto(i) == {k \in at : k <= i}
            r == [i \in at |-> Cardinality(upto(i))]
<1>. SUFFICES ASSUME \A i \in at : Cardinality(upto(i)) # n PROVE FALSE
  OBVIOUS
<1>1. c \in Nat
  BY FS_CardinalityType
<1>2. ASSUME NEW i \in at
      PROVE  IsFiniteSet(upto(i)) /\ Cardinality(upto(i)) \in 1..c
  <2>1. upto(i) \in SUBSET at /\ i \in upto(i)
    OBVIOUS
  <2>2. IsFiniteSet(upto(i)) /\ Cardinality(upto(i)) <= c
    BY <2>1, FS_Subset
  <2>3. Cardinality(upto(i)) \in Nat /\ Cardinality(upto(i)) # 0
    BY <2>1, <2>2, FS_CardinalityType, FS_EmptySet
  <2>. QED  BY <1>1, <2>2, <2>3
<1>3. ASSUME NEW i \in at, NEW k \in at, i < k
      PROVE  r[i] # r[k]
  <2>0. \A m \in at : m \in Nat
    OBVIOUS
  <2>1. upto(i) \in SUBSET upto(k) /\ k \in upto(k) /\ k \notin upto(i)
    <3>1. \A m \in at : m <= i => m <= k
      BY <1>3, <2>0
    <3>2. k <= k /\ ~(k <= i)
      BY <1>3, <2>0
    <3>. QED  BY <3>1, <3>2
  <2>2. IsFiniteSet(upto(k))
    BY <1>2
  <2>3. Cardinality(upto(k)) # Cardinality(upto(i))
    BY <2>1, <2>2, FS_Subset
  <2>. QED  BY <2>3
<1>4. IsFiniteSet(1..c) /\ Cardinality(1..c) = c
  BY <1>1, FS_Interval
<1>5. IsFiniteSet((1..c) \ {n}) /\ Cardinality((1..c) \ {n}) = c - 1
  BY <1>4, FS_RemoveElement, ZenonT(30)
<1>6. r \in [at -> (1..c) \ {n}]
  BY <1>2
<1>7. c - 1 < c
  BY <1>1
<1>. HIDE DEF r, c, upto
<1>8. \E x, y \in at : x # y /\ r[x] = r[y]
  BY <1>5, <1>6, <1>7, FS_PigeonHole DEF c
<1>9. PICK x \in at, y \in at : x # y /\ r[x] = r[y]
  BY <1>8
<1>10. x < y \/ y < x
  BY <1>9
<1>. QED  BY <1>3, <1>9, <1>10

\* The refs that are kept are a sequence of refs of the catalog.
LEMMA KeepingTyped ==
  ASSUME NEW seq \in Seq(Nat), NEW set
  PROVE  Keeping(seq, set) \in Seq(Nat)
<1>. DEFINE at == {i \in DOMAIN seq : seq[i] \in set}
            c == Cardinality(at)
            place(n) == CHOOSE i \in at : Cardinality({k \in at : k <= i}) = n
<1>1. DOMAIN seq = 1..Len(seq) /\ Len(seq) \in Nat
  OBVIOUS
<1>2. IsFiniteSet(1..Len(seq)) /\ at \in SUBSET (1..Len(seq))
  BY <1>1, FS_Interval
<1>3. IsFiniteSet(at) /\ c \in Nat /\ at \in SUBSET Nat
  BY <1>2, FS_Subset, FS_CardinalityType
<1>4. ASSUME NEW n \in 1..c  PROVE seq[place(n)] \in Nat
  <2>1. \E i \in at : Cardinality({k \in at : k <= i}) = n
    BY <1>3, EveryRank
  <2>2. place(n) \in at
    BY <2>1
  <2>. HIDE DEF place
  <2>. QED  BY <2>2
<1>5. Keeping(seq, set) = [n \in 1..c |-> seq[place(n)]]
  BY DEF Keeping
<1>6. [n \in 1..c |-> seq[place(n)]] \in [1..c -> Nat]
  BY <1>4
<1>. HIDE DEF at, c, place
<1>. QED  BY <1>3, <1>5, <1>6

\* The options of a selector are refs.
LEMMA OptionsTyped ==
  ASSUME NEW sel \in Selectors
  PROVE  OptionsOf(sel) \in Seq(Nat)
<1>. DEFINE q == sel.query
            allowed == q.refs \ (IF sel.purpose = "Base" THEN {WorkingTree} ELSE {})
            matching == Keeping(sel.catalog, allowed)
            named == IF sel.purpose = "Browse" /\ q.name # NoRef /\ q.name \notin Range(matching)
                     THEN <<q.name>> ELSE <<>>
<1>1. q.name \in Nat /\ sel.catalog \in Seq(Nat)
  BY DEF Selectors, Queries
<1>2. matching \in Seq(Nat)
  BY <1>1, KeepingTyped
<1>3. <<q.name>> \in Seq(Nat) /\ <<>> \in Seq(Nat)
  BY <1>1
<1>4. OptionsOf(sel) = IF sel.purpose = "Browse" /\ q.kind = "literal" THEN <<q.name>>
                       ELSE IF sel.purpose = "Browse" /\ q.kind = "invalid" THEN <<>>
                       ELSE matching \o named
  BY DEF OptionsOf
<1>. HIDE DEF q, matching
<1>5. named \in Seq(Nat)
  BY <1>3
<1>. HIDE DEF named
<1>6. matching \o named \in Seq(Nat)
  BY <1>2, <1>5
<1>. QED  BY <1>3, <1>4, <1>6

\* A filter changes the options, and starts at the first of them.
LEMMA FilterDoes ==
  ASSUME NEW sel \in Selectors
  PROVE  /\ Filter(sel) \in Selectors /\ Filter(sel).selected = 0
         /\ Filter(sel).repo = sel.repo /\ Filter(sel).purpose = sel.purpose
         /\ Filter(sel).id = sel.id /\ Filter(sel).status = sel.status
<1>1. OptionsOf(sel) \in Seq(Nat) /\ 0 \in Nat
  BY OptionsTyped
<1>. QED  BY <1>1 DEF Filter, Selectors

\* A selector with its catalog is ready.
LEMMA InstallDoes ==
  ASSUME NEW sel \in Selectors, NEW refs \in Seq(Nat)
  PROVE  /\ InstallCatalog(sel, refs) \in Selectors /\ InstallCatalog(sel, refs).selected = 0
         /\ InstallCatalog(sel, refs).repo = sel.repo /\ InstallCatalog(sel, refs).status = "Ready"
<1>. DEFINE c == IF sel.current \in Range(refs) THEN refs ELSE <<sel.current>> \o refs
            s == [sel EXCEPT !.status = "Ready", !.catalog = c]
<1>1. sel.current \in Nat
  BY DEF Selectors
<1>2. <<sel.current>> \in Seq(Nat)
  BY <1>1
<1>3. <<sel.current>> \o refs \in Seq(Nat)
  BY <1>2
<1>4. c \in Seq(Nat)
  BY <1>3
<1>5. InstallCatalog(sel, refs) = Filter(s)
  BY DEF InstallCatalog
<1>. HIDE DEF c
<1>6. s \in Selectors /\ s.repo = sel.repo /\ s.status = "Ready"
  BY <1>4 DEF Selectors
<1>. HIDE DEF s
<1>. QED  BY <1>5, <1>6, FilterDoes

\* The selection moves within the options.
LEMMA StepDoes ==
  ASSUME NEW sel \in Selectors, NEW delta \in {-1, 1}
  PROVE  LET s == StepSelection(sel, delta) IN
         /\ s \in Selectors /\ InList(s)
         /\ s.repo = sel.repo /\ s.purpose = sel.purpose /\ s.id = sel.id /\ s.status = sel.status
<1>. DEFINE last == Len(sel.options) - 1
            at == IF sel.selected > last THEN last ELSE sel.selected
            moved == at + delta
            x == IF last < 0 THEN 0 ELSE IF moved < 0 THEN 0 ELSE IF moved > last THEN last ELSE moved
            s == StepSelection(sel, delta)
<1>1. Len(sel.options) \in Nat /\ sel.selected \in Nat
  BY DEF Selectors
<1>2. x \in Nat /\ (x = 0 \/ x < Len(sel.options))
  BY <1>1
<1>3. s = [sel EXCEPT !.selected = x]
  BY DEF StepSelection
<1>. HIDE DEF x
<1>4. /\ s \in Selectors /\ s.selected = x /\ s.options = sel.options
      /\ s.repo = sel.repo /\ s.purpose = sel.purpose /\ s.id = sel.id /\ s.status = sel.status
  BY <1>2, <1>3 DEF Selectors
<1>. HIDE DEF s
<1>5. InList(s)
  BY <1>2, <1>4 DEF InList
<1>. QED  BY <1>4, <1>5 DEF s

\* A selector that only its status changes in.
LEMMA StatusDoes ==
  ASSUME NEW sel \in Selectors, NEW x \in {"Closed", "Loading", "Ready", "Saving", "Error"},
         NEW s, s = [sel EXCEPT !.status = x]
  PROVE  /\ s \in Selectors /\ s.status = x /\ s.selected = sel.selected /\ s.options = sel.options
         /\ s.repo = sel.repo /\ s.purpose = sel.purpose /\ s.id = sel.id
BY DEF Selectors

\* The closed selector and the empty selections.
LEMMA NothingOpen ==
  /\ NoSelector \in Selectors /\ NoSelector.status = "Closed" /\ NoSelector.selected = 0
  /\ NoBrowse \in Browses
  /\ NoAttempt \in Attempts /\ NoAttempt.state = "None"
<1>1. 0..9 \in SUBSET Nat /\ 0 \in Nat
  OBVIOUS
<1>2. Everything \in Queries
  BY <1>1 DEF Everything, Queries, NoRef
<1>3. "Browse" \in Purposes /\ <<>> \in Seq(Nat)
  BY DEF Purposes
<1>4. NoSelector \in Selectors /\ NoSelector.status = "Closed" /\ NoSelector.selected = 0
  BY <1>1, <1>2, <1>3 DEF NoSelector, Selectors, NoRepo, NoRef
<1>5. NoBrowse \in Browses /\ NoAttempt \in Attempts /\ NoAttempt.state = "None"
  BY <1>1 DEF NoBrowse, NoAttempt, Browses, Attempts, NoRepo, NoRef
<1>. QED  BY <1>4, <1>5

-----------------------------------------------------------------------------
(* The revision selector: its steps.                                       *)

\* A step that asks for nothing keeps the numbers of the requests.
LEMMA FewerCalls ==
  ASSUME SelectorInv,
         selector' \in Selectors, browse' \in Browses, attempt' \in Attempts, picks' \in Picks,
         selector'.status # "Closed" => selector'.repo \in ReviewRepos,
         calls' \in SUBSET calls, feed' = feed, picks'.next = picks.next,
         \/ picks'.lost = picks.lost
         \/ picks'.lost = picks.lost \cup {j.id : j \in calls} /\ \A j \in calls' : j.kind = "Update"
  PROVE  SelectorTyped' /\ OneEach'
<1>1. SelectorTyped /\ OneEach
  BY DEF SelectorInv
<1>2. Coming' \in SUBSET Coming /\ Range(feed)' = Range(feed)
  BY DEF Coming
<1>3. SelectorTyped'
  BY <1>1 DEF SelectorTyped
<1>4. OneEach'
  <2>1. \A id \in picks'.lost : id < picks'.next
    BY <1>1 DEF OneEach, Coming
  <2>2. \A j \in calls' : j.id \in picks'.lost => j.kind = "Update"
    BY <1>1 DEF OneEach
  <2>. QED  BY <1>1, <1>2, <2>1, <2>2 DEF OneEach
<1>. QED  BY <1>3, <1>4

\* A request of a new number.
LEMMA OneMoreCall ==
  ASSUME SelectorInv, NEW c \in Calls, c.id = picks.next, c.kind = "Update" => c.side \in Sides,
         selector' \in Selectors, browse' \in Browses, attempt' \in Attempts, picks' \in Picks,
         selector'.status # "Closed" => selector'.repo \in ReviewRepos,
         calls' = calls \cup {c}, feed' = feed, picks'.next = picks.next + 1, picks'.lost = picks.lost
  PROVE  SelectorTyped' /\ OneEach' /\ Coming' = Coming \cup {c} /\ c \notin Coming
<1>1. SelectorTyped /\ OneEach /\ picks.next \in Nat
  BY DEF SelectorInv, SelectorTyped, Picks
<1>2. Coming' = Coming \cup {c} /\ Range(feed)' = Range(feed)
  BY DEF Coming
<1>3. SelectorTyped'
  BY <1>1 DEF SelectorTyped
<1>4. \A j \in Coming : j \in Calls
  <2>1. \A j \in Range(feed) : j \in Calls
    BY <1>1 DEF SelectorTyped, Range
  <2>. QED  BY <1>1, <2>1 DEF Coming, SelectorTyped
<1>5. \A j \in Coming : j.id \in Nat /\ j.id < picks.next
  BY <1>1, <1>4 DEF OneEach, Calls
<1>6. OneEach'
  <2>1. picks'.lost \in SUBSET Nat /\ \A id \in picks'.lost : id < picks.next
    BY <1>1 DEF OneEach, SelectorTyped, Picks
  <2>2. \A id \in picks'.lost : id < picks'.next
    BY <1>1, <2>1
  <2>3. \A j \in calls' : j.id \in picks'.lost => j.kind = "Update"
    BY <1>1, <2>1 DEF OneEach
  <2>. QED  BY <1>1, <1>2, <1>5, <2>2, <2>3 DEF OneEach
<1>7. c \notin Coming
  BY <1>1, <1>5
<1>. QED  BY <1>2, <1>3, <1>6, <1>7

\* What one value of the state is after a step that leaves it alone.
LEMMA SelectorParts ==
  ASSUME SelectorInv
  PROVE  /\ selector \in Selectors /\ browse \in Browses /\ attempt \in Attempts /\ picks \in Picks
         /\ calls \in SUBSET Calls /\ feed \in Seq(Calls)
         /\ selector.status # "Closed" => selector.repo \in ReviewRepos
         /\ picks.next \in Nat /\ picks.next + 1 \in Nat /\ picks.pending \in SUBSET Nat
         /\ \A j \in calls : j \in Coming
BY DEF SelectorInv, SelectorTyped, Picks, Coming

\* The selector is opened and asks for its catalog.
LEMMA OpenSelectorStep ==
  ASSUME SelectorInv, OpenRefSelector
  PROVE  SelectorInv'
<1>1. PICK repo \in ReviewRepos, purpose \in Purposes :
       /\ selector' = [NoSelector EXCEPT !.repo = repo, !.purpose = purpose, !.id = picks.next,
                                         !.current = CurrentOf(repo, purpose), !.status = "Loading"]
       /\ attempt' = IF purpose = "Browse" THEN NoAttempt ELSE attempt
       /\ picks' = [picks EXCEPT !.next = @ + 1, !.repo = IF purpose = "Browse" THEN repo ELSE @]
       /\ calls' = calls \cup {Call(picks.next, "ListRefs", repo, NoRef, "None")}
  BY DEF OpenRefSelector
<1>2. browse' = browse /\ feed' = feed
  BY DEF OpenRefSelector
<1>. DEFINE c == Call(picks.next, "ListRefs", repo, NoRef, "None")
<1>3. c \in Calls /\ c.id = picks.next /\ c.kind = "ListRefs" /\ c.repo = repo
  BY SelectorParts DEF Call, Calls, NoRef
<1>. HIDE DEF c
<1>4. CurrentOf(repo, purpose) \in Nat
  <2>1. picks.targets[repo] \in [Base : Nat, Head : Nat]
    BY SelectorParts DEF Picks
  <2>2. browse.ref \in Nat
    BY SelectorParts DEF Browses
  <2>3. CASE purpose = "Base"
    BY <2>1, <2>3 DEF CurrentOf, Sides
  <2>4. CASE purpose = "Head"
    BY <2>1, <2>4 DEF CurrentOf, Sides
  <2>5. CASE purpose = "Browse"
    BY <2>1, <2>2, <2>5 DEF CurrentOf, Sides
  <2>. QED  BY <2>3, <2>4, <2>5 DEF Purposes, Sides
<1>5. /\ selector' \in Selectors /\ selector'.repo = repo /\ selector'.id = picks.next
      /\ selector'.selected = 0 /\ selector'.status = "Loading"
  BY <1>1, <1>4, NothingOpen, SelectorParts DEF Selectors
<1>6. attempt' \in Attempts /\ (attempt' = attempt \/ attempt' = NoAttempt)
  BY <1>1, NothingOpen, SelectorParts
<1>7. /\ picks' \in Picks /\ picks'.next = picks.next + 1 /\ picks'.chosen = picks.chosen /\ picks'.lost = picks.lost
  <2>1. (IF purpose = "Browse" THEN repo ELSE picks.repo) \in ReviewRepos \cup {NoRepo}
    BY SelectorParts DEF Picks
  <2>. QED  BY <1>1, <2>1, SelectorParts DEF Picks
<1>8. calls' = calls \cup {c}
  BY <1>1 DEF c
<1>9. SelectorTyped' /\ OneEach'
  BY <1>2, <1>3, <1>5, <1>6, <1>7, <1>8, SelectorParts, OneMoreCall
<1>10. ListsRefs(selector', calls')
  BY <1>3, <1>5, <1>8 DEF ListsRefs
<1>11. LoadsTree(attempt', calls', picks'.chosen)
  BY <1>6, <1>7, <1>8, NothingOpen DEF SelectorInv, LoadsTree
<1>12. SavesBrowse(selector', attempt') /\ InList(selector')
  BY <1>5 DEF SavesBrowse, InList
<1>13. SavesSide(selector', Coming', picks')
  BY <1>5 DEF SavesSide
<1>. QED  BY <1>9, <1>10, <1>11, <1>12, <1>13 DEF SelectorInv

\* The query or the selection changes.
LEMMA MovesStep ==
  ASSUME SelectorInv, RefSelectorQuery \/ RefSelectorStep
  PROVE  SelectorInv'
<1>1. browse' = browse /\ attempt' = attempt /\ picks' = picks /\ calls' = calls /\ feed' = feed
  BY DEF RefSelectorQuery, RefSelectorStep
<1>2. /\ selector' \in Selectors /\ InList(selector')
      /\ selector'.repo = selector.repo /\ selector'.purpose = selector.purpose
      /\ selector'.id = selector.id /\ selector'.status = selector.status
  <2>1. CASE RefSelectorQuery
    <3>1. PICK q \in RefQueries : selector' = Filter([selector EXCEPT !.query = q])
      BY <2>1 DEF RefSelectorQuery
    <3>2. q \in Queries
      BY SelectorAssumption
    <3>. DEFINE s == [selector EXCEPT !.query = q]
    <3>3. /\ s \in Selectors /\ s.repo = selector.repo /\ s.purpose = selector.purpose
          /\ s.id = selector.id /\ s.status = selector.status
      BY <3>2, SelectorParts DEF Selectors
    <3>4. selector' = Filter(s)
      BY <3>1
    <3>. HIDE DEF s
    <3>. QED  BY <3>3, <3>4, FilterDoes DEF InList
  <2>2. CASE RefSelectorStep
    <3>1. PICK delta \in {-1, 1} : selector' = StepSelection(selector, delta)
      BY <2>2 DEF RefSelectorStep
    <3>. QED  BY <3>1, SelectorParts, StepDoes
  <2>. QED  BY <2>1, <2>2
<1>3. SelectorTyped' /\ OneEach'
  BY <1>1, <1>2, SelectorParts, FewerCalls
<1>4. Coming' = Coming
  BY <1>1 DEF Coming
<1>5. ListsRefs(selector', calls') /\ LoadsTree(attempt', calls', picks'.chosen)
  BY <1>1, <1>2 DEF SelectorInv, ListsRefs
<1>6. SavesBrowse(selector', attempt') /\ SavesSide(selector', Coming', picks')
  BY <1>1, <1>2, <1>4 DEF SelectorInv, SavesBrowse, SavesSide
<1>. QED  BY <1>2, <1>3, <1>5, <1>6 DEF SelectorInv

\* set_browse_ref: a candidate is asked for, whatever the selector becomes as long
\* as it keeps waiting for what it waited for.
LEMMA AsksStep ==
  ASSUME SelectorInv, NEW repo \in ReviewRepos, NEW ref \in Nat, AsksForTree(repo, ref),
         browse' = browse, feed' = feed,
         selector' \in Selectors, InList(selector'),
         selector'.status # "Closed" => selector'.repo \in ReviewRepos,
         \/ selector' = selector /\ ~IsBrowse(selector)
         \/ selector'.status = "Saving" /\ selector'.purpose = "Browse" /\ selector'.repo = repo
  PROVE  SelectorInv'
<1>. DEFINE c == Call(picks.next, "BrowseTree", repo, ref, "None")
<1>1. c \in Calls /\ c.id = picks.next /\ c.kind = "BrowseTree" /\ c.repo = repo
  BY SelectorParts DEF Call, Calls
<1>. HIDE DEF c
<1>2. /\ attempt' = [repo |-> repo, ref |-> ref, id |-> picks.next, state |-> "Loading"]
      /\ picks' = [picks EXCEPT !.next = @ + 1, !.repo = repo, !.chosen = picks.next]
      /\ calls' = calls \cup {c}
  BY DEF AsksForTree, c
<1>3. /\ attempt' \in Attempts /\ attempt'.state = "Loading" /\ attempt'.repo = repo
      /\ attempt'.id = picks.next
  BY <1>2, SelectorParts DEF Attempts
<1>4. /\ picks' \in Picks /\ picks'.next = picks.next + 1 /\ picks'.chosen = picks.next /\ picks'.lost = picks.lost
      /\ picks'.pending = picks.pending /\ picks'.asked = picks.asked
  BY <1>2, SelectorParts DEF Picks
<1>5. SelectorTyped' /\ OneEach' /\ Coming' = Coming \cup {c}
  BY <1>1, <1>2, <1>3, <1>4, SelectorParts, OneMoreCall
<1>6. ListsRefs(selector', calls')
  BY <1>2 DEF SelectorInv, ListsRefs
<1>7. LoadsTree(attempt', calls', picks'.chosen)
  BY <1>1, <1>2, <1>3, <1>4 DEF LoadsTree
<1>8. SavesBrowse(selector', attempt')
  BY <1>3 DEF SavesBrowse, IsBrowse
<1>9. SavesSide(selector', Coming', picks')
  BY <1>4, <1>5 DEF SelectorInv, SavesSide
<1>. QED  BY <1>5, <1>6, <1>7, <1>8, <1>9 DEF SelectorInv

\* A revision is chosen in the selector.
LEMMA SelectStep ==
  ASSUME SelectorInv, SelectRef
  PROVE  SelectorInv'
<1>1. PICK index \in 0..(Len(selector.options) - 1) :
       LET ref == SelectionAt(selector, index) IN
       /\ ref # NoRef
       /\ selector' = [selector EXCEPT !.selected = index, !.status = "Saving"]
       /\ IF selector.purpose = "Browse" THEN AsksForTree(selector.repo, ref)
          ELSE LET call == Call(picks.next, "Update", selector.repo, ref, selector.purpose)
               IN /\ picks.subscribed
                  /\ picks' = [picks EXCEPT !.next = @ + 1, !.pending = @ \cup {call.id}, !.asked = call.id]
                  /\ calls' = calls \cup {call} /\ UNCHANGED attempt
  BY DEF SelectRef
<1>. DEFINE ref == SelectionAt(selector, index)
<1>2. browse' = browse /\ feed' = feed /\ selector.status # "Closed"
  BY DEF SelectRef
<1>3. /\ selector.options \in Seq(Nat) /\ Len(selector.options) \in Nat
      /\ selector.repo \in ReviewRepos /\ selector.purpose \in Purposes
  BY <1>2, SelectorParts DEF Selectors
<1>4. index \in Nat /\ index < Len(selector.options) /\ index + 1 \in 1..Len(selector.options)
  BY <1>3
<1>5. ref \in Nat
  <2>1. selector.options[index + 1] \in Nat
    BY <1>3, <1>4
  <2>. QED  BY <2>1 DEF SelectionAt, NoRef
<1>6. /\ selector' \in Selectors /\ selector'.selected = index /\ selector'.status = "Saving"
      /\ selector'.options = selector.options /\ selector'.repo = selector.repo
      /\ selector'.purpose = selector.purpose
  BY <1>1, <1>4, SelectorParts DEF Selectors
<1>7. InList(selector')
  BY <1>4, <1>6 DEF InList
<1>. HIDE DEF ref
<1>8. CASE selector.purpose = "Browse"
  <2>1. AsksForTree(selector.repo, ref)
    BY <1>1, <1>8 DEF ref
  <2>. QED  BY <1>2, <1>3, <1>5, <1>6, <1>7, <1>8, <2>1, AsksStep
<1>9. CASE selector.purpose # "Browse"
  <2>. DEFINE c == Call(picks.next, "Update", selector.repo, ref, selector.purpose)
  <2>1. /\ picks' = [picks EXCEPT !.next = @ + 1, !.pending = @ \cup {c.id}, !.asked = c.id]
        /\ calls' = calls \cup {c} /\ attempt' = attempt
    BY <1>1, <1>9 DEF ref
  <2>2. selector.purpose \in Sides
    BY <1>3, <1>9 DEF Purposes
  <2>3. /\ c \in Calls /\ c.id = picks.next /\ c.kind = "Update" /\ c.repo = selector.repo
        /\ c.side \in Sides
    BY <1>3, <1>5, <2>2, SelectorParts DEF Call, Calls
  <2>. HIDE DEF c
  <2>4. picks.pending \cup {c.id} \in SUBSET Nat /\ c.id \in Nat
    BY <2>3, SelectorParts
  <2>5. /\ picks' \in Picks /\ picks'.next = picks.next + 1 /\ picks'.chosen = picks.chosen /\ picks'.lost = picks.lost
        /\ picks'.pending = picks.pending \cup {c.id} /\ picks'.asked = c.id
    BY <2>1, <2>4, SelectorParts DEF Picks
  <2>6. SelectorTyped' /\ OneEach' /\ Coming' = Coming \cup {c}
    BY <1>2, <1>3, <1>6, <2>1, <2>3, <2>5, SelectorParts, OneMoreCall
  <2>7. ListsRefs(selector', calls') /\ SavesBrowse(selector', attempt')
    BY <1>6, <1>9 DEF ListsRefs, SavesBrowse
  <2>8. LoadsTree(attempt', calls', picks'.chosen)
    BY <2>1, <2>5 DEF SelectorInv, LoadsTree
  <2>9. SavesSide(selector', Coming', picks')
    BY <1>6, <2>3, <2>5, <2>6 DEF SavesSide
  <2>. QED  BY <1>7, <2>6, <2>7, <2>8, <2>9 DEF SelectorInv
<1>. QED  BY <1>8, <1>9

\* A revision is set without the selector.
LEMMA SetBrowseStep ==
  ASSUME SelectorInv, SetBrowseRef
  PROVE  SelectorInv'
<1>1. PICK repo \in ReviewRepos : \E ref \in Range(Catalog[repo]) : AsksForTree(repo, ref)
  BY DEF SetBrowseRef
<1>2. PICK ref \in Range(Catalog[repo]) : AsksForTree(repo, ref)
  BY <1>1
<1>3. Catalog[repo] \in Seq(Nat)
  BY SelectorAssumption
<1>4. ref \in Nat
  BY <1>2, <1>3 DEF Range
<1>5. selector' = selector /\ browse' = browse /\ feed' = feed /\ ~IsBrowse(selector)
  BY DEF SetBrowseRef
<1>6. /\ selector' \in Selectors /\ InList(selector')
      /\ selector'.status # "Closed" => selector'.repo \in ReviewRepos
  BY <1>5, SelectorParts DEF SelectorInv
<1>7. repo \in ReviewRepos
  OBVIOUS
<1>. QED  BY <1>2, <1>4, <1>5, <1>6, <1>7, AsksStep

\* Forms are closed, and the rest of the client changes in what they do not read.
LEMMA ClosesForms ==
  ASSUME SelectorInv, calls' = calls, feed' = feed, browse' \in Browses,
         picks' \in Picks, picks'.next = picks.next, picks'.chosen = picks.chosen, picks'.lost = picks.lost,
         \/ selector' = NoSelector /\ attempt' \in {attempt, NoAttempt}
         \/ /\ selector' = selector /\ picks'.pending = picks.pending /\ picks'.asked = picks.asked
            /\ attempt' = attempt \/ (attempt' = NoAttempt /\ ~IsBrowse(selector))
  PROVE  SelectorInv'
<1>1. /\ selector' \in Selectors /\ attempt' \in Attempts
      /\ selector'.status # "Closed" => selector'.repo \in ReviewRepos
  BY SelectorParts, NothingOpen
<1>2. SelectorTyped' /\ OneEach'
  BY <1>1, FewerCalls
<1>3. Coming' = Coming
  BY DEF Coming
<1>4. ListsRefs(selector', calls') /\ InList(selector')
  BY NothingOpen DEF SelectorInv, ListsRefs, InList
<1>5. LoadsTree(attempt', calls', picks'.chosen)
  BY NothingOpen DEF SelectorInv, LoadsTree
<1>6. SavesBrowse(selector', attempt')
  <2>1. CASE selector' = NoSelector
    BY <2>1, NothingOpen DEF SavesBrowse
  <2>2. CASE selector' = selector /\ attempt' = attempt
    BY <2>2 DEF SelectorInv
  <2>3. CASE selector' = selector /\ ~IsBrowse(selector)
    BY <2>3 DEF SavesBrowse, IsBrowse
  <2>. QED  BY <2>1, <2>2, <2>3
<1>7. SavesSide(selector', Coming', picks')
  BY <1>3, NothingOpen DEF SelectorInv, SavesSide
<1>. QED  BY <1>2, <1>4, <1>5, <1>6, <1>7 DEF SelectorInv

\* The user closes forms or the review, begins or ends a draft, or the connection
\* is back.
LEMMA CloseSteps ==
  ASSUME SelectorInv,
         \/ CloseRefSelector \/ SelectBrowseRepo \/ ResetBrowse \/ DraftToggled
         \/ ReviewClosedAndOpened \/ PeerBack
  PROVE  SelectorInv'
<1>1. CASE CloseRefSelector
  <2>1. /\ selector' = NoSelector /\ attempt' \in {attempt, NoAttempt}
        /\ browse' = browse /\ picks' = picks /\ calls' = calls /\ feed' = feed
    BY <1>1 DEF CloseRefSelector
  <2>. QED  BY <2>1, SelectorParts, ClosesForms
<1>2. CASE SelectBrowseRepo
  <2>1. PICK repo \in ReviewRepos : picks' = [picks EXCEPT !.repo = repo]
    BY <1>2 DEF SelectBrowseRepo
  <2>2. /\ picks' \in Picks /\ picks'.next = picks.next /\ picks'.chosen = picks.chosen /\ picks'.lost = picks.lost
        /\ picks'.pending = picks.pending /\ picks'.asked = picks.asked
    BY <2>1, SelectorParts DEF Picks
  <2>3. /\ (selector' = NoSelector) \/ (selector' = selector /\ ~IsBrowse(selector))
        /\ attempt' = NoAttempt /\ browse' = browse /\ calls' = calls /\ feed' = feed
    BY <1>2 DEF SelectBrowseRepo, CloseBrowseSelector
  <2>. QED  BY <2>2, <2>3, SelectorParts, ClosesForms
<1>3. CASE ResetBrowse
  <2>1. /\ (selector' = NoSelector) \/ (selector' = selector /\ ~IsBrowse(selector))
        /\ attempt' = NoAttempt /\ browse' = NoBrowse /\ picks' = picks /\ calls' = calls /\ feed' = feed
    BY <1>3 DEF ResetBrowse, CloseBrowseSelector
  <2>. QED  BY <2>1, SelectorParts, NothingOpen, ClosesForms
<1>4. CASE DraftToggled
  <2>1. picks.draft \in BOOLEAN
    BY SelectorParts DEF Picks
  <2>2. picks' = [picks EXCEPT !.draft = ~picks.draft] /\ (~picks.draft) \in BOOLEAN
    BY <1>4, <2>1 DEF DraftToggled
  <2>3. /\ picks' \in Picks /\ picks'.next = picks.next /\ picks'.chosen = picks.chosen /\ picks'.lost = picks.lost
        /\ picks'.pending = picks.pending /\ picks'.asked = picks.asked
    BY <2>2, SelectorParts DEF Picks
  <2>4. UNCHANGED <<selector, browse, attempt, calls, feed>>
    BY <1>4 DEF DraftToggled
  <2>. QED  BY <2>3, <2>4, SelectorParts, ClosesForms
<1>5. CASE ReviewClosedAndOpened
  <2>1. picks' = [picks EXCEPT !.pending = {}, !.draft = FALSE, !.repo = NoRepo]
    BY <1>5 DEF ReviewClosedAndOpened
  <2>2. picks' \in Picks /\ picks'.next = picks.next /\ picks'.chosen = picks.chosen /\ picks'.lost = picks.lost
    BY <2>1, SelectorParts DEF Picks
  <2>3. /\ selector' = NoSelector /\ browse' = NoBrowse /\ attempt' = NoAttempt
        /\ calls' = calls /\ feed' = feed
    BY <1>5 DEF ReviewClosedAndOpened
  <2>. QED  BY <2>2, <2>3, NothingOpen, ClosesForms
<1>6. CASE PeerBack
  <2>1. picks' = [picks EXCEPT !.subscribed = TRUE]
    BY <1>6 DEF PeerBack
  <2>2. /\ picks' \in Picks /\ picks'.next = picks.next /\ picks'.chosen = picks.chosen /\ picks'.lost = picks.lost
        /\ picks'.pending = picks.pending /\ picks'.asked = picks.asked
    BY <2>1, SelectorParts DEF Picks
  <2>3. UNCHANGED <<selector, browse, attempt, calls, feed>>
    BY <1>6 DEF PeerBack
  <2>. QED  BY <2>2, <2>3, SelectorParts, ClosesForms
<1>. QED  BY <1>1, <1>2, <1>3, <1>4, <1>5, <1>6

\* An answer or an error takes a request away: whoever waited for it does so no
\* longer, and the others go on waiting.
LEMMA AnswerParts ==
  ASSUME SelectorInv, NEW j \in calls, calls' = calls \ {j}, feed' = feed,
         selector' \in Selectors, browse' \in Browses, attempt' \in Attempts, picks' \in Picks,
         InList(selector'),
         selector'.status # "Closed" => selector'.repo \in ReviewRepos,
         picks'.next = picks.next, picks'.chosen = picks.chosen, picks'.lost = picks.lost,
         selector'.status \in {"Closed", "Ready", "Error"} \/ selector' = selector,
         selector'.status = "Loading" => ~(j.kind = "ListRefs" /\ j.id = selector.id /\ j.repo = selector.repo),
         attempt'.state = "Loading" =>
            attempt' = attempt /\ ~(j.kind = "BrowseTree" /\ j.id = attempt.id /\ j.repo = attempt.repo),
         SavesBrowse(selector', attempt'),
         (selector'.status = "Saving" /\ selector'.purpose # "Browse") =>
            /\ picks'.asked = picks.asked
            /\ picks.asked \in picks.pending =>
                 picks'.pending = picks.pending /\ ~(j.kind = "Update" /\ j.id = picks.asked)
  PROVE  SelectorInv'
<1>1. SelectorTyped' /\ OneEach'
  BY FewerCalls
<1>2. Coming \ {j} \in SUBSET Coming'
  BY DEF Coming
<1>3. ListsRefs(selector', calls')
  <2>. SUFFICES ASSUME selector'.status = "Loading"
                PROVE  \E i \in calls' : i.kind = "ListRefs" /\ i.id = selector'.id /\ i.repo = selector'.repo
    BY DEF ListsRefs
  <2>1. selector' = selector
    OBVIOUS
  <2>2. PICK i \in calls : i.kind = "ListRefs" /\ i.id = selector.id /\ i.repo = selector.repo
    BY <2>1 DEF SelectorInv, ListsRefs
  <2>. QED  BY <2>1, <2>2
<1>4. LoadsTree(attempt', calls', picks'.chosen)
  <2>. SUFFICES ASSUME attempt'.state = "Loading"
                PROVE  /\ picks'.chosen = attempt'.id
                       /\ \E i \in calls' : i.kind = "BrowseTree" /\ i.id = attempt'.id /\ i.repo = attempt'.repo
    BY DEF LoadsTree
  <2>1. attempt' = attempt
    OBVIOUS
  <2>2. /\ picks.chosen = attempt.id
        /\ \E i \in calls : i.kind = "BrowseTree" /\ i.id = attempt.id /\ i.repo = attempt.repo
    BY <2>1 DEF SelectorInv, LoadsTree
  <2>. QED  BY <2>1, <2>2
<1>5. SavesSide(selector', Coming', picks')
  <2>. SUFFICES ASSUME selector'.status = "Saving", selector'.purpose # "Browse"
                PROVE  /\ picks'.asked \in picks'.pending
                       /\ \E i \in Coming' : /\ i.kind = "Update" /\ i.repo = selector'.repo
                                             /\ i.id = picks'.asked
    BY DEF SavesSide
  <2>1. selector' = selector /\ picks'.asked = picks.asked
    OBVIOUS
  <2>2. PICK i \in Coming : /\ i.kind = "Update" /\ i.repo = selector.repo /\ i.id = picks.asked
                            /\ picks.asked \in picks.pending
    BY <2>1 DEF SelectorInv, SavesSide
  <2>3. picks'.pending = picks.pending /\ i # j
    BY <2>2
  <2>. QED  BY <1>2, <2>1, <2>2, <2>3
<1>. QED  BY <1>1, <1>3, <1>4, <1>5 DEF SelectorInv

\* The catalog arrives.
LEMMA RefsStep ==
  ASSUME SelectorInv, RefsAnswer
  PROVE  SelectorInv'
<1>1. PICK j \in calls :
       /\ j.kind = "ListRefs" /\ calls' = calls \ {j}
       /\ selector' = IF MatchesRequest(selector, j) THEN InstallCatalog(selector, Catalog[j.repo])
                      ELSE selector
  BY DEF RefsAnswer
<1>2. browse' = browse /\ attempt' = attempt /\ picks' = picks /\ feed' = feed
  BY DEF RefsAnswer
<1>3. j \in Calls /\ j.repo \in ReviewRepos
  BY SelectorParts DEF Calls
<1>4. Catalog[j.repo] \in Seq(Nat)
  BY <1>3, SelectorAssumption
<1>5. SavesBrowse(selector, attempt) /\ InList(selector)
  BY DEF SelectorInv
<1>6. CASE MatchesRequest(selector, j)
  <2>1. /\ selector' \in Selectors /\ selector'.selected = 0
        /\ selector'.repo = selector.repo /\ selector'.status = "Ready"
    BY <1>1, <1>4, <1>6, SelectorParts, InstallDoes
  <2>2. selector.status # "Closed"
    BY <1>6 DEF MatchesRequest
  <2>3. SavesBrowse(selector', attempt') /\ InList(selector')
    BY <2>1 DEF SavesBrowse, InList
  <2>. QED  BY <1>1, <1>2, <2>1, <2>2, <2>3, SelectorParts, AnswerParts
<1>7. CASE ~MatchesRequest(selector, j)
  <2>1. selector' = selector
    BY <1>1, <1>7
  <2>2. selector.status = "Loading" => ~(j.id = selector.id /\ j.repo = selector.repo)
    BY <1>7 DEF MatchesRequest
  <2>. QED  BY <1>1, <1>2, <1>5, <2>1, <2>2, SelectorParts, AnswerParts
<1>. QED  BY <1>6, <1>7

\* The tree of the candidate arrives: the candidate is shown, or a draft is under way.
LEMMA BrowseStepKept ==
  ASSUME SelectorInv, BrowseAnswer
  PROVE  SelectorInv'
<1>1. PICK j \in calls :
       /\ j.kind = "BrowseTree" /\ calls' = calls \ {j}
       /\ IF ~AnswersAttempt(j) THEN UNCHANGED <<selector, browse, attempt>>
          ELSE IF picks.draft
          THEN /\ attempt' = [attempt EXCEPT !.state = "Failed"]
               /\ selector' = IF IsBrowse(selector) THEN [selector EXCEPT !.status = "Error"] ELSE selector
               /\ UNCHANGED browse
          ELSE /\ browse' = [repo |-> j.repo, ref |-> j.ref, id |-> j.id]
               /\ attempt' = NoAttempt
               /\ selector' = IF IsBrowse(selector) /\ selector.repo = j.repo THEN NoSelector ELSE selector
  BY DEF BrowseAnswer
<1>2. picks' = picks /\ feed' = feed
  BY DEF BrowseAnswer
<1>3. j \in Calls
  BY SelectorParts
<1>4. SavesBrowse(selector, attempt) /\ InList(selector)
  BY DEF SelectorInv
<1>5. CASE ~AnswersAttempt(j)
  <2>1. UNCHANGED <<selector, browse, attempt>>
    BY <1>1, <1>5
  <2>2. attempt.state = "Loading" => ~(j.id = attempt.id /\ j.repo = attempt.repo)
    BY <1>5 DEF AnswersAttempt
  <2>. QED  BY <1>1, <1>2, <1>4, <2>1, <2>2, SelectorParts, AnswerParts
<1>6. CASE AnswersAttempt(j) /\ picks.draft
  <2>1. /\ attempt' = [attempt EXCEPT !.state = "Failed"] /\ browse' = browse
        /\ selector' = IF IsBrowse(selector) THEN [selector EXCEPT !.status = "Error"] ELSE selector
    BY <1>1, <1>6
  <2>2. attempt' \in Attempts /\ attempt'.state = "Failed"
    BY <2>1, SelectorParts DEF Attempts
  <2>3. CASE IsBrowse(selector)
    <3>1. /\ selector' \in Selectors /\ selector'.status = "Error"
          /\ selector'.selected = selector.selected /\ selector'.options = selector.options
          /\ selector'.repo = selector.repo
      BY <2>1, <2>3, SelectorParts, StatusDoes
    <3>2. SavesBrowse(selector', attempt') /\ InList(selector')
      BY <1>4, <3>1 DEF SavesBrowse, InList
    <3>3. selector'.repo \in ReviewRepos
      BY <2>3, <3>1, SelectorParts DEF IsBrowse
    <3>. QED  BY <1>1, <1>2, <2>1, <2>2, <3>1, <3>2, <3>3, SelectorParts, AnswerParts
  <2>4. CASE ~IsBrowse(selector)
    <3>1. selector' = selector
      BY <2>1, <2>4
    <3>2. SavesBrowse(selector', attempt')
      BY <2>4, <3>1 DEF SavesBrowse, IsBrowse
    <3>. QED  BY <1>1, <1>2, <1>4, <2>1, <2>2, <3>1, <3>2, SelectorParts, AnswerParts
  <2>. QED  BY <2>3, <2>4
<1>7. CASE AnswersAttempt(j) /\ ~picks.draft
  <2>1. /\ attempt' = NoAttempt /\ browse' = [repo |-> j.repo, ref |-> j.ref, id |-> j.id]
        /\ selector' = IF IsBrowse(selector) /\ selector.repo = j.repo THEN NoSelector ELSE selector
    BY <1>1, <1>7
  <2>2. browse' \in Browses
    BY <1>3, <2>1 DEF Calls, Browses
  <2>3. CASE IsBrowse(selector) /\ selector.repo = j.repo
    <3>1. selector' = NoSelector
      BY <2>1, <2>3
    <3>2. SavesBrowse(selector', attempt') /\ InList(selector')
      BY <3>1, NothingOpen DEF SavesBrowse, InList
    <3>. QED  BY <1>1, <1>2, <2>1, <2>2, <3>1, <3>2, NothingOpen, SelectorParts, AnswerParts
  <2>4. CASE ~(IsBrowse(selector) /\ selector.repo = j.repo)
    <3>1. selector' = selector
      BY <2>1, <2>4
    <3>2. attempt.repo = j.repo
      BY <1>7 DEF AnswersAttempt
    <3>3. SavesBrowse(selector', attempt')
      BY <1>4, <2>4, <3>1, <3>2 DEF SavesBrowse, IsBrowse
    <3>. QED  BY <1>1, <1>2, <1>4, <2>1, <2>2, <3>1, <3>3, NothingOpen, SelectorParts, AnswerParts
  <2>. QED  BY <2>3, <2>4
<1>. QED  BY <1>5, <1>6, <1>7

\* An error answers the catalog, the candidate or the target update.
LEMMA SelectorErrorStep ==
  ASSUME SelectorInv, SelectorError
  PROVE  SelectorInv'
<1>1. PICK j \in calls :
       /\ calls' = calls \ {j}
       /\ \/ /\ j.kind = "ListRefs"
             /\ selector' = IF MatchesRequest(selector, j) THEN [selector EXCEPT !.status = "Error"] ELSE selector
             /\ UNCHANGED <<attempt, picks>>
          \/ /\ j.kind = "BrowseTree"
             /\ LET failed == attempt.state = "Loading" /\ attempt.id = j.id
                IN /\ attempt' = IF failed THEN [attempt EXCEPT !.state = "Failed"] ELSE attempt
                   /\ selector' = IF failed /\ IsBrowse(selector) /\ selector.repo = attempt.repo
                                  THEN [selector EXCEPT !.status = "Error"] ELSE selector
             /\ UNCHANGED picks
          \/ /\ j.kind = "Update" /\ j.id \notin picks.lost
             /\ picks' = [picks EXCEPT !.pending = @ \ {j.id}]
             /\ selector' = IF j.id \in picks.pending /\ selector.status # "Closed" /\ selector.purpose \in Sides
                            THEN [selector EXCEPT !.status = "Error"] ELSE selector
             /\ UNCHANGED attempt
  BY DEF SelectorError
<1>2. browse' = browse /\ feed' = feed
  BY DEF SelectorError
<1>3. j \in Calls /\ selector.purpose \in Purposes
  BY SelectorParts DEF Selectors
<1>4. SavesBrowse(selector, attempt) /\ InList(selector)
  BY DEF SelectorInv
<1>. DEFINE wrong == [selector EXCEPT !.status = "Error"]
<1>5. /\ wrong \in Selectors /\ wrong.status = "Error" /\ wrong.repo = selector.repo
      /\ wrong.selected = selector.selected /\ wrong.options = selector.options
  BY SelectorParts, StatusDoes
<1>. HIDE DEF wrong
<1>6. InList(wrong) /\ (\A a : SavesBrowse(wrong, a))
  BY <1>4, <1>5 DEF InList, SavesBrowse
<1>7. CASE /\ j.kind = "ListRefs" /\ UNCHANGED <<attempt, picks>>
           /\ selector' = IF MatchesRequest(selector, j) THEN wrong ELSE selector
  <2>1. CASE MatchesRequest(selector, j)
    <3>1. selector' = wrong /\ selector.status # "Closed"
      BY <1>7, <2>1 DEF MatchesRequest
    <3>. QED  BY <1>1, <1>2, <1>5, <1>6, <1>7, <3>1, SelectorParts, AnswerParts
  <2>2. CASE ~MatchesRequest(selector, j)
    <3>1. selector' = selector
      BY <1>7, <2>2
    <3>2. selector.status = "Loading" => ~(j.id = selector.id /\ j.repo = selector.repo)
      BY <2>2 DEF MatchesRequest
    <3>. QED  BY <1>1, <1>2, <1>4, <1>7, <3>1, <3>2, SelectorParts, AnswerParts
  <2>. QED  BY <2>1, <2>2
<1>8. CASE /\ j.kind = "BrowseTree" /\ picks' = picks
           /\ LET failed == attempt.state = "Loading" /\ attempt.id = j.id
              IN /\ attempt' = IF failed THEN [attempt EXCEPT !.state = "Failed"] ELSE attempt
                 /\ selector' = IF failed /\ IsBrowse(selector) /\ selector.repo = attempt.repo
                                THEN wrong ELSE selector
  <2>1. CASE attempt.state = "Loading" /\ attempt.id = j.id
    <3>1. attempt' = [attempt EXCEPT !.state = "Failed"]
      BY <1>8, <2>1
    <3>2. attempt' \in Attempts /\ attempt'.state = "Failed"
      BY <3>1, SelectorParts DEF Attempts
    <3>3. CASE IsBrowse(selector) /\ selector.repo = attempt.repo
      <4>1. selector' = wrong /\ selector.status # "Closed"
        BY <1>8, <2>1, <3>3 DEF IsBrowse
      <4>. QED  BY <1>1, <1>2, <1>5, <1>6, <1>8, <3>2, <4>1, SelectorParts, AnswerParts
    <3>4. CASE ~(IsBrowse(selector) /\ selector.repo = attempt.repo)
      <4>1. selector' = selector
        BY <1>8, <2>1, <3>4
      <4>2. SavesBrowse(selector', attempt')
        BY <1>4, <3>4, <4>1 DEF SavesBrowse, IsBrowse
      <4>. QED  BY <1>1, <1>2, <1>4, <1>8, <3>2, <4>1, <4>2, SelectorParts, AnswerParts
    <3>. QED  BY <3>3, <3>4
  <2>2. CASE ~(attempt.state = "Loading" /\ attempt.id = j.id)
    <3>1. selector' = selector /\ attempt' = attempt
      BY <1>8, <2>2
    <3>. QED  BY <1>1, <1>2, <1>4, <1>8, <2>2, <3>1, SelectorParts, AnswerParts
  <2>. QED  BY <2>1, <2>2
<1>9. CASE /\ j.kind = "Update" /\ attempt' = attempt
           /\ picks' = [picks EXCEPT !.pending = @ \ {j.id}]
           /\ selector' = IF j.id \in picks.pending /\ selector.status # "Closed" /\ selector.purpose \in Sides
                          THEN wrong ELSE selector
  <2>1. picks.pending \ {j.id} \in SUBSET Nat
    BY SelectorParts
  <2>2. /\ picks' \in Picks /\ picks'.next = picks.next /\ picks'.chosen = picks.chosen /\ picks'.lost = picks.lost
        /\ picks'.pending = picks.pending \ {j.id} /\ picks'.asked = picks.asked
    BY <1>9, <2>1, SelectorParts DEF Picks
  <2>3. CASE j.id \in picks.pending /\ selector.status # "Closed" /\ selector.purpose \in Sides
    <3>1. selector' = wrong
      BY <1>9, <2>3
    <3>. QED  BY <1>1, <1>2, <1>5, <1>6, <1>9, <2>2, <2>3, <3>1, SelectorParts, AnswerParts
  <2>4. CASE ~(j.id \in picks.pending /\ selector.status # "Closed" /\ selector.purpose \in Sides)
    <3>1. selector' = selector
      BY <1>9, <2>4
    <3>2. (selector.status = "Saving" /\ selector.purpose # "Browse") => j.id \notin picks.pending
      BY <1>3, <2>4 DEF Purposes
    <3>3. j.id \notin picks.pending => picks'.pending = picks.pending
      BY <2>2
    <3>. QED  BY <1>1, <1>2, <1>4, <1>9, <2>2, <3>1, <3>2, <3>3, SelectorParts, AnswerParts
  <2>. QED  BY <2>3, <2>4
<1>. QED  BY <1>1, <1>7, <1>8, <1>9 DEF wrong

\* An update goes from the requests to the events.
LEMMA CommitsStep ==
  ASSUME SelectorInv, UpdateCommits
  PROVE  SelectorInv'
<1>1. PICK j \in calls : j.kind = "Update" /\ calls' = calls \ {j} /\ feed' = Append(feed, j)
  BY DEF UpdateCommits
<1>2. selector' = selector /\ browse' = browse /\ attempt' = attempt /\ picks' = picks
  BY DEF UpdateCommits
<1>3. feed \in Seq(Calls) /\ j \in Calls
  BY SelectorParts
<1>4. Range(feed') = Range(feed) \cup {j}
  <2>1. /\ DOMAIN feed = 1..Len(feed) /\ DOMAIN feed' = 1..(Len(feed) + 1) /\ Len(feed) \in Nat
        /\ feed'[Len(feed) + 1] = j /\ \A n \in 1..Len(feed) : feed'[n] = feed[n]
    BY <1>1, <1>3
  <2>2. DOMAIN feed' = DOMAIN feed \cup {Len(feed) + 1}
    BY <2>1
  <2>. QED  BY <2>1, <2>2 DEF Range
<1>5. Coming' = Coming
  BY <1>1, <1>4 DEF Coming
<1>6. SelectorTyped' /\ OneEach'
  <2>1. SelectorTyped'
    BY <1>1, <1>2, <1>3, SelectorParts DEF SelectorTyped
  <2>2. OneEach'
    BY <1>1, <1>2, <1>4, <1>5 DEF SelectorInv, OneEach
  <2>. QED  BY <2>1, <2>2
<1>7. ListsRefs(selector', calls') /\ LoadsTree(attempt', calls', picks'.chosen)
  BY <1>1, <1>2 DEF SelectorInv, ListsRefs, LoadsTree
<1>8. SavesBrowse(selector', attempt') /\ SavesSide(selector', Coming', picks') /\ InList(selector')
  BY <1>2, <1>5 DEF SelectorInv
<1>. QED  BY <1>6, <1>7, <1>8 DEF SelectorInv

\* An update reaches the client: a selector of a side of that repository closes,
\* one of another repository has an update of its own under way.
LEMMA UpdatedStep ==
  ASSUME SelectorInv, TargetUpdated
  PROVE  SelectorInv'
<1>. DEFINE e == feed[1]
<1>1. /\ picks' = [picks EXCEPT !.targets[e.repo][e.side] = e.ref, !.pending = @ \ {e.id}]
      /\ selector' = IF ClosesSelector(e) THEN NoSelector ELSE selector
      /\ feed # <<>> /\ feed' = Tail(feed)
      /\ browse' = browse /\ attempt' = attempt /\ calls' = calls
  BY DEF TargetUpdated
<1>2. feed \in Seq(Calls) /\ Len(feed) \in Nat /\ Len(feed) > 0 /\ DOMAIN feed = 1..Len(feed)
  BY <1>1, SelectorParts
<1>3. e \in Calls /\ e \in Range(feed) /\ e \in Coming
  BY <1>2 DEF Range, Coming
<1>4. e.side \in Sides /\ e.repo \in ReviewRepos /\ e.ref \in Nat
  BY <1>3 DEF SelectorInv, OneEach, Calls
<1>5. feed' \in Seq(Calls) /\ \A x : x \in Range(feed) => x = e \/ x \in Range(feed')
  <2>1. /\ feed' \in Seq(Calls) /\ DOMAIN feed' = 1..(Len(feed) - 1)
        /\ \A n \in 1..(Len(feed) - 1) : feed'[n] = feed[n + 1]
    BY <1>1, <1>2
  <2>2. ASSUME NEW x \in Range(feed), x # e  PROVE x \in Range(feed')
    <3>1. PICK n \in 1..Len(feed) : x = feed[n]
      BY <1>2 DEF Range
    <3>2. n # 1
      BY <2>2, <3>1
    <3>3. n - 1 \in 1..(Len(feed) - 1) /\ (n - 1) + 1 = n
      BY <1>2, <3>2
    <3>4. feed'[n - 1] = x
      BY <2>1, <3>1, <3>3
    <3>. QED  BY <2>1, <3>3, <3>4 DEF Range
  <2>. QED  BY <2>1, <2>2
<1>6. Range(feed') \in SUBSET Range(feed)
  <2>1. /\ DOMAIN feed' = 1..(Len(feed) - 1)
        /\ \A n \in 1..(Len(feed) - 1) : feed'[n] = feed[n + 1] /\ n + 1 \in 1..Len(feed)
    BY <1>1, <1>2
  <2>. QED  BY <1>2, <2>1 DEF Range
<1>. HIDE DEF e
<1>7. /\ picks' \in Picks /\ picks'.next = picks.next /\ picks'.chosen = picks.chosen /\ picks'.lost = picks.lost
      /\ picks'.pending = picks.pending \ {e.id} /\ picks'.asked = picks.asked
  <2>. DEFINE t == [picks.targets EXCEPT ![e.repo] = [picks.targets[e.repo] EXCEPT ![e.side] = e.ref]]
  <2>1. picks.targets \in [ReviewRepos -> [Base : Nat, Head : Nat]]
    BY SelectorParts DEF Picks
  <2>2. [picks.targets[e.repo] EXCEPT ![e.side] = e.ref] \in [Base : Nat, Head : Nat]
    BY <1>4, <2>1 DEF Sides
  <2>3. t \in [ReviewRepos -> [Base : Nat, Head : Nat]]
    BY <2>1, <2>2
  <2>4. picks' = [picks EXCEPT !.targets = t, !.pending = picks.pending \ {e.id}]
    BY <1>1
  <2>5. picks.pending \ {e.id} \in SUBSET Nat
    BY SelectorParts
  <2>. HIDE DEF t
  <2>. QED  BY <2>3, <2>4, <2>5, SelectorParts DEF Picks
<1>8. Coming' \in SUBSET Coming
  BY <1>1, <1>6 DEF Coming
<1>9. \A x \in Coming : x # e => x \in Coming'
  BY <1>1, <1>5 DEF Coming
<1>10. selector' \in Selectors /\ (selector'.status # "Closed" => selector'.repo \in ReviewRepos)
  BY <1>1, SelectorParts, NothingOpen
<1>11. SelectorTyped' /\ OneEach'
  <2>1. SelectorTyped'
    BY <1>1, <1>5, <1>7, <1>10, SelectorParts DEF SelectorTyped
  <2>2. OneEach'
    BY <1>1, <1>6, <1>7, <1>8 DEF SelectorInv, OneEach
  <2>. QED  BY <2>1, <2>2
<1>12. ListsRefs(selector', calls') /\ LoadsTree(attempt', calls', picks'.chosen)
  BY <1>1, <1>7, NothingOpen DEF SelectorInv, ListsRefs
<1>13. SavesBrowse(selector', attempt') /\ InList(selector')
  BY <1>1, NothingOpen DEF SelectorInv, SavesBrowse, InList
<1>14. SavesSide(selector', Coming', picks')
  <2>. SUFFICES ASSUME selector'.status = "Saving", selector'.purpose # "Browse"
                PROVE  /\ picks'.asked \in picks'.pending
                       /\ \E i \in Coming' : /\ i.kind = "Update" /\ i.repo = selector'.repo
                                             /\ i.id = picks'.asked
    BY DEF SavesSide
  <2>1. selector' = selector /\ ~ClosesSelector(e)
    BY <1>1, NothingOpen
  <2>2. selector.purpose \in Sides
    BY <2>1, SelectorParts DEF Selectors, Purposes
  <2>3. selector.repo # e.repo
    BY <2>1, <2>2 DEF ClosesSelector
  <2>4. PICK i \in Coming : /\ i.kind = "Update" /\ i.repo = selector.repo /\ i.id = picks.asked
                            /\ picks.asked \in picks.pending
    BY <2>1 DEF SelectorInv, SavesSide
  <2>5. i # e /\ i.id # e.id
    BY <1>3, <2>3, <2>4 DEF SelectorInv, OneEach
  <2>. QED  BY <1>7, <1>9, <2>1, <2>4, <2>5
<1>. QED  BY <1>11, <1>12, <1>13, <1>14 DEF SelectorInv

\* The connection is lost: what waited for an answer fails, the updates the daemon
\* has are still waited for.
LEMMA PeerLostStep ==
  ASSUME SelectorInv, PeerLost
  PROVE  SelectorInv'
<1>. DEFINE after == SelectorDisconnected(attempt, selector)
            wrong == [selector EXCEPT !.status = "Error"]
<1>1. /\ picks' = [picks EXCEPT !.subscribed = FALSE, !.lost = picks.lost \cup {j.id : j \in calls}]
      /\ attempt' = after.attempt /\ selector' = after.selector
      /\ calls' = {j \in calls : j.kind = "Update"} /\ browse' = browse /\ feed' = feed
  BY DEF PeerLost
<1>2. /\ attempt' = IF attempt.state = "Loading" THEN [attempt EXCEPT !.state = "Failed"] ELSE attempt
      /\ selector' = IF (attempt.state = "Loading" /\ IsBrowse(selector)) \/ selector.status = "Loading"
                     THEN wrong ELSE selector
  BY <1>1 DEF SelectorDisconnected
<1>3. attempt' \in Attempts /\ attempt'.state # "Loading"
  BY <1>2, SelectorParts DEF Attempts
<1>4. /\ picks' \in Picks /\ picks'.next = picks.next /\ picks'.chosen = picks.chosen
      /\ picks'.pending = picks.pending /\ picks'.asked = picks.asked
      /\ picks'.lost = picks.lost \cup {j.id : j \in calls}
  <2>1. picks.lost \cup {j.id : j \in calls} \in SUBSET Nat
    BY SelectorParts DEF Picks, Calls
  <2>. QED  BY <1>1, <2>1, SelectorParts DEF Picks
<1>5. /\ wrong \in Selectors /\ wrong.status = "Error" /\ wrong.repo = selector.repo
      /\ wrong.selected = selector.selected /\ wrong.options = selector.options
  BY SelectorParts, StatusDoes
<1>. HIDE DEF wrong
<1>6. /\ selector' \in Selectors /\ InList(selector') /\ selector'.status # "Loading"
      /\ selector'.status = "Saving" => selector' = selector /\ ~(attempt.state = "Loading" /\ IsBrowse(selector))
  BY <1>2, <1>5, SelectorParts DEF SelectorInv, InList
<1>7. selector'.status # "Closed" => selector'.repo \in ReviewRepos
  <2>1. CASE selector' = selector
    BY <2>1, SelectorParts
  <2>2. CASE selector' = wrong /\ ((attempt.state = "Loading" /\ IsBrowse(selector)) \/ selector.status = "Loading")
    BY <1>5, <2>2, SelectorParts DEF IsBrowse
  <2>. QED  BY <1>2, <2>1, <2>2
<1>8. SelectorTyped' /\ OneEach'
  BY <1>1, <1>3, <1>4, <1>6, <1>7, SelectorParts, FewerCalls
<1>9. ListsRefs(selector', calls') /\ LoadsTree(attempt', calls', picks'.chosen)
  BY <1>3, <1>6 DEF ListsRefs, LoadsTree
<1>10. SavesBrowse(selector', attempt')
  BY <1>6 DEF SelectorInv, SavesBrowse, IsBrowse
<1>11. SavesSide(selector', Coming', picks')
  <2>1. \A j \in Coming : j.kind = "Update" => j \in Coming'
    BY <1>1 DEF Coming
  <2>. QED  BY <1>4, <1>6, <2>1 DEF SelectorInv, SavesSide
<1>. QED  BY <1>6, <1>8, <1>9, <1>10, <1>11 DEF SelectorInv

-----------------------------------------------------------------------------
(* The revision selector: the theorems.                                    *)

\* At the start everything is closed.
LEMMA SelectorStart == SelectorInit => SelectorInv
<1>. SUFFICES ASSUME SelectorInit PROVE SelectorInv
  OBVIOUS
<1>1. selector = NoSelector /\ browse = NoBrowse /\ attempt = NoAttempt /\ calls = {} /\ feed = <<>>
  BY DEF SelectorInit
<1>2. picks \in Picks
  <2>1. [r \in ReviewRepos |-> [Base |-> 2, Head |-> WorkingTree]] \in [ReviewRepos -> [Base : Nat, Head : Nat]]
    BY DEF WorkingTree
  <2>. QED  BY <2>1 DEF SelectorInit, Picks
<1>3. Coming = {} /\ Range(feed) = {}
  BY <1>1 DEF Coming, Range
<1>4. SelectorTyped
  BY <1>1, <1>2, NothingOpen DEF SelectorTyped
<1>5. OneEach
  BY <1>1, <1>3 DEF OneEach, SelectorInit
<1>6. ListsRefs(selector, calls) /\ LoadsTree(attempt, calls, picks.chosen)
  BY <1>1, NothingOpen DEF ListsRefs, LoadsTree
<1>7. SavesBrowse(selector, attempt) /\ SavesSide(selector, Coming, picks) /\ InList(selector)
  BY <1>1, NothingOpen DEF SavesBrowse, SavesSide, InList
<1>. QED  BY <1>4, <1>5, <1>6, <1>7 DEF SelectorInv

\* Every step keeps what the forms wait for.
LEMMA SelectorStepKept ==
  ASSUME SelectorInv, [SelectorNext]_selectorVars
  PROVE  SelectorInv'
<1>1. CASE UNCHANGED selectorVars
  <2>1. UNCHANGED <<selector, browse, attempt, picks, calls, feed>>
    BY <1>1 DEF selectorVars
  <2>. QED  BY <2>1, SelectorParts, ClosesForms
<1>. QED
  BY <1>1, OpenSelectorStep, MovesStep, SelectStep, SetBrowseStep, CloseSteps, RefsStep,
     BrowseStepKept, SelectorErrorStep, CommitsStep, UpdatedStep, PeerLostStep
     DEF SelectorNext

\* The invariant of the revision selector and of Browse, for any repositories,
\* catalogs, queries and menus of inputs.
THEOREM SelectorInvariant == SelectorSpec => []SelectorInv
<1>1. SelectorInv /\ [SelectorNext]_selectorVars => SelectorInv'
  BY SelectorStepKept
<1>. QED  BY SelectorStart, <1>1, PTL DEF SelectorSpec

\* A selector that loads, and a candidate that loads, wait for a request of the live
\* connection; one that saves waits for its own update, which is pending and asked, on
\* its way, or lost with its connection; and the selection is in the list.
THEOREM NobodyWaitsInVain == SelectorSpec => []SelectorWaits
<1>1. SelectorInv => SelectorWaits
  <2>. SUFFICES ASSUME SelectorInv PROVE SelectorWaits
    OBVIOUS
  <2>1. selector.status = "Loading" => Asked("ListRefs", selector.id)
    BY DEF SelectorInv, ListsRefs, Asked, OneEach
  <2>2. attempt.state = "Loading" => Asked("BrowseTree", attempt.id)
    BY DEF SelectorInv, LoadsTree, Asked, OneEach
  <2>3. selector.status = "Saving" =>
          IF selector.purpose = "Browse" THEN attempt.state = "Loading" /\ attempt.repo = selector.repo
          ELSE /\ picks.asked \in picks.pending
               /\ \/ Asked("Update", picks.asked)
                  \/ \E e \in Range(feed) : e.id = picks.asked /\ e.repo = selector.repo
                  \/ picks.asked \in picks.lost
    BY DEF SelectorInv, SavesBrowse, SavesSide, Coming, Asked
  <2>4. selector.selected = 0 \/ selector.selected < Len(selector.options)
    BY DEF SelectorInv, InList
  <2>. QED  BY <2>1, <2>2, <2>3, <2>4 DEF SelectorWaits
<1>. QED  BY <1>1, SelectorInvariant, PTL

\* What Browse shows becomes the last revision chosen, or nothing: an answer that
\* was overtaken by another choice replaces nothing.
THEOREM LatestIsShown == SelectorSpec => BrowseIsLatest
<1>1. SelectorInv /\ [SelectorNext]_selectorVars => [BrowseStep]_selectorVars
  <2>. SUFFICES ASSUME SelectorInv, SelectorNext PROVE BrowseStep
    OBVIOUS
  <2>1. CASE BrowseAnswer
    <3>1. PICK j \in calls :
            browse' = browse
              \/ (AnswersAttempt(j) /\ browse' = [repo |-> j.repo, ref |-> j.ref, id |-> j.id])
      BY <2>1 DEF BrowseAnswer
    <3>2. CASE browse' = browse
      BY <3>2 DEF BrowseStep
    <3>3. CASE AnswersAttempt(j) /\ browse' = [repo |-> j.repo, ref |-> j.ref, id |-> j.id]
      <4>1. browse'.id = attempt.id /\ attempt.state = "Loading"
        BY <3>3 DEF AnswersAttempt
      <4>2. picks.chosen = attempt.id
        BY <4>1 DEF SelectorInv, LoadsTree
      <4>. QED  BY <4>1, <4>2 DEF BrowseStep
    <3>. QED  BY <3>1, <3>2, <3>3
  <2>2. CASE ResetBrowse \/ ReviewClosedAndOpened
    BY <2>2 DEF ResetBrowse, ReviewClosedAndOpened, BrowseStep
  <2>3. CASE browse' = browse
    BY <2>3 DEF BrowseStep
  <2>. QED
    BY <2>1, <2>2, <2>3
       DEF SelectorNext, OpenRefSelector, RefSelectorQuery, RefSelectorStep, SelectRef, SetBrowseRef,
           CloseRefSelector, SelectBrowseRepo, DraftToggled, RefsAnswer, SelectorError, UpdateCommits,
           TargetUpdated, PeerLost, PeerBack
<1>. QED  BY <1>1, SelectorInvariant, PTL DEF SelectorSpec, BrowseIsLatest

-----------------------------------------------------------------------------
(* The creation form: folds, by induction over the naturals.               *)

\* Induction over the naturals, said of a set.
LEMMA NaturalsByStep ==
  ASSUME NEW T, 0 \in T, \A n \in Nat : n \in T => n + 1 \in T
  PROVE  Nat \subseteq T
<1> SUFFICES ASSUME Nat \ T # {} PROVE FALSE
  OBVIOUS
<1>1. PICK x \in Nat \ T : \A y \in Nat \ T : ~ (<<y, x>> \in OpToRel(<, Nat))
  BY NatLessThanWellFounded, WFMin
<1>2. x # 0 /\ x - 1 \in Nat
  OBVIOUS
<1>3. <<x - 1, x>> \in OpToRel(<, Nat)
  BY <1>2 DEF OpToRel
<1>4. x - 1 \in T
  BY <1>1, <1>2, <1>3
<1>5. x - 1 + 1 \in T
  BY <1>2, <1>4
<1>6. QED
  BY <1>2, <1>5

\* Positions have a last one.
LEMMA LastPosition ==
  ASSUME NEW n \in Nat, NEW s \in SUBSET (1 .. n), s # {}
  PROVE  Max(s) \in s /\ \A i \in s : i <= Max(s)
<1> DEFINE T == {k \in Nat : \A t \in SUBSET (1 .. k) : t # {} => \E x \in t : \A y \in t : x >= y}
<1>1. 0 \in T
  <2>1. \A t \in SUBSET (1 .. 0) : t = {}
    OBVIOUS
  <2>2. QED
    BY <2>1
<1>2. ASSUME NEW k \in Nat, k \in T PROVE k + 1 \in T
  <2> SUFFICES ASSUME NEW t \in SUBSET (1 .. (k + 1)), t # {}
               PROVE  \E x \in t : \A y \in t : x >= y
    OBVIOUS
  <2>1. CASE k + 1 \in t
    BY <2>1
  <2>2. CASE k + 1 \notin t
    <3>1. t \in SUBSET (1 .. k)
      BY <2>2
    <3>2. QED
      BY <1>2, <3>1
  <2>3. QED
    BY <2>1, <2>2
<1>3. n \in T
  <2> HIDE DEF T
  <2>1. QED
    BY <1>1, <1>2, NaturalsByStep
<1>4. \E x \in s : \A y \in s : x >= y
  BY <1>3
<1>5. QED
  BY <1>4 DEF Max

\* The last of the first positions.
LEMMA LastOfFirst ==
  ASSUME NEW n \in Nat
  PROVE  /\ Max(1 .. (n + 1)) = n + 1
         /\ (1 .. (n + 1)) \ {n + 1} = 1 .. n
         /\ \A s \in SUBSET (1 .. (n + 1)) :
              s \notin SUBSET (1 .. n) => Max(s) = n + 1 /\ s # {} /\ s \ {Max(s)} \in SUBSET (1 .. n)
<1>1. ASSUME NEW s \in SUBSET (1 .. (n + 1)), n + 1 \in s
      PROVE  Max(s) = n + 1
  <2>1. n + 1 \in Nat /\ s # {}
    BY <1>1
  <2>2. Max(s) \in s /\ \A i \in s : i <= Max(s)
    BY <2>1, LastPosition
  <2>3. Max(s) \in 1 .. (n + 1) /\ n + 1 <= Max(s)
    BY <1>1, <2>2
  <2>4. QED
    BY <2>3
<1>2. Max(1 .. (n + 1)) = n + 1
  BY <1>1
<1>3. (1 .. (n + 1)) \ {n + 1} = 1 .. n
  OBVIOUS
<1>4. ASSUME NEW s \in SUBSET (1 .. (n + 1)), s \notin SUBSET (1 .. n)
      PROVE  Max(s) = n + 1 /\ s # {} /\ s \ {Max(s)} \in SUBSET (1 .. n)
  <2>1. n + 1 \in s
    BY <1>3, <1>4
  <2>2. Max(s) = n + 1
    BY <1>1, <2>1
  <2>3. QED
    BY <1>3, <2>1, <2>2
<1>5. QED
  BY <1>2, <1>3, <1>4

\* The equation of asking for the defaults of the first n targets.
Asking(g, s0, steps, n) ==
  g = [s \in SUBSET (1 .. n) |-> IF s = {} THEN s0 ELSE AskDefault(g[s \ {Max(s)}], steps[Max(s)])]

\* That equation has a solution, whatever the targets.
LEMMA AskingExists ==
  ASSUME NEW s0, NEW steps, NEW n \in Nat
  PROVE  \E g : Asking(g, s0, steps, n)
<1> DEFINE Body(g, s) == IF s = {} THEN s0 ELSE AskDefault(g[s \ {Max(s)}], steps[Max(s)])
           T == {k \in Nat : \E g : Asking(g, s0, steps, k)}
<1>1. 0 \in T
  <2> DEFINE f == [s \in SUBSET (1 .. 0) |-> s0]
  <2>1. f = [s \in SUBSET (1 .. 0) |-> Body(f, s)]
    OBVIOUS
  <2>2. Asking(f, s0, steps, 0)
    BY <2>1 DEF Asking
  <2>3. QED
    BY <2>2
<1>2. ASSUME NEW k \in Nat, k \in T PROVE k + 1 \in T
  <2>0. PICK g : Asking(g, s0, steps, k)
    BY <1>2
  <2>1. g = [s \in SUBSET (1 .. k) |-> Body(g, s)]
    BY <2>0 DEF Asking
  <2> DEFINE f == [s \in SUBSET (1 .. (k + 1)) |-> IF s \in SUBSET (1 .. k) THEN g[s] ELSE Body(g, s)]
  <2>2. ASSUME NEW s \in SUBSET (1 .. (k + 1)) PROVE f[s] = Body(f, s)
    <3>1. CASE s \in SUBSET (1 .. k) /\ s # {}
      <4>1. Max(s) \in s /\ s \ {Max(s)} \in SUBSET (1 .. k) /\ s \ {Max(s)} \in SUBSET (1 .. (k + 1))
        BY <3>1, LastPosition
      <4>2. f[s \ {Max(s)}] = g[s \ {Max(s)}] /\ f[s] = g[s]
        BY <3>1, <4>1
      <4>3. QED
        BY <2>1, <3>1, <4>2
    <3>2. CASE s = {}
      BY <2>1, <3>2
    <3>3. CASE s \notin SUBSET (1 .. k)
      <4>1. s # {} /\ s \ {Max(s)} \in SUBSET (1 .. k) /\ s \ {Max(s)} \in SUBSET (1 .. (k + 1))
        BY <3>3, LastOfFirst
      <4>2. f[s \ {Max(s)}] = g[s \ {Max(s)}] /\ f[s] = Body(g, s)
        BY <3>3, <4>1
      <4>3. QED
        BY <4>1, <4>2
    <3>4. QED
      BY <3>1, <3>2, <3>3
  <2>3. f = [s \in SUBSET (1 .. (k + 1)) |-> Body(f, s)]
    <3>1. f = [s \in SUBSET (1 .. (k + 1)) |-> f[s]]
      OBVIOUS
    <3> HIDE DEF f, Body
    <3>2. QED
      BY <2>2, <3>1
  <2>4. Asking(f, s0, steps, k + 1)
    BY <2>3 DEF Asking
  <2>5. QED
    <3> HIDE DEF f
    <3>1. QED
      BY <2>4
<1>3. n \in T
  <2> HIDE DEF T
  <2>1. QED
    BY <1>1, <1>2, NaturalsByStep
<1>4. QED
  BY <1>3

\* What has been asked after each target.
AsksOn(h, s0, steps) ==
  /\ h[0] = s0
  /\ \A n \in 0 .. (Len(steps) - 1) : h[n + 1] = AskDefault(h[n], steps[n + 1])

\* CreationDefaults asks for one target after the other.
LEMMA DefaultsFollow ==
  ASSUME NEW s0, NEW steps, Len(steps) \in Nat, DOMAIN steps = 1 .. Len(steps)
  PROVE  \E h : AsksOn(h, s0, steps) /\ FoldLeft(AskDefault, s0, steps) = h[Len(steps)]
<1> DEFINE D == 1 .. Len(steps)
           Body(g, s) == IF s = {} THEN s0 ELSE AskDefault(g[s \ {Max(s)}], steps[Max(s)])
           it == CHOOSE g : g = [s \in SUBSET DOMAIN steps |-> Body(g, s)]
<1>1. FoldLeft(AskDefault, s0, steps) = it[1 .. Len(steps)]
  BY DEF FoldLeft, MapThenFoldSet
<1> HIDE DEF it
<1>2. \E g : g = [s \in SUBSET D |-> Body(g, s)]
  <2>1. PICK g : Asking(g, s0, steps, Len(steps))
    BY AskingExists
  <2>2. g = [s \in SUBSET D |-> Body(g, s)]
    BY <2>1 DEF Asking
  <2>3. QED
    BY <2>2
<1>3. it = [s \in SUBSET D |-> Body(it, s)]
  <2> HIDE DEF Body
  <2>1. QED
    BY <1>2 DEF it
<1> DEFINE h == [n \in 0 .. Len(steps) |-> it[1 .. n]]
<1>7. h[0] = s0
  <2>1. 1 .. 0 = {} /\ {} \in SUBSET D /\ 0 \in 0 .. Len(steps)
    OBVIOUS
  <2>2. it[{}] = s0
    BY <1>3, <2>1
  <2>3. QED
    BY <2>1, <2>2
<1>8. ASSUME NEW n \in 0 .. (Len(steps) - 1) PROVE h[n + 1] = AskDefault(h[n], steps[n + 1])
  <2>1. n \in Nat /\ n \in 0 .. Len(steps) /\ n + 1 \in 0 .. Len(steps) /\ 1 .. (n + 1) \in SUBSET D /\ 1 .. (n + 1) # {}
    <3>1. n \in Nat /\ n + 1 <= Len(steps)
      OBVIOUS
    <3>2. n + 1 \in 1 .. (n + 1)
      BY <3>1
    <3>3. 1 .. (n + 1) \subseteq 1 .. Len(steps)
      BY <3>1
    <3>4. QED
      BY <3>1, <3>2, <3>3
  <2>2. Max(1 .. (n + 1)) = n + 1 /\ (1 .. (n + 1)) \ {n + 1} = 1 .. n
    BY <2>1, LastOfFirst
  <2>3. it[1 .. (n + 1)] = AskDefault(it[1 .. n], steps[n + 1])
    BY <1>3, <2>1, <2>2
  <2>4. QED
    BY <2>1, <2>3
<1>9. h[Len(steps)] = FoldLeft(AskDefault, s0, steps)
  <2>1. QED
    BY <1>1
<1>10. AsksOn(h, s0, steps)
  <2> HIDE DEF h
  <2>1. QED
    BY <1>7, <1>8 DEF AsksOn
<1>11. QED
  <2> HIDE DEF h
  <2>1. QED
    BY <1>9, <1>10

\* The equation of the review list after the first n events.
Listing(g, s0, steps, n) ==
  g = [s \in SUBSET (1 .. n) |-> IF s = {} THEN s0 ELSE ListAfter(g[s \ {Max(s)}], steps[Max(s)])]

\* That equation has a solution, whatever the events.
LEMMA ListingExists ==
  ASSUME NEW s0, NEW steps, NEW n \in Nat
  PROVE  \E g : Listing(g, s0, steps, n)
<1> DEFINE Body(g, s) == IF s = {} THEN s0 ELSE ListAfter(g[s \ {Max(s)}], steps[Max(s)])
           T == {k \in Nat : \E g : Listing(g, s0, steps, k)}
<1>1. 0 \in T
  <2> DEFINE f == [s \in SUBSET (1 .. 0) |-> s0]
  <2>1. f = [s \in SUBSET (1 .. 0) |-> Body(f, s)]
    OBVIOUS
  <2>2. Listing(f, s0, steps, 0)
    BY <2>1 DEF Listing
  <2>3. QED
    BY <2>2
<1>2. ASSUME NEW k \in Nat, k \in T PROVE k + 1 \in T
  <2>0. PICK g : Listing(g, s0, steps, k)
    BY <1>2
  <2>1. g = [s \in SUBSET (1 .. k) |-> Body(g, s)]
    BY <2>0 DEF Listing
  <2> DEFINE f == [s \in SUBSET (1 .. (k + 1)) |-> IF s \in SUBSET (1 .. k) THEN g[s] ELSE Body(g, s)]
  <2>2. ASSUME NEW s \in SUBSET (1 .. (k + 1)) PROVE f[s] = Body(f, s)
    <3>1. CASE s \in SUBSET (1 .. k) /\ s # {}
      <4>1. Max(s) \in s /\ s \ {Max(s)} \in SUBSET (1 .. k) /\ s \ {Max(s)} \in SUBSET (1 .. (k + 1))
        BY <3>1, LastPosition
      <4>2. f[s \ {Max(s)}] = g[s \ {Max(s)}] /\ f[s] = g[s]
        BY <3>1, <4>1
      <4>3. QED
        BY <2>1, <3>1, <4>2
    <3>2. CASE s = {}
      BY <2>1, <3>2
    <3>3. CASE s \notin SUBSET (1 .. k)
      <4>1. s # {} /\ s \ {Max(s)} \in SUBSET (1 .. k) /\ s \ {Max(s)} \in SUBSET (1 .. (k + 1))
        BY <3>3, LastOfFirst
      <4>2. f[s \ {Max(s)}] = g[s \ {Max(s)}] /\ f[s] = Body(g, s)
        BY <3>3, <4>1
      <4>3. QED
        BY <4>1, <4>2
    <3>4. QED
      BY <3>1, <3>2, <3>3
  <2>3. f = [s \in SUBSET (1 .. (k + 1)) |-> Body(f, s)]
    <3>1. f = [s \in SUBSET (1 .. (k + 1)) |-> f[s]]
      OBVIOUS
    <3> HIDE DEF f, Body
    <3>2. QED
      BY <2>2, <3>1
  <2>4. Listing(f, s0, steps, k + 1)
    BY <2>3 DEF Listing
  <2>5. QED
    <3> HIDE DEF f
    <3>1. QED
      BY <2>4
<1>3. n \in T
  <2> HIDE DEF T
  <2>1. QED
    BY <1>1, <1>2, NaturalsByStep
<1>4. QED
  BY <1>3

\* The list after each event.
ListsOn(h, s0, steps) ==
  /\ h[0] = s0
  /\ \A n \in 0 .. (Len(steps) - 1) : h[n + 1] = ListAfter(h[n], steps[n + 1])

\* The list follows the events one after the other.
LEMMA ReviewsFollow ==
  ASSUME NEW s0, NEW steps, Len(steps) \in Nat, DOMAIN steps = 1 .. Len(steps)
  PROVE  \E h : ListsOn(h, s0, steps) /\ FoldLeft(ListAfter, s0, steps) = h[Len(steps)]
<1> DEFINE D == 1 .. Len(steps)
           Body(g, s) == IF s = {} THEN s0 ELSE ListAfter(g[s \ {Max(s)}], steps[Max(s)])
           it == CHOOSE g : g = [s \in SUBSET DOMAIN steps |-> Body(g, s)]
<1>1. FoldLeft(ListAfter, s0, steps) = it[1 .. Len(steps)]
  BY DEF FoldLeft, MapThenFoldSet
<1> HIDE DEF it
<1>2. \E g : g = [s \in SUBSET D |-> Body(g, s)]
  <2>1. PICK g : Listing(g, s0, steps, Len(steps))
    BY ListingExists
  <2>2. g = [s \in SUBSET D |-> Body(g, s)]
    BY <2>1 DEF Listing
  <2>3. QED
    BY <2>2
<1>3. it = [s \in SUBSET D |-> Body(it, s)]
  <2> HIDE DEF Body
  <2>1. QED
    BY <1>2 DEF it
<1> DEFINE h == [n \in 0 .. Len(steps) |-> it[1 .. n]]
<1>7. h[0] = s0
  <2>1. 1 .. 0 = {} /\ {} \in SUBSET D /\ 0 \in 0 .. Len(steps)
    OBVIOUS
  <2>2. it[{}] = s0
    BY <1>3, <2>1
  <2>3. QED
    BY <2>1, <2>2
<1>8. ASSUME NEW n \in 0 .. (Len(steps) - 1) PROVE h[n + 1] = ListAfter(h[n], steps[n + 1])
  <2>1. n \in Nat /\ n \in 0 .. Len(steps) /\ n + 1 \in 0 .. Len(steps) /\ 1 .. (n + 1) \in SUBSET D /\ 1 .. (n + 1) # {}
    <3>1. n \in Nat /\ n + 1 <= Len(steps)
      OBVIOUS
    <3>2. n + 1 \in 1 .. (n + 1)
      BY <3>1
    <3>3. 1 .. (n + 1) \subseteq 1 .. Len(steps)
      BY <3>1
    <3>4. QED
      BY <3>1, <3>2, <3>3
  <2>2. Max(1 .. (n + 1)) = n + 1 /\ (1 .. (n + 1)) \ {n + 1} = 1 .. n
    BY <2>1, LastOfFirst
  <2>3. it[1 .. (n + 1)] = ListAfter(it[1 .. n], steps[n + 1])
    BY <1>3, <2>1, <2>2
  <2>4. QED
    BY <2>1, <2>3
<1>9. h[Len(steps)] = FoldLeft(ListAfter, s0, steps)
  <2>1. QED
    BY <1>1
<1>10. ListsOn(h, s0, steps)
  <2> HIDE DEF h
  <2>1. QED
    BY <1>7, <1>8 DEF ListsOn
<1>11. QED
  <2> HIDE DEF h
  <2>1. QED
    BY <1>9, <1>10

\* The equation of the attached repositories after the first n events.
Attaching(g, s0, steps, n) ==
  g = [s \in SUBSET (1 .. n) |-> IF s = {} THEN s0 ELSE ReposAfter(g[s \ {Max(s)}], steps[Max(s)])]

\* That equation has a solution, whatever the events.
LEMMA AttachingExists ==
  ASSUME NEW s0, NEW steps, NEW n \in Nat
  PROVE  \E g : Attaching(g, s0, steps, n)
<1> DEFINE Body(g, s) == IF s = {} THEN s0 ELSE ReposAfter(g[s \ {Max(s)}], steps[Max(s)])
           T == {k \in Nat : \E g : Attaching(g, s0, steps, k)}
<1>1. 0 \in T
  <2> DEFINE f == [s \in SUBSET (1 .. 0) |-> s0]
  <2>1. f = [s \in SUBSET (1 .. 0) |-> Body(f, s)]
    OBVIOUS
  <2>2. Attaching(f, s0, steps, 0)
    BY <2>1 DEF Attaching
  <2>3. QED
    BY <2>2
<1>2. ASSUME NEW k \in Nat, k \in T PROVE k + 1 \in T
  <2>0. PICK g : Attaching(g, s0, steps, k)
    BY <1>2
  <2>1. g = [s \in SUBSET (1 .. k) |-> Body(g, s)]
    BY <2>0 DEF Attaching
  <2> DEFINE f == [s \in SUBSET (1 .. (k + 1)) |-> IF s \in SUBSET (1 .. k) THEN g[s] ELSE Body(g, s)]
  <2>2. ASSUME NEW s \in SUBSET (1 .. (k + 1)) PROVE f[s] = Body(f, s)
    <3>1. CASE s \in SUBSET (1 .. k) /\ s # {}
      <4>1. Max(s) \in s /\ s \ {Max(s)} \in SUBSET (1 .. k) /\ s \ {Max(s)} \in SUBSET (1 .. (k + 1))
        BY <3>1, LastPosition
      <4>2. f[s \ {Max(s)}] = g[s \ {Max(s)}] /\ f[s] = g[s]
        BY <3>1, <4>1
      <4>3. QED
        BY <2>1, <3>1, <4>2
    <3>2. CASE s = {}
      BY <2>1, <3>2
    <3>3. CASE s \notin SUBSET (1 .. k)
      <4>1. s # {} /\ s \ {Max(s)} \in SUBSET (1 .. k) /\ s \ {Max(s)} \in SUBSET (1 .. (k + 1))
        BY <3>3, LastOfFirst
      <4>2. f[s \ {Max(s)}] = g[s \ {Max(s)}] /\ f[s] = Body(g, s)
        BY <3>3, <4>1
      <4>3. QED
        BY <4>1, <4>2
    <3>4. QED
      BY <3>1, <3>2, <3>3
  <2>3. f = [s \in SUBSET (1 .. (k + 1)) |-> Body(f, s)]
    <3>1. f = [s \in SUBSET (1 .. (k + 1)) |-> f[s]]
      OBVIOUS
    <3> HIDE DEF f, Body
    <3>2. QED
      BY <2>2, <3>1
  <2>4. Attaching(f, s0, steps, k + 1)
    BY <2>3 DEF Attaching
  <2>5. QED
    <3> HIDE DEF f
    <3>1. QED
      BY <2>4
<1>3. n \in T
  <2> HIDE DEF T
  <2>1. QED
    BY <1>1, <1>2, NaturalsByStep
<1>4. QED
  BY <1>3

\* The repositories after each event.
AttachesOn(h, s0, steps) ==
  /\ h[0] = s0
  /\ \A n \in 0 .. (Len(steps) - 1) : h[n + 1] = ReposAfter(h[n], steps[n + 1])

\* The repositories follow the events one after the other.
LEMMA ReposFollow ==
  ASSUME NEW s0, NEW steps, Len(steps) \in Nat, DOMAIN steps = 1 .. Len(steps)
  PROVE  \E h : AttachesOn(h, s0, steps) /\ FoldLeft(ReposAfter, s0, steps) = h[Len(steps)]
<1> DEFINE D == 1 .. Len(steps)
           Body(g, s) == IF s = {} THEN s0 ELSE ReposAfter(g[s \ {Max(s)}], steps[Max(s)])
           it == CHOOSE g : g = [s \in SUBSET DOMAIN steps |-> Body(g, s)]
<1>1. FoldLeft(ReposAfter, s0, steps) = it[1 .. Len(steps)]
  BY DEF FoldLeft, MapThenFoldSet
<1> HIDE DEF it
<1>2. \E g : g = [s \in SUBSET D |-> Body(g, s)]
  <2>1. PICK g : Attaching(g, s0, steps, Len(steps))
    BY AttachingExists
  <2>2. g = [s \in SUBSET D |-> Body(g, s)]
    BY <2>1 DEF Attaching
  <2>3. QED
    BY <2>2
<1>3. it = [s \in SUBSET D |-> Body(it, s)]
  <2> HIDE DEF Body
  <2>1. QED
    BY <1>2 DEF it
<1> DEFINE h == [n \in 0 .. Len(steps) |-> it[1 .. n]]
<1>7. h[0] = s0
  <2>1. 1 .. 0 = {} /\ {} \in SUBSET D /\ 0 \in 0 .. Len(steps)
    OBVIOUS
  <2>2. it[{}] = s0
    BY <1>3, <2>1
  <2>3. QED
    BY <2>1, <2>2
<1>8. ASSUME NEW n \in 0 .. (Len(steps) - 1) PROVE h[n + 1] = ReposAfter(h[n], steps[n + 1])
  <2>1. n \in Nat /\ n \in 0 .. Len(steps) /\ n + 1 \in 0 .. Len(steps) /\ 1 .. (n + 1) \in SUBSET D /\ 1 .. (n + 1) # {}
    <3>1. n \in Nat /\ n + 1 <= Len(steps)
      OBVIOUS
    <3>2. n + 1 \in 1 .. (n + 1)
      BY <3>1
    <3>3. 1 .. (n + 1) \subseteq 1 .. Len(steps)
      BY <3>1
    <3>4. QED
      BY <3>1, <3>2, <3>3
  <2>2. Max(1 .. (n + 1)) = n + 1 /\ (1 .. (n + 1)) \ {n + 1} = 1 .. n
    BY <2>1, LastOfFirst
  <2>3. it[1 .. (n + 1)] = ReposAfter(it[1 .. n], steps[n + 1])
    BY <1>3, <2>1, <2>2
  <2>4. QED
    BY <2>1, <2>3
<1>9. h[Len(steps)] = FoldLeft(ReposAfter, s0, steps)
  <2>1. QED
    BY <1>1
<1>10. AttachesOn(h, s0, steps)
  <2> HIDE DEF h
  <2>1. QED
    BY <1>7, <1>8 DEF AttachesOn
<1>11. QED
  <2> HIDE DEF h
  <2>1. QED
    BY <1>9, <1>10

-----------------------------------------------------------------------------
(* The creation form: the inductive invariant.                             *)

Statuses == {"None", "Editing", "Failed", "Pending", "Reconciling", "Interrupted", "Succeeded"}
FrozenStatuses == {"Pending", "Reconciling", "Interrupted", "Succeeded"}
DefaultStates == {"None", "Loading", "Ready", "Failed"}
PostKinds == {"Create", "Check", "Reconcile", "Default", "Workspaces", "Reviews"}

DraftTarget == [id : Int, repo : Repos, base : {"auto", "good", "bad"}, head : {"good", "bad"}]
SentTarget == [repo : Repos, base : {"default", "good", "bad"}, head : {"good", "bad"}]
Submission == [title : Titles \cup {Blank}, targets : Seq(SentTarget)]
ListedReview == [rid : Int, sub : [title : Titles \cup {Blank, Foreign}, targets : Seq(SentTarget)]]

Draft == [rid : Int, title : Titles \cup {Blank}, targets : Seq(DraftTarget),
          defaults : [Repos -> DefaultStates], selected : Int, revision : Int,
          status : Statuses, sub : Submission, next : {"None", "Inspect", "Retry"}]
Holder == [up : BOOLEAN, seen : Nat \cup {NoId}, known : BOOLEAN, repos : Seq(Repos), reviews : SUBSET ListedReview,
           cut : BOOLEAN]
Keepsake == [form : Draft, resume : {"Editing", "Submitted"}, foreign : BOOLEAN]
Allowance == [ready : BOOLEAN, revisions : Nat, forms : Nat, edits : Nat, fails : Nat,
              drops : Nat, deadlines : Nat, reloads : Nat, others : Nat]

\* An event of the daemon.
IsEvent(e) ==
  /\ e \in [kind : {"Created", "Updated", "Deleted", "Attached", "Detached"}, rid : Int,
            sub : Submission, repo : Repos \cup {NoId}]
  /\ e.kind = "Created" => e.repo = NoId
  /\ e.kind \in {"Attached", "Detached"} => e.repo \in Repos
IsLedger(l) ==
  /\ l \in Seq([kind : {"Created", "Updated", "Deleted", "Attached", "Detached"}, rid : Int,
                sub : Submission, repo : Repos \cup {NoId}])
  /\ \A n \in 1 .. Len(l) : IsEvent(l[n])

WasCreated(l, rid, sub) == \E n \in 1 .. Len(l) : l[n] = ReviewCreated(rid, sub)

\* A request: what has committed is in the ledger, where the answer says.
IsPost(l, j) ==
  /\ j \in [id : {j.id}, kind : PostKinds, rid : Int, repo : {j.repo}, sub : Submission, at : Nat,
            result : {"None", "Committed", "Refused"}, orphan : BOOLEAN]
  /\ j.result = "Committed" =>
       j.at \in 1 .. Len(l) /\ l[j.at] = ReviewCreated(j.rid, j.sub)

\* A frozen form shows what it sent, and one that succeeded what was created.
Settled(l, f) ==
  /\ f.status \in FrozenStatuses => f.sub = Snapshot(f) /\ SnapshotOK(f)
  /\ f.status = "Succeeded" => WasCreated(l, f.rid, f.sub)

Handled(l, s) ==
  /\ s = [f |-> s.f, jobs |-> s.jobs, c |-> s.c]
  /\ s.f \in Draft /\ s.c \in Holder
  /\ s.c.up => s.c.seen \in Nat
  /\ \A j \in s.jobs : IsPost(l, j)

\* What the form waits for can still come.
AskedFor(s, kinds, rid) == \E j \in s.jobs : j.kind \in kinds /\ ~j.orphan /\ j.rid = rid
DefaultsWaited(s) ==
  \A r \in Repos : s.f.defaults[r] = "Loading" =>
    s.c.up /\ \E j \in s.jobs : j.kind \in {"Default"} /\ ~j.orphan /\ j.rid = s.f.rid /\ j.repo = r
Waited(s) ==
  /\ s.f.status = "Pending" => s.c.up /\ AskedFor(s, {"Create"}, s.f.rid)
  /\ s.f.status = "Reconciling" => s.c.up /\ AskedFor(s, {"Check", "Reconcile"}, s.f.rid)
  /\ DefaultsWaited(s)

Holds(l, s) == Handled(l, s) /\ Settled(l, s.f) /\ (s.c.cut \/ Waited(s))

CreationInv ==
  /\ IsLedger(ledger)
  /\ Holds(ledger, S0)
  /\ saved \in Keepsake /\ Settled(ledger, saved.form)
  /\ allowance \in Allowance

-----------------------------------------------------------------------------
(* What is submitted.                                                      *)

\* A snapshot is a submission.
LEMMA SnapshotTyped ==
  ASSUME NEW f \in Draft, SnapshotOK(f)
  PROVE  Snapshot(f) \in Submission
<1>1. f.targets \in Seq(DraftTarget) /\ f.title \in Titles \cup {Blank}
  BY DEF Draft
<1>2. DOMAIN f.targets = 1 .. Len(f.targets) /\ Len(f.targets) \in Nat
  BY <1>1
<1>3. ASSUME NEW i \in 1 .. Len(f.targets)
      PROVE  [repo |-> f.targets[i].repo, base |-> BaseOf(f, f.targets[i]), head |-> f.targets[i].head] \in SentTarget
  <2>1. f.targets[i] \in DraftTarget
    BY <1>1, <1>3
  <2>2. f.targets[i].repo \in Repos /\ f.targets[i].base \in {"auto", "good", "bad"} /\ f.targets[i].head \in {"good", "bad"}
    BY <2>1 DEF DraftTarget
  <2>3. BaseOf(f, f.targets[i]) \in {"default", "good", "bad"}
    BY <2>2 DEF BaseOf
  <2>4. QED
    BY <2>2, <2>3 DEF SentTarget
<1> DEFINE q == [i \in 1 .. Len(f.targets) |->
                  [repo |-> f.targets[i].repo, base |-> BaseOf(f, f.targets[i]), head |-> f.targets[i].head]]
<1>4. q \in Seq(SentTarget)
  <2>1. \A i \in 1 .. Len(f.targets) : q[i] \in SentTarget
    BY <1>3
  <2> HIDE DEF q
  <2>2. q \in [1 .. Len(f.targets) -> SentTarget]
    BY <2>1 DEF q
  <2>3. QED
    BY <1>2, <2>2
<1>5. Snapshot(f) = [title |-> f.title, targets |-> q]
  BY <1>2 DEF Snapshot
<1>6. QED
  <2> HIDE DEF q
  <2>1. QED
    BY <1>1, <1>4, <1>5 DEF Submission

\* A default base that comes late changes no snapshot that could be made before.
LEMMA SnapshotKept ==
  ASSUME NEW f \in Draft, NEW g, SnapshotOK(f), g.title = f.title, g.targets = f.targets,
         \A r \in Repos : f.defaults[r] = "Ready" => g.defaults[r] = "Ready"
  PROVE  Snapshot(g) = Snapshot(f) /\ SnapshotOK(g)
<1>1. f.targets \in Seq(DraftTarget)
  BY DEF Draft
<1>2. ASSUME NEW i \in DOMAIN f.targets
      PROVE  BaseOf(g, f.targets[i]) = BaseOf(f, f.targets[i])
  <2>1. f.targets[i] \in DraftTarget
    BY <1>1, <1>2
  <2>2. f.targets[i].repo \in Repos
    BY <2>1 DEF DraftTarget
  <2>3. BaseOf(f, f.targets[i]) # "bad"
    BY <1>2 DEF SnapshotOK
  <2>4. QED
    BY <2>2, <2>3 DEF BaseOf
<1>3. QED
  BY <1>2 DEF Snapshot, SnapshotOK

\* A form stays settled when only what it does not show changes.
LEMMA SettledKept ==
  ASSUME NEW l, NEW f \in Draft, NEW g, Settled(l, f), g.title = f.title, g.targets = f.targets,
         g.rid = f.rid, g.sub = f.sub,
         \A r \in Repos : f.defaults[r] = "Ready" => g.defaults[r] = "Ready",
         g.status = f.status \/ g.status \notin FrozenStatuses
           \/ (f.status \in FrozenStatuses /\ g.status # "Succeeded")
  PROVE  Settled(l, g)
<1>1. CASE g.status \notin FrozenStatuses
  BY <1>1 DEF Settled, FrozenStatuses
<1>2. CASE g.status \in FrozenStatuses
  <2>1. f.status \in FrozenStatuses /\ (g.status = "Succeeded" => f.status = "Succeeded")
    BY <1>2
  <2>2. f.sub = Snapshot(f) /\ SnapshotOK(f)
    BY <2>1 DEF Settled
  <2>3. Snapshot(g) = Snapshot(f) /\ SnapshotOK(g)
    BY <2>2, SnapshotKept
  <2>4. QED
    BY <2>1, <2>2, <2>3 DEF Settled
<1>3. QED
  BY <1>1, <1>2

\* A longer ledger has what was created.
LEMMA SettledLater ==
  ASSUME NEW l, NEW e, NEW f, IsLedger(l), Settled(l, f)
  PROVE  Settled(Append(l, e), f)
<1>1. Len(l) \in Nat /\ Len(Append(l, e)) = Len(l) + 1 /\ \A n \in 1 .. Len(l) : Append(l, e)[n] = l[n]
  BY DEF IsLedger
<1>2. WasCreated(l, f.rid, f.sub) => WasCreated(Append(l, e), f.rid, f.sub)
  BY <1>1 DEF WasCreated
<1>3. QED
  BY <1>2 DEF Settled

\* The fields of a draft.
LEMMA DraftFields ==
  ASSUME NEW f \in Draft
  PROVE  /\ f.rid \in Int /\ f.title \in Titles \cup {Blank} /\ f.targets \in Seq(DraftTarget)
         /\ f.defaults \in [Repos -> DefaultStates] /\ f.selected \in Int /\ f.revision \in Int
         /\ f.status \in Statuses /\ f.sub \in Submission /\ f.next \in {"None", "Inspect", "Retry"}
  BY DEF Draft

\* The empty form is a draft, and settled.
LEMMA NoFormDraft ==
  ASSUME NEW l
  PROVE  NoForm \in Draft /\ Settled(l, NoForm) /\ NoSubmission \in Submission
<1>1. NoDefaults \in [Repos -> DefaultStates]
  BY DEF NoDefaults, DefaultStates
<1>2. <<>> \in Seq(DraftTarget) /\ <<>> \in Seq(SentTarget)
  OBVIOUS
<1>3. NoSubmission \in Submission
  BY <1>2 DEF NoSubmission, Submission
<1>4. NoForm \in Draft
  BY <1>1, <1>2, <1>3 DEF NoForm, Draft, Statuses, NoId, Blank
<1>5. NoForm.status = "None"
  BY DEF NoForm
<1>6. QED
  BY <1>3, <1>4, <1>5 DEF Settled, FrozenStatuses


-----------------------------------------------------------------------------
(* What the daemon answers from its ledger.                                *)

\* The first events of a ledger.
LEMMA LedgerPrefix ==
  ASSUME IsLedger(ledger), NEW n \in 0 .. LogEnd
  PROVE  /\ Len(SubSeq(ledger, 1, n)) = n /\ n \in Nat
         /\ DOMAIN SubSeq(ledger, 1, n) = 1 .. n
         /\ \A k \in 1 .. n : SubSeq(ledger, 1, n)[k] = ledger[k] /\ k \in 1 .. LogEnd /\ IsEvent(ledger[k])
  BY DEF IsLedger, LogEnd

\* A listed review is in the ledger, unless another client changed its title.
Known(v) == v.sub.title # Foreign => WasCreated(ledger, v.rid, v.sub)

\* One event keeps a list of reviews that are known.
LEMMA ListStep ==
  ASSUME NEW rs, NEW e, IsEvent(e), rs \in SUBSET ListedReview
  PROVE  ListAfter(rs, e) \in SUBSET ListedReview
<1>1. e.rid \in Int /\ e.sub.title \in Titles \cup {Blank, Foreign} /\ e.sub.targets \in Seq(SentTarget)
      /\ e.sub = [title |-> e.sub.title, targets |-> e.sub.targets]
  BY DEF IsEvent, Submission
<1>2. [rid |-> e.rid, sub |-> e.sub] \in ListedReview
  BY <1>1 DEF ListedReview
<1>3. \A v \in rs : [v EXCEPT !.sub.title = Foreign] \in ListedReview
  BY DEF ListedReview
<1>4. QED
  BY <1>2, <1>3 DEF ListAfter

\* One event keeps what is known of the reviews.
LEMMA KnownStep ==
  ASSUME NEW rs, NEW e, IsEvent(e), rs \in SUBSET ListedReview, \A v \in rs : Known(v),
         \E k \in 1 .. LogEnd : ledger[k] = e
  PROVE  \A v \in ListAfter(rs, e) : Known(v)
<1> SUFFICES ASSUME NEW v \in ListAfter(rs, e) PROVE Known(v)
  OBVIOUS
<1>1. CASE v \in rs
  BY <1>1
<1>2. CASE e.kind = "Created" /\ v = [rid |-> e.rid, sub |-> e.sub]
  <2>1. e = ReviewCreated(v.rid, v.sub)
    BY <1>2 DEF IsEvent, ReviewCreated
  <2>2. QED
    BY <2>1 DEF Known, WasCreated, LogEnd
<1>3. CASE e.kind = "Updated" /\ \E u \in rs : v = [u EXCEPT !.sub.title = Foreign]
  <2>1. v.sub.title = Foreign
    BY <1>3 DEF ListedReview
  <2>2. QED
    BY <2>1 DEF Known
<1>4. v \in rs \/ (e.kind = "Created" /\ v = [rid |-> e.rid, sub |-> e.sub])
        \/ (e.kind = "Updated" /\ \E u \in rs : v = [u EXCEPT !.sub.title = Foreign])
  BY DEF ListAfter
<1>5. QED
  BY <1>1, <1>2, <1>3, <1>4

\* Every review the daemon lists is one that was created, with the inputs it
\* was created with unless another client changed them.
LEMMA ReviewsKnown ==
  ASSUME IsLedger(ledger), NEW n \in 0 .. LogEnd
  PROVE  ReviewsAt(n) \in SUBSET ListedReview /\ \A v \in ReviewsAt(n) : Known(v)
<1> DEFINE q == SubSeq(ledger, 1, n)
<1>1. /\ Len(q) = n /\ n \in Nat /\ DOMAIN q = 1 .. n
      /\ \A k \in 1 .. n : q[k] = ledger[k] /\ k \in 1 .. LogEnd /\ IsEvent(ledger[k])
  BY LedgerPrefix
<1>2. PICK h : ListsOn(h, {}, q) /\ FoldLeft(ListAfter, {}, q) = h[n]
  <2> HIDE DEF q
  <2>1. QED
    BY <1>1, ReviewsFollow
<1> DEFINE T == {k \in Nat : k <= n => h[k] \in SUBSET ListedReview /\ \A v \in h[k] : Known(v)}
<1>3. 0 \in T
  BY <1>2 DEF ListsOn
<1>4. ASSUME NEW k \in Nat, k \in T PROVE k + 1 \in T
  <2> SUFFICES ASSUME k + 1 <= n PROVE h[k + 1] \in SUBSET ListedReview /\ \A v \in h[k + 1] : Known(v)
    OBVIOUS
  <2>1. k \in 0 .. (Len(q) - 1) /\ k + 1 \in 1 .. n /\ k <= n
    BY <1>1
  <2>2. h[k] \in SUBSET ListedReview /\ \A v \in h[k] : Known(v)
    BY <1>4, <2>1
  <2>3. q[k + 1] = ledger[k + 1] /\ k + 1 \in 1 .. LogEnd /\ IsEvent(ledger[k + 1])
    BY <1>1, <2>1
  <2>4. h[k + 1] = ListAfter(h[k], ledger[k + 1])
    <3> HIDE DEF q
    <3>1. QED
      BY <1>2, <2>1, <2>3 DEF ListsOn
  <2>5. QED
    <3> HIDE DEF q
    <3>1. QED
      BY <2>2, <2>3, <2>4, ListStep, KnownStep
<1>5. n \in T
  <2> HIDE DEF T
  <2>1. QED
    BY <1>1, <1>3, <1>4, NaturalsByStep
<1>6. ReviewsAt(n) = h[n]
  BY <1>2 DEF ReviewsAt
<1>7. QED
  BY <1>1, <1>5, <1>6

\* Taking an element out of a sequence leaves a sequence.
LEMMA TakenOut ==
  ASSUME NEW S, NEW q \in Seq(S), NEW i \in 1 .. Len(q)
  PROVE  RemoveAt(q, i) \in Seq(S)
<1>1. SubSeq(q, 1, i - 1) \in Seq(S) /\ SubSeq(q, i + 1, Len(q)) \in Seq(S)
  OBVIOUS
<1>2. QED
  BY <1>1 DEF RemoveAt

\* A set of positions has a least one.
LEMMA LeastPosition ==
  ASSUME NEW n \in Nat, NEW s \in SUBSET (1 .. n), s # {}
  PROVE  Min(s) \in s
<1>1. s \in SUBSET Nat
  OBVIOUS
<1>2. PICK x \in s : \A y \in s : ~ (<<y, x>> \in OpToRel(<, Nat))
  BY <1>1, NatLessThanWellFounded, WFMin
<1>3. ASSUME NEW y \in s PROVE x <= y
  <2> SUFFICES ASSUME y < x PROVE FALSE
    BY <1>1
  <2>1. y \in Nat /\ x \in Nat
    BY <1>1
  <2>2. <<y, x>> \in OpToRel(<, Nat)
    BY <2>1 DEF OpToRel
  <2>3. QED
    BY <1>2, <2>2
<1>4. \E m \in s : \A y \in s : m <= y
  BY <1>3
<1>5. QED
  BY <1>4 DEF Min

\* One event keeps a list of repositories one.
LEMMA ReposStep ==
  ASSUME NEW rs \in Seq(Repos), NEW e, IsEvent(e)
  PROVE  ReposAfter(rs, e) \in Seq(Repos)
<1>1. RemoveFirst(rs, e.repo) \in Seq(Repos)
  <2> DEFINE I == {i \in 1 .. Len(rs) : rs[i] = e.repo}
  <2>1. CASE \E i \in 1 .. Len(rs) : rs[i] = e.repo
    <3>1. I # {} /\ I \in SUBSET (1 .. Len(rs)) /\ Len(rs) \in Nat
      BY <2>1
    <3>2. Min(I) \in 1 .. Len(rs)
      <4> HIDE DEF I
      <4>1. QED
        BY <3>1, LeastPosition
    <3>3. RemoveFirst(rs, e.repo) = RemoveAt(rs, Min(I))
      BY <2>1, <3>1 DEF RemoveFirst, SelectInSeq
    <3>4. QED
      <4> HIDE DEF I
      <4>1. QED
        BY <3>2, <3>3, TakenOut
  <2>2. CASE ~ \E i \in 1 .. Len(rs) : rs[i] = e.repo
    BY <2>2 DEF RemoveFirst
  <2>3. QED
    BY <2>1, <2>2
<1>2. e.kind \in {"Attached", "Detached"} => e.repo \in Repos
  BY DEF IsEvent
<1>3. e.kind \in {"Attached", "Detached"} => Append(RemoveFirst(rs, e.repo), e.repo) \in Seq(Repos)
  BY <1>1, <1>2
<1>4. QED
  BY <1>1, <1>3 DEF ReposAfter

\* The daemon's repositories are repositories.
LEMMA ReposTyped ==
  ASSUME IsLedger(ledger), NEW n \in 0 .. LogEnd
  PROVE  ReposAt(n) \in Seq(Repos)
<1> DEFINE q == SubSeq(ledger, 1, n)
<1>1. /\ Len(q) = n /\ n \in Nat /\ DOMAIN q = 1 .. n
      /\ \A k \in 1 .. n : q[k] = ledger[k] /\ k \in 1 .. LogEnd /\ IsEvent(ledger[k])
  BY LedgerPrefix
<1>2. PICK h : AttachesOn(h, FirstRepos, q) /\ FoldLeft(ReposAfter, FirstRepos, q) = h[n]
  <2> HIDE DEF q
  <2>1. QED
    BY <1>1, ReposFollow
<1> DEFINE T == {k \in Nat : k <= n => h[k] \in Seq(Repos)}
<1>3. 0 \in T
  BY <1>2, CreationAssumption DEF AttachesOn
<1>4. ASSUME NEW k \in Nat, k \in T PROVE k + 1 \in T
  <2> SUFFICES ASSUME k + 1 <= n PROVE h[k + 1] \in Seq(Repos)
    OBVIOUS
  <2>1. k \in 0 .. (Len(q) - 1) /\ k + 1 \in 1 .. n /\ k <= n
    BY <1>1
  <2>2. h[k] \in Seq(Repos)
    BY <1>4, <2>1
  <2>3. q[k + 1] = ledger[k + 1] /\ IsEvent(ledger[k + 1])
    BY <1>1, <2>1
  <2>4. h[k + 1] = ReposAfter(h[k], ledger[k + 1])
    <3> HIDE DEF q
    <3>1. QED
      BY <1>2, <2>1, <2>3 DEF AttachesOn
  <2>5. QED
    <3> HIDE DEF q
    <3>1. QED
      BY <2>2, <2>3, <2>4, ReposStep
<1>5. n \in T
  <2> HIDE DEF T
  <2>1. QED
    BY <1>1, <1>3, <1>4, NaturalsByStep
<1>6. ReposAt(n) = h[n]
  BY <1>2 DEF ReposAt
<1>7. QED
  BY <1>1, <1>5, <1>6


-----------------------------------------------------------------------------
(* Asking.                                                                 *)

\* A change of the requests alone.
LEMMA JobsOnly ==
  ASSUME NEW s, s = [f |-> s.f, jobs |-> s.jobs, c |-> s.c], NEW x
  PROVE  [s EXCEPT !.jobs = x] = [f |-> s.f, jobs |-> x, c |-> s.c]
  OBVIOUS

\* A request is added, and the rest is left alone.
LEMMA AsksDoes ==
  ASSUME IsLedger(ledger), NEW s, Handled(ledger, s), NEW kind \in PostKinds, NEW rid \in Int, NEW repo,
         NEW sub \in Submission
  PROVE  LET t == Asks(s, kind, rid, repo, sub) IN
         /\ Handled(ledger, t) /\ t.f = s.f /\ t.c = s.c /\ s.jobs \subseteq t.jobs
         /\ \E j \in t.jobs : j.kind = kind /\ ~j.orphan /\ j.rid = rid /\ j.repo = repo
<1> DEFINE j == [id |-> FreeJob(s), kind |-> kind, rid |-> rid, repo |-> repo,
                 sub |-> sub, at |-> LogEnd, result |-> "None", orphan |-> FALSE]
           t == Asks(s, kind, rid, repo, sub)
<1>1. t = [f |-> s.f, jobs |-> s.jobs \cup {j}, c |-> s.c]
  <2>1. s = [f |-> s.f, jobs |-> s.jobs, c |-> s.c]
    BY DEF Handled
  <2>2. [s EXCEPT !.jobs = s.jobs \cup {j}] = [f |-> s.f, jobs |-> s.jobs \cup {j}, c |-> s.c]
    <3> HIDE DEF j
    <3>1. QED
      BY <2>1, JobsOnly
  <2>3. t = [s EXCEPT !.jobs = s.jobs \cup {j}]
    BY DEF Asks
  <2>4. QED
    <3> HIDE DEF j, t
    <3>1. QED
      BY <2>2, <2>3
<1>2. LogEnd \in Nat
  BY DEF IsLedger, LogEnd
<1>3. IsPost(ledger, j)
  BY <1>2 DEF IsPost
<1>4. j \in s.jobs \cup {j} /\ j.kind = kind /\ ~j.orphan /\ j.rid = rid /\ j.repo = repo
  OBVIOUS
<1> HIDE DEF j, t
<1>5. t.f = s.f /\ t.c = s.c /\ t.jobs = s.jobs \cup {j} /\ t = [f |-> t.f, jobs |-> t.jobs, c |-> t.c]
  BY <1>1
<1>6. Handled(ledger, t)
  BY <1>3, <1>5 DEF Handled
<1>7. QED
  BY <1>4, <1>5, <1>6 DEF t

\* What asking for defaults may have done.
AskedFrom(s, t) ==
  /\ Handled(ledger, t) /\ t.c = s.c /\ s.jobs \subseteq t.jobs
  /\ t.f = [s.f EXCEPT !.defaults = t.f.defaults]
  /\ \A r \in Repos :
       \/ t.f.defaults[r] = s.f.defaults[r]
       \/ /\ t.f.defaults[r] = "Loading" /\ s.f.defaults[r] = "None"
          /\ \E j \in t.jobs : j.kind \in {"Default"} /\ ~j.orphan /\ j.rid = s.f.rid /\ j.repo = r

\* One default is asked for.
LEMMA AskStep ==
  ASSUME IsLedger(ledger), NEW s, Handled(ledger, s), NEW t, AskedFrom(s, t), NEW x \in DraftTarget
  PROVE  AskedFrom(s, AskDefault(t, x))
<1>1. CASE t.f.defaults[x.repo] # "None"
  BY <1>1 DEF AskDefault
<1>2. CASE t.f.defaults[x.repo] = "None"
  <2> DEFINE u == [t EXCEPT !.f.defaults[x.repo] = "Loading"]
             w == Asks(u, "Default", t.f.rid, x.repo, NoSubmission)
  <2>1. AskDefault(t, x) = w
    BY <1>2 DEF AskDefault
  <2>2. x.repo \in Repos
    BY DEF DraftTarget
  <2>3. Handled(ledger, t) /\ t = [f |-> t.f, jobs |-> t.jobs, c |-> t.c] /\ t.f \in Draft
    BY DEF AskedFrom, Handled
  <2>4. u = [f |-> [t.f EXCEPT !.defaults = [t.f.defaults EXCEPT ![x.repo] = "Loading"]], jobs |-> t.jobs, c |-> t.c]
    BY <2>3
  <2>5. [t.f EXCEPT !.defaults = [t.f.defaults EXCEPT ![x.repo] = "Loading"]] \in Draft
    BY <2>3 DEF Draft, DefaultStates
  <2>6. Handled(ledger, u)
    <3> HIDE DEF u
    <3>1. u.f = [t.f EXCEPT !.defaults = [t.f.defaults EXCEPT ![x.repo] = "Loading"]] /\ u.jobs = t.jobs /\ u.c = t.c
      BY <2>4
    <3>2. QED
      BY <2>3, <2>4, <2>5, <3>1 DEF Handled
  <2>7. t.f.rid \in Int /\ NoSubmission \in Submission /\ "Default" \in PostKinds
    BY <2>3, DraftFields, NoFormDraft DEF PostKinds
  <2>8. /\ Handled(ledger, w) /\ w.f = u.f /\ w.c = u.c /\ u.jobs \subseteq w.jobs
        /\ \E j \in w.jobs : j.kind = "Default" /\ ~j.orphan /\ j.rid = t.f.rid /\ j.repo = x.repo
    <3> HIDE DEF u
    <3>1. QED
      BY <2>6, <2>7, AsksDoes
  <2>9. s.f \in Draft /\ s.f.defaults \in [Repos -> DefaultStates]
    BY DraftFields DEF Handled
  <2>10. t.f = [s.f EXCEPT !.defaults = t.f.defaults] /\ t.c = s.c /\ s.jobs \subseteq t.jobs
    BY DEF AskedFrom
  <2>11. t.f.rid = s.f.rid
    BY <2>9, <2>10 DEF Draft
  <2>12. w.f = [s.f EXCEPT !.defaults = w.f.defaults] /\ w.f.defaults = [t.f.defaults EXCEPT ![x.repo] = "Loading"]
    <3>1. u.f = [t.f EXCEPT !.defaults = [t.f.defaults EXCEPT ![x.repo] = "Loading"]]
      BY <2>4
    <3>2. u.f.defaults = [t.f.defaults EXCEPT ![x.repo] = "Loading"]
      BY <2>3, <3>1 DEF Draft
    <3>3. [t.f EXCEPT !.defaults = u.f.defaults] = [s.f EXCEPT !.defaults = u.f.defaults]
      BY <2>9, <2>10 DEF Draft
    <3> HIDE DEF u, w
    <3>4. QED
      BY <2>8, <3>1, <3>2, <3>3
  <2>13. u.jobs = t.jobs /\ u.c = t.c
    BY <2>4
  <2>14. t.f.defaults \in [Repos -> DefaultStates]
    BY <2>3, DraftFields
  <2>15. ASSUME NEW r \in Repos
         PROVE  \/ w.f.defaults[r] = s.f.defaults[r]
                \/ /\ w.f.defaults[r] = "Loading" /\ s.f.defaults[r] = "None"
                   /\ \E j \in w.jobs : j.kind \in {"Default"} /\ ~j.orphan /\ j.rid = s.f.rid /\ j.repo = r
    <3> HIDE DEF u, w
    <3>1. \/ t.f.defaults[r] = s.f.defaults[r]
          \/ /\ t.f.defaults[r] = "Loading" /\ s.f.defaults[r] = "None"
             /\ \E j \in t.jobs : j.kind \in {"Default"} /\ ~j.orphan /\ j.rid = s.f.rid /\ j.repo = r
      BY DEF AskedFrom
    <3>2. CASE r = x.repo
      <4>1. w.f.defaults[r] = "Loading"
        BY <2>2, <2>12, <2>14, <3>2
      <4>2. s.f.defaults[r] = "None"
        BY <1>2, <3>1, <3>2
      <4>3. QED
        BY <2>8, <2>11, <3>2, <4>1, <4>2
    <3>3. CASE r # x.repo
      <4>1. w.f.defaults[r] = t.f.defaults[r]
        BY <2>12, <2>14, <3>3
      <4>2. t.jobs \subseteq w.jobs
        BY <2>8, <2>13
      <4>3. QED
        BY <3>1, <4>1, <4>2
    <3>4. QED
      BY <3>2, <3>3
  <2>16. QED
    <3> HIDE DEF u, w
    <3>1. w.c = s.c /\ s.jobs \subseteq w.jobs
      BY <2>8, <2>10, <2>13
    <3>2. AskedFrom(s, w)
      BY <2>8, <2>12, <2>15, <3>1 DEF AskedFrom
    <3>3. QED
      BY <2>1, <3>2
<1>3. QED
  BY <1>1, <1>2

\* Asking for the defaults of a draft does that and no more.
LEMMA DefaultsAsked ==
  ASSUME IsLedger(ledger), NEW s, Handled(ledger, s)
  PROVE  /\ AskedFrom(s, CreationDefaults(s))
         /\ (~s.c.up \/ ~Editable(s.f)) => CreationDefaults(s) = s
<1>1. AskedFrom(s, s)
  <2>1. s.f = [s.f EXCEPT !.defaults = s.f.defaults]
    BY DEF Handled, Draft
  <2>2. QED
    BY <2>1 DEF AskedFrom
<1>2. CASE ~s.c.up \/ ~Editable(s.f)
  BY <1>1, <1>2 DEF CreationDefaults
<1>3. CASE s.c.up /\ Editable(s.f)
  <2> DEFINE q == s.f.targets
             n == Len(s.f.targets)
  <2>1. q \in Seq(DraftTarget) /\ n \in Nat /\ DOMAIN q = 1 .. n
    BY DraftFields DEF Handled
  <2>2. PICK h : AsksOn(h, s, q) /\ FoldLeft(AskDefault, s, q) = h[n]
    BY <2>1, DefaultsFollow
  <2> DEFINE T == {k \in Nat : k <= n => AskedFrom(s, h[k])}
  <2>3. 0 \in T
    BY <1>1, <2>2 DEF AsksOn
  <2>4. ASSUME NEW k \in Nat, k \in T PROVE k + 1 \in T
    <3> SUFFICES ASSUME k + 1 <= n PROVE AskedFrom(s, h[k + 1])
      OBVIOUS
    <3>1. k \in 0 .. (n - 1) /\ k + 1 \in 1 .. n /\ k <= n
      BY <2>1
    <3>2. AskedFrom(s, h[k])
      BY <2>4, <3>1
    <3>3. h[k + 1] = AskDefault(h[k], q[k + 1])
      BY <2>2, <3>1 DEF AsksOn
    <3>4. q[k + 1] \in DraftTarget
      BY <2>1, <3>1
    <3>5. QED
      BY <3>2, <3>3, <3>4, AskStep
  <2>5. n \in T
    <3> HIDE DEF T
    <3>1. QED
      BY <2>1, <2>3, <2>4, NaturalsByStep
  <2>6. CreationDefaults(s) = h[n]
    BY <1>3, <2>2 DEF CreationDefaults
  <2>7. AskedFrom(s, CreationDefaults(s))
    BY <2>1, <2>5, <2>6
  <2>8. QED
    BY <1>3, <2>7
<1>4. QED
  BY <1>2, <1>3

\* Asking for defaults keeps the invariant.
LEMMA DefaultsHold ==
  ASSUME IsLedger(ledger), NEW s, Holds(ledger, s)
  PROVE  LET t == CreationDefaults(s) IN
         /\ Holds(ledger, t) /\ t.c = s.c /\ s.jobs \subseteq t.jobs
         /\ t.f.status = s.f.status /\ t.f.rid = s.f.rid
<1> DEFINE t == CreationDefaults(s)
<1>1. Handled(ledger, s)
  BY DEF Holds
<1>2. CASE ~s.c.up \/ ~Editable(s.f)
  BY <1>1, <1>2, DefaultsAsked
<1>3. CASE s.c.up /\ Editable(s.f)
  <2>1. AskedFrom(s, t)
    BY <1>1, DefaultsAsked
  <2> HIDE DEF t
  <2>2. s.f \in Draft /\ t.f = [s.f EXCEPT !.defaults = t.f.defaults] /\ t.c = s.c /\ s.jobs \subseteq t.jobs
    BY <1>1, <2>1 DEF AskedFrom, Handled
  <2>3. t.f.status = s.f.status /\ t.f.rid = s.f.rid
    BY <2>2 DEF Draft
  <2>4. t.f.status \in {"Editing", "Failed"}
    BY <1>3, <2>3 DEF Editable
  <2>5. Settled(ledger, t.f)
    BY <2>4 DEF Settled, FrozenStatuses
  <2>6. s.c.cut \/ Waited(t)
    <3> SUFFICES ASSUME Waited(s) PROVE Waited(t)
      BY DEF Holds
    <3>1. ASSUME NEW r \in Repos, t.f.defaults[r] = "Loading"
          PROVE  t.c.up /\ \E j \in t.jobs : j.kind \in {"Default"} /\ ~j.orphan /\ j.rid = t.f.rid /\ j.repo = r
      <4>1. \/ t.f.defaults[r] = s.f.defaults[r]
            \/ \E j \in t.jobs : j.kind \in {"Default"} /\ ~j.orphan /\ j.rid = s.f.rid /\ j.repo = r
        BY <2>1 DEF AskedFrom
      <4>2. s.f.defaults[r] = "Loading" => \E j \in s.jobs : j.kind \in {"Default"} /\ ~j.orphan /\ j.rid = s.f.rid /\ j.repo = r
        BY DEF Waited, DefaultsWaited
      <4>3. QED
        BY <1>3, <2>2, <2>3, <3>1, <4>1, <4>2
    <3>2. QED
      BY <2>4, <3>1 DEF Waited, DefaultsWaited
  <2>7. Handled(ledger, t)
    BY <2>1 DEF AskedFrom
  <2>8. QED
    BY <2>2, <2>3, <2>5, <2>6, <2>7 DEF Holds, t
<1>4. QED
  BY <1>2, <1>3


-----------------------------------------------------------------------------
(* Editing.                                                                *)

\* A change of the form alone, or of the client alone.
LEMMA FormOnly ==
  ASSUME NEW s, s = [f |-> s.f, jobs |-> s.jobs, c |-> s.c], NEW x
  PROVE  /\ [s EXCEPT !.f = x] = [f |-> x, jobs |-> s.jobs, c |-> s.c]
         /\ [s EXCEPT !.c = x] = [f |-> s.f, jobs |-> s.jobs, c |-> x]
  OBVIOUS

\* The invariant of the parts.
LEMMA HoldsOf ==
  ASSUME NEW l, NEW f \in Draft, NEW tasks, NEW c \in Holder, c.up => c.seen \in Nat, \A j \in tasks : IsPost(l, j),
         Settled(l, f), c.cut \/ Waited([f |-> f, jobs |-> tasks, c |-> c])
  PROVE  Holds(l, [f |-> f, jobs |-> tasks, c |-> c])
  BY DEF Holds, Handled

\* The parts of the invariant.
LEMMA PartsOf ==
  ASSUME NEW l, NEW s, Holds(l, s)
  PROVE  /\ s = [f |-> s.f, jobs |-> s.jobs, c |-> s.c] /\ s.f \in Draft /\ s.c \in Holder
         /\ s.c.up => s.c.seen \in Nat
         /\ \A j \in s.jobs : IsPost(l, j)
         /\ Settled(l, s.f) /\ (s.c.cut \/ Waited(s))
  BY DEF Holds, Handled

\* A step of the client's handlers.
LEMMA SetsStep ==
  ASSUME CreationInv, NEW s, Holds(ledger, s), Sets(s), ledger' = ledger, saved' = saved,
         allowance' \in Allowance
  PROVE  CreationInv'
<1>1. s = [f |-> s.f, jobs |-> s.jobs, c |-> s.c]
  BY PartsOf
<1>2. S0' = s
  BY <1>1 DEF S0, Sets
<1>4. Holds(ledger, S0)'
  BY <1>2 DEF Holds, Handled, IsPost, Settled, WasCreated, Waited, DefaultsWaited, AskedFor
<1>5. IsLedger(ledger)' /\ (saved \in Keepsake)' /\ Settled(ledger, saved.form)'
  BY DEF CreationInv, Settled, WasCreated
<1>6. QED
  BY <1>4, <1>5 DEF CreationInv

\* An input is used up.
LEMMA UsesStep ==
  ASSUME allowance \in Allowance
  PROVE  \A what \in {"forms", "edits", "fails", "drops", "deadlines", "reloads", "others"} :
           Uses(what) => allowance' \in Allowance
  BY DEF Allowance, Uses

\* An edited draft waits for the same defaults.
LEMMA EditHolds ==
  ASSUME NEW s, Holds(ledger, s), NEW f \in Draft, Editable(f), f.rid = s.f.rid, f.defaults = s.f.defaults
  PROVE  Holds(ledger, [s EXCEPT !.f = f]) /\ [s EXCEPT !.f = f] = [f |-> f, jobs |-> s.jobs, c |-> s.c]
<1>1. /\ s = [f |-> s.f, jobs |-> s.jobs, c |-> s.c] /\ s.c \in Holder /\ (s.c.up => s.c.seen \in Nat)
      /\ \A j \in s.jobs : IsPost(ledger, j)
      /\ s.c.cut \/ Waited(s)
  BY PartsOf
<1>2. [s EXCEPT !.f = f] = [f |-> f, jobs |-> s.jobs, c |-> s.c]
  BY <1>1, FormOnly
<1>3. f.status \in {"Editing", "Failed"}
  BY DEF Editable
<1>4. Settled(ledger, f)
  BY <1>3 DEF Settled, FrozenStatuses
<1>5. Waited(s) => Waited([f |-> f, jobs |-> s.jobs, c |-> s.c])
  BY <1>3 DEF Waited, DefaultsWaited, AskedFor
<1>6. QED
  BY <1>1, <1>2, <1>4, <1>5, HoldsOf

\* A new status of a draft.
LEMMA StatusDraft ==
  ASSUME NEW f \in Draft, NEW st \in Statuses
  PROVE  LET g == [f EXCEPT !.status = st] IN
         /\ g \in Draft /\ g.status = st /\ g.rid = f.rid /\ g.title = f.title /\ g.targets = f.targets
         /\ g.defaults = f.defaults /\ g.sub = f.sub /\ g.next = f.next
  BY DEF Draft

\* An edit ends in an editable draft.
LEMMA EditedDraft ==
  ASSUME NEW f \in Draft
  PROVE  Edited(f) \in Draft /\ Editable(Edited(f)) /\ Edited(f).rid = f.rid /\ Edited(f).defaults = f.defaults
<1>1. PICK st \in {"Editing", "Failed"} : Edited(f) = [f EXCEPT !.status = st]
  BY DEF Edited
<1>2. st \in Statuses
  BY DEF Statuses
<1>3. QED
  BY <1>1, <1>2, StatusDraft DEF Editable

\* The form with its next revision.
LEMMA RevisedDraft ==
  ASSUME NEW f \in Draft
  PROVE  LET g == [f EXCEPT !.revision = @ + 1] IN
         /\ g \in Draft /\ g.status = f.status /\ g.rid = f.rid /\ g.title = f.title /\ g.targets = f.targets
         /\ g.defaults = f.defaults /\ g.sub = f.sub
  BY SMTT(20) DEF Draft

\* The parts of the state.
LEMMA S0Parts ==
  ASSUME CreationInv
  PROVE  /\ S0 = [f |-> form, jobs |-> posts, c |-> client] /\ S0.f = form /\ S0.jobs = posts /\ S0.c = client
         /\ Holds(ledger, S0) /\ form \in Draft /\ client \in Holder /\ (client.up => client.seen \in Nat) /\ \A j \in posts : IsPost(ledger, j)
         /\ Settled(ledger, form) /\ (client.cut \/ Waited(S0))
         /\ Revised \in Draft /\ Revised.status = form.status /\ Revised.rid = form.rid /\ Revised.title = form.title
         /\ Revised.targets = form.targets /\ Revised.defaults = form.defaults /\ Revised.sub = form.sub
<1>1. S0 = [f |-> form, jobs |-> posts, c |-> client] /\ S0.f = form /\ S0.jobs = posts /\ S0.c = client
  BY DEF S0
<1>2. Holds(ledger, S0)
  BY DEF CreationInv
<1>3. form \in Draft /\ client \in Holder /\ (client.up => client.seen \in Nat) /\ (\A j \in posts : IsPost(ledger, j))
      /\ Settled(ledger, form) /\ (client.cut \/ Waited(S0))
  BY <1>1, <1>2, PartsOf
<1>4. QED
  BY <1>1, <1>2, <1>3, RevisedDraft DEF Revised

\* A new form.
LEMMA StartStep ==
  ASSUME CreationInv, StartReview
  PROVE  CreationInv'
<1> DEFINE rid == allowance.forms
           f0 == [NoForm EXCEPT !.rid = rid, !.status = "Editing",
                    !.targets = IF client.repos = <<>> THEN <<>> ELSE <<NewTarget(0, client.repos[1])>>]
           s0 == [S0 EXCEPT !.f = f0]
<1>1. /\ S0 = [f |-> form, jobs |-> posts, c |-> client] /\ S0.f = form /\ S0.jobs = posts /\ S0.c = client
      /\ Holds(ledger, S0) /\ client \in Holder /\ (client.up => client.seen \in Nat) /\ \A j \in posts : IsPost(ledger, j)
  BY S0Parts
<1>2. Sets(StartCreation(S0, rid)) /\ ledger' = ledger /\ saved' = saved /\ Uses("forms")
  BY DEF StartReview
<1>3. allowance \in Allowance /\ allowance' \in Allowance /\ rid \in Int /\ IsLedger(ledger)
  BY <1>2, UsesStep DEF CreationInv, Allowance
<1>4. Holds(ledger, StartCreation(S0, rid))
  <2>1. CASE Active(form)
    BY <1>1, <2>1 DEF StartCreation
  <2>2. CASE ~Active(form)
    <3>1. StartCreation(S0, rid) = CreationDefaults(s0)
      BY <1>1, <2>2 DEF StartCreation
    <3>2. client.repos # <<>> => client.repos[1] \in Repos
      BY <1>1 DEF Holder
    <3>3. client.repos # <<>> => <<NewTarget(0, client.repos[1])>> \in Seq(DraftTarget)
      <4>1. client.repos # <<>> => NewTarget(0, client.repos[1]) \in DraftTarget
        BY <3>2 DEF NewTarget, DraftTarget
      <4>2. QED
        BY <4>1
    <3>4. NoForm \in Draft /\ NoForm.defaults = NoDefaults
      BY NoFormDraft DEF NoForm
    <3>5. f0 \in Draft /\ f0.status = "Editing" /\ f0.defaults = NoDefaults
      <4>1. PICK q \in Seq(DraftTarget) : f0 = [NoForm EXCEPT !.rid = rid, !.status = "Editing", !.targets = q]
        <5>1. CASE client.repos = <<>>
          <6>1. <<>> \in Seq(DraftTarget)
            OBVIOUS
          <6>2. f0 = [NoForm EXCEPT !.rid = rid, !.status = "Editing", !.targets = <<>>]
            BY <5>1
          <6> HIDE DEF f0, rid
          <6>3. QED
            BY <6>1, <6>2
        <5>2. CASE client.repos # <<>>
          <6> DEFINE q == <<NewTarget(0, client.repos[1])>>
          <6>1. q \in Seq(DraftTarget)
            BY <3>3, <5>2
          <6>2. f0 = [NoForm EXCEPT !.rid = rid, !.status = "Editing", !.targets = q]
            BY <5>2
          <6> HIDE DEF f0, rid, q
          <6>3. QED
            BY <6>1, <6>2
        <5>3. QED
          BY <5>1, <5>2
      <4> HIDE DEF f0, rid
      <4>2. QED
        BY <1>3, <3>4, <4>1 DEF Draft, Statuses
    <3>6. s0 = [f |-> f0, jobs |-> posts, c |-> client]
      <4> HIDE DEF f0
      <4>1. QED
        BY <1>1, FormOnly
    <3> HIDE DEF f0
    <3>7. Settled(ledger, f0)
      BY <3>5 DEF Settled, FrozenStatuses
    <3>8. Waited([f |-> f0, jobs |-> posts, c |-> client])
      BY <3>5 DEF Waited, DefaultsWaited, NoDefaults
    <3>9. Holds(ledger, s0)
      BY <1>1, <3>5, <3>6, <3>7, <3>8, HoldsOf
    <3> HIDE DEF s0
    <3>10. QED
      BY <1>3, <3>1, <3>9, DefaultsHold
  <2>3. QED
    BY <2>1, <2>2
<1>5. QED
  <2> HIDE DEF rid
  <2>1. QED
    BY <1>2, <1>3, <1>4, SetsStep

\* A form that is dismissed.
LEMMA CancelStep ==
  ASSUME CreationInv, CancelNewReview
  PROVE  CreationInv'
<1>1. /\ S0 = [f |-> form, jobs |-> posts, c |-> client]
      /\ client \in Holder /\ (client.up => client.seen \in Nat) /\ \A j \in posts : IsPost(ledger, j)
  BY S0Parts
<1>2. NoForm \in Draft /\ Settled(ledger, NoForm)
  BY NoFormDraft
<1>3. Waited([f |-> NoForm, jobs |-> posts, c |-> client])
  BY DEF Waited, DefaultsWaited, NoForm, NoDefaults
<1> DEFINE s == [f |-> NoForm, jobs |-> posts, c |-> client]
<1>4. Holds(ledger, s)
  BY <1>1, <1>2, <1>3, HoldsOf
<1>5. Sets(s) /\ ledger' = ledger /\ saved' = saved /\ allowance' \in Allowance
  BY DEF CancelNewReview, Sets, CreationInv
<1>6. QED
  <2> HIDE DEF s
  <2>1. QED
    BY <1>4, <1>5, SetsStep

\* An edit that changes the draft alone.
LEMMA DraftMoves ==
  ASSUME CreationInv, NEW f \in Draft, Editable(f), f.rid = form.rid, f.defaults = form.defaults,
         form' = f, UNCHANGED <<ledger, posts, client, saved>>, allowance' \in Allowance
  PROVE  CreationInv'
<1> DEFINE s == [S0 EXCEPT !.f = f]
<1>1. Holds(ledger, s) /\ s = [f |-> f, jobs |-> posts, c |-> client]
  BY S0Parts, EditHolds
<1>2. Sets(s)
  BY <1>1 DEF Sets
<1>3. QED
  <2> HIDE DEF s
  <2>1. QED
    BY <1>1, <1>2, SetsStep

\* The title, the selection, a target that is removed, an input that failed.
LEMMA SmallEdits ==
  ASSUME CreationInv, EditTitle \/ SelectCreationTarget \/ RemoveCreationTarget \/ InvalidAction
  PROVE  CreationInv'
<1>1. /\ form \in Draft /\ Revised \in Draft /\ Revised.rid = form.rid /\ Revised.defaults = form.defaults
      /\ Revised.status = form.status /\ Revised.targets = form.targets /\ allowance \in Allowance
  BY S0Parts DEF CreationInv
<1>2. CASE EditTitle
  <2>1. PICK t \in Titles \ {form.title} : form' = Edited([Revised EXCEPT !.title = t])
    BY <1>2 DEF EditTitle
  <2> DEFINE f == [Revised EXCEPT !.title = t]
  <2>2. f \in Draft /\ f.rid = form.rid /\ f.defaults = form.defaults
    BY <1>1 DEF Draft
  <2> HIDE DEF f
  <2>3. Edited(f) \in Draft /\ Editable(Edited(f)) /\ Edited(f).rid = form.rid /\ Edited(f).defaults = form.defaults
    BY <2>2, EditedDraft
  <2>4. form' = Edited(f) /\ UNCHANGED <<ledger, posts, client, saved>> /\ allowance' \in Allowance
    BY <1>1, <1>2, <2>1 DEF EditTitle, f
  <2>5. QED
    BY <2>3, <2>4, DraftMoves
<1>3. CASE SelectCreationTarget
  <2>1. PICK i \in DOMAIN form.targets : form' = [Revised EXCEPT !.selected = form.targets[i].id]
    BY <1>3 DEF SelectCreationTarget
  <2> DEFINE f == [Revised EXCEPT !.selected = form.targets[i].id]
  <2>2. form.targets[i].id \in Int
    <3>1. form.targets \in Seq(DraftTarget)
      BY <1>1, DraftFields
    <3>2. form.targets[i] \in DraftTarget
      BY <2>1, <3>1
    <3>3. QED
      BY <3>2 DEF DraftTarget
  <2>3. f \in Draft /\ f.rid = form.rid /\ f.defaults = form.defaults /\ f.status = form.status
    BY <1>1, <2>2 DEF Draft
  <2>4. Editable(form) /\ UNCHANGED <<ledger, posts, client, saved>> /\ allowance' \in Allowance
    BY <1>1, <1>3, UsesStep DEF SelectCreationTarget
  <2>5. form' = f
    BY <2>1
  <2> HIDE DEF f
  <2>6. Editable(f)
    BY <2>3, <2>4 DEF Editable
  <2>7. QED
    BY <2>3, <2>4, <2>5, <2>6, DraftMoves
<1>4. CASE RemoveCreationTarget
  <2>1. form' = RemoveTarget(Revised) /\ Editable(form) /\ UNCHANGED <<ledger, posts, client, saved>> /\ allowance' \in Allowance
    BY <1>1, <1>4, UsesStep DEF RemoveCreationTarget
  <2>2. Editable(Revised)
    BY <1>1, <2>1 DEF Editable
  <2> DEFINE at == {i \in DOMAIN Revised.targets : Revised.targets[i].id = Revised.selected}
             i == CHOOSE i \in at : TRUE
             rest == RemoveAt(Revised.targets, i)
             sel == IF rest = <<>> THEN NoId ELSE rest[IF i <= Len(rest) THEN i ELSE Len(rest)].id
             f == [Revised EXCEPT !.targets = rest, !.selected = sel]
  <2>3. CASE at = {}
    <3>1. RemoveTarget(Revised) = Revised
      BY <2>3 DEF RemoveTarget
    <3>2. QED
      BY <1>1, <2>1, <2>2, <3>1, DraftMoves
  <2>4. CASE at # {}
    <3>1. RemoveTarget(Revised) = Edited(f)
      BY <2>4 DEF RemoveTarget
    <3>2. i \in 1 .. Len(Revised.targets) /\ Revised.targets \in Seq(DraftTarget)
      <4>1. i \in at
        BY <2>4
      <4>2. Revised.targets \in Seq(DraftTarget)
        BY <1>1, DraftFields
      <4>3. QED
        BY <4>1, <4>2
    <3> HIDE DEF i
    <3>3. rest \in Seq(DraftTarget)
      BY <3>2, TakenOut
    <3> HIDE DEF rest
    <3>4. sel \in Int
      <4>1. CASE rest # <<>>
        <5>1. Len(rest) \in Nat /\ Len(rest) > 0
          BY <3>3, <4>1
        <5>2. (IF i <= Len(rest) THEN i ELSE Len(rest)) \in 1 .. Len(rest)
          BY <3>2, <5>1
        <5>3. rest[IF i <= Len(rest) THEN i ELSE Len(rest)] \in DraftTarget
          BY <3>3, <5>2
        <5>4. rest[IF i <= Len(rest) THEN i ELSE Len(rest)].id \in Int
          BY <5>3 DEF DraftTarget
        <5>5. QED
          BY <4>1, <5>4
      <4>2. CASE rest = <<>>
        BY <4>2 DEF NoId
      <4>3. QED
        BY <4>1, <4>2
    <3> HIDE DEF sel
    <3>5. f \in Draft /\ f.rid = form.rid /\ f.defaults = form.defaults
      BY <1>1, <3>3, <3>4 DEF Draft
    <3> HIDE DEF f
    <3>6. Edited(f) \in Draft /\ Editable(Edited(f)) /\ Edited(f).rid = form.rid /\ Edited(f).defaults = form.defaults
      BY <3>5, EditedDraft
    <3>7. QED
      BY <2>1, <3>1, <3>6, DraftMoves
  <2>5. QED
    BY <2>3, <2>4
<1>5. CASE InvalidAction
  <2>1. form' = [form EXCEPT !.status = "Failed"] /\ UNCHANGED <<ledger, posts, client, saved>> /\ allowance' \in Allowance
    BY <1>1, <1>5, UsesStep DEF InvalidAction
  <2> DEFINE f == [form EXCEPT !.status = "Failed"]
  <2>2. f \in Draft /\ Editable(f) /\ f.rid = form.rid /\ f.defaults = form.defaults
    BY <1>1, StatusDraft DEF Statuses, Editable
  <2> HIDE DEF f
  <2>3. QED
    BY <2>1, <2>2, DraftMoves DEF f
<1>6. QED
  BY <1>2, <1>3, <1>4, <1>5


\* A field of a target, or a further target.
LEMMA TargetEditStep ==
  ASSUME CreationInv, EditCreationField \/ AddCreationTarget
  PROVE  CreationInv'
<1>1. /\ Holds(ledger, S0) /\ S0.f = form /\ S0.c = client /\ client \in Holder
      /\ form \in Draft /\ Revised \in Draft /\ Revised.rid = form.rid /\ Revised.defaults = form.defaults
      /\ Revised.status = form.status /\ Revised.targets \in Seq(DraftTarget) /\ Revised.revision \in Int
      /\ allowance \in Allowance /\ IsLedger(ledger)
  <2>1. Revised \in Draft
    BY S0Parts
  <2>2. QED
    BY <2>1, S0Parts, DraftFields DEF CreationInv
<1>2. ledger' = ledger /\ saved' = saved /\ allowance' \in Allowance /\ Editable(form)
  BY <1>1, UsesStep DEF EditCreationField, AddCreationTarget
<1>3. ASSUME NEW f \in Draft, f.rid = form.rid, f.defaults = form.defaults, Sets(CreationDefaults([S0 EXCEPT !.f = Edited(f)]))
      PROVE  CreationInv'
  <2> DEFINE s == [S0 EXCEPT !.f = Edited(f)]
  <2>1. Edited(f) \in Draft /\ Editable(Edited(f)) /\ Edited(f).rid = form.rid /\ Edited(f).defaults = form.defaults
    BY <1>3, EditedDraft
  <2>2. Holds(ledger, s)
    BY <1>1, <2>1, EditHolds
  <2> HIDE DEF s
  <2>3. Holds(ledger, CreationDefaults(s))
    BY <1>1, <2>2, DefaultsHold
  <2>4. QED
    BY <1>2, <1>3, <2>3, SetsStep DEF s
<1>4. CASE EditCreationField
  <2>1. PICK i \in DOMAIN form.targets, e \in TargetEdits :
           Sets(CreationDefaults([S0 EXCEPT !.f = Edited(EditTarget(Revised, i, e))]))
    BY <1>4 DEF EditCreationField
  <2> DEFINE f == EditTarget(Revised, i, e)
  <2>2. i \in 1 .. Len(Revised.targets) /\ Revised.targets[i] \in DraftTarget
    <3>1. Revised.targets = form.targets
      BY S0Parts
    <3>2. QED
      BY <1>1, <2>1, <3>1
  <2>3. \/ e.field = "repo" /\ e.to \in Repos
        \/ e.field = "base" /\ e.to \in {"good", "bad"}
        \/ e.field = "head" /\ e.to = "bad"
    BY <2>1 DEF TargetEdits
  <2>4. PICK t \in DraftTarget : f = [Revised EXCEPT !.targets = [Revised.targets EXCEPT ![i] = t]]
    <3>1. Revised.targets = [k \in 1 .. Len(Revised.targets) |-> Revised.targets[k]] /\ Len(Revised.targets) \in Nat
      BY <1>1
    <3>2. CASE e.field = "repo" /\ e.to \in Repos
      <4> DEFINE t == [Revised.targets[i] EXCEPT !.repo = e.to, !.base = "auto"]
      <4>1. f = [Revised EXCEPT !.targets[i].repo = e.to, !.targets[i].base = "auto"]
        BY <3>2 DEF EditTarget
      <4>2. t \in DraftTarget
        BY <2>2, <3>2 DEF DraftTarget
      <4>3. [Revised EXCEPT !.targets[i].repo = e.to, !.targets[i].base = "auto"]
              = [Revised EXCEPT !.targets = [Revised.targets EXCEPT ![i] = t]]
        BY <1>1, <2>2, <3>1 DEF Draft
      <4> HIDE DEF t, f
      <4>4. QED
        BY <4>1, <4>2, <4>3
    <3>3. CASE e.field = "base" /\ e.to \in {"good", "bad"}
      <4> DEFINE t == [Revised.targets[i] EXCEPT !.base = e.to]
      <4>1. f = [Revised EXCEPT !.targets[i].base = e.to]
        BY <3>3 DEF EditTarget
      <4>2. t \in DraftTarget
        BY <2>2, <3>3 DEF DraftTarget
      <4>3. [Revised EXCEPT !.targets[i].base = e.to]
              = [Revised EXCEPT !.targets = [Revised.targets EXCEPT ![i] = t]]
        BY <1>1, <2>2, <3>1 DEF Draft
      <4> HIDE DEF t, f
      <4>4. QED
        BY <4>1, <4>2, <4>3
    <3>4. CASE e.field = "head" /\ e.to = "bad"
      <4> DEFINE t == [Revised.targets[i] EXCEPT !.head = e.to]
      <4>1. f = [Revised EXCEPT !.targets[i].head = e.to]
        BY <3>4 DEF EditTarget
      <4>2. t \in DraftTarget
        BY <2>2, <3>4 DEF DraftTarget
      <4>3. [Revised EXCEPT !.targets[i].head = e.to]
              = [Revised EXCEPT !.targets = [Revised.targets EXCEPT ![i] = t]]
        BY <1>1, <2>2, <3>1 DEF Draft
      <4> HIDE DEF t, f
      <4>4. QED
        BY <4>1, <4>2, <4>3
    <3>5. QED
      BY <2>3, <3>2, <3>3, <3>4
  <2>5. [Revised.targets EXCEPT ![i] = t] \in Seq(DraftTarget)
    BY <1>1, <2>2
  <2> DEFINE q == [Revised.targets EXCEPT ![i] = t]
  <2>6. f \in Draft /\ f.rid = form.rid /\ f.defaults = form.defaults
    <3>1. f = [Revised EXCEPT !.targets = q]
      BY <2>4
    <3>2. q \in Seq(DraftTarget)
      BY <2>5
    <3> HIDE DEF q, f
    <3>3. QED
      BY <1>1, <3>1, <3>2 DEF Draft
  <2>7. QED
    <3> HIDE DEF f
    <3>1. QED
      BY <1>3, <2>1, <2>6 DEF f
<1>5. CASE AddCreationTarget
  <2> DEFINE s == [S0 EXCEPT !.f = Revised]
             id == Revised.revision
             free == {i \in DOMAIN client.repos : client.repos[i] \notin RepoIds(Revised.targets)}
             t == NewTarget(id, client.repos[Min(free)])
             f == [Revised EXCEPT !.selected = id, !.targets = Append(Revised.targets, t)]
  <2>1. Sets(AddTarget(s))
    BY <1>5 DEF AddCreationTarget
  <2>2. Editable(Revised)
    BY <1>1, <1>2 DEF Editable
  <2>3. Holds(ledger, s) /\ s = [f |-> Revised, jobs |-> S0.jobs, c |-> client]
    BY <1>1, <2>2, EditHolds
  <2>4. CASE free = {}
    <3>1. AddTarget(s) = s
      BY <2>3, <2>4 DEF AddTarget
    <3> HIDE DEF s
    <3>2. QED
      BY <1>2, <2>1, <2>3, <3>1, SetsStep
  <2>5. CASE free # {}
    <3>1. AddTarget(s) = CreationDefaults([s EXCEPT !.f = Edited(f)])
      <4>1. s.f = Revised /\ s.c = client
        BY <2>3
      <4> HIDE DEF s
      <4>2. QED
        BY <2>5, <4>1 DEF AddTarget
    <3>2. [s EXCEPT !.f = Edited(f)] = [S0 EXCEPT !.f = Edited(f)]
      <4> HIDE DEF f
      <4>1. S0 = [f |-> form, jobs |-> posts, c |-> client]
        BY S0Parts
      <4>2. QED
        BY <4>1
    <3>3. client.repos \in Seq(Repos)
      BY <1>1 DEF Holder
    <3>4. client.repos[Min(free)] \in Repos
      <4>1. free \in SUBSET (1 .. Len(client.repos)) /\ Len(client.repos) \in Nat
        BY <3>3
      <4> HIDE DEF free
      <4>2. Min(free) \in free
        BY <2>5, <4>1, LeastPosition
      <4>3. Min(free) \in 1 .. Len(client.repos)
        BY <4>1, <4>2
      <4>4. QED
        BY <3>3, <4>3
    <3>5. t \in DraftTarget
      BY <1>1, <3>4 DEF NewTarget, DraftTarget
    <3> HIDE DEF t
    <3>6. Append(Revised.targets, t) \in Seq(DraftTarget)
      BY <1>1, <3>5
    <3>7. f \in Draft /\ f.rid = form.rid /\ f.defaults = form.defaults
      BY <1>1, <3>6 DEF Draft
    <3> HIDE DEF f, s
    <3>8. QED
      BY <1>3, <2>1, <3>1, <3>2, <3>7
  <2>6. QED
    BY <2>4, <2>5
<1>6. QED
  BY <1>4, <1>5

-----------------------------------------------------------------------------
(* Writing and looking up.                                                 *)

\* A form that has just asked waits for what it asked.
LEMMA AskedHolds ==
  ASSUME IsLedger(ledger), NEW s, Handled(ledger, s), Settled(ledger, s.f), s.c.cut \/ (s.c.up /\ DefaultsWaited(s)),
         NEW kind \in {"Create", "Check", "Reconcile"}, NEW sub \in Submission,
         s.f.status = IF kind = "Create" THEN "Pending" ELSE "Reconciling"
  PROVE  Holds(ledger, Asks(s, kind, s.f.rid, NoId, sub))
<1> DEFINE t == Asks(s, kind, s.f.rid, NoId, sub)
<1>1. s.f.rid \in Int /\ kind \in PostKinds
  BY DraftFields DEF Handled, PostKinds
<1>2. /\ Handled(ledger, t) /\ t.f = s.f /\ t.c = s.c /\ s.jobs \subseteq t.jobs
      /\ \E j \in t.jobs : j.kind = kind /\ ~j.orphan /\ j.rid = s.f.rid
  BY <1>1, AsksDoes
<1> HIDE DEF t
<1>3. ~s.c.cut => Waited(t)
  BY <1>2 DEF Waited, DefaultsWaited, AskedFor
<1>4. QED
  BY <1>2, <1>3 DEF Holds, t

\* A submission is sent as the form shows it.
LEMMA SendHolds ==
  ASSUME IsLedger(ledger), NEW s, Handled(ledger, s), s.c.cut \/ (s.c.up /\ DefaultsWaited(s)), NEW sub, sub = Snapshot(s.f), SnapshotOK(s.f)
  PROVE  Holds(ledger, SendCreation(s, sub))
<1>1. /\ s = [f |-> s.f, jobs |-> s.jobs, c |-> s.c] /\ s.f \in Draft /\ s.c \in Holder
      /\ s.c.up => s.c.seen \in Nat
      /\ \A j \in s.jobs : IsPost(ledger, j)
  BY DEF Handled
<1>2. sub \in Submission
  BY <1>1, SnapshotTyped
<1> DEFINE g == [s.f EXCEPT !.status = "Pending", !.sub = sub]
           t == [s EXCEPT !.f.status = "Pending", !.f.sub = sub]
<1>3. /\ g \in Draft /\ g.status = "Pending" /\ g.sub = sub /\ g.rid = s.f.rid /\ g.title = s.f.title
      /\ g.targets = s.f.targets /\ g.defaults = s.f.defaults
  BY <1>1, <1>2 DEF Draft, Statuses
<1>4. t = [f |-> g, jobs |-> s.jobs, c |-> s.c]
  <2> DEFINE u == [s EXCEPT !.f = [s.f EXCEPT !.status = "Pending"]]
  <2>1. u = [f |-> [s.f EXCEPT !.status = "Pending"], jobs |-> s.jobs, c |-> s.c]
    BY <1>1, FormOnly
  <2>2. t = [u EXCEPT !.f = [u.f EXCEPT !.sub = sub]]
    BY <1>1
  <2> HIDE DEF u, t
  <2>3. [u EXCEPT !.f = [u.f EXCEPT !.sub = sub]] = [f |-> [u.f EXCEPT !.sub = sub], jobs |-> s.jobs, c |-> s.c]
    BY <2>1
  <2>4. [u.f EXCEPT !.sub = sub] = g
    BY <1>1, <2>1 DEF Draft
  <2>5. QED
    BY <2>2, <2>3, <2>4
<1> HIDE DEF g
<1>5. Snapshot(g) = Snapshot(s.f) /\ SnapshotOK(g)
  BY <1>1, <1>3, SnapshotKept
<1>6. Settled(ledger, g)
  BY <1>3, <1>5 DEF Settled
<1> HIDE DEF t
<1>7. t.f = g /\ t.jobs = s.jobs /\ t.c = s.c /\ t = [f |-> t.f, jobs |-> t.jobs, c |-> t.c]
  BY <1>4
<1>8. Handled(ledger, t)
  BY <1>1, <1>3, <1>7 DEF Handled
<1>9. t.c.cut \/ (t.c.up /\ DefaultsWaited(t))
  BY <1>3, <1>7 DEF DefaultsWaited
<1>10. Holds(ledger, Asks(t, "Create", t.f.rid, NoId, sub))
  BY <1>2, <1>3, <1>6, <1>7, <1>8, <1>9, AskedHolds
<1>11. QED
  BY <1>3, <1>7, <1>10 DEF SendCreation, t

\* A form that fails is editable again.
LEMMA FailHolds ==
  ASSUME NEW s, Holds(ledger, s)
  PROVE  Holds(ledger, [s EXCEPT !.f.status = "Failed"])
<1>1. s = [f |-> s.f, jobs |-> s.jobs, c |-> s.c] /\ s.f \in Draft
  BY PartsOf
<1> DEFINE g == [s.f EXCEPT !.status = "Failed"]
<1>2. g \in Draft /\ Editable(g) /\ g.rid = s.f.rid /\ g.defaults = s.f.defaults
  BY <1>1, StatusDraft DEF Statuses, Editable
<1>3. [s EXCEPT !.f.status = "Failed"] = [s EXCEPT !.f = g]
  BY <1>1
<1> HIDE DEF g
<1>4. QED
  BY <1>2, <1>3, EditHolds

\* A submit.
LEMMA SubmitStep ==
  ASSUME CreationInv, SubmitReviewCreation
  PROVE  CreationInv'
<1> DEFINE s == [S0 EXCEPT !.f = Revised]
<1>1. /\ Holds(ledger, S0) /\ S0.f = form /\ S0.c = client
      /\ Revised \in Draft /\ Revised.rid = form.rid /\ Revised.defaults = form.defaults
      /\ Revised.status = form.status
  BY S0Parts
<1>2. Editable(Revised)
  BY <1>1 DEF SubmitReviewCreation, Editable
<1>3. Holds(ledger, s) /\ IsLedger(ledger) /\ allowance' \in Allowance
  BY <1>1, <1>2, EditHolds DEF CreationInv, SubmitReviewCreation
<1>4. Sets(SubmitCreation(s)) /\ ledger' = ledger /\ saved' = saved
  BY DEF SubmitReviewCreation
<1> HIDE DEF s
<1>5. Holds(ledger, SubmitCreation(s))
  <2>1. CASE s.c.up /\ s.c.known /\ RepoIds(s.f.targets) \subseteq Range(s.c.repos) /\ Distinct(s.f.targets) /\ SnapshotOK(s.f)
    <3>1. SubmitCreation(s) = SendCreation(s, Snapshot(s.f))
      BY <2>1 DEF SubmitCreation
    <3>2. Handled(ledger, s) /\ (s.c.cut \/ (s.c.up /\ DefaultsWaited(s)))
      BY <1>3, <2>1 DEF Holds, Waited
    <3>3. QED
      BY <1>3, <2>1, <3>1, <3>2, SendHolds
  <2>2. CASE ~(s.c.up /\ s.c.known /\ RepoIds(s.f.targets) \subseteq Range(s.c.repos) /\ Distinct(s.f.targets) /\ SnapshotOK(s.f))
    <3>1. SubmitCreation(s) = [s EXCEPT !.f.status = "Failed"]
      BY <2>2 DEF SubmitCreation
    <3>2. QED
      BY <1>3, <3>1, FailHolds
  <2>3. QED
    BY <2>1, <2>2
<1>6. QED
  BY <1>3, <1>4, <1>5, SetsStep


\* A form that no longer waits for the answer that went.
Released(t, j) ==
  /\ j.kind = "Create" => t.f.status # "Pending"
  /\ j.kind \in {"Check", "Reconcile"} => t.f.status # "Reconciling"
  /\ j.kind = "Default" => \A r \in Repos : r = j.repo => t.f.defaults[r] # "Loading"

\* What a form waits for is still there when only what it was released from went.
LEMMA WaitedKept ==
  ASSUME NEW s, NEW t, Waited(s), t.c.up = s.c.up, t.f.rid = s.f.rid,
         t.f.status = s.f.status \/ t.f.status \notin {"Pending", "Reconciling"},
         \A r \in Repos : t.f.defaults[r] = "Loading" => s.f.defaults[r] = "Loading",
         \A j \in s.jobs : ~j.orphan /\ j.rid = s.f.rid =>
           \/ \E k \in t.jobs : k.kind = j.kind /\ k.rid = j.rid /\ k.repo = j.repo /\ ~k.orphan
           \/ Released(t, j)
  PROVE  Waited(t)
<1>1. ASSUME t.f.status = "Pending" PROVE t.c.up /\ AskedFor(t, {"Create"}, t.f.rid)
  <2>1. s.c.up /\ AskedFor(s, {"Create"}, s.f.rid)
    BY <1>1 DEF Waited
  <2>2. PICK j \in s.jobs : j.kind = "Create" /\ ~j.orphan /\ j.rid = s.f.rid
    BY <2>1 DEF AskedFor
  <2>3. ~Released(t, j)
    BY <1>1, <2>2 DEF Released
  <2>4. PICK k \in t.jobs : k.kind = j.kind /\ k.rid = j.rid /\ k.repo = j.repo /\ ~k.orphan
    BY <2>2, <2>3
  <2>5. QED
    BY <2>1, <2>2, <2>4 DEF AskedFor
<1>2. ASSUME t.f.status = "Reconciling" PROVE t.c.up /\ AskedFor(t, {"Check", "Reconcile"}, t.f.rid)
  <2>1. s.c.up /\ AskedFor(s, {"Check", "Reconcile"}, s.f.rid)
    BY <1>2 DEF Waited
  <2>2. PICK j \in s.jobs : j.kind \in {"Check", "Reconcile"} /\ ~j.orphan /\ j.rid = s.f.rid
    BY <2>1 DEF AskedFor
  <2>3. ~Released(t, j)
    BY <1>2, <2>2 DEF Released
  <2>4. PICK k \in t.jobs : k.kind = j.kind /\ k.rid = j.rid /\ k.repo = j.repo /\ ~k.orphan
    BY <2>2, <2>3
  <2>5. QED
    BY <2>1, <2>2, <2>4 DEF AskedFor
<1>3. ASSUME NEW r \in Repos, t.f.defaults[r] = "Loading"
      PROVE  t.c.up /\ \E k \in t.jobs : k.kind \in {"Default"} /\ ~k.orphan /\ k.rid = t.f.rid /\ k.repo = r
  <2>1. s.c.up /\ \E j \in s.jobs : j.kind \in {"Default"} /\ ~j.orphan /\ j.rid = s.f.rid /\ j.repo = r
    BY <1>3 DEF Waited, DefaultsWaited
  <2>2. PICK j \in s.jobs : j.kind = "Default" /\ ~j.orphan /\ j.rid = s.f.rid /\ j.repo = r
    BY <2>1
  <2>3. ~Released(t, j)
    BY <1>3, <2>2 DEF Released
  <2>4. PICK k \in t.jobs : k.kind = j.kind /\ k.rid = j.rid /\ k.repo = j.repo /\ ~k.orphan
    BY <2>2, <2>3
  <2>5. QED
    BY <2>1, <2>2, <2>4
<1>4. QED
  BY <1>1, <1>2, <1>3 DEF Waited, DefaultsWaited

\* Looking a review up keeps the invariant.
LEMMA ReconcileHolds ==
  ASSUME IsLedger(ledger), NEW s, Holds(ledger, s), NEW next \in {"Inspect", "Retry"}
  PROVE  Holds(ledger, ReconcileCreation(s, next))
<1>1. /\ s = [f |-> s.f, jobs |-> s.jobs, c |-> s.c] /\ s.f \in Draft /\ s.c \in Holder
      /\ s.c.up => s.c.seen \in Nat
      /\ \A j \in s.jobs : IsPost(ledger, j)
      /\ Settled(ledger, s.f) /\ (s.c.cut \/ Waited(s))
  BY PartsOf
<1>2. CASE s.f.status # "Interrupted"
  BY <1>2 DEF ReconcileCreation
<1>3. CASE s.f.status = "Interrupted"
  <2> DEFINE rv == [s.f EXCEPT !.revision = @ + 1]
             g == IF next = "Retry" THEN rv ELSE s.f
             t == IF next = "Retry" THEN [s EXCEPT !.f.revision = @ + 1] ELSE s
             h == [g EXCEPT !.status = "Reconciling", !.next = next]
             u == [t EXCEPT !.f.status = "Reconciling", !.f.next = next]
  <2>1. [s EXCEPT !.f.revision = @ + 1] = [f |-> rv, jobs |-> s.jobs, c |-> s.c]
    BY <1>1
  <2>2. t = [f |-> g, jobs |-> s.jobs, c |-> s.c]
    BY <1>1, <2>1
  <2>3. /\ rv \in Draft /\ rv.status = s.f.status /\ rv.rid = s.f.rid /\ rv.title = s.f.title /\ rv.targets = s.f.targets
        /\ rv.defaults = s.f.defaults /\ rv.sub = s.f.sub
    BY <1>1, RevisedDraft
  <2> HIDE DEF rv
  <2>4. /\ g \in Draft /\ g.status = s.f.status /\ g.rid = s.f.rid /\ g.title = s.f.title /\ g.targets = s.f.targets
        /\ g.defaults = s.f.defaults /\ g.sub = s.f.sub
    BY <1>1, <2>3
  <2> HIDE DEF g, t
  <2>5. Settled(ledger, g)
    BY <1>1, <2>4, SettledKept
  <2>6. /\ h \in Draft /\ h.status = "Reconciling" /\ h.rid = g.rid /\ h.title = g.title /\ h.targets = g.targets
        /\ h.defaults = g.defaults /\ h.sub = g.sub
    BY <2>4 DEF Draft, Statuses
  <2>7. u = [f |-> h, jobs |-> s.jobs, c |-> s.c]
    <3> DEFINE w == [t EXCEPT !.f = [t.f EXCEPT !.status = "Reconciling"]]
    <3>1. w = [f |-> [g EXCEPT !.status = "Reconciling"], jobs |-> s.jobs, c |-> s.c]
      BY <2>2
    <3>2. u = [w EXCEPT !.f = [w.f EXCEPT !.next = next]]
      BY <2>2
    <3> HIDE DEF w, u
    <3>3. [w EXCEPT !.f = [w.f EXCEPT !.next = next]] = [f |-> [w.f EXCEPT !.next = next], jobs |-> s.jobs, c |-> s.c]
      BY <3>1
    <3>4. [w.f EXCEPT !.next = next] = h
      BY <2>4, <3>1 DEF Draft
    <3>5. QED
      BY <3>2, <3>3, <3>4
  <2> HIDE DEF h, u
  <2>8. CASE ~s.c.up
    <3>1. ReconcileCreation(s, next) = t
      BY <1>3, <2>8 DEF ReconcileCreation, t
    <3>2. Waited(s) => Waited([f |-> g, jobs |-> s.jobs, c |-> s.c])
      BY <2>4 DEF Waited, DefaultsWaited, AskedFor
    <3>3. Holds(ledger, t)
      BY <1>1, <2>2, <2>4, <2>5, <3>2, HoldsOf
    <3>4. QED
      BY <3>1, <3>3
  <2>9. CASE s.c.up
    <3>1. ReconcileCreation(s, next) = Asks(u, "Reconcile", s.f.rid, NoId, NoSubmission)
      BY <1>3, <2>9 DEF ReconcileCreation, t, u
    <3>2. Settled(ledger, h)
      BY <1>3, <2>4, <2>5, <2>6, SettledKept DEF FrozenStatuses
    <3>3. u.f = h /\ u.jobs = s.jobs /\ u.c = s.c /\ u = [f |-> u.f, jobs |-> u.jobs, c |-> u.c]
      BY <2>7
    <3>4. Handled(ledger, u)
      BY <1>1, <2>6, <3>3 DEF Handled
    <3>5. u.c.cut \/ (u.c.up /\ DefaultsWaited(u))
      <4>1. s.c.cut \/ DefaultsWaited(s)
        BY <1>1 DEF Waited
      <4>2. QED
        BY <2>4, <2>6, <2>9, <3>3, <4>1 DEF DefaultsWaited
    <3>6. NoSubmission \in Submission
      BY NoFormDraft
    <3>7. u.f.rid = s.f.rid /\ u.f.status = "Reconciling"
      BY <2>4, <2>6, <3>3
    <3>8. Holds(ledger, Asks(u, "Reconcile", u.f.rid, NoId, NoSubmission))
      BY <2>9, <3>2, <3>3, <3>4, <3>5, <3>6, <3>7, AskedHolds
    <3>9. QED
      BY <3>1, <3>7, <3>8
  <2>10. QED
    BY <2>8, <2>9
<1>4. QED
  BY <1>2, <1>3

\* Coming back keeps the invariant.
LEMMA ReconnectedHolds ==
  ASSUME IsLedger(ledger), NEW s, Holds(ledger, s)
  PROVE  Holds(ledger, CreationReconnected(s))
<1>1. Holds(ledger, CreationDefaults(s))
  BY DefaultsHold
<1>2. QED
  BY <1>1, ReconcileHolds DEF CreationReconnected

\* A retry by the user.
LEMMA RetryStep ==
  ASSUME CreationInv, RetryReviewCreation
  PROVE  CreationInv'
<1>1. Holds(ledger, S0) /\ IsLedger(ledger) /\ allowance' \in Allowance
  BY DEF CreationInv, RetryReviewCreation
<1>2. Sets(ReconcileCreation(S0, "Retry")) /\ ledger' = ledger /\ saved' = saved
  BY DEF RetryReviewCreation
<1>3. Holds(ledger, ReconcileCreation(S0, "Retry"))
  BY <1>1, ReconcileHolds
<1>4. QED
  BY <1>1, <1>2, <1>3, SetsStep

-----------------------------------------------------------------------------
(* Losing the connection and coming back.                                  *)

\* A form that is cut off waits for nothing.
LEMMA DisconnectedForm ==
  ASSUME NEW l, NEW f \in Draft, Settled(l, f)
  PROVE  LET g == CreationDisconnected(f) IN
         /\ g \in Draft /\ Settled(l, g) /\ g.status \notin {"Pending", "Reconciling"} /\ g.rid = f.rid
         /\ \A r \in Repos : g.defaults[r] # "Loading"
<1> DEFINE d == [r \in Repos |-> IF f.defaults[r] = "Loading" THEN "None" ELSE f.defaults[r]]
           st == IF f.status \in {"Pending", "Reconciling"} THEN "Interrupted" ELSE f.status
           g == [f EXCEPT !.defaults = d, !.status = st]
<1>1. f.defaults \in [Repos -> DefaultStates] /\ f.status \in Statuses
  BY DraftFields
<1>2. CreationDisconnected(f) = g
  BY DEF CreationDisconnected, Draft
<1>3. d \in [Repos -> DefaultStates] /\ (\A r \in Repos : d[r] # "Loading") /\ \A r \in Repos : f.defaults[r] = "Ready" => d[r] = "Ready"
  BY <1>1 DEF DefaultStates
<1>4. st \in Statuses /\ st \notin {"Pending", "Reconciling"}
      /\ (st = f.status \/ (f.status \in FrozenStatuses /\ st = "Interrupted"))
  BY <1>1 DEF Statuses, FrozenStatuses
<1> HIDE DEF d, st
<1>5. /\ g \in Draft /\ g.defaults = d /\ g.status = st /\ g.rid = f.rid /\ g.title = f.title /\ g.targets = f.targets
      /\ g.sub = f.sub
  BY <1>3, <1>4 DEF Draft
<1> HIDE DEF g
<1>6. Settled(l, g)
  BY <1>3, <1>4, <1>5, SettledKept
<1>7. QED
  BY <1>2, <1>3, <1>4, <1>5, <1>6

\* A request whose connection is gone.
LEMMA OrphanOf ==
  ASSUME NEW l, NEW j, IsPost(l, j), j.result = "None"
  PROVE  LET k == [j EXCEPT !.orphan = TRUE] IN
         IsPost(l, k) /\ k.kind = j.kind /\ k.rid = j.rid /\ k.orphan
<1> DEFINE k == [j EXCEPT !.orphan = TRUE]
<1>1. k.id = j.id /\ k.repo = j.repo /\ k.result = j.result /\ k.kind = j.kind /\ k.rid = j.rid /\ k.orphan
  BY DEF IsPost
<1>2. k \in [id : {j.id}, kind : PostKinds, rid : Int, repo : {j.repo}, sub : Submission, at : Nat,
             result : {"None", "Committed", "Refused"}, orphan : BOOLEAN]
  BY DEF IsPost
<1> HIDE DEF k
<1>3. IsPost(l, k)
  BY <1>1, <1>2 DEF IsPost
<1>4. QED
  BY <1>1, <1>3 DEF k

\* The requests that outlive a connection.
LEMMA ClearedPosts ==
  ASSUME NEW l, NEW s, \A j \in s.jobs : IsPost(l, j), s = [f |-> s.f, jobs |-> s.jobs, c |-> s.c]
  PROVE  LET t == ClearInFlight(s) IN
         /\ t = [f |-> s.f, jobs |-> t.jobs, c |-> s.c] /\ \A j \in t.jobs : IsPost(l, j)
<1> DEFINE orphans == {[j EXCEPT !.orphan = TRUE] : j \in {k \in s.jobs : k.kind = "Create" /\ k.result = "None"}}
<1>1. ClearInFlight(s) = [s EXCEPT !.jobs = orphans]
  BY DEF ClearInFlight
<1>2. ASSUME NEW j \in s.jobs, j.result = "None" PROVE IsPost(l, [j EXCEPT !.orphan = TRUE])
  BY <1>2, OrphanOf
<1>3. \A j \in orphans : IsPost(l, j)
  BY <1>2
<1> HIDE DEF orphans
<1>4. [s EXCEPT !.jobs = orphans] = [f |-> s.f, jobs |-> orphans, c |-> s.c]
  BY JobsOnly
<1>5. QED
  BY <1>1, <1>3, <1>4

\* The connection is lost.
LEMMA DisconnectStep ==
  ASSUME CreationInv, TransportDisconnected
  PROVE  CreationInv'
<1>1. /\ S0 = [f |-> form, jobs |-> posts, c |-> client] /\ S0.f = form /\ S0.jobs = posts /\ S0.c = client
      /\ form \in Draft /\ client \in Holder /\ \A j \in posts : IsPost(ledger, j)
      /\ Settled(ledger, form)
  BY S0Parts
<1> DEFINE t == ClearInFlight(S0)
           c == [client EXCEPT !.up = FALSE]
           g == CreationDisconnected(form)
           s == [t EXCEPT !.c.up = FALSE, !.f = CreationDisconnected(@)]
<1>2. t = [f |-> form, jobs |-> t.jobs, c |-> client] /\ \A j \in t.jobs : IsPost(ledger, j)
  BY <1>1, ClearedPosts
<1>3. Sets(s) /\ ledger' = ledger /\ saved' = saved /\ allowance' \in Allowance
  BY UsesStep DEF TransportDisconnected, CreationInv
<1>4. /\ g \in Draft /\ Settled(ledger, g) /\ g.status \notin {"Pending", "Reconciling"}
      /\ \A r \in Repos : g.defaults[r] # "Loading"
  BY <1>1, DisconnectedForm
<1> HIDE DEF t
<1>5. s = [f |-> g, jobs |-> t.jobs, c |-> c]
  <2> DEFINE w == [t EXCEPT !.c = [t.c EXCEPT !.up = FALSE]]
  <2>1. t.f = form /\ t.c = client /\ t = [f |-> t.f, jobs |-> t.jobs, c |-> t.c]
    BY <1>2
  <2>2. w = [f |-> form, jobs |-> t.jobs, c |-> c]
    BY <2>1, FormOnly
  <2>3. s = [w EXCEPT !.f = CreationDisconnected(w.f)]
    BY <2>1
  <2> HIDE DEF w, s, c
  <2>4. w.f = form /\ w.jobs = t.jobs /\ w.c = c /\ w = [f |-> w.f, jobs |-> w.jobs, c |-> w.c]
    BY <2>2
  <2>5. QED
    BY <2>3, <2>4, FormOnly
<1>6. c \in Holder /\ ~c.up
  BY <1>1 DEF Holder
<1> HIDE DEF g, c, s
<1>7. Waited([f |-> g, jobs |-> t.jobs, c |-> c])
  BY <1>4 DEF Waited, DefaultsWaited
<1>8. Holds(ledger, s)
  BY <1>2, <1>4, <1>5, <1>6, <1>7, HoldsOf
<1>9. QED
  BY <1>3, <1>8, SetsStep

\* The restart deadline closes the connection.
LEMMA DeadlineStep ==
  ASSUME CreationInv, RestartDeadline
  PROVE  CreationInv'
<1>1. /\ S0 = [f |-> form, jobs |-> posts, c |-> client] /\ S0.f = form /\ S0.jobs = posts /\ S0.c = client
      /\ form \in Draft /\ client \in Holder /\ \A j \in posts : IsPost(ledger, j)
      /\ Settled(ledger, form)
  BY S0Parts
<1> DEFINE t == ClearInFlight(S0)
           c == [client EXCEPT !.up = FALSE, !.cut = TRUE]
           s == [t EXCEPT !.c.up = FALSE, !.c.cut = TRUE]
<1>2. t = [f |-> form, jobs |-> t.jobs, c |-> client] /\ \A j \in t.jobs : IsPost(ledger, j)
  BY <1>1, ClearedPosts
<1>3. Sets(s) /\ ledger' = ledger /\ saved' = saved /\ allowance' \in Allowance
  BY UsesStep DEF RestartDeadline, CreationInv
<1> HIDE DEF t
<1>4. c \in Holder /\ ~c.up /\ c.cut
  BY <1>1 DEF Holder
<1>5. s = [f |-> form, jobs |-> t.jobs, c |-> c]
  <2> DEFINE w == [t EXCEPT !.c = [t.c EXCEPT !.up = FALSE]]
  <2>0. t.f = form /\ t.c = client /\ t = [f |-> t.f, jobs |-> t.jobs, c |-> t.c]
    BY <1>2
  <2>1. w = [f |-> form, jobs |-> t.jobs, c |-> [client EXCEPT !.up = FALSE]]
    BY <2>0, FormOnly
  <2>2. s = [w EXCEPT !.c = [w.c EXCEPT !.cut = TRUE]]
    BY <2>0
  <2> HIDE DEF w, s
  <2>3. [w EXCEPT !.c = [w.c EXCEPT !.cut = TRUE]] = [f |-> form, jobs |-> t.jobs, c |-> [w.c EXCEPT !.cut = TRUE]]
    BY <2>1
  <2>4. [w.c EXCEPT !.cut = TRUE] = c
    BY <1>1, <2>1 DEF Holder
  <2>5. QED
    BY <2>2, <2>3, <2>4
<1> HIDE DEF c, s
<1>6. Holds(ledger, s)
  BY <1>1, <1>2, <1>4, <1>5, HoldsOf
<1>7. QED
  BY <1>3, <1>6, SetsStep

\* A request for a list leaves the form waiting for what it waited for.
LEMMA AsksList ==
  ASSUME IsLedger(ledger), NEW s, Holds(ledger, s), NEW kind \in {"Workspaces", "Reviews"}
  PROVE  Holds(ledger, Asks(s, kind, NoId, NoId, NoSubmission))
<1> DEFINE t == Asks(s, kind, NoId, NoId, NoSubmission)
<1>1. kind \in PostKinds /\ NoId \in Int /\ NoSubmission \in Submission
  BY NoFormDraft DEF PostKinds, NoId
<1>2. Handled(ledger, t) /\ t.f = s.f /\ t.c = s.c /\ s.jobs \subseteq t.jobs
  BY <1>1, AsksDoes DEF Holds
<1> HIDE DEF t
<1>3. Waited(s) => Waited(t)
  BY <1>2 DEF Waited, DefaultsWaited, AskedFor
<1>4. QED
  BY <1>2, <1>3 DEF Holds, t

\* The connection comes up.
LEMMA ConnectedStep ==
  ASSUME CreationInv, Connected
  PROVE  CreationInv'
<1>1. /\ S0 = [f |-> form, jobs |-> posts, c |-> client] /\ S0.f = form /\ S0.jobs = posts /\ S0.c = client
      /\ form \in Draft /\ client \in Holder /\ \A j \in posts : IsPost(ledger, j)
      /\ Settled(ledger, form) /\ (client.cut \/ Waited(S0)) /\ IsLedger(ledger)
  BY S0Parts DEF CreationInv
<1> DEFINE at == IF client.seen = NoId THEN LogEnd ELSE client.seen
           c == [client EXCEPT !.up = TRUE, !.seen = at]
           s == [S0 EXCEPT !.c.up = TRUE, !.c.seen = IF @ = NoId THEN LogEnd ELSE @]
<1>2. ~client.up /\ ledger' = ledger /\ saved' = saved /\ allowance' \in Allowance
      /\ Sets(CreationReconnected(Asks(s, "Workspaces", NoId, NoId, NoSubmission)))
  BY DEF Connected, CreationInv
<1>3. LogEnd \in Nat
  BY <1>1 DEF IsLedger, LogEnd
<1>4. at \in Nat
  BY <1>1, <1>3 DEF Holder, NoId
<1>5. s = [f |-> form, jobs |-> posts, c |-> c]
  <2> DEFINE w == [S0 EXCEPT !.c = [S0.c EXCEPT !.up = TRUE]]
  <2>1. w = [f |-> form, jobs |-> posts, c |-> [client EXCEPT !.up = TRUE]]
    BY <1>1, FormOnly
  <2>2. w.c.seen = client.seen
    BY <1>1, <2>1 DEF Holder
  <2>3. s = [w EXCEPT !.c = [w.c EXCEPT !.seen = IF w.c.seen = NoId THEN LogEnd ELSE w.c.seen]]
    BY <1>1
  <2> HIDE DEF w, s
  <2>4. s = [w EXCEPT !.c = [w.c EXCEPT !.seen = at]]
    BY <2>2, <2>3
  <2> HIDE DEF at
  <2>5. [w EXCEPT !.c = [w.c EXCEPT !.seen = at]] = [f |-> form, jobs |-> posts, c |-> [w.c EXCEPT !.seen = at]]
    BY <2>1
  <2>6. [w.c EXCEPT !.seen = at] = c
    BY <1>1, <2>1 DEF Holder
  <2>7. QED
    BY <2>4, <2>5, <2>6
<1> HIDE DEF at
<1>6. c \in Holder /\ c.seen \in Nat /\ c.cut = client.cut /\ c.up
  BY <1>1, <1>4 DEF Holder
<1> HIDE DEF c, s
<1>7. Waited(S0) => Waited([f |-> form, jobs |-> posts, c |-> c])
  BY <1>1, <1>2, <1>6 DEF Waited, DefaultsWaited, AskedFor
<1>8. Holds(ledger, s)
  BY <1>1, <1>5, <1>6, <1>7, HoldsOf
<1>9. Holds(ledger, CreationReconnected(Asks(s, "Workspaces", NoId, NoId, NoSubmission)))
  BY <1>1, <1>8, AsksList, ReconnectedHolds
<1>10. QED
  BY <1>2, <1>9, SetsStep


\* The form a browser gives back.
LEMMA RestoreStep ==
  ASSUME CreationInv, Restore
  PROVE  CreationInv'
<1>1. /\ S0 = [f |-> form, jobs |-> posts, c |-> client] /\ S0.f = form /\ S0.jobs = posts /\ S0.c = client
      /\ Holds(ledger, S0) /\ client \in Holder /\ (client.up => client.seen \in Nat) /\ \A j \in posts : IsPost(ledger, j)
  BY S0Parts
<1>2. IsLedger(ledger) /\ saved \in Keepsake /\ Settled(ledger, saved.form) /\ allowance' = allowance /\ allowance \in Allowance
      /\ ledger' = ledger /\ saved' = NotSaved
  BY DEF CreationInv, Restore
<1>3. NotSaved \in Keepsake /\ Settled(ledger, NotSaved.form)
  <2>1. NoForm \in Draft /\ Settled(ledger, NoForm)
    BY NoFormDraft
  <2>2. NotSaved.form = NoForm
    BY DEF NotSaved
  <2>3. QED
    BY <2>1, <2>2 DEF NotSaved, Keepsake
<1>4. ASSUME NEW s, Holds(ledger, s), Sets(s) PROVE CreationInv'
  <2>1. s = [f |-> s.f, jobs |-> s.jobs, c |-> s.c]
    BY <1>4, PartsOf
  <2>2. S0' = s
    BY <1>4, <2>1 DEF S0, Sets
  <2>3. Holds(ledger, S0)'
    BY <1>2, <1>4, <2>2 DEF Holds, Handled, IsPost, Settled, WasCreated, Waited, DefaultsWaited, AskedFor
  <2>4. IsLedger(ledger)' /\ (saved \in Keepsake)' /\ Settled(ledger, saved.form)' /\ (allowance \in Allowance)'
    BY <1>2, <1>3 DEF Settled, WasCreated
  <2>5. QED
    BY <2>3, <2>4 DEF CreationInv
<1>5. CASE saved.foreign \/ form # NoForm
  <2>1. Sets(S0)
    BY <1>1, <1>5 DEF Restore, Sets
  <2>2. QED
    BY <1>1, <1>4, <2>1
<1>6. CASE ~(saved.foreign \/ form # NoForm)
  <2> DEFINE f == saved.form
             sub == IF saved.resume = "Submitted" /\ Editable(f)
                    THEN IF SnapshotOK(f) THEN [f EXCEPT !.status = "Interrupted", !.sub = Snapshot(f)]
                         ELSE [f EXCEPT !.status = "Failed"]
                    ELSE f
             checked == IF Editable(sub) /\ ~Distinct(f.targets) THEN [sub EXCEPT !.status = "Failed"] ELSE sub
             g == CreationDisconnected(checked)
             s == [S0 EXCEPT !.f = g]
  <2>1. f \in Draft /\ Settled(ledger, f)
    BY <1>2 DEF Keepsake
  <2>2. RestoreCreation(S0, f, saved.resume) = CreationReconnected(s)
    BY DEF RestoreCreation
  <2>3. ASSUME NEW x \in Draft PROVE [x EXCEPT !.status = "Failed"] \in Draft /\ Settled(ledger, [x EXCEPT !.status = "Failed"])
    <3>1. [x EXCEPT !.status = "Failed"] \in Draft /\ [x EXCEPT !.status = "Failed"].status = "Failed"
      BY StatusDraft DEF Statuses
    <3>2. QED
      BY <3>1 DEF Settled, FrozenStatuses
  <2>4. SnapshotOK(f) => /\ [f EXCEPT !.status = "Interrupted", !.sub = Snapshot(f)] \in Draft
                         /\ Settled(ledger, [f EXCEPT !.status = "Interrupted", !.sub = Snapshot(f)])
    <3> SUFFICES ASSUME SnapshotOK(f)
                 PROVE  /\ [f EXCEPT !.status = "Interrupted", !.sub = Snapshot(f)] \in Draft
                        /\ Settled(ledger, [f EXCEPT !.status = "Interrupted", !.sub = Snapshot(f)])
      OBVIOUS
    <3>1. Snapshot(f) \in Submission
      BY <2>1, SnapshotTyped
    <3> DEFINE sn == Snapshot(f)
               x == [f EXCEPT !.status = "Interrupted", !.sub = sn]
    <3> HIDE DEF sn
    <3>2. /\ x \in Draft /\ x.status = "Interrupted" /\ x.sub = sn /\ x.title = f.title /\ x.targets = f.targets
          /\ x.defaults = f.defaults
      BY <2>1, <3>1 DEF Draft, Statuses, sn
    <3> HIDE DEF x
    <3>3. Snapshot(x) = Snapshot(f) /\ SnapshotOK(x)
      BY <2>1, <3>2, SnapshotKept
    <3>4. Settled(ledger, x)
      BY <3>2, <3>3 DEF Settled, sn
    <3>5. QED
      BY <3>2, <3>4 DEF x, sn
  <2> HIDE DEF f
  <2>5. sub \in Draft /\ Settled(ledger, sub)
    BY <2>1, <2>3, <2>4
  <2> HIDE DEF sub
  <2>6. checked \in Draft /\ Settled(ledger, checked)
    BY <2>3, <2>5
  <2> HIDE DEF checked
  <2>7. /\ g \in Draft /\ Settled(ledger, g) /\ g.status \notin {"Pending", "Reconciling"}
        /\ \A r \in Repos : g.defaults[r] # "Loading"
    BY <2>6, DisconnectedForm
  <2> HIDE DEF g
  <2>8. s = [f |-> g, jobs |-> posts, c |-> client]
    BY <1>1, FormOnly
  <2>9. Waited([f |-> g, jobs |-> posts, c |-> client])
    BY <2>7 DEF Waited, DefaultsWaited
  <2>10. Holds(ledger, s)
    BY <1>1, <2>7, <2>8, <2>9, HoldsOf
  <2> HIDE DEF s
  <2>11. Holds(ledger, CreationReconnected(s))
    BY <1>2, <2>10, ReconnectedHolds
  <2>12. Sets(CreationReconnected(s))
    BY <1>6, <2>2 DEF Restore, f
  <2>13. QED
    BY <1>4, <2>11, <2>12
<1>7. QED
  BY <1>5, <1>6

\* The browser reloads.
LEMMA ReloadStep ==
  ASSUME CreationInv, Reload
  PROVE  CreationInv'
<1>1. /\ S0 = [f |-> form, jobs |-> posts, c |-> client] /\ S0.f = form /\ S0.jobs = posts /\ S0.c = client
      /\ form \in Draft /\ \A j \in posts : IsPost(ledger, j)
      /\ Settled(ledger, form)
  BY S0Parts
<1>2. IsLedger(ledger) /\ allowance' \in Allowance /\ ledger' = ledger /\ form' = NoForm /\ client' = FreshClient
      /\ posts' = ClearInFlight(S0).jobs
  BY UsesStep DEF CreationInv, Reload
<1>3. \A j \in posts' : IsPost(ledger, j)
  BY <1>1, <1>2, ClearedPosts
<1>4. PICK resume \in {"Editing", "Submitted"}, foreign \in BOOLEAN :
        saved' = [form |-> IF resume = "Submitted" /\ form.status = "Pending"
                           THEN [form EXCEPT !.status = "Editing"] ELSE form,
                  resume |-> resume, foreign |-> foreign]
  BY DEF Reload
<1> DEFINE b == IF resume = "Submitted" /\ form.status = "Pending"
                THEN [form EXCEPT !.status = "Editing"] ELSE form
<1>5. b \in Draft /\ Settled(ledger, b)
  <2>1. [form EXCEPT !.status = "Editing"] \in Draft /\ [form EXCEPT !.status = "Editing"].status = "Editing"
    BY <1>1, StatusDraft DEF Statuses
  <2>2. Settled(ledger, [form EXCEPT !.status = "Editing"])
    BY <2>1 DEF Settled, FrozenStatuses
  <2>3. QED
    BY <1>1, <2>1, <2>2
<1>6. saved' = [form |-> b, resume |-> resume, foreign |-> foreign]
  BY <1>4
<1> HIDE DEF b
<1>7. saved' \in Keepsake /\ saved'.form = b
  BY <1>4, <1>5, <1>6 DEF Keepsake
<1>8. NoForm \in Draft /\ Settled(ledger, NoForm)
  BY NoFormDraft
<1>9. FreshClient \in Holder /\ ~FreshClient.up
  BY DEF FreshClient, Holder, NoId
<1> DEFINE s == [f |-> NoForm, jobs |-> posts', c |-> FreshClient]
<1>10. Waited(s)
  BY DEF Waited, DefaultsWaited, NoForm, NoDefaults
<1>11. Holds(ledger, s)
  BY <1>3, <1>8, <1>9, <1>10, HoldsOf
<1>12. S0' = s
  BY <1>2 DEF S0
<1> HIDE DEF s
<1>13. Holds(ledger, S0)'
  BY <1>2, <1>11, <1>12 DEF Holds, Handled, IsPost, Settled, WasCreated, Waited, DefaultsWaited, AskedFor
<1>14. IsLedger(ledger)' /\ (saved \in Keepsake)' /\ Settled(ledger, saved.form)' /\ (allowance \in Allowance)'
  BY <1>2, <1>5, <1>7 DEF Settled, WasCreated
<1>15. QED
  BY <1>13, <1>14 DEF CreationInv

-----------------------------------------------------------------------------
(* Learning what was created.                                              *)

\* A form learns of a review: of its own identity, it settles.
LEMMA FoundDoes ==
  ASSUME NEW f \in Draft, Settled(ledger, f), NEW v, Known(v)
  PROVE  LET g == CreationFound(f, v) IN
         /\ g \in Draft /\ Settled(ledger, g) /\ g.rid = f.rid /\ g.defaults = f.defaults
         /\ g.status = f.status \/ g.status \notin {"Pending", "Reconciling"}
         /\ f.rid = v.rid => g.status \notin {"Pending", "Reconciling"}
<1>1. CASE f.rid # v.rid \/ f.status \notin {"Pending", "Interrupted", "Reconciling"}
  BY <1>1 DEF CreationFound
<1>2. CASE f.rid = v.rid /\ f.status \in {"Pending", "Interrupted", "Reconciling"}
  <2> DEFINE st == IF f.sub = v.sub THEN "Succeeded" ELSE "Interrupted"
             g == [f EXCEPT !.status = st]
  <2>1. CreationFound(f, v) = g
    BY <1>2 DEF CreationFound
  <2>2. st \in Statuses /\ st \in FrozenStatuses /\ st \notin {"Pending", "Reconciling"}
    BY DEF Statuses, FrozenStatuses
  <2>3. st = "Succeeded" => WasCreated(ledger, f.rid, f.sub)
    <3> SUFFICES ASSUME f.sub = v.sub PROVE WasCreated(ledger, f.rid, f.sub)
      OBVIOUS
    <3>1. f.sub \in Submission
      BY DraftFields
    <3>2. f.sub.title # Foreign
      BY <3>1, CreationAssumption DEF Submission, Foreign, Blank
    <3>3. QED
      BY <1>2, <3>2 DEF Known
  <2> HIDE DEF st
  <2>4. /\ g \in Draft /\ g.status = st /\ g.rid = f.rid /\ g.title = f.title /\ g.targets = f.targets
        /\ g.defaults = f.defaults /\ g.sub = f.sub
    BY <2>2, StatusDraft
  <2> HIDE DEF g
  <2>5. f.sub = Snapshot(f) /\ SnapshotOK(f)
    BY <1>2 DEF Settled, FrozenStatuses
  <2>6. Snapshot(g) = Snapshot(f) /\ SnapshotOK(g)
    BY <2>4, <2>5, SnapshotKept
  <2>7. Settled(ledger, g)
    BY <2>3, <2>4, <2>5, <2>6 DEF Settled
  <2>8. QED
    BY <2>1, <2>2, <2>4, <2>7
<1>3. QED
  BY <1>1, <1>2

\* What an event does to the client.
LEMMA AppliesDoes ==
  ASSUME NEW s, s = [f |-> s.f, jobs |-> s.jobs, c |-> s.c], s.f \in Draft, s.c \in Holder, Settled(ledger, s.f),
         NEW n \in 1 .. LogEnd, IsLedger(ledger)
  PROVE  LET t == ApplyToLists(s, ledger[n]) IN
         /\ t = [f |-> t.f, jobs |-> s.jobs, c |-> t.c] /\ t.f \in Draft /\ t.c \in Holder /\ Settled(ledger, t.f)
         /\ t.c.up = s.c.up /\ t.c.seen = s.c.seen /\ t.c.cut = s.c.cut
         /\ t.f.rid = s.f.rid /\ t.f.defaults = s.f.defaults
         /\ t.f.status = s.f.status \/ t.f.status \notin {"Pending", "Reconciling"}
<1> DEFINE e == ledger[n]
           v == [rid |-> e.rid, sub |-> e.sub]
           g == IF e.kind = "Created" THEN CreationFound(s.f, v) ELSE s.f
           rs == ListAfter(s.c.reviews, e)
           ps == IF s.c.known THEN ReposAfter(s.c.repos, e) ELSE s.c.repos
           c == [s.c EXCEPT !.reviews = rs, !.repos = ps]
           t == ApplyToLists(s, e)
<1>1. IsEvent(e)
  BY DEF IsLedger, LogEnd
<1>2. e.kind = "Created" => Known(v)
  <2>1. e.kind = "Created" => e = ReviewCreated(e.rid, e.sub)
    BY <1>1 DEF IsEvent, ReviewCreated
  <2>2. v.rid = e.rid /\ v.sub = e.sub
    OBVIOUS
  <2> HIDE DEF v
  <2>3. QED
    BY <2>1, <2>2 DEF Known, WasCreated, LogEnd
<1>3. rs \in SUBSET ListedReview /\ ps \in Seq(Repos)
  <2>1. s.c.reviews \in SUBSET ListedReview /\ s.c.repos \in Seq(Repos)
    BY DEF Holder
  <2> HIDE DEF e
  <2>2. QED
    BY <1>1, <2>1, ListStep, ReposStep
<1>4. t = [f |-> g, jobs |-> s.jobs, c |-> c]
  <2> DEFINE t1 == [s EXCEPT !.f = g]
             t2 == [t1 EXCEPT !.c = [t1.c EXCEPT !.reviews = rs]]
  <2>1. t1 = [f |-> g, jobs |-> s.jobs, c |-> s.c]
    <3> HIDE DEF g
    <3>1. QED
      BY FormOnly
  <2>2. t1.f = g /\ t1.c = s.c /\ t1.jobs = s.jobs /\ t1 = [f |-> t1.f, jobs |-> t1.jobs, c |-> t1.c]
    <3> HIDE DEF t1, g
    <3>1. QED
      BY <2>1
  <2>3. t2 = [f |-> g, jobs |-> s.jobs, c |-> [s.c EXCEPT !.reviews = rs]]
    <3> HIDE DEF t1, g, rs
    <3>1. QED
      BY <2>2, FormOnly
  <2>4. t = [t2 EXCEPT !.c.repos = IF s.c.known THEN ReposAfter(@, e) ELSE @]
    <3>1. t1.c.reviews = s.c.reviews
      <4> HIDE DEF t1
      <4>1. QED
        BY <2>2
    <3>2. t = [[[s EXCEPT !.f = g] EXCEPT !.c.reviews = ListAfter(@, e)] EXCEPT !.c.repos = IF s.c.known THEN ReposAfter(@, e) ELSE @]
      BY DEF ApplyToLists
    <3>3. [[s EXCEPT !.f = g] EXCEPT !.c.reviews = ListAfter(@, e)] = t2
      <4>1. [t1 EXCEPT !.c.reviews = ListAfter(@, e)] = [t1 EXCEPT !.c = [t1.c EXCEPT !.reviews = ListAfter(t1.c.reviews, e)]]
        <5> HIDE DEF t1, e
        <5>1. QED
          BY <2>2
      <4>2. ListAfter(t1.c.reviews, e) = rs
        BY <3>1
      <4> HIDE DEF t1, rs, e
      <4>3. QED
        BY <4>1, <4>2 DEF t1
    <3> HIDE DEF t, t2, t1, g, rs, e
    <3>4. QED
      BY <3>2, <3>3
  <2>5. t2.c = [s.c EXCEPT !.reviews = rs] /\ t2.f = g /\ t2.jobs = s.jobs /\ t2 = [f |-> t2.f, jobs |-> t2.jobs, c |-> t2.c]
    <3> HIDE DEF t2, g, rs
    <3>1. QED
      BY <2>3
  <2>6. t2.c.repos = s.c.repos
    <3> HIDE DEF t2, rs
    <3>1. QED
      BY <2>5 DEF Holder
  <2> HIDE DEF t2, t1, g, rs, e
  <2>7. [t2 EXCEPT !.c.repos = IF s.c.known THEN ReposAfter(@, e) ELSE @]
           = [t2 EXCEPT !.c = [t2.c EXCEPT !.repos = IF s.c.known THEN ReposAfter(t2.c.repos, e) ELSE t2.c.repos]]
    BY <2>5
  <2> HIDE DEF t
  <2>8. t = [t2 EXCEPT !.c = [t2.c EXCEPT !.repos = ps]]
    BY <2>4, <2>6, <2>7
  <2> HIDE DEF ps
  <2>9. t = [f |-> g, jobs |-> s.jobs, c |-> [t2.c EXCEPT !.repos = ps]]
    BY <2>5, <2>8, FormOnly
  <2>10. [t2.c EXCEPT !.repos = ps] = c
    BY <2>5
  <2>11. QED
    BY <2>9, <2>10
<1> HIDE DEF rs, ps
<1>5. c \in Holder /\ c.up = s.c.up /\ c.seen = s.c.seen /\ c.cut = s.c.cut
  BY <1>3 DEF Holder
<1>6. /\ g \in Draft /\ Settled(ledger, g) /\ g.rid = s.f.rid /\ g.defaults = s.f.defaults
      /\ g.status = s.f.status \/ g.status \notin {"Pending", "Reconciling"}
  <2> HIDE DEF v, e
  <2>1. QED
    BY <1>2, FoundDoes
<1> HIDE DEF g, c, t
<1>7. t.f = g /\ t.c = c /\ t.jobs = s.jobs /\ t = [f |-> t.f, jobs |-> s.jobs, c |-> t.c]
  BY <1>4
<1>8. QED
  BY <1>5, <1>6, <1>7 DEF t


\* Another answer than the form's takes nothing from it.
LEMMA OthersGo ==
  ASSUME NEW s, NEW j, NEW t, s.c.cut \/ Waited(s), t.c.up = s.c.up, t.c.cut = s.c.cut, t.f.rid = s.f.rid,
         t.f.status = s.f.status \/ t.f.status \notin {"Pending", "Reconciling"},
         \A r \in Repos : t.f.defaults[r] = "Loading" => s.f.defaults[r] = "Loading",
         s.jobs \ {j} \subseteq t.jobs,
         j.rid = s.f.rid => Released(t, j)
  PROVE  t.c.cut \/ Waited(t)
<1> SUFFICES ASSUME Waited(s) PROVE Waited(t)
  OBVIOUS
<1>1. ASSUME NEW k \in s.jobs, ~k.orphan /\ k.rid = s.f.rid
      PROVE  \/ \E m \in t.jobs : m.kind = k.kind /\ m.rid = k.rid /\ m.repo = k.repo /\ ~m.orphan
             \/ Released(t, k)
  <2>1. CASE k = j
    BY <1>1, <2>1
  <2>2. CASE k # j
    <3>1. k \in t.jobs
      BY <2>2
    <3>2. QED
      BY <1>1, <3>1
  <2>3. QED
    BY <2>1, <2>2
<1>2. QED
  BY <1>1, WaitedKept

\* The state without an answered request.
LEMMA AnsweredParts ==
  ASSUME CreationInv, NEW j
  PROVE  LET s == Answered(S0, j) IN
         /\ s = [f |-> form, jobs |-> posts \ {j}, c |-> client] /\ s.f = form /\ s.jobs = posts \ {j} /\ s.c = client
         /\ Handled(ledger, s)
<1>1. /\ S0 = [f |-> form, jobs |-> posts, c |-> client] /\ form \in Draft /\ client \in Holder
      /\ (client.up => client.seen \in Nat) /\ \A k \in posts : IsPost(ledger, k)
  BY S0Parts
<1> DEFINE s == Answered(S0, j)
<1>2. s = [f |-> form, jobs |-> posts \ {j}, c |-> client]
  <2>1. S0.f = form /\ S0.jobs = posts /\ S0.c = client /\ S0 = [f |-> S0.f, jobs |-> S0.jobs, c |-> S0.c]
    BY <1>1
  <2>2. [S0 EXCEPT !.jobs = posts \ {j}] = [f |-> form, jobs |-> posts \ {j}, c |-> client]
    BY <2>1, JobsOnly
  <2>3. QED
    BY <2>1, <2>2 DEF Answered
<1> HIDE DEF s
<1>3. s.f = form /\ s.jobs = posts \ {j} /\ s.c = client
  BY <1>2
<1>4. Handled(ledger, s)
  BY <1>1, <1>2, <1>3 DEF Handled
<1>5. QED
  BY <1>2, <1>3, <1>4 DEF s

\* A step that answers a request: the form is released from it, or it was not
\* the form's.
LEMMA AnswerHolds ==
  ASSUME CreationInv, NEW j \in posts, NEW f \in Draft, NEW c \in Holder, NEW tasks, Settled(ledger, f),
         c.up = client.up, c.cut = client.cut, c.up => c.seen \in Nat, f.rid = form.rid,
         f.status = form.status \/ f.status \notin {"Pending", "Reconciling"},
         \A r \in Repos : f.defaults[r] = "Loading" => form.defaults[r] = "Loading",
         posts \ {j} \subseteq tasks, \A k \in tasks : IsPost(ledger, k),
         j.rid = form.rid => Released([f |-> f, jobs |-> tasks, c |-> c], j)
  PROVE  Holds(ledger, [f |-> f, jobs |-> tasks, c |-> c])
<1>1. S0.f = form /\ S0.jobs = posts /\ S0.c = client /\ (S0.c.cut \/ Waited(S0))
  BY S0Parts
<1> DEFINE t == [f |-> f, jobs |-> tasks, c |-> c]
<1>2. t.f = f /\ t.jobs = tasks /\ t.c = c
  OBVIOUS
<1>3. j.rid = S0.f.rid => Released(t, j)
  BY <1>1
<1> HIDE DEF t
<1>4. t.c.cut \/ Waited(t)
  BY <1>1, <1>2, <1>3, OthersGo
<1>5. QED
  BY <1>2, <1>4, HoldsOf DEF t

\* An event of the feed.
LEMMA EventArrivesStep ==
  ASSUME CreationInv, EventArrives
  PROVE  CreationInv'
<1>1. /\ S0 = [f |-> form, jobs |-> posts, c |-> client] /\ S0.f = form /\ S0.jobs = posts /\ S0.c = client
      /\ form \in Draft /\ client \in Holder /\ (client.up => client.seen \in Nat) /\ (\A j \in posts : IsPost(ledger, j))
      /\ Settled(ledger, form) /\ (client.cut \/ Waited(S0)) /\ IsLedger(ledger)
  BY S0Parts DEF CreationInv
<1> DEFINE s == [S0 EXCEPT !.c.seen = @ + 1]
           c == [client EXCEPT !.seen = client.seen + 1]
           n == client.seen + 1
           t == ApplyToLists(s, ledger[n])
<1>2. Sets(t) /\ client.up /\ client.seen < LogEnd /\ ledger' = ledger /\ saved' = saved /\ allowance' \in Allowance
  BY DEF EventArrives, CreationInv
<1>3. n \in 1 .. LogEnd /\ n \in Nat
  BY <1>1, <1>2 DEF IsLedger, LogEnd
<1>4. s = [f |-> form, jobs |-> posts, c |-> c]
  <2>1. s = [S0 EXCEPT !.c = c]
    BY <1>1
  <2>2. QED
    BY <1>1, <2>1, FormOnly
<1>5. c \in Holder /\ c.up = client.up /\ c.cut = client.cut /\ c.seen \in Nat
  BY <1>1, <1>3 DEF Holder
<1> HIDE DEF s, c
<1>6. s.f = form /\ s.jobs = posts /\ s.c = c /\ s = [f |-> s.f, jobs |-> s.jobs, c |-> s.c]
  BY <1>4
<1> HIDE DEF n
<1>7. /\ t = [f |-> t.f, jobs |-> posts, c |-> t.c] /\ t.f \in Draft /\ t.c \in Holder /\ Settled(ledger, t.f)
      /\ t.c.up = c.up /\ t.c.seen = c.seen /\ t.c.cut = c.cut
      /\ t.f.rid = form.rid /\ t.f.defaults = form.defaults
      /\ t.f.status = form.status \/ t.f.status \notin {"Pending", "Reconciling"}
  BY <1>1, <1>3, <1>5, <1>6, AppliesDoes
<1> HIDE DEF t
<1>8. t.jobs = posts
  BY <1>7
<1>9. Waited(S0) => Waited(t)
  <2>1. ASSUME NEW j \in S0.jobs, ~j.orphan /\ j.rid = S0.f.rid
        PROVE  \E k \in t.jobs : k.kind = j.kind /\ k.rid = j.rid /\ k.repo = j.repo /\ ~k.orphan
    BY <1>1, <1>8, <2>1
  <2>2. QED
    BY <1>1, <1>5, <1>7, <2>1, WaitedKept
<1>10. Holds(ledger, t)
  <2>1. t.c.cut \/ Waited([f |-> t.f, jobs |-> posts, c |-> t.c])
    BY <1>1, <1>5, <1>7, <1>9
  <2>2. Holds(ledger, [f |-> t.f, jobs |-> posts, c |-> t.c])
    BY <1>1, <1>5, <1>7, <2>1, HoldsOf
  <2>3. QED
    BY <1>7, <2>2
<1>11. QED
  BY <1>2, <1>10, SetsStep

\* The default base of a repository.
LEMMA DefaultStep ==
  ASSUME CreationInv, DefaultAnswer
  PROVE  CreationInv'
<1>1. PICK j \in Mine({"Default"}), to \in {"Ready", "Failed"} :
        Sets(IF form.rid = j.rid /\ form.defaults[j.repo] = "Loading"
             THEN [Answered(S0, j) EXCEPT !.f.defaults[j.repo] = to] ELSE Answered(S0, j))
  BY DEF DefaultAnswer
<1>2. j \in posts /\ j.kind = "Default"
  BY DEF Mine
<1>3. /\ form \in Draft /\ client \in Holder /\ (client.up => client.seen \in Nat) /\ (\A k \in posts : IsPost(ledger, k))
      /\ Settled(ledger, form) /\ ledger' = ledger /\ saved' = saved /\ allowance' \in Allowance
      /\ form.defaults \in [Repos -> DefaultStates]
  BY S0Parts, DraftFields DEF CreationInv, DefaultAnswer
<1> DEFINE s == Answered(S0, j)
<1>4. s = [f |-> form, jobs |-> posts \ {j}, c |-> client] /\ s.f = form /\ s.jobs = posts \ {j} /\ s.c = client
  BY AnsweredParts
<1>5. CASE form.rid = j.rid /\ form.defaults[j.repo] = "Loading"
  <2> DEFINE d == [form.defaults EXCEPT ![j.repo] = to]
             f == [form EXCEPT !.defaults = d]
             t == [s EXCEPT !.f.defaults[j.repo] = to]
  <2>1. Sets(t)
    BY <1>1, <1>5
  <2>2. t = [f |-> f, jobs |-> posts \ {j}, c |-> client]
    <3>1. t = [s EXCEPT !.f = f]
      BY <1>4
    <3> HIDE DEF f, s
    <3>2. s = [f |-> s.f, jobs |-> s.jobs, c |-> s.c]
      BY <1>4
    <3>3. QED
      BY <1>4, <3>1, <3>2, FormOnly
  <2>3. d \in [Repos -> DefaultStates] /\ \A r \in Repos : d[r] = IF r = j.repo THEN to ELSE form.defaults[r]
    BY <1>3 DEF DefaultStates
  <2> HIDE DEF d
  <2>4. /\ f \in Draft /\ f.defaults = d /\ f.status = form.status /\ f.rid = form.rid /\ f.title = form.title
        /\ f.targets = form.targets /\ f.sub = form.sub
    BY <1>3, <2>3 DEF Draft
  <2> HIDE DEF f, t, s
  <2>5. /\ \A r \in Repos : form.defaults[r] = "Ready" => f.defaults[r] = "Ready"
        /\ \A r \in Repos : f.defaults[r] = "Loading" => form.defaults[r] = "Loading" /\ r # j.repo
    BY <1>5, <2>3, <2>4
  <2>6. Settled(ledger, f)
    BY <1>3, <2>4, <2>5, SettledKept
  <2>7. Released([f |-> f, jobs |-> posts \ {j}, c |-> client], j)
    BY <1>2, <2>5 DEF Released
  <2>8. Holds(ledger, [f |-> f, jobs |-> posts \ {j}, c |-> client])
    BY <1>2, <1>3, <2>4, <2>5, <2>6, <2>7, AnswerHolds
  <2>9. QED
    BY <1>3, <2>1, <2>2, <2>8, SetsStep
<1>6. CASE ~(form.rid = j.rid /\ form.defaults[j.repo] = "Loading")
  <2>1. Sets(s)
    BY <1>1, <1>6
  <2> HIDE DEF s
  <2>2. j.rid = form.rid => Released([f |-> form, jobs |-> posts \ {j}, c |-> client], j)
    BY <1>2, <1>6 DEF Released
  <2>3. Holds(ledger, [f |-> form, jobs |-> posts \ {j}, c |-> client])
    BY <1>2, <1>3, <2>2, AnswerHolds
  <2>4. QED
    BY <1>3, <1>4, <2>1, <2>3, SetsStep
<1>7. QED
  BY <1>5, <1>6

\* A lookup that found nothing, or failed.
LEMMA LookupFailedHolds ==
  ASSUME CreationInv, NEW j \in posts, j.kind \in {"Check", "Reconcile"}, NEW missing \in BOOLEAN
  PROVE  /\ Holds(ledger, LookupFailed(Answered(S0, j), j.rid, missing))
         /\ Holds(ledger, FailureChecked(Answered(S0, j), j.rid))
<1> DEFINE s == Answered(S0, j)
<1>1. /\ form \in Draft /\ client \in Holder /\ (client.up => client.seen \in Nat) /\ (\A k \in posts : IsPost(ledger, k))
      /\ Settled(ledger, form) /\ (client.cut \/ Waited(S0)) /\ S0.f = form /\ S0.jobs = posts /\ S0.c = client /\ IsLedger(ledger)
  BY S0Parts DEF CreationInv
<1>2. /\ s = [f |-> form, jobs |-> posts \ {j}, c |-> client] /\ s.f = form /\ s.jobs = posts \ {j} /\ s.c = client
      /\ Handled(ledger, s)
  BY AnsweredParts
<1> HIDE DEF s
<1>3. ASSUME NEW st \in {"Failed", "Interrupted"}, st = "Interrupted" => form.status = "Reconciling"
      PROVE  Holds(ledger, [s EXCEPT !.f.status = st])
  <2> DEFINE f == [form EXCEPT !.status = st]
  <2>1. [s EXCEPT !.f.status = st] = [s EXCEPT !.f = f]
    BY <1>2
  <2>2. /\ f \in Draft /\ f.status = st /\ f.rid = form.rid /\ f.title = form.title /\ f.targets = form.targets
        /\ f.defaults = form.defaults /\ f.sub = form.sub
    <3>1. st \in Statuses
      BY <1>3 DEF Statuses
    <3>2. QED
      BY <1>1, <3>1, StatusDraft
  <2> HIDE DEF f
  <2>3. [s EXCEPT !.f = f] = [f |-> f, jobs |-> posts \ {j}, c |-> client]
    BY <1>2, FormOnly
  <2>4. Settled(ledger, f)
    BY <1>1, <1>3, <2>2, SettledKept DEF FrozenStatuses
  <2>5. Released([f |-> f, jobs |-> posts \ {j}, c |-> client], j)
    BY <2>2 DEF Released
  <2>6. Holds(ledger, [f |-> f, jobs |-> posts \ {j}, c |-> client])
    BY <1>1, <1>3, <2>2, <2>4, <2>5, AnswerHolds
  <2>7. QED
    BY <2>1, <2>3, <2>6
<1>4. ASSUME form.rid # j.rid \/ form.status # "Reconciling" PROVE Holds(ledger, s)
  <2>1. j.rid = form.rid => Released([f |-> form, jobs |-> posts \ {j}, c |-> client], j)
    BY <1>4 DEF Released
  <2>2. Holds(ledger, [f |-> form, jobs |-> posts \ {j}, c |-> client])
    BY <1>1, <2>1, AnswerHolds
  <2>3. QED
    BY <1>2, <2>2
<1>5. Holds(ledger, FailureChecked(s, j.rid))
  BY <1>2, <1>3, <1>4 DEF FailureChecked
<1>6. Holds(ledger, LookupFailed(s, j.rid, missing))
  <2>1. CASE form.rid # j.rid \/ form.status # "Reconciling"
    BY <1>2, <1>4, <2>1 DEF LookupFailed
  <2>2. CASE form.rid = j.rid /\ form.status = "Reconciling"
    <3>1. CASE missing /\ form.next = "Retry" /\ Distinct(form.sub.targets)
      <4>1. LookupFailed(s, j.rid, missing) = SendCreation(s, form.sub)
        BY <1>2, <2>2, <3>1 DEF LookupFailed
      <4>2. form.sub = Snapshot(form) /\ SnapshotOK(form)
        BY <1>1, <2>2 DEF Settled, FrozenStatuses
      <4>3. s.c.cut \/ (DefaultsWaited(s) /\ s.c.up)
        <5> SUFFICES ASSUME Waited(S0) PROVE DefaultsWaited(s) /\ s.c.up
          BY <1>1, <1>2
        <5>1. s.c.up
          BY <1>1, <1>2, <2>2 DEF Waited
        <5>2. ASSUME NEW r \in Repos, s.f.defaults[r] = "Loading"
              PROVE  \E k \in s.jobs : k.kind \in {"Default"} /\ ~k.orphan /\ k.rid = s.f.rid /\ k.repo = r
          <6>1. PICK k \in posts : k.kind \in {"Default"} /\ ~k.orphan /\ k.rid = form.rid /\ k.repo = r
            BY <1>1, <1>2, <5>2 DEF Waited, DefaultsWaited
          <6>2. k # j
            BY <6>1
          <6>3. k \in s.jobs
            BY <1>2, <6>1, <6>2
          <6>4. QED
            BY <1>2, <6>1, <6>3
        <5>3. QED
          BY <5>1, <5>2 DEF DefaultsWaited
      <4>4. Holds(ledger, SendCreation(s, form.sub))
        BY <1>1, <1>2, <4>2, <4>3, SendHolds
      <4>5. QED
        BY <4>1, <4>4
    <3>2. CASE missing /\ form.next = "Retry" /\ ~Distinct(form.sub.targets)
      <4>1. LookupFailed(s, j.rid, missing) = [s EXCEPT !.f.status = "Failed"]
        BY <1>2, <2>2, <3>2 DEF LookupFailed
      <4>2. QED
        BY <1>3, <4>1
    <3>3. CASE ~(missing /\ form.next = "Retry")
      <4>1. LookupFailed(s, j.rid, missing) = [s EXCEPT !.f.status = "Interrupted"]
        BY <1>2, <2>2, <3>3 DEF LookupFailed
      <4>2. QED
        BY <1>3, <2>2, <4>1
    <3>4. QED
      BY <3>1, <3>2, <3>3
  <2>3. QED
    BY <2>1, <2>2
<1>7. QED
  BY <1>5, <1>6 DEF s


\* A lookup that is answered.
LEMMA LookupStep ==
  ASSUME CreationInv, CreationLookup
  PROVE  CreationInv'
<1>1. PICK j \in Mine({"Check", "Reconcile"}) : \E at \in j.at .. LogEnd :
        Sets(LookupAnswer(Answered(S0, j), j, at))
  BY DEF CreationLookup
<1>2. PICK at \in j.at .. LogEnd : Sets(LookupAnswer(Answered(S0, j), j, at))
  BY <1>1
<1>3. j \in posts /\ j.kind \in {"Check", "Reconcile"}
  BY DEF Mine
<1>4. /\ form \in Draft /\ client \in Holder /\ (client.up => client.seen \in Nat) /\ (\A k \in posts : IsPost(ledger, k))
      /\ Settled(ledger, form) /\ IsLedger(ledger) /\ ledger' = ledger /\ saved' = saved /\ allowance' \in Allowance
  BY S0Parts DEF CreationInv, CreationLookup
<1> DEFINE s == Answered(S0, j)
<1>5. s = [f |-> form, jobs |-> posts \ {j}, c |-> client] /\ s.f = form /\ s.jobs = posts \ {j} /\ s.c = client
  BY AnsweredParts
<1>6. at \in 0 .. LogEnd
  <2>1. IsPost(ledger, j)
    BY <1>3, <1>4
  <2>2. j.at \in Nat /\ LogEnd \in Nat
    BY <1>4, <2>1 DEF IsPost, IsLedger, LogEnd
  <2>3. QED
    BY <1>2, <2>2
<1>7. Holds(ledger, LookupAnswer(s, j, at))
  <2>1. CASE Found(at, j.rid) = {}
    BY <1>3, <2>1, LookupFailedHolds DEF LookupAnswer
  <2>2. CASE Found(at, j.rid) # {}
    <3> DEFINE v == CHOOSE v \in Found(at, j.rid) : TRUE
               g == CreationFound(form, v)
               rs == {r \in client.reviews : r.rid # v.rid} \cup {v}
               c == [client EXCEPT !.reviews = rs]
               t == [s EXCEPT !.f = CreationFound(@, v),
                       !.c.reviews = {r \in @ : r.rid # v.rid} \cup {v}]
    <3>1. LookupAnswer(s, j, at) = t
      BY <2>2 DEF LookupAnswer
    <3>2. v \in ReviewsAt(at) /\ v.rid = j.rid
      BY <2>2 DEF Found
    <3> HIDE DEF v
    <3>3. v \in ListedReview /\ Known(v)
      BY <1>4, <1>6, <3>2, ReviewsKnown
    <3>4. /\ g \in Draft /\ Settled(ledger, g) /\ g.rid = form.rid /\ g.defaults = form.defaults
          /\ g.status = form.status \/ g.status \notin {"Pending", "Reconciling"}
          /\ form.rid = v.rid => g.status \notin {"Pending", "Reconciling"}
      BY <1>4, <3>3, FoundDoes
    <3>5. rs \in SUBSET ListedReview
      BY <1>4, <3>3 DEF Holder
    <3>6. c \in Holder /\ c.up = client.up /\ c.seen = client.seen /\ c.cut = client.cut
      <4> HIDE DEF rs
      <4>1. QED
        BY <1>4, <3>5 DEF Holder
    <3>7. t = [f |-> g, jobs |-> posts \ {j}, c |-> c]
      <4> DEFINE t2 == [s EXCEPT !.f = CreationFound(s.f, v)]
      <4>1. t2 = [f |-> g, jobs |-> posts \ {j}, c |-> client]
        <5> HIDE DEF s
        <5>1. QED
          BY <1>5, FormOnly
      <4>2. t = [t2 EXCEPT !.c.reviews = {r \in @ : r.rid # v.rid} \cup {v}]
        OBVIOUS
      <4> HIDE DEF s, t2, g, t
      <4>3. t2.f = g /\ t2.jobs = posts \ {j} /\ t2.c = client /\ t2 = [f |-> t2.f, jobs |-> t2.jobs, c |-> t2.c]
        BY <4>1
      <4>4. [t2 EXCEPT !.c.reviews = {r \in @ : r.rid # v.rid} \cup {v}] = [t2 EXCEPT !.c = c]
        BY <4>3
      <4> HIDE DEF rs, c
      <4>5. QED
        BY <4>2, <4>3, <4>4, FormOnly
    <3> HIDE DEF g, c, t
    <3>8. j.rid = form.rid => Released([f |-> g, jobs |-> posts \ {j}, c |-> c], j)
      BY <1>3, <3>2, <3>4 DEF Released
    <3>9. Holds(ledger, [f |-> g, jobs |-> posts \ {j}, c |-> c])
      BY <1>3, <1>4, <3>4, <3>6, <3>8, AnswerHolds
    <3>10. QED
      BY <3>1, <3>7, <3>9
  <2>3. QED
    BY <2>1, <2>2
<1>8. QED
  BY <1>2, <1>4, <1>7, SetsStep

\* A lookup that failed.
LEMMA LookupErrorStep ==
  ASSUME CreationInv, LookupError
  PROVE  CreationInv'
<1>1. PICK j \in Mine({"Check", "Reconcile"}) : Sets(LookupFailed(Answered(S0, j), j.rid, FALSE))
  BY DEF LookupError
<1>2. j \in posts /\ j.kind \in {"Check", "Reconcile"}
  BY DEF Mine
<1>3. ledger' = ledger /\ saved' = saved /\ allowance' \in Allowance
  BY UsesStep DEF CreationInv, LookupError
<1> DEFINE a == LookupFailed(Answered(S0, j), j.rid, FALSE)
<1>4. Holds(ledger, a)
  BY <1>2, LookupFailedHolds
<1>5. Sets(a)
  BY <1>1
<1> HIDE DEF a
<1>6. QED
  BY <1>3, <1>4, <1>5, SetsStep

\* The lists.
LEMMA ListsStep ==
  ASSUME CreationInv, ListsAnswered
  PROVE  CreationInv'
<1>1. PICK j \in Mine({"Workspaces", "Reviews"}) : \E at \in j.at .. LogEnd : Sets(ListAnswer(Answered(S0, j), j, at))
  BY DEF ListsAnswered
<1>2. PICK at \in j.at .. LogEnd : Sets(ListAnswer(Answered(S0, j), j, at))
  BY <1>1
<1>3. j \in posts /\ j.kind \in {"Workspaces", "Reviews"}
  BY DEF Mine
<1>4. /\ form \in Draft /\ client \in Holder /\ (client.up => client.seen \in Nat) /\ (\A k \in posts : IsPost(ledger, k))
      /\ Settled(ledger, form) /\ IsLedger(ledger) /\ ledger' = ledger /\ saved' = saved /\ allowance' \in Allowance
  BY S0Parts DEF CreationInv, ListsAnswered
<1> DEFINE s == Answered(S0, j)
<1>5. s = [f |-> form, jobs |-> posts \ {j}, c |-> client] /\ s.f = form /\ s.jobs = posts \ {j} /\ s.c = client
  BY AnsweredParts
<1>6. at \in 0 .. LogEnd
  <2>1. IsPost(ledger, j)
    BY <1>3, <1>4
  <2>2. j.at \in Nat /\ LogEnd \in Nat
    BY <1>4, <2>1 DEF IsPost, IsLedger, LogEnd
  <2>3. QED
    BY <1>2, <2>2
<1> HIDE DEF s
<1>7. ASSUME NEW c \in Holder, c.up = client.up, c.seen = client.seen, c.cut = client.cut
       PROVE  Holds(ledger, [f |-> form, jobs |-> posts \ {j}, c |-> c])
  <2>1. Released([f |-> form, jobs |-> posts \ {j}, c |-> c], j)
    BY <1>3 DEF Released
  <2>2. QED
    BY <1>3, <1>4, <1>7, <2>1, AnswerHolds
<1>8. CASE j.kind = "Reviews"
  <2> DEFINE c == [client EXCEPT !.reviews = ReviewsAt(at)]
             t == [s EXCEPT !.c.reviews = ReviewsAt(at)]
  <2>1. ListAnswer(s, j, at) = t
    BY <1>8 DEF ListAnswer
  <2>2. ReviewsAt(at) \in SUBSET ListedReview
    BY <1>4, <1>6, ReviewsKnown
  <2>3. c \in Holder /\ c.up = client.up /\ c.seen = client.seen /\ c.cut = client.cut
    BY <1>4, <2>2 DEF Holder
  <2>4. t = [s EXCEPT !.c = c]
    BY <1>5
  <2> HIDE DEF c, t
  <2>5. t = [f |-> form, jobs |-> posts \ {j}, c |-> c]
    BY <1>5, <2>4, FormOnly
  <2>6. Holds(ledger, t)
    BY <1>7, <2>3, <2>5
  <2>7. QED
    BY <1>2, <1>4, <2>1, <2>6, SetsStep DEF s
<1>9. CASE j.kind = "Workspaces"
  <2> DEFINE c2 == [client EXCEPT !.known = TRUE]
             c == [c2 EXCEPT !.repos = ReposAt(at)]
             t2 == [s EXCEPT !.c = c2]
             t == [s EXCEPT !.c.known = TRUE, !.c.repos = ReposAt(at)]
  <2>1. ListAnswer(s, j, at) = Asks(t, "Reviews", NoId, NoId, NoSubmission)
    BY <1>9 DEF ListAnswer
  <2>2. ReposAt(at) \in Seq(Repos)
    BY <1>4, <1>6, ReposTyped
  <2>3. c2 \in Holder /\ c2.up = client.up /\ c2.seen = client.seen /\ c2.cut = client.cut
    BY <1>4 DEF Holder
  <2>4. t2 = [f |-> form, jobs |-> posts \ {j}, c |-> c2]
    <3> HIDE DEF c2
    <3>1. QED
      BY <1>5, FormOnly
  <2>5. t = [t2 EXCEPT !.c.repos = ReposAt(at)]
    BY <1>5
  <2> HIDE DEF c2, t2, t
  <2>6. c \in Holder /\ c.up = client.up /\ c.seen = client.seen /\ c.cut = client.cut
    BY <2>2, <2>3 DEF Holder
  <2>7. t2.f = form /\ t2.jobs = posts \ {j} /\ t2.c = c2 /\ t2 = [f |-> t2.f, jobs |-> t2.jobs, c |-> t2.c]
    BY <2>4
  <2>8. t = [t2 EXCEPT !.c = c]
    BY <2>5, <2>7
  <2> HIDE DEF c
  <2>9. t = [f |-> form, jobs |-> posts \ {j}, c |-> c]
    BY <2>7, <2>8, FormOnly
  <2>10. Holds(ledger, t)
    BY <1>7, <2>6, <2>9
  <2>11. Holds(ledger, Asks(t, "Reviews", NoId, NoId, NoSubmission))
    BY <1>4, <2>10, AsksList
  <2>12. QED
    BY <1>2, <1>4, <2>1, <2>11, SetsStep DEF s
<1>10. QED
  BY <1>3, <1>8, <1>9

\* A write whose answer is an error is looked up.
LEMMA WriteFailedHolds ==
  ASSUME CreationInv, NEW j \in posts, j.kind = "Create", NEW tasks, posts \ {j} \subseteq tasks,
         \A k \in tasks : IsPost(ledger, k), NEW s, s = [f |-> form, jobs |-> tasks, c |-> client]
  PROVE  Holds(ledger, WriteFailed(s, j.rid))
<1>1. /\ form \in Draft /\ client \in Holder /\ (client.up => client.seen \in Nat)
      /\ Settled(ledger, form) /\ (client.cut \/ Waited(S0)) /\ S0.f = form /\ S0.jobs = posts /\ S0.c = client /\ IsLedger(ledger)
  BY S0Parts DEF CreationInv
<1>2. s.f = form /\ s.jobs = tasks /\ s.c = client /\ s = [f |-> s.f, jobs |-> s.jobs, c |-> s.c]
  OBVIOUS
<1>3. CASE ~(form.rid = j.rid /\ form.status = "Pending")
  <2>1. WriteFailed(s, j.rid) = s
    BY <1>2, <1>3 DEF WriteFailed
  <2>2. j.rid = form.rid => Released([f |-> form, jobs |-> tasks, c |-> client], j)
    BY <1>3 DEF Released
  <2>3. Holds(ledger, [f |-> form, jobs |-> tasks, c |-> client])
    BY <1>1, <2>2, AnswerHolds
  <2>4. QED
    BY <2>1, <2>3
<1>4. CASE form.rid = j.rid /\ form.status = "Pending"
  <2> DEFINE g1 == [form EXCEPT !.status = "Reconciling"]
             g == [g1 EXCEPT !.next = "Inspect"]
             s1 == [s EXCEPT !.f = g1]
             u == [s EXCEPT !.f.status = "Reconciling", !.f.next = "Inspect"]
  <2>1. WriteFailed(s, j.rid) = Asks(u, "Check", j.rid, NoId, NoSubmission)
    BY <1>2, <1>4 DEF WriteFailed
  <2>2. /\ g \in Draft /\ g.status = "Reconciling" /\ g.rid = form.rid /\ g.title = form.title /\ g.targets = form.targets
        /\ g.defaults = form.defaults /\ g.sub = form.sub
    BY <1>1 DEF Draft, Statuses
  <2>3. s1 = [f |-> g1, jobs |-> tasks, c |-> client]
    <3> HIDE DEF g1
    <3>1. QED
      BY <1>2, FormOnly
  <2>4. u = [s1 EXCEPT !.f.next = "Inspect"]
    BY <1>2
  <2> HIDE DEF s1, g1, u
  <2>5. s1.f = g1 /\ s1.jobs = tasks /\ s1.c = client /\ s1 = [f |-> s1.f, jobs |-> s1.jobs, c |-> s1.c]
    BY <2>3
  <2>6. u = [s1 EXCEPT !.f = g]
    BY <2>4, <2>5
  <2> HIDE DEF g
  <2>7. u = [f |-> g, jobs |-> tasks, c |-> client]
    BY <2>5, <2>6, FormOnly
  <2>8. u.f = g /\ u.jobs = tasks /\ u.c = client /\ u = [f |-> u.f, jobs |-> u.jobs, c |-> u.c]
    BY <2>7
  <2>9. Handled(ledger, u)
    BY <1>1, <2>2, <2>8 DEF Handled
  <2>10. Settled(ledger, g)
    BY <1>1, <1>4, <2>2, SettledKept DEF FrozenStatuses
  <2>11. u.c.cut \/ (u.c.up /\ DefaultsWaited(u))
    <3> SUFFICES ASSUME Waited(S0) PROVE u.c.up /\ DefaultsWaited(u)
      BY <1>1, <2>8
    <3>1. u.c.up
      BY <1>1, <1>4, <2>8 DEF Waited
    <3>2. ASSUME NEW r \in Repos, u.f.defaults[r] = "Loading"
          PROVE  \E k \in u.jobs : k.kind \in {"Default"} /\ ~k.orphan /\ k.rid = u.f.rid /\ k.repo = r
      <4>1. PICK k \in posts : k.kind \in {"Default"} /\ ~k.orphan /\ k.rid = form.rid /\ k.repo = r
        BY <1>1, <2>2, <2>8, <3>2 DEF Waited, DefaultsWaited
      <4>2. k # j
        BY <4>1
      <4>3. k \in u.jobs
        BY <2>8, <4>1, <4>2
      <4>4. QED
        BY <2>2, <2>8, <4>1, <4>3
    <3>3. QED
      BY <3>1, <3>2 DEF DefaultsWaited
  <2>12. NoSubmission \in Submission
    BY NoFormDraft
  <2>13. Holds(ledger, Asks(u, "Check", u.f.rid, NoId, NoSubmission))
    BY <1>1, <2>2, <2>8, <2>9, <2>10, <2>11, <2>12, AskedHolds
  <2>14. QED
    BY <1>4, <2>1, <2>2, <2>8, <2>13
<1>5. QED
  BY <1>3, <1>4

\* A write whose answer is lost with the daemon.
LEMMA InterruptedStep ==
  ASSUME CreationInv, CreateInterrupted
  PROVE  CreationInv'
<1>1. PICK j \in Mine({"Create"}) :
       Sets(WriteFailed([S0 EXCEPT !.jobs = (@ \ {j}) \cup
              (IF j.result = "None" THEN {[j EXCEPT !.orphan = TRUE]} ELSE {})], j.rid))
  BY DEF CreateInterrupted
<1>2. j \in posts /\ j.kind = "Create"
  BY DEF Mine
<1>3. ledger' = ledger /\ saved' = saved /\ allowance' \in Allowance
  BY UsesStep DEF CreationInv, CreateInterrupted
<1>4. /\ S0 = [f |-> form, jobs |-> posts, c |-> client] /\ S0.f = form /\ S0.jobs = posts /\ S0.c = client
      /\ \A k \in posts : IsPost(ledger, k)
  BY S0Parts
<1> DEFINE tasks == (posts \ {j}) \cup (IF j.result = "None" THEN {[j EXCEPT !.orphan = TRUE]} ELSE {})
           s == [S0 EXCEPT !.jobs = (@ \ {j}) \cup (IF j.result = "None" THEN {[j EXCEPT !.orphan = TRUE]} ELSE {})]
<1>5. s = [S0 EXCEPT !.jobs = tasks]
  BY <1>4
<1>6. posts \ {j} \subseteq tasks /\ \A k \in tasks : IsPost(ledger, k)
  <2>1. j.result = "None" => IsPost(ledger, [j EXCEPT !.orphan = TRUE])
    BY <1>2, <1>4, OrphanOf
  <2>2. QED
    BY <1>4, <2>1
<1>7. Sets(WriteFailed(s, j.rid))
  BY <1>1
<1> HIDE DEF tasks, s
<1>8. s = [f |-> form, jobs |-> tasks, c |-> client]
  BY <1>4, <1>5, JobsOnly
<1>9. Holds(ledger, WriteFailed(s, j.rid))
  BY <1>2, <1>6, <1>8, WriteFailedHolds
<1>10. QED
  BY <1>3, <1>7, <1>9, SetsStep


\* The answer of a write that committed.
LEMMA CommittedHolds ==
  ASSUME CreationInv, NEW j \in posts, j.kind = "Create", j.result = "Committed"
  PROVE  Holds(ledger, CommittedAnswer(Answered(S0, j), j))
<1>1. /\ form \in Draft /\ client \in Holder /\ (client.up => client.seen \in Nat) /\ (\A k \in posts : IsPost(ledger, k))
      /\ Settled(ledger, form) /\ IsLedger(ledger)
  BY S0Parts DEF CreationInv
<1> DEFINE s == Answered(S0, j)
           e == ledger[j.at]
           v == [rid |-> e.rid, sub |-> e.sub]
           g == CreationFound(form, v)
           t == [s EXCEPT !.f = CreationFound(@, v)]
<1>2. s = [f |-> form, jobs |-> posts \ {j}, c |-> client] /\ s.f = form /\ s.jobs = posts \ {j} /\ s.c = client
  BY AnsweredParts
<1>3. j.at \in 1 .. LogEnd /\ j.at \in Nat /\ e = ReviewCreated(j.rid, j.sub)
  BY <1>1 DEF IsPost, LogEnd
<1>4. v.rid = j.rid /\ Known(v)
  <2>1. v.rid = e.rid /\ v.sub = e.sub
    OBVIOUS
  <2>2. e.rid = j.rid /\ e.sub = j.sub
    BY <1>3 DEF ReviewCreated
  <2> HIDE DEF v, e
  <2>3. QED
    BY <1>3, <2>1, <2>2 DEF Known, WasCreated, LogEnd, e
<1>5. CommittedAnswer(s, j) =
        IF j.at <= s.c.seen THEN t
        ELSE ApplyToLists([t EXCEPT !.c.seen = j.at], e)
  BY DEF CommittedAnswer
<1> HIDE DEF v, s
<1>6. /\ g \in Draft /\ Settled(ledger, g) /\ g.rid = form.rid /\ g.defaults = form.defaults
      /\ g.status = form.status \/ g.status \notin {"Pending", "Reconciling"}
      /\ form.rid = v.rid => g.status \notin {"Pending", "Reconciling"}
  BY <1>1, <1>4, FoundDoes
<1>7. t = [f |-> g, jobs |-> posts \ {j}, c |-> client]
  <2>1. t = [s EXCEPT !.f = g]
    BY <1>2
  <2> HIDE DEF g, t
  <2>2. QED
    BY <1>2, <2>1, FormOnly
<1> HIDE DEF g, t
<1>8. t.f = g /\ t.jobs = posts \ {j} /\ t.c = client /\ t = [f |-> t.f, jobs |-> t.jobs, c |-> t.c]
  BY <1>7
<1>9. CASE j.at <= client.seen
  <2>1. j.rid = form.rid => Released([f |-> g, jobs |-> posts \ {j}, c |-> client], j)
    BY <1>4, <1>6 DEF Released
  <2>2. Holds(ledger, [f |-> g, jobs |-> posts \ {j}, c |-> client])
    BY <1>1, <1>6, <2>1, AnswerHolds
  <2>3. QED
    BY <1>2, <1>5, <1>7, <1>9, <2>2 DEF s
<1>10. CASE ~(j.at <= client.seen)
  <2> DEFINE c == [client EXCEPT !.seen = j.at]
             u == [t EXCEPT !.c.seen = j.at]
             w == ApplyToLists(u, e)
  <2>1. CommittedAnswer(s, j) = w
    BY <1>2, <1>5, <1>10
  <2>2. c \in Holder /\ c.up = client.up /\ c.seen = j.at /\ c.cut = client.cut
    BY <1>1, <1>3 DEF Holder
  <2>3. u = [t EXCEPT !.c = c]
    BY <1>8
  <2> HIDE DEF c, u, w
  <2>4. u = [f |-> g, jobs |-> posts \ {j}, c |-> c]
    BY <1>8, <2>3, FormOnly
  <2>5. u.f = g /\ u.jobs = posts \ {j} /\ u.c = c /\ u = [f |-> u.f, jobs |-> u.jobs, c |-> u.c]
    BY <2>4
  <2>6. /\ w = [f |-> w.f, jobs |-> posts \ {j}, c |-> w.c] /\ w.f \in Draft /\ w.c \in Holder /\ Settled(ledger, w.f)
        /\ w.c.up = c.up /\ w.c.seen = c.seen /\ w.c.cut = c.cut
        /\ w.f.rid = g.rid /\ w.f.defaults = g.defaults
        /\ w.f.status = g.status \/ w.f.status \notin {"Pending", "Reconciling"}
    BY <1>1, <1>3, <1>6, <2>2, <2>5, AppliesDoes DEF w
  <2>7. j.rid = form.rid => Released([f |-> w.f, jobs |-> posts \ {j}, c |-> w.c], j)
    BY <1>4, <1>6, <2>6 DEF Released
  <2>8. w.c.up => w.c.seen \in Nat
    BY <1>3, <2>2, <2>6
  <2>9. Holds(ledger, [f |-> w.f, jobs |-> posts \ {j}, c |-> w.c])
    BY <1>1, <1>6, <2>2, <2>6, <2>7, <2>8, AnswerHolds
  <2>10. QED
    BY <2>1, <2>6, <2>9 DEF s
<1>11. QED
  BY <1>9, <1>10

\* The answer of a write.
LEMMA CreateAnswerStep ==
  ASSUME CreationInv, CreateAnswer
  PROVE  CreationInv'
<1>1. PICK j \in Mine({"Create"}) :
       Sets(IF j.result = "Committed" THEN CommittedAnswer(Answered(S0, j), j) ELSE WriteFailed(Answered(S0, j), j.rid))
  BY DEF CreateAnswer
<1>2. j \in posts /\ j.kind = "Create"
  BY DEF Mine
<1>3. ledger' = ledger /\ saved' = saved /\ allowance' \in Allowance /\ \A k \in posts : IsPost(ledger, k)
  BY S0Parts DEF CreationInv, CreateAnswer
<1> DEFINE s == Answered(S0, j)
<1>4. s = [f |-> form, jobs |-> posts \ {j}, c |-> client]
  BY AnsweredParts
<1>5. CASE j.result = "Committed"
  <2>1. Holds(ledger, CommittedAnswer(s, j))
    BY <1>2, <1>5, CommittedHolds
  <2>2. QED
    BY <1>1, <1>3, <1>5, <2>1, SetsStep
<1>6. CASE j.result # "Committed"
  <2> DEFINE tasks == posts \ {j}
  <2>1. posts \ {j} \subseteq tasks /\ \A k \in tasks : IsPost(ledger, k)
    BY <1>3
  <2>2. Sets(WriteFailed(s, j.rid))
    BY <1>1, <1>6
  <2> HIDE DEF s
  <2>3. Holds(ledger, WriteFailed(s, j.rid))
    BY <1>2, <1>4, <2>1, WriteFailedHolds
  <2>4. QED
    BY <1>3, <2>2, <2>3, SetsStep
<1>7. QED
  BY <1>5, <1>6

-----------------------------------------------------------------------------
(* The daemon.                                                             *)

\* A step of the daemon: the ledger may grow, requests may be worked on, and what
\* was asked is still there.
LEMMA DaemonStep ==
  ASSUME CreationInv, IsLedger(ledger)', UNCHANGED <<form, client, saved>>, allowance' \in Allowance,
         ledger' = ledger \/ \E e : ledger' = Append(ledger, e),
         \A j \in posts' : IsPost(ledger', j),
         \A j \in posts : ~j.orphan => \E k \in posts' : k.kind = j.kind /\ k.rid = j.rid /\ k.repo = j.repo /\ ~k.orphan
  PROVE  CreationInv'
<1>1. /\ form \in Draft /\ client \in Holder /\ (client.up => client.seen \in Nat)
      /\ Settled(ledger, form) /\ (client.cut \/ Waited(S0)) /\ S0.f = form /\ S0.jobs = posts /\ S0.c = client
      /\ IsLedger(ledger) /\ saved \in Keepsake /\ Settled(ledger, saved.form)
  BY S0Parts DEF CreationInv
<1>2. Settled(ledger', form) /\ Settled(ledger', saved.form)
  BY <1>1, SettledLater
<1> DEFINE t == [f |-> form, jobs |-> posts', c |-> client]
<1>3. t.f = form /\ t.jobs = posts' /\ t.c = client
  OBVIOUS
<1>4. S0' = t
  BY DEF S0
<1> HIDE DEF t
<1>5. Waited(S0) => Waited(t)
  <2>1. \A j \in S0.jobs : ~j.orphan /\ j.rid = S0.f.rid =>
          \E k \in t.jobs : k.kind = j.kind /\ k.rid = j.rid /\ k.repo = j.repo /\ ~k.orphan
    BY <1>1, <1>3
  <2>2. QED
    BY <1>1, <1>3, <2>1, WaitedKept
<1>6. Holds(ledger', t)
  BY <1>1, <1>2, <1>3, <1>5, HoldsOf DEF t
<1>7. Holds(ledger, S0)'
  BY <1>4, <1>6 DEF Holds, Handled, IsPost, Settled, WasCreated, Waited, DefaultsWaited, AskedFor
<1>8. Settled(ledger, saved.form)' /\ (saved \in Keepsake)' /\ (allowance \in Allowance)'
  BY <1>1, <1>2 DEF Settled, WasCreated
<1>9. QED
  BY <1>7, <1>8 DEF CreationInv

\* A longer ledger is one, and knows the same requests.
LEMMA LedgerGrows ==
  ASSUME IsLedger(ledger), NEW e, IsEvent(e)
  PROVE  /\ IsLedger(Append(ledger, e)) /\ Append(ledger, e)[LogEnd + 1] = e /\ Len(Append(ledger, e)) = LogEnd + 1
         /\ \A j : IsPost(ledger, j) => IsPost(Append(ledger, e), j)
<1>1. Len(ledger) \in Nat /\ Len(Append(ledger, e)) = Len(ledger) + 1
      /\ \A n \in 1 .. (Len(ledger) + 1) : Append(ledger, e)[n] = IF n = Len(ledger) + 1 THEN e ELSE ledger[n]
  BY DEF IsLedger
<1>2. IsLedger(Append(ledger, e))
  <2>1. Append(ledger, e) \in Seq([kind : {"Created", "Updated", "Deleted", "Attached", "Detached"}, rid : Int,
                sub : Submission, repo : Repos \cup {NoId}])
    BY DEF IsLedger, IsEvent
  <2>2. ASSUME NEW n \in 1 .. Len(Append(ledger, e)) PROVE IsEvent(Append(ledger, e)[n])
    <3>1. CASE n = Len(ledger) + 1
      BY <1>1, <3>1
    <3>2. CASE n # Len(ledger) + 1
      <4>1. n \in 1 .. Len(ledger) /\ Append(ledger, e)[n] = ledger[n]
        BY <1>1, <2>2, <3>2
      <4>2. IsEvent(ledger[n])
        BY <4>1 DEF IsLedger
      <4>3. QED
        BY <4>1, <4>2
    <3>3. QED
      BY <3>1, <3>2
  <2>3. QED
    BY <2>1, <2>2 DEF IsLedger
<1>3. ASSUME NEW j, IsPost(ledger, j) PROVE IsPost(Append(ledger, e), j)
  <2>1. j.result = "Committed" => j.at \in 1 .. Len(Append(ledger, e)) /\ Append(ledger, e)[j.at] = ReviewCreated(j.rid, j.sub)
    BY <1>1, <1>3 DEF IsPost
  <2>2. QED
    BY <1>3, <2>1 DEF IsPost
<1>4. QED
  BY <1>1, <1>2, <1>3 DEF LogEnd

\* The daemon carries out a write.
LEMMA CreateRunsStep ==
  ASSUME CreationInv, CreateRuns
  PROVE  CreationInv'
<1>1. PICK j \in posts :
       /\ j.kind = "Create" /\ j.result = "None"
       /\ LET done == [j EXCEPT !.result = IF MayCreate(j) THEN "Committed" ELSE "Refused",
                                !.at = LogEnd + 1]
          IN posts' = (posts \ {j}) \cup (IF j.orphan THEN {} ELSE {done})
       /\ ledger' = IF MayCreate(j) THEN Append(ledger, ReviewCreated(j.rid, j.sub)) ELSE ledger
  BY DEF CreateRuns
<1>2. /\ UNCHANGED <<form, client, saved>> /\ allowance' \in Allowance /\ IsLedger(ledger)
      /\ \A k \in posts : IsPost(ledger, k)
  BY S0Parts DEF CreateRuns, CreationInv
<1> DEFINE res == IF MayCreate(j) THEN "Committed" ELSE "Refused"
           e == ReviewCreated(j.rid, j.sub)
           done == [j EXCEPT !.result = res, !.at = LogEnd + 1]
<1>3. posts' = (posts \ {j}) \cup (IF j.orphan THEN {} ELSE {done}) /\ LogEnd \in Nat
  BY <1>1, <1>2 DEF IsLedger, LogEnd
<1>4. IsEvent(e)
  <2>1. j.rid \in Int /\ j.sub \in Submission
    BY <1>2 DEF IsPost
  <2>2. QED
    BY <2>1 DEF IsEvent, ReviewCreated
<1>5. IsPost(ledger, j)
  BY <1>2
<1>6. res \in {"None", "Committed", "Refused"}
  OBVIOUS
<1> HIDE DEF e
<1>7. MayCreate(j) => /\ IsLedger(ledger') /\ ledger'[LogEnd + 1] = e /\ Len(ledger') = LogEnd + 1
                      /\ \A k : IsPost(ledger, k) => IsPost(ledger', k)
  BY <1>1, <1>2, <1>4, LedgerGrows DEF e
<1>8. IsLedger(ledger') /\ \A k \in posts : IsPost(ledger', k)
  BY <1>1, <1>2, <1>7
<1>9. done.kind = j.kind /\ done.rid = j.rid /\ done.repo = j.repo /\ done.orphan = j.orphan /\ IsPost(ledger', done)
  <2>1. res = "Committed" => MayCreate(j)
    OBVIOUS
  <2> HIDE DEF res
  <2>2. /\ done.kind = j.kind /\ done.rid = j.rid /\ done.repo = j.repo /\ done.orphan = j.orphan
        /\ done.id = j.id /\ done.sub = j.sub /\ done.result = res /\ done.at = LogEnd + 1
    BY <1>5 DEF IsPost
  <2>3. done \in [id : {j.id}, kind : PostKinds, rid : Int, repo : {j.repo}, sub : Submission, at : Nat,
            result : {"None", "Committed", "Refused"}, orphan : BOOLEAN]
    <3> DEFINE R == [id : {j.id}, kind : PostKinds, rid : Int, repo : {j.repo}, sub : Submission, at : Nat,
                     result : {"None", "Committed", "Refused"}, orphan : BOOLEAN]
               n == LogEnd + 1
               one == [j EXCEPT !.result = res]
    <3>1. j \in R
      BY <1>5 DEF IsPost
    <3>2. n \in Nat
      BY <1>3
    <3>3. done = [one EXCEPT !.at = n]
      BY <3>1
    <3> HIDE DEF n, done
    <3>4. one \in R
      BY <3>1, <1>6
    <3> HIDE DEF one
    <3>5. [one EXCEPT !.at = n] \in R
      BY <3>2, <3>4
    <3>6. QED
      BY <3>3, <3>5
  <2> HIDE DEF done
  <2>4. done.result = "Committed" => done.at \in 1 .. Len(ledger') /\ ledger'[done.at] = ReviewCreated(done.rid, done.sub)
    BY <1>3, <1>7, <2>1, <2>2 DEF e
  <2>5. QED
    BY <2>2, <2>3, <2>4 DEF IsPost
<1> HIDE DEF done, res
<1>10. \A k \in posts' : IsPost(ledger', k)
  BY <1>3, <1>8, <1>9
<1>11. ASSUME NEW i \in posts, ~i.orphan
       PROVE  \E k \in posts' : k.kind = i.kind /\ k.rid = i.rid /\ k.repo = i.repo /\ ~k.orphan
  <2>1. CASE i = j
    BY <1>3, <1>9, <1>11, <2>1
  <2>2. CASE i # j
    <3>1. i \in posts'
      BY <1>3, <2>2
    <3>2. QED
      BY <1>11, <3>1
  <2>3. QED
    BY <2>1, <2>2
<1>12. ledger' = ledger \/ \E x : ledger' = Append(ledger, x)
  BY <1>1
<1>13. QED
  BY <1>2, <1>8, <1>10, <1>11, <1>12, DaemonStep

\* A write that never got through, and what other clients write.
LEMMA OthersStep ==
  ASSUME CreationInv, CreateLost \/ OthersWrite
  PROVE  CreationInv'
<1>1. /\ IsLedger(ledger) /\ (\A k \in posts : IsPost(ledger, k)) /\ allowance \in Allowance
  BY S0Parts DEF CreationInv
<1>2. CASE CreateLost
  <2>1. PICK j \in posts : j.orphan /\ posts' = posts \ {j}
    BY <1>2 DEF CreateLost
  <2>2. UNCHANGED <<form, client, saved>> /\ allowance' \in Allowance /\ ledger' = ledger
    BY <1>1, <1>2 DEF CreateLost
  <2>3. \A i \in posts : ~i.orphan => \E k \in posts' : k.kind = i.kind /\ k.rid = i.rid /\ k.repo = i.repo /\ ~k.orphan
    BY <2>1
  <2>4. \A k \in posts' : IsPost(ledger', k)
    BY <1>1, <2>1, <2>2
  <2>5. QED
    BY <1>1, <2>2, <2>3, <2>4, DaemonStep
<1>3. CASE OthersWrite
  <2>1. UNCHANGED <<form, client, saved>> /\ posts' = posts /\ allowance' \in Allowance
    BY <1>1, <1>3, UsesStep DEF OthersWrite
  <2>2. PICK e : IsEvent(e) /\ ledger' = Append(ledger, e)
    <3>1. NoSubmission \in Submission
      BY NoFormDraft
    <3>2. CASE \E v \in ReviewsAt(LogEnd) : ledger' \in {Append(ledger, ReviewUpdated(v.rid)), Append(ledger, ReviewDeleted(v.rid))}
      <4>1. PICK v \in ReviewsAt(LogEnd) : ledger' \in {Append(ledger, ReviewUpdated(v.rid)), Append(ledger, ReviewDeleted(v.rid))}
        BY <3>2
      <4>2. LogEnd \in 0 .. LogEnd
        BY <1>1 DEF IsLedger, LogEnd
      <4>3. v \in ListedReview
        BY <1>1, <4>1, <4>2, ReviewsKnown
      <4>4. v.rid \in Int
        BY <4>3 DEF ListedReview
      <4>5. IsEvent(ReviewUpdated(v.rid)) /\ IsEvent(ReviewDeleted(v.rid))
        BY <3>1, <4>4 DEF IsEvent, ReviewUpdated, ReviewDeleted
      <4>6. QED
        BY <4>1, <4>5
    <3>3. CASE \E r \in Repos : ledger' = Append(ledger, IF r \in Range(ReposAt(LogEnd)) THEN RepoDetached(r) ELSE RepoAttached(r))
      <4>1. PICK r \in Repos : ledger' = Append(ledger, IF r \in Range(ReposAt(LogEnd)) THEN RepoDetached(r) ELSE RepoAttached(r))
        BY <3>3
      <4>2. IsEvent(RepoDetached(r)) /\ IsEvent(RepoAttached(r))
        BY <3>1 DEF IsEvent, RepoDetached, RepoAttached, NoId
      <4>3. QED
        BY <4>1, <4>2
    <3>4. QED
      BY <1>3, <3>2, <3>3 DEF OthersWrite
  <2>3. IsLedger(ledger') /\ \A k : IsPost(ledger, k) => IsPost(ledger', k)
    BY <1>1, <2>2, LedgerGrows
  <2>4. \A k \in posts' : IsPost(ledger', k)
    BY <1>1, <2>1, <2>3
  <2>5. \A i \in posts : ~i.orphan => \E k \in posts' : k.kind = i.kind /\ k.rid = i.rid /\ k.repo = i.repo /\ ~k.orphan
    BY <2>1
  <2>6. QED
    BY <2>1, <2>2, <2>3, <2>4, <2>5, DaemonStep
<1>4. QED
  BY <1>2, <1>3

-----------------------------------------------------------------------------
(* The creation form: the theorems.                                        *)

\* The invariant holds at the start.
LEMMA CreationStart == CreationInit => CreationInv
<1> SUFFICES ASSUME CreationInit PROVE CreationInv
  OBVIOUS
<1>1. ledger = <<>> /\ posts = {} /\ form = NoForm /\ saved = NotSaved /\ allowance \in Allowance
  BY CreationAssumption DEF CreationInit, Allowance
<1>2. NoForm \in Draft /\ Settled(ledger, NoForm)
  BY NoFormDraft
<1>3. IsLedger(ledger)
  BY <1>1 DEF IsLedger
<1>4. saved \in Keepsake /\ saved.form = NoForm
  BY <1>1, <1>2 DEF NotSaved, Keepsake
<1>5. client \in Holder /\ (client.up => client.seen \in Nat)
  <2>1. FirstRepos \in Seq(Repos) /\ <<>> \in Seq(Repos)
    BY CreationAssumption
  <2> DEFINE first == [up |-> TRUE, seen |-> 0, known |-> TRUE, repos |-> FirstRepos, reviews |-> {},
                       cut |-> FALSE]
  <2>2. FreshClient \in Holder /\ ~FreshClient.up
    BY <2>1 DEF FreshClient, Holder, NoId
  <2>3. first \in Holder /\ first.seen = 0
    BY <2>1 DEF Holder, NoId
  <2>4. client = first \/ client = FreshClient
    BY DEF CreationInit, FreshClient
  <2> HIDE DEF first
  <2>5. QED
    BY <2>2, <2>3, <2>4
<1>6. Waited([f |-> NoForm, jobs |-> {}, c |-> client])
  BY DEF Waited, DefaultsWaited, NoForm, NoDefaults
<1>7. Holds(ledger, [f |-> NoForm, jobs |-> {}, c |-> client])
  BY <1>2, <1>5, <1>6, HoldsOf
<1>8. S0 = [f |-> NoForm, jobs |-> {}, c |-> client]
  BY <1>1 DEF S0
<1>9. QED
  BY <1>1, <1>2, <1>3, <1>4, <1>7, <1>8 DEF CreationInv

\* Every step keeps it.
LEMMA CreationKept == CreationInv /\ [CreationNext]_creationVars => CreationInv'
<1> SUFFICES ASSUME CreationInv, [CreationNext]_creationVars PROVE CreationInv'
  OBVIOUS
<1>1. CASE UNCHANGED creationVars
  <2>1. Sets(S0) /\ ledger' = ledger /\ saved' = saved /\ allowance' \in Allowance
    BY <1>1 DEF creationVars, Sets, S0, CreationInv
  <2>2. QED
    BY <2>1, S0Parts, SetsStep
<1>2. CASE CreationNext
  BY <1>2, StartStep, CancelStep, SmallEdits, TargetEditStep, SubmitStep, RetryStep, ReloadStep, RestoreStep,
     ConnectedStep, DisconnectStep, DeadlineStep, EventArrivesStep, DefaultStep, LookupStep, LookupErrorStep,
     ListsStep, CreateAnswerStep, InterruptedStep, CreateRunsStep, OthersStep DEF CreationNext
<1>3. QED
  BY <1>1, <1>2

\* The form, the requests it waits for, the ledger and what a browser keeps of
\* the form stay in step through edits, submits, retries, reloads and losses.
THEOREM CreationInvariant == CreationSpec => []CreationInv
<1>1. QED
  BY CreationStart, CreationKept, PTL DEF CreationSpec

\* A form that says its review was created shows the inputs of an event that
\* created it (creation.rs, found and resolve), whichever write committed and
\* whether it learnt of it from the answer, the feed or a lookup.
THEOREM SuccessIsShown == CreationSpec => []CreatedAsShown
<1>1. CreationInv => CreatedAsShown
  <2> SUFFICES ASSUME CreationInv, form.status = "Succeeded"
               PROVE  \E n \in 1 .. LogEnd : ledger[n] = ReviewCreated(form.rid, Snapshot(form))
    BY DEF CreatedAsShown
  <2>1. Settled(ledger, form)
    BY S0Parts
  <2>2. form.sub = Snapshot(form) /\ WasCreated(ledger, form.rid, form.sub)
    BY <2>1 DEF Settled, FrozenStatuses
  <2>3. QED
    BY <2>2 DEF WasCreated, LogEnd
<1>2. QED
  BY <1>1, CreationInvariant, PTL

\* A form that waits, for the answer of a write, for a lookup or for a default
\* base, waits for a request of a connection that is up, unless the restart
\* deadline closed one in use.
THEOREM NoFormIsStranded == CreationSpec => []OutstandingUnlessCut
<1>1. CreationInv => OutstandingUnlessCut
  <2> SUFFICES ASSUME CreationInv, ~client.cut PROVE Outstanding
    BY DEF OutstandingUnlessCut
  <2>1. Waited(S0) /\ S0.f = form /\ S0.jobs = posts /\ S0.c = client
    BY S0Parts
  <2>2. QED
    BY <2>1 DEF Waited, DefaultsWaited, AskedFor, Outstanding, Mine
<1>2. QED
  BY <1>1, CreationInvariant, PTL

-----------------------------------------------------------------------------
(* The shown review: the drain of a draft.                                 *)

\* The equation of the core after the first n events of those held back.
Draining(g, s0, steps, n) ==
  g = [s \in SUBSET (1 .. n) |-> IF s = {} THEN s0 ELSE ApplyEvent(g[s \ {Max(s)}], steps[Max(s)])]

\* That equation has a solution, whatever was held back.
LEMMA DrainingExists ==
  ASSUME NEW s0, NEW steps, NEW n \in Nat
  PROVE  \E g : Draining(g, s0, steps, n)
<1> DEFINE Body(g, s) == IF s = {} THEN s0 ELSE ApplyEvent(g[s \ {Max(s)}], steps[Max(s)])
           T == {k \in Nat : \E g : Draining(g, s0, steps, k)}
<1>1. 0 \in T
  <2> DEFINE f == [s \in SUBSET (1 .. 0) |-> s0]
  <2>1. f = [s \in SUBSET (1 .. 0) |-> Body(f, s)]
    OBVIOUS
  <2>2. Draining(f, s0, steps, 0)
    BY <2>1 DEF Draining
  <2>3. QED
    BY <2>2
<1>2. ASSUME NEW k \in Nat, k \in T PROVE k + 1 \in T
  <2>0. PICK g : Draining(g, s0, steps, k)
    BY <1>2
  <2>1. g = [s \in SUBSET (1 .. k) |-> Body(g, s)]
    BY <2>0 DEF Draining
  <2> DEFINE f == [s \in SUBSET (1 .. (k + 1)) |-> IF s \in SUBSET (1 .. k) THEN g[s] ELSE Body(g, s)]
  <2>2. ASSUME NEW s \in SUBSET (1 .. (k + 1)) PROVE f[s] = Body(f, s)
    <3>1. CASE s \in SUBSET (1 .. k) /\ s # {}
      <4>1. Max(s) \in s /\ s \ {Max(s)} \in SUBSET (1 .. k) /\ s \ {Max(s)} \in SUBSET (1 .. (k + 1))
        BY <3>1, LastPosition
      <4>2. f[s \ {Max(s)}] = g[s \ {Max(s)}] /\ f[s] = g[s]
        BY <3>1, <4>1
      <4>3. QED
        BY <2>1, <3>1, <4>2
    <3>2. CASE s = {}
      BY <2>1, <3>2
    <3>3. CASE s \notin SUBSET (1 .. k)
      <4>1. s # {} /\ s \ {Max(s)} \in SUBSET (1 .. k) /\ s \ {Max(s)} \in SUBSET (1 .. (k + 1))
        BY <3>3, LastOfFirst
      <4>2. f[s \ {Max(s)}] = g[s \ {Max(s)}] /\ f[s] = Body(g, s)
        BY <3>3, <4>1
      <4>3. QED
        BY <4>1, <4>2
    <3>4. QED
      BY <3>1, <3>2, <3>3
  <2>3. f = [s \in SUBSET (1 .. (k + 1)) |-> Body(f, s)]
    <3>1. f = [s \in SUBSET (1 .. (k + 1)) |-> f[s]]
      OBVIOUS
    <3> HIDE DEF f, Body
    <3>2. QED
      BY <2>2, <3>1
  <2>4. Draining(f, s0, steps, k + 1)
    BY <2>3 DEF Draining
  <2>5. QED
    <3> HIDE DEF f
    <3>1. QED
      BY <2>4
<1>3. n \in T
  <2> HIDE DEF T
  <2>1. QED
    BY <1>1, <1>2, NaturalsByStep
<1>4. QED
  BY <1>3

\* The core after each event held back.
DrainsOn(h, s0, steps) ==
  /\ h[0] = s0
  /\ \A n \in 0 .. (Len(steps) - 1) : h[n + 1] = ApplyEvent(h[n], steps[n + 1])

\* The events held back are applied one after the other.
LEMMA DrainFollows ==
  ASSUME NEW s0, NEW steps, Len(steps) \in Nat, DOMAIN steps = 1 .. Len(steps)
  PROVE  \E h : DrainsOn(h, s0, steps) /\ FoldLeft(ApplyEvent, s0, steps) = h[Len(steps)]
<1> DEFINE D == 1 .. Len(steps)
           Body(g, s) == IF s = {} THEN s0 ELSE ApplyEvent(g[s \ {Max(s)}], steps[Max(s)])
           it == CHOOSE g : g = [s \in SUBSET DOMAIN steps |-> Body(g, s)]
<1>1. FoldLeft(ApplyEvent, s0, steps) = it[1 .. Len(steps)]
  BY DEF FoldLeft, MapThenFoldSet
<1> HIDE DEF it
<1>2. \E g : g = [s \in SUBSET D |-> Body(g, s)]
  <2>1. PICK g : Draining(g, s0, steps, Len(steps))
    BY DrainingExists
  <2>2. g = [s \in SUBSET D |-> Body(g, s)]
    BY <2>1 DEF Draining
  <2>3. QED
    BY <2>2
<1>3. it = [s \in SUBSET D |-> Body(it, s)]
  <2> HIDE DEF Body
  <2>1. QED
    BY <1>2 DEF it
<1> DEFINE h == [n \in 0 .. Len(steps) |-> it[1 .. n]]
<1>7. h[0] = s0
  <2>1. 1 .. 0 = {} /\ {} \in SUBSET D /\ 0 \in 0 .. Len(steps)
    OBVIOUS
  <2>2. it[{}] = s0
    BY <1>3, <2>1
  <2>3. QED
    BY <2>1, <2>2
<1>8. ASSUME NEW n \in 0 .. (Len(steps) - 1) PROVE h[n + 1] = ApplyEvent(h[n], steps[n + 1])
  <2>1. n \in Nat /\ n \in 0 .. Len(steps) /\ n + 1 \in 0 .. Len(steps) /\ 1 .. (n + 1) \in SUBSET D /\ 1 .. (n + 1) # {}
    <3>1. n \in Nat /\ n + 1 <= Len(steps)
      OBVIOUS
    <3>2. n + 1 \in 1 .. (n + 1)
      BY <3>1
    <3>3. 1 .. (n + 1) \subseteq 1 .. Len(steps)
      BY <3>1
    <3>4. QED
      BY <3>1, <3>2, <3>3
  <2>2. Max(1 .. (n + 1)) = n + 1 /\ (1 .. (n + 1)) \ {n + 1} = 1 .. n
    BY <2>1, LastOfFirst
  <2>3. it[1 .. (n + 1)] = ApplyEvent(it[1 .. n], steps[n + 1])
    BY <1>3, <2>1, <2>2
  <2>4. QED
    BY <2>1, <2>3
<1>9. h[Len(steps)] = FoldLeft(ApplyEvent, s0, steps)
  <2>1. QED
    BY <1>1
<1>10. DrainsOn(h, s0, steps)
  <2> HIDE DEF h
  <2>1. QED
    BY <1>7, <1>8 DEF DrainsOn
<1>11. QED
  <2> HIDE DEF h
  <2>1. QED
    BY <1>9, <1>10

-----------------------------------------------------------------------------
(* The shown review: the inductive invariant.                              *)

CoreFields == {"open", "committed", "scope", "scopedAt", "files", "openFile", "draft", "pendingRefresh", "deferred",
               "latestFiles", "latestCommits", "stepper", "byCommit", "search", "latestSearch", "lost", "connection",
               "latestOpen", "opts", "inFlight", "snapshotEvents"}
JobFields == {"id", "kind", "review", "scope", "opts", "query", "stage", "at", "sent"}
JobKinds == {"OpenReview", "ReviewSnapshot", "ListFiles", "ListCommits", "Search"}
MenuFields == {"reviews", "events", "open", "close", "scope", "prefs", "search", "draft", "fail", "disconnect", "tier"}

HasCore(c) == c = [f \in CoreFields |-> c[f]]
HasMenu(m) == m = [f \in MenuFields |-> m[f]] /\ m.reviews \subseteq Reviews
HasJob(l, j) ==
  /\ j = [f \in JobFields |-> j[f]]
  /\ j.at \in 0 .. Len(l) /\ j.kind \in JobKinds
  /\ j.kind = "ReviewSnapshot" => j.stage = "asked"

\* The version of a review after n events of a log.
Version(l, r, n) == 1 + Cardinality({i \in 1 .. n : l[i] = r})

\* An open that has not been read yet: the events of the review that the
\* client has handled since it was asked are kept for its snapshot.
Opens(j) == j.kind \in {"OpenReview", "ReviewSnapshot"} /\ j.stage = "asked"
Remembered(l, n, kept, j) ==
  /\ j.id \in DOMAIN kept
  /\ kept[j.id].review = j.review
  /\ kept[j.id].events \subseteq 1 .. n
  /\ \A i \in (j.at + 1) .. n : l[i] = j.review => i \in kept[j.id].events
EventsOf(kept, id) == kept[id] = [review |-> kept[id].review, events |-> kept[id].events]

\* The shown targets are those of the last event handled, unless a draft
\* holds back an event that brings them.
Recent(l, n, c) ==
  /\ c.deferred \in Seq(1 .. n)
  /\ c.open # NoReview /\ c.deferred = <<>> => c.committed >= Version(l, c.open, n)
  /\ c.deferred # <<>> =>
       /\ c.draft /\ c.pendingRefresh
       /\ \A k \in 1 .. Len(c.deferred) : l[c.deferred[k]] = c.open
       /\ Version(l, c.open, c.deferred[Len(c.deferred)]) >= Version(l, c.open, n)

\* The requests are told apart by their numbers.
JobsApart(l, n, s) ==
  /\ IsFiniteSet(s.jobs)
  /\ \A j \in s.jobs : HasJob(l, j)
  /\ \A i, j \in s.jobs : i.id = j.id => i = j

Awaits(l, n, kept, js, x) ==
  /\ \A id \in DOMAIN kept : EventsOf(kept, id)
  /\ \A j \in js : Opens(j) /\ j.id \notin x => Remembered(l, n, kept, j)

\* What every handler keeps, of the log, the events handled, and the state;
\* x has the number of the open whose snapshot is being installed.
Whole(l, n, s, x) ==
  /\ s = [c |-> s.c, jobs |-> s.jobs] /\ HasCore(s.c)
  /\ JobsApart(l, n, s)
  /\ IsFiniteSet(DOMAIN s.c.inFlight)
  /\ Awaits(l, n, s.c.snapshotEvents, s.jobs, x)
Held(l, n, s, x) == Whole(l, n, s, x) /\ Recent(l, n, s.c)

LogSound == log \in Seq(Reviews) /\ seen \in 0 .. Len(log)
ViewInv == LogSound /\ HasMenu(left) /\ Held(log, seen, State, {})

-----------------------------------------------------------------------------
(* The shown review: versions.                                             *)

\* A version is the one of the log.
LEMMA VersionIs ==
  ASSUME NEW r, NEW n
  PROVE  VersionAt(r, n) = Version(log, r, n)
  BY DEF VersionAt, Version

\* A version is as large as the set of the review's resolutions.
LEMMA VersionGrows ==
  ASSUME NEW l, NEW r, NEW n \in Nat, NEW m \in Nat,
         \A i \in 1 .. n : l[i] = r => i <= m
  PROVE  Version(l, r, m) >= Version(l, r, n)
<1> DEFINE A == {i \in 1 .. n : l[i] = r}
           B == {i \in 1 .. m : l[i] = r}
<1>1. A \subseteq B
  OBVIOUS
<1>2. IsFiniteSet(1 .. m) /\ B \subseteq 1 .. m
  BY FS_Interval
<1>3. IsFiniteSet(B)
  BY <1>2, FS_Subset
<1>4. Cardinality(A) <= Cardinality(B) /\ IsFiniteSet(A)
  BY <1>1, <1>3, FS_Subset
<1>5. Cardinality(A) \in Nat /\ Cardinality(B) \in Nat
  BY <1>3, <1>4, FS_CardinalityType
<1> HIDE DEF A, B
<1>6. 1 + Cardinality(B) >= 1 + Cardinality(A)
  BY <1>4, <1>5
<1>7. QED
  BY <1>6 DEF Version, A, B

\* A version is a number.
LEMMA VersionNumber ==
  ASSUME NEW l, NEW r, NEW n \in Nat
  PROVE  Version(l, r, n) \in Nat
<1> DEFINE A == {i \in 1 .. n : l[i] = r}
<1>1. IsFiniteSet(1 .. n) /\ A \subseteq 1 .. n
  BY FS_Interval
<1>2. IsFiniteSet(A)
  BY <1>1, FS_Subset
<1>3. Cardinality(A) \in Nat
  BY <1>2, FS_CardinalityType
<1> HIDE DEF A
<1>4. 1 + Cardinality(A) \in Nat
  BY <1>3
<1>5. QED
  BY <1>4 DEF Version, A

\* An event of another review leaves the version as it is.
LEMMA VersionOther ==
  ASSUME NEW l, NEW r, NEW n \in Nat, l[n + 1] # r
  PROVE  Version(l, r, n + 1) = Version(l, r, n)
<1>1. {i \in 1 .. (n + 1) : l[i] = r} = {i \in 1 .. n : l[i] = r}
  OBVIOUS
<1>2. QED
  BY <1>1 DEF Version

\* A longer log leaves the versions as they were.
LEMMA VersionLater ==
  ASSUME NEW l \in Seq(Reviews), NEW e, NEW r, NEW n \in 0 .. Len(l)
  PROVE  Version(Append(l, e), r, n) = Version(l, r, n)
<1>1. \A i \in 1 .. n : Append(l, e)[i] = l[i]
  OBVIOUS
<1>2. {i \in 1 .. n : Append(l, e)[i] = r} = {i \in 1 .. n : l[i] = r}
  BY <1>1
<1>3. QED
  BY <1>2 DEF Version

-----------------------------------------------------------------------------
(* The shown review: the fields of the core.                               *)

\* Setting a field keeps the others.
LEMMA CoreSet ==
  ASSUME NEW c, HasCore(c), NEW f \in CoreFields, NEW v
  PROVE  /\ HasCore([c EXCEPT ![f] = v])
         /\ [c EXCEPT ![f] = v][f] = v
         /\ \A g \in CoreFields : g # f => [c EXCEPT ![f] = v][g] = c[g]
<1>1. DOMAIN c = CoreFields
  BY DEF HasCore
<1>2. [c EXCEPT ![f] = v] = [g \in CoreFields |-> IF g = f THEN v ELSE c[g]]
  BY <1>1
<1>3. QED
  BY <1>2 DEF HasCore

\* A change of the core that leaves alone what the shown targets rest on.
SteadyFields == {"open", "committed", "draft", "deferred", "pendingRefresh", "snapshotEvents"}
Steady(c, d) ==
  /\ HasCore(d)
  /\ \A f \in SteadyFields : d[f] = c[f]
  /\ IsFiniteSet(DOMAIN c.inFlight) => IsFiniteSet(DOMAIN d.inFlight)

\* What the shown targets are, and what is held back of them.
ShownFields == {"open", "committed", "draft", "deferred", "pendingRefresh"}
SameShown(c, d) == \A f \in ShownFields : d[f] = c[f]
Pends(c) == c.pendingRefresh
Defers(c, d, m) == d.deferred = Append(c.deferred, m)
Alike(c, d, fs) == \A f \in fs : d[f] = c[f]

\* Setting a field that is not one of these is such a change.
LEMMA SetSteady ==
  ASSUME NEW c, HasCore(c), NEW f \in CoreFields \ (SteadyFields \cup {"inFlight"}), NEW v
  PROVE  Steady(c, [c EXCEPT ![f] = v])
<1>1. /\ HasCore([c EXCEPT ![f] = v])
      /\ \A g \in CoreFields : g # f => [c EXCEPT ![f] = v][g] = c[g]
  BY CoreSet
<1>2. SteadyFields \subseteq CoreFields /\ "inFlight" \in CoreFields
  BY DEF SteadyFields, CoreFields
<1>3. [c EXCEPT ![f] = v].inFlight = c.inFlight
  BY <1>1, <1>2
<1>4. QED
  BY <1>1, <1>2, <1>3 DEF Steady

\* Two such changes are one.
LEMMA SteadyTwice ==
  ASSUME NEW c, NEW d, NEW e, Steady(c, d), Steady(d, e)
  PROVE  Steady(c, e)
  BY DEF Steady

\* It keeps what every handler keeps.
LEMMA SteadyKeeps ==
  ASSUME NEW l, NEW n, NEW x, NEW s, NEW t, Whole(l, n, s, x), t = [c |-> t.c, jobs |-> s.jobs], Steady(s.c, t.c)
  PROVE  Whole(l, n, t, x) /\ SameShown(s.c, t.c)
<1>1. t.c.snapshotEvents = s.c.snapshotEvents /\ SameShown(s.c, t.c)
  BY DEF Steady, SteadyFields, SameShown, ShownFields
<1>2. HasCore(t.c) /\ IsFiniteSet(DOMAIN t.c.inFlight) /\ t.jobs = s.jobs
  BY DEF Steady, Whole
<1>3. QED
  BY <1>1, <1>2 DEF Whole, JobsApart

\* And so does what is shown.
LEMMA RecentShown ==
  ASSUME NEW l, NEW n, NEW c, NEW d, Recent(l, n, c), SameShown(c, d)
  PROVE  Recent(l, n, d)
  BY DEF Recent, SameShown, ShownFields

\* A new request has a number of its own.
LEMMA FreshOwn ==
  ASSUME NEW s, IsFiniteSet(s.jobs), IsFiniteSet(DOMAIN s.c.inFlight)
  PROVE  \A j \in s.jobs : j.id # FreshId(s)
<1> DEFINE ids == {j.id : j \in s.jobs}
           used == ids \cup DOMAIN s.c.inFlight \cup {s.c.latestOpen, s.c.latestFiles, s.c.latestCommits, s.c.latestSearch}
<1>1. IsFiniteSet(ids)
  <2> DEFINE g == [j \in s.jobs |-> j.id]
  <2>1. g \in Surjection(s.jobs, ids)
    BY DEF Surjection
  <2> HIDE DEF g, ids
  <2>2. QED
    BY <2>1, FS_Surjection
<1> HIDE DEF ids
<1>2. IsFiniteSet({s.c.latestOpen, s.c.latestFiles, s.c.latestCommits, s.c.latestSearch})
  <2>1. IsFiniteSet({})
    BY FS_EmptySet
  <2>2. IsFiniteSet({} \cup {s.c.latestOpen})
    BY <2>1, FS_AddElement
  <2>3. IsFiniteSet({} \cup {s.c.latestOpen} \cup {s.c.latestFiles})
    BY <2>2, FS_AddElement
  <2>4. IsFiniteSet({} \cup {s.c.latestOpen} \cup {s.c.latestFiles} \cup {s.c.latestCommits})
    BY <2>3, FS_AddElement
  <2>5. IsFiniteSet({} \cup {s.c.latestOpen} \cup {s.c.latestFiles} \cup {s.c.latestCommits} \cup {s.c.latestSearch})
    BY <2>4, FS_AddElement
  <2>6. {} \cup {s.c.latestOpen} \cup {s.c.latestFiles} \cup {s.c.latestCommits} \cup {s.c.latestSearch}
          = {s.c.latestOpen, s.c.latestFiles, s.c.latestCommits, s.c.latestSearch}
    OBVIOUS
  <2>7. QED
    BY <2>5, <2>6
<1>3. IsFiniteSet(used)
  <2>1. IsFiniteSet(ids \cup DOMAIN s.c.inFlight)
    BY <1>1, FS_Union
  <2>2. QED
    BY <1>2, <2>1, FS_Union
<1> HIDE DEF used
<1>4. Cardinality(used) \in Nat
  BY <1>3, FS_CardinalityType
<1> DEFINE m == Cardinality(used) + 1
<1>5. \E i \in 1 .. m : i \notin used
  <2> SUFFICES ASSUME \A i \in 1 .. m : i \in used PROVE FALSE
    OBVIOUS
  <2>1. 1 .. m \in SUBSET used
    OBVIOUS
  <2>2. Cardinality(1 .. m) <= Cardinality(used)
    BY <1>3, <2>1, FS_Subset
  <2>3. Cardinality(1 .. m) = m
    <3>1. m \in Nat /\ 1 <= m
      BY <1>4
    <3> HIDE DEF m
    <3>2. Cardinality(1 .. m) = m - 1 + 1
      BY <3>1, FS_Interval
    <3>3. QED
      BY <3>1, <3>2
  <2>4. QED
    BY <1>4, <2>2, <2>3
<1>6. FreshId(s) \notin used
  <2>1. FreshId(s) = CHOOSE i \in 1 .. m : i \notin used
    BY DEF FreshId, used, ids
  <2> HIDE DEF m
  <2>2. QED
    BY <1>5, <2>1
<1>7. QED
  BY <1>6 DEF used, ids

-----------------------------------------------------------------------------
(* The shown review: requests and answers.                                 *)

\* The lists a request opens.
LEMMA RequestCore ==
  ASSUME NEW s, HasCore(s.c), NEW w, NEW q, IsFiniteSet(DOMAIN s.c.inFlight)
  PROVE  LET d == Request(s, w, q).c
             id == FreshId(s)
         IN /\ HasCore(d) /\ SameShown(s.c, d)
            /\ IsFiniteSet(DOMAIN d.inFlight)
            /\ w.kind \in {"OpenReview", "ReviewSnapshot"}
                 => d.snapshotEvents = With(s.c.snapshotEvents, id, [review |-> w.review, events |-> {}])
            /\ w.kind \notin {"OpenReview", "ReviewSnapshot"} => d.snapshotEvents = s.c.snapshotEvents
            /\ d.latestOpen = IF w.kind \in {"OpenReview", "ReviewSnapshot"} THEN id ELSE s.c.latestOpen
<1> DEFINE id == FreshId(s)
           opens == w.kind \in {"OpenReview", "ReviewSnapshot"}
           x1 == With(s.c.inFlight, id, w)
           x2 == IF opens THEN With(s.c.snapshotEvents, id, [review |-> w.review, events |-> {}]) ELSE s.c.snapshotEvents
           x3 == IF opens THEN id ELSE s.c.latestOpen
           x4 == IF w.kind = "ListFiles" THEN id ELSE s.c.latestFiles
           x5 == IF w.kind = "ListCommits" THEN id ELSE s.c.latestCommits
           x6 == IF w.kind = "Search" THEN id ELSE s.c.latestSearch
           x7 == s.c.lost \/ ~(s.c.connection # "Disconnected")
           d == Request(s, w, q).c
<1>1. d = [s.c EXCEPT !.inFlight = x1, !.snapshotEvents = x2, !.latestOpen = x3, !.latestFiles = x4,
                      !.latestCommits = x5, !.latestSearch = x6, !.lost = x7]
  <2>1. DOMAIN s.c = CoreFields
    BY DEF HasCore
  <2>2. QED
    BY <2>1 DEF Request, CoreFields
<1>2. IsFiniteSet(DOMAIN x1)
  <2>1. DOMAIN x1 = DOMAIN s.c.inFlight \cup {id}
    BY DEF With
  <2>2. QED
    BY <2>1, FS_AddElement
<1> HIDE DEF d, x1, x2, x3, x4, x5, x6, x7
<1>3. DOMAIN s.c = CoreFields
  BY DEF HasCore
<1>4. HasCore(d)
  BY <1>1, <1>3 DEF HasCore
<1>5. d.inFlight = x1 /\ d.snapshotEvents = x2 /\ d.latestOpen = x3
  BY <1>1, <1>3 DEF CoreFields
<1>6. SameShown(s.c, d)
  BY <1>1, <1>3 DEF CoreFields, SameShown, ShownFields
<1>7. QED
  BY <1>2, <1>4, <1>5, <1>6 DEF d, x2, x3

\* The job it asks for, if the daemon can be asked.
AsksFor(j, id, w) ==
  /\ j = [f \in JobFields |-> j[f]]
  /\ j.id = id /\ j.kind = w.kind /\ j.review = w.review /\ j.stage = "asked"
  /\ j.at = Len(log)

\* A request adds at most the daemon's job for it.
LEMMA RequestJobs ==
  ASSUME NEW s, NEW w, NEW q
  PROVE  \E j : AsksFor(j, FreshId(s), w) /\ Request(s, w, q).jobs \in {s.jobs, s.jobs \cup {j}}
<1> DEFINE j == [id |-> FreshId(s), kind |-> w.kind, review |-> w.review, scope |-> w.scope,
                 opts |-> s.c.opts, query |-> q, stage |-> "asked", at |-> Len(log), sent |-> 0]
<1>1. Request(s, w, q).jobs \in {s.jobs, s.jobs \cup {j}}
  BY DEF Request
<1>2. AsksFor(j, FreshId(s), w)
  BY DEF JobFields, AsksFor
<1>3. QED
  BY <1>1, <1>2

\* A request keeps what every handler keeps.
LEMMA RequestWhole ==
  ASSUME NEW s, NEW w, NEW q, NEW n, NEW x, Whole(log, n, s, x), Len(log) \in Nat, n \in 0 .. Len(log),
         w.kind \in JobKinds
  PROVE  Whole(log, n, Request(s, w, q), x) /\ SameShown(s.c, Request(s, w, q).c)
<1> DEFINE t == Request(s, w, q)
           id == FreshId(s)
           opening == w.kind \in {"OpenReview", "ReviewSnapshot"}
<1>0. t = [c |-> t.c, jobs |-> t.jobs]
  BY DEF Request
<1>1. /\ HasCore(s.c) /\ IsFiniteSet(DOMAIN s.c.inFlight) /\ JobsApart(log, n, s)
      /\ Awaits(log, n, s.c.snapshotEvents, s.jobs, x)
  BY DEF Whole
<1>2. /\ HasCore(t.c) /\ SameShown(s.c, t.c) /\ IsFiniteSet(DOMAIN t.c.inFlight)
      /\ opening => t.c.snapshotEvents = With(s.c.snapshotEvents, id, [review |-> w.review, events |-> {}])
      /\ ~opening => t.c.snapshotEvents = s.c.snapshotEvents
  BY <1>1, RequestCore
<1>3a. PICK j : AsksFor(j, id, w) /\ t.jobs \in {s.jobs, s.jobs \cup {j}}
  BY RequestJobs
<1>3. /\ t.jobs = s.jobs \/ t.jobs = s.jobs \cup {j}
      /\ j = [f \in JobFields |-> j[f]]
      /\ j.id = id /\ j.kind = w.kind /\ j.review = w.review /\ j.stage = "asked"
      /\ j.at = Len(log)
  BY <1>3a DEF AsksFor
<1>4. \A i \in s.jobs : i.id # id
  BY <1>1, FreshOwn DEF JobsApart
<1> HIDE DEF t, id
<1>5. JobsApart(log, n, t)
  <2>1. IsFiniteSet(t.jobs)
    BY <1>1, <1>3, FS_AddElement DEF JobsApart
  <2>2. HasJob(log, j)
    BY <1>3 DEF HasJob
  <2>3. \A i \in t.jobs : HasJob(log, i)
    BY <1>1, <1>3, <2>2 DEF JobsApart
  <2>4. \A i, k \in t.jobs : i.id = k.id => i = k
    BY <1>1, <1>3, <1>4 DEF JobsApart
  <2>5. QED
    BY <2>1, <2>3, <2>4 DEF JobsApart
<1>6. Awaits(log, n, t.c.snapshotEvents, t.jobs, x)
  <2>1. CASE ~opening
    <3>1. ~Opens(j) /\ t.c.snapshotEvents = s.c.snapshotEvents
      BY <1>2, <1>3, <2>1 DEF Opens
    <3>2. QED
      BY <1>1, <1>3, <3>1 DEF Awaits
  <2>2. CASE opening
    <3> DEFINE new == [review |-> w.review, events |-> {}]
               kept == s.c.snapshotEvents
               more == With(kept, id, new)
    <3>1. t.c.snapshotEvents = more
      BY <1>2, <2>2
    <3>2. DOMAIN more = DOMAIN kept \cup {id} /\ more[id] = new /\ \A k \in DOMAIN kept : k # id => more[k] = kept[k]
      BY DEF With
    <3>3. EventsOf(more, id)
      BY <3>2 DEF EventsOf
    <3> HIDE DEF more
    <3>4. \A k \in DOMAIN more : EventsOf(more, k)
      BY <1>1, <3>2, <3>3 DEF Awaits, EventsOf
    <3>5. Remembered(log, n, more, j)
      <4>1. (j.at + 1) .. n = {}
        BY <1>3
      <4>2. QED
        BY <1>3, <3>2, <4>1 DEF Remembered
    <3>6. ASSUME NEW i \in s.jobs, Opens(i), i.id \notin x PROVE Remembered(log, n, more, i)
      <4>1. i.id # id /\ Remembered(log, n, kept, i)
        BY <1>1, <1>4, <3>6 DEF Awaits
      <4>2. i.id \in DOMAIN kept /\ more[i.id] = kept[i.id]
        BY <3>2, <4>1 DEF Remembered
      <4>3. QED
        BY <3>2, <4>1, <4>2 DEF Remembered
    <3>7. QED
      BY <1>3, <3>1, <3>4, <3>5, <3>6 DEF Awaits
  <2>3. QED
    BY <2>1, <2>2
<1>7. QED
  BY <1>0, <1>2, <1>5, <1>6 DEF Whole, t

\* So do the requests for the files and the commits.
LEMMA ListsWhole ==
  ASSUME NEW s, NEW n, NEW x, Whole(log, n, s, x), Len(log) \in Nat, n \in 0 .. Len(log)
  PROVE  /\ Whole(log, n, ListFiles(s), x) /\ SameShown(s.c, ListFiles(s).c)
         /\ Whole(log, n, ListCommits(s), x) /\ SameShown(s.c, ListCommits(s).c)
  BY RequestWhole DEF ListFiles, ListCommits, Waiting, JobKinds

\* A request that is answered is forgotten.
LEMMA RetireWhole ==
  ASSUME NEW n, NEW s, NEW id, Whole(log, n, s, {id}) \/ Whole(log, n, s, {})
  PROVE  Whole(log, n, Retire(s, id), {}) /\ SameShown(s.c, Retire(s, id).c)
<1> DEFINE t == Retire(s, id)
           d == t.c
           y1 == Without(s.c.inFlight, id)
           y2 == Without(s.c.snapshotEvents, id)
<1>1. /\ HasCore(s.c) /\ IsFiniteSet(DOMAIN s.c.inFlight) /\ JobsApart(log, n, s)
      /\ Awaits(log, n, s.c.snapshotEvents, s.jobs, {id})
  BY DEF Whole, Awaits
<1>2. t = [c |-> d, jobs |-> {j \in s.jobs : j.id # id}] /\ d = [s.c EXCEPT !.inFlight = y1, !.snapshotEvents = y2]
  BY DEF Retire
<1>3. IsFiniteSet(DOMAIN y1)
  <2>1. DOMAIN y1 \in SUBSET DOMAIN s.c.inFlight
    BY DEF Without
  <2>2. QED
    BY <1>1, <2>1, FS_Subset
<1>4. DOMAIN y2 = DOMAIN s.c.snapshotEvents \ {id} /\ \A k \in DOMAIN y2 : y2[k] = s.c.snapshotEvents[k]
  BY DEF Without
<1> HIDE DEF t, d, y1, y2
<1>5. HasCore(d) /\ d.inFlight = y1 /\ d.snapshotEvents = y2 /\ SameShown(s.c, d)
  <2>1. DOMAIN s.c = CoreFields
    BY <1>1 DEF HasCore
  <2>2. QED
    BY <1>2, <2>1 DEF HasCore, CoreFields, SameShown, ShownFields
<1>6. t.c = d /\ t.jobs = {j \in s.jobs : j.id # id} /\ t = [c |-> t.c, jobs |-> t.jobs]
  BY <1>2
<1>7. JobsApart(log, n, t)
  <2>1. t.jobs \in SUBSET s.jobs
    BY <1>6
  <2>2. IsFiniteSet(t.jobs)
    BY <1>1, <2>1, FS_Subset DEF JobsApart
  <2>3. QED
    BY <1>1, <2>1, <2>2 DEF JobsApart
<1>8. Awaits(log, n, y2, t.jobs, {})
  <2>1. \A k \in DOMAIN y2 : EventsOf(y2, k)
    BY <1>1, <1>4 DEF Awaits, EventsOf
  <2>2. ASSUME NEW j \in t.jobs, Opens(j) PROVE Remembered(log, n, y2, j)
    <3>1. j \in s.jobs /\ j.id \notin {id}
      BY <1>6
    <3>2. Remembered(log, n, s.c.snapshotEvents, j)
      BY <1>1, <2>2, <3>1 DEF Awaits
    <3>3. QED
      BY <1>4, <3>1, <3>2 DEF Remembered
  <2>3. QED
    BY <2>1, <2>2 DEF Awaits
<1>9. QED
  BY <1>3, <1>5, <1>6, <1>7, <1>8 DEF Whole, t

\* Whoever reads the file list may take it for what it is.
LEMMA SupersedeWhole ==
  ASSUME NEW n, NEW x, NEW s, NEW r, Whole(log, n, s, x)
  PROVE  /\ Whole(log, n, SupersedeOpeningContent(s, r), x) /\ SameShown(s.c, SupersedeOpeningContent(s, r).c)
<1> DEFINE t == SupersedeOpeningContent(s, r)
           fl == [id \in DOMAIN s.c.inFlight |->
                    IF s.c.inFlight[id].kind = "OpenReview" /\ s.c.inFlight[id].review = r
                       /\ s.c.inFlight[id].content = "Streaming"
                    THEN [s.c.inFlight[id] EXCEPT !.content = "Superseded"] ELSE s.c.inFlight[id]]
           d == [s.c EXCEPT !.inFlight = fl]
<1>1. s = [c |-> s.c, jobs |-> s.jobs] /\ HasCore(s.c) /\ IsFiniteSet(DOMAIN s.c.inFlight)
  BY DEF Whole
<1>2. t = [c |-> d, jobs |-> s.jobs]
  BY <1>1 DEF SupersedeOpeningContent
<1>3. DOMAIN fl = DOMAIN s.c.inFlight
  OBVIOUS
<1> HIDE DEF t, fl, d
<1>4. HasCore(d) /\ d.inFlight = fl /\ \A f \in CoreFields : f # "inFlight" => d[f] = s.c[f]
  <2>1. DOMAIN s.c = CoreFields
    BY <1>1 DEF HasCore
  <2>2. QED
    BY <2>1 DEF d, HasCore, CoreFields
<1>5. Steady(s.c, d)
  BY <1>1, <1>3, <1>4 DEF Steady, SteadyFields, CoreFields
<1>6. t = [c |-> t.c, jobs |-> s.jobs] /\ t.c = d
  BY <1>2
<1>7. Whole(log, n, t, x) /\ SameShown(s.c, t.c)
  BY <1>5, <1>6, SteadyKeeps
<1>8. QED
  BY <1>7 DEF t

\* Closing a review leaves nothing that could be behind.
LEMMA CloseHeld ==
  ASSUME NEW n, NEW x, NEW s, Whole(log, n, s, x)
  PROVE  /\ Held(log, n, CloseReview(s), x)
         /\ LET d == CloseReview(s).c
            IN d.open = NoReview /\ d.deferred = <<>> /\ ~d.draft /\ d.connection = s.c.connection
               /\ d.snapshotEvents = s.c.snapshotEvents /\ d.latestOpen = s.c.latestOpen
<1> DEFINE t == CloseReview(s)
           d == [f \in CoreFields |-> IF f \in Survives THEN s.c[f] ELSE Closed[f]]
<1>1. s = [c |-> s.c, jobs |-> s.jobs] /\ HasCore(s.c) /\ IsFiniteSet(DOMAIN s.c.inFlight)
  BY DEF Whole
<1>2. DOMAIN Closed = CoreFields
  BY DEF Closed, CoreFields
<1>3. t = [c |-> d, jobs |-> s.jobs]
  BY <1>1, <1>2 DEF CloseReview
<1>4. d.open = NoReview /\ d.deferred = <<>> /\ d.draft = FALSE
  BY DEF Closed, CoreFields, Survives
<1>5. /\ d.connection = s.c.connection /\ d.snapshotEvents = s.c.snapshotEvents /\ d.latestOpen = s.c.latestOpen
      /\ d.inFlight = s.c.inFlight
  BY DEF CoreFields, Survives
<1>6. HasCore(d)
  BY DEF HasCore
<1> HIDE DEF d, t
<1>7. Recent(log, n, d)
  BY <1>4 DEF Recent
<1>8. t.c = d /\ t.jobs = s.jobs
  BY <1>3
<1>9. Whole(log, n, t, x)
  BY <1>1, <1>3, <1>5, <1>6, <1>8 DEF Whole, JobsApart
<1>10. QED
  BY <1>4, <1>5, <1>7, <1>8, <1>9 DEF Held, t

\* What the handlers of lists and files do to the core.
Merely(s, t) == t = [c |-> t.c, jobs |-> s.jobs] /\ Steady(s.c, t.c)

\* Two of the fields that nothing rests on are set.
LEMMA MerelySets ==
  ASSUME NEW s, HasCore(s.c), s = [c |-> s.c, jobs |-> s.jobs],
         NEW f \in CoreFields \ (SteadyFields \cup {"inFlight"}), NEW g \in CoreFields \ (SteadyFields \cup {"inFlight"}),
         NEW v, NEW w
  PROVE  Merely(s, [s EXCEPT !.c[f] = v]) /\ Merely(s, [s EXCEPT !.c[f] = v, !.c[g] = w])
<1> DEFINE c1 == [s.c EXCEPT ![f] = v]
           c2 == [c1 EXCEPT ![g] = w]
<1>1. [s EXCEPT !.c[f] = v] = [c |-> c1, jobs |-> s.jobs] /\ [s EXCEPT !.c[f] = v, !.c[g] = w] = [c |-> c2, jobs |-> s.jobs]
  <2>1. ASSUME NEW c, NEW js, NEW h, NEW y
        PROVE  [[c |-> c, jobs |-> js] EXCEPT !.c[h] = y] = [c |-> [c EXCEPT ![h] = y], jobs |-> js]
    OBVIOUS
  <2>2. [s EXCEPT !.c[f] = v] = [c |-> [s.c EXCEPT ![f] = v], jobs |-> s.jobs]
    BY <2>1
  <2>3. [s EXCEPT !.c[f] = v, !.c[g] = w] = [[s EXCEPT !.c[f] = v] EXCEPT !.c[g] = w]
    OBVIOUS
  <2>4. [[c |-> c1, jobs |-> s.jobs] EXCEPT !.c[g] = w] = [c |-> [c1 EXCEPT ![g] = w], jobs |-> s.jobs]
    BY <2>1
  <2>5. QED
    BY <2>2, <2>3, <2>4
<1>2. Steady(s.c, c1)
  BY SetSteady
<1>3. Steady(c1, c2)
  <2> HIDE DEF c1
  <2>1. HasCore(c1)
    BY <1>2 DEF Steady
  <2>2. QED
    BY <2>1, SetSteady
<1> HIDE DEF c1, c2
<1>4. Steady(s.c, c2)
  BY <1>2, <1>3, SteadyTwice
<1>5. QED
  BY <1>1, <1>2, <1>4 DEF Merely

\* The file list and the open file are such fields.
LEMMA FilesMerely ==
  ASSUME NEW s, HasCore(s.c), s = [c |-> s.c, jobs |-> s.jobs], NEW fs
  PROVE  Merely(s, AutoOpenFirst(s)) /\ Merely(s, ReviewFiles(s, fs)) /\ Merely(s, ClearFiles(s))
<1>1. ASSUME NEW u, HasCore(u.c), u = [c |-> u.c, jobs |-> u.jobs]
      PROVE  Merely(u, AutoOpenFirst(u))
  <2> DEFINE v == IF u.c.openFile = Nothing /\ u.c.files # <<>> THEN u.c.files[1].file ELSE u.c.openFile
             d == [u.c EXCEPT !["openFile"] = v]
  <2>1. AutoOpenFirst(u) = [c |-> d, jobs |-> u.jobs]
    BY <1>1 DEF AutoOpenFirst
  <2>2. "openFile" \in CoreFields \ (SteadyFields \cup {"inFlight"})
    BY DEF CoreFields, SteadyFields
  <2> HIDE DEF v
  <2>3. Steady(u.c, d)
    BY <1>1, <2>2, SetSteady
  <2> HIDE DEF d
  <2>4. QED
    BY <2>1, <2>3 DEF Merely
<1>3. DOMAIN s.c = CoreFields
  BY DEF HasCore
<1>4. ASSUME NEW v, NEW w
      PROVE  /\ Merely(s, [s EXCEPT !.c.files = v, !.c.openFile = w])
             /\ HasCore([s EXCEPT !.c.files = v, !.c.openFile = w].c)
  <2>1. "files" \in CoreFields \ (SteadyFields \cup {"inFlight"}) /\ "openFile" \in CoreFields \ (SteadyFields \cup {"inFlight"})
    BY DEF CoreFields, SteadyFields
  <2>2. Merely(s, [s EXCEPT !.c["files"] = v, !.c["openFile"] = w])
    BY <2>1, MerelySets
  <2>3. QED
    BY <2>2 DEF Merely, Steady
<1>5. Merely(s, ClearFiles(s))
  BY <1>4 DEF ClearFiles
<1>6. Merely(s, ReviewFiles(s, fs))
  <2> DEFINE w == IF \E k \in DOMAIN fs : fs[k].file = s.c.openFile THEN s.c.openFile ELSE Nothing
             u == [s EXCEPT !.c.files = fs, !.c.openFile = w]
  <2>1. ReviewFiles(s, fs) = AutoOpenFirst(u)
    BY <1>3 DEF ReviewFiles, CoreFields
  <2> HIDE DEF w
  <2>2. Merely(s, u) /\ HasCore(u.c)
    BY <1>4
  <2> HIDE DEF u
  <2>3. u = [c |-> u.c, jobs |-> u.jobs] /\ u.jobs = s.jobs
    BY <2>2 DEF Merely
  <2>4. Merely(u, AutoOpenFirst(u))
    BY <1>1, <2>2, <2>3
  <2>5. Steady(s.c, AutoOpenFirst(u).c)
    BY <2>2, <2>4, SteadyTwice DEF Merely
  <2>6. QED
    BY <2>1, <2>3, <2>4, <2>5 DEF Merely
<1>7. QED
  BY <1>1, <1>5, <1>6

\* A handler that merely sets such fields keeps what was whole.
LEMMA MerelyKeeps ==
  ASSUME NEW l, NEW n, NEW x, NEW s, NEW t, Whole(l, n, s, x), Merely(s, t)
  PROVE  Whole(l, n, t, x) /\ SameShown(s.c, t.c)
  BY SteadyKeeps DEF Merely

\* Another scope keeps the targets that are shown.
LEMMA ScopeWhole ==
  ASSUME NEW n, NEW x, NEW s, NEW scope, Whole(log, n, s, x), Len(log) \in Nat, n \in 0 .. Len(log)
  PROVE  Whole(log, n, ApplyScope(s, scope), x) /\ SameShown(s.c, ApplyScope(s, scope).c)
<1> DEFINE a == [s EXCEPT !.c.scope = scope, !.c.scopedAt = Nothing]
           b == ClearFiles(a)
           t == SupersedeOpeningContent(b, s.c.open)
           u == [t EXCEPT !.c.lost = TRUE]
<1>1. s = [c |-> s.c, jobs |-> s.jobs] /\ HasCore(s.c)
  BY DEF Whole
<1>2. {"scope", "scopedAt", "lost"} \subseteq CoreFields \ (SteadyFields \cup {"inFlight"})
  BY DEF CoreFields, SteadyFields
<1>3. Merely(s, a)
  <2>1. Merely(s, [s EXCEPT !.c["scope"] = scope, !.c["scopedAt"] = Nothing])
    BY <1>1, <1>2, MerelySets
  <2>2. QED
    BY <2>1
<1> HIDE DEF a
<1>4. Whole(log, n, a, x) /\ SameShown(s.c, a.c) /\ HasCore(a.c) /\ a = [c |-> a.c, jobs |-> a.jobs]
  BY <1>3, MerelyKeeps DEF Whole
<1>5. Whole(log, n, b, x) /\ SameShown(a.c, b.c)
  <2>1. Merely(a, b)
    BY <1>4, FilesMerely
  <2> HIDE DEF b
  <2>2. QED
    BY <1>4, <2>1, MerelyKeeps
<1> HIDE DEF b
<1>6. Whole(log, n, t, x) /\ SameShown(b.c, t.c)
  BY <1>5, SupersedeWhole
<1> HIDE DEF t
<1>7. Whole(log, n, ListFiles(t), x) /\ SameShown(t.c, ListFiles(t).c)
  BY <1>6, ListsWhole
<1>8. Whole(log, n, u, x) /\ SameShown(t.c, u.c)
  <2>1. t = [c |-> t.c, jobs |-> t.jobs] /\ HasCore(t.c)
    BY <1>6 DEF Whole
  <2>2. Merely(t, [t EXCEPT !.c["lost"] = TRUE])
    BY <1>2, <2>1, MerelySets
  <2>3. Merely(t, u)
    BY <2>2
  <2> HIDE DEF u
  <2>4. QED
    BY <1>6, <2>3, MerelyKeeps
<1>9. ApplyScope(s, scope) = s \/ ApplyScope(s, scope) = ListFiles(t) \/ ApplyScope(s, scope) = u
  BY DEF ApplyScope, t, b, a, u
<1> HIDE DEF u
<1>10. SameShown(s.c, s.c) /\ SameShown(s.c, ListFiles(t).c) /\ SameShown(s.c, u.c)
  BY <1>4, <1>5, <1>6, <1>7, <1>8 DEF SameShown
<1>11. QED
  BY <1>7, <1>8, <1>9, <1>10

-----------------------------------------------------------------------------
(* The shown review: snapshots and events.                                 *)

\* The events kept for other opens stay.
LEMMA ForgetKept ==
  ASSUME NEW n, NEW x, NEW s, Whole(log, n, s, x), NEW id,
         \A j \in s.jobs : Opens(j) /\ j.id \notin x => j.id # id
  PROVE  Whole(log, n, [s EXCEPT !.c.snapshotEvents = Without(@, id)], x)
<1> DEFINE y == Without(s.c.snapshotEvents, id)
           d == [s.c EXCEPT !["snapshotEvents"] = y]
           t == [c |-> d, jobs |-> s.jobs]
<1>1. /\ s = [c |-> s.c, jobs |-> s.jobs] /\ HasCore(s.c) /\ IsFiniteSet(DOMAIN s.c.inFlight)
      /\ JobsApart(log, n, s) /\ Awaits(log, n, s.c.snapshotEvents, s.jobs, x)
  BY DEF Whole
<1>2. [s EXCEPT !.c.snapshotEvents = Without(@, id)] = t
  BY <1>1
<1>3. DOMAIN y = DOMAIN s.c.snapshotEvents \ {id} /\ \A k \in DOMAIN y : y[k] = s.c.snapshotEvents[k]
  BY DEF Without
<1> HIDE DEF y
<1>4. HasCore(d) /\ d.snapshotEvents = y /\ d.inFlight = s.c.inFlight
  <2>1. "snapshotEvents" \in CoreFields /\ "inFlight" \in CoreFields
    BY DEF CoreFields
  <2>2. QED
    BY <1>1, <2>1, CoreSet
<1> HIDE DEF d
<1>5. Awaits(log, n, y, s.jobs, x)
  <2>1. \A k \in DOMAIN y : EventsOf(y, k)
    BY <1>1, <1>3 DEF Awaits, EventsOf
  <2>2. ASSUME NEW j \in s.jobs, Opens(j), j.id \notin x PROVE Remembered(log, n, y, j)
    <3>1. j.id # id /\ Remembered(log, n, s.c.snapshotEvents, j)
      BY <1>1, <2>2 DEF Awaits
    <3>2. QED
      BY <1>3, <3>1 DEF Remembered
  <2>3. QED
    BY <2>1, <2>2 DEF Awaits
<1>6. Whole(log, n, t, x)
  BY <1>1, <1>4, <1>5 DEF Whole, JobsApart
<1>7. QED
  BY <1>2, <1>6

\* The snapshot with the events that overtook it is as recent as the events handled.
LEMMA SnapshotRecent ==
  ASSUME NEW n, NEW s, NEW j, NEW at, Len(log) \in Nat, n \in 0 .. Len(log),
         Remembered(log, n, s.c.snapshotEvents, j), j.at \in Nat, at \in Nat, j.at <= at
  PROVE  LET later == {m \in s.c.snapshotEvents[j.id].events : m > at}
             upTo == CHOOSE m \in {at} \cup later : \A k \in later : k <= m
         IN upTo \in Nat /\ VersionAt(j.review, upTo) >= Version(log, j.review, n)
<1> DEFINE later == {m \in s.c.snapshotEvents[j.id].events : m > at}
           upTo == CHOOSE m \in {at} \cup later : \A k \in later : k <= m
<1>1. later \in SUBSET (1 .. n) /\ n \in Nat /\ \A m \in later : m > at
  BY DEF Remembered
<1>2. \E m \in {at} \cup later : \A k \in later : k <= m
  <2> HIDE DEF later
  <2>1. CASE later = {}
    BY <2>1
  <2>2. CASE later # {}
    BY <1>1, <2>2, LastPosition
  <2>3. QED
    BY <2>1, <2>2
<1>3. upTo \in {at} \cup later /\ \A k \in later : k <= upTo
  <2> HIDE DEF later
  <2>1. QED
    BY <1>2
<1>4. ASSUME NEW i \in 1 .. n, log[i] = j.review PROVE i <= upTo
  <2>1. i <= at \/ i \in later
    <3>1. i <= j.at \/ i \in (j.at + 1) .. n
      OBVIOUS
    <3>2. i \in (j.at + 1) .. n => i \in s.c.snapshotEvents[j.id].events
      BY <1>4 DEF Remembered
    <3>3. QED
      BY <3>1, <3>2
  <2> HIDE DEF later, upTo
  <2>2. at <= upTo
    BY <1>1, <1>3
  <2>3. upTo \in Nat
    BY <1>1, <1>3
  <2>4. QED
    BY <1>3, <2>1, <2>2, <2>3
<1>5. upTo \in Nat
  <2> HIDE DEF later, upTo
  <2>1. QED
    BY <1>1, <1>3
<1>6. Version(log, j.review, upTo) >= Version(log, j.review, n)
  <2> HIDE DEF upTo
  <2>1. QED
    BY <1>1, <1>4, <1>5, VersionGrows
<1>7. QED
  <2> HIDE DEF upTo
  <2>1. VersionAt(j.review, upTo) = Version(log, j.review, upTo)
    BY VersionIs
  <2>2. QED
    BY <1>5, <1>6, <2>1 DEF upTo

\* Installing a snapshot shows targets as recent as the events handled.
LEMMA InstallHeld ==
  ASSUME NEW n, NEW x, NEW s, Whole(log, n, s, x), NEW j, NEW at, Len(log) \in Nat, n \in 0 .. Len(log),
         \A i \in s.jobs : Opens(i) /\ i.id \notin x => i.id # j.id,
         Remembered(log, n, s.c.snapshotEvents, j), j.at \in Nat, at \in Nat, j.at <= at
  PROVE  Held(log, n, InstallSnapshot(s, j.id, j.review, at), x)
<1> DEFINE later == {m \in s.c.snapshotEvents[j.id].events : m > at}
           upTo == CHOOSE m \in {at} \cup later : \A k \in later : k <= m
           a == [s EXCEPT !.c.snapshotEvents = Without(@, j.id)]
           b == CloseReview(a)
           u == [b EXCEPT !.c.open = j.review, !.c.committed = VersionAt(j.review, upTo)]
<1>1. VersionAt(j.review, upTo) >= Version(log, j.review, n)
  BY SnapshotRecent
<1>2. InstallSnapshot(s, j.id, j.review, at) = ListCommits(u)
  BY DEF InstallSnapshot
<1> HIDE DEF upTo
<1>3. Whole(log, n, a, x)
  BY ForgetKept
<1> HIDE DEF a
<1>4. Whole(log, n, b, x) /\ b.c.deferred = <<>> /\ ~b.c.draft
  BY <1>3, CloseHeld DEF Held
<1> HIDE DEF b
<1>5. b = [c |-> b.c, jobs |-> b.jobs] /\ HasCore(b.c)
  BY <1>4 DEF Whole
<1> DEFINE d == [[b.c EXCEPT !["open"] = j.review] EXCEPT !["committed"] = VersionAt(j.review, upTo)]
<1> DEFINE latest == VersionAt(j.review, upTo)
<1>6. u = [c |-> d, jobs |-> b.jobs]
  <2>1. ASSUME NEW c, NEW js, NEW h, NEW y
        PROVE  [[c |-> c, jobs |-> js] EXCEPT !.c[h] = y] = [c |-> [c EXCEPT ![h] = y], jobs |-> js]
    OBVIOUS
  <2> HIDE DEF latest
  <2> DEFINE c1 == [b.c EXCEPT !["open"] = j.review]
  <2>2. [b EXCEPT !.c["open"] = j.review] = [c |-> c1, jobs |-> b.jobs]
    BY <1>5, <2>1
  <2>3. [[c |-> c1, jobs |-> b.jobs] EXCEPT !.c["committed"] = latest] = [c |-> [c1 EXCEPT !["committed"] = latest], jobs |-> b.jobs]
    BY <2>1
  <2>4. [b EXCEPT !.c["open"] = j.review, !.c["committed"] = latest] = [[b EXCEPT !.c["open"] = j.review] EXCEPT !.c["committed"] = latest]
    OBVIOUS
  <2>5. [b EXCEPT !.c["open"] = j.review, !.c["committed"] = latest] = [c |-> [c1 EXCEPT !["committed"] = latest], jobs |-> b.jobs]
    BY <2>2, <2>3, <2>4
  <2>6. QED
    BY <2>5 DEF latest
<1>7. /\ HasCore(d) /\ d.open = j.review /\ d.committed = latest /\ d.deferred = <<>>
      /\ d.inFlight = b.c.inFlight /\ d.snapshotEvents = b.c.snapshotEvents
  <2>1. DOMAIN b.c = CoreFields
    BY <1>5 DEF HasCore
  <2> HIDE DEF latest
  <2>2. d = [[b.c EXCEPT !["open"] = j.review] EXCEPT !["committed"] = latest]
    BY DEF latest
  <2> HIDE DEF d
  <2>3. d = [f \in CoreFields |-> IF f = "committed" THEN latest ELSE IF f = "open" THEN j.review ELSE b.c[f]]
    BY <2>1, <2>2
  <2>4. HasCore(d)
    BY <2>3 DEF HasCore
  <2>5. d.open = j.review /\ d.committed = latest /\ d.deferred = b.c.deferred /\ d.inFlight = b.c.inFlight
        /\ d.snapshotEvents = b.c.snapshotEvents
    BY <2>3 DEF CoreFields
  <2>6. QED
    BY <1>4, <2>4, <2>5
<1> HIDE DEF d, u
<1>8. u.c = d /\ u.jobs = b.jobs
  BY <1>6
<1>9. Whole(log, n, u, x)
  BY <1>4, <1>6, <1>7, <1>8 DEF Whole, JobsApart
<1>10. Recent(log, n, u.c)
  <2> HIDE DEF latest
  <2>1. u.c.open = j.review /\ u.c.committed = latest /\ u.c.deferred = <<>>
    BY <1>7, <1>8
  <2>2. u.c.committed >= Version(log, u.c.open, n)
    BY <1>1, <2>1 DEF latest
  <2>3. QED
    BY <2>1, <2>2 DEF Recent
<1>11. Whole(log, n, ListCommits(u), x) /\ SameShown(u.c, ListCommits(u).c)
  BY <1>9, ListsWhole
<1>12. QED
  BY <1>2, <1>10, <1>11, RecentShown DEF Held

\* Every open that awaits the review keeps the event.
LEMMA KeptWhole ==
  ASSUME NEW n, NEW k, NEW x, NEW s, NEW m, Whole(log, n, s, x), n \in Nat, k \in Nat, n <= k, m \in 1 .. k,
         \A i \in (n + 1) .. k : i = m
  PROVE  LET t == KeepForSnapshots(s, m)
         IN Whole(log, k, t, x) /\ SameShown(s.c, t.c) /\ Alike(s.c, t.c, CoreFields \ {"snapshotEvents"})
<1> DEFINE kept == s.c.snapshotEvents
           y == [id \in DOMAIN kept |->
                   IF kept[id].review = log[m] THEN [review |-> log[m], events |-> kept[id].events \cup {m}] ELSE kept[id]]
           d == [s.c EXCEPT !["snapshotEvents"] = y]
           t == KeepForSnapshots(s, m)
<1>1. /\ s = [c |-> s.c, jobs |-> s.jobs] /\ HasCore(s.c) /\ IsFiniteSet(DOMAIN s.c.inFlight)
      /\ JobsApart(log, n, s) /\ Awaits(log, n, kept, s.jobs, x)
  BY DEF Whole
<1>2. t = [c |-> d, jobs |-> s.jobs]
  <2>1. t = [s EXCEPT !.c.snapshotEvents = y]
    BY DEF KeepForSnapshots
  <2> HIDE DEF y, t
  <2>2. [s EXCEPT !.c.snapshotEvents = y] = [c |-> d, jobs |-> s.jobs]
    BY <1>1
  <2>3. QED
    BY <2>1, <2>2
<1>3. DOMAIN y = DOMAIN kept
  OBVIOUS
<1>4. ASSUME NEW id \in DOMAIN kept
      PROVE  /\ y[id].review = kept[id].review /\ EventsOf(y, id)
             /\ y[id].events = IF kept[id].review = log[m] THEN kept[id].events \cup {m} ELSE kept[id].events
  <2>1. kept[id] = [review |-> kept[id].review, events |-> kept[id].events]
    BY <1>1, <1>4 DEF Awaits, EventsOf
  <2>2. y[id] = IF kept[id].review = log[m] THEN [review |-> log[m], events |-> kept[id].events \cup {m}] ELSE kept[id]
    BY <1>4
  <2> HIDE DEF y, kept
  <2>3. CASE kept[id].review = log[m]
    <3>1. y[id] = [review |-> kept[id].review, events |-> kept[id].events \cup {m}]
      BY <2>1, <2>2, <2>3
    <3>2. QED
      BY <2>3, <3>1 DEF EventsOf
  <2>4. CASE kept[id].review # log[m]
    BY <2>1, <2>2, <2>4 DEF EventsOf
  <2>5. QED
    BY <2>3, <2>4
<1> HIDE DEF y
<1>5. HasCore(d) /\ d.snapshotEvents = y /\ \A f \in CoreFields \ {"snapshotEvents"} : d[f] = s.c[f]
  <2>1. DOMAIN s.c = CoreFields
    BY <1>1 DEF HasCore
  <2>2. d = [f \in CoreFields |-> IF f = "snapshotEvents" THEN y ELSE s.c[f]]
    BY <2>1
  <2> HIDE DEF d
  <2>3. HasCore(d)
    BY <2>2 DEF HasCore
  <2>4. QED
    BY <2>2, <2>3 DEF CoreFields
<1> HIDE DEF d
<1>6. SameShown(s.c, d) /\ d.inFlight = s.c.inFlight
  BY <1>5 DEF SameShown, ShownFields, CoreFields
<1>7. Awaits(log, k, y, s.jobs, x)
  <2>1. \A id \in DOMAIN y : EventsOf(y, id)
    BY <1>3, <1>4
  <2>2. ASSUME NEW j \in s.jobs, Opens(j), j.id \notin x PROVE Remembered(log, k, y, j)
    <3>1. Remembered(log, n, kept, j)
      BY <1>1, <2>2 DEF Awaits
    <3>2. j.id \in DOMAIN kept /\ kept[j.id].review = j.review /\ kept[j.id].events \subseteq 1 .. n
      BY <3>1 DEF Remembered
    <3>3. /\ y[j.id].review = j.review
          /\ y[j.id].events = IF j.review = log[m] THEN kept[j.id].events \cup {m} ELSE kept[j.id].events
      BY <1>4, <3>2
    <3>4. y[j.id].events \subseteq 1 .. k
      BY <3>2, <3>3
    <3>5. ASSUME NEW i \in (j.at + 1) .. k, log[i] = j.review PROVE i \in y[j.id].events
      <4>1. j.at \in Nat
        BY <1>1 DEF JobsApart, HasJob
      <4>2. i \in (j.at + 1) .. n \/ i \in (n + 1) .. k
        BY <3>5, <4>1
      <4>3. CASE i \in (j.at + 1) .. n
        <5>1. i \in kept[j.id].events
          BY <3>1, <3>5, <4>3 DEF Remembered
        <5>2. QED
          BY <3>3, <5>1
      <4>4. CASE i \in (n + 1) .. k
        <5>1. i = m
          BY <4>4
        <5>2. QED
          BY <3>3, <3>5, <5>1
      <4>5. QED
        BY <4>2, <4>3, <4>4
    <3>6. QED
      BY <1>3, <3>2, <3>3, <3>4, <3>5 DEF Remembered
  <2>3. QED
    BY <2>1, <2>2 DEF Awaits
<1>8. t.c = d /\ t.jobs = s.jobs /\ t = [c |-> t.c, jobs |-> t.jobs]
  BY <1>2
<1> HIDE DEF t
<1>9. Whole(log, k, t, x)
  BY <1>1, <1>5, <1>6, <1>7, <1>8 DEF Whole, JobsApart
<1>10. QED
  BY <1>5, <1>6, <1>8, <1>9 DEF t, Alike

\* An event is held back while a draft is open.
LEMMA HoldBackWhole ==
  ASSUME NEW n, NEW x, NEW s, NEW m, Whole(log, n, s, x)
  PROVE  LET t == HoldBack(s, m)
         IN /\ Whole(log, n, t, x)
            /\ Defers(s.c, t.c, m) /\ Pends(t.c)
            /\ Alike(s.c, t.c, CoreFields \ {"deferred", "pendingRefresh"})
<1> DEFINE yes == TRUE
           ds == Append(s.c.deferred, m)
           t == HoldBack(s, m)
           d == [f \in CoreFields |-> IF f = "pendingRefresh" THEN yes ELSE IF f = "deferred" THEN ds ELSE s.c[f]]
<1>1. /\ s = [c |-> s.c, jobs |-> s.jobs] /\ HasCore(s.c) /\ IsFiniteSet(DOMAIN s.c.inFlight)
      /\ JobsApart(log, n, s) /\ Awaits(log, n, s.c.snapshotEvents, s.jobs, x)
  BY DEF Whole
<1>2. DOMAIN s.c = CoreFields
  BY <1>1 DEF HasCore
<1>3. t = [s EXCEPT !.c["deferred"] = ds, !.c["pendingRefresh"] = yes]
  BY DEF HoldBack
<1> HIDE DEF ds, yes
<1> DEFINE c1 == [s.c EXCEPT !["deferred"] = ds]
           c2 == [c1 EXCEPT !["pendingRefresh"] = yes]
<1>4. [s EXCEPT !.c["deferred"] = ds, !.c["pendingRefresh"] = yes] = [c |-> c2, jobs |-> s.jobs]
  <2>1. ASSUME NEW c, NEW js, NEW h, NEW y
        PROVE  [[c |-> c, jobs |-> js] EXCEPT !.c[h] = y] = [c |-> [c EXCEPT ![h] = y], jobs |-> js]
    OBVIOUS
  <2>2. [s EXCEPT !.c["deferred"] = ds] = [c |-> c1, jobs |-> s.jobs]
    BY <1>1, <2>1
  <2> HIDE DEF c1
  <2>3. [[c |-> c1, jobs |-> s.jobs] EXCEPT !.c["pendingRefresh"] = yes] = [c |-> c2, jobs |-> s.jobs]
    BY <2>1
  <2>4. [s EXCEPT !.c["deferred"] = ds, !.c["pendingRefresh"] = yes]
          = [[s EXCEPT !.c["deferred"] = ds] EXCEPT !.c["pendingRefresh"] = yes]
    OBVIOUS
  <2>5. QED
    BY <2>2, <2>3, <2>4
<1>5. c2 = d
  <2>1. c1 = [f \in CoreFields |-> IF f = "deferred" THEN ds ELSE s.c[f]]
    BY <1>2
  <2> HIDE DEF c1
  <2>2. DOMAIN c1 = CoreFields
    BY <2>1
  <2>3. c2 = [f \in CoreFields |-> IF f = "pendingRefresh" THEN yes ELSE c1[f]]
    BY <2>2
  <2> HIDE DEF c2
  <2>4. QED
    BY <2>1, <2>3
<1> HIDE DEF c1, c2, t
<1>6. t.c = d /\ t.jobs = s.jobs /\ t = [c |-> t.c, jobs |-> t.jobs]
  BY <1>3, <1>4, <1>5
<1>7. /\ HasCore(d) /\ d.deferred = ds /\ d.pendingRefresh = yes
      /\ \A f \in CoreFields \ {"deferred", "pendingRefresh"} : d[f] = s.c[f]
  BY DEF HasCore, CoreFields
<1> HIDE DEF d
<1>8. d.inFlight = s.c.inFlight /\ d.snapshotEvents = s.c.snapshotEvents
  BY <1>7 DEF CoreFields
<1>9. Whole(log, n, t, x)
  BY <1>1, <1>6, <1>7, <1>8 DEF Whole, JobsApart
<1>10. QED
  BY <1>6, <1>7, <1>9 DEF t, ds, yes, Alike, Pends, Defers

\* New targets are shown at once.
LEMMA NewTargetsWhole ==
  ASSUME NEW n, NEW x, NEW s, NEW m, Whole(log, n, s, x), Len(log) \in Nat, n \in 0 .. Len(log)
  PROVE  LET t == NewTargets(s, m)
         IN /\ Whole(log, n, t, x)
            /\ t.c.committed = VersionAt(log[m], m)
            /\ Alike(s.c, t.c, ShownFields \ {"committed"})
<1> DEFINE no == FALSE
           latest == VersionAt(log[m], m)
           a == [s EXCEPT !.c.committed = latest, !.c.scopedAt = Nothing, !.c.lost = no]
           moved == ClearFiles(a)
           sup == SupersedeOpeningContent(moved, log[m])
           fl == ListFiles(sup)
           t == NewTargets(s, m)
<1>1. /\ s = [c |-> s.c, jobs |-> s.jobs] /\ HasCore(s.c) /\ IsFiniteSet(DOMAIN s.c.inFlight)
      /\ JobsApart(log, n, s) /\ Awaits(log, n, s.c.snapshotEvents, s.jobs, x)
  BY DEF Whole
<1>2. t = ListCommits(fl)
  BY DEF NewTargets
<1> HIDE DEF t, latest, no
<1> DEFINE c1 == [s.c EXCEPT !["committed"] = latest]
           c2 == [c1 EXCEPT !["scopedAt"] = Nothing]
           c3 == [c2 EXCEPT !["lost"] = no]
<1>3. a = [c |-> c3, jobs |-> s.jobs]
  <2>1. ASSUME NEW c, NEW js, NEW h, NEW y
        PROVE  [[c |-> c, jobs |-> js] EXCEPT !.c[h] = y] = [c |-> [c EXCEPT ![h] = y], jobs |-> js]
    OBVIOUS
  <2>2. [s EXCEPT !.c["committed"] = latest] = [c |-> c1, jobs |-> s.jobs]
    BY <1>1, <2>1
  <2> HIDE DEF c1
  <2>3. [[c |-> c1, jobs |-> s.jobs] EXCEPT !.c["scopedAt"] = Nothing] = [c |-> c2, jobs |-> s.jobs]
    BY <2>1
  <2> HIDE DEF c2
  <2>4. [[c |-> c2, jobs |-> s.jobs] EXCEPT !.c["lost"] = no] = [c |-> c3, jobs |-> s.jobs]
    BY <2>1
  <2>5. a = [[[s EXCEPT !.c["committed"] = latest] EXCEPT !.c["scopedAt"] = Nothing] EXCEPT !.c["lost"] = no]
    OBVIOUS
  <2>6. QED
    BY <2>2, <2>3, <2>4, <2>5
<1>4. c3 = [f \in CoreFields |-> IF f = "lost" THEN no ELSE IF f = "scopedAt" THEN Nothing
                                 ELSE IF f = "committed" THEN latest ELSE s.c[f]]
  <2>1. DOMAIN s.c = CoreFields
    BY <1>1 DEF HasCore
  <2>2. c1 = [f \in CoreFields |-> IF f = "committed" THEN latest ELSE s.c[f]]
    BY <2>1
  <2> HIDE DEF c1
  <2>3. DOMAIN c1 = CoreFields
    BY <2>2
  <2>4. c2 = [f \in CoreFields |-> IF f = "scopedAt" THEN Nothing ELSE c1[f]]
    BY <2>3
  <2> HIDE DEF c2
  <2>5. DOMAIN c2 = CoreFields
    BY <2>4
  <2>6. c3 = [f \in CoreFields |-> IF f = "lost" THEN no ELSE c2[f]]
    BY <2>5
  <2> HIDE DEF c3
  <2>7. QED
    BY <2>2, <2>4, <2>6
<1> HIDE DEF c1, c2, c3, a
<1>5. /\ HasCore(c3) /\ c3.committed = latest /\ c3.inFlight = s.c.inFlight /\ c3.snapshotEvents = s.c.snapshotEvents
      /\ \A f \in ShownFields \ {"committed"} : c3[f] = s.c[f]
  <2>1. HasCore(c3)
    BY <1>4 DEF HasCore
  <2>2. QED
    BY <1>4, <2>1 DEF CoreFields, ShownFields
<1>6. a.c = c3 /\ a.jobs = s.jobs /\ a = [c |-> a.c, jobs |-> a.jobs]
  BY <1>3
<1>7. Whole(log, n, a, x)
  BY <1>1, <1>5, <1>6 DEF Whole, JobsApart
<1>8. Whole(log, n, moved, x) /\ SameShown(a.c, moved.c)
  <2>1. Merely(a, moved)
    BY <1>5, <1>6, FilesMerely
  <2> HIDE DEF moved
  <2>2. QED
    BY <1>7, <2>1, MerelyKeeps
<1> HIDE DEF moved
<1>9. Whole(log, n, sup, x) /\ SameShown(moved.c, sup.c)
  BY <1>8, SupersedeWhole
<1> HIDE DEF sup
<1>10. Whole(log, n, fl, x) /\ SameShown(sup.c, fl.c)
  BY <1>9, ListsWhole
<1> HIDE DEF fl
<1>11. Whole(log, n, t, x) /\ SameShown(fl.c, t.c)
  BY <1>2, <1>10, ListsWhole
<1>12. SameShown(a.c, t.c)
  BY <1>8, <1>9, <1>10, <1>11 DEF SameShown
<1>13. t.c.committed = latest /\ Alike(s.c, t.c, ShownFields \ {"committed"})
  BY <1>5, <1>6, <1>12 DEF SameShown, ShownFields, Alike
<1>14. QED
  BY <1>11, <1>13 DEF t, latest

\* An event handled while no draft is open: of the open review, it moves the targets.
LEMMA AppliedWhole ==
  ASSUME NEW n, NEW k, NEW x, NEW s, NEW m, Whole(log, n, s, x), n \in Nat, k \in Nat, n <= k, m \in 1 .. k,
         \A i \in (n + 1) .. k : i = m, Len(log) \in Nat, k <= Len(log)
  PROVE  LET t == ApplyEvent(s, m)
         IN /\ Whole(log, k, t, x)
            /\ s.c.open # log[m] => SameShown(s.c, t.c) /\ Alike(s.c, t.c, CoreFields \ {"snapshotEvents"})
            /\ s.c.open = log[m] /\ ~s.c.draft =>
                 /\ t.c.committed = VersionAt(log[m], m)
                 /\ Alike(s.c, t.c, ShownFields \ {"committed"})
            /\ s.c.open = log[m] /\ s.c.draft =>
                 /\ Defers(s.c, t.c, m) /\ Pends(t.c)
                 /\ Alike(s.c, t.c, CoreFields \ {"deferred", "pendingRefresh", "snapshotEvents"})
<1> DEFINE kept == KeepForSnapshots(s, m)
           t == ApplyEvent(s, m)
<1>1. Whole(log, k, kept, x) /\ SameShown(s.c, kept.c) /\ Alike(s.c, kept.c, CoreFields \ {"snapshotEvents"})
  BY KeptWhole
<1>2. t = IF s.c.open # log[m] THEN kept ELSE IF s.c.draft THEN HoldBack(kept, m) ELSE NewTargets(kept, m)
  BY DEF ApplyEvent
<1> HIDE DEF kept, t
<1>3. CASE s.c.open # log[m]
  BY <1>1, <1>2, <1>3 DEF t
<1>4. CASE s.c.open = log[m] /\ ~s.c.draft
  <2>1. t = NewTargets(kept, m) /\ k \in 0 .. Len(log)
    BY <1>2, <1>4
  <2>2. /\ Whole(log, k, t, x) /\ t.c.committed = VersionAt(log[m], m)
        /\ Alike(kept.c, t.c, ShownFields \ {"committed"})
    BY <1>1, <2>1, NewTargetsWhole
  <2>3. Alike(s.c, t.c, ShownFields \ {"committed"})
    BY <1>1, <2>2 DEF SameShown, Alike
  <2>4. QED
    BY <1>4, <2>2, <2>3 DEF t
<1>5. CASE s.c.open = log[m] /\ s.c.draft
  <2>1. t = HoldBack(kept, m)
    BY <1>2, <1>5
  <2>2. /\ Whole(log, k, t, x) /\ Defers(kept.c, t.c, m) /\ Pends(t.c)
        /\ Alike(kept.c, t.c, CoreFields \ {"deferred", "pendingRefresh"})
    BY <1>1, <2>1, HoldBackWhole
  <2>3. kept.c.deferred = s.c.deferred
    BY <1>1 DEF CoreFields, Alike
  <2>4. Alike(s.c, t.c, CoreFields \ {"deferred", "pendingRefresh", "snapshotEvents"})
    BY <1>1, <2>2 DEF Alike
  <2>5. Defers(s.c, t.c, m)
    BY <2>2, <2>3 DEF Defers
  <2>6. QED
    BY <1>5, <2>2, <2>4, <2>5 DEF t
<1>6. QED
  BY <1>3, <1>4, <1>5

\* The next event of the feed.
LEMMA EventHeld ==
  ASSUME NEW n \in Nat, NEW s, Held(log, n, s, {}), Len(log) \in Nat, n + 1 <= Len(log)
  PROVE  Held(log, n + 1, ApplyEvent(s, n + 1), {})
<1> DEFINE m == n + 1
           t == ApplyEvent(s, m)
           o == s.c.open
<1>1. /\ Whole(log, m, t, {})
      /\ o # log[m] => SameShown(s.c, t.c)
      /\ o = log[m] /\ ~s.c.draft =>
           t.c.committed = VersionAt(log[m], m) /\ Alike(s.c, t.c, ShownFields \ {"committed"})
      /\ o = log[m] /\ s.c.draft =>
           /\ Defers(s.c, t.c, m) /\ Pends(t.c)
           /\ Alike(s.c, t.c, CoreFields \ {"deferred", "pendingRefresh", "snapshotEvents"})
  <2>1. Whole(log, n, s, {}) /\ m \in Nat /\ n <= m /\ m \in 1 .. m /\ \A i \in (n + 1) .. m : i = m
    BY DEF Held
  <2> HIDE DEF m
  <2>2. m <= Len(log)
    BY DEF m
  <2>3. QED
    BY <2>1, <2>2, AppliedWhole
<1>2. Recent(log, n, s.c)
  BY DEF Held
<1>3. s.c.deferred \in Seq(1 .. n) /\ s.c.deferred \in Seq(1 .. m)
  <2>1. s.c.deferred \in Seq(1 .. n)
    BY <1>2 DEF Recent
  <2>2. 1 .. n \subseteq 1 .. m
    OBVIOUS
  <2>3. QED
    BY <2>1, <2>2
<1>4. m \in Nat /\ VersionAt(log[m], m) = Version(log, log[m], m) /\ Version(log, log[m], m) \in Nat
  BY VersionIs, VersionNumber
<1> HIDE DEF t
<1>5. CASE o # log[m]
  <2>1. /\ t.c.open = o /\ t.c.committed = s.c.committed /\ t.c.deferred = s.c.deferred /\ t.c.draft = s.c.draft
        /\ t.c.pendingRefresh = s.c.pendingRefresh
    BY <1>1, <1>5 DEF SameShown, ShownFields
  <2>2. Version(log, o, m) = Version(log, o, n)
    BY <1>5, VersionOther
  <2> HIDE DEF m, o
  <2>3. Recent(log, m, t.c)
    BY <1>2, <1>3, <2>1, <2>2 DEF Recent, o
  <2>4. QED
    BY <1>1, <2>3 DEF Held, t, m
<1>6. CASE o = log[m] /\ ~s.c.draft
  <2>1. s.c.deferred = <<>>
    BY <1>2, <1>6 DEF Recent
  <2>2. t.c.committed = Version(log, log[m], m) /\ t.c.open = o /\ t.c.deferred = <<>>
    BY <1>1, <1>4, <1>6, <2>1 DEF ShownFields, Alike
  <2>3. t.c.committed >= Version(log, t.c.open, m)
    BY <1>4, <1>6, <2>2
  <2> HIDE DEF m, o
  <2>4. Recent(log, m, t.c)
    BY <2>2, <2>3 DEF Recent
  <2>5. QED
    BY <1>1, <2>4 DEF Held, t, m
<1>7. CASE o = log[m] /\ s.c.draft
  <2>1. /\ Defers(s.c, t.c, m) /\ Pends(t.c) /\ t.c.open = o /\ t.c.draft = s.c.draft
    BY <1>1, <1>7 DEF CoreFields, Alike
  <2>2. m \in 1 .. m
    BY <1>4
  <2>3. \A i \in 1 .. Len(s.c.deferred) : log[s.c.deferred[i]] = o
    <3>1. CASE s.c.deferred = <<>>
      BY <3>1
    <3>2. CASE s.c.deferred # <<>>
      BY <1>2, <3>2 DEF Recent
    <3>3. QED
      BY <3>1, <3>2
  <2> DEFINE ds == t.c.deferred
  <2> HIDE DEF m, o
  <2>4. ds \in Seq(1 .. m) /\ Len(ds) = Len(s.c.deferred) + 1 /\ ds[Len(ds)] = m /\ ds # <<>>
        /\ \A i \in 1 .. Len(s.c.deferred) : ds[i] = s.c.deferred[i]
    <3> DEFINE q == s.c.deferred
    <3>1. q \in Seq(1 .. m) /\ ds = Append(q, m)
      BY <1>3, <2>1 DEF Defers
    <3> HIDE DEF q, ds
    <3>2. ds \in Seq(1 .. m) /\ Len(ds) = Len(q) + 1 /\ ds[Len(ds)] = m /\ \A i \in 1 .. Len(q) : ds[i] = q[i]
      BY <2>2, <3>1
    <3>3. Len(q) \in Nat
      BY <3>1
    <3>4. ds # <<>>
      BY <3>2, <3>3
    <3>5. QED
      BY <3>2, <3>4 DEF q
  <2>5. Len(s.c.deferred) \in Nat
    BY <1>3
  <2>6. \A i \in 1 .. Len(ds) : log[ds[i]] = o
    <3> TAKE i \in 1 .. Len(ds)
    <3>1. i = Len(ds) \/ i \in 1 .. Len(s.c.deferred)
      BY <2>4, <2>5
    <3>2. QED
      BY <1>7, <2>3, <2>4, <3>1
  <2>7. Version(log, o, ds[Len(ds)]) >= Version(log, o, m)
    <3>1. Version(log, o, m) \in Nat
      BY <1>4, VersionNumber
    <3>2. QED
      BY <2>4, <3>1
  <2>8. Recent(log, m, t.c)
    BY <1>7, <2>1, <2>4, <2>6, <2>7 DEF Recent, Pends
  <2>9. QED
    BY <1>1, <2>8 DEF Held, t, m
<1>8. QED
  BY <1>5, <1>6, <1>7

\* When the draft ends, what it held back is applied: the last of it is the newest.
LEMMA DrainHeld ==
  ASSUME NEW n \in Nat, NEW s, Held(log, n, s, {}), Len(log) \in Nat, n <= Len(log)
  PROVE  Held(log, n, DrainDeferred([s EXCEPT !.c.draft = FALSE]), {})
<1> DEFINE no == FALSE
           none == <<>>
           c1 == [s.c EXCEPT !["draft"] = no]
           c2 == [c1 EXCEPT !["deferred"] = none]
           c3 == [c2 EXCEPT !["pendingRefresh"] = no]
           ended == [s EXCEPT !.c.draft = FALSE]
           s0 == [c |-> c3, jobs |-> s.jobs]
           ds == s.c.deferred
           o == s.c.open
           t == DrainDeferred(ended)
<1>1. /\ s = [c |-> s.c, jobs |-> s.jobs] /\ HasCore(s.c) /\ IsFiniteSet(DOMAIN s.c.inFlight)
      /\ JobsApart(log, n, s) /\ Awaits(log, n, s.c.snapshotEvents, s.jobs, {}) /\ Recent(log, n, s.c)
  BY DEF Held, Whole
<1>2. ended = [c |-> c1, jobs |-> s.jobs] /\ ended.c.deferred = ds
  <2>1. ended = [c |-> c1, jobs |-> s.jobs]
    <3>1. ASSUME NEW c, NEW js, NEW h, NEW y
          PROVE  [[c |-> c, jobs |-> js] EXCEPT !.c[h] = y] = [c |-> [c EXCEPT ![h] = y], jobs |-> js]
      OBVIOUS
    <3>2. ended = [s EXCEPT !.c["draft"] = no]
      OBVIOUS
    <3> HIDE DEF no, ended
    <3>3. [s EXCEPT !.c["draft"] = no] = [c |-> c1, jobs |-> s.jobs]
      BY <1>1, <3>1
    <3>4. QED
      BY <3>2, <3>3
  <2>2. c1.deferred = ds
    BY <1>1 DEF HasCore, CoreFields
  <2>3. QED
    BY <2>1, <2>2
<1>3. t = FoldLeft(ApplyEvent, s0, ds)
  <2>1. t = FoldLeft(ApplyEvent, [ended EXCEPT !.c.deferred = none, !.c.pendingRefresh = no], ended.c.deferred)
    BY DEF DrainDeferred
  <2>2. [ended EXCEPT !.c.deferred = none, !.c.pendingRefresh = no] = s0
    <3>1. ASSUME NEW c, NEW js, NEW h, NEW y
          PROVE  [[c |-> c, jobs |-> js] EXCEPT !.c[h] = y] = [c |-> [c EXCEPT ![h] = y], jobs |-> js]
      OBVIOUS
    <3> HIDE DEF no, none
    <3>2. [ended EXCEPT !.c.deferred = none, !.c.pendingRefresh = no]
            = [[ended EXCEPT !.c["deferred"] = none] EXCEPT !.c["pendingRefresh"] = no]
      OBVIOUS
    <3> HIDE DEF ended, c1
    <3>3. [ended EXCEPT !.c["deferred"] = none] = [c |-> c2, jobs |-> s.jobs]
      BY <1>2, <3>1
    <3> HIDE DEF c2
    <3>4. [[c |-> c2, jobs |-> s.jobs] EXCEPT !.c["pendingRefresh"] = no] = s0
      BY <3>1
    <3>5. QED
      BY <3>2, <3>3, <3>4
  <2> HIDE DEF s0, ended, t
  <2>3. QED
    BY <1>2, <2>1, <2>2
<1> HIDE DEF t, ended
<1>4. c3 = [f \in CoreFields |-> IF f = "pendingRefresh" THEN no ELSE IF f = "deferred" THEN none
                                 ELSE IF f = "draft" THEN no ELSE s.c[f]]
  <2> HIDE DEF no, none
  <2>1. DOMAIN s.c = CoreFields
    BY <1>1 DEF HasCore
  <2>2. c1 = [f \in CoreFields |-> IF f = "draft" THEN no ELSE s.c[f]]
    BY <2>1
  <2> HIDE DEF c1
  <2>3. DOMAIN c1 = CoreFields
    BY <2>2
  <2>4. c2 = [f \in CoreFields |-> IF f = "deferred" THEN none ELSE c1[f]]
    BY <2>3
  <2> HIDE DEF c2
  <2>5. DOMAIN c2 = CoreFields
    BY <2>4
  <2>6. c3 = [f \in CoreFields |-> IF f = "pendingRefresh" THEN no ELSE c2[f]]
    BY <2>5
  <2> HIDE DEF c3
  <2>7. QED
    BY <2>2, <2>4, <2>6
<1> HIDE DEF c1, c2, c3
<1>5. /\ HasCore(c3) /\ c3.open = o /\ c3.committed = s.c.committed /\ c3.deferred = <<>> /\ ~c3.draft
      /\ c3.inFlight = s.c.inFlight /\ c3.snapshotEvents = s.c.snapshotEvents
  <2>1. HasCore(c3)
    BY <1>4 DEF HasCore
  <2>2. QED
    BY <1>4, <2>1 DEF CoreFields
<1> HIDE DEF no, none
<1>6. s0.c = c3 /\ s0.jobs = s.jobs /\ s0 = [c |-> s0.c, jobs |-> s0.jobs]
  OBVIOUS
<1> HIDE DEF s0
<1>7. Whole(log, n, s0, {})
  BY <1>1, <1>5, <1>6 DEF Whole, JobsApart
<1>8. ds \in Seq(1 .. n) /\ Len(ds) \in Nat /\ DOMAIN ds = 1 .. Len(ds)
  BY <1>1 DEF Recent
<1>9. PICK h : DrainsOn(h, s0, ds) /\ FoldLeft(ApplyEvent, s0, ds) = h[Len(ds)]
  BY <1>8, DrainFollows
<1> DEFINE Drained(u, k) ==
             /\ Whole(log, n, u, {}) /\ u.c.open = o /\ ~u.c.draft /\ u.c.deferred = <<>>
             /\ k > 0 => u.c.committed = Version(log, o, ds[k])
           T == {k \in Nat : k <= Len(ds) => Drained(h[k], k)}
<1> HIDE DEF ds, o
<1>10. 0 \in T
  BY <1>5, <1>6, <1>7, <1>9 DEF DrainsOn
<1>11. ASSUME NEW k \in Nat, k \in T PROVE k + 1 \in T
  <2> SUFFICES ASSUME k + 1 <= Len(ds) PROVE Drained(h[k + 1], k + 1)
    OBVIOUS
  <2> DEFINE m == ds[k + 1]
             u == h[k]
             v == ApplyEvent(u, m)
  <2>1. Drained(u, k) /\ h[k + 1] = v
    <3>1. k <= Len(ds) /\ k \in 0 .. (Len(ds) - 1)
      BY <1>8
    <3>2. Drained(h[k], k)
      BY <1>11, <3>1
    <3>3. h[k + 1] = ApplyEvent(h[k], ds[k + 1])
      BY <1>9, <3>1 DEF DrainsOn
    <3>4. QED
      BY <3>2, <3>3
  <2>2. m \in 1 .. n /\ log[m] = o
    <3>1. k + 1 \in 1 .. Len(ds) /\ ds # <<>>
      BY <1>8
    <3>2. log[ds[k + 1]] = o
      BY <1>1, <3>1 DEF Recent, ds, o
    <3>3. QED
      BY <1>8, <3>1, <3>2
  <2>3. VersionAt(log[m], m) = Version(log, o, m)
    BY <2>2, VersionIs
  <2> HIDE DEF m, u
  <2>4. /\ Whole(log, n, v, {}) /\ v.c.committed = VersionAt(log[m], m)
        /\ Alike(u.c, v.c, ShownFields \ {"committed"})
    <3>1. n <= n /\ (\A i \in (n + 1) .. n : i = m) /\ u.c.open = log[m] /\ ~u.c.draft
      BY <2>1, <2>2
    <3>2. Whole(log, n, u, {}) /\ m \in 1 .. n
      BY <2>1, <2>2
    <3> HIDE DEF v, Drained, T
    <3>3. /\ Whole(log, n, ApplyEvent(u, m), {})
          /\ u.c.open = log[m] /\ ~u.c.draft =>
               /\ ApplyEvent(u, m).c.committed = VersionAt(log[m], m)
               /\ Alike(u.c, ApplyEvent(u, m).c, ShownFields \ {"committed"})
      BY <3>1, <3>2, AppliedWhole
    <3>4. QED
      BY <3>1, <3>3 DEF v
  <2> HIDE DEF v
  <2>5. v.c.open = o /\ v.c.draft = u.c.draft /\ v.c.deferred = <<>>
    BY <2>1, <2>4 DEF Alike, ShownFields
  <2>6. Drained(v, k + 1)
    BY <2>1, <2>3, <2>4, <2>5 DEF m
  <2>7. QED
    BY <2>1, <2>6
<1>12. Len(ds) \in T
  <2> HIDE DEF T
  <2>1. QED
    BY <1>8, <1>10, <1>11, NaturalsByStep
<1>13. Drained(t, Len(ds))
  BY <1>3, <1>8, <1>9, <1>12
<1>14. Recent(log, n, t.c)
  <2>1. t.c.deferred = <<>> /\ t.c.open = o
    BY <1>13
  <2>2. CASE ds = <<>>
    <3>1. Len(ds) = 0
      BY <2>2
    <3>2. t = s0
      BY <1>3, <1>9, <3>1 DEF DrainsOn
    <3>3. QED
      BY <1>1, <1>5, <1>6, <2>2, <3>2 DEF Recent, ds, o
  <2>3. CASE ds # <<>>
    <3>1. Len(ds) > 0
      BY <1>8, <2>3
    <3>2. t.c.committed = Version(log, o, ds[Len(ds)])
      BY <1>13, <3>1
    <3>3. Version(log, o, ds[Len(ds)]) >= Version(log, o, n)
      BY <1>1, <2>3 DEF Recent, ds, o
    <3>4. QED
      BY <2>1, <3>2, <3>3 DEF Recent
  <2>4. QED
    BY <2>2, <2>3
<1>15. QED
  BY <1>13, <1>14 DEF Held, t, ended

-----------------------------------------------------------------------------
(* The shown review: what the daemon answers.                              *)

\* What shows the same targets is as recent.
LEMMA HeldShown ==
  ASSUME NEW l, NEW n, NEW x, NEW s, NEW t, Held(l, n, s, x), Whole(l, n, t, x), SameShown(s.c, t.c)
  PROVE  Held(l, n, t, x)
  BY RecentShown DEF Held

\* Such a handler keeps what is shown, too.
LEMMA MerelyHeld ==
  ASSUME NEW l, NEW n, NEW x, NEW s, NEW t, Held(l, n, s, x), Merely(s, t)
  PROVE  Held(l, n, t, x)
  BY HeldShown, MerelyKeeps DEF Held

\* So does the retiring of a request.
LEMMA RetireHeld ==
  ASSUME NEW n, NEW s, NEW id, Held(log, n, s, {})
  PROVE  Held(log, n, Retire(s, id), {})
<1>1. Whole(log, n, s, {}) /\ Recent(log, n, s.c)
  BY DEF Held
<1>2. Whole(log, n, Retire(s, id), {}) /\ SameShown(s.c, Retire(s, id).c)
  BY <1>1, RetireWhole
<1>3. QED
  BY <1>1, <1>2, RecentShown DEF Held

\* That something was lost is history, and changes nothing that is shown.
LEMMA SomethingLost ==
  ASSUME NEW n, NEW s, Held(log, n, s, {}), NEW v
  PROVE  Held(log, n, [s EXCEPT !.c.lost = v], {})
<1>1. s = [c |-> s.c, jobs |-> s.jobs] /\ HasCore(s.c)
  BY DEF Held, Whole
<1>2. "lost" \in CoreFields \ (SteadyFields \cup {"inFlight"})
  BY DEF CoreFields, SteadyFields
<1>3. Merely(s, [s EXCEPT !.c["lost"] = v])
  BY <1>1, <1>2, MerelySets
<1>4. QED
  BY <1>3, MerelyHeld

\* A job that has been read awaits nothing, and one may be dropped.
LEMMA JobMoves ==
  ASSUME NEW n, NEW s, Held(log, n, s, {}), NEW j \in s.jobs, NEW on, HasJob(log, on), on.id = j.id, ~Opens(on)
  PROVE  /\ Held(log, n, [s EXCEPT !.jobs = (@ \ {j}) \cup {on}], {})
         /\ Held(log, n, [s EXCEPT !.jobs = @ \ {j}], {})
<1>1. /\ s = [c |-> s.c, jobs |-> s.jobs] /\ HasCore(s.c) /\ IsFiniteSet(DOMAIN s.c.inFlight)
      /\ JobsApart(log, n, s) /\ Awaits(log, n, s.c.snapshotEvents, s.jobs, {}) /\ Recent(log, n, s.c)
  BY DEF Held, Whole
<1> DEFINE less == s.jobs \ {j}
           more == less \cup {on}
<1>2. [s EXCEPT !.jobs = (@ \ {j}) \cup {on}] = [c |-> s.c, jobs |-> more]
      /\ [s EXCEPT !.jobs = @ \ {j}] = [c |-> s.c, jobs |-> less]
  BY <1>1
<1>3. IsFiniteSet(less) /\ IsFiniteSet(more)
  <2>1. IsFiniteSet(less)
    BY <1>1, FS_RemoveElement DEF JobsApart
  <2> HIDE DEF less
  <2>2. QED
    BY <2>1, FS_AddElement
<1>4. less \subseteq s.jobs /\ \A i \in more : i = on \/ (i \in s.jobs /\ i.id # j.id)
  BY <1>1 DEF JobsApart
<1> HIDE DEF less, more
<1>5. JobsApart(log, n, [c |-> s.c, jobs |-> less]) /\ JobsApart(log, n, [c |-> s.c, jobs |-> more])
  BY <1>1, <1>3, <1>4 DEF JobsApart
<1>6. Awaits(log, n, s.c.snapshotEvents, less, {}) /\ Awaits(log, n, s.c.snapshotEvents, more, {})
  BY <1>1, <1>4 DEF Awaits
<1>7. QED
  BY <1>1, <1>2, <1>5, <1>6 DEF Held, Whole

\* What a job that awaits its snapshot will find.
LEMMA JobAwaits ==
  ASSUME NEW n, NEW s, Held(log, n, s, {}), NEW j \in s.jobs
  PROVE  /\ HasJob(log, j) /\ j.at \in Nat
         /\ Opens(j) => Remembered(log, n, s.c.snapshotEvents, j)
         /\ \A i \in s.jobs : i.id = j.id => i = j
<1>1. JobsApart(log, n, s) /\ Awaits(log, n, s.c.snapshotEvents, s.jobs, {})
  BY DEF Held, Whole
<1>2. QED
  BY <1>1 DEF JobsApart, Awaits, HasJob

\* A snapshot in answer to a request.
LEMMA SnapshotHeld ==
  ASSUME NEW n, NEW s, Held(log, n, s, {}), NEW j \in s.jobs, Opens(j), NEW at \in Nat, j.at <= at,
         Len(log) \in Nat, n \in 0 .. Len(log)
  PROVE  Held(log, n, SnapshotAnswer(s, j, at), {})
<1> DEFINE a == InstallSnapshot(s, j.id, j.review, at)
           b == ListFiles(a)
<1>1. j.at \in Nat /\ Remembered(log, n, s.c.snapshotEvents, j)
  BY JobAwaits
<1>2. Whole(log, n, s, {j.id})
  <2>1. Awaits(log, n, s.c.snapshotEvents, s.jobs, {j.id})
    BY DEF Held, Whole, Awaits
  <2>2. QED
    BY <2>1 DEF Held, Whole
<1>3. Held(log, n, a, {j.id})
  <2>1. \A i \in s.jobs : Opens(i) /\ i.id \notin {j.id} => i.id # j.id
    OBVIOUS
  <2>2. QED
    BY <1>1, <1>2, <2>1, InstallHeld
<1> HIDE DEF a
<1>4. Whole(log, n, b, {j.id}) /\ SameShown(a.c, b.c)
  BY <1>3, ListsWhole DEF Held
<1> HIDE DEF b
<1>5. Whole(log, n, Retire(b, j.id), {}) /\ SameShown(b.c, Retire(b, j.id).c)
  BY <1>4, RetireWhole
<1>6. Recent(log, n, Retire(b, j.id).c)
  <2>1. Recent(log, n, b.c)
    BY <1>3, <1>4, RecentShown DEF Held
  <2>2. QED
    BY <1>5, <2>1, RecentShown
<1>7. Held(log, n, Retire(b, j.id), {})
  BY <1>5, <1>6 DEF Held
<1>8. Held(log, n, Retire(s, j.id), {})
  BY RetireHeld
<1>9. SnapshotAnswer(s, j, at) = Retire(s, j.id) \/ SnapshotAnswer(s, j, at) = Retire(b, j.id)
  BY DEF SnapshotAnswer, a, b
<1>10. QED
  BY <1>7, <1>8, <1>9

\* The first item of an opening stream.
LEMMA StreamedHeld ==
  ASSUME NEW n, NEW s, Held(log, n, s, {}), NEW j, Remembered(log, n, s.c.snapshotEvents, j), NEW at \in Nat,
         j.at \in Nat, j.at <= at, \A i \in s.jobs : i.id = j.id => ~Opens(i),
         Len(log) \in Nat, n \in 0 .. Len(log)
  PROVE  Held(log, n, StreamedSnapshot(s, j, at), {})
<1> DEFINE a == InstallSnapshot(s, j.id, j.review, at)
           current == a.c.committed = VersionAt(j.review, at)
           b == IF current THEN a ELSE ListFiles(a)
           how == IF current THEN "Streaming" ELSE "Superseded"
           fl == [b.c.inFlight EXCEPT ![j.id].content = how]
           d == [b.c EXCEPT !["inFlight"] = fl]
           t == StreamedSnapshot(s, j, at)
<1>1. Held(log, n, a, {})
  <2>1. \A i \in s.jobs : Opens(i) /\ i.id \notin {} => i.id # j.id
    OBVIOUS
  <2>2. Whole(log, n, s, {})
    BY DEF Held
  <2>3. QED
    BY <2>1, <2>2, InstallHeld
<1>2. t = [b EXCEPT !.c.inFlight[j.id].content = how]
  BY DEF StreamedSnapshot
<1> HIDE DEF a, t
<1>3. Held(log, n, b, {})
  <2>1. Whole(log, n, ListFiles(a), {}) /\ SameShown(a.c, ListFiles(a).c)
    BY <1>1, ListsWhole DEF Held
  <2>2. Held(log, n, ListFiles(a), {})
    BY <1>1, <2>1, HeldShown
  <2>3. QED
    BY <1>1, <2>2
<1> HIDE DEF b, how
<1>4. b = [c |-> b.c, jobs |-> b.jobs] /\ HasCore(b.c) /\ IsFiniteSet(DOMAIN b.c.inFlight)
  BY <1>3 DEF Held, Whole
<1>5. t = [c |-> d, jobs |-> b.jobs]
  <2>1. [b EXCEPT !.c.inFlight[j.id].content = how] = [c |-> d, jobs |-> b.jobs]
    BY <1>4
  <2>2. QED
    BY <1>2, <2>1
<1>6. DOMAIN fl = DOMAIN b.c.inFlight
  OBVIOUS
<1> HIDE DEF fl
<1>7. Steady(b.c, d)
  <2>1. DOMAIN b.c = CoreFields
    BY <1>4 DEF HasCore
  <2>2. d = [f \in CoreFields |-> IF f = "inFlight" THEN fl ELSE b.c[f]]
    BY <2>1
  <2> HIDE DEF d
  <2>3. HasCore(d) /\ d.inFlight = fl
    BY <2>2 DEF HasCore, CoreFields
  <2>4. \A f \in SteadyFields : d[f] = b.c[f]
    BY <2>2 DEF CoreFields, SteadyFields
  <2>5. QED
    BY <1>4, <1>6, <2>3, <2>4 DEF Steady
<1> HIDE DEF d
<1>8. Merely(b, t)
  BY <1>5, <1>7 DEF Merely
<1>9. QED
  BY <1>3, <1>8, MerelyHeld DEF t

\* Headers that arrive, or are passed over, change no targets.
LEMMA HeadersHeld ==
  ASSUME NEW n, NEW s, Held(log, n, s, {}), NEW j, NEW render
  PROVE  Held(log, n, StreamedHeader(s, j, render), {}) /\ Held(log, n, Overtaken(s, j), {})
         /\ Held(log, n, StreamEnd(s, j), {})
<1>1. s = [c |-> s.c, jobs |-> s.jobs] /\ HasCore(s.c) /\ DOMAIN s.c = CoreFields
  BY DEF Held, Whole, HasCore
<1>2. Held(log, n, Overtaken(s, j), {})
  <2> DEFINE v == s.c.lost \/ (s.c.open = j.review /\ s.c.inFlight[j.id].content = "Streaming")
  <2>1. Overtaken(s, j) = [s EXCEPT !.c.lost = v]
    BY DEF Overtaken
  <2> HIDE DEF v
  <2>2. QED
    BY <2>1, SomethingLost
<1>3. Held(log, n, StreamedHeader(s, j, render), {})
  <2> DEFINE v == s.c.lost \/ render.opts # s.c.opts
             fs == Append(s.c.files, render)
             t == [s EXCEPT !.c.files = fs, !.c.lost = v]
  <2>1. StreamedHeader(s, j, render) = s \/ StreamedHeader(s, j, render) = t
    <3>1. t = [s EXCEPT !.c.files = Append(@, render), !.c.lost = @ \/ render.opts # s.c.opts]
      BY <1>1 DEF CoreFields
    <3> HIDE DEF t
    <3>2. QED
      BY <3>1 DEF StreamedHeader
  <2> HIDE DEF v, fs
  <2>2. {"files", "lost"} \subseteq CoreFields \ (SteadyFields \cup {"inFlight"})
    BY DEF CoreFields, SteadyFields
  <2>3. Merely(s, [s EXCEPT !.c["files"] = fs, !.c["lost"] = v])
    BY <1>1, <2>2, MerelySets
  <2>4. Merely(s, t)
    BY <2>3
  <2> HIDE DEF t
  <2>5. QED
    BY <2>1, <2>4, MerelyHeld
<1>4. Held(log, n, StreamEnd(s, j), {})
  <2> DEFINE t == Retire(s, j.id)
  <2>1. Held(log, n, t, {})
    BY RetireHeld
  <2>2. StreamEnd(s, j) = t \/ StreamEnd(s, j) = AutoOpenFirst(t)
    BY DEF StreamEnd
  <2> HIDE DEF t
  <2>3. Merely(t, AutoOpenFirst(t))
    BY <2>1, FilesMerely DEF Held, Whole
  <2>4. QED
    BY <2>1, <2>2, <2>3, MerelyHeld
<1>5. QED
  BY <1>2, <1>3, <1>4

\* So do the answers of file lists, commit lists and searches.
LEMMA FilesHeld ==
  ASSUME NEW n, NEW s, Held(log, n, s, {}), NEW j, NEW at
  PROVE  Held(log, n, FilesAnswer(s, j, at), {})
<1>1. s = [c |-> s.c, jobs |-> s.jobs] /\ HasCore(s.c)
  BY DEF Held, Whole
<1> DEFINE v == VersionAt(j.review, at)
           y == IF j.scope # "All" THEN v ELSE s.c.scopedAt
           t == [s EXCEPT !.c.latestFiles = Nothing, !.c.scopedAt = y]
           u == ReviewFiles(t, Renders(j.review, v, j.scope, s.c.opts))
<1>2. FilesAnswer(s, j, at) = Retire(u, j.id) \/ FilesAnswer(s, j, at) = Retire(s, j.id)
  <2>1. t = [s EXCEPT !.c.latestFiles = Nothing, !.c.scopedAt = IF j.scope # "All" THEN v ELSE @]
    BY <1>1 DEF HasCore, CoreFields
  <2>2. QED
    BY <2>1 DEF FilesAnswer
<1> HIDE DEF v, y
<1>3. {"latestFiles", "scopedAt"} \subseteq CoreFields \ (SteadyFields \cup {"inFlight"})
  BY DEF CoreFields, SteadyFields
<1>4. Merely(s, [s EXCEPT !.c["latestFiles"] = Nothing, !.c["scopedAt"] = y])
  BY <1>1, <1>3, MerelySets
<1>5. Merely(s, t)
  BY <1>4
<1> HIDE DEF t
<1>6. Held(log, n, t, {}) /\ t = [c |-> t.c, jobs |-> t.jobs] /\ HasCore(t.c)
  BY <1>5, MerelyHeld DEF Held, Whole
<1>7. Merely(t, u)
  BY <1>6, FilesMerely
<1> HIDE DEF u
<1>8. Held(log, n, u, {})
  BY <1>6, <1>7, MerelyHeld
<1>9. QED
  BY <1>2, <1>8, RetireHeld

\* The answer of a commit list keeps what is shown, with the scope that may follow it.
LEMMA CommitsHeld ==
  ASSUME NEW n, NEW s, Held(log, n, s, {}), NEW j \in s.jobs, NEW at, Len(log) \in Nat, n \in 0 .. Len(log),
         j.kind \notin {"OpenReview", "ReviewSnapshot"}
  PROVE  Held(log, n, CommitsAnswer(s, j, at), {})
<1> DEFINE v == VersionAt(j.review, at)
           no == FALSE
           t0 == [s EXCEPT !.c.latestCommits = Nothing]
           t == [s EXCEPT !.c.latestCommits = Nothing, !.c.byCommit = no, !.c.stepper = v]
           done == [s EXCEPT !.jobs = @ \ {j}]
           t1 == [s EXCEPT !.c.latestCommits = Nothing, !.c.byCommit = no]
           u == ApplyScope(t, "Worktree")
<1>1. s = [c |-> s.c, jobs |-> s.jobs] /\ HasCore(s.c)
  BY DEF Held, Whole
<1>2. CommitsAnswer(s, j, at) \in {done, Retire(t0, j.id), Retire(t, j.id), Retire(u, j.id)}
  BY DEF CommitsAnswer
<1> HIDE DEF v, no
<1>3. {"latestCommits", "byCommit", "stepper"} \subseteq CoreFields \ (SteadyFields \cup {"inFlight"})
  BY DEF CoreFields, SteadyFields
<1>4. Held(log, n, done, {})
  <2>1. HasJob(log, j) /\ ~Opens(j)
    BY JobAwaits DEF Opens
  <2>2. QED
    BY <2>1, JobMoves
<1>5. Merely(s, [s EXCEPT !.c["latestCommits"] = Nothing]) /\ Merely(s, [s EXCEPT !.c["latestCommits"] = Nothing, !.c["byCommit"] = no])
  BY <1>1, <1>3, MerelySets
<1>6. Merely(s, t0) /\ Merely(s, t1)
  BY <1>5
<1>7. t = [t1 EXCEPT !.c["stepper"] = v]
  OBVIOUS
<1> HIDE DEF t0, t1, t, done
<1>8. Held(log, n, t0, {}) /\ Held(log, n, t1, {})
  BY <1>6, MerelyHeld
<1>9. Merely(t1, [t1 EXCEPT !.c["stepper"] = v])
  BY <1>3, <1>8, MerelySets DEF Held, Whole
<1>10. Held(log, n, t, {})
  BY <1>7, <1>8, <1>9, MerelyHeld
<1>11. Held(log, n, u, {})
  <2>1. Whole(log, n, u, {}) /\ SameShown(t.c, u.c)
    BY <1>10, ScopeWhole DEF Held
  <2>2. QED
    BY <1>10, <2>1, HeldShown
<1> HIDE DEF u
<1>12. Held(log, n, Retire(t0, j.id), {}) /\ Held(log, n, Retire(t, j.id), {}) /\ Held(log, n, Retire(u, j.id), {})
  BY <1>8, <1>10, <1>11, RetireHeld
<1>13. QED
  BY <1>2, <1>4, <1>12

\* The answer of a search keeps what is shown.
LEMMA SearchHeld ==
  ASSUME NEW n, NEW s, Held(log, n, s, {}), NEW j
  PROVE  Held(log, n, SearchAnswer(s, j), {})
<1> DEFINE sr == [[s.c.search EXCEPT !.hits = j.query] EXCEPT !.pending = FALSE]
           t == [s EXCEPT !.c.latestSearch = Nothing, !.c.search.hits = j.query, !.c.search.pending = FALSE]
           u == [s EXCEPT !.c.latestSearch = Nothing, !.c.search = sr]
<1>1. s = [c |-> s.c, jobs |-> s.jobs] /\ HasCore(s.c) /\ DOMAIN s.c = CoreFields
  BY DEF Held, Whole, HasCore
<1>2. SearchAnswer(s, j) \in {Retire(s, j.id), Retire(t, j.id)}
  BY DEF SearchAnswer
<1>3. t = u
  BY <1>1, ZenonT(30) DEF CoreFields
<1> HIDE DEF sr, t
<1>4. {"latestSearch", "search"} \subseteq CoreFields \ (SteadyFields \cup {"inFlight"})
  BY DEF CoreFields, SteadyFields
<1>5. Merely(s, [s EXCEPT !.c["latestSearch"] = Nothing, !.c["search"] = sr])
  BY <1>1, <1>4, MerelySets
<1>6. Merely(s, u)
  BY <1>5
<1> HIDE DEF u
<1>7. Held(log, n, t, {})
  BY <1>3, <1>6, MerelyHeld
<1>8. QED
  BY <1>2, <1>7, RetireHeld

\* And an error.
LEMMA FailedHeld ==
  ASSUME NEW n, NEW s, Held(log, n, s, {}), NEW j
  PROVE  Held(log, n, Failed(s, j), {})
<1> DEFINE t == Retire(s, j.id)
           yes == TRUE
<1>1. Held(log, n, t, {})
  BY RetireHeld
<1>2. Failed(s, j) = t \/ Failed(s, j) = [t EXCEPT !.c.lost = yes]
  BY DEF Failed
<1> HIDE DEF t, yes
<1>3. Held(log, n, [t EXCEPT !.c.lost = yes], {})
  BY <1>1, SomethingLost
<1>4. QED
  BY <1>1, <1>2, <1>3

-----------------------------------------------------------------------------
(* The shown review: one lemma for each step.                              *)

\* What a handler keeps is kept by the step that installs its result.
LEMMA Installed ==
  ASSUME LogSound, log' = log, NEW n \in 0 .. Len(log), seen' = n, NEW s, Held(log, n, s, {}), Install(s)
  PROVE  LogSound' /\ Held(log, seen, State, {})'
<1>1. State' = s
  BY DEF State, Install, Held, Whole
<1>2. Held(log', seen', State', {})
  BY <1>1
<1>3. QED
  BY <1>2 DEF LogSound

\* Spending from the menu leaves its reviews alone.
LEMMA SpendKeeps ==
  ASSUME HasMenu(left), NEW w \in MenuFields \ {"reviews"}, Spend(w)
  PROVE  HasMenu(left)'
<1>1. left' = [left EXCEPT ![w] = left[w] - 1]
  BY DEF Spend
<1>2. DOMAIN left = MenuFields
  BY DEF HasMenu
<1>3. left' = [f \in MenuFields |-> left'[f]] /\ left'["reviews"] = left["reviews"]
  BY <1>1, <1>2 DEF MenuFields
<1>4. left'.reviews \subseteq Reviews
  BY <1>3 DEF HasMenu
<1>5. QED
  BY <1>3, <1>4 DEF HasMenu

\* A longer log keeps everything that was said of its beginning.
LEMMA LogGrows ==
  ASSUME NEW l \in Seq(Reviews), NEW e \in Reviews, NEW n \in 0 .. Len(l), NEW s, Held(l, n, s, {})
  PROVE  Held(Append(l, e), n, s, {})
<1> DEFINE g == Append(l, e)
<1>1. g \in Seq(Reviews) /\ Len(g) = Len(l) + 1 /\ Len(l) \in Nat /\ \A i \in 1 .. n : g[i] = l[i]
  OBVIOUS
<1>2. \A r, m : m \in 0 .. Len(l) => Version(g, r, m) = Version(l, r, m)
  BY VersionLater
<1> HIDE DEF g
<1>3. \A j : HasJob(l, j) => HasJob(g, j)
  BY <1>1 DEF HasJob
<1>4. ASSUME NEW j, HasJob(l, j), Remembered(l, n, s.c.snapshotEvents, j)
      PROVE  Remembered(g, n, s.c.snapshotEvents, j)
  <2>1. j.at \in Nat
    BY <1>1, <1>4 DEF HasJob
  <2>2. \A i \in (j.at + 1) .. n : g[i] = l[i]
    BY <1>1, <2>1
  <2>3. QED
    BY <1>4, <2>2 DEF Remembered
<1>5. Whole(g, n, s, {})
  BY <1>3, <1>4 DEF Held, Whole, JobsApart, Awaits
<1>6. Recent(g, n, s.c)
  <2> DEFINE d == s.c.deferred
  <2>1. d \in Seq(1 .. n) /\ n \in 0 .. Len(l)
    BY DEF Held, Recent
  <2>2. \A k \in 1 .. Len(d) : d[k] \in 1 .. n
    BY <2>1
  <2>3. d # <<>> => d[Len(d)] \in 1 .. n
    BY <2>1
  <2>4. Version(g, s.c.open, n) = Version(l, s.c.open, n)
    BY <1>2
  <2>5. d # <<>> => Version(g, s.c.open, d[Len(d)]) = Version(l, s.c.open, d[Len(d)])
    <3> HIDE DEF d
    <3>1. d # <<>> => d[Len(d)] \in 0 .. Len(l)
      BY <1>1, <2>1, <2>3
    <3>2. QED
      BY <1>2, <3>1
  <2>6. \A k \in 1 .. Len(d) : g[d[k]] = l[d[k]]
    BY <1>1, <2>2
  <2>7. QED
    BY <2>1, <2>4, <2>5, <2>6 DEF Held, Recent
<1>7. QED
  BY <1>5, <1>6 DEF Held, g

\* A resolution of a review.
LEMMA ResolvesKeeps ==
  ASSUME ViewInv, Resolves
  PROVE  ViewInv'
<1>1. PICK r \in left.reviews : Spend("events") /\ log' = Append(log, r) /\ UNCHANGED <<seen, jobs, core>>
  BY DEF Resolves
<1>2. "events" \in MenuFields \ {"reviews"}
  BY DEF MenuFields
<1>3. HasMenu(left)'
  BY <1>1, <1>2, SpendKeeps DEF ViewInv
<1>4. r \in Reviews
  BY DEF ViewInv, HasMenu
<1>5. LogSound'
  BY <1>1, <1>4 DEF ViewInv, LogSound
<1>6. Held(Append(log, r), seen, State, {})
  BY <1>4, LogGrows DEF ViewInv, LogSound
<1>7. Held(log, seen, State, {})'
  <2>1. State' = State /\ seen' = seen
    BY <1>1 DEF State
  <2>2. QED
    BY <1>1, <1>6, <2>1
<1>8. QED
  BY <1>3, <1>5, <1>7 DEF ViewInv

\* What a step other than a resolution or an event has to show.
LEMMA StepKeeps ==
  ASSUME ViewInv, UNCHANGED <<log, seen>>, NEW s, Held(log, seen, s, {}), Install(s), HasMenu(left)'
  PROVE  ViewInv'
<1>1. LogSound /\ seen \in 0 .. Len(log)
  BY DEF ViewInv, LogSound
<1>2. LogSound' /\ Held(log, seen, State, {})'
  BY <1>1, Installed
<1>3. QED
  BY <1>2 DEF ViewInv

\* What is known before a step.
LEMMA Before ==
  ASSUME ViewInv
  PROVE  /\ Held(log, seen, State, {}) /\ Len(log) \in Nat /\ seen \in 0 .. Len(log) /\ seen \in Nat
         /\ State = [c |-> State.c, jobs |-> State.jobs] /\ HasCore(State.c)
         /\ State.c = core /\ State.jobs = jobs /\ HasMenu(left)
  BY DEF ViewInv, LogSound, Held, Whole, State

\* The next event.
LEMMA EventKeeps ==
  ASSUME ViewInv, Event
  PROVE  ViewInv'
<1>1. seen < Len(log) /\ seen' = seen + 1 /\ Install(ApplyEvent(State, seen + 1)) /\ UNCHANGED <<log, left>>
  BY DEF Event
<1>2. Held(log, seen, State, {}) /\ Len(log) \in Nat /\ seen \in Nat /\ LogSound /\ HasMenu(left)
  BY Before DEF ViewInv
<1>3. Held(log, seen + 1, ApplyEvent(State, seen + 1), {})
  BY <1>1, <1>2, EventHeld
<1>4. seen + 1 \in 0 .. Len(log)
  BY <1>1, <1>2
<1>5. LogSound' /\ Held(log, seen, State, {})'
  BY <1>1, <1>2, <1>3, <1>4, Installed
<1>6. QED
  BY <1>1, <1>2, <1>5 DEF ViewInv

\* An answer.
LEMMA ResponseKeeps ==
  ASSUME ViewInv, Response
  PROVE  ViewInv'
<1>a. PICK j \in jobs : \E at \in j.at .. Len(log) :
        j.kind # "OpenReview" /\ Install(Answer(State, j, at)) /\ UNCHANGED <<log, seen, left>>
  BY DEF Response
<1>1. PICK at \in j.at .. Len(log) :
        j.kind # "OpenReview" /\ Install(Answer(State, j, at)) /\ UNCHANGED <<log, seen, left>>
  BY <1>a
<1>2. Held(log, seen, State, {}) /\ Len(log) \in Nat /\ seen \in 0 .. Len(log) /\ j \in State.jobs /\ HasMenu(left)
  BY Before
<1>3. HasJob(log, j) /\ j.at \in Nat
  BY <1>2, JobAwaits
<1>4. at \in Nat /\ j.at <= at
  BY <1>2, <1>3
<1>5. Held(log, seen, Answer(State, j, at), {})
  <2>1. CASE j.kind = "ReviewSnapshot"
    <3>1. Opens(j)
      BY <1>3, <2>1 DEF HasJob, Opens
    <3>2. Held(log, seen, SnapshotAnswer(State, j, at), {})
      BY <1>2, <1>4, <3>1, SnapshotHeld
    <3>3. QED
      BY <2>1, <3>2 DEF Answer
  <2>2. CASE j.kind = "ListFiles"
    BY <1>2, <2>2, FilesHeld DEF Answer
  <2>3. CASE j.kind = "ListCommits"
    <3>1. Held(log, seen, CommitsAnswer(State, j, at), {})
      BY <1>2, <2>3, CommitsHeld
    <3>2. QED
      BY <2>3, <3>1 DEF Answer
  <2>4. CASE j.kind = "Search"
    BY <1>2, <2>4, SearchHeld DEF Answer
  <2>5. QED
    BY <1>1, <1>3, <2>1, <2>2, <2>3, <2>4 DEF HasJob, JobKinds
<1>6. HasMenu(left)'
  BY <1>1, <1>2
<1>7. QED
  BY <1>1, <1>5, <1>6, StepKeeps

\* An item of an opening stream.
LEMMA StreamItemKeeps ==
  ASSUME ViewInv, StreamItem
  PROVE  ViewInv'
<1> DEFINE On(j, at) == [j EXCEPT !.stage = IF @ = "asked" THEN "snapshot" ELSE "files", !.at = at,
                         !.sent = IF j.stage = "asked" THEN 0 ELSE @ + 1]
           S(j, at) == [State EXCEPT !.jobs = (@ \ {j}) \cup {On(j, at)}]
           Item(j, at) ==
             \/ j.stage = "asked" /\ Install(IF Ignored(core, j) THEN S(j, at) ELSE StreamedSnapshot(S(j, at), j, at))
             \/ \E render : Install(IF Ignored(core, j) THEN Overtaken(S(j, at), j) ELSE StreamedHeader(S(j, at), j, render))
             \/ Install(StreamEnd(State, j))
<1>a. PICK j \in jobs : \E at \in j.at .. Len(log) :
        j.kind = "OpenReview" /\ Item(j, at) /\ UNCHANGED <<log, seen, left>>
  BY DEF StreamItem
<1>1. PICK at \in j.at .. Len(log) : j.kind = "OpenReview" /\ Item(j, at) /\ UNCHANGED <<log, seen, left>>
  BY <1>a
<1>2. Held(log, seen, State, {}) /\ Len(log) \in Nat /\ seen \in 0 .. Len(log) /\ j \in State.jobs /\ HasMenu(left)
      /\ State = [c |-> State.c, jobs |-> State.jobs] /\ State.c = core
  BY Before
<1>3. HasJob(log, j) /\ j.at \in Nat
  BY <1>2, JobAwaits
<1>4. at \in Nat /\ j.at <= at /\ at \in 0 .. Len(log)
  BY <1>2, <1>3
<1> DEFINE on == On(j, at)
           s == S(j, at)
<1>5. HasJob(log, on) /\ on.id = j.id /\ ~Opens(on)
  <2>1. DOMAIN j = JobFields
    BY <1>3 DEF HasJob
  <2> DEFINE st == IF j.stage = "asked" THEN "snapshot" ELSE "files"
             se == IF j.stage = "asked" THEN 0 ELSE j.sent + 1
  <2>2. st # "asked"
    OBVIOUS
  <2>3. on = [j EXCEPT !.stage = st, !.at = at, !.sent = se]
    BY <2>1 DEF JobFields
  <2> HIDE DEF st, se, on
  <2>4. on = [f \in JobFields |-> IF f = "stage" THEN st ELSE IF f = "at" THEN at ELSE IF f = "sent" THEN se ELSE j[f]]
    BY <2>1, <2>3
  <2>5. on.id = j.id /\ on.kind = j.kind /\ on.at = at /\ on.stage = st
    BY <2>4 DEF JobFields
  <2>6. on = [f \in JobFields |-> on[f]]
    BY <2>4
  <2>7. HasJob(log, on)
    BY <1>1, <1>3, <1>4, <2>5, <2>6 DEF HasJob
  <2>8. QED
    BY <2>2, <2>5, <2>7 DEF Opens
<1>6. s = [State EXCEPT !.jobs = (@ \ {j}) \cup {on}]
  OBVIOUS
<1> HIDE DEF on
<1>7. Held(log, seen, s, {})
  <2>1. Held(log, seen, [State EXCEPT !.jobs = (@ \ {j}) \cup {on}], {})
    BY <1>2, <1>5, JobMoves
  <2>2. QED
    BY <1>6, <2>1
<1>8. s.c = State.c /\ s.jobs = (State.jobs \ {j}) \cup {on}
  BY <1>2, <1>6
<1> HIDE DEF s
<1>9. HasMenu(left)'
  BY <1>1, <1>2
<1>10. CASE j.stage = "asked" /\ Install(IF Ignored(core, j) THEN s ELSE StreamedSnapshot(s, j, at))
  <2>1. Remembered(log, seen, State.c.snapshotEvents, j)
    BY <1>1, <1>2, <1>10, JobAwaits DEF Opens
  <2>2. Remembered(log, seen, s.c.snapshotEvents, j)
    BY <1>8, <2>1
  <2>3. \A i \in s.jobs : i.id = j.id => ~Opens(i)
    BY <1>2, <1>5, <1>8, JobAwaits
  <2>4. Held(log, seen, StreamedSnapshot(s, j, at), {})
    BY <1>2, <1>3, <1>4, <1>7, <2>2, <2>3, StreamedHeld
  <2>5. CASE Ignored(core, j)
    <3>1. Install(s)
      BY <1>10, <2>5
    <3>2. QED
      BY <1>1, <1>7, <1>9, <3>1, StepKeeps
  <2>6. CASE ~Ignored(core, j)
    <3>1. Install(StreamedSnapshot(s, j, at))
      BY <1>10, <2>6
    <3>2. QED
      BY <1>1, <1>9, <2>4, <3>1, StepKeeps
  <2>7. QED
    BY <2>5, <2>6
<1>11. ASSUME NEW render, Install(IF Ignored(core, j) THEN Overtaken(s, j) ELSE StreamedHeader(s, j, render))
       PROVE  ViewInv'
  <2>1. Held(log, seen, StreamedHeader(s, j, render), {}) /\ Held(log, seen, Overtaken(s, j), {})
    BY <1>7, HeadersHeld
  <2>2. CASE Ignored(core, j)
    <3>1. Install(Overtaken(s, j))
      BY <1>11, <2>2
    <3>2. QED
      BY <1>1, <1>9, <2>1, <3>1, StepKeeps
  <2>3. CASE ~Ignored(core, j)
    <3>1. Install(StreamedHeader(s, j, render))
      BY <1>11, <2>3
    <3>2. QED
      BY <1>1, <1>9, <2>1, <3>1, StepKeeps
  <2>4. QED
    BY <2>2, <2>3
<1>12. CASE Install(StreamEnd(State, j))
  <2>1. Held(log, seen, StreamEnd(State, j), {})
    BY <1>2, HeadersHeld
  <2>2. QED
    BY <1>1, <1>9, <1>12, <2>1, StepKeeps
<1>13. QED
  <2>1. \/ j.stage = "asked" /\ Install(IF Ignored(core, j) THEN s ELSE StreamedSnapshot(s, j, at))
        \/ \E render : Install(IF Ignored(core, j) THEN Overtaken(s, j) ELSE StreamedHeader(s, j, render))
        \/ Install(StreamEnd(State, j))
    BY <1>1 DEF s
  <2>2. QED
    BY <1>10, <1>11, <1>12, <2>1

\* An error.
LEMMA ErrorKeeps ==
  ASSUME ViewInv, Error
  PROVE  ViewInv'
<1>1. PICK j \in jobs : Spend("fail") /\ Install(Failed(State, j)) /\ UNCHANGED <<log, seen>>
  BY DEF Error
<1>2. Held(log, seen, State, {}) /\ HasMenu(left) /\ "fail" \in MenuFields \ {"reviews"}
  BY Before DEF MenuFields
<1>3. Held(log, seen, Failed(State, j), {})
  BY <1>2, FailedHeld
<1>4. HasMenu(left)'
  BY <1>1, <1>2, SpendKeeps
<1>5. QED
  BY <1>1, <1>3, <1>4, StepKeeps

\* A connection that is lost takes every request with it.
LEMMA CutHeld ==
  ASSUME NEW n, NEW s, Held(log, n, s, {}), NEW v
  PROVE  Held(log, n, [c |-> [s.c EXCEPT !.connection = "Disconnected", !.inFlight = <<>>,
                                         !.snapshotEvents = <<>>, !.latestOpen = Nothing, !.lost = v],
                       jobs |-> {}], {})
<1> DEFINE cut == "Disconnected"
           none == <<>>
           zero == Nothing
           d == [s.c EXCEPT !.connection = cut, !.inFlight = none, !.snapshotEvents = none,
                            !.latestOpen = zero, !.lost = v]
           t == [c |-> d, jobs |-> {}]
<1>1. HasCore(s.c) /\ DOMAIN s.c = CoreFields /\ Recent(log, n, s.c)
  BY DEF Held, Whole, HasCore
<1>2. DOMAIN none = {}
  OBVIOUS
<1> HIDE DEF cut, none, zero
<1>3. d = [f \in CoreFields |-> IF f = "connection" THEN cut ELSE IF f = "inFlight" THEN none
                                ELSE IF f = "snapshotEvents" THEN none ELSE IF f = "latestOpen" THEN zero
                                ELSE IF f = "lost" THEN v ELSE s.c[f]]
  BY <1>1
<1> HIDE DEF d
<1>4. HasCore(d) /\ d.inFlight = none /\ d.snapshotEvents = none
  BY <1>3 DEF HasCore, CoreFields
<1>5. SameShown(s.c, d)
  BY <1>3 DEF SameShown, ShownFields, CoreFields
<1>6. Recent(log, n, d)
  BY <1>1, <1>5, RecentShown
<1>7. IsFiniteSet({}) /\ t.c = d /\ t.jobs = {}
  BY FS_EmptySet
<1>8. Held(log, n, t, {})
  BY <1>2, <1>4, <1>6, <1>7 DEF Held, Whole, JobsApart, Awaits
<1>9. QED
  BY <1>8 DEF d, t, cut, none, zero

\* A connection that is lost.
LEMMA DisconnectedKeeps ==
  ASSUME ViewInv, Disconnected
  PROVE  ViewInv'
<1> DEFINE v == core.lost \/ jobs # {}
           t == [c |-> [State.c EXCEPT !.connection = "Disconnected", !.inFlight = <<>>,
                                       !.snapshotEvents = <<>>, !.latestOpen = Nothing, !.lost = v],
                 jobs |-> {}]
<1>1. Held(log, seen, State, {}) /\ HasMenu(left) /\ "disconnect" \in MenuFields \ {"reviews"}
      /\ State.c = core /\ HasCore(core)
  BY Before DEF MenuFields
<1>2. Spend("disconnect") /\ Install(t) /\ UNCHANGED <<log, seen>>
  <2>1. [core EXCEPT !.connection = "Disconnected", !.inFlight = <<>>,
                     !.snapshotEvents = <<>>, !.latestOpen = Nothing, !.lost = @ \/ jobs # {}]
        = [core EXCEPT !.connection = "Disconnected", !.inFlight = <<>>,
                     !.snapshotEvents = <<>>, !.latestOpen = Nothing, !.lost = v]
    OBVIOUS
  <2> HIDE DEF v
  <2>2. QED
    BY <1>1, <2>1 DEF Disconnected
<1> HIDE DEF v
<1>3. Held(log, seen, t, {})
  BY <1>1, CutHeld
<1>4. HasMenu(left)'
  BY <1>1, <1>2, SpendKeeps
<1> HIDE DEF t
<1>5. QED
  BY <1>2, <1>3, <1>4, StepKeeps

\* The connection is back, or the subscription is.
LEMMA ConnectingKeeps ==
  ASSUME ViewInv, Reconnects \/ Subscribed
  PROVE  ViewInv'
<1>1. PICK v : core' = [core EXCEPT !.connection = v] /\ UNCHANGED <<log, seen, jobs, left>>
  BY DEF Reconnects, Subscribed
<1> DEFINE t == [State EXCEPT !.c["connection"] = v]
<1>2. Held(log, seen, State, {}) /\ State = [c |-> State.c, jobs |-> State.jobs] /\ HasCore(State.c)
      /\ State.c = core /\ State.jobs = jobs /\ HasMenu(left)
  BY Before
<1>3. "connection" \in CoreFields \ (SteadyFields \cup {"inFlight"})
  BY DEF CoreFields, SteadyFields
<1>4. Merely(State, t)
  BY <1>2, <1>3, MerelySets
<1>5. t.c = [core EXCEPT !.connection = v] /\ t.jobs = jobs
  BY <1>2
<1>6. Install(t)
  BY <1>1, <1>5 DEF Install
<1> HIDE DEF t
<1>7. Held(log, seen, t, {})
  BY <1>2, <1>4, MerelyHeld
<1>8. HasMenu(left)'
  BY <1>1, <1>2
<1>9. QED
  BY <1>1, <1>6, <1>7, <1>8, StepKeeps

\* A request of the user's keeps what is shown.
LEMMA RequestHeld ==
  ASSUME NEW n, NEW s, Held(log, n, s, {}), NEW w, NEW q, w.kind \in JobKinds, Len(log) \in Nat, n \in 0 .. Len(log)
  PROVE  Held(log, n, Request(s, w, q), {})
<1>1. Whole(log, n, Request(s, w, q), {}) /\ SameShown(s.c, Request(s, w, q).c)
  BY RequestWhole DEF Held
<1>2. QED
  BY <1>1, HeldShown

\* So do file lists, commit lists and another scope.
LEMMA AsksHeld ==
  ASSUME NEW n, NEW s, Held(log, n, s, {}), NEW scope, Len(log) \in Nat, n \in 0 .. Len(log)
  PROVE  /\ Held(log, n, ListFiles(s), {}) /\ Held(log, n, ListCommits(s), {})
         /\ Held(log, n, ApplyScope(s, scope), {})
<1>1. Whole(log, n, s, {})
  BY DEF Held
<1>2. /\ Whole(log, n, ListFiles(s), {}) /\ SameShown(s.c, ListFiles(s).c)
      /\ Whole(log, n, ListCommits(s), {}) /\ SameShown(s.c, ListCommits(s).c)
  BY <1>1, ListsWhole
<1>3. Whole(log, n, ApplyScope(s, scope), {}) /\ SameShown(s.c, ApplyScope(s, scope).c)
  BY <1>1, ScopeWhole
<1>4. QED
  BY <1>2, <1>3, HeldShown

\* And setting a field on which nothing rests.
LEMMA SetHeld ==
  ASSUME NEW n, NEW s, Held(log, n, s, {}), NEW f \in CoreFields \ (SteadyFields \cup {"inFlight"}), NEW v
  PROVE  Held(log, n, [s EXCEPT !.c[f] = v], {})
<1>1. s = [c |-> s.c, jobs |-> s.jobs] /\ HasCore(s.c)
  BY DEF Held, Whole
<1>2. Merely(s, [s EXCEPT !.c[f] = v])
  BY <1>1, MerelySets
<1> DEFINE t == [s EXCEPT !.c[f] = v]
<1> HIDE DEF t
<1>3. Held(log, n, t, {})
  BY <1>2, MerelyHeld DEF t
<1>4. QED
  BY <1>3 DEF t

\* A review is opened.
LEMMA OpenKeeps ==
  ASSUME ViewInv, OpenReview
  PROVE  ViewInv'
<1>1. PICK r \in left.reviews, kind \in {"OpenReview", "ReviewSnapshot"} :
        Spend("open") /\ Install(Request(State, Waiting(kind, r, "All"), Nothing)) /\ UNCHANGED <<log, seen>>
  BY DEF OpenReview
<1> DEFINE w == Waiting(kind, r, "All")
<1>2. w.kind \in JobKinds
  BY DEF Waiting, JobKinds
<1> HIDE DEF w
<1>3. Held(log, seen, State, {}) /\ Len(log) \in Nat /\ seen \in 0 .. Len(log) /\ HasMenu(left)
      /\ "open" \in MenuFields \ {"reviews"}
  BY Before DEF MenuFields
<1>4. Held(log, seen, Request(State, w, Nothing), {})
  BY <1>2, <1>3, RequestHeld
<1>5. HasMenu(left)'
  BY <1>1, <1>3, SpendKeeps
<1>6. QED
  BY <1>1, <1>4, <1>5, StepKeeps DEF w

\* It is closed.
LEMMA CloseKeeps ==
  ASSUME ViewInv, CloseOpenReview
  PROVE  ViewInv'
<1> DEFINE s == [State EXCEPT !.c["latestOpen"] = Nothing]
<1>1. Spend("close") /\ Install(CloseReview(s)) /\ UNCHANGED <<log, seen>>
  BY DEF CloseOpenReview
<1>2. Held(log, seen, State, {}) /\ HasMenu(left) /\ "close" \in MenuFields \ {"reviews"}
      /\ "latestOpen" \in CoreFields \ (SteadyFields \cup {"inFlight"})
  BY Before DEF MenuFields, CoreFields, SteadyFields
<1>3. Held(log, seen, s, {})
  BY <1>2, SetHeld
<1> HIDE DEF s
<1>4. Held(log, seen, CloseReview(s), {})
  BY <1>3, CloseHeld DEF Held
<1>5. HasMenu(left)'
  BY <1>1, <1>2, SpendKeeps
<1>6. QED
  BY <1>1, <1>4, <1>5, StepKeeps

\* Another scope is chosen.
LEMMA ScopeKeeps ==
  ASSUME ViewInv, SetScope
  PROVE  ViewInv'
<1>1. PICK scope \in AnyScope : Spend("scope") /\ Install(ApplyScope(State, scope)) /\ UNCHANGED <<log, seen>>
  BY DEF SetScope
<1>2. Held(log, seen, State, {}) /\ Len(log) \in Nat /\ seen \in 0 .. Len(log) /\ HasMenu(left)
      /\ "scope" \in MenuFields \ {"reviews"}
  BY Before DEF MenuFields
<1>3. Held(log, seen, ApplyScope(State, scope), {})
  BY <1>2, AsksHeld
<1>4. HasMenu(left)'
  BY <1>1, <1>2, SpendKeeps
<1>5. QED
  BY <1>1, <1>3, <1>4, StepKeeps

\* The review is walked commit by commit.
LEMMA ByCommitKeeps ==
  ASSUME ViewInv, ByCommit
  PROVE  ViewInv'
<1> DEFINE yes == TRUE
           s == [State EXCEPT !.c["byCommit"] = yes]
           t == IF core.stepper = Nothing THEN ListCommits(s) ELSE ApplyScope(State, "Worktree")
<1>1. Spend("scope") /\ Install(t) /\ UNCHANGED <<log, seen>>
  BY DEF ByCommit
<1> HIDE DEF yes
<1>2. Held(log, seen, State, {}) /\ Len(log) \in Nat /\ seen \in 0 .. Len(log) /\ HasMenu(left)
      /\ "scope" \in MenuFields \ {"reviews"} /\ "byCommit" \in CoreFields \ (SteadyFields \cup {"inFlight"})
  BY Before DEF MenuFields, CoreFields, SteadyFields
<1>3. Held(log, seen, s, {})
  BY <1>2, SetHeld
<1> HIDE DEF s
<1>4. Held(log, seen, ListCommits(s), {}) /\ Held(log, seen, ApplyScope(State, "Worktree"), {})
  BY <1>2, <1>3, AsksHeld
<1>5. Held(log, seen, t, {})
  BY <1>4
<1> HIDE DEF t
<1>6. HasMenu(left)'
  BY <1>1, <1>2, SpendKeeps
<1>7. QED
  BY <1>1, <1>5, <1>6, StepKeeps

\* The diff is rendered otherwise.
LEMMA RenderKeeps ==
  ASSUME ViewInv, SetRenderOpts
  PROVE  ViewInv'
<1> DEFINE v == 3 - core.opts
           yes == TRUE
           s == [State EXCEPT !.c["opts"] = v]
           cleared == ClearFiles(s)
           missed == [cleared EXCEPT !.c["lost"] = yes]
           t == IF core.open = NoReview THEN s
                ELSE IF core.connection = "Subscribed" THEN ListFiles(cleared) ELSE missed
<1>1. Held(log, seen, State, {}) /\ Len(log) \in Nat /\ seen \in 0 .. Len(log) /\ HasMenu(left)
      /\ State = [c |-> State.c, jobs |-> State.jobs] /\ State.c = core /\ HasCore(core)
      /\ "prefs" \in MenuFields \ {"reviews"} /\ "opts" \in CoreFields \ (SteadyFields \cup {"inFlight"})
      /\ "lost" \in CoreFields \ (SteadyFields \cup {"inFlight"})
  BY Before DEF MenuFields, CoreFields, SteadyFields
<1>2. Spend("prefs") /\ Install(t) /\ UNCHANGED <<log, seen>>
  <2>1. [State EXCEPT !.c.opts = 3 - @] = s
    BY <1>1 DEF HasCore, CoreFields
  <2> HIDE DEF s, v
  <2>2. QED
    BY <2>1 DEF SetRenderOpts
<1> HIDE DEF v, yes
<1>3. Held(log, seen, s, {})
  BY <1>1, SetHeld
<1> HIDE DEF s
<1>4. Held(log, seen, cleared, {})
  <2>1. Merely(s, cleared)
    BY <1>3, FilesMerely DEF Held, Whole
  <2> HIDE DEF cleared
  <2>2. QED
    BY <1>3, <2>1, MerelyHeld
<1> HIDE DEF cleared
<1>5. Held(log, seen, missed, {})
  BY <1>1, <1>4, SetHeld
<1> HIDE DEF missed
<1>6. Held(log, seen, ListFiles(cleared), {})
  BY <1>1, <1>4, AsksHeld
<1>7. Held(log, seen, t, {})
  BY <1>3, <1>5, <1>6
<1> HIDE DEF t
<1>8. HasMenu(left)'
  BY <1>1, <1>2, SpendKeeps
<1>9. QED
  BY <1>2, <1>7, <1>8, StepKeeps

\* The review is searched.
LEMMA SearchKeeps ==
  ASSUME ViewInv, ContentSearch
  PROVE  ViewInv'
<1> DEFINE Look(q) == IF q = Nothing THEN NoSearch
                      ELSE [open |-> TRUE, query |-> q, pending |-> TRUE, hits |-> Nothing]
           S(q) == [State EXCEPT !.c["latestSearch"] = Nothing, !.c["search"] = Look(q)]
           W(q) == Waiting("Search", S(q).c.open, S(q).c.scope)
<1>1. Spend("search") /\ UNCHANGED <<log, seen>>
      /\ \E q \in {Nothing, 1, 2} : \E w : w.kind = "Search" /\ Install(IF q = Nothing THEN S(q) ELSE Request(S(q), w, q))
  <2>1. PICK q \in {Nothing, 1, 2} : Spend("search") /\ UNCHANGED <<log, seen>>
          /\ (q = Nothing => Install(S(q)))
          /\ (q # Nothing => Install(Request(S(q), Waiting("Search", core.open, core.scope), q)))
    BY DEF ContentSearch
  <2> DEFINE w == Waiting("Search", core.open, core.scope)
  <2>2. w.kind = "Search"
    BY DEF Waiting
  <2> HIDE DEF w, S
  <2>3. Install(IF q = Nothing THEN S(q) ELSE Request(S(q), w, q))
    BY <2>1 DEF w
  <2>4. QED
    BY <2>1, <2>2, <2>3
<1>2. PICK q \in {Nothing, 1, 2} : \E w : w.kind = "Search" /\ Install(IF q = Nothing THEN S(q) ELSE Request(S(q), w, q))
  BY <1>1
<1> DEFINE look == Look(q)
           s == S(q)
<1>3. PICK w : w.kind = "Search" /\ Install(IF q = Nothing THEN s ELSE Request(s, w, q))
  BY <1>2
<1>4. s = [State EXCEPT !.c["latestSearch"] = Nothing, !.c["search"] = look]
  OBVIOUS
<1> HIDE DEF s, look
<1>5. Held(log, seen, State, {}) /\ Len(log) \in Nat /\ seen \in 0 .. Len(log) /\ HasMenu(left)
      /\ State = [c |-> State.c, jobs |-> State.jobs] /\ HasCore(State.c)
      /\ "search" \in MenuFields \ {"reviews"}
      /\ {"latestSearch", "search"} \subseteq CoreFields \ (SteadyFields \cup {"inFlight"})
  BY Before DEF MenuFields, CoreFields, SteadyFields
<1>6. Merely(State, s)
  <2>1. Merely(State, [State EXCEPT !.c["latestSearch"] = Nothing, !.c["search"] = look])
    BY <1>5, MerelySets
  <2>2. QED
    BY <1>4, <2>1
<1>7. Held(log, seen, s, {})
  BY <1>5, <1>6, MerelyHeld
<1>8. Held(log, seen, Request(s, w, q), {})
  BY <1>3, <1>5, <1>7, RequestHeld DEF JobKinds
<1>9. HasMenu(left)'
  BY <1>1, <1>5, SpendKeeps
<1>10. CASE q = Nothing
  <2>1. Install(s)
    BY <1>3, <1>10
  <2>2. QED
    BY <1>1, <1>7, <1>9, <2>1, StepKeeps
<1>11. CASE q # Nothing
  <2>1. Install(Request(s, w, q))
    BY <1>3, <1>11
  <2>2. QED
    BY <1>1, <1>8, <1>9, <2>1, StepKeeps
<1>12. QED
  BY <1>10, <1>11

\* A draft is opened: nothing is held back yet.
LEMMA DraftOpenedKeeps ==
  ASSUME ViewInv, DraftOpened
  PROVE  ViewInv'
<1> DEFINE yes == TRUE
           d == [core EXCEPT !["draft"] = yes]
           t == [c |-> d, jobs |-> jobs]
<1>1. core' = d /\ jobs' = jobs /\ ~core.draft /\ Spend("draft") /\ UNCHANGED <<log, seen>>
  BY DEF DraftOpened
<1>2. Held(log, seen, State, {}) /\ HasMenu(left) /\ "draft" \in MenuFields \ {"reviews"}
      /\ State.c = core /\ State.jobs = jobs /\ HasCore(core) /\ DOMAIN core = CoreFields
  BY Before DEF MenuFields, HasCore
<1>3. Recent(log, seen, core)
  BY <1>2 DEF Held
<1>4. core.deferred = <<>>
  BY <1>1, <1>3 DEF Recent
<1>5. d = [f \in CoreFields |-> IF f = "draft" THEN yes ELSE core[f]]
  BY <1>2
<1> HIDE DEF d, yes
<1>6. HasCore(d) /\ Alike(core, d, CoreFields \ {"draft"})
  BY <1>5 DEF HasCore, Alike
<1>7. Alike(core, d, {"open", "committed", "deferred", "inFlight", "snapshotEvents"})
  BY <1>6 DEF Alike, CoreFields
<1>8. d.open = core.open /\ d.committed = core.committed /\ d.deferred = core.deferred
      /\ d.inFlight = core.inFlight /\ d.snapshotEvents = core.snapshotEvents
  BY <1>7 DEF Alike
<1>9. Recent(log, seen, d)
  BY <1>3, <1>4, <1>8 DEF Recent
<1>10. t.c = d /\ t.jobs = jobs
  OBVIOUS
<1>11. Held(log, seen, t, {})
  BY <1>2, <1>6, <1>8, <1>9, <1>10 DEF Held, Whole, JobsApart
<1>12. Install(t)
  BY <1>1, <1>10 DEF Install
<1>13. HasMenu(left)'
  BY <1>1, <1>2, SpendKeeps
<1> HIDE DEF t
<1>14. QED
  BY <1>1, <1>11, <1>12, <1>13, StepKeeps

\* A draft ends: what it held back is applied.
LEMMA DraftClosedKeeps ==
  ASSUME ViewInv, DraftClosed
  PROVE  ViewInv'
<1>1. Install(DrainDeferred([State EXCEPT !.c.draft = FALSE])) /\ UNCHANGED <<log, seen, left>>
  BY DEF DraftClosed
<1>2. Held(log, seen, State, {}) /\ Len(log) \in Nat /\ seen \in Nat /\ seen <= Len(log) /\ HasMenu(left)
  <2>1. seen \in 0 .. Len(log)
    BY Before
  <2>2. QED
    BY <2>1, Before
<1>3. Held(log, seen, DrainDeferred([State EXCEPT !.c.draft = FALSE]), {})
  BY <1>2, DrainHeld
<1>4. HasMenu(left)'
  BY <1>1, <1>2
<1>5. QED
  BY <1>1, <1>3, <1>4, StepKeeps

-----------------------------------------------------------------------------
(* The shown review: the theorems.                                         *)

\* Before the first step no review is open and nothing is awaited.
LEMMA ViewBegins ==
  ASSUME ViewInit
  PROVE  ViewInv
<1>1. log = <<>> /\ seen = 0 /\ jobs = {} /\ core = Closed /\ left \in Menus
  BY DEF ViewInit
<1>2. LogSound
  BY <1>1 DEF LogSound
<1>3. HasMenu(left)
  BY <1>1, ViewAssumption DEF HasMenu, MenuFields
<1>4. core = [f \in CoreFields |-> core[f]]
  BY <1>1 DEF Closed, CoreFields
<1>5. core.deferred = <<>> /\ core.open = NoReview /\ core.inFlight = <<>> /\ core.snapshotEvents = <<>>
  BY <1>1 DEF Closed
<1>6. Recent(log, seen, core)
  BY <1>1, <1>5 DEF Recent
<1>7. State.c = core /\ State.jobs = {} /\ State = [c |-> State.c, jobs |-> State.jobs]
  BY <1>1 DEF State
<1>8. IsFiniteSet({}) /\ DOMAIN << >> = {}
  BY FS_EmptySet
<1>9. Whole(log, seen, State, {})
  BY <1>4, <1>5, <1>7, <1>8 DEF Whole, HasCore, JobsApart, Awaits
<1>10. QED
  BY <1>2, <1>3, <1>6, <1>7, <1>9 DEF ViewInv, Held

\* Every open that the daemon has not read yet remembers each event of its
\* review that the client handled since it was asked, and the shown targets
\* are those of the last event handled unless a draft holds it back
\* (pending_snapshot_events, install_snapshot, apply_event).
THEOREM ViewInvariant == ViewSpec => []ViewInv
<1>1. ViewInit => ViewInv
  BY ViewBegins
<1>2. ViewInv /\ [ViewNext]_viewVars => ViewInv'
  <2> SUFFICES ASSUME ViewInv, [ViewNext]_viewVars PROVE ViewInv'
    OBVIOUS
  <2>1. CASE Resolves
    BY <2>1, ResolvesKeeps
  <2>2. CASE Event
    BY <2>2, EventKeeps
  <2>3. CASE Response
    BY <2>3, ResponseKeeps
  <2>4. CASE StreamItem
    BY <2>4, StreamItemKeeps
  <2>5. CASE Error
    BY <2>5, ErrorKeeps
  <2>6. CASE Disconnected
    BY <2>6, DisconnectedKeeps
  <2>7. CASE Reconnects \/ Subscribed
    BY <2>7, ConnectingKeeps
  <2>8. CASE OpenReview
    BY <2>8, OpenKeeps
  <2>9. CASE CloseOpenReview
    BY <2>9, CloseKeeps
  <2>10. CASE SetScope
    BY <2>10, ScopeKeeps
  <2>11. CASE ByCommit
    BY <2>11, ByCommitKeeps
  <2>12. CASE SetRenderOpts
    BY <2>12, RenderKeeps
  <2>13. CASE ContentSearch
    BY <2>13, SearchKeeps
  <2>14. CASE DraftOpened
    BY <2>14, DraftOpenedKeeps
  <2>15. CASE DraftClosed
    BY <2>15, DraftClosedKeeps
  <2>16. CASE UNCHANGED viewVars
    <3>1. log' = log /\ seen' = seen /\ State' = State /\ left' = left
      BY <2>16 DEF viewVars, State
    <3>2. QED
      BY <3>1 DEF ViewInv, LogSound
  <2>17. QED
    BY <2>1, <2>2, <2>3, <2>4, <2>5, <2>6, <2>7, <2>8, <2>9, <2>10, <2>11, <2>12, <2>13, <2>14, <2>15, <2>16
    DEF ViewNext
<1>3. QED
  BY <1>1, <1>2, PTL DEF ViewSpec

\* However snapshots and events overtake each other, the shown targets are
\* never older than an event of the open review that the client has handled,
\* but for one that a draft holds back (install_snapshot, apply_event).
THEOREM ShownIsRecent == ViewSpec => []NeverBehind
<1>1. ViewInv => NeverBehind
  <2> SUFFICES ASSUME ViewInv, core.open # NoReview PROVE
        \/ core.committed >= VersionAt(core.open, seen)
        \/ core.draft /\ core.deferred # <<>> /\ core.pendingRefresh
    BY DEF NeverBehind
  <2>1. Recent(log, seen, core)
    BY Before DEF Held
  <2>2. VersionAt(core.open, seen) = Version(log, core.open, seen)
    BY VersionIs
  <2>3. QED
    BY <2>1, <2>2 DEF Recent
<1>2. QED
  BY <1>1, ViewInvariant, PTL

\* No event moves the targets, the files or the open file under a draft
\* (apply_event, defer_refresh).
THEOREM DraftKept == ViewSpec => DraftUndisturbed
<1>1. ViewInv /\ [ViewNext]_viewVars => [DraftStep]_viewVars
  <2> SUFFICES ASSUME ViewInv, [ViewNext]_viewVars, core.draft, core'.draft, seen' # seen
               PROVE  core'.committed = core.committed /\ core'.files = core.files /\ core'.openFile = core.openFile
    BY DEF DraftStep
  <2>1. Event
    BY DEF ViewNext, viewVars, Resolves, Response, StreamItem, Error, Disconnected, Reconnects, Subscribed, OpenReview,
       CloseOpenReview, SetScope, ByCommit, SetRenderOpts, ContentSearch, DraftOpened, DraftClosed
  <2>2. seen < Len(log) /\ Install(ApplyEvent(State, seen + 1))
    BY <2>1 DEF Event
  <2>3. Held(log, seen, State, {}) /\ Len(log) \in Nat /\ seen \in Nat /\ State.c = core
    BY Before
  <2> DEFINE m == seen + 1
             t == ApplyEvent(State, m)
  <2>4. m \in Nat /\ seen <= m /\ m \in 1 .. m /\ m <= Len(log) /\ \A i \in (seen + 1) .. m : i = m
    BY <2>2, <2>3
  <2>5. Whole(log, seen, State, {})
    BY <2>3 DEF Held
  <2> HIDE DEF m
  <2>6. /\ State.c.open # log[m] => Alike(State.c, t.c, CoreFields \ {"snapshotEvents"})
        /\ State.c.open = log[m] /\ State.c.draft
             => Alike(State.c, t.c, CoreFields \ {"deferred", "pendingRefresh", "snapshotEvents"})
    BY <2>3, <2>4, <2>5, AppliedWhole DEF m
  <2>7. core' = t.c
    BY <2>2 DEF Install, m
  <2> HIDE DEF t
  <2>8. Alike(core, core', {"committed", "files", "openFile"})
    BY <2>3, <2>6, <2>7 DEF Alike, CoreFields
  <2>9. QED
    BY <2>8 DEF Alike
<1>2. QED
  BY <1>1, ViewInvariant, PTL DEF ViewSpec, DraftUndisturbed
=============================================================================
