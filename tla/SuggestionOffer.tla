--------------------------- MODULE SuggestionOffer ---------------------------
(***************************************************************************)
(* A suggested edit as the client shows it (crates/nits-client-core,       *)
(* suggestion.rs): inspected, applied, uncertain after an error or a lost  *)
(* connection, and inspected again before another application is offered.  *)
(* One suggestion of one review; how the daemon replaces the file is       *)
(* SuggestionFile.                                                         *)
(***************************************************************************)
EXTENDS Integers, Sequences

CONSTANT OfferMenus     \* bounds: how often each input may happen

VARIABLES
  offer,      \* the client: SuggestionState, the committed outcome, the subscription
  errands,    \* requests the daemon has, those of lost connections too
  disk,       \* the file of the suggestion
  receipts,   \* the events about the suggestion: "Applied", "Deleted"
  tokens      \* what remains of the chosen menu

offerVars == <<offer, errands, disk, receipts, tokens>>

\* History variables of offer: cut, the restart deadline closed a connection and the
\* transport's report of it was not taken since; cleared, the requests before it were
\* forgotten with a review that was closed.

\* SuggestionState::default
NoState(o) == [o EXCEPT !.stage = "Idle", !.request = 0, !.inspection = "None", !.notice = FALSE]

OfferInit ==
  /\ offer = [open |-> TRUE, subscribed |-> TRUE, seen |-> 0, applied |-> FALSE, deleted |-> FALSE,
              next |-> 1, cut |-> FALSE, cleared |-> 0, stage |-> "Idle", request |-> 0, inspection |-> "None",
              notice |-> FALSE]
  /\ errands = {} /\ disk = "Original" /\ receipts = <<>> /\ tokens \in OfferMenus

HasEvent(e) == \E i \in DOMAIN receipts : receipts[i] = e

-----------------------------------------------------------------------------

\* SuggestionState::view
Inspected ==
  [None |-> "Unloaded", Original |-> "Ready", Changed |-> "Stale", Proposed |-> "Uncertain",
   Rejected |-> "Rejected"]
StatusOf(o) ==
  IF o.applied THEN "Applied" ELSE IF o.stage = "Idle" THEN Inspected[o.inspection] ELSE o.stage

HasRecord(o) == o.open /\ ~o.deleted
Errand(id, kind) == [id |-> id, kind |-> kind, at |-> Len(receipts), done |-> FALSE, orphan |-> FALSE]

\* s = [o, errands]; a request is refused while one of the same is under way.
Preview(s) ==
  IF ~s.o.subscribed \/ ~HasRecord(s.o) \/ s.o.stage \in {"Checking", "Applying"} THEN s
  ELSE [o |-> [s.o EXCEPT !.stage = "Checking", !.request = s.o.next, !.next = @ + 1],
        errands |-> s.errands \cup {Errand(s.o.next, "Preview")}]

\* An event of the review, in order or with the answer that carries it.
Applies(o, e) ==
  IF ~o.open THEN o ELSE IF e = "Applied" THEN [o EXCEPT !.applied = TRUE] ELSE [o EXCEPT !.deleted = TRUE]

\* suggestion_failed: even an error can follow the replacement of the file.
Fails(o, j) ==
  CASE ~o.open -> o
    [] o.open /\ HasRecord(o) /\ o.applied -> [o EXCEPT !.stage = "Idle"]
    [] OTHER -> IF o.request # j.id THEN o
                ELSE IF o.stage = "Applying" THEN [o EXCEPT !.stage = "Uncertain", !.notice = TRUE]
                ELSE IF o.stage = "Checking" THEN [o EXCEPT !.stage = "Rejected"] ELSE o

Previewed(o, j, inspection, applied) ==
  IF ~HasRecord(o) \/ o.stage # "Checking" \/ o.request # j.id THEN o
  ELSE [o EXCEPT !.inspection = inspection, !.stage = "Idle", !.applied = @ \/ applied]

\* Mutant: an application under way is forgotten, and may be offered again.
DisconnectedIdle(o) == [o EXCEPT !.stage = IF @ \in {"Applying", "Checking"} THEN "Idle" ELSE @]

SuggestionsDisconnected(o) ==
  [o EXCEPT !.stage = IF @ \in {"Applying", "Checking"} THEN "Uncertain" ELSE @]

SuggestionsReconnected(s) == IF s.o.stage = "Uncertain" THEN Preview(s) ELSE s

-----------------------------------------------------------------------------

Pays(what) == tokens[what] > 0 /\ tokens' = [tokens EXCEPT ![what] = @ - 1]
OfferBecomes(s) == offer' = s.o /\ errands' = s.errands
Client == [o |-> offer, errands |-> errands]

PreviewSuggestion ==
  /\ Pays("previews") /\ Preview(Client) # Client
  /\ OfferBecomes(Preview(Client))
  /\ UNCHANGED <<disk, receipts>>

ApplySuggestion ==
  /\ Pays("applies")
  /\ offer.subscribed /\ HasRecord(offer) /\ StatusOf(offer) = "Ready"
  /\ OfferBecomes([o |-> [offer EXCEPT !.stage = "Applying", !.request = offer.next, !.next = @ + 1],
              errands |-> errands \cup {Errand(offer.next, "Apply")}])
  /\ UNCHANGED <<disk, receipts>>

\* The daemon replaces the file and commits the receipt, refuses, or fails before
\* the replacement or between the two.
MayApply == disk = "Original" /\ ~HasEvent("Applied") /\ ~HasEvent("Deleted")
Running == {j \in errands : j.kind = "Apply" /\ ~j.done}
\* With the connection every answer is lost, and an application that began goes on.
Orphaned == {[j EXCEPT !.orphan = TRUE] : j \in Running}
AnswersError(j) ==
  /\ errands' = errands \ {j}
  /\ offer' = IF j.orphan THEN offer ELSE Fails(offer, j)

ApplyCommits ==
  /\ MayApply /\ disk' = "Proposed" /\ receipts' = Append(receipts, "Applied")
  /\ \E j \in Running :
       errands' = (errands \ {j}) \cup {[j EXCEPT !.done = TRUE, !.at = Len(receipts) + 1]}
  /\ UNCHANGED <<offer, tokens>>

ApplyRefused ==
  /\ ~MayApply /\ \E j \in Running : AnswersError(j)
  /\ UNCHANGED <<disk, receipts, tokens>>

ApplyFaults ==
  /\ MayApply /\ Pays("faults") /\ disk' \in {"Original", "Proposed"}
  /\ \E j \in Running : AnswersError(j)
  /\ UNCHANGED receipts

\* Response::Committed; an answer for a lost connection goes nowhere.
SuggestionApplied ==
  /\ \E j \in errands :
       /\ j.kind = "Apply" /\ j.done
       /\ errands' = errands \ {j}
       /\ offer' = IF j.orphan THEN offer
                   ELSE [Applies(IF offer.open /\ offer.stage = "Applying" /\ offer.request = j.id
                                 THEN [offer EXCEPT !.stage = "Idle"] ELSE offer, "Applied")
                         EXCEPT !.seen = IF @ < j.at THEN j.at ELSE @]
  /\ UNCHANGED <<disk, receipts, tokens>>

\* preview_suggestion: what the file holds, or a rejection whatever it holds: the repository,
\* the anchored blob or the file cannot be read.
Inspections == {disk, "Rejected"}

\* The file is read when the answer is made, the record at some moment before it.
SuggestionPreviewed ==
  /\ offer.subscribed
  /\ \E j \in errands : \E at \in j.at..Len(receipts), inspection \in Inspections :
       /\ j.kind = "Preview"
       /\ OfferBecomes([o |-> Previewed(offer, j, inspection, \E i \in 1..at : receipts[i] = "Applied"),
                   errands |-> errands \ {j}])
  /\ UNCHANGED <<disk, receipts, tokens>>

PreviewFailed ==
  /\ offer.subscribed /\ Pays("faults")
  /\ \E j \in errands : j.kind = "Preview" /\ OfferBecomes([o |-> Fails(offer, j), errands |-> errands \ {j}])
  /\ UNCHANGED <<disk, receipts>>

OfferEvent ==
  /\ offer.subscribed /\ offer.seen < Len(receipts)
  /\ offer' = [Applies(offer, receipts[offer.seen + 1]) EXCEPT !.seen = @ + 1]
  /\ UNCHANGED <<errands, disk, receipts, tokens>>

\* Somebody edits the file or deletes the comment.
OffersChange ==
  /\ Pays("edits")
  /\ \/ disk' \in {"Original", "Changed", "Proposed"} \ {disk} /\ UNCHANGED receipts
     \/ ~HasEvent("Deleted") /\ receipts' = Append(receipts, "Deleted") /\ UNCHANGED disk
  /\ UNCHANGED <<offer, errands>>

OfferDisconnected ==
  /\ offer.subscribed /\ Pays("drops")
  /\ offer' = SuggestionsDisconnected([offer EXCEPT !.subscribed = FALSE, !.cut = FALSE])
  /\ errands' = Orphaned
  /\ UNCHANGED <<disk, receipts>>

\* restart_tick past its deadline closes a connection that is still there.
OfferDeadline ==
  /\ offer.subscribed /\ Pays("deadlines")
  /\ offer' = [offer EXCEPT !.subscribed = FALSE, !.cut = TRUE]
  /\ errands' = Orphaned
  /\ UNCHANGED <<disk, receipts>>

\* The transport reports that connection gone, and the panel is told before the core
\* finds it down already.  A user who connects first outruns the report.
OfferReported ==
  /\ ~offer.subscribed /\ offer.cut
  /\ offer' = SuggestionsDisconnected([offer EXCEPT !.cut = FALSE])
  /\ UNCHANGED <<errands, disk, receipts, tokens>>

OfferReconnected ==
  /\ ~offer.subscribed
  /\ OfferBecomes(SuggestionsReconnected([o |-> [offer EXCEPT !.subscribed = TRUE], errands |-> errands]))
  /\ UNCHANGED <<disk, receipts, tokens>>

CloseOffer ==
  /\ offer.open /\ Pays("closes")
  /\ offer' = NoState([offer EXCEPT !.open = FALSE, !.applied = FALSE, !.deleted = FALSE,
                                    !.cleared = offer.next])
  /\ UNCHANGED <<errands, disk, receipts>>

\* The snapshot is read at the end of the log; older events then change nothing.
ReopenOffer ==
  /\ ~offer.open /\ offer.subscribed
  /\ offer' = [offer EXCEPT !.open = TRUE, !.applied = HasEvent("Applied"), !.deleted = HasEvent("Deleted")]
  /\ UNCHANGED <<errands, disk, receipts, tokens>>

OfferNext ==
  \/ PreviewSuggestion \/ ApplySuggestion
  \/ ApplyCommits \/ ApplyRefused \/ ApplyFaults \/ SuggestionApplied \/ SuggestionPreviewed
  \/ PreviewFailed \/ OfferEvent \/ OffersChange \/ OfferDisconnected \/ OfferDeadline
  \/ OfferReported \/ OfferReconnected \/ CloseOffer \/ ReopenOffer

OfferSpec == OfferInit /\ [][OfferNext]_offerVars

-----------------------------------------------------------------------------
(* Properties.                                                             *)

\* "The result will be checked before another application is offered": an
\* application is on offer only after an inspection younger than every earlier one of
\* this client that is not answered yet, and each of those was lost with its connection
\* or forgotten with the review.  The second case is the code's: close_review clears the
\* panel, so an application that still runs on this connection is unknown to the review
\* read again, and a file it has yet to replace is offered once more.  What inspects or
\* applies waits for a request of the live connection, unless the restart deadline closed
\* that connection and the user connected before the transport's report.
OfferIsChecked ==
  /\ StatusOf(offer) = "Ready" =>
       /\ offer.cleared <= offer.request
       /\ \A j \in errands : j.kind = "Apply" =>
            j.id < offer.request /\ (j.orphan \/ j.id < offer.cleared)
  /\ (HasRecord(offer) /\ offer.stage \in {"Checking", "Applying"} /\ ~offer.cut) =>
       offer.subscribed /\ \E j \in errands : j.id = offer.request /\ ~j.orphan
=============================================================================
