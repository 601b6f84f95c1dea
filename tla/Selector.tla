------------------------------ MODULE Selector ------------------------------
(***************************************************************************)
(* Choosing a revision (crates/nits-client-core, ref_selector.rs and       *)
(* browse.rs): the selector with the daemon's catalog of refs, its filter  *)
(* and selection, the target updates it sends, and Browse, whose candidate *)
(* becomes the revision on screen only when its tree has resolved.         *)
(*                                                                         *)
(* A ref is a number, WorkingTree among them.  A query is what its text    *)
(* means: a search with the refs it matches and the ref it may name, or    *)
(* explicit syntax, literal or invalid.                                    *)
(***************************************************************************)
EXTENDS Integers, Sequences, FiniteSets, SequencesExt, TLC

CONSTANTS
  ReviewRepos,      \* the repositories of the review's targets
  Catalog,          \* [repo -> the refs the daemon lists]
  RefQueries,       \* the queries a user may type
  SelectorMenus     \* bounds: how often each input may happen

\* The meaning of a query, and a catalog of refs for every repository.
Queries == [kind : {"search", "literal", "invalid"}, refs : SUBSET Nat, name : Nat]
ASSUME SelectorAssumption ==
  /\ Catalog \in [ReviewRepos -> Seq(Nat)]
  /\ RefQueries \subseteq Queries

WorkingTree == 1
NoRepo == 0
NoRef == 0
Sides == {"Base", "Head"}
Purposes == Sides \cup {"Browse"}
Everything == [kind |-> "search", refs |-> 0..9, name |-> NoRef]

NoSelector == [repo |-> NoRepo, purpose |-> "Browse", id |-> 0, current |-> NoRef, query |-> Everything,
               catalog |-> <<>>, options |-> <<>>, selected |-> 0, status |-> "Closed"]
NoBrowse == [repo |-> NoRepo, ref |-> NoRef, id |-> 0]
NoAttempt == [repo |-> NoRepo, ref |-> NoRef, id |-> 0, state |-> "None"]

VARIABLES
  selector,     \* ref_selector
  browse,       \* the committed Browse selection
  attempt,      \* browse_attempt
  picks,        \* the rest of the client: subscribed, draft, targets, pending updates, ids
  calls,        \* requests the daemon has, and the updates it had when a connection was lost
  feed,         \* target updates it committed and the client has yet to see
  turns         \* what remains of the chosen menu

selectorVars == <<selector, browse, attempt, picks, calls, feed, turns>>

SelectorInit ==
  /\ selector = NoSelector /\ browse = NoBrowse /\ attempt = NoAttempt
  /\ picks = [subscribed |-> TRUE, draft |-> FALSE, repo |-> NoRepo, next |-> 1, pending |-> {},
              targets |-> [r \in ReviewRepos |-> [Base |-> 2, Head |-> WorkingTree]],
              chosen |-> 0,     \* history: the request of the last choice of a revision to browse,
              asked |-> 0,      \* of a target's, and the requests that were lost with their
              lost |-> {}]      \* connection, whose entries are OutcomeUnknown from then on
  /\ calls = {} /\ feed = <<>> /\ turns \in SelectorMenus

-----------------------------------------------------------------------------
(* The selector.                                                           *)

\* The refs of a sequence that are in a set, in their order: the n-th of them is
\* the one that has n of them up to itself.
Keeping(seq, set) ==
  LET at == {i \in DOMAIN seq : seq[i] \in set}
  IN [n \in 1..Cardinality(at) |-> seq[CHOOSE i \in at : Cardinality({k \in at : k <= i}) = n]]

\* The options of a query.  Explicit syntax is taken literally in Browse only.
OptionsOf(sel) ==
  LET q == sel.query
      allowed == q.refs \ (IF sel.purpose = "Base" THEN {WorkingTree} ELSE {})
      matching == Keeping(sel.catalog, allowed)
      named == IF sel.purpose = "Browse" /\ q.name # NoRef /\ q.name \notin Range(matching)
               THEN <<q.name>> ELSE <<>>
  IN IF sel.purpose = "Browse" /\ q.kind = "literal" THEN <<q.name>>
     ELSE IF sel.purpose = "Browse" /\ q.kind = "invalid" THEN <<>>
     ELSE matching \o named

Filter(sel) == [sel EXCEPT !.options = OptionsOf(sel), !.selected = 0]

InstallCatalog(sel, refs) ==
  Filter([sel EXCEPT !.status = "Ready",
            !.catalog = IF sel.current \in Range(refs) THEN refs ELSE <<sel.current>> \o refs])

StepSelection(sel, delta) ==
  LET last == Len(sel.options) - 1
      at == IF sel.selected > last THEN last ELSE sel.selected
      moved == at + delta
  IN [sel EXCEPT !.selected = IF last < 0 THEN 0
                              ELSE IF moved < 0 THEN 0 ELSE IF moved > last THEN last ELSE moved]

MatchesRequest(sel, j) == sel.status # "Closed" /\ sel.repo = j.repo /\ sel.id = j.id

\* The ref at an index, when there is one and it may be used on that side.
SelectionAt(sel, index) ==
  IF index >= Len(sel.options) THEN NoRef
  ELSE IF sel.purpose = "Base" /\ sel.options[index + 1] = WorkingTree THEN NoRef
  ELSE sel.options[index + 1]

IsBrowse(sel) == sel.status # "Closed" /\ sel.purpose = "Browse"
CloseBrowseSelector(sel) == IF IsBrowse(sel) THEN NoSelector ELSE sel

-----------------------------------------------------------------------------
(* Actions of the user.                                                    *)

Costs(what) == turns[what] > 0 /\ turns' = [turns EXCEPT ![what] = @ - 1]
Call(id, kind, repo, ref, side) == [id |-> id, kind |-> kind, repo |-> repo, ref |-> ref, side |-> side]

CurrentOf(repo, purpose) ==
  IF purpose \in Sides THEN picks.targets[repo][purpose]
  ELSE IF browse.repo = repo THEN browse.ref ELSE picks.targets[repo].Head

OpenRefSelector ==
  /\ picks.subscribed /\ Costs("opens")
  /\ \E repo \in ReviewRepos, purpose \in Purposes :
       /\ purpose = "Browse" => ~picks.draft
       /\ selector' = [NoSelector EXCEPT !.repo = repo, !.purpose = purpose, !.id = picks.next,
                                         !.current = CurrentOf(repo, purpose), !.status = "Loading"]
       /\ attempt' = IF purpose = "Browse" THEN NoAttempt ELSE attempt
       /\ picks' = [picks EXCEPT !.next = @ + 1, !.repo = IF purpose = "Browse" THEN repo ELSE @]
       /\ calls' = calls \cup {Call(picks.next, "ListRefs", repo, NoRef, "None")}
  /\ UNCHANGED <<browse, feed>>

RefSelectorQuery ==
  /\ selector.status # "Closed" /\ Costs("queries")
  /\ \E q \in RefQueries \ {selector.query} : selector' = Filter([selector EXCEPT !.query = q])
  /\ UNCHANGED <<browse, attempt, picks, calls, feed>>

RefSelectorStep ==
  /\ selector.status # "Closed" /\ selector.options # <<>>
  /\ \E delta \in {-1, 1} : selector' = StepSelection(selector, delta)
  /\ UNCHANGED <<browse, attempt, picks, calls, feed, turns>>

\* set_browse_ref with a revision: the candidate is asked for, nothing is replaced.
AsksForTree(repo, ref) ==
  /\ picks.subscribed /\ ~picks.draft
  /\ attempt' = [repo |-> repo, ref |-> ref, id |-> picks.next, state |-> "Loading"]
  /\ picks' = [picks EXCEPT !.next = @ + 1, !.repo = repo, !.chosen = picks.next]
  /\ calls' = calls \cup {Call(picks.next, "BrowseTree", repo, ref, "None")}

SelectRef ==
  /\ selector.status # "Closed" /\ Costs("selects")
  /\ \E index \in 0..(Len(selector.options) - 1) :
       LET ref == SelectionAt(selector, index) IN
       /\ ref # NoRef
       /\ selector' = [selector EXCEPT !.selected = index, !.status = "Saving"]
       /\ IF selector.purpose = "Browse" THEN AsksForTree(selector.repo, ref)
          ELSE LET call == Call(picks.next, "Update", selector.repo, ref, selector.purpose)
               IN /\ picks.subscribed
                  /\ picks' = [picks EXCEPT !.next = @ + 1, !.pending = @ \cup {call.id}, !.asked = call.id]
                  /\ calls' = calls \cup {call} /\ UNCHANGED attempt
  /\ UNCHANGED <<browse, feed>>

\* Without the selector.  No host sends it; with the selector of another repository
\* open and saving, that one would be left saving.
SetBrowseRef ==
  /\ ~IsBrowse(selector) /\ Costs("sets")
  /\ \E repo \in ReviewRepos : \E ref \in Range(Catalog[repo]) : AsksForTree(repo, ref)
  /\ UNCHANGED <<selector, browse, feed>>

CloseRefSelector ==
  /\ selector.status # "Closed"
  /\ selector' = NoSelector
  /\ attempt' = IF selector.purpose = "Browse" THEN NoAttempt ELSE attempt
  /\ UNCHANGED <<browse, picks, calls, feed, turns>>

SelectBrowseRepo ==
  /\ Costs("resets")
  /\ \E repo \in ReviewRepos : picks' = [picks EXCEPT !.repo = repo]
  /\ selector' = CloseBrowseSelector(selector) /\ attempt' = NoAttempt
  /\ UNCHANGED <<browse, calls, feed>>

\* set_browse_ref without a revision: back to the heads of the review.
ResetBrowse ==
  /\ Costs("resets") /\ ~picks.draft
  /\ selector' = CloseBrowseSelector(selector) /\ browse' = NoBrowse /\ attempt' = NoAttempt
  /\ UNCHANGED <<picks, calls, feed>>

DraftToggled ==
  /\ Costs("drafts")
  /\ picks' = [picks EXCEPT !.draft = ~@]
  /\ UNCHANGED <<selector, browse, attempt, calls, feed>>

\* close_review, and the review is opened again.
ReviewClosedAndOpened ==
  /\ Costs("closes")
  /\ selector' = NoSelector /\ browse' = NoBrowse /\ attempt' = NoAttempt
  /\ picks' = [picks EXCEPT !.pending = {}, !.draft = FALSE, !.repo = NoRepo]
  /\ UNCHANGED <<calls, feed>>

-----------------------------------------------------------------------------
(* Answers and events.                                                     *)

RefsAnswer ==
  /\ \E j \in calls :
       /\ j.kind = "ListRefs" /\ calls' = calls \ {j}
       /\ selector' = IF MatchesRequest(selector, j) THEN InstallCatalog(selector, Catalog[j.repo])
                      ELSE selector
  /\ UNCHANGED <<browse, attempt, picks, feed, turns>>

\* Mutant: an answer is taken for the candidate whichever request it answers.
AnswersAnyAttempt(j) == attempt.state = "Loading" /\ attempt.repo = j.repo

AnswersAttempt(j) == attempt.state = "Loading" /\ attempt.id = j.id /\ attempt.repo = j.repo

BrowseAnswer ==
  /\ \E j \in calls :
       /\ j.kind = "BrowseTree" /\ calls' = calls \ {j}
       /\ IF ~AnswersAttempt(j) THEN UNCHANGED <<selector, browse, attempt>>
          ELSE IF picks.draft
          THEN /\ attempt' = [attempt EXCEPT !.state = "Failed"]
               /\ selector' = IF IsBrowse(selector) THEN [selector EXCEPT !.status = "Error"] ELSE selector
               /\ UNCHANGED browse
          ELSE /\ browse' = [repo |-> j.repo, ref |-> j.ref, id |-> j.id]
               /\ attempt' = NoAttempt
               /\ selector' = IF IsBrowse(selector) /\ selector.repo = j.repo THEN NoSelector ELSE selector
  /\ UNCHANGED <<picks, feed, turns>>

\* An error answers the catalog, the candidate or the target update, on the connection
\* it was asked on.  (The two errors of a restart keep the entry: ClientSync.)
SelectorError ==
  /\ Costs("errors")
  /\ \E j \in calls :
       /\ calls' = calls \ {j}
       /\ \/ /\ j.kind = "ListRefs"
             /\ selector' = IF MatchesRequest(selector, j) THEN [selector EXCEPT !.status = "Error"] ELSE selector
             /\ UNCHANGED <<attempt, picks>>
          \/ /\ j.kind = "BrowseTree"
             /\ LET failed == attempt.state = "Loading" /\ attempt.id = j.id
                IN /\ attempt' = IF failed THEN [attempt EXCEPT !.state = "Failed"] ELSE attempt
                   /\ selector' = IF failed /\ IsBrowse(selector) /\ selector.repo = attempt.repo
                                  THEN [selector EXCEPT !.status = "Error"] ELSE selector
             /\ UNCHANGED picks
          \/ /\ j.kind = "Update" /\ j.id \notin picks.lost
             /\ picks' = [picks EXCEPT !.pending = @ \ {j.id}]
             /\ selector' = IF j.id \in picks.pending /\ selector.status # "Closed" /\ selector.purpose \in Sides
                            THEN [selector EXCEPT !.status = "Error"] ELSE selector
             /\ UNCHANGED attempt
  /\ UNCHANGED <<browse, feed>>

\* The daemon commits a target update, a lost one too; its event reaches the client in
\* order.  (A receipt that overtakes an event is ClientSync's.)
UpdateCommits ==
  /\ \E j \in calls : j.kind = "Update" /\ calls' = calls \ {j} /\ feed' = Append(feed, j)
  /\ UNCHANGED <<selector, browse, attempt, picks, turns>>

ClosesSelector(e) == selector.repo = e.repo /\ selector.purpose \in Sides

TargetUpdated ==
  /\ picks.subscribed /\ feed # <<>>
  /\ LET e == feed[1] IN
       /\ picks' = [picks EXCEPT !.targets[e.repo][e.side] = e.ref, !.pending = @ \ {e.id}]
       /\ selector' = IF ClosesSelector(e) THEN NoSelector ELSE selector
  /\ feed' = Tail(feed)
  /\ UNCHANGED <<browse, attempt, calls, turns>>

\* Mutant: a candidate that was loading is left loading.
DisconnectsKeeping(a, sel) == [attempt |-> a, selector |-> sel]

\* browse_disconnected, then the selector that waits for its catalog.
SelectorDisconnected(a, sel) ==
  LET loading == a.state = "Loading" IN
  [attempt |-> IF loading THEN [a EXCEPT !.state = "Failed"] ELSE a,
   selector |-> IF (loading /\ IsBrowse(sel)) \/ sel.status = "Loading"
                THEN [sel EXCEPT !.status = "Error"] ELSE sel]

\* Requests end with the connection.  An update the daemon has may still commit, or not;
\* nothing answers it or sends it again, and a selector that saves a side is left so.
PeerLost ==
  /\ picks.subscribed /\ Costs("drops")
  /\ picks' = [picks EXCEPT !.subscribed = FALSE, !.lost = @ \cup {j.id : j \in calls}]
  /\ LET after == SelectorDisconnected(attempt, selector)
     IN attempt' = after.attempt /\ selector' = after.selector
  /\ calls' = {j \in calls : j.kind = "Update"}
  /\ UNCHANGED <<browse, feed>>

PeerBack ==
  /\ ~picks.subscribed
  /\ picks' = [picks EXCEPT !.subscribed = TRUE]
  /\ UNCHANGED <<selector, browse, attempt, calls, feed, turns>>

SelectorNext ==
  \/ OpenRefSelector \/ RefSelectorQuery \/ RefSelectorStep \/ SelectRef \/ SetBrowseRef \/ CloseRefSelector
  \/ SelectBrowseRepo \/ ResetBrowse \/ DraftToggled \/ ReviewClosedAndOpened
  \/ RefsAnswer \/ BrowseAnswer \/ SelectorError \/ UpdateCommits \/ TargetUpdated
  \/ PeerLost \/ PeerBack

SelectorSpec == SelectorInit /\ [][SelectorNext]_selectorVars

-----------------------------------------------------------------------------
(* Properties.                                                             *)

\* A request that an answer of the live connection will end.
Asked(kind, id) == id \notin picks.lost /\ \E j \in calls : j.kind = kind /\ j.id = id

\* A selector that loads, and a candidate that loads, wait for a request of the live
\* connection.  A selector that saves waits for such a candidate, or for its own target
\* update, which is listed as pending and is either asked on the live connection, or
\* committed with its event on the way, or was lost with its connection: such an update
\* is never answered or sent again (lib.rs clear_in_flight), so the selector stays until
\* its event arrives or the user closes it, and the entry says that its outcome is unknown.
SelectorWaits ==
  /\ selector.status = "Loading" => Asked("ListRefs", selector.id)
  /\ attempt.state = "Loading" => Asked("BrowseTree", attempt.id)
  /\ selector.status = "Saving" =>
       IF selector.purpose = "Browse" THEN attempt.state = "Loading" /\ attempt.repo = selector.repo
       ELSE /\ picks.asked \in picks.pending
            /\ \/ Asked("Update", picks.asked)
               \/ \E e \in Range(feed) : e.id = picks.asked /\ e.repo = selector.repo
               \/ picks.asked \in picks.lost
  /\ selector.selected = 0 \/ selector.selected < Len(selector.options)

\* "Failed or superseded candidates never replace the file currently being read":
\* what Browse shows changes to the last revision chosen, and to no other.
BrowseStep == browse' \in {browse, NoBrowse} \/ browse'.id = picks.chosen
BrowseIsLatest == [][BrowseStep]_selectorVars
=============================================================================
