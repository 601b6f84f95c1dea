------------------------------ MODULE MCClient ------------------------------
(***************************************************************************)
(* The review, the creation form, the revision selector and the suggestion *)
(* panel of the client core over small instances.  Each keeps state of its *)
(* own and meets the others only at the daemon, so a behaviour runs one of *)
(* them, and the others keep still.                                        *)
(***************************************************************************)
EXTENDS ReviewView, Creation, Selector, SuggestionOffer

-----------------------------------------------------------------------------
(* The shown review: two reviews at three versions, and bounds.            *)

MCFilesAt ==
  (1 :> [All |-> << <<11>>, <<12, 21>>, <<11>> >>, Worktree |-> << <<31>>, <<32>>, <<>> >>]) @@
  (2 :> [All |-> << <<>>, <<41>> >>, Worktree |-> << <<>>, <<>> >>])

ViewQuiet == [reviews |-> {1}, events |-> 2, open |-> 1, close |-> 0, scope |-> 0, prefs |-> 0,
              search |-> 0, draft |-> 0, fail |-> 0, disconnect |-> 0, tier |-> "OpenReview"]
MCMenus ==
  { ViewQuiet,
    [ViewQuiet EXCEPT !.reviews = {1, 2}, !.events = 1, !.open = 2, !.close = 1],
    [ViewQuiet EXCEPT !.reviews = {1, 2}, !.events = 1, !.open = 2, !.tier = "ReviewSnapshot"],
    [ViewQuiet EXCEPT !.events = 1, !.scope = 2],
    [ViewQuiet EXCEPT !.events = 1, !.scope = 1, !.prefs = 1, !.tier = "ReviewSnapshot"],
    [ViewQuiet EXCEPT !.events = 1, !.open = 2, !.draft = 1],
    [ViewQuiet EXCEPT !.draft = 1, !.tier = "ReviewSnapshot"],
    [ViewQuiet EXCEPT !.events = 1, !.search = 3],
    [ViewQuiet EXCEPT !.events = 1, !.fail = 1, !.prefs = 1],
    [ViewQuiet EXCEPT !.disconnect = 1, !.draft = 1, !.tier = "ReviewSnapshot"],
    [ViewQuiet EXCEPT !.disconnect = 1] }

-----------------------------------------------------------------------------
(* The creation form, the revision selector and the suggestion panel.      *)

CreationQuiet == [ready |-> TRUE, revisions |-> 3, forms |-> 1, edits |-> 0, fails |-> 0,
                  drops |-> 0, deadlines |-> 0, reloads |-> 0, others |-> 0]
MCCreationMenus ==
  { CreationQuiet,
    [CreationQuiet EXCEPT !.edits = 2],
    [CreationQuiet EXCEPT !.fails = 2, !.revisions = 4],
    [CreationQuiet EXCEPT !.drops = 2, !.others = 1],
    [CreationQuiet EXCEPT !.drops = 1, !.fails = 1, !.revisions = 4],
    [CreationQuiet EXCEPT !.reloads = 1, !.drops = 1],
    [CreationQuiet EXCEPT !.reloads = 1, !.edits = 1],
    [CreationQuiet EXCEPT !.forms = 2, !.others = 1, !.revisions = 2],
    [CreationQuiet EXCEPT !.ready = FALSE, !.others = 2, !.revisions = 2],
    [CreationQuiet EXCEPT !.deadlines = 1] }
MCFirstRepos == <<1, 2>>

MCCatalog == << <<1, 2, 3>>, <<1, 4>> >>
MCRefQueries ==
  { [kind |-> "search", refs |-> {3, 4}, name |-> NoRef], [kind |-> "search", refs |-> {}, name |-> 9],
    [kind |-> "literal", refs |-> {}, name |-> 1], [kind |-> "invalid", refs |-> {}, name |-> NoRef] }
SelectorQuiet == [opens |-> 1, queries |-> 0, selects |-> 1, sets |-> 0, resets |-> 0, drafts |-> 0, closes |-> 0,
                  errors |-> 0, drops |-> 0]
MCSelectorMenus ==
  { SelectorQuiet,
    [SelectorQuiet EXCEPT !.opens = 2, !.selects = 2, !.queries = 1],
    [SelectorQuiet EXCEPT !.opens = 2, !.selects = 2, !.errors = 1],
    [SelectorQuiet EXCEPT !.opens = 2, !.drops = 1, !.errors = 1],
    [SelectorQuiet EXCEPT !.opens = 2, !.selects = 2, !.drops = 1],
    [SelectorQuiet EXCEPT !.opens = 2, !.drafts = 1],
    [SelectorQuiet EXCEPT !.sets = 2, !.drafts = 1],
    [SelectorQuiet EXCEPT !.opens = 2, !.resets = 1, !.closes = 1] }

OfferQuiet == [previews |-> 1, applies |-> 1, faults |-> 0, edits |-> 0, drops |-> 0, deadlines |-> 0, closes |-> 0]
MCOfferMenus ==
  { OfferQuiet,
    [OfferQuiet EXCEPT !.previews = 2, !.applies = 2, !.faults = 1, !.edits = 1, !.drops = 1, !.closes = 1],
    [OfferQuiet EXCEPT !.previews = 2, !.applies = 2, !.faults = 1, !.drops = 2, !.deadlines = 1] }

-----------------------------------------------------------------------------
VARIABLE part   \* the part that runs

ClientInit ==
  /\ part \in {"view", "creation", "selector", "offer"}
  /\ ViewInit /\ (part # "view" => left = ViewQuiet)
  /\ CreationInit /\ (part # "creation" => allowance = CreationQuiet)
  /\ SelectorInit /\ (part # "selector" => turns = SelectorQuiet)
  /\ OfferInit /\ (part # "offer" => tokens = OfferQuiet)

ClientNext ==
  \/ part = "view" /\ ViewNext /\ UNCHANGED <<part, creationVars, selectorVars, offerVars>>
  \/ part = "creation" /\ CreationNext /\ UNCHANGED <<part, viewVars, selectorVars, offerVars>>
  \/ part = "selector" /\ SelectorNext /\ UNCHANGED <<part, viewVars, creationVars, offerVars>>
  \/ part = "offer" /\ OfferNext /\ UNCHANGED <<part, viewVars, creationVars, selectorVars>>

ClientSpec == ClientInit /\ [][ClientNext]_<<part, viewVars, creationVars, selectorVars, offerVars>>
=============================================================================
