------------------------------ MODULE Creation ------------------------------
(***************************************************************************)
(* The form that creates a review (crates/nits-client-core, creation.rs    *)
(* and the list handling of lib.rs): an editable draft, a frozen           *)
(* submission whose acknowledgement can be lost, the lookups that settle   *)
(* it, and the form a browser gives back to a new core after a reload.     *)
(*                                                                         *)
(* There is one workspace.  A title is Blank or a number, a revision text  *)
(* parses ("good") or not ("bad").  The daemon's state is its event log.   *)
(***************************************************************************)
EXTENDS Integers, Sequences, FiniteSets, SequencesExt, TLC

CONSTANTS
  Repos,            \* the repositories a workspace may hold
  FirstRepos,       \* the ones it holds at the start: Seq(Repos)
  Titles,           \* what the user may type as a title, beside Blank
  CreationMenus     \* bounds: the revisions of a form and how often each other input
                    \* may happen; ready, whether the client has its lists at the start

Foreign == -1            \* the title another client gives to a review

\* Another client's title is one the user of this client does not type.
ASSUME CreationAssumption ==
  /\ FirstRepos \in Seq(Repos)
  /\ Foreign \notin Titles
  /\ CreationMenus \subseteq [ready : BOOLEAN, revisions : Nat, forms : Nat, edits : Nat, fails : Nat,
                              drops : Nat, deadlines : Nat, reloads : Nat, others : Nat]

Blank == 0
NoId == -1
NoSubmission == [title |-> Blank, targets |-> <<>>]
NoDefaults == [r \in Repos |-> "None"]
NoForm == [rid |-> NoId, title |-> Blank, targets |-> <<>>, defaults |-> NoDefaults,
           selected |-> NoId, revision |-> 0, status |-> "None", sub |-> NoSubmission,
           next |-> "None"]

VARIABLES
  ledger,        \* the daemon's events
  posts,       \* requests the daemon has, with those of connections that are gone
  form,       \* home.creating
  client,     \* connection, cursor and lists of the client
  saved,      \* what the browser kept of the form over a reload
  allowance        \* what remains of the chosen menu

creationVars == <<ledger, posts, form, client, saved, allowance>>

\* History variable of client: cut, the restart deadline closed a connection
\* in use.
FreshClient == [up |-> FALSE, seen |-> NoId, known |-> FALSE, repos |-> <<>>, reviews |-> {},
                cut |-> FALSE]
NotSaved == [form |-> NoForm, resume |-> "Editing", foreign |-> FALSE]

CreationInit ==
  /\ ledger = <<>> /\ posts = {} /\ form = NoForm /\ saved = NotSaved
  /\ allowance \in CreationMenus
  /\ client = IF allowance.ready
              THEN [FreshClient EXCEPT !.up = TRUE, !.seen = 0, !.known = TRUE, !.repos = FirstRepos]
              ELSE FreshClient

-----------------------------------------------------------------------------
(* The daemon: reviews and attached repositories follow from the log.      *)

ReviewCreated(rid, sub) == [kind |-> "Created", rid |-> rid, sub |-> sub, repo |-> NoId]
ReviewUpdated(rid) == [kind |-> "Updated", rid |-> rid, sub |-> NoSubmission, repo |-> NoId]
ReviewDeleted(rid) == [kind |-> "Deleted", rid |-> rid, sub |-> NoSubmission, repo |-> NoId]
RepoAttached(r) == [kind |-> "Attached", rid |-> NoId, sub |-> NoSubmission, repo |-> r]
RepoDetached(r) == [kind |-> "Detached", rid |-> NoId, sub |-> NoSubmission, repo |-> r]

\* The review list after an event, for the daemon's and the client's alike.
ListAfter(reviews, e) ==
  CASE e.kind = "Created" -> {v \in reviews : v.rid # e.rid} \cup {[rid |-> e.rid, sub |-> e.sub]}
    [] e.kind = "Updated" -> {IF v.rid = e.rid THEN [v EXCEPT !.sub.title = Foreign] ELSE v : v \in reviews}
    [] e.kind = "Deleted" -> {v \in reviews : v.rid # e.rid}
    [] OTHER -> reviews

\* A repository is in the list at most once.
ReposAfter(repos, e) ==
  CASE e.kind = "Attached" -> Append(RemoveFirst(repos, e.repo), e.repo)
    [] e.kind = "Detached" -> RemoveFirst(repos, e.repo)
    [] OTHER -> repos

ReviewsAt(n) == FoldLeft(ListAfter, {}, SubSeq(ledger, 1, n))
ReposAt(n) == FoldLeft(ReposAfter, FirstRepos, SubSeq(ledger, 1, n))
LogEnd == Len(ledger)
Found(n, rid) == {v \in ReviewsAt(n) : v.rid = rid}

RepoIds(targets) == {targets[i].repo : i \in DOMAIN targets}
Distinct(targets) == Cardinality(RepoIds(targets)) = Len(targets)

\* What Mutation::CreateReview does with the log as it is: the identifier of a deleted
\* review stays taken; refs always resolve.
MayCreate(j) ==
  /\ Len(j.sub.targets) > 0 /\ Distinct(j.sub.targets)
  /\ \A n \in 0..LogEnd : Found(n, j.rid) = {}
  /\ RepoIds(j.sub.targets) \subseteq Range(ReposAt(LogEnd))

-----------------------------------------------------------------------------
(* The client.  Handlers are functions on s = [form, jobs, client].        *)

S0 == [f |-> form, jobs |-> posts, c |-> client]

Editable(f) == f.status \in {"Editing", "Failed"}
Active(f) == f # NoForm /\ f.status # "Succeeded"

FreeJob(s) == CHOOSE i \in 1..(Cardinality(s.jobs) + 1) : \A j \in s.jobs : j.id # i
Asks(s, kind, rid, repo, sub) ==
  [s EXCEPT !.jobs = @ \cup {[id |-> FreeJob(s), kind |-> kind, rid |-> rid, repo |-> repo,
                              sub |-> sub, at |-> LogEnd, result |-> "None", orphan |-> FALSE]}]
Answered(s, j) == [s EXCEPT !.jobs = @ \ {j}]

\* CreationBase and parse_ref: what a target's base resolves to, "bad" when it does not yet.
BaseOf(f, t) ==
  IF t.base # "auto" THEN t.base
  ELSE IF f.defaults[t.repo] = "Ready" THEN "default" ELSE "bad"

Snapshot(f) ==
  [title |-> f.title,
   targets |-> [i \in DOMAIN f.targets |->
                 [repo |-> f.targets[i].repo, base |-> BaseOf(f, f.targets[i]), head |-> f.targets[i].head]]]
SnapshotOK(f) ==
  /\ f.title # Blank /\ f.targets # <<>>
  /\ \A i \in DOMAIN f.targets : BaseOf(f, f.targets[i]) # "bad" /\ f.targets[i].head # "bad"

Edited(f) == [f EXCEPT !.status = IF Distinct(f.targets) THEN "Editing" ELSE "Failed"]

\* Asks once for the default base of every repository of the draft.
AskDefault(s, t) ==
  IF s.f.defaults[t.repo] # "None" THEN s
  ELSE Asks([s EXCEPT !.f.defaults[t.repo] = "Loading"], "Default", s.f.rid, t.repo, NoSubmission)

CreationDefaults(s) ==
  IF s.c.up /\ Editable(s.f) THEN FoldLeft(AskDefault, s, s.f.targets) ELSE s

NewTarget(id, repo) == [id |-> id, repo |-> repo, base |-> "auto", head |-> "good"]

StartCreation(s, rid) ==
  IF Active(s.f) THEN s
  ELSE CreationDefaults(
         [s EXCEPT !.f = [NoForm EXCEPT !.rid = rid, !.status = "Editing",
            !.targets = IF s.c.repos = <<>> THEN <<>> ELSE <<NewTarget(0, s.c.repos[1])>>]])

EditTarget(f, i, edit) ==
  CASE edit.field = "repo" -> [f EXCEPT !.targets[i].repo = edit.to, !.targets[i].base = "auto"]
    [] edit.field = "base" -> [f EXCEPT !.targets[i].base = edit.to]
    [] edit.field = "head" -> [f EXCEPT !.targets[i].head = edit.to]

AddTarget(s) ==
  LET free == {i \in DOMAIN s.c.repos : s.c.repos[i] \notin RepoIds(s.f.targets)}
      id == s.f.revision
  IN IF free = {} THEN s
     ELSE CreationDefaults([s EXCEPT !.f = Edited([s.f EXCEPT !.selected = id,
                                           !.targets = Append(@, NewTarget(id, s.c.repos[Min(free)]))])])

RemoveTarget(f) ==
  LET at == {i \in DOMAIN f.targets : f.targets[i].id = f.selected}
      i == CHOOSE i \in at : TRUE
      rest == RemoveAt(f.targets, i)
  IN IF at = {} THEN f
     ELSE Edited([f EXCEPT !.targets = rest,
            !.selected = IF rest = <<>> THEN NoId ELSE rest[IF i <= Len(rest) THEN i ELSE Len(rest)].id])

SendCreation(s, sub) ==
  Asks([s EXCEPT !.f.status = "Pending", !.f.sub = sub], "Create", s.f.rid, NoId, sub)

\* Mutant: the default base is sent in place of the first target's own.
SubmitsUnchecked(s) ==
  IF /\ s.c.up /\ s.c.known
     /\ RepoIds(s.f.targets) \subseteq Range(s.c.repos)
     /\ Distinct(s.f.targets) /\ SnapshotOK(s.f)
  THEN SendCreation(s, [Snapshot(s.f) EXCEPT !.targets[1].base = "default"])
  ELSE [s EXCEPT !.f.status = "Failed"]

SubmitCreation(s) ==
  IF /\ s.c.up /\ s.c.known
     /\ RepoIds(s.f.targets) \subseteq Range(s.c.repos)
     /\ Distinct(s.f.targets) /\ SnapshotOK(s.f)
  THEN SendCreation(s, Snapshot(s.f))
  ELSE [s EXCEPT !.f.status = "Failed"]

WriteFailed(s, rid) ==
  IF s.f.rid = rid /\ s.f.status = "Pending"
  THEN Asks([s EXCEPT !.f.status = "Reconciling", !.f.next = "Inspect"], "Check", rid, NoId, NoSubmission)
  ELSE s

\* A lookup after a refused write says the review is not there.
FailureChecked(s, rid) ==
  IF s.f.rid = rid /\ s.f.status = "Reconciling" THEN [s EXCEPT !.f.status = "Failed"] ELSE s

\* Mutant: the forms that wait for an answer are left waiting.
DisconnectedForgetful(f) ==
  [f EXCEPT !.defaults = [r \in Repos |-> IF @[r] = "Loading" THEN "None" ELSE @[r]]]

CreationDisconnected(f) ==
  [f EXCEPT !.defaults = [r \in Repos |-> IF @[r] = "Loading" THEN "None" ELSE @[r]],
            !.status = IF @ \in {"Pending", "Reconciling"} THEN "Interrupted" ELSE @]

ReconcileCreation(s, next) ==
  LET t == IF next = "Retry" THEN [s EXCEPT !.f.revision = @ + 1] ELSE s
  IN IF s.f.status # "Interrupted" THEN s
     ELSE IF ~s.c.up THEN t
     ELSE Asks([t EXCEPT !.f.status = "Reconciling", !.f.next = next], "Reconcile", s.f.rid, NoId, NoSubmission)

CreationReconnected(s) == ReconcileCreation(CreationDefaults(s), "Inspect")

CreationFound(f, v) ==
  IF f.rid # v.rid \/ f.status \notin {"Pending", "Interrupted", "Reconciling"} THEN f
  ELSE [f EXCEPT !.status = IF f.sub = v.sub THEN "Succeeded" ELSE "Interrupted"]

LookupFailed(s, rid, missing) ==
  IF s.f.rid # rid \/ s.f.status # "Reconciling" THEN s
  ELSE IF missing /\ s.f.next = "Retry"
       THEN IF Distinct(s.f.sub.targets) THEN SendCreation(s, s.f.sub)
            ELSE [s EXCEPT !.f.status = "Failed"]
       ELSE [s EXCEPT !.f.status = "Interrupted"]

RestoreCreation(s, f, resume) ==
  LET submitted == IF resume = "Submitted" /\ Editable(f)
                   THEN IF SnapshotOK(f) THEN [f EXCEPT !.status = "Interrupted", !.sub = Snapshot(f)]
                        ELSE [f EXCEPT !.status = "Failed"]
                   ELSE f
      checked == IF Editable(submitted) /\ ~Distinct(f.targets)
                 THEN [submitted EXCEPT !.status = "Failed"] ELSE submitted
  IN CreationReconnected([s EXCEPT !.f = CreationDisconnected(checked)])

\* apply_event: the form first, then the lists; a workspace must be known.
ApplyToLists(s, e) ==
  [s EXCEPT !.f = IF e.kind = "Created" THEN CreationFound(@, [rid |-> e.rid, sub |-> e.sub]) ELSE @,
            !.c.reviews = ListAfter(@, e),
            !.c.repos = IF s.c.known THEN ReposAfter(@, e) ELSE @]

ListAnswer(s, j, at) ==
  CASE j.kind = "Workspaces" ->
         Asks([s EXCEPT !.c.known = TRUE, !.c.repos = ReposAt(at)],
              "Reviews", NoId, NoId, NoSubmission)
    [] j.kind = "Reviews" -> [s EXCEPT !.c.reviews = ReviewsAt(at)]

LookupAnswer(s, j, at) ==
  IF Found(at, j.rid) = {}
  THEN IF j.kind = "Check" THEN FailureChecked(s, j.rid) ELSE LookupFailed(s, j.rid, TRUE)
  ELSE LET v == CHOOSE v \in Found(at, j.rid) : TRUE
       IN [s EXCEPT !.f = CreationFound(@, v),
             !.c.reviews = {r \in @ : r.rid # v.rid} \cup {v}]

\* Response::Committed carries the event; newer than the cursor, it moves it.
CommittedAnswer(s, j) ==
  LET e == ledger[j.at]
      t == [s EXCEPT !.f = CreationFound(@, [rid |-> e.rid, sub |-> e.sub])]
  IN IF j.at <= s.c.seen THEN t
     ELSE ApplyToLists([t EXCEPT !.c.seen = j.at], e)

\* Every request of the connection is forgotten; a write that has begun goes on.
ClearInFlight(s) ==
  [s EXCEPT !.jobs = {[j EXCEPT !.orphan = TRUE] :
                        j \in {k \in s.jobs : k.kind = "Create" /\ k.result = "None"}}]

-----------------------------------------------------------------------------
(* Actions.                                                                *)

Sets(s) == form' = s.f /\ posts' = s.jobs /\ client' = s.c
Uses(what) == allowance[what] > 0 /\ allowance' = [allowance EXCEPT ![what] = @ - 1]
Mine(kinds) == {j \in posts : j.kind \in kinds /\ ~j.orphan}

\* A new form has a new identity; the bound is on forms.
StartReview ==
  /\ client.known /\ Uses("forms")
  /\ Sets(StartCreation(S0, allowance.forms))
  /\ UNCHANGED <<ledger, saved>>

CancelNewReview ==
  /\ form # NoForm /\ (Editable(form) \/ form.status = "Succeeded")
  /\ form' = NoForm
  /\ UNCHANGED <<ledger, posts, client, saved, allowance>>

\* An intent on the editable draft; each is acknowledged by a new revision.
Revised == [form EXCEPT !.revision = @ + 1]

EditTitle ==
  /\ Editable(form) /\ form.revision < allowance.revisions
  /\ \E t \in Titles \ {form.title} : form' = Edited([Revised EXCEPT !.title = t])
  /\ UNCHANGED <<ledger, posts, client, saved, allowance>>

TargetEdits ==
  {[field |-> "repo", to |-> r] : r \in Repos} \cup
  {[field |-> "base", to |-> b] : b \in {"good", "bad"}} \cup {[field |-> "head", to |-> "bad"]}

EditCreationField ==
  /\ Editable(form) /\ form.revision < allowance.revisions /\ Uses("edits")
  /\ \E i \in DOMAIN form.targets, e \in TargetEdits :
       Sets(CreationDefaults([S0 EXCEPT !.f = Edited(EditTarget(Revised, i, e))]))
  /\ UNCHANGED <<ledger, saved>>

SelectCreationTarget ==
  /\ Editable(form) /\ form.revision < allowance.revisions /\ Uses("edits")
  /\ \E i \in DOMAIN form.targets :
       form.selected # form.targets[i].id /\ form' = [Revised EXCEPT !.selected = form.targets[i].id]
  /\ UNCHANGED <<ledger, posts, client, saved>>

AddCreationTarget ==
  /\ Editable(form) /\ form.revision < allowance.revisions /\ Uses("edits")
  /\ Sets(AddTarget([S0 EXCEPT !.f = Revised]))
  /\ UNCHANGED <<ledger, saved>>

RemoveCreationTarget ==
  /\ Editable(form) /\ form.revision < allowance.revisions /\ Uses("edits")
  /\ form' = RemoveTarget(Revised)
  /\ UNCHANGED <<ledger, posts, client, saved>>

SubmitReviewCreation ==
  /\ Editable(form) /\ form.revision < allowance.revisions
  /\ Sets(SubmitCreation([S0 EXCEPT !.f = Revised]))
  /\ UNCHANGED <<ledger, saved, allowance>>

\* The host could not make an action of the input.
InvalidAction ==
  /\ Editable(form) /\ form.status # "Failed" /\ Uses("fails")
  /\ form' = [form EXCEPT !.status = "Failed"]
  /\ UNCHANGED <<ledger, posts, client, saved>>

RetryReviewCreation ==
  /\ form.status = "Interrupted" /\ form.revision < allowance.revisions
  /\ Sets(ReconcileCreation(S0, "Retry"))
  /\ UNCHANGED <<ledger, saved, allowance>>

\* The browser reloads: it kept the form as it is, or as it was before a submit
\* it had no acknowledgement of, perhaps from another daemon's page.
Reload ==
  /\ Uses("reloads")
  /\ form' = NoForm /\ client' = FreshClient /\ posts' = ClearInFlight(S0).jobs
  /\ \E resume \in {"Editing", "Submitted"}, foreign \in BOOLEAN :
       LET before == IF resume = "Submitted" /\ form.status = "Pending"
                     THEN [form EXCEPT !.status = "Editing"] ELSE form
       IN saved' = [form |-> before, resume |-> resume, foreign |-> foreign]
  /\ UNCHANGED ledger

Restore ==
  /\ saved.form # NoForm /\ saved' = NotSaved
  /\ IF saved.foreign \/ form # NoForm THEN UNCHANGED <<form, posts, client>>
     ELSE Sets(RestoreCreation(S0, saved.form, saved.resume))
  /\ UNCHANGED <<ledger, allowance>>

\* Subscribed: from the cursor, or from now in a new core; the lists are read again.
Connected ==
  /\ ~client.up
  /\ LET s == [S0 EXCEPT !.c.up = TRUE, !.c.seen = IF @ = NoId THEN LogEnd ELSE @]
     IN Sets(CreationReconnected(Asks(s, "Workspaces", NoId, NoId, NoSubmission)))
  /\ UNCHANGED <<ledger, saved, allowance>>

TransportDisconnected ==
  /\ client.up /\ Uses("drops")
  /\ Sets([ClearInFlight(S0) EXCEPT !.c.up = FALSE, !.f = CreationDisconnected(@)])
  /\ UNCHANGED <<ledger, saved>>

\* restart_tick past its deadline while the connection is still there: it is
\* closed from this side, and the transport's own report then finds it down.
RestartDeadline ==
  /\ client.up /\ Uses("deadlines")
  /\ Sets([ClearInFlight(S0) EXCEPT !.c.up = FALSE, !.c.cut = TRUE])
  /\ UNCHANGED <<ledger, saved>>

EventArrives ==
  /\ client.up /\ client.seen < LogEnd
  /\ Sets(ApplyToLists([S0 EXCEPT !.c.seen = @ + 1], ledger[client.seen + 1]))
  /\ UNCHANGED <<ledger, saved, allowance>>

DefaultAnswer ==
  /\ \E j \in Mine({"Default"}), to \in {"Ready", "Failed"} :
       Sets(IF form.rid = j.rid /\ form.defaults[j.repo] = "Loading"
            THEN [Answered(S0, j) EXCEPT !.f.defaults[j.repo] = to] ELSE Answered(S0, j))
  /\ UNCHANGED <<ledger, saved, allowance>>

CreationLookup ==
  /\ \E j \in Mine({"Check", "Reconcile"}) : \E at \in j.at..LogEnd :
       Sets(LookupAnswer(Answered(S0, j), j, at))
  /\ UNCHANGED <<ledger, saved, allowance>>

LookupError ==
  /\ Uses("fails")
  /\ \E j \in Mine({"Check", "Reconcile"}) :
       Sets(LookupFailed(Answered(S0, j), j.rid, FALSE))
  /\ UNCHANGED <<ledger, saved>>

ListsAnswered ==
  /\ \E j \in Mine({"Workspaces", "Reviews"}) : \E at \in j.at..LogEnd :
       Sets(ListAnswer(Answered(S0, j), j, at))
  /\ UNCHANGED <<ledger, saved, allowance>>

CreateAnswer ==
  /\ \E j \in Mine({"Create"}) :
       /\ j.result # "None"
       /\ Sets(IF j.result = "Committed" THEN CommittedAnswer(Answered(S0, j), j)
               ELSE WriteFailed(Answered(S0, j), j.rid))
  /\ UNCHANGED <<ledger, saved, allowance>>

\* RestartInterrupted: an error while the outcome of the write is open.
CreateInterrupted ==
  /\ Uses("fails")
  /\ \E j \in Mine({"Create"}) :
       Sets(WriteFailed([S0 EXCEPT !.jobs = (@ \ {j}) \cup
              (IF j.result = "None" THEN {[j EXCEPT !.orphan = TRUE]} ELSE {})], j.rid))
  /\ UNCHANGED <<ledger, saved>>

\* The daemon carries out a write, or it never got it.
CreateRuns ==
  /\ \E j \in posts :
       /\ j.kind = "Create" /\ j.result = "None"
       /\ LET done == [j EXCEPT !.result = IF MayCreate(j) THEN "Committed" ELSE "Refused",
                                !.at = LogEnd + 1]
          IN posts' = (posts \ {j}) \cup (IF j.orphan THEN {} ELSE {done})
       /\ ledger' = IF MayCreate(j) THEN Append(ledger, ReviewCreated(j.rid, j.sub)) ELSE ledger
  /\ UNCHANGED <<form, client, saved, allowance>>

CreateLost ==
  /\ \E j \in posts : j.orphan /\ posts' = posts \ {j}
  /\ UNCHANGED <<ledger, form, client, saved, allowance>>

\* Other clients.
OthersWrite ==
  /\ Uses("others")
  /\ \/ \E v \in ReviewsAt(LogEnd) : ledger' \in {Append(ledger, ReviewUpdated(v.rid)), Append(ledger, ReviewDeleted(v.rid))}
     \/ \E r \in Repos : ledger' = Append(ledger, IF r \in Range(ReposAt(LogEnd)) THEN RepoDetached(r) ELSE RepoAttached(r))
  /\ UNCHANGED <<posts, form, client, saved>>

CreationNext ==
  \/ StartReview \/ CancelNewReview \/ EditTitle \/ EditCreationField
  \/ SelectCreationTarget \/ AddCreationTarget \/ RemoveCreationTarget
  \/ SubmitReviewCreation \/ InvalidAction \/ RetryReviewCreation
  \/ Reload \/ Restore \/ Connected \/ TransportDisconnected \/ RestartDeadline
  \/ EventArrives \/ DefaultAnswer \/ CreationLookup \/ LookupError \/ ListsAnswered
  \/ CreateAnswer \/ CreateInterrupted \/ CreateRuns \/ CreateLost \/ OthersWrite

CreationSpec == CreationInit /\ [][CreationNext]_creationVars

-----------------------------------------------------------------------------
(* Properties.                                                             *)

\* A form that says the review was created shows what was created: whichever
\* of its writes committed, and however the client learnt of it.
CreatedAsShown ==
  form.status = "Succeeded" =>
    \E n \in 1..LogEnd : ledger[n] = ReviewCreated(form.rid, Snapshot(form))

\* What a form waits for is on its way: a frozen or a loading form can neither be
\* edited nor cancelled, and only an answer releases it.
Outstanding ==
  /\ form.status = "Pending" => client.up /\ \E j \in Mine({"Create"}) : j.rid = form.rid
  /\ form.status = "Reconciling" => client.up /\ \E j \in Mine({"Check", "Reconcile"}) : j.rid = form.rid
  /\ \A r \in Repos : form.defaults[r] = "Loading" =>
       client.up /\ \E j \in Mine({"Default"}) : j.rid = form.rid /\ j.repo = r

\* It holds unless the restart deadline closed a connection in use.
OutstandingUnlessCut == client.cut \/ Outstanding

=============================================================================
