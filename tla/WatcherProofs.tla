--------------------------- MODULE WatcherProofs ---------------------------
(***************************************************************************)
(* Proofs about Watcher for any repositories, reviews, checkouts, backlog  *)
(* and bounds: the watcher leaves no open review behind, its registrations *)
(* follow the attachments, and archived reviews keep their resolution.     *)
(*                                                                         *)
(* The argument for the reviews does not look at attachments at all.  As   *)
(* long as a review was last resolved where it is watched, it shows the    *)
(* watched checkouts or something on its way to a pass is owed to it.      *)
(* Attaching and detaching cannot disturb that; only a pass that finds a   *)
(* repository elsewhere can, and then the review is `missed`.              *)
(***************************************************************************)
EXTENDS Watcher, TLAPS

-----------------------------------------------------------------------------
(* The inductive invariant.                                                 *)

Places == {"select", "list", "next", "discover", "watch", "snapshot", "delta",
           "reviews", "refresh"}
(* The places of the task inside a pass over `cur`, before and after its    *)
(* registration.                                                            *)
Before == {"discover", "watch"}
After == {"snapshot", "delta", "reviews", "refresh"}

Typed ==
    /\ tree \in [Roots -> Trees]
    /\ edits \in 0..MaxEdit
    /\ meta \in [Roots -> 0..edits]
    /\ sub \in [Roots -> BOOLEAN]
    /\ root \in [Repos -> Roots \cup {NoRoot}]
    /\ status \in [Reviews -> {"open", "archived", "deleted"}]
    /\ DOMAIN resolved = Reviews /\ resolved = [v \in Reviews |-> resolved[v]]
    /\ \A j \in job : j.review \in Reviews
    /\ inbox \in Seq({"membership", "other"}) /\ Len(inbox) <= Backlog
    /\ fs \subseteq Repos /\ pending \subseteq Repos
    /\ watched \in [Repos -> Watch]
    /\ listed \in [Repos -> Roots \cup {NoRoot}]
    /\ pc \in Places /\ sync \in BOOLEAN /\ found \in BOOLEAN
    /\ work \subseteq Repos /\ cands \subseteq Reviews
    /\ lagged \in BOOLEAN /\ lost \in BOOLEAN /\ failures \in Nat

(* sync_repos has yet to register r.                                        *)
ToRegister(r) ==
    sync /\ pc \notin {"select", "list"} /\ (r \in work \/ (r = cur /\ pc \in Before))

(* What a pass has in hand: between passes nothing; a repository that       *)
(* sync_repos has yet to register is not registered and was listed; one     *)
(* that a due set names is registered; a pass is over a registered one.     *)
InHand ==
    /\ pc \in {"select", "list"} => work = {}
    /\ pc \in Before \cup After => cur \in Repos /\ cur \notin work
    /\ \A r \in Repos : watched[r].root = NoRoot => watched[r] = NoWatch
    /\ \A r \in Repos : ToRegister(r) => watched[r] = NoWatch /\ listed[r] # NoRoot
    /\ (~ sync /\ pc \in Before) => watched[cur].root # NoRoot
    /\ pc \in After => watched[cur].root # NoRoot

(* A pass over r will come, or is at a step before v is refreshed.          *)
Owed(v) ==
    \E r \in Targets[v] :
        \/ r \in fs \cup pending \cup work
        \/ r = cur /\ pc \in Before \cup (After \ {"refresh"})
        \/ r = cur /\ pc = "refresh" /\ v \in cands

(* The checkouts at which v is watched, all of them with their submodules.  *)
Overseen(v) ==
    \A r \in Targets[v] :
        watched[r].root # NoRoot /\ watched[r].sub = sub[watched[r].root]
AsWatched(v) == [r \in Targets[v] |-> Content(watched[r].root)]

NoneBehind ==
    \A v \in Reviews :
        (status[v] = "open" /\ v \notin missed /\ v \notin raced /\ Overseen(v)) =>
            resolved[v] = AsWatched(v) \/ Owed(v)

(* The registrations are those of the attachments, or sync_repos runs, will *)
(* run, or is about to register what is missing.                            *)
Membership == \E i \in 1..Len(inbox) : inbox[i] = "membership"
Follows(r) == IF ToRegister(r) THEN listed[r] = root[r] ELSE Watches(r, root[r])
Following ==
    (~ lost /\ failures = 0) => Membership \/ pc = "list" \/ \A r \in Repos : Follows(r)

WatcherInv == Typed /\ InHand /\ NoneBehind /\ Following


-----------------------------------------------------------------------------
(* Facts that several steps need.                                           *)

(* Every place is one of the task's.                                        *)
LEMMA PlacesAre ==
    /\ Before \subseteq Places /\ After \subseteq Places
    /\ \A p \in Places : p \in {"select", "list", "next"} \/ p \in Before \/ p \in After
BY DEF Places, Before, After

(* A step that leaves the checkouts, the registrations and the task alone,  *)
(* changes no status, resolution or exception, and forgets no notification, *)
(* leaves no review behind.                                                 *)
LEMMA BehindFrame ==
    ASSUME NoneBehind, fs \subseteq fs', pending \subseteq pending',
           UNCHANGED <<tree, meta, sub, watched, status, resolved, missed, raced, taskVars>>
    PROVE  NoneBehind'
BY DEF NoneBehind, Overseen, AsWatched, Content, Owed, taskVars

(* The receiver after an event was sent: well formed, within the backlog,   *)
(* and with every membership event it had, unless one was lost.             *)
LEMMA SendKeeps ==
    ASSUME Typed, NEW kind \in {"membership", "other"}, Send(kind)
    PROVE  /\ inbox' \in Seq({"membership", "other"}) /\ Len(inbox') <= Backlog
           /\ (kind = "membership" \/ (Membership /\ ~ lost')) => Membership'
           /\ lost => lost'
<1>. DEFINE S == {"membership", "other"}
<1>1. Backlog \in Nat \ {0} /\ inbox \in Seq(S) /\ Len(inbox) <= Backlog
  BY WatcherAssumption DEF Typed
<1>2. lost => lost'
  BY DEF Send
<1>3. CASE Len(inbox) = Backlog
  <2>1. inbox' = Append(Tail(inbox), kind) /\ lost' = (lost \/ Head(inbox) = "membership")
    BY <1>3 DEF Send
  <2>2. inbox # <<>> /\ Tail(inbox) \in Seq(S) /\ Len(Tail(inbox)) = Len(inbox) - 1
    BY <1>1, <1>3
  <2>3. inbox' \in Seq(S) /\ Len(inbox') = Len(inbox) /\ inbox'[Len(inbox')] = kind
    BY <1>1, <2>1, <2>2
  <2>4. \A i \in 1..Len(inbox) : i # 1 => inbox'[i - 1] = inbox[i]
    BY <1>1, <2>1, <2>2
  <2>5. Membership /\ ~ lost' => Membership'
    <3>. SUFFICES ASSUME Membership, ~ lost'  PROVE Membership'
      OBVIOUS
    <3>1. PICK i \in 1..Len(inbox) : inbox[i] = "membership"
      BY DEF Membership
    <3>2. ~ (Head(inbox) = "membership")
      BY <2>1
    <3>3. Head(inbox) = inbox[1]
      BY <1>1, <2>2
    <3>4. i # 1
      BY <3>1, <3>2, <3>3
    <3>5. i - 1 \in 1..Len(inbox') /\ inbox'[i - 1] = "membership"
      BY <1>1, <2>3, <2>4, <3>1, <3>4
    <3>. QED  BY <3>5 DEF Membership
  <2>6. kind = "membership" => Membership'
    <3>1. Len(inbox') \in 1..Len(inbox')
      BY <1>1, <1>3, <2>3
    <3>. QED  BY <2>3, <3>1 DEF Membership
  <2>. QED  BY <1>1, <1>2, <2>3, <2>5, <2>6
<1>4. CASE Len(inbox) # Backlog
  <2>1. inbox' = Append(inbox, kind)
    BY <1>4 DEF Send
  <2>2. inbox' \in Seq(S) /\ Len(inbox') = Len(inbox) + 1 /\ inbox'[Len(inbox')] = kind
        /\ \A i \in 1..Len(inbox) : inbox'[i] = inbox[i]
    BY <1>1, <2>1
  <2>3. Len(inbox') <= Backlog
    BY <1>1, <1>4, <2>2
  <2>4. Membership => Membership'
    BY <1>1, <2>2 DEF Membership
  <2>5. kind = "membership" => Membership'
    <3>1. Len(inbox') \in 1..Len(inbox')
      BY <1>1, <2>2
    <3>. QED  BY <2>2, <3>1 DEF Membership
  <2>. QED  BY <1>2, <2>2, <2>3, <2>4, <2>5
<1>. QED  BY <1>3, <1>4

(* A step that leaves the attachments, registrations, listing and place of  *)
(* the task alone keeps Following if it keeps what was announced.           *)
LEMMA FollowingFrame ==
    ASSUME Following, UNCHANGED <<root, watched, taskVars>>,
           lost => lost', failures = 0 \/ failures' # 0, Membership /\ ~ lost' => Membership'
    PROVE  Following'
<1>1. \A r : Follows(r) => Follows(r)'
  BY DEF Follows, ToRegister, Watches, taskVars
<1>. QED  BY <1>1 DEF Following, taskVars

(* What the task has in hand changes only with the task and registrations. *)
LEMMA HandFrame ==
    ASSUME InHand, UNCHANGED <<watched, taskVars>>
    PROVE  InHand'
BY DEF InHand, ToRegister, taskVars

-----------------------------------------------------------------------------
(* Checkouts and clients.                                                   *)

(* A change of a checkout is announced to every registration that covers    *)
(* it, or the registration lacks the submodule: no review is left behind.   *)
LEMMA CheckoutStep ==
    ASSUME WatcherInv, Checkouts
    PROVE  WatcherInv'
<1>. USE DEF WatcherInv
<1>1. PICK k \in Roots :
         \/ \E t \in Trees : Edit(k, t)
         \/ Metadata(k)
         \/ AddSubmodule(k)
         \/ SubmoduleMetadata(k)
  BY DEF Checkouts
<1>2. /\ Change
      /\ tree' \in [Roots -> Trees] /\ sub' \in [Roots -> BOOLEAN]
      /\ meta' \in [Roots -> 0..edits'] /\ edits' \in 0..MaxEdit
      /\ \A l \in Roots : l # k => tree'[l] = tree[l] /\ meta'[l] = meta[l] /\ sub'[l] = sub[l]
  <2>1. Change /\ edits' \in 0..MaxEdit /\ edits' = edits + 1
    BY <1>1, WatcherAssumption DEF Edit, Metadata, AddSubmodule, SubmoduleMetadata, Change, Typed
  <2>2. \A l \in Roots : meta[l] \in 0..edits' /\ meta[l] + 1 \in 0..edits'
    BY <2>1 DEF Typed
  <2>3. \/ meta' = meta /\ sub' = sub /\ \E t \in Trees : tree' = [tree EXCEPT ![k] = t]
        \/ /\ meta' = [meta EXCEPT ![k] = meta[k] + 1] /\ tree' = tree
           /\ sub' = sub \/ sub' = [sub EXCEPT ![k] = TRUE]
    BY <1>1 DEF Edit, Metadata, AddSubmodule, SubmoduleMetadata
  <2>4. meta' \in [Roots -> 0..edits']
    BY <2>2, <2>3 DEF Typed
  <2>5. tree' \in [Roots -> Trees] /\ sub' \in [Roots -> BOOLEAN]
    BY <2>3 DEF Typed
  <2>6. \A l \in Roots : l # k => tree'[l] = tree[l] /\ meta'[l] = meta[l] /\ sub'[l] = sub[l]
    BY <2>3 DEF Typed
  <2>. QED  BY <2>1, <2>4, <2>5, <2>6
<1>3. /\ fs \subseteq fs' /\ fs' \subseteq Repos
      /\ \A r \in Repos : watched[r].root = k /\ watched[r].sub = sub'[k] => r \in fs'
  <2>1. sub[k] \in BOOLEAN
    BY DEF Typed
  <2>2. CASE SubmoduleMetadata(k)
    BY <2>1, <2>2 DEF SubmoduleMetadata, Notified, Covering, Watches, Typed
  <2>3. CASE ~ SubmoduleMetadata(k)
    BY <1>1, <2>3 DEF Edit, Metadata, AddSubmodule, Notified, Covering, Watches, Typed
  <2>. QED  BY <2>2, <2>3
<1>4. UNCHANGED <<root, reviewVars, inboxVars, taskVars, watchVars, countVars>>
  BY <1>2 DEF Change
<1>5. Typed'
  BY <1>2, <1>3, <1>4 DEF Typed, reviewVars, inboxVars, taskVars, watchVars, countVars
<1>6. InHand'
  BY <1>4, HandFrame DEF watchVars
<1>7. Following'
  BY <1>4, FollowingFrame DEF watchVars, inboxVars, countVars, Membership
<1>8. NoneBehind'
  <2>. SUFFICES ASSUME NEW v \in Reviews, status'[v] = "open", v \notin missed', v \notin raced',
                       Overseen(v)'
                PROVE  resolved'[v] = AsWatched(v)' \/ Owed(v)'
    BY DEF NoneBehind
  <2>0. /\ watched' = watched /\ pending' = pending /\ UNCHANGED taskVars
        /\ status' = status /\ resolved' = resolved /\ missed' = missed /\ raced' = raced
        /\ Targets[v] \subseteq Repos
    BY <1>4, WatcherAssumption DEF watchVars, reviewVars
  <2>1. CASE \E r \in Targets[v] : watched[r].root = k
    <3>1. PICK r \in Targets[v] : watched[r].root = k
      BY <2>1
    <3>2. watched[r].sub = sub'[k]
      BY <3>1, <2>0 DEF Overseen
    <3>3. r \in fs'
      BY <3>1, <3>2, <1>3, <2>0
    <3>. QED  BY <3>3 DEF Owed
  <2>2. CASE \A r \in Targets[v] : watched[r].root # k
    <3>1. \A r \in Targets[v] : watched[r].root \in Roots
      BY <2>0 DEF Overseen, Typed, Watch
    <3>2. \A r \in Targets[v] : /\ tree'[watched[r].root] = tree[watched[r].root]
                                /\ meta'[watched[r].root] = meta[watched[r].root]
                                /\ sub'[watched[r].root] = sub[watched[r].root]
      BY <3>1, <2>2, <1>2
    <3>3. Overseen(v)
      BY <3>2, <2>0 DEF Overseen
    <3>4. AsWatched(v)' = AsWatched(v)
      BY <3>2, <2>0 DEF AsWatched, Content
    <3>5. Owed(v) => Owed(v)'
      BY <2>0, <1>3 DEF Owed, taskVars
    <3>. QED  BY <3>3, <3>4, <3>5, <2>0 DEF NoneBehind
  <2>. QED  BY <2>1, <2>2
<1>. QED  BY <1>5, <1>6, <1>7, <1>8

(* Attaching and detaching are announced to sync_repos, and no review is    *)
(* compared with where its repositories are attached.                       *)
LEMMA MemberStep ==
    ASSUME WatcherInv, NEW r \in Repos, Detach(r) \/ \E k \in Roots : Attach(r, k)
    PROVE  WatcherInv'
<1>. USE DEF WatcherInv
<1>1. /\ Send("membership") /\ UNCHANGED <<checkoutVars, fs, watchVars, taskVars, reviewVars, failures>>
      /\ root' \in [Repos -> Roots \cup {NoRoot}]
  BY DEF Detach, Attach, Mutation, Typed
<1>2. /\ inbox' \in Seq({"membership", "other"}) /\ Len(inbox') <= Backlog
      /\ Membership'
  BY <1>1, SendKeeps
<1>3. lagged' \in BOOLEAN /\ lost' \in BOOLEAN
  BY <1>1 DEF Send
<1>4. Typed'
  BY <1>1, <1>2, <1>3 DEF Typed, checkoutVars, watchVars, taskVars, reviewVars
<1>5. InHand'
  BY <1>1, HandFrame DEF watchVars
<1>6. NoneBehind'
  BY <1>1, BehindFrame DEF watchVars, reviewVars, checkoutVars
<1>. QED  BY <1>2, <1>4, <1>5, <1>6 DEF Following

(* What any other step of the writer leaves alone, and what it sends.       *)
LEMMA WriterFrame ==
    ASSUME WatcherInv, Send("other") \/ UNCHANGED inboxVars,
           UNCHANGED <<checkoutVars, root, fs, watchVars, taskVars, failures>>
    PROVE  /\ InHand' /\ Following'
           /\ inbox' \in Seq({"membership", "other"}) /\ Len(inbox') <= Backlog
           /\ lagged' \in BOOLEAN /\ lost' \in BOOLEAN
<1>. USE DEF WatcherInv
<1>1. InHand'
  BY HandFrame DEF watchVars
<1>2. CASE Send("other")
  <2>1. /\ inbox' \in Seq({"membership", "other"}) /\ Len(inbox') <= Backlog
        /\ (Membership /\ ~ lost') => Membership'
        /\ lost => lost'
    BY <1>2, SendKeeps
  <2>2. lagged' \in BOOLEAN /\ lost' \in BOOLEAN
    BY <1>2 DEF Send
  <2>3. Following'
    BY <2>1, FollowingFrame DEF watchVars
  <2>. QED  BY <1>1, <2>1, <2>2, <2>3
<1>3. CASE UNCHANGED inboxVars
  <2>1. Following'
    BY <1>3, FollowingFrame DEF watchVars, inboxVars, Membership
  <2>. QED  BY <1>1, <1>3, <2>1 DEF inboxVars, Typed
<1>. QED  BY <1>2, <1>3

(* A review that is resolved as it is: if all of it is registered where it  *)
(* is attached, it shows what is watched; otherwise it is missed.           *)
LEMMA ResolvedAsWatched ==
    ASSUME Typed, NEW v \in Reviews, Resolves(v), resolved'[v] = Current(v),
           UNCHANGED <<tree, meta, watched>>, v \notin missed'
    PROVE  resolved'[v] = AsWatched(v)'
<1>1. Registered(v)
  BY DEF Resolves
<1>2. \A r \in Targets[v] : watched[r].root = root[r]
  BY <1>1 DEF Registered, Watches
<1>3. AsWatched(v)' = [r \in Targets[v] |-> Content(watched[r].root)]
  BY DEF AsWatched, Content
<1>. QED  BY <1>2, <1>3 DEF Current

(* The other reviews are where they were.                                   *)
LEMMA OthersKept ==
    ASSUME NoneBehind, NEW v \in Reviews,
           \A w \in Reviews \ {v} : /\ resolved'[w] = resolved[w] /\ status'[w] = status[w]
                                    /\ w \in missed' <=> w \in missed
                                    /\ w \in raced' <=> w \in raced
                                    /\ w \in cands' <=> w \in cands,
           UNCHANGED <<tree, meta, sub, watched, fs, pending, work, cur, pc>>,
           (status'[v] = "open" /\ v \notin missed' /\ v \notin raced' /\ Overseen(v)') =>
               resolved'[v] = AsWatched(v)' \/ Owed(v)'
    PROVE  NoneBehind'
<1>. SUFFICES ASSUME NEW w \in Reviews \ {v}, status'[w] = "open", w \notin missed',
                     w \notin raced', Overseen(w)'
              PROVE  resolved'[w] = AsWatched(w)' \/ Owed(w)'
  BY DEF NoneBehind
<1>1. Overseen(w) /\ AsWatched(w)' = AsWatched(w)
  BY DEF Overseen, AsWatched, Content
<1>2. Owed(w) => Owed(w)'
  BY DEF Owed
<1>3. resolved[w] = AsWatched(w) \/ Owed(w)
  BY <1>1 DEF NoneBehind
<1>. QED  BY <1>1, <1>2, <1>3

(* ResolveTargets by whoever calls it, on the writer.                       *)
LEMMA ResolveShape ==
    ASSUME Typed, NEW v \in Reviews, ResolveTargets(v)
    PROVE  /\ Send("other") \/ UNCHANGED inboxVars
           /\ resolved' = [w \in Reviews |-> IF w = v THEN Current(v) ELSE resolved[w]]
           /\ Resolves(v) /\ raced' = raced \ {v}
           /\ status' = status /\ job' = job
<1>1. resolved' = [resolved EXCEPT ![v] = Current(v)]
  BY DEF ResolveTargets
<1>2. resolved' = [w \in Reviews |-> IF w = v THEN Current(v) ELSE resolved[w]]
  BY <1>1 DEF Typed
<1>. QED  BY <1>2 DEF ResolveTargets

(* Reviews are archived, deleted and refreshed; other events happen.        *)
LEMMA ClientStep ==
    ASSUME WatcherInv,
           \/ \E v \in Reviews :
                \/ \E s \in {"archived", "deleted"} : Close(v, s)
                \/ ReopenResolve(v)
                \/ Refresh(v)
           \/ OtherEvent
    PROVE  WatcherInv'
<1>. USE DEF WatcherInv
<1>1. ASSUME NEW v \in Reviews, NEW s \in {"archived", "deleted"}, Close(v, s)  PROVE WatcherInv'
  <2>1. /\ Send("other") /\ UNCHANGED <<checkoutVars, root, fs, watchVars, taskVars, failures>>
        /\ status' = [status EXCEPT ![v] = s] /\ UNCHANGED <<resolved, job, missed, raced>>
    BY <1>1 DEF Close, ClientMutation, Mutation
  <2>2. InHand' /\ Following'
    BY <2>1, WriterFrame
  <2>3. Typed'
    BY <2>1, WriterFrame DEF Typed, checkoutVars, watchVars, taskVars
  <2>4. status'[v] # "open" /\ \A w \in Reviews \ {v} : status'[w] = status[w]
    BY <2>1 DEF Typed
  <2>5. NoneBehind'
    BY <2>1, <2>4, OthersKept DEF checkoutVars, watchVars, taskVars
  <2>. QED  BY <2>2, <2>3, <2>5
<1>2. ASSUME NEW v \in Reviews, ReopenResolve(v)  PROVE WatcherInv'
  <2>1. /\ UNCHANGED <<inboxVars, checkoutVars, root, fs, watchVars, taskVars, failures>>
        /\ job' = {[review |-> v, targets |-> Current(v)]}
        /\ UNCHANGED <<status, resolved, missed, raced>>
    BY <1>2 DEF ReopenResolve, ClientMutation, Mutation
  <2>2. InHand' /\ Following'
    BY <2>1, WriterFrame
  <2>3. \A j \in job' : j.review \in Reviews
    BY <2>1
  <2>4. Typed'
    BY <2>1, <2>3, WriterFrame DEF Typed, checkoutVars, watchVars, taskVars
  <2>5. NoneBehind'
    BY <2>1, BehindFrame DEF checkoutVars, watchVars
  <2>. QED  BY <2>2, <2>4, <2>5
<1>3. ASSUME NEW v \in Reviews, Refresh(v)  PROVE WatcherInv'
  <2>1. /\ UNCHANGED <<checkoutVars, root, fs, watchVars, taskVars, failures>>
        /\ ResolveTargets(v)
    BY <1>3 DEF Refresh, ClientMutation, Mutation
  <2>2. /\ Send("other") \/ UNCHANGED inboxVars
        /\ resolved' = [w \in Reviews |-> IF w = v THEN Current(v) ELSE resolved[w]]
        /\ Resolves(v) /\ raced' = raced \ {v}
        /\ status' = status /\ job' = job
    BY <2>1, ResolveShape
  <2>3. InHand' /\ Following'
    BY <2>1, <2>2, WriterFrame
  <2>4. Typed'
    <3>1. /\ inbox' \in Seq({"membership", "other"}) /\ Len(inbox') <= Backlog
          /\ lagged' \in BOOLEAN /\ lost' \in BOOLEAN
      BY <2>1, <2>2, WriterFrame
    <3>2. DOMAIN resolved' = Reviews /\ resolved' = [w \in Reviews |-> resolved'[w]]
      BY <2>2
    <3>. QED  BY <2>1, <2>2, <3>1, <3>2 DEF Typed, checkoutVars, watchVars, taskVars
  <2>5. v \notin missed' => resolved'[v] = AsWatched(v)'
    BY <2>1, <2>2, ResolvedAsWatched DEF checkoutVars, watchVars
  <2>6. \A w \in Reviews \ {v} : resolved'[w] = resolved[w] /\ (w \in missed' <=> w \in missed)
    BY <2>2 DEF Resolves
  <2>7. NoneBehind'
    BY <2>1, <2>2, <2>5, <2>6, OthersKept DEF checkoutVars, watchVars, taskVars
  <2>. QED  BY <2>3, <2>4, <2>7
<1>4. ASSUME OtherEvent  PROVE WatcherInv'
  <2>1. /\ Send("other")
        /\ UNCHANGED <<checkoutVars, root, fs, watchVars, taskVars, failures, reviewVars>>
    BY <1>4 DEF OtherEvent, ClientMutation, Mutation
  <2>2. InHand' /\ Following'
    BY <2>1, WriterFrame
  <2>3. Typed'
    BY <2>1, WriterFrame DEF Typed, checkoutVars, watchVars, taskVars, reviewVars
  <2>4. NoneBehind'
    BY <2>1, BehindFrame DEF checkoutVars, watchVars, reviewVars
  <2>. QED  BY <2>2, <2>3, <2>4
<1>. QED  BY <1>1, <1>2, <1>3, <1>4

(* A reopening ends: the review shows what was resolved, which is what is   *)
(* watched, or it is missed or raced.                                       *)
LEMMA ReopenStep ==
    ASSUME WatcherInv, ReopenCommit
    PROVE  WatcherInv'
<1>. USE DEF WatcherInv
<1>1. PICK j \in job :
         LET v == j.review
         IN  /\ status' = [status EXCEPT ![v] = "open"]
             /\ resolved' = [resolved EXCEPT ![v] = j.targets]
             /\ Resolves(v)
             /\ raced' = IF Attached(v) /\ Current(v) = j.targets
                         THEN raced \ {v} ELSE raced \cup {v}
  BY DEF ReopenCommit
<1>. DEFINE v == j.review
<1>2. /\ Send("other") /\ UNCHANGED <<checkoutVars, root, fs, watchVars, taskVars, failures>>
      /\ job' = {} /\ v \in Reviews
  BY DEF ReopenCommit, countVars, Typed
<1>3. InHand' /\ Following'
  BY <1>2, WriterFrame
<1>4. /\ resolved' = [w \in Reviews |-> IF w = v THEN j.targets ELSE resolved[w]]
      /\ \A w \in Reviews \ {v} : status'[w] = status[w]
      /\ status' \in [Reviews -> {"open", "archived", "deleted"}]
  BY <1>1, <1>2 DEF Typed
<1>5. Typed'
  <2>1. /\ inbox' \in Seq({"membership", "other"}) /\ Len(inbox') <= Backlog
        /\ lagged' \in BOOLEAN /\ lost' \in BOOLEAN
    BY <1>2, WriterFrame
  <2>2. DOMAIN resolved' = Reviews /\ resolved' = [w \in Reviews |-> resolved'[w]]
    BY <1>4
  <2>. QED  BY <1>2, <1>4, <2>1, <2>2 DEF Typed, checkoutVars, watchVars, taskVars
<1>6. v \notin raced' => resolved'[v] = Current(v)
  BY <1>1, <1>2, <1>4
<1>7. v \notin raced' /\ v \notin missed' => resolved'[v] = AsWatched(v)'
  BY <1>1, <1>2, <1>6, ResolvedAsWatched DEF checkoutVars, watchVars
<1>8. \A w \in Reviews \ {v} : /\ resolved'[w] = resolved[w] /\ (w \in missed' <=> w \in missed)
                               /\ w \in raced' <=> w \in raced
  BY <1>1, <1>2, <1>4 DEF Resolves
<1>9. NoneBehind'
  BY <1>2, <1>4, <1>7, <1>8, OthersKept DEF checkoutVars, watchVars, taskVars
<1>. QED  BY <1>3, <1>5, <1>9

-----------------------------------------------------------------------------
(* The task.                                                                *)

(* A step of the task that touches only its place, its lists and its        *)
(* registrations: what is left to show about it.                            *)
LEMMA TaskFrame ==
    ASSUME WatcherInv, UNCHANGED <<checkoutVars, root, reviewVars, inboxVars>>,
           fs' \subseteq Repos, pending' \subseteq Repos, watched' \in [Repos -> Watch],
           listed' \in [Repos -> Roots \cup {NoRoot}], pc' \in Places, sync' \in BOOLEAN, found' \in BOOLEAN,
           work' \subseteq Repos, cands' \subseteq Reviews, failures' \in Nat
    PROVE  Typed'
BY DEF WatcherInv, Typed, checkoutVars, reviewVars, inboxVars

(* A step of the task that touches no registration leaves no review behind  *)
(* if what is owed to a review stays owed to it.                            *)
LEMMA BehindTask ==
    ASSUME NoneBehind, UNCHANGED <<checkoutVars, reviewVars, watched>>,
           \A v \in Reviews : (status[v] = "open" /\ v \notin missed /\ Overseen(v) /\ Owed(v)) => Owed(v)'
    PROVE  NoneBehind'
<1>1. \A v \in Reviews : (Overseen(v)' <=> Overseen(v)) /\ AsWatched(v)' = AsWatched(v)
  BY DEF Overseen, AsWatched, Content, checkoutVars
<1>. QED  BY <1>1 DEF NoneBehind, reviewVars

(* A notification becomes a deadline.                                       *)
LEMMA NotificationStep ==
    ASSUME WatcherInv, NEW r \in Repos, TakeNotification(r)
    PROVE  WatcherInv'
<1>. USE DEF WatcherInv
<1>1. /\ UNCHANGED <<checkoutVars, root, reviewVars, inboxVars, taskVars, watched, failures>>
      /\ fs' = fs \ {r} /\ pending' = pending \cup {r}
  BY DEF TakeNotification, Task
<1>2. Typed'
  BY <1>1 DEF Typed, checkoutVars, reviewVars, inboxVars, taskVars
<1>3. InHand'
  BY <1>1, HandFrame
<1>4. Following'
  BY <1>1, FollowingFrame DEF inboxVars, Membership
<1>5. \A v \in Reviews : Owed(v) => Owed(v)'
  BY <1>1 DEF Owed, taskVars
<1>6. NoneBehind'
  BY <1>1, <1>5, BehindTask
<1>. QED  BY <1>2, <1>3, <1>4, <1>6

(* An event is taken; one about a membership leads to sync_repos.           *)
LEMMA EventStep ==
    ASSUME WatcherInv, TakeEvent
    PROVE  WatcherInv'
<1>. USE DEF WatcherInv
<1>1. /\ UNCHANGED <<checkoutVars, root, reviewVars, lost, fs, watchVars, sync, work, listed, cur, found,
                     cands, failures>>
      /\ pc = "select" /\ pc' \in {"select", "list"} /\ inbox # <<>>
  BY DEF TakeEvent, Task
<1>2. \/ inbox' = inbox /\ lagged' = FALSE /\ pc' = pc
      \/ inbox' = Tail(inbox) /\ lagged' = lagged /\ (Head(inbox) = "membership" => pc' = "list")
  BY <1>1 DEF TakeEvent
<1>3. /\ inbox' \in Seq({"membership", "other"}) /\ Len(inbox') <= Backlog
      /\ pc' = "list" \/ (Membership => Membership')
  <2>1. CASE inbox' = inbox
    BY <2>1 DEF Typed, Membership
  <2>2. CASE inbox' = Tail(inbox) /\ (Head(inbox) = "membership" => pc' = "list")
    <3>1. /\ inbox \in Seq({"membership", "other"}) /\ Len(inbox) \in Nat /\ Len(inbox) <= Backlog
          /\ Backlog \in Nat
      BY WatcherAssumption DEF Typed
    <3>2. /\ inbox' \in Seq({"membership", "other"}) /\ Len(inbox') = Len(inbox) - 1
          /\ Head(inbox) = inbox[1]
          /\ \A i \in 1..Len(inbox) : i # 1 => i - 1 \in 1..Len(inbox') /\ inbox'[i - 1] = inbox[i]
      BY <1>1, <2>2, <3>1
    <3>3. ASSUME Membership, pc' # "list"  PROVE Membership'
      <4>1. PICK i \in 1..Len(inbox) : inbox[i] = "membership"
        BY <3>3 DEF Membership
      <4>2. i # 1
        BY <2>2, <3>2, <3>3, <4>1
      <4>. QED  BY <3>2, <4>1, <4>2 DEF Membership
    <3>. QED  BY <3>1, <3>2, <3>3
  <2>. QED  BY <1>2, <2>1, <2>2
<1>4. Typed'
  BY <1>1, <1>2, <1>3 DEF Typed, checkoutVars, reviewVars, watchVars, Places
<1>5. work = {} /\ InHand'
  BY <1>1 DEF InHand, ToRegister, watchVars, Before, After
<1>6. Following'
  <2>1. \A r \in Repos : Follows(r) => Follows(r)'
    BY <1>1 DEF Follows, ToRegister, Watches, watchVars
  <2>. QED  BY <1>1, <1>3, <2>1 DEF Following
<1>7. \A v \in Reviews : Owed(v) => Owed(v)'
  BY <1>1 DEF Owed, watchVars, Before, After
<1>8. NoneBehind'
  BY <1>1, <1>7, BehindTask DEF watchVars
<1>. QED  BY <1>4, <1>5, <1>6, <1>8

(* The quiet period of some repositories ends.                              *)
LEMMA DueStep ==
    ASSUME WatcherInv, NEW due \in SUBSET pending, TakeDue(due)
    PROVE  WatcherInv'
<1>. USE DEF WatcherInv
<1>1. /\ UNCHANGED <<checkoutVars, root, reviewVars, inboxVars, fs, watched, listed, cur, found, cands,
                     failures>>
      /\ pc = "select" /\ pc' = "next" /\ sync' = FALSE /\ work' = due /\ pending' = pending \ due
  BY DEF TakeDue, Task
<1>2. work = {}
  BY <1>1 DEF InHand, ToRegister
<1>3. Typed'
  BY <1>1 DEF Typed, checkoutVars, reviewVars, inboxVars, Places
<1>4. InHand'
  BY <1>1 DEF InHand, ToRegister, Before, After
<1>5. Following'
  <2>1. \A r \in Repos : Follows(r) => Follows(r)'
    BY <1>1 DEF Follows, ToRegister, Watches
  <2>. QED  BY <1>1, <2>1 DEF Following, inboxVars, Membership
<1>6. \A v \in Reviews : Owed(v) => Owed(v)'
  BY <1>1, <1>2 DEF Owed, Before, After
<1>7. NoneBehind'
  BY <1>1, <1>6, BehindTask
<1>. QED  BY <1>3, <1>4, <1>5, <1>7

(* The next repository is taken in hand; one that is due and not registered *)
(* is skipped, and no review that it belongs to is overseen.                *)
LEMMA RepoStep ==
    ASSUME WatcherInv, NEW r \in Repos, TakeRepo(r)
    PROVE  WatcherInv'
<1>. USE DEF WatcherInv
<1>1. /\ UNCHANGED <<checkoutVars, root, reviewVars, inboxVars, fs, watchVars, sync, listed, found, cands,
                     failures>>
      /\ pc = "next" /\ r \in work /\ work' = work \ {r} /\ cur' = r
      /\ pc' = IF sync \/ watched[r] # NoWatch THEN "discover" ELSE "next"
  BY DEF TakeRepo, Task
<1>2. Typed'
  BY <1>1 DEF Typed, checkoutVars, reviewVars, inboxVars, watchVars, Places
<1>3. InHand'
  BY <1>1 DEF InHand, ToRegister, watchVars, Before, After
<1>4. Following'
  <2>1. sync \/ ~ sync
    OBVIOUS
  <2>2. \A q \in Repos : Follows(q) => Follows(q)'
    BY <1>1, <2>1 DEF Follows, ToRegister, Watches, watchVars, Before, After
  <2>. QED  BY <1>1, <2>2 DEF Following, inboxVars, Membership
<1>5. ASSUME NEW v \in Reviews, Overseen(v), Owed(v)  PROVE Owed(v)'
  <2>1. CASE r \in Targets[v]
    <3>1. watched[r] # NoWatch
      BY <1>5, <2>1 DEF Overseen, NoWatch
    <3>2. pc' = "discover"
      BY <1>1, <3>1
    <3>. QED  BY <1>1, <2>1, <3>2 DEF Owed, Before
  <2>2. CASE r \notin Targets[v]
    BY <1>1, <1>5, <2>2 DEF Owed, watchVars, Before, After
  <2>. QED  BY <2>1, <2>2
<1>6. NoneBehind'
  BY <1>1, <1>5, BehindTask DEF watchVars
<1>. QED  BY <1>2, <1>3, <1>4, <1>6

(* A set of repositories is done with.                                      *)
LEMMA DoneStep ==
    ASSUME WatcherInv, TaskDone
    PROVE  WatcherInv'
<1>. USE DEF WatcherInv
<1>1. /\ UNCHANGED <<checkoutVars, root, reviewVars, inboxVars, fs, watchVars, work, cands, failures>>
      /\ pc = "next" /\ work = {} /\ pc' = "select" /\ sync' = TRUE
      /\ listed' = NoList /\ found' = FALSE
  BY DEF TaskDone, Task
<1>2. Typed'
  BY <1>1 DEF Typed, checkoutVars, reviewVars, inboxVars, watchVars, Places, NoList
<1>3. InHand'
  BY <1>1 DEF InHand, ToRegister, watchVars, Before, After
<1>4. Following'
  <2>1. \A r \in Repos : Follows(r) => Follows(r)'
    BY <1>1 DEF Follows, ToRegister, Watches, watchVars, Before
  <2>. QED  BY <1>1, <2>1 DEF Following, inboxVars, Membership
<1>5. \A v \in Reviews : Owed(v) => Owed(v)'
  BY <1>1 DEF Owed, watchVars, Before, After
<1>6. NoneBehind'
  BY <1>1, <1>5, BehindTask DEF watchVars
<1>. QED  BY <1>2, <1>3, <1>4, <1>6

(* sync_repos lists the attachments: what it keeps is as it was, what it    *)
(* drops oversees nothing, and what is not registered is in hand.           *)
LEMMA ListStep ==
    ASSUME WatcherInv, ListRepos
    PROVE  WatcherInv'
<1>. USE DEF WatcherInv
<1>. DEFINE kept == {r \in Repos : watched[r] # NoWatch /\ root[r] = watched[r].root}
<1>1. /\ UNCHANGED <<checkoutVars, root, reviewVars, inboxVars, fs, pending, cur, found, cands, failures>>
      /\ pc = "list" /\ pc' = "next" /\ sync' = TRUE /\ listed' = root
      /\ watched' = [r \in Repos |-> IF r \in kept THEN watched[r] ELSE NoWatch]
      /\ work' = {r \in Repos : root[r] # NoRoot} \ kept
  BY DEF ListRepos, Task
<1>2. NoWatch \in Watch /\ NoWatch.root = NoRoot
  BY DEF NoWatch, Watch
<1>3. \A r \in Repos : watched'[r] = NoWatch \/ (watched'[r] = watched[r] /\ root[r] = watched[r].root)
  BY <1>1
<1>4. watched' \in [Repos -> Watch]
  BY <1>1, <1>2 DEF Typed
<1>5. Typed'
  BY <1>1, <1>4, TaskFrame DEF Typed, Places
<1>6. InHand'
  <2>1. \A r \in Repos : watched'[r].root = NoRoot => watched'[r] = NoWatch
    BY <1>3 DEF InHand, ToRegister
  <2>2. \A r \in work' : watched'[r] = NoWatch /\ listed'[r] # NoRoot
    BY <1>1
  <2>. QED  BY <1>1, <2>1, <2>2 DEF InHand, ToRegister, Before, After
<1>7. \A r \in Repos : Follows(r)'
  <2>. SUFFICES ASSUME NEW r \in Repos  PROVE Follows(r)'
    OBVIOUS
  <2>1. CASE r \in kept
    BY <1>1, <2>1 DEF Follows, ToRegister, Watches
  <2>2. CASE r \notin kept /\ root[r] = NoRoot
    BY <1>1, <1>2, <2>2 DEF Follows, ToRegister, Watches
  <2>3. CASE r \notin kept /\ root[r] # NoRoot
    BY <1>1, <2>3 DEF Follows, ToRegister
  <2>. QED  BY <2>1, <2>2, <2>3
<1>8. NoneBehind'
  <2>. SUFFICES ASSUME NEW v \in Reviews, status'[v] = "open", v \notin missed', v \notin raced',
                       Overseen(v)'
                PROVE  resolved'[v] = AsWatched(v)' \/ Owed(v)'
    BY DEF NoneBehind
  <2>1. Targets[v] \subseteq Repos
    BY WatcherAssumption
  <2>2. \A r \in Targets[v] : watched'[r] = watched[r]
    BY <1>2, <1>3, <2>1 DEF Overseen
  <2>3. Overseen(v) /\ AsWatched(v)' = AsWatched(v)
    BY <1>1, <2>2 DEF Overseen, AsWatched, Content, checkoutVars
  <2>4. work = {}
    BY <1>1 DEF InHand, ToRegister
  <2>5. Owed(v) => Owed(v)'
    BY <1>1, <2>4 DEF Owed, Before, After
  <2>. QED  BY <1>1, <2>3, <2>5 DEF NoneBehind, reviewVars
<1>. QED  BY <1>5, <1>6, <1>7, <1>8 DEF Following

(* Steps of a pass that change no registration, no list and no review, and  *)
(* give nothing up.                                                         *)
LEMMA PassStep ==
    ASSUME WatcherInv,
           UNCHANGED <<checkoutVars, root, reviewVars, inboxVars, fs, watchVars, sync, work, listed, cur>>,
           cands' \subseteq Reviews, found' \in BOOLEAN, failures' \in Nat, failures = 0 \/ failures' # 0,
           \/ pc = "discover" /\ pc' = "watch"
           \/ ~ sync /\ pc \in Before /\ pc' = "snapshot"
           \/ pc = "delta" /\ pc' = "reviews"
           \/ /\ pc = "reviews" /\ pc' = "refresh"
              /\ cands' = {v \in Reviews : status[v] = "open" /\ cur \in Targets[v]}
           \/ pc = "refresh" /\ cands = {} /\ cands' = cands /\ pc' = "next"
    PROVE  WatcherInv'
<1>. USE DEF WatcherInv
<1>0. sync \in BOOLEAN
  BY DEF Typed
<1>1. pc' \in Places
  BY DEF Places
<1>2. Typed'
  BY <1>1, TaskFrame DEF Typed, watchVars
<1>3. InHand'
  BY <1>0 DEF InHand, ToRegister, watchVars, Before, After
<1>4. Following'
  <2>1. \A r \in Repos : Follows(r) => Follows(r)'
    BY DEF Follows, ToRegister, Watches, watchVars, Before
  <2>2. pc # "list"
    BY DEF Before
  <2>3. lost' = lost /\ (Membership' <=> Membership)
    BY DEF inboxVars, Membership
  <2>. QED  BY <2>1, <2>2, <2>3 DEF Following
<1>5. ASSUME NEW v \in Reviews, status[v] = "open", Owed(v)  PROVE Owed(v)'
  <2>1. PICK r \in Targets[v] :
          \/ r \in fs \cup pending \cup work
          \/ r = cur /\ pc \in Before \cup (After \ {"refresh"})
          \/ r = cur /\ pc = "refresh" /\ v \in cands
    BY <1>5 DEF Owed
  <2>2. \/ r \in fs' \cup pending' \cup work'
        \/ r = cur' /\ pc' \in Before \cup (After \ {"refresh"})
        \/ r = cur' /\ pc' = "refresh" /\ v \in cands'
    BY <2>1, <1>5 DEF watchVars, Before, After
  <2>. QED  BY <2>2 DEF Owed
<1>6. NoneBehind'
  BY <1>5, BehindTask DEF watchVars
<1>. QED  BY <1>2, <1>3, <1>4, <1>6

(* The path that is about to be registered is a checkout.                   *)
LEMMA PathIsRoot ==
    ASSUME Typed, InHand, pc \in Before
    PROVE  Path \in Roots
<1>1. cur \in Repos /\ pc \notin {"select", "list"}
  BY DEF InHand, Before
<1>2. CASE sync
  <2>1. listed[cur] # NoRoot
    BY <1>1, <1>2 DEF InHand, ToRegister
  <2>. QED  BY <1>1, <1>2, <2>1 DEF Path, Typed
<1>3. CASE ~ sync
  <2>1. watched[cur].root # NoRoot
    BY <1>3 DEF InHand
  <2>2. watched[cur] \in Watch
    BY <1>1 DEF Typed
  <2>. QED  BY <1>3, <2>1, <2>2 DEF Path, Watch
<1>. QED  BY <1>2, <1>3

(* A registration is made, or a snapshot remembered: what changes is the    *)
(* repository in hand, which has its pass before it.                        *)
LEMMA RegisterStep ==
    ASSUME WatcherInv, WatchOne \/ Snapshot
    PROVE  WatcherInv'
<1>. USE DEF WatcherInv
<1>1. /\ UNCHANGED <<checkoutVars, root, reviewVars, inboxVars, fs, pending, sync, work, listed, cur, found,
                     cands, failures>>
      /\ pc' \in {"snapshot", "delta", "reviews"}
  BY DEF WatchOne, Snapshot, Task
<1>2. cur \in Repos /\ (pc = "watch" \/ pc = "snapshot") /\ watched[cur] \in Watch
  BY DEF WatchOne, Snapshot, Task, InHand, Before, After, Typed
<1>3. PICK x \in Watch : /\ watched' = [watched EXCEPT ![cur] = x]
                         /\ x.root # NoRoot
                         /\ pc = "watch" => x.root = Path
                         /\ pc = "snapshot" => x.root = watched[cur].root
  <2>1. CASE WatchOne
    <3>1. Path \in Roots /\ pc = "watch"
      BY <2>1, PathIsRoot DEF WatchOne, Task, Before
    <3>2. found \in BOOLEAN /\ watched[cur].last \in Trees \cup {NoTree} /\ NoRoot \notin Roots
      BY <1>2, WatcherAssumption DEF Typed, Watch
    <3>. DEFINE y == [root |-> Path, sub |-> found, last |-> watched[cur].last]
    <3>3. y \in Watch /\ y.root = Path /\ Path # NoRoot
      BY <3>1, <3>2 DEF Watch
    <3>4. watched' = [watched EXCEPT ![cur] = y]
      BY <2>1 DEF WatchOne
    <3>. QED  BY <3>1, <3>3, <3>4
  <2>2. CASE Snapshot
    <3>1. pc = "snapshot" /\ root[cur] # NoRoot
      BY <2>2 DEF Snapshot, Task
    <3>2. watched[cur].root # NoRoot
      BY <3>1 DEF InHand, After
    <3>3. tree[root[cur]] \in Trees
      BY <1>2, <3>1 DEF Typed
    <3>. DEFINE y == [watched[cur] EXCEPT !.last = tree[root[cur]]]
    <3>4. y \in Watch /\ y.root = watched[cur].root
      BY <1>2, <3>3 DEF Watch
    <3>5. watched' = [watched EXCEPT ![cur] = y]
      BY <2>2 DEF Snapshot
    <3>. QED  BY <3>1, <3>2, <3>4, <3>5
  <2>. QED  BY <2>1, <2>2
<1>4. /\ watched' \in [Repos -> Watch] /\ watched'[cur] = x
      /\ \A r \in Repos \ {cur} : watched'[r] = watched[r]
  BY <1>2, <1>3 DEF Typed
<1>5. Typed'
  BY <1>1, <1>4, TaskFrame DEF Typed, Places
<1>6. InHand'
  <2>1. pc' \in After /\ pc' \notin Before /\ pc \notin {"select", "list"}
    BY <1>1, <1>2 DEF Before, After
  <2>2. cur \notin work
    BY <1>2 DEF InHand, Before, After
  <2>. QED  BY <1>1, <1>2, <1>3, <1>4, <2>1, <2>2 DEF InHand, ToRegister
<1>7. Following'
  <2>1. cur \notin work /\ pc \notin {"select", "list"} /\ pc' \notin {"select", "list"} /\ pc' \notin Before
    BY <1>1, <1>2 DEF InHand, Before, After
  <2>2. ASSUME NEW r \in Repos \ {cur}, Follows(r)  PROVE Follows(r)'
    BY <1>1, <1>4, <2>1, <2>2 DEF Follows, ToRegister, Watches
  <2>3. ASSUME Follows(cur)  PROVE Follows(cur)'
    <3>1. ~ ToRegister(cur)'
      BY <1>1, <2>1 DEF ToRegister
    <3>2. CASE pc = "watch" /\ sync
      <4>1. ToRegister(cur)
        BY <2>1, <3>2 DEF ToRegister, Before
      <4>2. listed[cur] = root[cur] /\ x.root = listed[cur]
        BY <1>3, <2>3, <3>2, <4>1 DEF Follows, Path
      <4>. QED  BY <1>1, <1>4, <3>1, <4>2 DEF Follows, Watches
    <3>3. CASE ~ (pc = "watch" /\ sync)
      <4>1. ~ ToRegister(cur)
        BY <1>2, <2>1, <3>3 DEF ToRegister, Before
      <4>2. x.root = watched[cur].root
        BY <1>2, <1>3, <3>3 DEF Path
      <4>. QED  BY <1>1, <1>4, <2>3, <3>1, <4>1, <4>2 DEF Follows, Watches
    <3>. QED  BY <3>2, <3>3
  <2>4. (Membership' <=> Membership) /\ lost' = lost /\ failures' = failures /\ cur' = cur
    BY <1>1 DEF Membership, inboxVars
  <2>5. \A r \in Repos : Follows(r) => Follows(r)'
    <3>1. ASSUME NEW r \in Repos, Follows(r)  PROVE Follows(r)'
      <4>1. CASE r = cur
        <5>1. Follows(r)' <=> Follows(cur)'
          BY <2>4, <4>1 DEF Follows, ToRegister, Watches
        <5>. QED  BY <2>3, <3>1, <4>1, <5>1
      <4>. QED  BY <2>2, <3>1, <4>1
    <3>. QED  BY <3>1
  <2>. QED  BY <1>2, <2>4, <2>5 DEF Following
<1>8. NoneBehind'
  <2>. SUFFICES ASSUME NEW v \in Reviews, status'[v] = "open", v \notin missed', v \notin raced',
                       Overseen(v)'
                PROVE  resolved'[v] = AsWatched(v)' \/ Owed(v)'
    BY DEF NoneBehind
  <2>1. CASE cur \in Targets[v]
    BY <1>1, <2>1 DEF Owed, After
  <2>2. CASE cur \notin Targets[v]
    <3>1. \A r \in Targets[v] : watched'[r] = watched[r]
      BY <1>4, <2>2, WatcherAssumption
    <3>2. Overseen(v) /\ AsWatched(v)' = AsWatched(v)
      BY <1>1, <3>1 DEF Overseen, AsWatched, Content, checkoutVars
    <3>3. Owed(v) => Owed(v)'
      BY <1>1, <2>2 DEF Owed
    <3>. QED  BY <1>1, <3>2, <3>3 DEF NoneBehind, reviewVars
  <2>. QED  BY <2>1, <2>2
<1>. QED  BY <1>5, <1>6, <1>7, <1>8

(* Something fails.  A repository that sync_repos gives up is not           *)
(* registered, and the reviews of a pass that is given up are missed.       *)
LEMMA FailureStep ==
    ASSUME WatcherInv, ListFails \/ WatchFails \/ PassFails
    PROVE  WatcherInv'
<1>. USE DEF WatcherInv
<1>1. /\ UNCHANGED <<checkoutVars, root, status, resolved, job, raced, inboxVars, fs, watchVars, sync, work,
                     listed, cur, found, cands>>
      /\ missed \subseteq missed'
      /\ failures' = failures + 1 \/ failures' = failures
  BY DEF ListFails, WatchFails, PassFails, Task, Failure, reviewVars
<1>2. \/ pc = "list" /\ pc' = "select" /\ failures' = failures + 1 /\ missed' = missed
      \/ /\ pc \in Before /\ pc' = (IF sync THEN "next" ELSE "snapshot")
         /\ failures' = failures + 1 /\ missed' = missed
      \/ /\ pc \in {"snapshot", "reviews"} /\ pc' = "next"
         /\ missed' = missed \cup {v \in Reviews : cur \in Targets[v]}
  BY DEF ListFails, WatchFails, PassFails, Task, Failure, reviewVars, Before
<1>3. failures \in Nat /\ failures' \in Nat /\ (failures = 0 \/ failures' # 0)
  BY <1>1 DEF Typed
<1>4. Typed'
  BY <1>1, <1>2, <1>3 DEF Typed, checkoutVars, inboxVars, watchVars, Places
<1>5. InHand'
  BY <1>1, <1>2 DEF InHand, ToRegister, watchVars, Before, After
<1>6. Following'
  <2>1. CASE failures' # 0
    BY <2>1 DEF Following
  <2>2. CASE failures' = 0
    <3>1. pc \in {"snapshot", "reviews"} /\ pc' = "next"
      BY <1>2, <1>3, <2>2
    <3>2. \A r \in Repos : Follows(r) => Follows(r)'
      BY <1>1, <3>1 DEF Follows, ToRegister, Watches, watchVars, Before
    <3>3. (Membership' <=> Membership) /\ lost' = lost /\ failures = 0
      BY <1>1, <1>3, <2>2 DEF Membership, inboxVars
    <3>. QED  BY <3>1, <3>2, <3>3 DEF Following
  <2>. QED  BY <2>1, <2>2
<1>7. NoneBehind'
  <2>. SUFFICES ASSUME NEW v \in Reviews, status'[v] = "open", v \notin missed', v \notin raced',
                       Overseen(v)'
                PROVE  resolved'[v] = AsWatched(v)' \/ Owed(v)'
    BY DEF NoneBehind
  <2>1. Overseen(v) /\ AsWatched(v)' = AsWatched(v) /\ v \notin missed
    BY <1>1 DEF Overseen, AsWatched, Content, checkoutVars, watchVars
  <2>2. ASSUME Owed(v)  PROVE Owed(v)'
    <3>1. PICK r \in Targets[v] :
          \/ r \in fs \cup pending \cup work
          \/ r = cur /\ pc \in Before \cup (After \ {"refresh"})
          \/ r = cur /\ pc = "refresh" /\ v \in cands
      BY <2>2 DEF Owed
    <3>2. CASE r \in fs \cup pending \cup work
      BY <1>1, <3>2 DEF Owed, watchVars
    <3>3. CASE r = cur /\ pc \in Before
      <4>1. cur \in Repos /\ pc \notin {"select", "list"}
        BY <3>3 DEF InHand, Before
      <4>2. watched[cur] # NoWatch
        BY <2>1, <3>3 DEF Overseen, NoWatch
      <4>3. ~ sync
        BY <3>3, <4>1, <4>2 DEF InHand, ToRegister
      <4>4. pc' = "snapshot"
        BY <1>2, <3>3, <4>3 DEF Before
      <4>. QED  BY <1>1, <3>3, <4>4 DEF Owed, After
    <3>4. CASE r = cur /\ pc \in {"snapshot", "reviews"}
      BY <1>2, <3>4 DEF Before
    <3>. QED  BY <1>2, <3>1, <3>2, <3>3, <3>4 DEF Before, After
  <2>3. status[v] = "open" /\ v \notin raced /\ resolved'[v] = resolved[v]
    BY <1>1
  <2>4. resolved[v] = AsWatched(v) \/ Owed(v)
    BY <2>1, <2>3 DEF NoneBehind
  <2>. QED  BY <2>1, <2>2, <2>3, <2>4
<1>. QED  BY <1>4, <1>5, <1>6, <1>7

(* A candidate is refreshed, dropped because it was closed, or missed.      *)
LEMMA RefreshStep ==
    ASSUME WatcherInv, NEW v \in Reviews, RefreshOne(v) \/ RefreshFails(v)
    PROVE  WatcherInv'
<1>. USE DEF WatcherInv
<1>1. /\ UNCHANGED <<checkoutVars, root, fs, watchVars, pc, sync, work, listed, cur, found>>
      /\ pc = "refresh" /\ cands' = cands \ {v}
      /\ failures' = failures \/ failures' = failures + 1
  BY DEF RefreshOne, RefreshFails, Task, Failure
<1>2. failures \in Nat /\ failures' \in Nat /\ (failures = 0 \/ failures' # 0)
  BY <1>1 DEF Typed
<1>3. \/ /\ ResolveTargets(v)
      \/ /\ status[v] = "open" => missed' = missed \cup {v}
         /\ status[v] # "open" => missed' = missed \/ missed' = missed \cup {v}
         /\ UNCHANGED <<status, resolved, job, raced, inboxVars>>
  BY DEF RefreshOne, RefreshFails
<1>4. /\ Send("other") \/ UNCHANGED inboxVars
      /\ DOMAIN resolved' = Reviews /\ resolved' = [w \in Reviews |-> resolved'[w]]
      /\ status' = status /\ job' = job
      /\ \A w \in Reviews \ {v} : /\ resolved'[w] = resolved[w] /\ (w \in missed' <=> w \in missed)
                                  /\ w \in raced' <=> w \in raced
      /\ (status'[v] = "open" /\ v \notin missed') => resolved'[v] = AsWatched(v)'
  <2>1. CASE ResolveTargets(v)
    <3>1. /\ Send("other") \/ UNCHANGED inboxVars
          /\ resolved' = [w \in Reviews |-> IF w = v THEN Current(v) ELSE resolved[w]]
          /\ Resolves(v) /\ raced' = raced \ {v}
          /\ status' = status /\ job' = job
      BY <2>1, ResolveShape
    <3>2. v \notin missed' => resolved'[v] = AsWatched(v)'
      BY <1>1, <3>1, ResolvedAsWatched DEF checkoutVars, watchVars
    <3>. QED  BY <3>1, <3>2 DEF Resolves
  <2>2. CASE /\ status[v] = "open" => missed' = missed \cup {v}
             /\ status[v] # "open" => missed' = missed \/ missed' = missed \cup {v}
             /\ UNCHANGED <<status, resolved, job, raced, inboxVars>>
    BY <2>2 DEF Typed
  <2>. QED  BY <1>3, <2>1, <2>2
<1>5. /\ inbox' \in Seq({"membership", "other"}) /\ Len(inbox') <= Backlog
      /\ lagged' \in BOOLEAN /\ lost' \in BOOLEAN
      /\ (Membership /\ ~ lost') => Membership'
      /\ lost => lost'
  <2>1. CASE Send("other")
    BY <2>1, SendKeeps DEF Send
  <2>2. CASE UNCHANGED inboxVars
    BY <2>2 DEF inboxVars, Membership, Typed
  <2>. QED  BY <1>4, <2>1, <2>2
<1>6. Typed'
  BY <1>1, <1>2, <1>4, <1>5 DEF Typed, checkoutVars, watchVars
<1>7. InHand'
  BY <1>1 DEF InHand, ToRegister, watchVars
<1>8. Following'
  <2>1. \A r \in Repos : Follows(r) => Follows(r)'
    BY <1>1 DEF Follows, ToRegister, Watches, watchVars
  <2>. QED  BY <1>1, <1>2, <1>5, <2>1 DEF Following
<1>9. NoneBehind'
  BY <1>1, <1>4, OthersKept DEF checkoutVars, watchVars
<1>. QED  BY <1>6, <1>7, <1>8, <1>9

(* Every step of the task keeps the invariant.                              *)
LEMMA TaskStep ==
    ASSUME WatcherInv, Step
    PROVE  WatcherInv'
<1>1. CASE \E r \in Repos : TakeNotification(r) \/ TakeRepo(r)
  BY <1>1, NotificationStep, RepoStep
<1>2. CASE TakeEvent \/ TaskDone \/ ListRepos
  BY <1>2, EventStep, DoneStep, ListStep
<1>3. CASE \E due \in SUBSET pending : TakeDue(due)
  BY <1>3, DueStep
<1>4. CASE WatchOne \/ Snapshot
  BY <1>4, RegisterStep
<1>5. CASE ListFails \/ WatchFails \/ PassFails
  BY <1>5, FailureStep
<1>6. CASE \E v \in Reviews : RefreshOne(v) \/ RefreshFails(v)
  BY <1>6, RefreshStep
<1>7. CASE Discover
  <2>1. /\ UNCHANGED <<checkoutVars, root, reviewVars, inboxVars, fs, watchVars, sync, work, listed, cur,
                       cands, failures>>
        /\ pc = "discover" /\ found' = sub[Path]
        /\ pc' = "watch" \/ (~ sync /\ pc' = "snapshot")
    BY <1>7 DEF Discover, Task
  <2>2. found' \in BOOLEAN
    BY <2>1, PathIsRoot DEF WatcherInv, Typed, Before
  <2>3. cands \subseteq Reviews /\ failures \in Nat /\ pc \in Before
    BY <2>1 DEF WatcherInv, Typed, Before
  <2>. QED  BY <2>1, <2>2, <2>3, PassStep
<1>8. CASE Delta \/ DeltaFails
  <2>0. cands \subseteq Reviews /\ failures \in Nat /\ found \in BOOLEAN
    BY DEF WatcherInv, Typed
  <2>1. /\ UNCHANGED <<checkoutVars, root, reviewVars, inboxVars, fs, watchVars, sync, work, listed, cur,
                       found, cands>>
        /\ failures' = failures \/ failures' = failures + 1
        /\ pc = "delta" /\ pc' = "reviews"
    BY <1>8 DEF Delta, DeltaFails, Task, Failure
  <2>. QED  BY <2>0, <2>1, PassStep
<1>9. CASE ListReviews \/ PassDone
  <2>0. cands \subseteq Reviews /\ failures \in Nat /\ found \in BOOLEAN
    BY DEF WatcherInv, Typed
  <2>1. /\ UNCHANGED <<checkoutVars, root, reviewVars, inboxVars, fs, watchVars, sync, work, listed, cur,
                       found, failures>>
        /\ \/ /\ pc = "reviews" /\ pc' = "refresh"
              /\ cands' = {v \in Reviews : status[v] = "open" /\ cur \in Targets[v]}
           \/ pc = "refresh" /\ cands = {} /\ cands' = cands /\ pc' = "next"
    BY <1>9 DEF ListReviews, PassDone, Task
  <2>. QED  BY <2>0, <2>1, PassStep
<1>. QED  BY <1>1, <1>2, <1>3, <1>4, <1>5, <1>6, <1>7, <1>8, <1>9 DEF Step

(* The task starts with nothing registered and everything attached listed.  *)
LEMMA WatcherStarts == Init => WatcherInv
<1>. SUFFICES ASSUME Init  PROVE WatcherInv
  OBVIOUS
<1>1. NoWatch \in Watch /\ NoWatch.root = NoRoot
  BY DEF NoWatch, Watch
<1>2. Typed
  <2>1. edits \in 0..MaxEdit /\ meta \in [Roots -> 0..edits] /\ failures \in Nat
    BY WatcherAssumption DEF Init
  <2>2. tree \in [Roots -> Trees] /\ sub \in [Roots -> BOOLEAN] /\ watched \in [Repos -> Watch]
    BY <1>1, WatcherAssumption DEF Init
  <2>3. DOMAIN resolved = Reviews /\ resolved = [v \in Reviews |-> resolved[v]]
    BY DEF Init
  <2>4. inbox \in Seq({"membership", "other"}) /\ Len(inbox) <= Backlog
    BY WatcherAssumption DEF Init
  <2>5. root \in [Repos -> Roots \cup {NoRoot}] /\ status \in [Reviews -> {"open", "archived", "deleted"}]
        /\ listed \in [Repos -> Roots \cup {NoRoot}]
    BY DEF Init, NoList
  <2>. QED  BY <2>1, <2>2, <2>3, <2>4, <2>5 DEF Init, Typed, Places
<1>3. InHand
  BY <1>1 DEF Init, InHand, ToRegister, Before, After
<1>4. Following
  BY DEF Init, Following
<1>5. NoneBehind
  <2>1. \A v \in Reviews : ~ Overseen(v)
    <3>. SUFFICES ASSUME NEW v \in Reviews  PROVE ~ Overseen(v)
      OBVIOUS
    <3>1. Targets[v] \in (SUBSET Repos) \ {{}}
      BY WatcherAssumption
    <3>2. PICK r \in Targets[v] : r \in Repos
      BY <3>1
    <3>. QED  BY <1>1, <3>2 DEF Init, Overseen
  <2>. QED  BY <2>1 DEF NoneBehind
<1>. QED  BY <1>2, <1>3, <1>4, <1>5 DEF WatcherInv

-----------------------------------------------------------------------------
(* The theorems.                                                            *)

(* The inductive invariant: registrations, lists and place of the task      *)
(* agree, a review that was last resolved where it is watched shows it or   *)
(* is owed a pass, and registrations follow the attachments.                *)
THEOREM WatcherInvariant == Spec => []WatcherInv
<1>1. WatcherInv /\ [Next]_vars => WatcherInv'
  <2>. SUFFICES ASSUME WatcherInv, [Next]_vars  PROVE WatcherInv'
    OBVIOUS
  <2>1. CASE Checkouts
    BY <2>1, CheckoutStep
  <2>2. CASE Clients
    BY <2>2, MemberStep, ClientStep DEF Clients
  <2>3. CASE ReopenCommit
    BY <2>3, ReopenStep
  <2>4. CASE Step
    BY <2>4, TaskStep
  <2>5. CASE UNCHANGED vars
    <3>1. UNCHANGED <<tree, meta, sub, edits, root, status, resolved, job, inbox, lagged, fs, pending, watched,
                      pc, sync, work, listed, cur, found, cands, lost, missed, raced, failures>>
      BY <2>5 DEF vars
    <3>2. Typed' /\ InHand'
      BY <3>1 DEF WatcherInv, Typed, InHand, ToRegister
    <3>3. NoneBehind'
      BY <3>1, BehindFrame DEF WatcherInv, taskVars
    <3>4. Following'
      BY <3>1, FollowingFrame DEF WatcherInv, taskVars, Membership
    <3>. QED  BY <3>2, <3>3, <3>4 DEF WatcherInv
  <2>. QED  BY <2>1, <2>2, <2>3, <2>4, <2>5 DEF Next
<1>. QED  BY <1>1, WatcherStarts, PTL DEF Spec

(* A watcher that has nothing to do has left no open review behind, for any *)
(* number of repositories, reviews, changes and moves of repositories.      *)
THEOREM QuietCurrent == Spec => []QuietIsCurrent
<1>1. WatcherInv => QuietIsCurrent
  <2>. SUFFICES ASSUME WatcherInv, Quiet, NEW v \in Reviews, status[v] = "open", Covered(v),
                       v \notin missed, v \notin raced
                PROVE  resolved[v] = Current(v)
    BY DEF QuietIsCurrent
  <2>1. \A r \in Targets[v] : root[r] # NoRoot /\ watched[r].root = root[r]
                              /\ watched[r].sub = sub[root[r]]
    BY DEF Covered, Watches
  <2>2. Overseen(v) /\ AsWatched(v) = Current(v)
    BY <2>1 DEF Overseen, AsWatched, Current
  <2>3. ~ Owed(v)
    BY DEF Owed, Quiet, WatcherInv, InHand, Before, After
  <2>. QED  BY <2>2, <2>3 DEF WatcherInv, NoneBehind
<1>. QED  BY <1>1, WatcherInvariant, PTL

(* As long as no membership event is lost and nothing fails, a quiet        *)
(* watcher watches exactly the attached checkouts, in whatever order        *)
(* attachments are made, listed and registered.                             *)
THEOREM RegistrationsAreAttachments == Spec => []RegistrationsFollow
<1>1. WatcherInv => RegistrationsFollow
  <2>. SUFFICES ASSUME WatcherInv, Quiet, ~ lost, failures = 0, NEW r \in Repos
                PROVE  Watches(r, root[r])
    BY DEF RegistrationsFollow
  <2>1. ~ Membership /\ pc = "select"
    BY DEF Quiet, Membership
  <2>2. Follows(r)
    BY <2>1 DEF WatcherInv, Following
  <2>. QED  BY <2>1, <2>2 DEF Follows, ToRegister
<1>. QED  BY <1>1, WatcherInvariant, PTL

(* No step of the watcher changes the targets of a review that is archived  *)
(* or deleted, though it works from a list that may be older.               *)
THEOREM ArchivedStay == Spec => ArchivedKept
<1>. DEFINE A == \A v \in Reviews :
                   (status[v] # "open" /\ resolved'[v] # resolved[v]) => UNCHANGED taskVars
<1>1. WatcherInv /\ [Next]_vars => [A]_vars
  <2>. SUFFICES ASSUME WatcherInv, Next  PROVE A
    OBVIOUS
  <2>1. CASE Checkouts
    BY <2>1 DEF Checkouts, Edit, Metadata, AddSubmodule, SubmoduleMetadata, Change
  <2>2. CASE Clients
    BY <2>2 DEF Clients, Attach, Detach, Close, ReopenResolve, Refresh, OtherEvent, ClientMutation, Mutation
  <2>3. CASE ReopenCommit
    BY <2>3 DEF ReopenCommit
  <2>4. CASE Step
    <3>. SUFFICES ASSUME NEW w \in Reviews, status[w] # "open"  PROVE resolved'[w] = resolved[w]
      OBVIOUS
    <3>1. CASE \E v \in Reviews : RefreshOne(v)
      <4>1. PICK v \in Reviews : RefreshOne(v)
        BY <3>1
      <4>2. CASE status[v] = "open" /\ Attached(v)
        <5>1. ResolveTargets(v) /\ w # v
          BY <4>1, <4>2 DEF RefreshOne
        <5>. QED  BY <5>1, ResolveShape DEF WatcherInv
      <4>3. CASE ~ (status[v] = "open" /\ Attached(v))
        BY <4>1, <4>3 DEF RefreshOne
      <4>. QED  BY <4>2, <4>3
    <3>2. CASE ~ \E v \in Reviews : RefreshOne(v)
      <4>1. \/ \E r \in Repos : TakeNotification(r) \/ TakeRepo(r)
            \/ TakeEvent \/ TaskDone \/ ListRepos
            \/ \E due \in SUBSET pending : TakeDue(due)
            \/ Discover \/ WatchOne \/ Snapshot \/ Delta \/ ListReviews \/ PassDone
            \/ ListFails \/ WatchFails \/ DeltaFails \/ PassFails
            \/ \E v \in Reviews : RefreshFails(v)
        BY <2>4, <3>2 DEF Step
      <4>. QED  BY <4>1 DEF TakeNotification, TakeRepo, TakeEvent, TaskDone, ListRepos, TakeDue, Discover,
                            WatchOne, Snapshot, Delta, ListReviews, PassDone, ListFails, WatchFails,
                            DeltaFails, PassFails, RefreshFails, reviewVars
    <3>. QED  BY <3>1, <3>2
  <2>. QED  BY <2>1, <2>2, <2>3, <2>4 DEF Next
<1>. QED  BY <1>1, WatcherInvariant, PTL DEF Spec, ArchivedKept

=============================================================================
