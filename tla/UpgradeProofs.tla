--------------------------- MODULE UpgradeProofs ---------------------------
(***************************************************************************)
(* Proofs about Upgrade for any number of requests, launchers and faults:  *)
(* one daemon at a time has the store, what serves can be reached, a       *)
(* replacement is spawned only after the incumbent is gone, readiness is   *)
(* recorded only when the target has come up, and what a requester is told *)
(* is true; and about Restart, the life of one of those daemons, for every *)
(* set of connections and operations and every finite set of requests.     *)
(***************************************************************************)
EXTENDS Upgrade, Restart, FiniteSetTheorems, TLAPS

DaemonStates ==
    {"off", "starting", "leased", "open", "stale", "bound", "serving", "dead"} \cup Stopping

(* The full types; UpgradeTypeOK follows with the lock.                     *)
Typed ==
    /\ pc \in [Procs -> DaemonStates]
    /\ drain \in [Procs -> Requests \cup {Nobody}]
    /\ app \in Procs \cup {Nobody} /\ ctl \in Procs \cup {Nobody}
    /\ jid \in Requests \cup {Nobody} /\ lock \in Requests \cup {Nobody}
    /\ stage \in ActiveStages \cup {"none", "ready", "failed"}
    /\ ask \in [Requests -> {"repair", "asked", "begun", "inspected", "observing", "answered"}]
    /\ result \in [Requests -> {"none", "unneeded", "accepted", "current", "restarted", "failed"}]
    /\ source \in [Requests -> Builds]
    /\ preflight \in [Requests -> Requests \cup {Nobody}]
    /\ co \in [Requests -> {"none", "spawned", "locked", "published", "prepared", "draining",
                            "free", "starting", "confirming", "handshake", "done", "dead"}]
    /\ plan \in [Requests -> Requests]
    /\ outcome \in [Requests -> {"none", "restarted", "current", "failed"}]
    /\ look \in [Launchers -> {"again", "looked", "owner", "stopped", "clear", "vacant", "done"}]
    /\ met \in [Requests -> BOOLEAN] /\ overtaken \in [Requests -> BOOLEAN]

(* One daemon has the store, and only the one that has it touches the       *)
(* sockets.                                                                 *)
Owned ==
    /\ \A p, q \in Procs : HasCore(p) /\ HasCore(q) => p = q
    /\ \A p \in Procs : pc[p] \in {"bound", "serving", "stopping", "no control"} => app = p
    /\ \A p \in Procs : pc[p] \in {"serving", "stopping", "no socket"} => ctl = p

(* A coordinator between taking the lock and its end.                       *)
Owner(r) == co[r] \notin {"none", "spawned", "done", "dead"}
Locking == \A r \in Requests : lock = r <=> Owner(r)

(* What the journal says of the coordinator that works.                     *)
Following == {"draining", "free", "starting", "confirming", "handshake"}
Working(r) == co[r] \in {"published", "prepared"} \cup Following
Journal ==
    /\ stage = "none" <=> jid = Nobody
    /\ \A r \in Requests :
         /\ Working(r) => stage \in ActiveStages
         /\ co[r] \in {"published", "prepared"} => jid = r
         /\ co[r] \in Following => jid = plan[r]
         /\ co[r] \in {"none", "spawned", "locked", "published"} => plan[r] = r
         /\ Build[plan[r]] = Build[r]

(* Whatever names an operation names one that was admitted or has ended.    *)
Used(r) == co[r] \notin {"none", "spawned", "locked"}
Identity ==
    /\ jid # Nobody => Used(jid)
    /\ \A r \in Requests : plan[r] = r \/ Used(plan[r])
    /\ \A p \in Procs : drain[p] # Nobody => Used(drain[p])
    /\ \A r \in Requests : preflight[r] # Nobody => Used(preflight[r])

(* A requester before it spawns its coordinator, and the plan it spawns.    *)
Asking ==
    \A r \in Requests :
        /\ ask[r] \in {"repair", "asked", "begun", "inspected"} => co[r] = "none"
        /\ ask[r] = "inspected" \/ co[r] # "none" => Allow(r, source[r])
        /\ co[r] = "none" => outcome[r] = "none" /\ ~ overtaken[r]
        /\ ask[r] # "answered" => result[r] = "none"

(* A daemon is spawned once.                                                *)
Spawned ==
    /\ \A r \in Requests :
         co[r] \in {"none", "spawned", "locked", "published", "prepared", "draining", "free",
                    "starting"} => pc[r] = "off"
    /\ \A l \in Launchers : look[l] # "done" => pc[l] = "off"

(* A daemon that drains was serving; when its operation goes on to start    *)
(* the replacement it has ended.                                            *)
Drains ==
    /\ \A p \in Procs : drain[p] # Nobody => pc[p] \in {"serving", "dead"} \cup Stopping
    /\ \A r \in Requests :
         co[r] \in {"prepared"} \cup Following => \E p \in Procs : drain[p] = plan[r]
    /\ \A r \in Requests, p \in Procs :
         co[r] \in {"free", "starting"} /\ drain[p] = plan[r] => pc[p] = "dead"

(* A target that serves while its operation works has come up since.        *)
Confirms ==
    \A r \in Requests :
        /\ co[r] = "handshake" => confirmed
        /\ \A p \in Procs : Working(r) /\ pc[p] = "serving" /\ Build[p] = Build[r] => confirmed

(* What a waiting requester may come to be told, from each of its sources.  *)
Receipts ==
    \A r \in Requests :
        /\ \A p \in Procs : ask[r] \in Waiting /\ pc[p] = "serving" /\ Build[p] = Build[r] => met[r]
        /\ \A s \in Requests :
             co[s] = "handshake" /\ ask[r] = "observing" /\ Build[r] = Build[s] => met[r]
        /\ ask[r] = "observing" /\ outcome[r] \in {"restarted", "current"} => met[r]
        /\ ask[r] = "observing" /\ IsNews(r) /\ stage = "ready" /\ Build[jid] = Build[r] => met[r]

(* An operation that was overtaken while it was queued.                     *)
Queue ==
    \A s \in Requests :
        overtaken[s] /\ co[s] \in {"spawned", "locked"} =>
            \/ jid # preflight[s]
            \/ preflight[s] # Nobody /\ \E p \in Procs : drain[p] = preflight[s]

UpgradeInv ==
    /\ Typed /\ Owned /\ Locking /\ Journal /\ Identity /\ Asking /\ Spawned /\ Drains
    /\ NoDowngrade /\ Confirms /\ Receipts /\ ReceiptIsTrue /\ Queue

DaemonActs(p) == DaemonNext(p) \/ Stop(p) \/ CrashDaemon(p)
CoActs(r) ==
    CoNext(r) \/ LockTimeout(r) \/ PrepareLost(r) \/ TimedOut(r) \/ CrashCoordinator(r)

-----------------------------------------------------------------------------
(* What the steps of each kind of process leave alone.                      *)

(* A daemon writes neither the journal nor the state of requesters,         *)
(* coordinators and launchers.                                              *)
LEMMA DaemonFrame ==
    ASSUME NEW p \in Procs, DaemonActs(p)
    PROVE  /\ jid' = jid /\ stage' = stage /\ drain' = drain /\ lock' = lock
           /\ ask' = ask /\ result' = result /\ source' = source /\ preflight' = preflight
           /\ co' = co /\ plan' = plan /\ outcome' = outcome /\ look' = look
           /\ overtaken' = overtaken
  BY DEF DaemonActs, DaemonNext, TakeLeases, OpenCore, FindStale, Bind, Serve, Stop, Drained,
         CloseApp, CloseControl, ReleaseCore, CrashDaemon, DaemonStep, journalVars, askVars,
         coVars, lookVars, ghostVars

(* A requester only reads what the others write.                            *)
LEMMA AskFrame ==
    ASSUME NEW r \in Requests, AskNext(r)
    PROVE  /\ pc' = pc /\ drain' = drain /\ app' = app /\ ctl' = ctl
           /\ jid' = jid /\ stage' = stage /\ lock' = lock
           /\ plan' = plan /\ outcome' = outcome /\ look' = look
           /\ confirmed' = confirmed /\ overtaken' = overtaken
  BY DEF AskNext, Repair, Begin, Inspect, Preflight, ObserveReceipt, ObserveProgress,
         ObserveDeadline, AskStep, daemonVars, journalVars, coVars, lookVars

(* A coordinator leaves the requesters, the launchers and the sockets.      *)
LEMMA CoFrame ==
    ASSUME NEW r \in Requests, CoActs(r), Typed
    PROVE  /\ app' = app /\ ctl' = ctl
           /\ ask' = ask /\ result' = result /\ source' = source /\ preflight' = preflight
           /\ look' = look /\ met' = met
           /\ \A s \in Requests : s # r => co'[s] = co[s] /\ plan'[s] = plan[s]
                                           /\ outcome'[s] = outcome[s]
<1>1. /\ app' = app /\ ctl' = ctl
      /\ ask' = ask /\ result' = result /\ source' = source /\ preflight' = preflight
      /\ look' = look /\ met' = met
  BY DEF CoActs, CoNext, Lock, LockTimeout, Revalidate, Prepare, PrepareLost, Drain, SeeFree,
         SeeClosed, StartReplacement, SeeReplacement, Handshake, ChildExited, TimedOut,
         CrashCoordinator, CoStep, daemonVars, askVars, lookVars
<1>2. \/ plan' = plan
      \/ plan' = [plan EXCEPT ![r] = FirstOp(r)]
  BY DEF CoActs, CoNext, Lock, LockTimeout, Revalidate, Prepare, PrepareLost, Drain, SeeFree,
         SeeClosed, StartReplacement, SeeReplacement, Handshake, ChildExited, TimedOut,
         CrashCoordinator
<1>3. \E there : co' = [co EXCEPT ![r] = there]
  BY DEF CoActs, CoNext, Lock, LockTimeout, Revalidate, Prepare, PrepareLost, Drain, SeeFree,
         SeeClosed, StartReplacement, SeeReplacement, Handshake, ChildExited, TimedOut,
         CrashCoordinator, Goes, Complete, Finish
<1>4. outcome' = outcome \/ \E answer : outcome' = [outcome EXCEPT ![r] = answer]
  BY DEF CoActs, CoNext, Lock, LockTimeout, Revalidate, Prepare, PrepareLost, Drain, SeeFree,
         SeeClosed, StartReplacement, SeeReplacement, Handshake, ChildExited, TimedOut,
         CrashCoordinator, Complete, Finish
<1>. QED  BY <1>1, <1>2, <1>3, <1>4 DEF Typed

(* A launcher only starts a process.                                        *)
LEMMA LookFrame ==
    ASSUME NEW l \in Launchers, LookNext(l)
    PROVE  /\ drain' = drain /\ app' = app /\ ctl' = ctl
           /\ jid' = jid /\ stage' = stage /\ lock' = lock
           /\ ask' = ask /\ result' = result /\ source' = source /\ preflight' = preflight
           /\ co' = co /\ plan' = plan /\ outcome' = outcome
           /\ confirmed' = confirmed /\ met' = met /\ overtaken' = overtaken
  BY DEF LookNext, LookUpgrade, LookOwner, LookListening, LookCoordinator, LookStore, Launch,
         LookStep, daemonVars, journalVars, askVars, coVars, ghostVars

-----------------------------------------------------------------------------
(* Types.                                                                   *)

(* The types hold at first.                                                 *)
LEMMA TypedInit == Init => Typed
  BY UpgradeAssumption DEF Init, Typed, DaemonStates, Procs

(* A daemon's step keeps them.                                              *)
LEMMA TypedDaemon ==
    ASSUME Typed, NEW p \in Procs, DaemonActs(p)
    PROVE  Typed'
<1>1. \E there \in DaemonStates : pc' = [pc EXCEPT ![p] = there]
  BY DEF DaemonActs, DaemonNext, TakeLeases, OpenCore, FindStale, Bind, Serve, Stop, Drained,
         CloseApp, CloseControl, ReleaseCore, CrashDaemon, DaemonStep, DaemonStates, Stopping
<1>2. app' \in {app, p, Nobody} /\ ctl' \in {ctl, p, Nobody}
  BY DEF DaemonActs, DaemonNext, TakeLeases, OpenCore, FindStale, Bind, Serve, Stop, Drained,
         CloseApp, CloseControl, ReleaseCore, CrashDaemon
<1>3. met' = met \/ met' = [r \in Requests |-> met[r] \/ (ask[r] \in Waiting /\ Build[p] = Build[r])]
  BY DEF DaemonActs, DaemonNext, TakeLeases, OpenCore, FindStale, Bind, Serve, Stop, Drained,
         CloseApp, CloseControl, ReleaseCore, CrashDaemon, ghostVars
<1>4. met' \in [Requests -> BOOLEAN]
  <2>1. CASE met' = met
    BY <2>1 DEF Typed
  <2>2. CASE met' = [r \in Requests |-> met[r] \/ (ask[r] \in Waiting /\ Build[p] = Build[r])]
    BY <2>2, Zenon
  <2>. QED  BY <1>3, <2>1, <2>2
<1>5. pc' \in [Procs -> DaemonStates]
  BY <1>1 DEF Typed
<1>. QED  BY <1>2, <1>4, <1>5, DaemonFrame DEF Typed

(* What a requester reads of a journal that names an operation.             *)
LEMMA ProgressType ==
    ASSUME Typed, Journal, jid # Nobody, NEW locked \in BOOLEAN
    PROVE  Progress(locked) \in {"ready", "failed", "active"}
  BY DEF Typed, Journal, Progress, ActiveStages

(* So does a requester's.                                                   *)
LEMMA TypedAsk ==
    ASSUME Typed, Journal, NEW r \in Requests, AskNext(r)
    PROVE  Typed'
<1>0. ProbeLock \subseteq BOOLEAN
  BY DEF ProbeLock
<1>1. \E there \in {"asked", "begun", "inspected", "observing", "answered"} :
        ask' = [ask EXCEPT ![r] = there]
  BY DEF AskNext, Repair, Begin, Inspect, Preflight, ObserveReceipt, ObserveProgress,
         ObserveDeadline, Told, JoinActive
<1>2. result' = result \/ \E answer \in {"none", "unneeded", "accepted", "current", "restarted",
                                         "failed"} :
                            result' = [result EXCEPT ![r] = answer]
  <2>1. CASE ObserveProgress(r)
    <3>1. jid # Nobody
      BY <2>1 DEF ObserveProgress, IsNews
    <3>2. PICK locked \in BOOLEAN :
            Told(r, IF Build[jid] # Build[r] THEN "failed"
                    ELSE CASE Progress(locked) = "ready" -> "restarted"
                           [] Progress(locked) = "failed" -> "failed"
                           [] Progress(locked) = "active" -> "accepted")
      BY <2>1, <1>0 DEF ObserveProgress
    <3>. QED  BY <3>1, <3>2, ProgressType DEF Told
  <2>2. CASE ObserveReceipt(r)
    BY <2>2 DEF ObserveReceipt, Told, Typed
  <2>. QED  BY <2>1, <2>2 DEF AskNext, Repair, Begin, Inspect, Preflight, ObserveDeadline, Told,
                              JoinActive
<1>3. source' = source \/ (ctl # Nobody /\ source' = [source EXCEPT ![r] = Build[ctl]])
  BY DEF AskNext, Repair, Begin, Inspect, Preflight, ObserveReceipt, ObserveProgress,
         ObserveDeadline, Answering
<1>4. preflight' = preflight \/ preflight' = [preflight EXCEPT ![r] = jid]
  BY DEF AskNext, Repair, Begin, Inspect, Preflight, ObserveReceipt, ObserveProgress,
         ObserveDeadline
<1>5. co' = co \/ co' = [co EXCEPT ![r] = "spawned"]
  BY DEF AskNext, Repair, Begin, Inspect, Preflight, ObserveReceipt, ObserveProgress,
         ObserveDeadline, coVars
<1>6. met' = met \/ met' = [met EXCEPT ![r] = Answering /\ Build[ctl] = Build[r]]
  BY DEF AskNext, Repair, Begin, Inspect, Preflight, ObserveReceipt, ObserveProgress,
         ObserveDeadline
<1>7. Build \in [Procs -> Builds] /\ Requests \subseteq Procs
  BY UpgradeAssumption DEF Procs
<1>8. ask' \in [Requests -> {"repair", "asked", "begun", "inspected", "observing", "answered"}]
  BY <1>1 DEF Typed
<1>9. result' \in [Requests -> {"none", "unneeded", "accepted", "current", "restarted", "failed"}]
  BY <1>2 DEF Typed
<1>10. source' \in [Requests -> Builds]
  BY <1>3, <1>7 DEF Typed
<1>11. preflight' \in [Requests -> Requests \cup {Nobody}]
  BY <1>4 DEF Typed
<1>12. co' \in [Requests -> {"none", "spawned", "locked", "published", "prepared", "draining",
                             "free", "starting", "confirming", "handshake", "done", "dead"}]
  BY <1>5 DEF Typed
<1>13. met' \in [Requests -> BOOLEAN]
  BY <1>6 DEF Typed, Answering
<1>. QED  BY <1>8, <1>9, <1>10, <1>11, <1>12, <1>13, AskFrame DEF Typed

(* And a coordinator's.                                                     *)
LEMMA TypedCo ==
    ASSUME Typed, NEW r \in Requests, CoActs(r)
    PROVE  Typed'
<1>. USE DEF CoActs, CoNext
<1>1. pc' = pc \/ pc' = [pc EXCEPT ![r] = "starting"]
  BY DEF Lock, LockTimeout, Revalidate, Prepare, PrepareLost, Drain, SeeFree,
         SeeClosed, StartReplacement, SeeReplacement, Handshake, ChildExited, TimedOut,
         CrashCoordinator, daemonVars
<1>2. drain' = drain \/ (ctl # Nobody /\ drain' = [drain EXCEPT ![ctl] = FirstOp(r)])
  BY DEF Lock, LockTimeout, Revalidate, Prepare, PrepareLost, Drain, SeeFree,
         SeeClosed, StartReplacement, SeeReplacement, Handshake, ChildExited, TimedOut,
         CrashCoordinator, daemonVars, Accepts, Answering
<1>3. plan' = plan \/ (ctl # Nobody /\ plan' = [plan EXCEPT ![r] = FirstOp(r)])
  BY DEF Lock, LockTimeout, Revalidate, Prepare, PrepareLost, Drain, SeeFree,
         SeeClosed, StartReplacement, SeeReplacement, Handshake, ChildExited, TimedOut,
         CrashCoordinator, Accepts, Answering
<1>4. jid' \in {jid, r, plan[r]} /\ stage' \in {stage, "ready", "failed"} \cup ActiveStages
  BY DEF Lock, LockTimeout, Revalidate, Prepare, PrepareLost, Drain, SeeFree,
         SeeClosed, StartReplacement, SeeReplacement, Handshake, ChildExited, TimedOut,
         CrashCoordinator, Finish, Publish, journalVars, ActiveStages
<1>5. lock' \in {lock, r, Nobody}
  BY DEF Lock, LockTimeout, Revalidate, Prepare, PrepareLost, Drain, SeeFree,
         SeeClosed, StartReplacement, SeeReplacement, Handshake, ChildExited, TimedOut,
         CrashCoordinator, Finish, Complete
<1>6. \E there \in {"locked", "published", "prepared", "draining", "free", "starting",
                    "confirming", "handshake", "done", "dead"} : co' = [co EXCEPT ![r] = there]
  BY DEF Lock, LockTimeout, Revalidate, Prepare, PrepareLost, Drain, SeeFree,
         SeeClosed, StartReplacement, SeeReplacement, Handshake, ChildExited, TimedOut,
         CrashCoordinator, Finish, Complete, Goes
<1>7. outcome' = outcome \/ \E answer \in {"restarted", "current", "failed"} :
                              outcome' = [outcome EXCEPT ![r] = answer]
  BY DEF Lock, LockTimeout, Revalidate, Prepare, PrepareLost, Drain, SeeFree,
         SeeClosed, StartReplacement, SeeReplacement, Handshake, ChildExited, TimedOut,
         CrashCoordinator, Finish, Complete
<1>8. overtaken' = overtaken \/
      overtaken' = [s \in Requests |-> overtaken[s] \/ (s # r /\ co[s] = "spawned")]
  BY DEF Lock, LockTimeout, Revalidate, Prepare, PrepareLost, Drain, SeeFree,
         SeeClosed, StartReplacement, SeeReplacement, Handshake, ChildExited, TimedOut,
         CrashCoordinator
<1>. HIDE DEF CoActs, CoNext
<1>9. FirstOp(r) \in Requests \/ ctl = Nobody
  BY DEF FirstOp, Typed
<1>10. pc' \in [Procs -> DaemonStates]
  BY <1>1 DEF Typed, DaemonStates, Procs
<1>11. drain' \in [Procs -> Requests \cup {Nobody}]
  BY <1>2, <1>9 DEF Typed
<1>12. plan' \in [Requests -> Requests]
  BY <1>3, <1>9 DEF Typed
<1>13. jid' \in Requests \cup {Nobody} /\ lock' \in Requests \cup {Nobody}
  BY <1>4, <1>5 DEF Typed
<1>14. co' \in [Requests -> {"none", "spawned", "locked", "published", "prepared", "draining",
                             "free", "starting", "confirming", "handshake", "done", "dead"}]
  BY <1>6 DEF Typed
<1>15. outcome' \in [Requests -> {"none", "restarted", "current", "failed"}]
  BY <1>7 DEF Typed
<1>16. overtaken' \in [Requests -> BOOLEAN]
  <2>1. CASE overtaken' = overtaken
    BY <2>1 DEF Typed
  <2>2. CASE overtaken' = [s \in Requests |-> overtaken[s] \/ (s # r /\ co[s] = "spawned")]
    BY <2>2, Zenon
  <2>. QED  BY <1>8, <2>1, <2>2
<1>17. stage' \in ActiveStages \cup {"none", "ready", "failed"}
  BY <1>4 DEF Typed
<1>. QED  BY <1>10, <1>11, <1>12, <1>13, <1>14, <1>15, <1>16, <1>17, CoFrame DEF Typed

(* And a launcher's.                                                        *)
LEMMA TypedLook ==
    ASSUME Typed, NEW l \in Launchers, LookNext(l)
    PROVE  Typed'
<1>1. pc' = pc \/ pc' = [pc EXCEPT ![l] = "starting"]
  BY DEF LookNext, LookUpgrade, LookOwner, LookListening, LookCoordinator, LookStore, Launch,
         daemonVars
<1>2. \E there \in {"again", "looked", "owner", "stopped", "clear", "vacant", "done"} :
        look' = [look EXCEPT ![l] = there]
  BY DEF LookNext, LookUpgrade, LookOwner, LookListening, LookCoordinator, LookStore, Launch,
         Sees
<1>3. pc' \in [Procs -> DaemonStates]
  BY <1>1 DEF Typed, DaemonStates, Procs
<1>4. look' \in [Launchers -> {"again", "looked", "owner", "stopped", "clear", "vacant", "done"}]
  BY <1>2 DEF Typed
<1>. QED  BY <1>3, <1>4, LookFrame DEF Typed

-----------------------------------------------------------------------------
(* The store and its sockets.                                               *)

(* First has the store and both sockets.                                    *)
LEMMA OwnedInit == Init => Owned
<1>. SUFFICES ASSUME Init PROVE Owned
  OBVIOUS
<1>1. \A p \in Procs : pc[p] = IF p = First THEN "serving" ELSE "off"
  BY DEF Init
<1>. QED  BY <1>1 DEF Init, Owned, HasCore, Stopping

(* A process that is spawned has nothing yet.                               *)
LEMMA OwnedSpawn ==
    ASSUME Typed, Owned, app' = app, ctl' = ctl,
           pc' = pc \/ \E x \in Procs : pc' = [pc EXCEPT ![x] = "starting"]
    PROVE  Owned'
<1>1. \A q \in Procs : pc'[q] = pc[q] \/ pc'[q] = "starting"
  BY DEF Typed
<1>. QED  BY <1>1 DEF Owned, HasCore, Stopping

(* The place of one daemon changes.                                         *)
Moves(p, here, there) ==
    pc[p] = here /\ pc'[p] = there /\ \A q \in Procs : q # p => pc'[q] = pc[q]

(* A step of a daemon, process by process.                                  *)
LEMMA DaemonMoves ==
    ASSUME Typed, NEW p \in Procs, NEW here, NEW there, DaemonStep(p, here, there)
    PROVE  Moves(p, here, there)
  BY DEF Typed, DaemonStep, Moves

(* The daemon that opens the store is alone, and the others leave sockets   *)
(* alone: each removes what it finds at a path only while it has the store. *)
LEMMA OwnedDaemon ==
    ASSUME Typed, Owned, NEW p \in Procs, DaemonActs(p)
    PROVE  Owned'
<1>. USE DEF Owned, Moves, HasCore, Stopping
<1>1. CASE TakeLeases(p)
  <2>1. Moves(p, "starting", "leased")
    BY <1>1, DaemonMoves DEF TakeLeases
  <2>. QED  BY <1>1, <2>1 DEF TakeLeases
<1>2. CASE OpenCore(p)
  <2>1. CASE Moves(p, "leased", "dead") /\ app' = app /\ ctl' = ctl
    BY <2>1
  <2>2. CASE /\ Moves(p, "leased", "open") /\ app' = app /\ ctl' = ctl
             /\ ~ \E q \in Procs : HasCore(q)
    BY <2>2
  <2>. QED  BY <1>2, <2>1, <2>2, DaemonMoves DEF OpenCore
<1>3. CASE FindStale(p)
  <2>1. Moves(p, "open", "dead") \/ Moves(p, "open", "stale")
    BY <1>3, DaemonMoves DEF FindStale
  <2>. QED  BY <1>3, <2>1 DEF FindStale
<1>4. CASE Bind(p)
  <2>1. Moves(p, "stale", "bound")
    BY <1>4, DaemonMoves DEF Bind
  <2>. QED  BY <1>4, <2>1 DEF Bind
<1>5. CASE Serve(p)
  <2>1. Moves(p, "bound", "serving")
    BY <1>5, DaemonMoves DEF Serve
  <2>. QED  BY <1>5, <2>1 DEF Serve
<1>6. CASE Stop(p) \/ Drained(p)
  <2>1. Moves(p, "serving", "stopping") /\ app' = app /\ ctl' = ctl
    BY <1>6, DaemonMoves DEF Stop, Drained
  <2>. QED  BY <2>1
<1>7. CASE CloseApp(p)
  <2>1. Moves(p, "stopping", "no socket") \/ Moves(p, "no control", "closed")
    BY <1>7, DaemonMoves DEF CloseApp
  <2>. QED  BY <1>7, <2>1 DEF CloseApp
<1>8. CASE CloseControl(p)
  <2>1. Moves(p, "stopping", "no control") \/ Moves(p, "no socket", "closed")
    BY <1>8, DaemonMoves DEF CloseControl
  <2>. QED  BY <1>8, <2>1 DEF CloseControl
<1>9. CASE ReleaseCore(p) \/ CrashDaemon(p)
  <2>1. Moves(p, pc[p], "dead")
    BY <1>9, DaemonMoves DEF ReleaseCore, CrashDaemon
  <2>. QED  BY <1>9, <2>1 DEF ReleaseCore, CrashDaemon
<1>. QED  BY <1>1, <1>2, <1>3, <1>4, <1>5, <1>6, <1>7, <1>8, <1>9 DEF DaemonActs, DaemonNext

(* A coordinator spawns the replacement, and nothing else.                  *)
LEMMA CoSpawn ==
    ASSUME Typed, NEW r \in Requests, CoActs(r)
    PROVE  \/ pc' = pc
           \/ /\ pc' = [pc EXCEPT ![r] = "starting"]
              /\ co[r] = "starting" /\ co'[r] = "confirming" /\ drain' = drain /\ plan' = plan
  BY DEF CoActs, CoNext, Lock, LockTimeout, Revalidate, Prepare, PrepareLost, Drain, SeeFree,
         SeeClosed, StartReplacement, SeeReplacement, Handshake, ChildExited, TimedOut,
         CrashCoordinator, daemonVars, CoStep, Goes, Typed

(* A launcher spawns a daemon at the end of its loop.                       *)
LEMMA LookSpawn ==
    ASSUME Typed, NEW l \in Launchers, LookNext(l)
    PROVE  /\ \A m \in Launchers : m # l => look'[m] = look[m]
           /\ look[l] # "done"
           /\ \/ pc' = pc
              \/ pc' = [pc EXCEPT ![l] = "starting"] /\ look'[l] = "done"
  BY DEF LookNext, LookUpgrade, LookOwner, LookListening, LookCoordinator, LookStore, Launch,
         LookStep, Sees, daemonVars, Typed

(* Every step keeps the ownership.                                          *)
LEMMA OwnedStep ==
    ASSUME Typed, Owned, [Next]_vars
    PROVE  Owned'
<1>0. Requests \subseteq Procs /\ Launchers \subseteq Procs
  BY DEF Procs
<1>1. ASSUME NEW p \in Procs, DaemonActs(p) PROVE Owned'
  BY <1>1, OwnedDaemon
<1>2. ASSUME NEW r \in Requests, AskNext(r) PROVE Owned'
  BY <1>2, AskFrame, OwnedSpawn
<1>3. ASSUME NEW r \in Requests, CoActs(r) PROVE Owned'
  BY <1>0, <1>3, CoFrame, CoSpawn, OwnedSpawn
<1>4. ASSUME NEW l \in Launchers, LookNext(l) PROVE Owned'
  BY <1>0, <1>4, LookFrame, LookSpawn, OwnedSpawn
<1>5. CASE UNCHANGED vars
  BY <1>5, OwnedSpawn DEF vars, daemonVars
<1>. QED  BY <1>1, <1>2, <1>3, <1>4, <1>5 DEF Next, DaemonActs, CoActs

-----------------------------------------------------------------------------
(* The steps of a coordinator, request by request.                          *)

CoMoves(r, here, there) ==
    co[r] = here /\ co'[r] = there /\ \A s \in Requests : s # r => co'[s] = co[s]
SameJournal == jid' = jid /\ stage' = stage
SameRecords == drain' = drain /\ plan' = plan /\ confirmed' = confirmed /\ overtaken' = overtaken
Notes(r, answers) ==
    outcome'[r] \in answers /\ \A s \in Requests : s # r => outcome'[s] = outcome[s]
StartsDraining(r) ==
    /\ ctl \in Procs /\ Accepts(r)
    /\ drain'[ctl] = FirstOp(r)
    /\ \A p \in Procs : p # ctl => drain'[p] = drain[p]

TakesLock(r) ==
    /\ CoMoves(r, "spawned", "locked") /\ lock = Nobody /\ lock' = r
    /\ SameJournal /\ SameRecords /\ outcome' = outcome
Dies(r) ==
    /\ co[r] \notin {"none", "done", "dead"} /\ CoMoves(r, co[r], "dead")
    /\ lock' = IF lock = r THEN Nobody ELSE lock
    /\ SameJournal /\ SameRecords /\ outcome' = outcome
Refused(r) ==
    /\ CoMoves(r, "locked", "done") /\ lock' = Nobody
    /\ SameJournal /\ SameRecords /\ Notes(r, {"failed", "restarted", "current"})
    /\ outcome'[r] # "failed" => Answering /\ Build[ctl] = Build[r]
Admitted(r) ==
    /\ CoMoves(r, "locked", "published") /\ lock' = lock
    /\ Answering /\ Build[ctl] # Build[r] /\ Unchanged(r)
    /\ jid' = r /\ stage' = "preparing" /\ outcome' = outcome
    /\ drain' = drain /\ plan' = plan
    /\ \A s \in Requests : overtaken'[s] => overtaken[s] \/ (s # r /\ co[s] = "spawned")
Accepted(r) ==
    /\ CoMoves(r, "published", "prepared") /\ lock' = lock
    /\ SameJournal /\ outcome' = outcome /\ StartsDraining(r)
    /\ plan'[r] = FirstOp(r) /\ Build[FirstOp(r)] = Build[r]
    /\ \A s \in Requests : s # r => plan'[s] = plan[s]
    /\ confirmed' = confirmed /\ overtaken' = overtaken
Failed(r) ==
    /\ Working(r) /\ CoMoves(r, co[r], "done") /\ lock' = Nobody
    /\ jid' = plan[r] /\ stage' = "failed" /\ Notes(r, {"failed"})
    /\ drain' = drain \/ (co[r] = "published" /\ StartsDraining(r))
    /\ plan' = plan /\ confirmed' = confirmed /\ overtaken' = overtaken
Records(r) == jid' = plan[r] /\ stage' \in ActiveStages
Advances(r) ==
    /\ lock' = lock /\ outcome' = outcome /\ SameRecords
    /\ \/ CoMoves(r, "prepared", "draining") /\ Records(r)
       \/ CoMoves(r, "draining", "free") /\ SameJournal /\ ~ Held
       \/ CoMoves(r, "free", "draining") /\ SameJournal
       \/ CoMoves(r, "free", "starting") /\ Records(r)
       \/ CoMoves(r, "starting", "confirming") /\ Records(r)
       \/ CoMoves(r, "confirming", "handshake") /\ SameJournal /\ Answering
          /\ Build[ctl] = Build[r]
       \/ CoMoves(r, "handshake", "confirming") /\ SameJournal
Confirmed(r) ==
    /\ CoMoves(r, "handshake", "done") /\ lock' = Nobody
    /\ jid' = plan[r] /\ stage' = "ready" /\ Notes(r, {"restarted"}) /\ SameRecords

(* Which of these a step of a coordinator is.                               *)
LEMMA CoCases ==
    ASSUME Typed, Locking, NEW r \in Requests, CoActs(r)
    PROVE  \/ TakesLock(r) \/ Dies(r) \/ Refused(r) \/ Admitted(r) \/ Accepted(r)
           \/ Failed(r) \/ Advances(r) \/ Confirmed(r)
<1>a. ASSUME NEW there, Goes(r, there)
      PROVE  CoMoves(r, co[r], there)
  BY <1>a DEF Goes, CoMoves, Typed
<1>b. ASSUME NEW answer, outcome' = [outcome EXCEPT ![r] = answer]
      PROVE  Notes(r, {answer})
  BY <1>b DEF Notes, Typed
<1>c. ASSUME Accepts(r), drain' = [drain EXCEPT ![ctl] = FirstOp(r)]
      PROVE  StartsDraining(r)
  BY <1>c DEF StartsDraining, Typed, Accepts, Answering
<1>d. ASSUME NEW final \in {"ready", "failed"}, Finish(r, final)
      PROVE  /\ CoMoves(r, co[r], "done") /\ lock' = Nobody /\ jid' = plan[r] /\ stage' = final
             /\ Notes(r, {IF final = "ready" THEN "restarted" ELSE "failed"})
  BY <1>a, <1>b, <1>d DEF Finish, Complete
<1>1. CASE Lock(r)
  BY <1>a, <1>1 DEF Lock, CoStep, TakesLock, SameJournal, SameRecords, journalVars, daemonVars
<1>2. CASE LockTimeout(r) \/ CrashCoordinator(r)
  <2>1. CASE LockTimeout(r)
    BY <1>a, <2>1 DEF LockTimeout, CoStep, Dies, SameJournal, SameRecords, journalVars,
                      daemonVars, Locking, Owner
  <2>2. CASE CrashCoordinator(r)
    BY <1>a, <2>2 DEF CrashCoordinator, CoStep, Dies, SameJournal, SameRecords, journalVars,
                      daemonVars
  <2>. QED  BY <1>2, <2>1, <2>2
<1>3. CASE Revalidate(r)
  <2>1. CASE Answering /\ Build[ctl] # Build[r] /\ Unchanged(r)
    <3>1. /\ overtaken' = [s \in Requests |-> overtaken[s] \/ (s # r /\ co[s] = "spawned")]
          /\ Goes(r, "published") /\ Publish(r, "preparing") /\ co[r] = "locked"
          /\ lock' = lock /\ outcome' = outcome /\ drain' = drain /\ plan' = plan
      BY <1>3, <2>1 DEF Revalidate, CoStep, daemonVars
    <3>2. \A s \in Requests : overtaken'[s] => overtaken[s] \/ (s # r /\ co[s] = "spawned")
      BY <3>1, Zenon
    <3>. QED  BY <1>a, <2>1, <3>1, <3>2 DEF Admitted, Publish
  <2>2. CASE ~ (Answering /\ Build[ctl] # Build[r] /\ Unchanged(r))
    <3>1. PICK answer \in {"failed", "restarted", "current"} :
            /\ Complete(r, answer)
            /\ answer # "failed" => Answering /\ Build[ctl] = Build[r]
      BY <1>3, <2>2 DEF Revalidate
    <3>2. co[r] = "locked" /\ SameJournal /\ SameRecords
      BY <1>3, <2>2 DEF Revalidate, CoStep, SameJournal, SameRecords, journalVars, daemonVars
    <3>. QED  BY <1>a, <1>b, <3>1, <3>2 DEF Refused, Complete, Notes
  <2>. QED  BY <2>1, <2>2
<1>4. CASE Prepare(r)
  <2>1. CASE Accepts(r) /\ Build[FirstOp(r)] = Build[r]
    <3>1. /\ drain' = [drain EXCEPT ![ctl] = FirstOp(r)]
          /\ plan' = [plan EXCEPT ![r] = FirstOp(r)]
          /\ Goes(r, "prepared") /\ co[r] = "published"
          /\ SameJournal /\ lock' = lock /\ outcome' = outcome
          /\ confirmed' = confirmed /\ overtaken' = overtaken
      BY <1>4, <2>1 DEF Prepare, CoStep, SameJournal, journalVars
    <3>2. plan'[r] = FirstOp(r) /\ \A s \in Requests : s # r => plan'[s] = plan[s]
      BY <3>1 DEF Typed
    <3>. QED  BY <1>a, <1>c, <2>1, <3>1, <3>2 DEF Accepted
  <2>2. CASE ~ (Accepts(r) /\ Build[FirstOp(r)] = Build[r])
    <3>1. /\ Finish(r, "failed") /\ plan' = plan /\ co[r] = "published"
          /\ confirmed' = confirmed /\ overtaken' = overtaken
          /\ drain' = drain \/ (Accepts(r) /\ drain' = [drain EXCEPT ![ctl] = FirstOp(r)])
      BY <1>4, <2>2 DEF Prepare, CoStep
    <3>. QED  BY <1>c, <1>d, <3>1 DEF Failed, Working
  <2>. QED  BY <2>1, <2>2
<1>5. CASE PrepareLost(r)
  BY <1>c, <1>d, <1>5 DEF PrepareLost, CoStep, Failed, Working
<1>6. CASE Drain(r)
  BY <1>a, <1>6 DEF Drain, CoStep, Advances, Records, Publish, SameRecords, ActiveStages, daemonVars
<1>7. CASE SeeFree(r)
  BY <1>a, <1>7 DEF SeeFree, CoStep, Advances, SameJournal, SameRecords, journalVars, daemonVars
<1>8. CASE SeeClosed(r)
  BY <1>a, <1>8 DEF SeeClosed, CoStep, Advances, Records, Publish, SameJournal, SameRecords,
                    ActiveStages, journalVars, daemonVars
<1>9. CASE StartReplacement(r)
  BY <1>a, <1>9 DEF StartReplacement, CoStep, Advances, Records, Publish, SameRecords, ActiveStages
<1>10. CASE SeeReplacement(r)
  BY <1>a, <1>10 DEF SeeReplacement, CoStep, Advances, SameJournal, SameRecords, journalVars,
                     daemonVars
<1>11. CASE Handshake(r)
  <2>1. co[r] = "handshake" /\ SameRecords
    BY <1>11 DEF Handshake, CoStep, SameRecords, daemonVars
  <2>2. CASE Finish(r, "ready")
    BY <1>d, <2>1, <2>2 DEF Confirmed
  <2>3. CASE Goes(r, "confirming") /\ UNCHANGED <<journalVars, lock, outcome>>
    BY <1>a, <2>1, <2>3 DEF Advances, SameJournal, journalVars
  <2>. QED  BY <1>11, <2>2, <2>3 DEF Handshake
<1>12. CASE ChildExited(r) \/ TimedOut(r)
  <2>1. /\ Finish(r, "failed") /\ Working(r) /\ drain' = drain /\ plan' = plan
        /\ confirmed' = confirmed /\ overtaken' = overtaken
    BY <1>12 DEF ChildExited, TimedOut, CoStep, Working, Following, daemonVars
  <2>. QED  BY <1>d, <2>1 DEF Failed
<1>. QED  BY <1>1, <1>2, <1>3, <1>4, <1>5, <1>6, <1>7, <1>8, <1>9, <1>10, <1>11, <1>12
          DEF CoActs, CoNext

(* The steps of a requester, request by request.                            *)

AskMoves(r, here, there) ==
    ask[r] = here /\ ask'[r] = there /\ \A s \in Requests : s # r => ask'[s] = ask[s]
SamePlans == source' = source /\ preflight' = preflight /\ co' = co

Repairs(r) ==
    AskMoves(r, "repair", "asked") /\ SamePlans /\ result' = result /\ met' = met
Begins(r) ==
    /\ AskMoves(r, "asked", "begun") /\ SamePlans /\ result' = result
    /\ Answering /\ Build[ctl] = Build[r] => met'[r]
    /\ \A s \in Requests : s # r => met'[s] = met[s]
Inspects(r) ==
    /\ AskMoves(r, "begun", "inspected") /\ result' = result /\ met' = met
    /\ preflight' = preflight /\ co' = co
    /\ Allow(r, source'[r]) /\ \A s \in Requests : s # r => source'[s] = source[s]
Spawns(r) ==
    /\ AskMoves(r, "inspected", "observing") /\ result' = result /\ met' = met
    /\ source' = source
    /\ stage \in ActiveStages => lock = Nobody
    /\ preflight'[r] = jid /\ \A s \in Requests : s # r => preflight'[s] = preflight[s]
    /\ co'[r] = "spawned" /\ \A s \in Requests : s # r => co'[s] = co[s]
(* The grounds on which a requester is told "restarted" or "current".       *)
Grounds(r) ==
    \/ ask[r] = "begun" /\ Answering /\ Build[ctl] = Build[r]
    \/ ask[r] = "observing" /\ outcome[r] \in {"restarted", "current"}
    \/ ask[r] = "observing" /\ IsNews(r) /\ stage = "ready" /\ Build[jid] = Build[r]
Answers(r) ==
    /\ ask[r] # "answered" /\ AskMoves(r, ask[r], "answered") /\ SamePlans
    /\ \A s \in Requests : s # r => result'[s] = result[s] /\ met'[s] = met[s]
    /\ result'[r] \in {"restarted", "current"} => Grounds(r) /\ met' = met

(* Which of these a step of a requester is.                                 *)
LEMMA AskCases ==
    ASSUME Typed, Journal, NEW r \in Requests, AskNext(r)
    PROVE  Repairs(r) \/ Begins(r) \/ Inspects(r) \/ Spawns(r) \/ Answers(r)
<1>a. ASSUME NEW there, ask' = [ask EXCEPT ![r] = there]
      PROVE  AskMoves(r, ask[r], there)
  BY <1>a DEF AskMoves, Typed
<1>b. ASSUME NEW answer, Told(r, answer)
      PROVE  /\ AskMoves(r, ask[r], "answered") /\ result'[r] = answer
             /\ \A s \in Requests : s # r => result'[s] = result[s]
  BY <1>a, <1>b DEF Told, Typed
<1>c. ASSUME NEW answer, Told(r, answer), ask[r] # "answered", SamePlans, met' = met,
             answer \in {"restarted", "current"} => Grounds(r)
      PROVE  Answers(r)
  BY <1>b, <1>c DEF Answers
<1>d. ASSUME NEW v, met' = [met EXCEPT ![r] = v]
      PROVE  met'[r] = v /\ \A s \in Requests : s # r => met'[s] = met[s]
  BY <1>d DEF Typed
<1>e. ProbeLock \subseteq BOOLEAN
  BY DEF ProbeLock
<1>1. CASE Repair(r)
  <2>1. SamePlans /\ met' = met /\ ask[r] = "repair"
    BY <1>1 DEF Repair, AskStep, SamePlans, coVars
  <2>2. CASE Told(r, "unneeded")
    BY <1>c, <2>1, <2>2
  <2>3. CASE ask' = [ask EXCEPT ![r] = "asked"] /\ result' = result
    BY <1>a, <2>1, <2>3 DEF Repairs
  <2>. QED  BY <1>1, <2>2, <2>3 DEF Repair
<1>2. CASE Begin(r)
  <2>1. /\ SamePlans /\ ask[r] = "asked"
        /\ met' = [met EXCEPT ![r] = Answering /\ Build[ctl] = Build[r]]
    BY <1>2 DEF Begin, AskStep, SamePlans, coVars
  <2>2. CASE \E answer \in {"accepted", "failed"} : Told(r, answer)
    BY <1>b, <1>d, <2>1, <2>2 DEF Answers
  <2>3. CASE ask' = [ask EXCEPT ![r] = "begun"] /\ result' = result
    <3>1. Answering /\ Build[ctl] = Build[r] => met'[r]
      BY <1>d, <2>1
    <3>2. \A s \in Requests : s # r => met'[s] = met[s]
      BY <1>d, <2>1
    <3>. QED  BY <1>a, <2>1, <2>3, <3>1, <3>2 DEF Begins
  <2>. QED  BY <1>2, <2>2, <2>3 DEF Begin, JoinActive
<1>3. CASE Inspect(r)
  <2>1. ask[r] = "begun" /\ preflight' = preflight /\ co' = co /\ met' = met
    BY <1>3 DEF Inspect, AskStep, coVars
  <2>2. CASE Answering /\ Build[ctl] # Build[r] /\ Allow(r, Build[ctl])
    <3>1. /\ ask' = [ask EXCEPT ![r] = "inspected"] /\ result' = result
          /\ source' = [source EXCEPT ![r] = Build[ctl]]
      BY <1>3, <2>2 DEF Inspect
    <3>2. source'[r] = Build[ctl] /\ \A s \in Requests : s # r => source'[s] = source[s]
      BY <3>1 DEF Typed
    <3>. QED  BY <1>a, <2>1, <2>2, <3>1, <3>2 DEF Inspects
  <2>3. CASE ~ (Answering /\ Build[ctl] # Build[r] /\ Allow(r, Build[ctl]))
    <3>1. PICK answer \in {"current", "failed"} :
            /\ Told(r, answer)
            /\ answer = "current" => Answering /\ Build[ctl] = Build[r]
      BY <1>3, <2>3 DEF Inspect
    <3>2. SamePlans
      BY <1>3, <2>1, <2>3 DEF Inspect, SamePlans
    <3>. QED  BY <1>c, <2>1, <3>1, <3>2 DEF Grounds
  <2>. QED  BY <2>2, <2>3
<1>4. CASE Preflight(r)
  <2>1. ask[r] = "inspected" /\ source' = source /\ met' = met
    BY <1>4 DEF Preflight, AskStep
  <2>2. PICK locked \in ProbeLock :
          IF Joins(locked) THEN JoinActive(r) /\ UNCHANGED <<preflight, co>>
          ELSE /\ ask' = [ask EXCEPT ![r] = "observing"]
               /\ preflight' = [preflight EXCEPT ![r] = jid]
               /\ co' = [co EXCEPT ![r] = "spawned"]
               /\ UNCHANGED result
    BY <1>4 DEF Preflight
  <2>3. CASE Joins(locked)
    BY <1>c, <2>1, <2>2, <2>3 DEF JoinActive, SamePlans
  <2>4. CASE ~ Joins(locked)
    <3>1. /\ ask' = [ask EXCEPT ![r] = "observing"]
          /\ preflight' = [preflight EXCEPT ![r] = jid]
          /\ co' = [co EXCEPT ![r] = "spawned"]
          /\ result' = result
      BY <2>2, <2>4
    <3>2. stage \in ActiveStages => lock = Nobody
      BY <2>4 DEF Joins, Progress, ProbeLock
    <3>3. preflight'[r] = jid /\ \A s \in Requests : s # r => preflight'[s] = preflight[s]
      BY <3>1 DEF Typed
    <3>4. co'[r] = "spawned" /\ \A s \in Requests : s # r => co'[s] = co[s]
      BY <3>1 DEF Typed
    <3>. QED  BY <1>a, <2>1, <3>1, <3>2, <3>3, <3>4 DEF Spawns
  <2>. QED  BY <2>3, <2>4
<1>5. CASE ObserveReceipt(r)
  <2>1. ask[r] = "observing" /\ SamePlans /\ met' = met /\ Told(r, outcome[r])
    BY <1>5 DEF ObserveReceipt, AskStep, SamePlans, coVars
  <2>. QED  BY <1>c, <2>1 DEF Grounds
<1>6. CASE ObserveProgress(r)
  <2>1. ask[r] = "observing" /\ SamePlans /\ met' = met /\ IsNews(r)
    BY <1>6 DEF ObserveProgress, AskStep, SamePlans, coVars
  <2>2. PICK locked \in BOOLEAN :
          Told(r, IF Build[jid] # Build[r] THEN "failed"
                  ELSE CASE Progress(locked) = "ready" -> "restarted"
                         [] Progress(locked) = "failed" -> "failed"
                         [] Progress(locked) = "active" -> "accepted")
    BY <1>6, <1>e DEF ObserveProgress
  <2>3. Progress(locked) \in {"ready", "failed", "active"}
    BY <2>1, ProgressType DEF IsNews
  <2>4. Progress(locked) = "ready" => stage = "ready"
    BY DEF Progress
  <2>5. PICK answer \in {"failed", "accepted", "restarted"} :
          /\ Told(r, answer)
          /\ answer = "restarted" => Build[jid] = Build[r] /\ stage = "ready"
    BY <2>2, <2>3, <2>4
  <2>. QED  BY <1>c, <2>1, <2>5 DEF Grounds
<1>7. CASE ObserveDeadline(r)
  <2>1. ask[r] = "observing" /\ SamePlans /\ met' = met /\ Told(r, "failed")
    BY <1>7 DEF ObserveDeadline, AskStep, SamePlans, coVars
  <2>. QED  BY <1>c, <2>1
<1>. QED  BY <1>1, <1>2, <1>3, <1>4, <1>5, <1>6, <1>7 DEF AskNext

(* A daemon's step, seen from the others: it is never revived, one that     *)
(* drains stays on its way out, and only Serve lets it serve, which the     *)
(* ghosts note.                                                             *)
LEMMA DaemonEffects ==
    ASSUME Typed, NEW p \in Procs, DaemonActs(p)
    PROVE  /\ \A q \in Procs : pc[q] \in {"off", "dead"} => pc'[q] = pc[q]
           /\ \A q \in Procs : pc[q] \in {"serving", "dead"} \cup Stopping =>
                                 pc'[q] \in {"serving", "dead"} \cup Stopping
           /\ confirmed => confirmed'
           /\ \A r \in Requests : met[r] => met'[r]
           /\ \A q \in Procs : pc'[q] = "serving" =>
                \/ pc[q] = "serving"
                \/ /\ lock # Nobody /\ Build[q] = Build[lock] => confirmed'
                   /\ \A r \in Requests : ask[r] \in Waiting /\ Build[q] = Build[r] => met'[r]
<1>1. CASE Serve(p)
  <2>1. Moves(p, "bound", "serving")
    BY <1>1, DaemonMoves DEF Serve
  <2>2. confirmed' = (confirmed \/ (lock # Nobody /\ Build[p] = Build[lock]))
    BY <1>1 DEF Serve
  <2>3. \A r \in Requests : met'[r] = (met[r] \/ (ask[r] \in Waiting /\ Build[p] = Build[r]))
    BY <1>1, Zenon DEF Serve
  <2>4. \A r \in Requests : met[r] => met'[r]
    BY <2>3, Zenon
  <2>5. \A r \in Requests : ask[r] \in Waiting /\ Build[p] = Build[r] => met'[r]
    BY <2>3, Zenon
  <2>. QED  BY <2>1, <2>2, <2>4, <2>5 DEF Moves, Stopping
<1>2. CASE ~ Serve(p)
  <2>1. confirmed' = confirmed /\ met' = met
    BY <1>2 DEF DaemonActs, DaemonNext, TakeLeases, OpenCore, FindStale, Bind, Stop, Drained,
           CloseApp, CloseControl, ReleaseCore, CrashDaemon, ghostVars
  <2>2. PICK there \in DaemonStates : DaemonStep(p, pc[p], there) /\ there # "serving"
                        /\ pc[p] \notin {"off", "dead"}
                        /\ (pc[p] \in {"serving"} \cup Stopping => there \in {"dead"} \cup Stopping)
    BY <1>2 DEF DaemonActs, DaemonNext, TakeLeases, OpenCore, FindStale, Bind, Stop, Drained,
           CloseApp, CloseControl, ReleaseCore, CrashDaemon, DaemonStep, DaemonStates, Stopping
  <2>3. Moves(p, pc[p], there)
    BY <2>2, DaemonMoves
  <2>. QED  BY <2>1, <2>2, <2>3 DEF Moves
<1>. QED  BY <1>1, <1>2

(* Every step is one of these.                                              *)
LEMMA Kinds ==
    ASSUME [Next]_vars
    PROVE  \/ \E p \in Procs : DaemonActs(p)
           \/ \E r \in Requests : AskNext(r) \/ CoActs(r)
           \/ \E l \in Launchers : LookNext(l)
           \/ UNCHANGED vars
  BY DEF Next, DaemonActs, CoActs

-----------------------------------------------------------------------------
(* The coordinators' lock, the journal and the names of operations.         *)

(* Initially nobody works and nothing is named.                             *)
LEMMA CoInit == Init => Locking /\ Journal /\ Identity /\ Asking
<1>. SUFFICES ASSUME Init PROVE Locking /\ Journal /\ Identity /\ Asking
  OBVIOUS
<1>1. /\ \A r \in Requests :
           /\ co[r] = "none" /\ plan[r] = r /\ preflight[r] = Nobody /\ outcome[r] = "none"
           /\ ask[r] \in {"repair", "asked"} /\ result[r] = "none" /\ overtaken[r] = FALSE
      /\ \A p \in Procs : drain[p] = Nobody
      /\ jid = Nobody /\ stage = "none" /\ lock = Nobody
  BY DEF Init
<1>2. Nobody \notin Requests
  BY UpgradeAssumption DEF Procs
<1>3. Locking
  BY <1>1, <1>2 DEF Locking, Owner
<1>4. Journal
  BY <1>1 DEF Journal, Working, Following
<1>5. Identity
  BY <1>1 DEF Identity
<1>6. Asking
  BY <1>1 DEF Asking
<1>. QED  BY <1>3, <1>4, <1>5, <1>6

(* The lock is held by the coordinator that is between Lock and its end.    *)
LEMMA LockingStep ==
    ASSUME Typed, Locking, Journal, Asking, [Next]_vars
    PROVE  Locking'
<1>0. Nobody \notin Requests
  BY UpgradeAssumption DEF Procs
<1>1. ASSUME lock' = lock, co' = co PROVE Locking'
  BY <1>1 DEF Locking, Owner
<1>2. ASSUME NEW r \in Requests, AskNext(r) PROVE Locking'
  <2>1. lock' = lock
    BY <1>2, AskFrame
  <2>2. CASE Spawns(r)
    BY <2>1, <2>2 DEF Spawns, AskMoves, Locking, Owner, Asking
  <2>. QED  BY <1>1, <1>2, <2>1, <2>2, AskCases DEF Repairs, Begins, Inspects, Answers, SamePlans
<1>3. ASSUME NEW r \in Requests, CoActs(r) PROVE Locking'
  BY <1>0, <1>3, CoCases DEF TakesLock, Dies, Refused, Admitted, Accepted, Failed, Advances,
        Confirmed, CoMoves, Locking, Owner, Working, Following
<1>. QED  BY <1>1, <1>2, <1>3, Kinds, DaemonFrame, LookFrame DEF vars, coVars

(* The journal names the operation under which the owner works.             *)
LEMMA JournalStep ==
    ASSUME Typed, Locking, Journal, Identity, Asking, [Next]_vars
    PROVE  Journal'
<1>0. Nobody \notin Requests
  BY UpgradeAssumption DEF Procs
<1>1. ASSUME jid' = jid, stage' = stage, co' = co, plan' = plan PROVE Journal'
  BY <1>1 DEF Journal, Working, Following
<1>2. ASSUME NEW r \in Requests, AskNext(r) PROVE Journal'
  <2>1. jid' = jid /\ stage' = stage /\ plan' = plan
    BY <1>2, AskFrame
  <2>2. CASE Spawns(r)
    BY <2>1, <2>2 DEF Spawns, AskMoves, Journal, Working, Following, Asking
  <2>. QED  BY <1>1, <1>2, <2>1, <2>2, AskCases DEF Repairs, Begins, Inspects, Answers, SamePlans
<1>3. ASSUME NEW r \in Requests, CoActs(r) PROVE Journal'
  <2>1. \A s \in Requests : Owner(r) /\ s # r => ~ Owner(s)
    BY DEF Locking
  <2>2. CASE TakesLock(r)
    BY <2>2 DEF TakesLock, CoMoves, SameJournal, SameRecords, Journal, Working, Following
  <2>3. CASE Dies(r)
    BY <2>3 DEF Dies, CoMoves, SameJournal, SameRecords, Journal, Working, Following
  <2>4. CASE Refused(r)
    BY <2>4 DEF Refused, CoMoves, SameJournal, SameRecords, Journal, Working, Following
  <2>5. CASE Admitted(r)
    BY <1>0, <2>1, <2>5 DEF Admitted, CoMoves, Journal, Working, Following, ActiveStages, Owner
  <2>6. CASE Accepted(r)
    BY <2>1, <2>6 DEF Accepted, CoMoves, SameJournal, Journal, Working, Following, Owner
  <2>7. CASE Failed(r)
    BY <1>0, <2>1, <2>7 DEF Failed, CoMoves, Journal, Working, Following, Owner, Typed
  <2>8. CASE Advances(r)
    BY <1>0, <2>1, <2>8 DEF Advances, CoMoves, SameJournal, SameRecords, Records, Journal,
                            Working, Following, ActiveStages, Owner, Typed
  <2>9. CASE Confirmed(r)
    BY <1>0, <2>1, <2>9 DEF Confirmed, CoMoves, SameRecords, Journal, Working, Following, Owner,
                            Typed
  <2>. QED  BY <1>3, <2>2, <2>3, <2>4, <2>5, <2>6, <2>7, <2>8, <2>9, CoCases
<1>. QED  BY <1>1, <1>2, <1>3, Kinds, DaemonFrame, LookFrame DEF vars, coVars, journalVars

(* An operation once named has been admitted or has ended, and so it stays. *)
LEMMA IdentityStep ==
    ASSUME Typed, Locking, Journal, Identity, Asking, [Next]_vars
    PROVE  Identity'
<1>1. ASSUME jid' = jid, co' = co, plan' = plan, drain' = drain, preflight' = preflight
      PROVE  Identity'
  BY <1>1 DEF Identity, Used
<1>2. ASSUME NEW r \in Requests, AskNext(r) PROVE Identity'
  <2>1. jid' = jid /\ drain' = drain /\ plan' = plan
    BY <1>2, AskFrame
  <2>2. CASE Spawns(r)
    BY <2>1, <2>2 DEF Spawns, AskMoves, Identity, Used, Asking, Typed
  <2>3. CASE Inspects(r)
    BY <1>1, <2>1, <2>3 DEF Inspects
  <2>. QED  BY <1>1, <1>2, <2>1, <2>2, <2>3, AskCases DEF Repairs, Begins, Answers, SamePlans
<1>3. ASSUME NEW r \in Requests, CoActs(r) PROVE Identity'
  <2>1. preflight' = preflight
    BY <1>3, CoFrame
  <2>2. \A s \in Requests : Used(s) => Used(s)'
    BY <1>3, CoCases DEF TakesLock, Dies, Refused, Admitted, Accepted, Failed, Advances,
          Confirmed, CoMoves, Used, Working, Following
  <2>3. \A s \in Requests : preflight'[s] # Nobody => Used(preflight[s])'
    BY <2>1, <2>2 DEF Identity, Typed
  <2>4. CASE drain' = drain /\ plan' = plan
    <3>1. jid' # Nobody => Used(jid)'
      BY <1>3, <2>2, CoCases DEF TakesLock, Dies, Refused, Admitted, Accepted, Failed, Advances,
          Confirmed, CoMoves, Used, Identity, Typed, SameJournal, Records, Working, Following
    <3>. QED  BY <2>2, <2>3, <2>4, <3>1 DEF Identity, Typed
  <2>5. CASE ~ (drain' = drain /\ plan' = plan)
    <3>1. /\ co[r] = "published" /\ StartsDraining(r) /\ Used(r)'
          /\ jid' \in {jid, plan[r]}
          /\ \A s \in Requests : plan'[s] = plan[s] \/ (s = r /\ plan'[r] = FirstOp(r))
      BY <1>3, <2>5, CoCases DEF TakesLock, Dies, Refused, Admitted, Accepted, Failed, Advances,
            Confirmed, CoMoves, SameRecords, SameJournal, Used
    <3>2. PICK f \in Requests : f = FirstOp(r)
      BY <3>1 DEF FirstOp, StartsDraining, Typed
    <3>3. co'[f] \notin {"none", "spawned", "locked"}
      BY <2>2, <3>1, <3>2 DEF StartsDraining, FirstOp, Identity, Used
    <3>4. \A p \in Procs : drain'[p] # Nobody => Used(drain[p])'
      BY <2>2, <3>1, <3>2, <3>3 DEF StartsDraining, Identity, Typed, Used
    <3>5. \A s \in Requests : plan'[s] = s \/ Used(plan[s])'
      BY <2>2, <3>1, <3>2, <3>3 DEF Identity, Typed, Used
    <3>6. jid' # Nobody => Used(jid)'
      BY <2>2, <3>1 DEF Identity, Typed, Journal
    <3>. QED  BY <2>3, <3>4, <3>5, <3>6 DEF Identity
  <2>. QED  BY <2>4, <2>5
<1>. QED  BY <1>1, <1>2, <1>3, Kinds, DaemonFrame, LookFrame
          DEF vars, coVars, journalVars, daemonVars, askVars

(* A plan is spawned by its requester, once, for a build that may replace   *)
(* the one it inspected.                                                    *)
LEMMA AskingStep ==
    ASSUME Typed, Locking, Journal, Asking, [Next]_vars
    PROVE  Asking'
<1>1. ASSUME ask' = ask, co' = co, source' = source, outcome' = outcome, result' = result,
             overtaken' = overtaken
      PROVE  Asking'
  BY <1>1 DEF Asking, Allow
<1>2. ASSUME NEW r \in Requests, AskNext(r) PROVE Asking'
  <2>1. outcome' = outcome /\ overtaken' = overtaken
    BY <1>2, AskFrame
  <2>2. CASE Repairs(r)
    BY <2>1, <2>2 DEF Repairs, AskMoves, SamePlans, Asking, Allow
  <2>3. CASE Begins(r)
    BY <2>1, <2>3 DEF Begins, AskMoves, SamePlans, Asking, Allow
  <2>4. CASE Inspects(r)
    BY <2>1, <2>4 DEF Inspects, AskMoves, Asking, Allow
  <2>5. CASE Spawns(r)
    BY <2>1, <2>5 DEF Spawns, AskMoves, Asking, Allow
  <2>6. CASE Answers(r)
    BY <2>1, <2>6 DEF Answers, AskMoves, SamePlans, Asking, Allow
  <2>. QED  BY <1>2, <2>2, <2>3, <2>4, <2>5, <2>6, AskCases
<1>3. ASSUME NEW r \in Requests, CoActs(r) PROVE Asking'
  <2>1. ask' = ask /\ result' = result /\ source' = source
    BY <1>3, CoFrame
  <2>2. /\ co[r] # "none" /\ co'[r] # "none"
        /\ \A s \in Requests : s # r => co'[s] = co[s] /\ outcome'[s] = outcome[s]
        /\ \A s \in Requests : overtaken'[s] => overtaken[s] \/ co[s] # "none"
    BY <1>3, CoCases DEF TakesLock, Dies, Refused, Admitted, Accepted, Failed, Advances,
          Confirmed, CoMoves, SameRecords, Notes, Working, Following
  <2>. QED  BY <2>1, <2>2 DEF Asking, Allow
<1>. QED  BY <1>1, <1>2, <1>3, Kinds, DaemonFrame, LookFrame
          DEF vars, coVars, askVars, ghostVars

-----------------------------------------------------------------------------
(* Spawned daemons and the ones that drain.                                 *)

(* First is the only process, and serves.                                   *)
LEMMA DaemonInit == Init => Spawned /\ Drains /\ NoDowngrade
<1>. SUFFICES ASSUME Init PROVE Spawned /\ Drains /\ NoDowngrade
  OBVIOUS
<1>1. /\ \A r \in Requests : co[r] = "none"
      /\ \A p \in Procs : drain[p] = Nobody /\ pc[p] = IF p = First THEN "serving" ELSE "off"
  BY DEF Init
<1>2. Spawned
  BY <1>1, UpgradeAssumption DEF Spawned, Procs
<1>3. Drains
  BY <1>1 DEF Drains, Following
<1>4. NoDowngrade
  BY <1>1 DEF NoDowngrade
<1>. QED  BY <1>2, <1>3, <1>4

(* Each spawner spawns once.                                                *)
LEMMA SpawnedStep ==
    ASSUME Typed, Locking, Journal, Asking, Spawned, [Next]_vars
    PROVE  Spawned'
<1>0. Requests \subseteq Procs /\ Launchers \subseteq Procs /\ Requests \cap Launchers = {}
  BY UpgradeAssumption DEF Procs
<1>1. ASSUME NEW p \in Procs, DaemonActs(p) PROVE Spawned'
  BY <1>0, <1>1, DaemonFrame, DaemonEffects DEF Spawned
<1>2. ASSUME NEW r \in Requests, AskNext(r) PROVE Spawned'
  <2>1. pc' = pc /\ look' = look
    BY <1>2, AskFrame
  <2>2. \A s \in Requests : co'[s] = co[s] \/ co[s] = "none"
    BY <1>2, AskCases DEF Repairs, Begins, Inspects, Spawns, Answers, SamePlans, Asking, AskMoves
  <2>. QED  BY <2>1, <2>2 DEF Spawned
<1>3. ASSUME NEW r \in Requests, CoActs(r) PROVE Spawned'
  <2>1. look' = look /\ \A s \in Requests : s # r => co'[s] = co[s]
    BY <1>3, CoFrame
  <2>2. CASE pc' = pc
    <3>1. co'[r] \in {"none", "spawned", "locked", "published", "prepared", "draining", "free",
                      "starting"} =>
          co[r] \in {"none", "spawned", "locked", "published", "prepared", "draining", "free",
                     "starting"}
      BY <1>3, CoCases DEF TakesLock, Dies, Refused, Admitted, Accepted, Failed, Advances,
            Confirmed, CoMoves
    <3>. QED  BY <2>1, <2>2, <3>1 DEF Spawned
  <2>3. CASE pc' = [pc EXCEPT ![r] = "starting"] /\ co'[r] = "confirming"
    <3>1. \A q \in Procs : q # r => pc'[q] = pc[q]
      BY <2>3 DEF Typed
    <3>. QED  BY <1>0, <2>1, <2>3, <3>1 DEF Spawned
  <2>. QED  BY <1>3, <2>2, <2>3, CoSpawn
<1>4. ASSUME NEW l \in Launchers, LookNext(l) PROVE Spawned'
  <2>1. \A q \in Procs : q # l => pc'[q] = pc[q]
    BY <1>4, LookSpawn DEF Typed
  <2>. QED  BY <1>0, <1>4, <2>1, LookFrame, LookSpawn DEF Spawned
<1>5. CASE UNCHANGED vars
  BY <1>5 DEF vars, daemonVars, coVars, lookVars, Spawned
<1>. QED  BY <1>1, <1>2, <1>3, <1>4, <1>5, Kinds

(* A daemon that drains stays on its way out, since nobody spawns it again. *)
LEMMA DrainsStep ==
    ASSUME Typed, Owned, Locking, Journal, Asking, Spawned, Drains, [Next]_vars
    PROVE  Drains'
<1>0. Requests \subseteq Procs /\ Launchers \subseteq Procs /\ Nobody \notin Requests
  BY UpgradeAssumption DEF Procs
<1>1. ASSUME drain' = drain, plan' = plan, co' = co,
             \A q \in Procs : pc[q] = "dead" => pc'[q] = pc[q],
             \A q \in Procs : drain[q] # Nobody => pc'[q] \in {"serving", "dead"} \cup Stopping
      PROVE  Drains'
  BY <1>1 DEF Drains
<1>2. ASSUME NEW p \in Procs, DaemonActs(p) PROVE Drains'
  <2>1. \A q \in Procs : drain[q] # Nobody => pc'[q] \in {"serving", "dead"} \cup Stopping
    BY <1>2, DaemonEffects DEF Drains
  <2>. QED  BY <1>1, <1>2, <2>1, DaemonFrame, DaemonEffects
<1>3. ASSUME NEW r \in Requests, AskNext(r) PROVE Drains'
  <2>1. pc' = pc /\ drain' = drain /\ plan' = plan
    BY <1>3, AskFrame
  <2>2. \A s \in Requests : co'[s] = co[s] \/ co'[s] = "spawned"
    BY <1>3, AskCases DEF Repairs, Begins, Inspects, Spawns, Answers, SamePlans, AskMoves
  <2>. QED  BY <2>1, <2>2 DEF Drains, Following
<1>4. ASSUME NEW r \in Requests, CoActs(r) PROVE Drains'
  <2>1. \A s \in Requests : s # r => co'[s] = co[s] /\ plan'[s] = plan[s]
    BY <1>4, CoFrame
  <2>2. \A s \in Requests : Owner(r) /\ s # r => ~ Owner(s)
    BY DEF Locking
  <2>3. CASE pc' # pc
    <3>1. /\ pc' = [pc EXCEPT ![r] = "starting"]
          /\ co[r] = "starting" /\ co'[r] = "confirming" /\ drain' = drain /\ plan' = plan
      BY <1>4, <2>3, CoSpawn
    <3>2. pc[r] = "off" /\ drain[r] = Nobody
      BY <1>0, <3>1 DEF Spawned, Drains, Stopping
    <3>3. \A q \in Procs : q # r => pc'[q] = pc[q]
      BY <3>1 DEF Typed
    <3>. QED  BY <1>0, <2>1, <3>1, <3>2, <3>3 DEF Drains, Following, Typed
  <2>4. CASE pc' = pc
    <3>1. CASE Accepted(r)
      <4>1. ctl \in Procs /\ pc[ctl] = "serving" /\ FirstOp(r) # Nobody
        BY <1>0, <3>1 DEF Accepted, StartsDraining, Accepts, Answering, FirstOp
      <4>2. \A s \in Requests : s # r => co[s] \notin {"prepared"} \cup Following
        BY <2>2, <3>1 DEF Accepted, CoMoves, Owner, Following
      <4>. QED  BY <2>1, <2>4, <3>1, <4>1, <4>2 DEF Drains, Following, Accepted, CoMoves,
                                                    StartsDraining
    <3>2. CASE Failed(r) /\ drain' # drain
      <4>1. ctl \in Procs /\ pc[ctl] = "serving" /\ FirstOp(r) # Nobody
        BY <1>0, <3>2 DEF Failed, StartsDraining, Accepts, Answering, FirstOp
      <4>2. \A s \in Requests : co'[s] \notin {"prepared"} \cup Following
        BY <2>2, <3>2 DEF Failed, CoMoves, Owner, Following, Working
      <4>. QED  BY <2>4, <3>2, <4>1, <4>2 DEF Drains, Failed, StartsDraining, Following
    <3>3. CASE Advances(r)
      <4>1. drain' = drain /\ plan' = plan
        BY <3>3 DEF Advances, SameRecords
      <4>2. CASE CoMoves(r, "draining", "free") /\ ~ Held
        <5>1. \A p \in Procs : drain[p] # Nobody => pc[p] = "dead"
          BY <4>2 DEF Held, HasCore, Drains
        <5>2. plan[r] # Nobody
          BY <1>0 DEF Typed
        <5>. QED  BY <2>4, <4>1, <4>2, <5>1, <5>2 DEF Drains, CoMoves, Following
      <4>3. CASE ~ (CoMoves(r, "draining", "free") /\ ~ Held)
        BY <2>4, <3>3, <4>1, <4>3 DEF Drains, Advances, CoMoves, Following
      <4>. QED  BY <4>2, <4>3
    <3>4. CASE drain' = drain /\ plan' = plan /\ co'[r] \notin {"prepared"} \cup Following
      BY <2>1, <2>4, <3>4 DEF Drains, Following
    <3>. QED  BY <1>4, <3>1, <3>2, <3>3, <3>4, CoCases
              DEF TakesLock, Dies, Refused, Admitted, Failed, Confirmed, CoMoves, SameRecords,
                  Following
  <2>. QED  BY <2>3, <2>4
<1>5. ASSUME NEW l \in Launchers, LookNext(l) PROVE Drains'
  <2>1. \A q \in Procs : pc[q] # "off" => pc'[q] = pc[q]
    BY <1>0, <1>5, LookSpawn DEF Typed, Spawned
  <2>2. \A q \in Procs : drain[q] # Nobody => pc'[q] \in {"serving", "dead"} \cup Stopping
    BY <2>1 DEF Drains, Stopping
  <2>. QED  BY <1>1, <1>5, <2>1, <2>2, LookFrame
<1>6. CASE UNCHANGED vars
  BY <1>1, <1>6 DEF vars, daemonVars, coVars, Drains
<1>. QED  BY <1>2, <1>3, <1>4, <1>5, <1>6, Kinds

(* A plan is carried out against the build it was made for.                 *)
LEMMA NoDowngradeStep ==
    ASSUME Typed, Locking, Journal, Identity, Asking, NoDowngrade, [Next]_vars
    PROVE  NoDowngrade'
<1>0. Nobody \notin Requests
  BY UpgradeAssumption DEF Procs
<1>1. ASSUME drain' = drain, source' = source PROVE NoDowngrade'
  BY <1>1 DEF NoDowngrade, Allow
<1>2. ASSUME NEW r \in Requests, AskNext(r) PROVE NoDowngrade'
  <2>1. drain' = drain
    BY <1>2, AskFrame
  <2>2. \A s \in Requests : source'[s] = source[s] \/ co[s] = "none"
    BY <1>2, AskCases DEF Repairs, Begins, Inspects, Spawns, Answers, SamePlans, AskMoves, Asking
  <2>. QED  BY <2>1, <2>2 DEF NoDowngrade, Allow, Identity, Used, Typed
<1>3. ASSUME NEW r \in Requests, CoActs(r) PROVE NoDowngrade'
  <2>1. source' = source
    BY <1>3, CoFrame
  <2>2. CASE co[r] = "published" /\ StartsDraining(r)
    <3>1. source[r] = Build[ctl] /\ Allow(r, Build[ctl])
      BY <2>2 DEF StartsDraining, Accepts, Asking
    <3>2. drain[ctl] # Nobody => /\ drain'[ctl] = drain[ctl]
                                 /\ source[drain[ctl]] = Build[ctl] /\ Allow(drain[ctl], Build[ctl])
      BY <2>2 DEF StartsDraining, FirstOp, NoDowngrade
    <3>3. drain[ctl] = Nobody => drain'[ctl] = r
      BY <2>2 DEF StartsDraining, FirstOp
    <3>. QED  BY <2>1, <2>2, <3>1, <3>2, <3>3 DEF NoDowngrade, StartsDraining, Allow
  <2>. QED  BY <1>1, <1>3, <2>1, <2>2, CoCases
            DEF TakesLock, Dies, Refused, Admitted, Accepted, Failed, Advances, Confirmed,
                CoMoves, SameRecords
<1>. QED  BY <1>1, <1>2, <1>3, Kinds, DaemonFrame, LookFrame DEF vars, daemonVars, askVars

-----------------------------------------------------------------------------
(* Readiness and receipts.                                                  *)

(* The daemon that serves answers.                                          *)
LEMMA ServingAnswers ==
    ASSUME Owned, NEW p \in Procs, pc[p] = "serving"
    PROVE  ctl = p /\ Answering
  BY UpgradeAssumption DEF Owned, Answering

(* Nobody works, nobody waits.                                              *)
LEMMA ReceiptInit == Init => Confirms /\ Receipts /\ ReceiptIsTrue /\ Queue
<1>. SUFFICES ASSUME Init PROVE Confirms /\ Receipts /\ ReceiptIsTrue /\ Queue
  OBVIOUS
<1>1. \A r \in Requests : /\ co[r] = "none" /\ ask[r] \in {"repair", "asked"}
                          /\ result[r] = "none" /\ overtaken[r] = FALSE
  BY DEF Init
<1>2. Confirms
  BY <1>1 DEF Confirms, Working, Following
<1>3. Receipts
  BY <1>1 DEF Receipts, Waiting
<1>4. ReceiptIsTrue
  BY <1>1 DEF ReceiptIsTrue
<1>5. Queue
  BY <1>1 DEF Queue
<1>. QED  BY <1>2, <1>3, <1>4, <1>5

(* The incumbent at the publication is of another build, so that a daemon   *)
(* of the target that serves later has come up in between.                  *)
LEMMA ConfirmsStep ==
    ASSUME Typed, Owned, Locking, Journal, Asking, Confirms, [Next]_vars
    PROVE  Confirms'
<1>0. Requests \subseteq Procs /\ Launchers \subseteq Procs /\ Nobody \notin Requests
  BY UpgradeAssumption DEF Procs
<1>1. ASSUME co' = co, confirmed' = confirmed,
             \A q \in Procs : pc'[q] = "serving" => pc[q] = "serving"
      PROVE  Confirms'
  BY <1>1 DEF Confirms, Working, Following
<1>2. ASSUME NEW p \in Procs, DaemonActs(p) PROVE Confirms'
  <2>1. co' = co /\ lock' = lock
    BY <1>2, DaemonFrame
  <2>2. \A r \in Requests : Working(r) => lock = r
    BY DEF Locking, Owner, Working, Following
  <2>3. \A r \in Requests : co'[r] = "handshake" => confirmed'
    BY <1>2, <2>1, DaemonEffects DEF Confirms
  <2>4. \A r \in Requests, q \in Procs :
          Working(r) /\ pc'[q] = "serving" /\ Build[q] = Build[r] => confirmed'
    BY <1>0, <1>2, <2>2, DaemonEffects DEF Confirms
  <2>. QED  BY <2>1, <2>3, <2>4 DEF Confirms, Working
<1>3. ASSUME NEW r \in Requests, AskNext(r) PROVE Confirms'
  <2>1. pc' = pc /\ confirmed' = confirmed
    BY <1>3, AskFrame
  <2>2. \A s \in Requests : co'[s] = co[s] \/ co'[s] = "spawned"
    BY <1>3, AskCases DEF Repairs, Begins, Inspects, Spawns, Answers, SamePlans
  <2>. QED  BY <2>1, <2>2 DEF Confirms, Working, Following
<1>4. ASSUME NEW r \in Requests, CoActs(r) PROVE Confirms'
  <2>1. \A q \in Procs : pc'[q] = "serving" => pc[q] = "serving"
    BY <1>0, <1>4, CoSpawn DEF Typed
  <2>2. CASE Admitted(r)
    <3>1. \A s \in Requests : s # r => ~ Working(s)' /\ co'[s] # "handshake"
      BY <2>2 DEF Admitted, CoMoves, Locking, Owner, Working, Following
    <3>2. \A q \in Procs : pc'[q] = "serving" => Build[q] # Build[r]
      BY <2>1, <2>2, ServingAnswers DEF Admitted
    <3>3. co'[r] # "handshake"
      BY <2>2 DEF Admitted, CoMoves
    <3>. QED  BY <3>1, <3>2, <3>3 DEF Confirms
  <2>3. CASE CoMoves(r, "confirming", "handshake") /\ Advances(r)
    <3>1. Answering /\ Build[ctl] = Build[r]
      BY <2>3 DEF Advances, CoMoves
    <3>2. confirmed
      BY <2>3, <3>1 DEF Confirms, Working, Following, CoMoves, Answering, Typed
    <3>3. confirmed'
      BY <2>3, <3>2 DEF Advances, SameRecords
    <3>. QED  BY <3>3 DEF Confirms
  <2>4. CASE ~ Admitted(r) /\ ~ (CoMoves(r, "confirming", "handshake") /\ Advances(r))
    <3>1. /\ confirmed' = confirmed
          /\ \A s \in Requests : Working(s)' => Working(s)
          /\ \A s \in Requests : co'[s] = "handshake" => co[s] = "handshake"
      BY <1>4, <2>4, CoCases DEF TakesLock, Dies, Refused, Accepted, Failed, Advances, Confirmed,
            CoMoves, SameRecords, Working, Following
    <3>. QED  BY <2>1, <3>1 DEF Confirms
  <2>. QED  BY <2>2, <2>3, <2>4
<1>5. ASSUME NEW l \in Launchers, LookNext(l) PROVE Confirms'
  <2>1. \A q \in Procs : pc'[q] = "serving" => pc[q] = "serving"
    BY <1>0, <1>5, LookSpawn DEF Typed
  <2>. QED  BY <1>1, <1>5, <2>1, LookFrame
<1>6. CASE UNCHANGED vars
  BY <1>1, <1>6 DEF vars, daemonVars, coVars, ghostVars
<1>. QED  BY <1>2, <1>3, <1>4, <1>5, <1>6, Kinds

(* A requester that waits has been waiting since before the operation that  *)
(* it takes for news was published, so that what that operation confirms    *)
(* has happened since the request.                                          *)
LEMMA ReceiptsStep ==
    ASSUME Typed, Owned, Locking, Journal, Identity, Asking, Receipts, [Next]_vars
    PROVE  Receipts'
<1>0. Requests \subseteq Procs /\ Launchers \subseteq Procs /\ Nobody \notin Requests
  BY UpgradeAssumption DEF Procs
<1>1. ASSUME co' = co, ask' = ask, outcome' = outcome, jid' = jid, stage' = stage,
             preflight' = preflight, met' = met,
             \A q \in Procs : pc'[q] = "serving" => pc[q] = "serving"
      PROVE  Receipts'
  BY <1>1 DEF Receipts, IsNews
<1>2. ASSUME NEW p \in Procs, DaemonActs(p) PROVE Receipts'
  <2>1. /\ co' = co /\ ask' = ask /\ outcome' = outcome /\ jid' = jid /\ stage' = stage
        /\ preflight' = preflight
    BY <1>2, DaemonFrame
  <2>2. \A s \in Requests : met[s] => met'[s]
    BY <1>2, DaemonEffects
  <2>3. \A s \in Requests, q \in Procs :
          ask[s] \in Waiting /\ pc'[q] = "serving" /\ Build[q] = Build[s] => met'[s]
    BY <1>2, <2>2, DaemonEffects DEF Receipts
  <2>. QED  BY <2>1, <2>2, <2>3 DEF Receipts, IsNews
<1>3. ASSUME NEW r \in Requests, AskNext(r) PROVE Receipts'
  <2>1. pc' = pc /\ jid' = jid /\ stage' = stage /\ outcome' = outcome /\ ctl' = ctl
    BY <1>3, AskFrame
  <2>2. CASE Repairs(r)
    BY <2>1, <2>2 DEF Repairs, AskMoves, SamePlans, Receipts, IsNews, Waiting
  <2>3. CASE Begins(r)
    <3>1. \A q \in Procs : pc[q] = "serving" /\ Build[q] = Build[r] => met'[r]
      BY <2>3, ServingAnswers DEF Begins
    <3>. QED  BY <2>1, <2>3, <3>1 DEF Begins, AskMoves, SamePlans, Receipts, IsNews, Waiting
  <2>4. CASE Inspects(r)
    BY <2>1, <2>4 DEF Inspects, AskMoves, Receipts, IsNews, Waiting
  <2>5. CASE Spawns(r)
    <3>1. co[r] = "none" /\ outcome[r] = "none" /\ jid # r
      BY <1>0, <2>5 DEF Spawns, AskMoves, Asking, Identity, Used
    <3>2. \A s \in Requests : co[s] # "handshake"
      BY <1>0, <2>5 DEF Spawns, Journal, Locking, Owner, Working, Following
    <3>3. \A s \in Requests : co'[s] # "handshake"
      BY <2>5, <3>2 DEF Spawns
    <3>4. ~ IsNews(r)'
      BY <2>1, <2>5, <3>1 DEF Spawns, IsNews
    <3>. QED  BY <2>1, <2>5, <3>1, <3>3, <3>4 DEF Spawns, AskMoves, Receipts, IsNews, Waiting
  <2>6. CASE Answers(r)
    BY <2>1, <2>6 DEF Answers, AskMoves, SamePlans, Receipts, IsNews, Waiting
  <2>. QED  BY <1>3, <2>2, <2>3, <2>4, <2>5, <2>6, AskCases
<1>4. ASSUME NEW r \in Requests, CoActs(r) PROVE Receipts'
  <2>1. ask' = ask /\ preflight' = preflight /\ met' = met /\ ctl' = ctl
    BY <1>4, CoFrame
  <2>2. \A q \in Procs : pc'[q] = "serving" => pc[q] = "serving"
    BY <1>0, <1>4, CoSpawn DEF Typed
  <2>3. \A s \in Requests : s # r => co'[s] = co[s] /\ outcome'[s] = outcome[s]
    BY <1>4, CoFrame
  <2>4. \A s \in Requests, q \in Procs :
          ask'[s] \in Waiting /\ pc'[q] = "serving" /\ Build[q] = Build[s] => met'[s]
    BY <2>1, <2>2 DEF Receipts
  <2>5. Answering => \A s \in Requests : ask[s] = "observing" /\ Build[ctl] = Build[s] => met[s]
    BY DEF Answering, Receipts, Waiting, Typed
  <2>6. \A s \in Requests : co'[r] = "handshake" /\ ask[s] = "observing" /\ Build[s] = Build[r]
                              => met[s]
    BY <1>4, <2>5, CoCases DEF TakesLock, Dies, Refused, Admitted, Accepted, Failed, Advances,
          Confirmed, CoMoves, Receipts
  <2>7. ask[r] = "observing" /\ outcome'[r] \in {"restarted", "current"} => met[r]
    <3>1. CASE Refused(r)
      BY <2>5, <3>1 DEF Refused, Notes
    <3>2. CASE Confirmed(r)
      BY <3>2 DEF Confirmed, CoMoves, Receipts
    <3>3. CASE outcome'[r] \in {"failed", outcome[r]}
      BY <3>3 DEF Receipts
    <3>. QED  BY <1>4, <3>1, <3>2, <3>3, CoCases
              DEF TakesLock, Dies, Admitted, Accepted, Failed, Advances, Notes
  <2>8. \A s \in Requests :
          ask[s] = "observing" /\ IsNews(s)' /\ stage' = "ready" /\ Build[jid'] = Build[s] => met[s]
    <3>1. CASE Confirmed(r)
      BY <3>1 DEF Confirmed, CoMoves, Receipts, Journal
    <3>2. CASE jid' = jid /\ stage' = stage
      BY <2>1, <3>2 DEF Receipts, IsNews
    <3>3. CASE stage' # "ready"
      BY <3>3
    <3>. QED  BY <1>4, <3>1, <3>2, <3>3, CoCases
              DEF TakesLock, Dies, Refused, Admitted, Accepted, Failed, Advances, SameJournal,
                  Records, ActiveStages
  <2>. QED  BY <2>1, <2>3, <2>4, <2>6, <2>7, <2>8 DEF Receipts
<1>5. ASSUME NEW l \in Launchers, LookNext(l) PROVE Receipts'
  <2>1. \A q \in Procs : pc'[q] = "serving" => pc[q] = "serving"
    BY <1>0, <1>5, LookSpawn DEF Typed
  <2>. QED  BY <1>1, <1>5, <2>1, LookFrame
<1>6. CASE UNCHANGED vars
  BY <1>1, <1>6 DEF vars, daemonVars, coVars, askVars, journalVars, ghostVars
<1>. QED  BY <1>2, <1>3, <1>4, <1>5, <1>6, Kinds

(* Whatever a requester is told rests on one of the grounds.                *)
LEMMA ReceiptIsTrueStep ==
    ASSUME Typed, Owned, Locking, Journal, Asking, Receipts, ReceiptIsTrue, [Next]_vars
    PROVE  ReceiptIsTrue'
<1>1. ASSUME result' = result, met' = met PROVE ReceiptIsTrue'
  BY <1>1 DEF ReceiptIsTrue
<1>2. ASSUME NEW p \in Procs, DaemonActs(p) PROVE ReceiptIsTrue'
  BY <1>2, DaemonFrame, DaemonEffects DEF ReceiptIsTrue
<1>3. ASSUME NEW r \in Requests, AskNext(r) PROVE ReceiptIsTrue'
  <2>1. CASE Begins(r)
    BY <2>1 DEF Begins, AskMoves, Asking, ReceiptIsTrue
  <2>2. CASE Answers(r)
    <3>1. Grounds(r) => met[r]
      BY DEF Grounds, Receipts, Waiting, Answering, Typed
    <3>. QED  BY <2>2, <3>1 DEF Answers, ReceiptIsTrue
  <2>. QED  BY <1>1, <1>3, <2>1, <2>2, AskCases DEF Repairs, Inspects, Spawns
<1>4. ASSUME NEW r \in Requests, CoActs(r) PROVE ReceiptIsTrue'
  BY <1>1, <1>4, CoFrame
<1>5. ASSUME NEW l \in Launchers, LookNext(l) PROVE ReceiptIsTrue'
  BY <1>1, <1>5, LookFrame
<1>6. CASE UNCHANGED vars
  BY <1>1, <1>6 DEF vars, askVars, ghostVars
<1>. QED  BY <1>2, <1>3, <1>4, <1>5, <1>6, Kinds

(* The journal of a request that was overtaken has changed, or has come     *)
(* back to an operation that some daemon drains for.                        *)
LEMMA QueueStep ==
    ASSUME Typed, Locking, Journal, Identity, Asking, Drains, Queue, [Next]_vars
    PROVE  Queue'
<1>0. Nobody \notin Requests
  BY UpgradeAssumption DEF Procs
<1>1. ASSUME co' = co, overtaken' = overtaken, jid' = jid, preflight' = preflight, drain' = drain
      PROVE  Queue'
  BY <1>1 DEF Queue
<1>2. ASSUME NEW r \in Requests, AskNext(r) PROVE Queue'
  <2>1. overtaken' = overtaken /\ jid' = jid /\ drain' = drain
    BY <1>2, AskFrame
  <2>2. CASE Spawns(r)
    <3>1. ~ overtaken[r]
      BY <2>2 DEF Spawns, AskMoves, Asking
    <3>. QED  BY <2>1, <2>2, <3>1 DEF Spawns, Queue
  <2>3. CASE Inspects(r)
    BY <1>1, <2>1, <2>3 DEF Inspects
  <2>. QED  BY <1>1, <1>2, <2>1, <2>2, <2>3, AskCases DEF Repairs, Begins, Answers, SamePlans
<1>3. ASSUME NEW r \in Requests, CoActs(r) PROVE Queue'
  <2>1. preflight' = preflight /\ \A s \in Requests : s # r => co'[s] = co[s]
    BY <1>3, CoFrame
  <2>2. \A p \in Procs : drain[p] # Nobody => drain'[p] = drain[p]
    BY <1>3, CoCases DEF TakesLock, Dies, Refused, Admitted, Accepted, Failed, Advances, Confirmed,
          SameRecords, StartsDraining, FirstOp
  <2>3. CASE Admitted(r)
    <3>1. \A s \in Requests : preflight[s] # r
      BY <1>0, <2>3 DEF Admitted, CoMoves, Identity, Used
    <3>. QED  BY <2>1, <2>3, <3>1 DEF Admitted, CoMoves, Queue
  <2>4. CASE ~ Admitted(r)
    <3>1. /\ overtaken' = overtaken
          /\ co'[r] \in {"spawned", "locked"} => co[r] = "spawned" /\ jid' = jid /\ drain' = drain
          /\ \/ jid' = jid
             \/ /\ jid' = plan[r] /\ plan[r] # jid
                /\ co[r] \in {"published", "prepared"} \cup Following
      BY <1>3, <2>4, CoCases DEF TakesLock, Dies, Refused, Accepted, Failed, Advances, Confirmed,
            CoMoves, SameJournal, SameRecords, Records, Working, Following
    <3>2. CASE jid' = jid
      BY <2>1, <2>2, <3>1, <3>2 DEF Queue
    <3>3. CASE jid' = plan[r] /\ plan[r] # jid /\ co[r] \in {"published", "prepared"} \cup Following
      <4>1. co[r] = "prepared"
        BY <3>3 DEF Journal
      <4>2. PICK p \in Procs : drain[p] = plan[r]
        BY <4>1 DEF Drains
      <4>3. plan[r] # Nobody /\ drain'[p] = plan[r]
        BY <1>0, <2>2, <4>2 DEF Typed
      <4>4. co'[r] \notin {"spawned", "locked"}
        BY <3>1, <4>1
      <4>5. \A s \in Requests : jid' # preflight'[s] \/ (preflight'[s] # Nobody /\ drain'[p] = preflight'[s])
        BY <3>3, <4>3
      <4>. QED  BY <4>5 DEF Queue
    <3>. QED  BY <3>1, <3>2, <3>3
  <2>. QED  BY <2>3, <2>4
<1>. QED  BY <1>1, <1>2, <1>3, Kinds, DaemonFrame, LookFrame
          DEF vars, daemonVars, coVars, askVars, journalVars, ghostVars

-----------------------------------------------------------------------------
(* The theorems.                                                            *)

(* The types are kept by every step.                                        *)
LEMMA TypedStep ==
    ASSUME Typed, Journal, [Next]_vars
    PROVE  Typed'
<1>1. CASE UNCHANGED vars
  BY <1>1 DEF vars, daemonVars, journalVars, askVars, coVars, lookVars, ghostVars, Typed
<1>. QED  BY <1>1, Kinds, TypedDaemon, TypedAsk, TypedCo, TypedLook

(* The inductive invariant: of any interleaving of daemons, requesters,     *)
(* coordinators and launchers, with crashes, lost replies and expired       *)
(* deadlines.                                                               *)
THEOREM UpgradeInvariant == Spec => []UpgradeInv
<1>1. Init => UpgradeInv
  BY TypedInit, OwnedInit, CoInit, DaemonInit, ReceiptInit DEF UpgradeInv
<1>2. UpgradeInv /\ [Next]_vars => UpgradeInv'
  <2>. SUFFICES ASSUME UpgradeInv, [Next]_vars PROVE UpgradeInv'
    OBVIOUS
  <2>. USE DEF UpgradeInv
  <2>1. Typed' /\ Owned' /\ Locking'
    BY TypedStep, OwnedStep, LockingStep
  <2>2. Journal' /\ Identity' /\ Asking'
    BY JournalStep, IdentityStep, AskingStep
  <2>3. Spawned' /\ Drains' /\ NoDowngrade'
    BY SpawnedStep, DrainsStep, NoDowngradeStep
  <2>4. Confirms' /\ Receipts' /\ ReceiptIsTrue' /\ Queue'
    BY ConfirmsStep, ReceiptsStep, ReceiptIsTrueStep, QueueStep
  <2>. QED  BY <2>1, <2>2, <2>3, <2>4
<1>. QED  BY <1>1, <1>2, PTL DEF Spec

(* A daemon that serves can be reached at both of its sockets, though every *)
(* daemon that stops removes whatever is at its paths.                      *)
THEOREM ServingReachable == Spec => []ServingIsReachable
<1>1. UpgradeInv => ServingIsReachable
  BY DEF UpgradeInv, Owned, ServingIsReachable
<1>. QED  BY <1>1, UpgradeInvariant, PTL

(* A requester is told "restarted" or "already current" only if the build   *)
(* it selected has served since it asked.                                   *)
THEOREM ReceiptsTrue == Spec => []ReceiptIsTrue
<1>1. UpgradeInv => ReceiptIsTrue
  BY DEF UpgradeInv
<1>. QED  BY <1>1, UpgradeInvariant, PTL

(* A daemon drains only for an operation planned against its own build, and *)
(* never for an older release or schema.                                    *)
THEOREM NeverDowngrades == Spec => []NoDowngrade
<1>1. UpgradeInv => NoDowngrade
  BY DEF UpgradeInv
<1>. QED  BY <1>1, UpgradeInvariant, PTL

(* When a replacement is spawned, the daemon that drained for its operation *)
(* has closed the store.                                                    *)
THEOREM ReplacementAfterRelease == Spec => IncumbentGone
<1>. DEFINE Gone == \A r, p \in Procs :
         (r \in Requests /\ pc[r] = "off" /\ pc'[r] = "starting" /\ drain[p] = plan[r]) =>
            pc[p] = "dead"
<1>1. UpgradeInv /\ [Next]_vars => [Gone]_vars
  <2>. SUFFICES ASSUME UpgradeInv, Next, NEW r \in Requests, NEW p \in Procs,
                       pc[r] = "off", pc'[r] = "starting", drain[p] = plan[r]
                PROVE  pc[p] = "dead"
    BY DEF Procs
  <2>0. r \in Procs /\ r \notin Launchers /\ [Next]_vars
    BY UpgradeAssumption DEF Procs
  <2>1. ASSUME NEW q \in Procs, DaemonActs(q) PROVE FALSE
    BY <2>0, <2>1, DaemonEffects DEF UpgradeInv
  <2>2. ASSUME NEW s \in Requests, AskNext(s) PROVE FALSE
    BY <2>2, AskFrame
  <2>3. ASSUME NEW s \in Requests, CoActs(s) PROVE pc[p] = "dead"
    <3>1. s = r /\ co[r] = "starting"
      BY <2>0, <2>3, CoSpawn DEF UpgradeInv, Typed
    <3>. QED  BY <3>1 DEF UpgradeInv, Drains
  <2>4. ASSUME NEW l \in Launchers, LookNext(l) PROVE FALSE
    BY <2>0, <2>4, LookSpawn DEF UpgradeInv, Typed
  <2>. QED  BY <2>0, <2>1, <2>2, <2>3, <2>4, Kinds DEF vars, daemonVars
<1>. QED  BY <1>1, UpgradeInvariant, PTL DEF Spec, IncumbentGone

(* An operation becomes ready only when a daemon of its target has come up  *)
(* since it was published.                                                  *)
THEOREM ReadinessConfirmed == Spec => ReadyIsConfirmed
<1>1. UpgradeInv /\ [Next]_vars => [(stage' = "ready" /\ stage # "ready") => confirmed]_vars
  <2>. SUFFICES ASSUME UpgradeInv, Next, stage' = "ready", stage # "ready"
                PROVE  confirmed
    OBVIOUS
  <2>1. PICK r \in Requests : CoActs(r)
    BY Kinds, DaemonFrame, AskFrame, LookFrame DEF vars, journalVars
  <2>2. Confirmed(r)
    BY <2>1, CoCases DEF UpgradeInv, TakesLock, Dies, Refused, Admitted, Accepted, Failed,
          Advances, SameJournal, Records, ActiveStages
  <2>. QED  BY <2>2 DEF UpgradeInv, Confirms, Confirmed, CoMoves
<1>. QED  BY <1>1, UpgradeInvariant, PTL DEF Spec, ReadyIsConfirmed

(* A request that another one overtook while it was queued activates only   *)
(* if the operation it had read at its preflight is one that a daemon       *)
(* drains for.                                                              *)
THEOREM QueuedActivation == Spec => QueuedCannotActivate
<1>. DEFINE Kept == \A r \in Requests :
         (co[r] = "locked" /\ co'[r] = "published" /\ overtaken[r]) =>
            preflight[r] # Nobody /\ \E p \in Procs : drain[p] = preflight[r]
<1>1. UpgradeInv /\ [Next]_vars => [Kept]_vars
  <2>. SUFFICES ASSUME UpgradeInv, Next, NEW r \in Requests,
                       co[r] = "locked", co'[r] = "published", overtaken[r]
                PROVE  preflight[r] # Nobody /\ \E p \in Procs : drain[p] = preflight[r]
    OBVIOUS
  <2>1. \A s \in Requests : AskNext(s) => co'[r] \in {co[r], "spawned"}
    BY AskCases DEF UpgradeInv, Repairs, Begins, Inspects, Spawns, Answers, SamePlans
  <2>2. CoActs(r)
    BY <2>1, Kinds, DaemonFrame, CoFrame, LookFrame DEF vars, coVars, UpgradeInv
  <2>3. Admitted(r)
    BY <2>2, CoCases DEF UpgradeInv, TakesLock, Dies, Refused, Accepted, Failed, Advances,
          Confirmed, CoMoves
  <2>. QED  BY <2>3 DEF UpgradeInv, Admitted, Unchanged, Queue
<1>. QED  BY <1>1, UpgradeInvariant, PTL DEF Spec, QueuedCannotActivate

-----------------------------------------------------------------------------
(***************************************************************************)
(* Permits. A job gains its permit when it is admitted and loses it when   *)
(* it ends, and the count follows.                                         *)
(***************************************************************************)
LEMMA HoldersFinite ==
  /\ IsFiniteSet(Holders)
  /\ Cardinality(Holders) \in Nat
  /\ Cardinality(Holders) = 0 <=> Holders = {}
<1>1. Holders \in SUBSET Calls
  BY DEF Holders
<1>2. IsFiniteSet(Holders)
  BY <1>1, FS_Subset, RestartAssumption
<1>3. QED
  BY <1>2, FS_CardinalityType, FS_EmptySet

\* An admitted request adds one holder and one permit.
LEMMA PermitGained ==
  ASSUME RestartTypeOK, PermitsCount, NEW r \in Calls, job[r] = "none",
         NEW x \in {"queued", "running"},
         job' = [job EXCEPT ![r] = x], active' = active + 1
  PROVE  Holders' = Holders \cup {r} /\ PermitsCount'
<1>1. Holders' = Holders \cup {r} /\ r \notin Holders
  BY DEF Holders, RestartTypeOK
<1>2. Cardinality(Holders \cup {r}) = Cardinality(Holders) + 1
  BY <1>1, HoldersFinite, FS_AddElement
<1>3. QED
  BY <1>1, <1>2 DEF PermitsCount

\* A job that ends, or is dropped, gives back the permit it held.
LEMMA PermitLost ==
  ASSUME RestartTypeOK, PermitsCount, NEW r \in Calls,
         job[r] \in {"queued", "running"},
         NEW x \in {"finished", "lost"},
         job' = [job EXCEPT ![r] = x], active' = active - 1
  PROVE  /\ Holders' = Holders \ {r} /\ r \in Holders
         /\ PermitsCount' /\ active' \in Nat
<1>1. Holders' = Holders \ {r} /\ r \in Holders
  BY DEF Holders, RestartTypeOK
<1>2. /\ Cardinality(Holders \ {r}) = Cardinality(Holders) - 1
      /\ IsFiniteSet(Holders \ {r})
  BY <1>1, HoldersFinite, FS_RemoveElement
<1>3. Cardinality(Holders \ {r}) \in Nat
  BY <1>2, FS_CardinalityType
<1>4. QED
  BY <1>1, <1>2, <1>3 DEF PermitsCount

\* A step that leaves the jobs alone leaves the holders alone.
LEMMA JobsKept ==
  ASSUME RestartTypeOK, UNCHANGED job
  PROVE  Holders' = Holders
  BY DEF Holders

\* What is left to show when a step touches no permit.
LEMMA RunKeepsHolders ==
  ASSUME RestartTypeOK, NEW r \in Calls, job[r] = "queued",
         job' = [job EXCEPT ![r] = "running"]
  PROVE  Holders' = Holders
  BY DEF Holders, RestartTypeOK

-----------------------------------------------------------------------------
\* The daemon starts with no permit, no job and no drain.
LEMMA RestartInitInv == RestartInit => RestartTypeOK /\ RestartInv
<1> SUFFICES ASSUME RestartInit
             PROVE  RestartTypeOK /\ RestartInv
  OBVIOUS
<1>1. Holders = {}
  BY DEF RestartInit, Holders
<1>2. RestartTypeOK
  BY DEF RestartInit, RestartTypeOK, Live
<1>3. PermitsCount
  BY <1>1, FS_EmptySet DEF RestartInit, PermitsCount
<1>4. QED
  BY <1>1, <1>2, <1>3
  DEF RestartInit, RestartInv, DrainedIsIdle, NoLostWakeup, JobAdmitted,
      PolledByLive, GateClosed, Live

(***************************************************************************)
(* Steps that leave jobs, permits and the restart task alone: connections, *)
(* futures and the ways to stop.                                           *)
(***************************************************************************)
LEMMA QuietStep ==
  ASSUME RestartTypeOK, RestartInv,
         UNCHANGED <<operation, active, waiter, notified, job>>,
         JobAdmitted', PolledByLive',
         serving' = "released" => serving = "released" \/ Holders = {}
  PROVE  RestartInv'
<1>1. Holders' = Holders
  BY JobsKept
<1>2. PermitsCount' /\ DrainedIsIdle' /\ NoLostWakeup' /\ GateClosed'
  BY <1>1 DEF RestartInv, PermitsCount, DrainedIsIdle, NoLostWakeup, GateClosed
<1>3. QED
  BY <1>1, <1>2 DEF RestartInv

\* A step of one request keeps the types and the invariant.
LEMMA RequestStep ==
  ASSUME RestartTypeOK, RestartInv, NEW r \in Calls, RequestNext(r)
  PROVE  RestartTypeOK' /\ RestartInv'
<1>1. CASE Receive(r) \/ Refuse(r) \/ Answer(r) \/ Cancel(r)
  <2>1. RestartTypeOK'
    BY <1>1 DEF Receive, Refuse, Answer, Cancel, RestartTypeOK, Live
  <2>2. JobAdmitted'
    BY <1>1 DEF Receive, Refuse, Answer, Cancel, Polled, RestartInv,
                JobAdmitted, RestartTypeOK, Live
  <2>3. PolledByLive'
    BY <1>1 DEF Receive, Refuse, Answer, Cancel, Polled, RestartInv,
                PolledByLive, RestartTypeOK, Live
  <2>4. UNCHANGED <<operation, active, waiter, notified, job, serving>>
    BY <1>1 DEF Receive, Refuse, Answer, Cancel
  <2>5. QED
    BY <2>1, <2>2, <2>3, <2>4, QuietStep
<1>2. CASE Admit(r)
  <2>1. job[r] = "none" /\ operation = NoOp /\ serving = "serving"
    BY <1>2 DEF Admit, Polled, RestartInv, JobAdmitted, PolledByLive,
                RestartTypeOK, Live
  <2>2. Holders' = Holders \cup {r} /\ PermitsCount'
    BY <1>2, <2>1, PermitGained DEF Admit, RestartInv
  <2>3. RestartTypeOK'
    BY <1>2 DEF Admit, RestartTypeOK, Live
  <2>4. JobAdmitted' /\ PolledByLive'
    BY <1>2 DEF Admit, Polled, RestartInv, JobAdmitted, PolledByLive,
                RestartTypeOK, Live
  <2>5. DrainedIsIdle' /\ NoLostWakeup' /\ GateClosed'
    BY <1>2, <2>1, <2>2 DEF Admit, RestartInv, DrainedIsIdle, NoLostWakeup,
                            GateClosed
  <2>6. QED
    BY <1>2, <2>1, <2>2, <2>3, <2>4, <2>5 DEF Admit, RestartInv
<1>3. CASE RunWrite(r)
  <2>1. Holders' = Holders
    BY <1>3, RunKeepsHolders DEF RunWrite
  <2>2. RestartTypeOK'
    BY <1>3 DEF RunWrite, RestartTypeOK
  <2>3. JobAdmitted' /\ PolledByLive'
    BY <1>3 DEF RunWrite, RestartInv, JobAdmitted, PolledByLive, RestartTypeOK
  <2>4. PermitsCount' /\ DrainedIsIdle' /\ NoLostWakeup' /\ GateClosed'
    BY <1>3, <2>1 DEF RunWrite, RestartInv, PermitsCount, DrainedIsIdle,
                      NoLostWakeup, GateClosed
  <2>5. QED
    BY <1>3, <2>1, <2>2, <2>3, <2>4 DEF RunWrite, RestartInv
<1>4. CASE FinishJob(r) \/ WriterPanic(r) \/ DropJob(r)
  <2>1. PICK x \in {"finished", "lost"} : job' = [job EXCEPT ![r] = x]
    BY <1>4 DEF FinishJob, WriterPanic, DropJob
  <2>2. job[r] \in {"queued", "running"} /\ PermitDropped
    BY <1>4 DEF FinishJob, WriterPanic, DropJob
  <2>3. UNCHANGED <<operation, waiter, conn, from, fut, writes, serving>>
    BY <1>4 DEF FinishJob, WriterPanic, DropJob
  <2>4. /\ Holders' = Holders \ {r} /\ r \in Holders
        /\ PermitsCount' /\ active' \in Nat
    BY <2>1, <2>2, PermitLost DEF PermitDropped, RestartInv
  <2>5. notified' \in BOOLEAN
    BY <2>2 DEF PermitDropped, RestartTypeOK
  <2>6. writer' \in {"alive", "dead"} /\ shutdown' \in BOOLEAN
    BY <1>4 DEF FinishJob, WriterPanic, DropJob, RestartTypeOK
  <2>7. RestartTypeOK'
    BY <2>1, <2>3, <2>4, <2>5, <2>6 DEF RestartTypeOK
  <2>8. JobAdmitted' /\ PolledByLive'
    BY <2>1, <2>2, <2>3 DEF RestartInv, JobAdmitted, PolledByLive,
                            RestartTypeOK
  <2>9. DrainedIsIdle' /\ GateClosed'
    BY <2>3, <2>4 DEF RestartInv, DrainedIsIdle, GateClosed
  <2>10. NoLostWakeup'
    BY <2>2, <2>3 DEF PermitDropped, NoLostWakeup, Registered
  <2>11. QED
    BY <2>3, <2>4, <2>7, <2>8, <2>9, <2>10 DEF RestartInv
<1>5. QED
  BY <1>1, <1>2, <1>3, <1>4 DEF RequestNext

\* A step of one connection touches no permit and no waiter.
LEMMA ConnStep ==
  ASSUME RestartTypeOK, RestartInv, NEW c \in Conns, ConnNext(c)
  PROVE  RestartTypeOK' /\ RestartInv'
<1>1. UNCHANGED <<operation, active, waiter, notified, from, job, writes,
                  writer, shutdown, serving>>
  BY DEF ConnNext, Accept, PeerGone, DrainBegin, DrainEnd
<1>2. conn' \in [Conns -> {"new", "open", "draining", "closed"}]
  BY DEF ConnNext, Accept, PeerGone, DrainBegin, DrainEnd, RestartTypeOK
<1>3. fut' \in [Calls -> {"none", "answered", "refused", "interrupted",
                             "cancelled", "dropped"} \cup Live]
  BY DEF ConnNext, Accept, PeerGone, DrainBegin, DrainEnd, Dropping,
         RestartTypeOK, Live
<1>4. RestartTypeOK'
  BY <1>1, <1>2, <1>3 DEF RestartTypeOK
<1>5. JobAdmitted'
  BY <1>1 DEF ConnNext, Accept, PeerGone, DrainBegin, DrainEnd, Dropping,
              RestartTypeOK, RestartInv, JobAdmitted, Live
<1>6. PolledByLive'
  <2>1. CASE Accept(c) \/ DrainBegin(c)
    BY <1>1, <2>1 DEF Accept, DrainBegin, RestartTypeOK, RestartInv,
                      PolledByLive, Live
  <2>2. CASE PeerGone(c) \/ DrainEnd(c)
    BY <1>1, <2>2 DEF PeerGone, DrainEnd, Dropping, RestartTypeOK,
                      RestartInv, PolledByLive, Live
  <2>3. QED
    BY <2>1, <2>2 DEF ConnNext
<1>7. QED
  BY <1>1, <1>4, <1>5, <1>6, QuietStep

(***************************************************************************)
(* The restart task. Its steps touch neither connections nor jobs.         *)
(***************************************************************************)
LEMMA WaiterStep ==
  ASSUME RestartTypeOK, RestartInv,
         WaiterNext \/ \E op \in Operations : CloseAdmission(op)
  PROVE  RestartTypeOK' /\ RestartInv'
<1>1. UNCHANGED <<active, conn, from, fut, job, writes, writer, serving>>
  BY DEF WaiterNext, Register, CheckActive, Await, Wake, FlushDone,
         WaiterStopped, CloseAdmission
<1>2. Holders' = Holders
  BY <1>1, JobsKept
<1>3. /\ operation' \in Operations \cup {NoOp}
      /\ waiter' \in Draining \cup {"off", "over"}
      /\ notified' \in BOOLEAN
      /\ shutdown' \in BOOLEAN
  BY DEF WaiterNext, Register, CheckActive, Await, Wake, FlushDone,
         WaiterStopped, CloseAdmission, RestartTypeOK, Draining, Registered
<1>4. RestartTypeOK'
  BY <1>1, <1>3 DEF RestartTypeOK
<1>5. PermitsCount' /\ JobAdmitted' /\ PolledByLive'
  BY <1>1, <1>2 DEF RestartInv, PermitsCount, JobAdmitted, PolledByLive
<1>6. GateClosed' /\ DrainedIsIdle' /\ NoLostWakeup'
  <2>1. CASE \E op \in Operations : CloseAdmission(op)
    BY <2>1, RestartAssumption
    DEF CloseAdmission, GateClosed, DrainedIsIdle, NoLostWakeup
  <2>2. CASE CheckActive
    BY <1>2, <2>2, HoldersFinite
    DEF CheckActive, RestartInv, PermitsCount, GateClosed, DrainedIsIdle,
        NoLostWakeup
  <2>3. CASE Register \/ Await \/ Wake \/ FlushDone \/ WaiterStopped
    BY <1>2, <2>3 DEF Register, Await, Wake, FlushDone, WaiterStopped,
                      RestartInv, Registered, GateClosed, DrainedIsIdle, NoLostWakeup
  <2>4. QED
    BY <2>1, <2>2, <2>3 DEF WaiterNext
<1>7. QED
  BY <1>1, <1>2, <1>4, <1>5, <1>6 DEF RestartInv

\* Stopping and releasing the socket wait for the holders.
LEMMA StopStep ==
  ASSUME RestartTypeOK, RestartInv, StopServing \/ ServerStop \/ ReleaseStore
  PROVE  RestartTypeOK' /\ RestartInv'
<1>1. UNCHANGED <<operation, active, waiter, notified, job>>
  BY DEF StopServing, ServerStop, ReleaseStore
<1>2. RestartTypeOK'
  <2>1. CASE StopServing \/ ReleaseStore
    BY <2>1 DEF StopServing, ReleaseStore, RestartTypeOK
  <2>2. CASE ServerStop
    <3>1. conn' \in [Conns -> {"new", "open", "draining", "closed"}]
      BY <2>2 DEF ServerStop
    <3>2. fut' \in [Calls -> {"none", "answered", "refused",
                     "interrupted", "cancelled", "dropped"} \cup Live]
      BY <2>2 DEF ServerStop, RestartTypeOK, Live
    <3>3. QED
      BY <2>2, <3>1, <3>2 DEF ServerStop, RestartTypeOK
  <2>3. QED
    BY <2>1, <2>2
<1>3. JobAdmitted' /\ PolledByLive'
  <2>1. CASE StopServing
    BY <2>1 DEF StopServing, RestartInv, JobAdmitted, PolledByLive
  <2>2. CASE ServerStop
    BY <2>2 DEF ServerStop, RestartInv, JobAdmitted, PolledByLive,
                RestartTypeOK, Live
  <2>3. CASE ReleaseStore
    BY <2>3 DEF ReleaseStore, RestartInv, JobAdmitted, PolledByLive
  <2>4. QED
    BY <2>1, <2>2, <2>3
<1>4. serving' = "released" => serving = "released" \/ Holders = {}
  BY DEF StopServing, ServerStop, ReleaseStore
<1>5. QED
  BY <1>1, <1>2, <1>3, <1>4, QuietStep

\* Every step of the daemon keeps the types and the invariant.
LEMMA RestartStep ==
  ASSUME RestartTypeOK, RestartInv, [RestartNext]_restartVars
  PROVE  RestartTypeOK' /\ RestartInv'
<1>1. CASE UNCHANGED restartVars
  <2>1. RestartTypeOK'
    BY <1>1 DEF restartVars, RestartTypeOK
  <2>2. JobAdmitted' /\ PolledByLive'
    BY <1>1 DEF restartVars, RestartInv, JobAdmitted, PolledByLive
  <2>3. UNCHANGED <<operation, active, waiter, notified, job, serving>>
    BY <1>1 DEF restartVars
  <2>4. QED
    BY <2>1, <2>2, <2>3, QuietStep
<1>2. CASE RestartNext
  BY <1>2, RequestStep, ConnStep, WaiterStep, StopStep DEF RestartNext
<1>3. QED
  BY <1>1, <1>2
-----------------------------------------------------------------------------
(***************************************************************************)
(* RestartInvariant: the inductive invariant of admission and draining, so *)
(* with it PermitsCount, DrainedIsIdle and NoLostWakeup, for any number of *)
(* connections, requests and competing upgrade operations.                 *)
(***************************************************************************)
THEOREM RestartInvariant == RestartSpec => [](RestartTypeOK /\ RestartInv)
<1>1. RestartInit => RestartTypeOK /\ RestartInv
  BY RestartInitInv
<1>2. RestartTypeOK /\ RestartInv /\ [RestartNext]_restartVars
        => RestartTypeOK' /\ RestartInv'
  BY RestartStep
<1>3. QED
  BY <1>1, <1>2, PTL DEF RestartSpec

(***************************************************************************)
(* DrainSafe: prepare_restart never sees the work drained while a job has  *)
(* a permit, and never sleeps through the last one.                        *)
(***************************************************************************)
THEOREM DrainSafe == RestartSpec => [](DrainedIsIdle /\ NoLostWakeup)
<1>1. RestartTypeOK /\ RestartInv => DrainedIsIdle /\ NoLostWakeup
  BY DEF RestartInv
<1>2. QED
  BY <1>1, RestartInvariant, PTL

(***************************************************************************)
(* RefusedSafe: a request refused during a restart never ran.              *)
(***************************************************************************)
THEOREM RefusedSafe == RestartSpec => []RefusedNeverRuns
<1>1. RestartTypeOK /\ RestartInv => RefusedNeverRuns
  BY DEF RestartInv, JobAdmitted, RefusedNeverRuns
<1>2. QED
  BY <1>1, RestartInvariant, PTL

(***************************************************************************)
(* ReleaseSafe: the store is released only when nothing can touch it.      *)
(***************************************************************************)
THEOREM ReleaseSafe == RestartSpec => []ReleasedIsOver
<1>1. RestartTypeOK /\ RestartInv => ReleasedIsOver
  BY DEF RestartInv, PolledByLive, ReleasedIsOver, RestartTypeOK, Live
<1>2. QED
  BY <1>1, RestartInvariant, PTL
-----------------------------------------------------------------------------
(***************************************************************************)
(* Every step of the daemon is a step of the handover or leaves it as it   *)
(* is.                                                                     *)
(***************************************************************************)
LEMMA HandoverInitially == RestartInit => H!HandoverInit
  BY DEF RestartInit, H!HandoverInit, Holders

\* Each step is one of the handover, or changes nothing it sees.
LEMMA HandoverStep ==
  ASSUME RestartTypeOK, RestartInv, [RestartNext]_restartVars
  PROVE  [H!HandoverNext]_(H!handoverVars)
<1>1. ASSUME UNCHANGED job, UNCHANGED operation, UNCHANGED serving
      PROVE  UNCHANGED H!handoverVars
  BY <1>1, JobsKept DEF H!handoverVars
<1>2. ASSUME NEW r \in Calls, RequestNext(r)
      PROVE  [H!HandoverNext]_(H!handoverVars)
  <2>1. CASE Receive(r) \/ Refuse(r) \/ Answer(r) \/ Cancel(r)
    BY <1>1, <2>1 DEF Receive, Refuse, Answer, Cancel
  <2>2. CASE Admit(r)
    <3>1. job[r] = "none" /\ operation = NoOp /\ serving = "serving"
      BY <2>2 DEF Admit, Polled, RestartInv, JobAdmitted, PolledByLive,
                  RestartTypeOK, Live
    <3>2. Holders' = Holders \cup {r}
      BY <2>2, <3>1, PermitGained DEF Admit, RestartInv
    <3>3. H!Begin(r)
      BY <2>2, <3>1, <3>2 DEF Admit, H!Begin
    <3>4. QED
      BY <3>3 DEF H!HandoverNext
  <2>3. CASE RunWrite(r)
    BY <2>3, RunKeepsHolders DEF RunWrite, H!handoverVars
  <2>4. CASE FinishJob(r) \/ WriterPanic(r) \/ DropJob(r)
    <3>1. PICK x \in {"finished", "lost"} : job' = [job EXCEPT ![r] = x]
      BY <2>4 DEF FinishJob, WriterPanic, DropJob
    <3>2. job[r] \in {"queued", "running"} /\ PermitDropped
      BY <2>4 DEF FinishJob, WriterPanic, DropJob
    <3>3. UNCHANGED <<operation, serving>>
      BY <2>4 DEF FinishJob, WriterPanic, DropJob
    <3>4. Holders' = Holders \ {r} /\ r \in Holders
      BY <3>1, <3>2, PermitLost DEF PermitDropped, RestartInv
    <3>5. H!End(r)
      BY <3>3, <3>4 DEF H!End
    <3>6. QED
      BY <3>5 DEF H!HandoverNext
  <2>5. QED
    BY <1>2, <2>1, <2>2, <2>3, <2>4 DEF RequestNext
<1>3. ASSUME NEW c \in Conns, ConnNext(c)
      PROVE  UNCHANGED H!handoverVars
  BY <1>1, <1>3 DEF ConnNext, Accept, PeerGone, DrainBegin, DrainEnd
<1>4. ASSUME NEW op \in Operations, CloseAdmission(op)
      PROVE  H!HandoverNext
  <2>1. H!Announce(op)
    BY <1>4, JobsKept DEF CloseAdmission, H!Announce
  <2>2. QED
    BY <2>1 DEF H!HandoverNext
<1>5. CASE WaiterNext \/ StopServing
  BY <1>1, <1>5 DEF WaiterNext, Register, CheckActive, Await, Wake, FlushDone,
                    WaiterStopped, StopServing
<1>6. CASE ServerStop
  BY <1>6, JobsKept DEF ServerStop, H!handoverVars
<1>7. CASE ReleaseStore
  <2>1. H!GiveUp
    BY <1>7, JobsKept DEF ReleaseStore, H!GiveUp
  <2>2. QED
    BY <2>1 DEF H!HandoverNext
<1>8. CASE UNCHANGED restartVars
  BY <1>1, <1>8 DEF restartVars
<1>9. QED
  BY <1>2, <1>3, <1>4, <1>5, <1>6, <1>7, <1>8 DEF RestartNext

(***************************************************************************)
(* RestartImplementsHandover: gate, permits and release implement the      *)
(* handover: no work starts behind an announcement, none is abandoned and  *)
(* the store changes hands only when there is none.                        *)
(***************************************************************************)
THEOREM RestartImplementsHandover == RestartSpec => Replacement
<1>1. RestartInit => H!HandoverInit
  BY HandoverInitially
<1>2. RestartTypeOK /\ RestartInv /\ [RestartNext]_restartVars
        => [H!HandoverNext]_(H!handoverVars)
  BY HandoverStep
<1>3. QED
  BY <1>1, <1>2, RestartInvariant, PTL
  DEF RestartSpec, Replacement, H!HandoverSpec
=============================================================================
