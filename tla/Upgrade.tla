------------------------------ MODULE Upgrade ------------------------------
(***************************************************************************)
(* Replacing a running daemon by an installed build, and starting one.     *)
(*                                                                         *)
(* nitsd/src/upgrade.rs (begin, observe_operation, run, revalidate,        *)
(* run_owned, wait_for_release, start_replacement), launch.rs              *)
(* (availability, ensure_daemon), ownership.rs (Lease, probe), control.rs  *)
(* (Inspect, Prepare) and the life of a daemon process in serve.rs,        *)
(* daemon.rs and server.rs.                                                *)
(*                                                                         *)
(* There is one store with one endpoint.  A request is a process that asks *)
(* for an upgrade and the detached coordinator it spawns; the daemon that  *)
(* a coordinator or a launcher spawns has the name of its spawner, since   *)
(* each spawns at most one.  What they share are files: the occupancy      *)
(* lock, the coordinators' lock, the journal, the sockets.  Draining is    *)
(* modelled in Restart; here it is one step that may come late.            *)
(***************************************************************************)
EXTENDS Naturals

CONSTANTS
    Requests,       \* requests for an upgrade, and their operations' ids
    Automatic,      \* those made by repair_incompatible
    Launchers,      \* calls of ensure_daemon
    First,          \* the daemon that is serving at first
    Nobody,         \* no process, no operation
    Builds, Build,  \* the build each process runs or asks for
    Release, Schema, Protocol,  \* of every build
    MaxFault        \* bound: shutdowns, crashes, lost replies, expired deadlines

Procs == Requests \cup Launchers \cup {First}

ASSUME UpgradeAssumption ==
    /\ Automatic \subseteq Requests
    /\ Requests \cap Launchers = {} /\ First \notin Requests \cup Launchers
    /\ Nobody \notin Procs
    /\ Build \in [Procs -> Builds]
    /\ Release \in [Builds -> Nat] /\ Schema \in [Builds -> Nat]
    /\ Protocol \in [Builds -> Nat]
    /\ MaxFault \in Nat

VARIABLES
    pc,             \* of every daemon process
    drain,          \* the operation a daemon is draining for
    app, ctl,       \* the process whose socket file is at each path
    phase,          \* the byte in the occupancy lock
    schema,         \* the version of the store
    jid, stage,     \* the journal: operation and progress
    lock,           \* the coordinator that has upgrade.lock
    ask, result,    \* the requesters, and what they were told
    source, preflight,      \* of a plan
    co, plan,       \* the coordinators, and the operation they work under
    outcome,        \* the terminal receipts
    look, upgrading, held,  \* the launchers, and what they have seen
    faults,
    confirmed,      \* ghost: the target has served since the publication
    met,            \* ghost: the build asked for has served since the request
    overtaken       \* ghost: an operation was published since the preflight

daemonVars == <<pc, drain, app, ctl, phase, schema>>
journalVars == <<jid, stage>>
askVars == <<ask, result, source, preflight>>
coVars == <<lock, co, plan, outcome>>
lookVars == <<look, upgrading, held>>
ghostVars == <<confirmed, met, overtaken>>
vars == <<daemonVars, journalVars, askVars, coVars, lookVars, faults, ghostVars>>

Stopping == {"stopping", "no control", "no socket", "closed"}

(* Mutant of HasCore: the store is closed before the sockets are.           *)
HasCoreWhileServing(p) == pc[p] \in {"open", "stale", "bound", "serving"}

(* A daemon holds the occupancy lock from before it opens the store until   *)
(* after it has closed it.                                                  *)
HasCore(p) == pc[p] \in {"open", "stale", "bound", "serving"} \cup Stopping
Held == \E p \in Procs : pc[p] = "leased" \/ HasCore(p)

(* Something accepts connections; the maintenance control, the application  *)
(* protocol is answered.                                                    *)
Listening == app # Nobody /\ pc[app] \in {"bound", "serving", "stopping", "no control"}
Answering == ctl # Nobody /\ pc[ctl] = "serving"
Welcoming == app # Nobody /\ pc[app] = "serving"

ActiveStages == {"preparing", "draining", "starting", "confirming"}

(* operation: an active journal without a coordinator reads as failed.      *)
(* `locked` is the result of coordinator_active.                            *)
Progress(locked) == IF stage \notin ActiveStages THEN stage
                    ELSE IF locked THEN "active" ELSE "failed"

(* coordinator_active tries the lock and so, for a moment, takes it: two    *)
(* probes may take each other for a coordinator.                            *)
ProbeLock == {TRUE, lock # Nobody}

(* allow.                                                                   *)
Allow(r, running) ==
    /\ \/ Release[Build[r]] > Release[running]
       \/ Release[Build[r]] = Release[running] /\ r \notin Automatic
    /\ Schema[Build[r]] >= Schema[running]

Fault ==
    /\ faults < MaxFault
    /\ faults' = faults + 1

(* A launcher may have found the store vacant before First took it.         *)
Init ==
    /\ pc = [p \in Procs |-> IF p = First THEN "serving" ELSE "off"]
    /\ drain = [p \in Procs |-> Nobody]
    /\ app = First /\ ctl = First /\ phase = "serving"
    /\ schema = Schema[Build[First]]
    /\ jid = Nobody /\ stage = "none" /\ lock = Nobody
    /\ ask = [r \in Requests |-> IF r \in Automatic THEN "repair" ELSE "asked"]
    /\ result = [r \in Requests |-> "none"]
    /\ source = [r \in Requests |-> Build[First]]
    /\ preflight = [r \in Requests |-> Nobody]
    /\ co = [r \in Requests |-> "none"] /\ plan = [r \in Requests |-> r]
    /\ outcome = [r \in Requests |-> "none"]
    /\ look \in [Launchers -> {"again", "vacant"}]
    /\ upgrading = [l \in Launchers |-> FALSE]
    /\ held = [l \in Launchers |-> FALSE]
    /\ faults = 0
    /\ confirmed = FALSE
    /\ met = [r \in Requests |-> FALSE]
    /\ overtaken = [r \in Requests |-> FALSE]

-----------------------------------------------------------------------------
(* A daemon process.                                                        *)

DaemonStep(p, here, there) ==
    /\ pc[p] = here
    /\ pc' = [pc EXCEPT ![p] = there]
    /\ UNCHANGED <<journalVars, askVars, coVars, lookVars>>

(* Lease::for_socket and Lease::acquire.                                    *)
TakeLeases(p) ==
    /\ DaemonStep(p, "starting", "leased")
    /\ UNCHANGED <<drain, app, ctl, phase, schema, faults, ghostVars>>

(* Core::open fails when another process has the store or the store is      *)
(* newer; only an owner writes the phase.                                   *)
OpenCore(p) ==
    LET fails == (\E q \in Procs : HasCore(q)) \/ Schema[Build[p]] < schema
    IN  /\ DaemonStep(p, "leased", IF fails THEN "dead" ELSE "open")
        /\ phase' = IF fails THEN phase ELSE "starting"
        /\ schema' = IF fails THEN schema ELSE Schema[Build[p]]
        /\ UNCHANGED <<drain, app, ctl, faults, ghostVars>>

(* UnixServer::bind: nobody answers at the path; whatever is there is       *)
(* removed and replaced.                                                    *)
FindStale(p) ==
    /\ DaemonStep(p, "open", IF Listening THEN "dead" ELSE "stale")
    /\ UNCHANGED <<drain, app, ctl, phase, schema, faults, ghostVars>>

Bind(p) ==
    /\ DaemonStep(p, "stale", "bound")
    /\ app' = p
    /\ UNCHANGED <<drain, ctl, phase, schema, faults, ghostVars>>

(* Asked, and not yet answered.                                             *)
Waiting == {"begun", "inspected", "observing"}

(* The control is bound and both are answered.                              *)
Serve(p) ==
    /\ DaemonStep(p, "bound", "serving")
    /\ ctl' = p
    /\ phase' = "serving"
    /\ confirmed' = (confirmed \/ (lock # Nobody /\ Build[p] = Build[lock]))
    /\ met' = [r \in Requests |-> met[r] \/ (ask[r] \in Waiting /\ Build[p] = Build[r])]
    /\ UNCHANGED <<drain, app, schema, faults, overtaken>>

(* A Shutdown request, a signal, the idle timer.                            *)
Stop(p) ==
    /\ DaemonStep(p, "serving", "stopping")
    /\ Fault
    /\ UNCHANGED <<drain, app, ctl, phase, schema, ghostVars>>

(* prepare_restart has seen the accepted work end.                          *)
Drained(p) ==
    /\ DaemonStep(p, "serving", "stopping")
    /\ drain[p] # Nobody
    /\ UNCHANGED <<drain, app, ctl, phase, schema, faults, ghostVars>>

(* The listeners end in either order, and each removes what is at its path. *)
CloseApp(p) ==
    /\ \/ DaemonStep(p, "stopping", "no socket")
       \/ DaemonStep(p, "no control", "closed")
    /\ app' = Nobody
    /\ phase' = "stopping"
    /\ UNCHANGED <<drain, ctl, schema, faults, ghostVars>>

CloseControl(p) ==
    /\ \/ DaemonStep(p, "stopping", "no control")
       \/ DaemonStep(p, "no socket", "closed")
    /\ ctl' = Nobody
    /\ UNCHANGED <<drain, app, phase, schema, faults, ghostVars>>

(* The last user of the core is gone: the stores close, then the leases.    *)
ReleaseCore(p) ==
    /\ DaemonStep(p, "closed", "dead")
    /\ UNCHANGED <<drain, app, ctl, phase, schema, faults, ghostVars>>

(* The kernel drops the locks of a process that dies; its socket files and  *)
(* its phase stay behind.                                                   *)
CrashDaemon(p) ==
    /\ pc[p] \notin {"off", "dead"}
    /\ DaemonStep(p, pc[p], "dead")
    /\ Fault
    /\ UNCHANGED <<drain, app, ctl, phase, schema, ghostVars>>

DaemonNext(p) ==
    \/ TakeLeases(p) \/ OpenCore(p) \/ FindStale(p) \/ Bind(p) \/ Serve(p)
    \/ Drained(p) \/ CloseApp(p) \/ CloseControl(p) \/ ReleaseCore(p)

-----------------------------------------------------------------------------
(* The requester: it only reads, until it spawns its coordinator.           *)

AskStep(r, here) ==
    /\ ask[r] = here
    /\ UNCHANGED <<daemonVars, journalVars, lookVars, faults, confirmed, overtaken>>

Told(r, answer) ==
    /\ ask' = [ask EXCEPT ![r] = "answered"]
    /\ result' = [result EXCEPT ![r] = answer]

(* repair_incompatible: only an older daemon with another protocol, for a   *)
(* client that speaks the candidate's.                                      *)
Repair(r) ==
    /\ AskStep(r, "repair")
    /\ IF /\ Answering
          /\ Protocol[Build[ctl]] # Protocol[Build[r]]
          /\ Release[Build[r]] > Release[Build[ctl]]
       THEN ask' = [ask EXCEPT ![r] = "asked"] /\ UNCHANGED result
       ELSE Told(r, "unneeded")
    /\ UNCHANGED <<source, preflight, coVars, met>>

(* join_active, for the operation as read with the given lock state.        *)
Joins(locked) == Progress(locked) = "active"
JoinActive(r) == Told(r, IF Build[jid] = Build[r] THEN "accepted" ELSE "failed")

(* begin_inner up to the inspection of the incumbent.                       *)
Begin(r) ==
    /\ AskStep(r, "asked")
    /\ \E locked \in ProbeLock :
         IF Joins(locked) THEN JoinActive(r)
         ELSE ask' = [ask EXCEPT ![r] = "begun"] /\ UNCHANGED result
    /\ met' = [met EXCEPT ![r] = Answering /\ Build[ctl] = Build[r]]
    /\ UNCHANGED <<source, preflight, coVars>>

Inspect(r) ==
    /\ AskStep(r, "begun")
    /\ IF Answering /\ Build[ctl] # Build[r] /\ Allow(r, Build[ctl])
       THEN /\ ask' = [ask EXCEPT ![r] = "inspected"]
            /\ source' = [source EXCEPT ![r] = Build[ctl]]
            /\ UNCHANGED result
       ELSE /\ Told(r, IF Answering /\ Build[ctl] = Build[r] THEN "current" ELSE "failed")
            /\ UNCHANGED source
    /\ UNCHANGED <<preflight, coVars, met>>

(* The second check, the plan and the coordinator.                          *)
Preflight(r) ==
    /\ AskStep(r, "inspected")
    /\ \E locked \in ProbeLock :
         IF Joins(locked) THEN JoinActive(r) /\ UNCHANGED <<preflight, co>>
         ELSE /\ ask' = [ask EXCEPT ![r] = "observing"]
              /\ preflight' = [preflight EXCEPT ![r] = jid]
              /\ co' = [co EXCEPT ![r] = "spawned"]
              /\ UNCHANGED result
    /\ UNCHANGED <<source, lock, plan, outcome, met>>

(* Mutant of IsNews: an operation that was there before is taken for news.  *)
IsAnyNews(r) == jid # Nobody

(* observe_operation: the request's own receipt comes first, then the       *)
(* progress of whatever was admitted after its preflight.  The receipt may  *)
(* be written just after it was found missing.                              *)
IsNews(r) == jid # Nobody /\ (jid # preflight[r] \/ jid = r)

ObserveReceipt(r) ==
    /\ AskStep(r, "observing")
    /\ outcome[r] # "none"
    /\ Told(r, outcome[r])
    /\ UNCHANGED <<source, preflight, coVars, met>>

ObserveProgress(r) ==
    /\ AskStep(r, "observing")
    /\ IsNews(r)
    /\ \E locked \in ProbeLock :
         Told(r, IF Build[jid] # Build[r] THEN "failed"
                 ELSE CASE Progress(locked) = "ready" -> "restarted"
                        [] Progress(locked) = "failed" -> "failed"
                        [] Progress(locked) = "active" -> "accepted")
    /\ UNCHANGED <<source, preflight, coVars, met>>

(* The call budget is spent without news.                                   *)
ObserveDeadline(r) ==
    /\ AskStep(r, "observing")
    /\ ~ IsNews(r)
    /\ Told(r, "failed")
    /\ UNCHANGED <<source, preflight, coVars, met>>

AskNext(r) ==
    \/ Repair(r) \/ Begin(r) \/ Inspect(r) \/ Preflight(r)
    \/ ObserveReceipt(r) \/ ObserveProgress(r) \/ ObserveDeadline(r)

-----------------------------------------------------------------------------
(* The coordinator: run.                                                    *)

CoStep(r, here) ==
    /\ co[r] = here
    /\ UNCHANGED <<askVars, lookVars, met>>

Goes(r, there) == co' = [co EXCEPT ![r] = there]

(* The receipt is written and the process ends, which unlocks.              *)
Complete(r, answer) ==
    /\ Goes(r, "done")
    /\ outcome' = [outcome EXCEPT ![r] = answer]
    /\ lock' = Nobody

(* ActivePlan::finish, then the receipt.                                    *)
Finish(r, final) ==
    /\ jid' = plan[r] /\ stage' = final
    /\ Complete(r, IF final = "ready" THEN "restarted" ELSE "failed")

(* publish.                                                                 *)
Publish(id, next) ==
    /\ jid' = id /\ stage' = next

Lock(r) ==
    /\ CoStep(r, "spawned")
    /\ lock = Nobody
    /\ lock' = r
    /\ Goes(r, "locked")
    /\ UNCHANGED <<daemonVars, journalVars, plan, outcome, faults, confirmed, overtaken>>

(* The deadline of the lock: run returns without a receipt.                 *)
LockTimeout(r) ==
    /\ CoStep(r, "spawned")
    /\ lock # Nobody
    /\ Fault
    /\ Goes(r, "dead")
    /\ UNCHANGED <<daemonVars, journalVars, lock, plan, outcome, confirmed, overtaken>>

(* revalidate: nothing was admitted since the preflight, and the incumbent  *)
(* is the one that was inspected.                                           *)
Unchanged(r) ==
    /\ jid = preflight[r]
    /\ Allow(r, Build[ctl])
    /\ Build[ctl] = source[r]

(* revalidate and ActivePlan::publish.  Only the holder of the lock writes  *)
(* the journal, so the answer of the incumbent is all that can change       *)
(* between the reads.                                                       *)
Revalidate(r) ==
    /\ CoStep(r, "locked")
    /\ IF Answering /\ Build[ctl] # Build[r] /\ Unchanged(r)
       THEN /\ Publish(r, "preparing")
            /\ Goes(r, "published")
            /\ confirmed' = FALSE
            /\ overtaken' = [s \in Requests |-> overtaken[s] \/ (s # r /\ co[s] = "spawned")]
            /\ UNCHANGED <<lock, outcome>>
       ELSE /\ Complete(r, IF ~ Answering \/ Build[ctl] # Build[r] THEN "failed"
                           ELSE IF stage = "ready" /\ Build[jid] = Build[r] THEN "restarted"
                           ELSE "current")
            /\ UNCHANGED <<journalVars, confirmed, overtaken>>
    /\ UNCHANGED <<daemonVars, plan, faults>>

(* The answer of control::Server to Prepare.                                *)
Accepts(r) ==
    /\ Answering
    /\ source[r] = Build[ctl]
    /\ Release[Build[r]] >= Release[Build[ctl]]

(* prepare_restart: the first operation closes the admission, later ones    *)
(* are answered with it.                                                    *)
FirstOp(r) == IF drain[ctl] = Nobody THEN r ELSE drain[ctl]

Prepare(r) ==
    /\ CoStep(r, "published")
    /\ IF Accepts(r)
       THEN /\ drain' = [drain EXCEPT ![ctl] = FirstOp(r)]
            /\ IF Build[FirstOp(r)] = Build[r]
               THEN /\ plan' = [plan EXCEPT ![r] = FirstOp(r)]
                    /\ Goes(r, "prepared")
                    /\ UNCHANGED <<journalVars, lock, outcome>>
               ELSE Finish(r, "failed") /\ UNCHANGED plan
       ELSE Finish(r, "failed") /\ UNCHANGED <<drain, plan>>
    /\ UNCHANGED <<pc, app, ctl, phase, schema, faults, confirmed, overtaken>>

(* The daemon drains and its reply is lost.                                 *)
PrepareLost(r) ==
    /\ CoStep(r, "published")
    /\ Accepts(r)
    /\ Fault
    /\ drain' = [drain EXCEPT ![ctl] = FirstOp(r)]
    /\ Finish(r, "failed")
    /\ UNCHANGED <<pc, app, ctl, phase, schema, plan, confirmed, overtaken>>

(* wait_for_release: the journal, then the occupancy lock and the socket,   *)
(* until both are free.                                                     *)
Drain(r) ==
    /\ CoStep(r, "prepared")
    /\ Publish(plan[r], "draining")
    /\ Goes(r, "draining")
    /\ UNCHANGED <<daemonVars, lock, plan, outcome, faults, confirmed, overtaken>>

SeeFree(r) ==
    /\ CoStep(r, "draining")
    /\ ~ Held
    /\ Goes(r, "free")
    /\ UNCHANGED <<daemonVars, journalVars, lock, plan, outcome, faults, confirmed, overtaken>>

SeeClosed(r) ==
    /\ CoStep(r, "free")
    /\ IF Listening THEN Goes(r, "draining") /\ UNCHANGED journalVars
       ELSE Goes(r, "starting") /\ Publish(plan[r], "starting")
    /\ UNCHANGED <<daemonVars, lock, plan, outcome, faults, confirmed, overtaken>>

(* start_replacement.                                                       *)
StartReplacement(r) ==
    /\ CoStep(r, "starting")
    /\ pc' = [pc EXCEPT ![r] = "starting"]
    /\ Publish(plan[r], "confirming")
    /\ Goes(r, "confirming")
    /\ UNCHANGED <<drain, app, ctl, phase, schema, lock, plan, outcome, faults, confirmed,
                   overtaken>>

SeeReplacement(r) ==
    /\ CoStep(r, "confirming")
    /\ Answering /\ Build[ctl] = Build[r]
    /\ Goes(r, "handshake")
    /\ UNCHANGED <<daemonVars, journalVars, lock, plan, outcome, faults, confirmed, overtaken>>

(* Whoever answers the application socket by now must speak the protocol.   *)
Handshake(r) ==
    /\ CoStep(r, "handshake")
    /\ IF Welcoming /\ Protocol[Build[app]] = Protocol[Build[r]]
       THEN Finish(r, "ready")
       ELSE Goes(r, "confirming") /\ UNCHANGED <<journalVars, lock, outcome>>
    /\ UNCHANGED <<daemonVars, plan, faults, confirmed, overtaken>>

(* Mutant of ChildExited: only a child that came up is missed.              *)
ChildUnwatched(r) ==
    /\ CoStep(r, "confirming")
    /\ pc[r] = "dead" /\ ctl = r
    /\ Finish(r, "failed")
    /\ UNCHANGED <<daemonVars, plan, faults, confirmed, overtaken>>

ChildExited(r) ==
    /\ CoStep(r, "confirming")
    /\ pc[r] = "dead"
    /\ Finish(r, "failed")
    /\ UNCHANGED <<daemonVars, plan, faults, confirmed, overtaken>>

(* DRAIN_TIMEOUT, READY_TIMEOUT, or an I/O error on the way.                *)
TimedOut(r) ==
    /\ CoStep(r, co[r])
    /\ co[r] \in {"draining", "starting", "confirming"}
    /\ Fault
    /\ Finish(r, "failed")
    /\ UNCHANGED <<daemonVars, plan, confirmed, overtaken>>

(* The coordinator dies: the kernel unlocks, the journal stays active.      *)
CrashCoordinator(r) ==
    /\ CoStep(r, co[r])
    /\ co[r] \notin {"none", "done", "dead"}
    /\ Fault
    /\ Goes(r, "dead")
    /\ lock' = IF lock = r THEN Nobody ELSE lock
    /\ UNCHANGED <<daemonVars, journalVars, plan, outcome, confirmed, overtaken>>

CoNext(r) ==
    \/ Lock(r) \/ Revalidate(r) \/ Prepare(r) \/ Drain(r) \/ SeeFree(r) \/ SeeClosed(r)
    \/ StartReplacement(r) \/ SeeReplacement(r) \/ Handshake(r) \/ ChildExited(r)

-----------------------------------------------------------------------------
(* A launcher: one turn of the loop of ensure_daemon after the other.  One   *)
(* that gives up (START_TIMEOUT) takes no further step.                      *)

LookStep(l, here) ==
    /\ look[l] = here
    /\ UNCHANGED <<journalVars, askVars, coVars, faults, ghostVars>>

Sees(l, there) == look' = [look EXCEPT ![l] = there]

(* endpoint_active.  A probe that is taken for a coordinator costs another  *)
(* turn and changes nothing, so it is left out here.                        *)
LookUpgrade(l) ==
    /\ LookStep(l, "again")
    /\ upgrading' = [upgrading EXCEPT ![l] = lock # Nobody]
    /\ Sees(l, "looked")
    /\ UNCHANGED <<daemonVars, held>>

(* availability: the socket's guard and the phase of its store.             *)
LookOwner(l) ==
    /\ LookStep(l, "looked")
    /\ held' = [held EXCEPT ![l] = Held]
    /\ Sees(l, IF Held /\ phase # "serving" THEN "again" ELSE "owner")
    /\ UNCHANGED <<daemonVars, upgrading>>

(* availability: the listener.                                              *)
LookListening(l) ==
    /\ LookStep(l, "owner")
    /\ Sees(l, IF Listening THEN (IF upgrading[l] THEN "again" ELSE "done")
               ELSE IF held[l] THEN "again" ELSE "stopped")
    /\ held' = [held EXCEPT ![l] = FALSE]
    /\ UNCHANGED <<daemonVars, upgrading>>

LookCoordinator(l) ==
    /\ LookStep(l, "stopped")
    /\ Sees(l, IF upgrading[l] \/ lock # Nobody THEN "again" ELSE "clear")
    /\ upgrading' = [upgrading EXCEPT ![l] = FALSE]
    /\ UNCHANGED <<daemonVars, held>>

LookStore(l) ==
    /\ LookStep(l, "clear")
    /\ Sees(l, IF Held THEN "again" ELSE "vacant")
    /\ UNCHANGED <<daemonVars, upgrading, held>>

(* spawn_detached.  From now on the launcher only watches for the listener. *)
Launch(l) ==
    /\ LookStep(l, "vacant")
    /\ pc' = [pc EXCEPT ![l] = "starting"]
    /\ Sees(l, "done")
    /\ UNCHANGED <<drain, app, ctl, phase, schema, upgrading, held>>

LookNext(l) ==
    \/ LookUpgrade(l) \/ LookOwner(l) \/ LookListening(l) \/ LookCoordinator(l)
    \/ LookStore(l) \/ Launch(l)

Next ==
    \/ \E p \in Procs : DaemonNext(p) \/ Stop(p) \/ CrashDaemon(p)
    \/ \E r \in Requests : \/ AskNext(r) \/ CoNext(r)
                           \/ LockTimeout(r) \/ PrepareLost(r) \/ TimedOut(r)
                           \/ CrashCoordinator(r)
    \/ \E l \in Launchers : LookNext(l)

Spec == Init /\ [][Next]_vars

(* Daemons and coordinators are processes that the system runs; nothing is  *)
(* assumed of requesters and launchers, which may be cancelled, nor of      *)
(* deadlines.                                                               *)
FairSpec ==
    /\ Spec
    /\ \A p \in Procs : WF_vars(DaemonNext(p))
    /\ \A r \in Requests : WF_vars(CoNext(r))

-----------------------------------------------------------------------------
UpgradeTypeOK ==
    /\ pc \in [Procs -> {"off", "starting", "leased", "open", "stale", "bound", "serving", "dead"}
                        \cup Stopping]
    /\ drain \in [Procs -> Requests \cup {Nobody}]
    /\ {app, ctl} \subseteq Procs \cup {Nobody}
    /\ {jid, lock} \subseteq Requests \cup {Nobody}
    /\ stage \in ActiveStages \cup {"none", "ready", "failed"}
    /\ \A r \in Requests :
         /\ ask[r] \in {"repair", "asked", "begun", "inspected", "observing", "answered"}
         /\ result[r] \in {"none", "unneeded", "accepted", "current", "restarted", "failed"}
         /\ co[r] \in {"none", "spawned", "locked", "published", "prepared", "draining", "free",
                       "starting", "confirming", "handshake", "done", "dead"}
         /\ lock = r <=> co[r] \notin {"none", "spawned", "done", "dead"}
    /\ look \in [Launchers -> {"again", "looked", "owner", "stopped", "clear", "vacant", "done"}]

(* "The journal records readiness only after ownership release and a        *)
(* matching replacement control inspection plus application handshake": an  *)
(* operation becomes ready only when a daemon of its target has come up     *)
(* since it was published, whoever else starts and stops daemons meanwhile. *)
ReadyIsConfirmed ==
    [][(stage' = "ready" /\ stage # "ready") => confirmed]_vars

(* "A stale client cannot select an older release and downgrade the running *)
(* daemon": a daemon drains only for an operation planned against its own   *)
(* build, and never for an older release or schema, however long the        *)
(* request waited and whatever was started in between.                      *)
NoDowngrade ==
    \A p \in Procs : drain[p] # Nobody =>
        /\ source[drain[p]] = Build[p]
        /\ Allow(drain[p], Build[p])

(* A daemon that serves can be reached: neither a daemon that is still      *)
(* stopping nor a competing one removes its sockets, though each of them    *)
(* removes whatever is at the path.                                         *)
ServingIsReachable ==
    \A p \in Procs : pc[p] = "serving" => app = p /\ ctl = p

(* "Replacement starts only after ownership is free": when a replacement is *)
(* spawned, the daemon that drained for its operation has closed the store. *)
IncumbentGone ==
    [][\A r, p \in Procs :
         (r \in Requests /\ pc[r] = "off" /\ pc'[r] = "starting" /\ drain[p] = plan[r]) =>
            pc[p] = "dead"]_vars

(* A requester is told "restarted" or "already current" only if the build   *)
(* it selected has served at some time since it asked: not on the strength  *)
(* of an older operation in the journal.                                    *)
ReceiptIsTrue ==
    \A r \in Requests : result[r] \in {"restarted", "current"} => met[r]

(* A coordinator that was spawned comes to its end without the help of any  *)
(* deadline, unless a launcher's daemon gets into the vacancy: the lock is  *)
(* handed on, the incumbent drains, and the replacement comes up or is      *)
(* noticed to have died, whoever crashes on the way.                        *)
CoordinatorEnds ==
    \A r \in Requests :
        (co[r] = "spawned") ~> \/ co[r] \in {"done", "dead"}
                               \/ \E l \in Launchers : pc[l] = "serving"

(* "If another operation intervenes, its queued child cannot activate       *)
(* later, including when the winner fails before stopping the original      *)
(* daemon", with one exception that the text does not mention.  A winner    *)
(* that finds the incumbent draining for an earlier operation goes on under *)
(* that one's name; if the queued request read that name at its preflight,  *)
(* it finds the journal as it was and activates.                            *)
QueuedCannotActivate ==
    [][\A r \in Requests :
         (co[r] = "locked" /\ co'[r] = "published" /\ overtaken[r]) =>
            preflight[r] # Nobody /\ \E p \in Procs : drain[p] = preflight[r]]_vars

=============================================================================
