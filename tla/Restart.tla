------------------------------ MODULE Restart ------------------------------
(***************************************************************************)
(* One daemon process from its first connection to the release of its      *)
(* store: admission of work, the announcement of a planned restart, the    *)
(* draining of jobs and connections, and the other ways to stop.           *)
(*                                                                         *)
(* crates/nitsd/src/admission.rs, daemon.rs (open_owned, prepare_restart,  *)
(* read, write), connection.rs (serve_framed, read_loop, handle),          *)
(* serve.rs (serve), server.rs (run), control.rs (run).                    *)
(*                                                                         *)
(* A request is a future of its connection; once admitted, its work is a   *)
(* job of the writer thread or of the blocking pool that carries a permit  *)
(* and outlives the future. What a job computes does not matter here.      *)
(***************************************************************************)
EXTENDS Naturals, FiniteSets

CONSTANTS
  Conns,       \* connections
  Calls,       \* requests, each sent at most once
  Operations,  \* upgrade operations a controller may ask for
  NoOp         \* no restart announced

ASSUME RestartAssumption ==
  /\ IsFiniteSet(Calls)
  /\ NoOp \notin Operations

VARIABLES
  operation,  \* Admission::state.operation and the lifecycle watch
  active,     \* Admission::state.active, the number of live permits
  waiter,     \* where the task of prepare_restart is
  notified,   \* a permit was dropped since that task registered
  conn,       \* "new", "open", "draining" or "closed"
  from,       \* the connection a request came on
  fut,        \* the request's future
  job,        \* the request's job
  writes,     \* requests whose job is for the writer thread
  writer,     \* the writer thread: "alive" or "dead"
  shutdown,   \* the shutdown token
  serving     \* "serving", "stopping" or "released"

restartVars ==
  <<operation, active, waiter, notified, conn, from, fut, job, writes, writer, shutdown,
    serving>>

Live == {"new", "awaiting"}                  \* futures still in the set
Registered == {"registered", "checked", "waiting"}
Draining == {"start", "drained"} \cup Registered

\* Jobs that carry a permit.
Holders == {r \in Calls : job[r] \in {"queued", "running"}}

RestartInit ==
  /\ operation = NoOp
  /\ active = 0
  /\ waiter = "off"
  /\ notified = FALSE
  /\ conn = [c \in Conns |-> "new"]
  /\ from \in [Calls -> Conns]
  /\ fut = [r \in Calls |-> "none"]
  /\ job = [r \in Calls |-> "none"]
  /\ writes \in SUBSET Calls
  /\ writer = "alive"
  /\ shutdown = FALSE
  /\ serving = "serving"
-----------------------------------------------------------------------------
(***************************************************************************)
(* Connections and their requests. A Hello during a restart is rejected.   *)
(***************************************************************************)
Accept(c) ==
  /\ serving = "serving"
  /\ conn[c] = "new"
  /\ conn' = [conn EXCEPT ![c] = IF operation = NoOp THEN "open"
                                                     ELSE "closed"]
  /\ UNCHANGED <<operation, active, waiter, notified, from, fut, job, writes,
                 writer, shutdown, serving>>

\* A frame may still be read between the announcement and its notice.
Receive(r) ==
  /\ conn[from[r]] = "open"
  /\ fut[r] = "none"
  /\ fut' = [fut EXCEPT ![r] = "new"]
  /\ UNCHANGED <<operation, active, waiter, notified, conn, from, job,
                 writes, writer, shutdown, serving>>

Polled(r) ==
  /\ fut[r] = "new"
  /\ conn[from[r]] \in {"open", "draining"}

\* Admission::accept moves a permit into the job, under the gate's mutex.
Admit(r) ==
  /\ Polled(r)
  /\ operation = NoOp
  /\ r \in writes => writer = "alive"
  /\ active' = active + 1
  /\ fut' = [fut EXCEPT ![r] = "awaiting"]
  /\ job' = [job EXCEPT ![r] = IF r \in writes THEN "queued" ELSE "running"]
  /\ UNCHANGED <<operation, waiter, notified, conn, from, writes, writer,
                 shutdown, serving>>

\* handle sees the announcement, or accept does; or the writer is gone.
Refuse(r) ==
  /\ Polled(r)
  /\ operation # NoOp \/ (r \in writes /\ writer = "dead")
  /\ fut' = [fut EXCEPT ![r] = "refused"]
  /\ UNCHANGED <<operation, active, waiter, notified, conn, from, job,
                 writes, writer, shutdown, serving>>

Answer(r) ==
  /\ fut[r] = "awaiting"
  /\ conn[from[r]] \in {"open", "draining"}
  /\ job[r] \in {"finished", "lost"}
  /\ fut' = [fut EXCEPT ![r] = "answered"]
  /\ UNCHANGED <<operation, active, waiter, notified, conn, from, job,
                 writes, writer, shutdown, serving>>

\* ClientMsg::Cancel drops the future and never the job.
Cancel(r) ==
  /\ conn[from[r]] = "open"
  /\ fut[r] \in Live
  /\ fut' = [fut EXCEPT ![r] = "cancelled"]
  /\ UNCHANGED <<operation, active, waiter, notified, conn, from, job,
                 writes, writer, shutdown, serving>>

\* The futures a connection takes with it.
Dropping(c, outcome) ==
  fut' = [r \in Calls |->
            IF from[r] = c /\ fut[r] \in Live THEN outcome ELSE fut[r]]

PeerGone(c) ==
  /\ conn[c] = "open"
  /\ conn' = [conn EXCEPT ![c] = "closed"]
  /\ Dropping(c, "dropped")
  /\ UNCHANGED <<operation, active, waiter, notified, from, job, writes,
                 writer, shutdown, serving>>

(***************************************************************************)
(* read_loop on a restart: the notice goes out, accepted requests get two  *)
(* seconds, and what is left is answered RestartInterrupted.               *)
(***************************************************************************)
DrainBegin(c) ==
  /\ conn[c] = "open"
  /\ operation # NoOp
  /\ conn' = [conn EXCEPT ![c] = "draining"]
  /\ UNCHANGED <<operation, active, waiter, notified, from, fut, job, writes,
                 writer, shutdown, serving>>

DrainEnd(c) ==
  /\ conn[c] = "draining"
  /\ conn' = [conn EXCEPT ![c] = "closed"]
  /\ Dropping(c, "interrupted")
  /\ UNCHANGED <<operation, active, waiter, notified, from, job, writes,
                 writer, shutdown, serving>>
-----------------------------------------------------------------------------
(***************************************************************************)
(* Jobs. Dropping a permit decrements the count and notifies whoever has   *)
(* registered; nobody is remembered for later.                             *)
(***************************************************************************)
\* Mutant: the task is registered only once it sleeps.
PermitDroppedUnheard ==
  /\ active' = active - 1
  /\ notified' = (notified \/ waiter = "waiting")

PermitDropped ==
  /\ active' = active - 1
  /\ notified' = (notified \/ waiter \in Registered)

RunWrite(r) ==
  /\ writer = "alive"
  /\ job[r] = "queued"
  /\ \A q \in writes : job[q] # "running"
  /\ job' = [job EXCEPT ![r] = "running"]
  /\ UNCHANGED <<operation, active, waiter, notified, conn, from, fut,
                 writes, writer, shutdown, serving>>

FinishJob(r) ==
  /\ job[r] = "running"
  /\ job' = [job EXCEPT ![r] = "finished"]
  /\ PermitDropped
  /\ UNCHANGED <<operation, waiter, conn, from, fut, writes, writer,
                 shutdown, serving>>

\* A panic of the writer thread stops the daemon; queued jobs die with it.
WriterPanic(r) ==
  /\ r \in writes
  /\ job[r] = "running"
  /\ job' = [job EXCEPT ![r] = "lost"]
  /\ PermitDropped
  /\ writer' = "dead"
  /\ shutdown' = TRUE
  /\ UNCHANGED <<operation, waiter, conn, from, fut, writes, serving>>

DropJob(r) ==
  /\ writer = "dead"
  /\ job[r] = "queued"
  /\ job' = [job EXCEPT ![r] = "lost"]
  /\ PermitDropped
  /\ UNCHANGED <<operation, waiter, conn, from, fut, writes, writer,
                 shutdown, serving>>
-----------------------------------------------------------------------------
(***************************************************************************)
(* prepare_restart: the first operation closes the gate and starts the     *)
(* task that waits for the permits; later ones only learn of it. The task  *)
(* registers for the next notification, looks at the count and sleeps, and *)
(* a permit may be dropped between any two of these.                       *)
(***************************************************************************)
CloseAdmission(op) ==
  /\ serving # "released"
  /\ operation = NoOp
  /\ operation' = op
  /\ waiter' = "start"
  /\ UNCHANGED <<active, notified, conn, from, fut, job, writes, writer,
                 shutdown, serving>>

Register ==
  /\ waiter = "start"
  /\ waiter' = "registered"
  /\ notified' = FALSE
  /\ UNCHANGED <<operation, active, conn, from, fut, job, writes, writer,
                 shutdown, serving>>

CheckActive ==
  /\ waiter = "registered"
  /\ waiter' = IF active = 0 THEN "drained" ELSE "checked"
  /\ UNCHANGED <<operation, active, notified, conn, from, fut, job, writes,
                 writer, shutdown, serving>>

Await ==
  /\ waiter = "checked"
  /\ waiter' = "waiting"
  /\ UNCHANGED <<operation, active, notified, conn, from, fut, job, writes,
                 writer, shutdown, serving>>

Wake ==
  /\ waiter = "waiting"
  /\ notified
  /\ waiter' = "start"
  /\ UNCHANGED <<operation, active, notified, conn, from, fut, job, writes,
                 writer, shutdown, serving>>

\* Connections get up to four seconds to flush; a stuck one does not count.
FlushDone ==
  /\ waiter = "drained"
  /\ waiter' = "over"
  /\ shutdown' = TRUE
  /\ UNCHANGED <<operation, active, notified, conn, from, fut, job, writes,
                 writer, serving>>

WaiterStopped ==
  /\ waiter \in {"start"} \cup Registered
  /\ shutdown
  /\ waiter' = "over"
  /\ UNCHANGED <<operation, active, notified, conn, from, fut, job, writes,
                 writer, shutdown, serving>>

\* Request::Shutdown, ctrl-c or the idle timeout.
StopServing ==
  /\ ~shutdown
  /\ shutdown' = TRUE
  /\ UNCHANGED <<operation, active, waiter, notified, conn, from, fut, job,
                 writes, writer, serving>>

\* The accept loops end and take every connection with them.
ServerStop ==
  /\ serving = "serving"
  /\ shutdown
  /\ serving' = "stopping"
  /\ conn' = [c \in Conns |-> "closed"]
  /\ fut' = [r \in Calls |-> IF fut[r] \in Live THEN "dropped" ELSE fut[r]]
  /\ UNCHANGED <<operation, active, waiter, notified, from, job, writes,
                 writer, shutdown>>

\* Mutant: the store is given up under running jobs.
ReleaseEarly ==
  /\ serving = "stopping"
  /\ waiter \notin Draining
  /\ serving' = "released"
  /\ UNCHANGED <<operation, active, waiter, notified, conn, from, fut, job,
                 writes, writer, shutdown>>

\* The last user of the core is gone: the writer thread has run its queue
\* dry, the blocking jobs are over and no task holds the daemon.
ReleaseStore ==
  /\ serving = "stopping"
  /\ waiter \notin Draining
  /\ Holders = {}
  /\ serving' = "released"
  /\ UNCHANGED <<operation, active, waiter, notified, conn, from, fut, job,
                 writes, writer, shutdown>>
-----------------------------------------------------------------------------
RequestNext(r) ==
  \/ Receive(r) \/ Admit(r) \/ Refuse(r) \/ Answer(r) \/ Cancel(r)
  \/ RunWrite(r) \/ FinishJob(r) \/ WriterPanic(r) \/ DropJob(r)

ConnNext(c) == Accept(c) \/ PeerGone(c) \/ DrainBegin(c) \/ DrainEnd(c)

WaiterNext ==
  Register \/ CheckActive \/ Await \/ Wake \/ FlushDone \/ WaiterStopped

RestartNext ==
  \/ \E r \in Calls : RequestNext(r)
  \/ \E c \in Conns : ConnNext(c)
  \/ \E op \in Operations : CloseAdmission(op)
  \/ WaiterNext
  \/ StopServing \/ ServerStop \/ ReleaseStore

RestartSpec == RestartInit /\ [][RestartNext]_restartVars

(***************************************************************************)
(* Jobs come to an end, tasks are polled and timers fire. Nothing is       *)
(* assumed of peers, controllers or users.                                 *)
(***************************************************************************)
RestartFairSpec ==
  /\ RestartSpec
  /\ \A r \in Calls :
       WF_restartVars(RunWrite(r)) /\ WF_restartVars(FinishJob(r)) /\ WF_restartVars(DropJob(r))
  /\ \A c \in Conns : WF_restartVars(DrainBegin(c)) /\ WF_restartVars(DrainEnd(c))
  /\ WF_restartVars(Register) /\ WF_restartVars(CheckActive) /\ WF_restartVars(Await)
  /\ WF_restartVars(Wake) /\ WF_restartVars(FlushDone) /\ WF_restartVars(WaiterStopped)
  /\ WF_restartVars(ServerStop) /\ WF_restartVars(ReleaseStore)
-----------------------------------------------------------------------------
(***************************************************************************)
(* RestartTypeOK: the shapes of the state; the permit count stays a        *)
(* natural number, as its usize must.                                      *)
(***************************************************************************)
RestartTypeOK ==
  /\ operation \in Operations \cup {NoOp}
  /\ active \in Nat
  /\ waiter \in Draining \cup {"off", "over"}
  /\ notified \in BOOLEAN
  /\ conn \in [Conns -> {"new", "open", "draining", "closed"}]
  /\ from \in [Calls -> Conns]
  /\ fut \in [Calls -> {"none", "answered", "refused", "interrupted",
                           "cancelled", "dropped"} \cup Live]
  /\ job \in [Calls -> {"none", "queued", "running", "finished", "lost"}]
  /\ writes \in SUBSET Calls
  /\ writer \in {"alive", "dead"}
  /\ shutdown \in BOOLEAN
  /\ serving \in {"serving", "stopping", "released"}

(***************************************************************************)
(* PermitsCount: the count of admission is the number of jobs queued or    *)
(* running, whichever futures were cancelled, interrupted or dropped in    *)
(* the meantime and however their jobs ended.                              *)
(***************************************************************************)
PermitsCount == active = Cardinality(Holders)

(***************************************************************************)
(* DrainedIsIdle: once prepare_restart has seen the work drained, no job   *)
(* is queued or running, and none will be.                                 *)
(***************************************************************************)
DrainedIsIdle == waiter = "drained" => operation # NoOp /\ Holders = {}

(***************************************************************************)
(* NoLostWakeup: a restart task that sleeps, or is about to, has a permit  *)
(* to wait for or a notification to wake up to.                            *)
(***************************************************************************)
NoLostWakeup ==
  waiter \in {"checked", "waiting"} => notified \/ Holders # {}

(***************************************************************************)
(* RefusedNeverRuns: a request answered Restarting never has a job, so the *)
(* client may send it again to the next daemon.                            *)
(***************************************************************************)
RefusedNeverRuns == \A r \in Calls : fut[r] = "refused" => job[r] = "none"

(***************************************************************************)
(* ReleasedIsOver: the store is released, for the next daemon to open,     *)
(* only when nothing of this one can touch it: no job is left and no       *)
(* connection or future could start one.                                   *)
(***************************************************************************)
ReleasedIsOver ==
  serving = "released" =>
    /\ Holders = {}
    /\ \A r \in Calls : fut[r] \notin Live
    /\ \A c \in Conns : conn[c] = "closed"

(***************************************************************************)
(* RestartInv: the inductive invariant behind the properties above. What   *)
(* they rest on: only a request that was just polled can get a job, only   *)
(* a connection that is still served polls, and a restart task exists only *)
(* behind a closed gate.                                                   *)
(***************************************************************************)
JobAdmitted ==
  \A r \in Calls : job[r] # "none" => fut[r] \notin {"none", "new", "refused"}

PolledByLive ==
  /\ \A r \in Calls : fut[r] \in Live => conn[from[r]] \in {"open", "draining"}
  /\ serving # "serving" => \A c \in Conns : conn[c] = "closed"

GateClosed == waiter # "off" => operation # NoOp

RestartInv ==
  /\ PermitsCount
  /\ DrainedIsIdle
  /\ NoLostWakeup
  /\ JobAdmitted
  /\ PolledByLive
  /\ GateClosed
  /\ serving = "released" => Holders = {}

(***************************************************************************)
(* RestartHappens: an announced restart ends in the release of the store,  *)
(* whatever connections, cancellations and panics come in between.         *)
(***************************************************************************)
RestartHappens == operation # NoOp ~> serving = "released"

(***************************************************************************)
(* Replacement: admission, draining and release implement the handover.    *)
(***************************************************************************)
H == INSTANCE Handover WITH
       announced <- operation, work <- Holders, owner <- serving # "released",
       Requests <- Calls

Replacement == H!HandoverSpec
=============================================================================
