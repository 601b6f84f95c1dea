------------------------------ MODULE McpHost ------------------------------
(***************************************************************************)
(* The MCP adapter: one stable host process (nits-mcp/src/supervisor.rs),  *)
(* the replaceable worker child it drives (worker.rs), the session server  *)
(* inside the worker (server.rs) and the checkpoint that moves the session *)
(* from one worker to the next (checkpoint.rs).                            *)
(*                                                                         *)
(* The host reads requests of its MCP client, gives each a private ticket, *)
(* forwards it to the worker or queues it for daemon management, and       *)
(* writes every reply itself.  The worker serves dispatches in order; only *)
(* event waits overlap.  A restart of the daemon prepares a new worker     *)
(* from the checkpoint beside the running one and swaps them when the      *)
(* activation is confirmed.  The daemon and its upgrade coordinator are    *)
(* external: their answers are a choice.                                   *)
(***************************************************************************)
EXTENDS McpTools, FiniteSets, Functions

CONSTANTS
    Ids,            \* JSON-RPC request identifiers of the MCP client: 1..n
    Menus,          \* what a client calls: sets of [tool, arg]
    Builds,         \* releases, ordered: 1..n
    FirstName,      \* the client's name in `initialize`
    FirstContext,   \* the context the host was launched in
    Unmanaged,      \* contexts reached by a raw WebSocket
    MaxPending,     \* 256 outstanding requests
    MaxEventWaits,  \* MAX_EVENT_WAITS
    QueueCap,       \* 64 inputs queued for the worker
    MaxTicket,      \* bound: requests of the client
    MaxCancel,      \* bound: cancellations
    MaxFault        \* bound: crashes, refused and closed connections

ASSUME McpAssumption ==
    /\ FirstName \in Names /\ FirstContext \in Contexts /\ Unmanaged \subseteq Contexts
    /\ \A r \in UNION Menus : r.tool \in Tools /\ r.arg \in ToolArgs(r.tool)
    /\ Builds \subseteq Nat \ {0} /\ 1 \in Builds
    /\ MaxPending \in Nat \ {0} /\ QueueCap \in Nat \ {0} /\ MaxEventWaits \in Nat
    /\ MaxTicket \in Nat /\ MaxCancel \in Nat /\ MaxFault \in Nat

VARIABLES
    menu, cancels,  \* the client: its calls, how often it has cancelled
    open,           \* the client's end of the stream
    nextTicket, pending, external, queued, flight, ckpt,        \* struct Host
    worker,         \* struct Worker: what the host knows of its child
    srv, active,    \* the child: its Server, its event waits
    input, output,  \* the lines between them
    task,           \* the activation beside the host loop
    statuses,       \* status calls beside the host loop
    events,         \* ManagementEvent channel
    draining,       \* dispatches a stopped or dead worker may still have sent
    nextKey,        \* fresh client identifiers
    answers,        \* ghost: what each ticket asked and was told
    ran,            \* ghost: mutations the daemon ran, with their idempotency key
    bare,           \* ghost: contexts a bare cursor was applied to
    faults

hostVars == <<menu, cancels, open, nextTicket, pending, external, queued, flight, ckpt, worker, answers>>
childVars == <<srv, active, input, output>>
taskVars == <<task, statuses, events>>
mcpVars == <<menu, cancels, open, nextTicket, pending, external, queued, flight, ckpt, worker, srv,
             active, input, output, task, statuses, events, draining, nextKey,
             answers, ran, bare, faults>>

---------------------------------------------------------------------------
(* The session and its checkpoint.                                         *)

CursorPolicy == {"InitialContext", "RequireContext"}

(* What a checkpoint holds: no connection, no request, no counter.         *)
SessionCheckpoint == [init : BOOLEAN, name : Names, ctx : Contexts, policy : CursorPolicy]

SessionConnection == {"Disconnected", "Connected", "Closed"}

(* A Server; `key` is the client identifier of its session's connection    *)
(* and stands for its cancellation token, `seq` counts its mutations.      *)
Server == [init : BOOLEAN, name : Names, ctx : Contexts, policy : CursorPolicy,
           link : SessionConnection, key : Nat, seq : Nat]

ServerNew == [init |-> FALSE, name |-> FirstName, ctx |-> FirstContext,
              policy |-> "InitialContext", link |-> "Disconnected", key |-> 0, seq |-> 0]

Checkpoint(s) == [init |-> s.init, name |-> s.name, ctx |-> s.ctx, policy |-> s.policy]

(* Mutant of FromCheckpoint: the cursor policy does not travel.            *)
ForgetsPolicy(c) == [init |-> c.init, name |-> c.name, ctx |-> c.ctx,
                     policy |-> "InitialContext", link |-> "Disconnected", key |-> 0,
                     seq |-> 0]

FromCheckpoint(c) == [init |-> c.init, name |-> c.name, ctx |-> c.ctx, policy |-> c.policy,
                      link |-> "Disconnected", key |-> 0, seq |-> 0]


(* A session replaces the one before it: dropping that one cancels its     *)
(* waits, and the new connection has a client identifier of its own.       *)
Session(s, link) == [s EXCEPT !.init = TRUE, !.link = link, !.key = nextKey, !.seq = 0]

---------------------------------------------------------------------------
(* Server::dispatch.  An outcome is the server afterwards, the reply, the  *)
(* mutation key the daemon ran, if any, whether the call became a wait and *)
(* whether it used up a fault.                                             *)

Outcome(s, reply) == [srv |-> s, reply |-> reply, run |-> {}, wait |-> FALSE, fault |-> FALSE]

MayFail == faults < MaxFault

Failing(o) == IF MayFail THEN {[o EXCEPT !.fault = TRUE]} ELSE {}

(* Connects for a new session, or leaves the server as it was.             *)
Connect(s, new) ==
    {Outcome(Session(new, "Connected"), "ok")} \cup Failing(Outcome(s, "error"))

EnsureConnected(s) ==
    IF ~s.init THEN {Outcome(s, "error")}
    ELSE IF s.link = "Connected" THEN {Outcome(s, "ok")}
    ELSE Connect(s, s)

Initialize(s, name) ==
    {Outcome(Session([s EXCEPT !.name = name], "Connected"), "ok")}
        \cup Failing(Outcome(Session([s EXCEPT !.name = name], "Disconnected"), "ok"))

(* GetIdentity answers without the daemon; SetIdentity negotiates first.   *)
CallSession(s, r) ==
    IF ~s.init THEN {Outcome(s, "error")}
    ELSE IF r.tool = "set_session_identity" THEN Connect(s, [s EXCEPT !.name = r.arg])
    ELSE {Outcome(s, "ok")}

(* Listing reads the configuration; Use connects before it switches.       *)
CallContext(s, r) ==
    IF ~s.init THEN {Outcome(s, "error")}
    ELSE IF r.tool = "use_context"
    THEN Connect(s, [s EXCEPT !.ctx = r.arg,
                              !.policy = IF r.arg = s.ctx THEN s.policy ELSE "RequireContext"])
    ELSE {Outcome(s, "ok")}

(* The daemon answers, or the connection closes under the call.            *)
CallQuery(s) ==
    {Outcome(s, "ok"), Outcome(s, "error")}
        \cup Failing(Outcome([s EXCEPT !.link = "Closed"], "error"))

(* Tools that look up their directory or their anchor with queries first:  *)
(* nothing is sent when a lookup fails.                                    *)
ReadsFirst == {"create_review", "add_comment", "suggest"}

(* Tools whose mutation resolves the review's targets after its event is   *)
(* appended: when that fails the client gets an error and the event stays. *)
ResolvesAfter == {"create_review", "update_review", "update_review_target",
                  "request_review", "ensure_directory_review"}

(* Every mutation takes the next sequence number of its connection.  When  *)
(* the connection closes, the daemon may have run it: the reply says so    *)
(* and the call is not tried again.  "unresolved" is the error of a call   *)
(* that ran; the client cannot tell it from one that did not.              *)
CallMutating(s, tool) ==
    LET sent == [s EXCEPT !.seq = s.seq + 1]
        ranIt == {<<s.key, s.seq + 1>>}
    IN  {[Outcome(sent, "ok") EXCEPT !.run = ranIt], Outcome(sent, "error")}
            \cup {Outcome(s, "error") : t \in ReadsFirst \cap {tool}}
            \cup {[Outcome(sent, "unresolved") EXCEPT !.run = ranIt] : t \in ResolvesAfter \cap {tool}}
            \cup UNION {Failing([Outcome([sent EXCEPT !.link = "Closed"], "uncertain")
                                    EXCEPT !.run = k]) : k \in {{}, ranIt}}

(* A named cursor must name the active context; a bare one belongs to the  *)
(* initial context and is refused after a switch.                          *)
SubscriptionSince(s, start) ==
    CASE start = "Live" -> TRUE
      [] start = "Bare" -> s.policy = "InitialContext"
      [] OTHER -> start = s.ctx

(* Two connections are made: the session's, if it needs one, and the       *)
(* wait's own.                                                             *)
PrepareWait(s, start) ==
    UNION {IF e.reply # "ok" THEN {e}
           ELSE IF ~SubscriptionSince(e.srv, start) THEN {Outcome(e.srv, "error")}
           ELSE {[Outcome(e.srv, "ok") EXCEPT !.wait = TRUE]}
                   \cup Failing(Outcome(e.srv, "error"))
           : e \in EnsureConnected(s)}

(* prepare_call by the class of the tool; an unknown tool is refused.      *)
PrepareCall(s, r) ==
    LET connected == EnsureConnected(s)
    IN  CASE Classify(r.tool) = "Query" ->
                UNION {IF e.reply # "ok" THEN {e} ELSE CallQuery(e.srv) : e \in connected}
          [] Classify(r.tool) = "Mutating" ->
                UNION {IF e.reply # "ok" THEN {e} ELSE CallMutating(e.srv, r.tool) : e \in connected}
          [] Classify(r.tool) = "EventWait" -> PrepareWait(s, r.arg)
          [] Classify(r.tool) = "Session" -> CallSession(s, r)
          [] Classify(r.tool) = "Context" -> CallContext(s, r)
          [] OTHER -> {Outcome(s, "error")}

Dispatch(s, r) ==
    CASE r.tool = "initialize" -> Initialize(s, r.arg)
      [] r.tool = "tools/list" -> {Outcome(s, "ok")}
      [] OTHER -> PrepareCall(s, r)

---------------------------------------------------------------------------
(* Steps of the worker process.                                            *)

Without(f, S) == Restrict(f, DOMAIN f \ S)

With(f, x, y) == [z \in DOMAIN f \cup {x} |-> IF z = x THEN y ELSE f[z]]

Line(e, t, s) == [event |-> e, ticket |-> t, reply |-> "none", ckpt |-> Checkpoint(s)]

Handled(t, reply, s) == [Line("Handled", t, s) EXCEPT !.reply = reply]

(* One dispatch, from reading its line to its answer or its wait.          *)
WorkerDispatch ==
    /\ worker.alive /\ input # <<>> /\ Head(input).type = "Dispatch"
    /\ LET m == Head(input) IN
       \E o \in Dispatch(srv, m.req) :
          LET full == o.wait /\ Cardinality(DOMAIN active) >= MaxEventWaits
              waits == o.wait /\ ~full
          IN  /\ srv' = o.srv
              /\ nextKey' = IF o.srv.key = nextKey THEN nextKey + 1 ELSE nextKey
              /\ ran' = ran \cup {<<m.ticket, k>> : k \in o.run}
              /\ bare' = IF o.wait /\ m.req.arg = "Bare" THEN bare \cup {o.srv.ctx} ELSE bare
              /\ faults' = IF o.fault THEN faults + 1 ELSE faults
              /\ active' = IF waits THEN With(active, m.ticket, o.srv.key) ELSE active
              /\ output' = IF waits THEN output
                           ELSE Append(output, Handled(m.ticket, IF full THEN "error" ELSE o.reply,
                                                       o.srv))
    /\ input' = Tail(input)
    /\ UNCHANGED <<hostVars, taskVars, draining>>

WorkerCancel ==
    /\ worker.alive /\ input # <<>> /\ Head(input).type = "Cancel"
    /\ active' = Without(active, {Head(input).ticket})
    /\ output' = Append(output, Line("Canceled", Head(input).ticket, srv))
    /\ input' = Tail(input)
    /\ UNCHANGED <<hostVars, taskVars, srv, draining, nextKey, ran, bare, faults>>

(* A wait ends with its events, at its timeout, or because the session it  *)
(* belongs to was replaced.                                                *)
WorkerWaitEnds(t) ==
    /\ worker.alive /\ t \in DOMAIN active
    /\ active' = Without(active, {t})
    /\ output' = Append(output, Handled(t, IF active[t] = srv.key THEN "ok" ELSE "error", srv))
    /\ UNCHANGED <<hostVars, taskVars, srv, input, draining, nextKey, ran, bare, faults>>

(* The daemon goes away under an idle connection.                          *)
ConnectionCloses ==
    /\ worker.alive /\ srv.link = "Connected" /\ MayFail
    /\ srv' = [srv EXCEPT !.link = "Closed"]
    /\ faults' = faults + 1
    /\ UNCHANGED <<hostVars, taskVars, active, input, output, draining, nextKey, ran, bare>>

(* The mutations among its first lines that a worker which is going away   *)
(* may still have sent, each with the key it carries.                      *)
Mutates(m) == m.type = "Dispatch" /\ Classify(m.req.tool) = "Mutating"
Leftover(length) ==
    LET base == IF srv.link = "Connected" THEN <<srv.key, srv.seq>> ELSE <<nextKey, 0>>
        rank(n) == Cardinality({k \in 1..n : Mutates(input[k])})
    IN  {<<input[n].ticket, <<base[1], base[2] + rank(n)>>>> :
            n \in {n \in 1..length : srv.init /\ Mutates(input[n])}}

(* The process dies.  What it was working on may already be on its way to  *)
(* the daemon; what it wrote can still be read.                            *)
WorkerDies ==
    /\ worker.alive /\ MayFail
    /\ worker' = [worker EXCEPT !.alive = FALSE]
    /\ draining' = draining \cup Leftover(IF input = <<>> THEN 0 ELSE 1)
    /\ nextKey' = IF srv.link = "Connected" THEN nextKey ELSE nextKey + 1
    /\ input' = <<>> /\ active' = << >>
    /\ faults' = faults + 1
    /\ UNCHANGED <<menu, cancels, open, nextTicket, pending, external, queued, flight, ckpt, answers, srv,
                   output, taskVars, ran, bare>>

(* A stopped worker finishes a dispatch it had read, or is killed first.   *)
OldWorkerRuns ==
    \E d \in draining :
        /\ ran' \in {ran, ran \cup {d}}
        /\ draining' = draining \ {d}
        /\ UNCHANGED <<hostVars, childVars, taskVars, nextKey, bare, faults>>

---------------------------------------------------------------------------
(* The host.  A handler composes several updates, so they are functions of *)
(* the host's state.                                                       *)

NoFlight == [stage |-> "None", requesters |-> {}]

NoTask == [pc |-> "Idle", from |-> Checkpoint(ServerNew), current |-> 0,
           policy |-> "RetainSameBuild", install |-> 0, verified |-> FALSE]

Host == [pending |-> pending, external |-> external, queued |-> queued, flight |-> flight,
         ckpt |-> ckpt, worker |-> worker, answers |-> answers, input |-> input,
         task |-> task, statuses |-> statuses]

Become(h) ==
    /\ pending' = h.pending /\ external' = h.external /\ queued' = h.queued
    /\ flight' = h.flight /\ ckpt' = h.ckpt /\ worker' = h.worker /\ answers' = h.answers
    /\ input' = h.input /\ task' = h.task /\ statuses' = h.statuses

(* Requests leave the host, each with the reply for its behaviour; only    *)
(* those to mutations are told apart, and a cancelled one gets none.       *)
Told(p, reply) ==
    IF p.canceled THEN "silent" ELSE IF p.behavior = "Mutation" THEN reply[p.behavior] ELSE "told"

CompleteAll(h, tickets, reply) ==
    LET done == tickets \cap DOMAIN h.pending
        freed == {i \in DOMAIN h.external :
                     LET t == h.external[i] IN
                        t \in done /\ h.pending[t].id = i /\ ~h.pending[t].canceled}
    IN  [h EXCEPT !.pending = Without(h.pending, done),
                  !.external = Without(h.external, freed),
                  !.answers = [t \in DOMAIN h.answers |->
                                  IF t \in done
                                  THEN [h.answers[t] EXCEPT !.reply = Told(h.pending[t], reply)]
                                  ELSE h.answers[t]]]

Always(reply) == [b \in ToolBehavior |-> reply]

Complete(h, t, reply) == CompleteAll(h, {t}, Always(reply))

(* Mutant of Barriers: sessions change while a worker is prepared.         *)
NoBarriers(h) == FALSE

(* A change of the session is on its way through the worker.               *)
Barriers(h) ==
    \E t \in DOMAIN h.pending :
        h.pending[t].owner = "Worker" /\ h.pending[t].behavior = "Session"

ReplacementPolicy(w) == IF w.running THEN "RetainSameBuild" ELSE "RepairWorker"

(* One flight serves all who ask for a restart before it is accepted.      *)
StartRestart(h, tickets) ==
    CASE tickets = {} -> h
      [] tickets # {} /\ h.flight.stage = "Preparing" ->
            [h EXCEPT !.flight = [stage |-> "Preparing",
                                  requesters |-> h.flight.requesters \cup tickets]]
      [] tickets # {} /\ h.flight.stage = "Accepted" -> CompleteAll(h, tickets, Always("ok"))
      [] OTHER ->
            [h EXCEPT !.flight = [stage |-> "Preparing", requesters |-> tickets],
                      !.task = [pc |-> "Prepare", from |-> h.ckpt, current |-> h.worker.build,
                                policy |-> ReplacementPolicy(h.worker), install |-> 0,
                                verified |-> FALSE]]

(* The management calls that have waited for a change of the session, all  *)
(* at once: their order makes no difference.                               *)
Due(h, call) == {q.ticket : q \in {w \in h.queued : w.call = call /\ w.ticket \in DOMAIN h.pending}}

StartQueued(h) ==
    IF Barriers(h) THEN h
    ELSE LET g == [h EXCEPT !.queued = {}] IN
         IF ~h.ckpt.init
         THEN CompleteAll(g, Due(h, "Status") \cup Due(h, "Restart"), Always("error"))
         ELSE StartRestart([g EXCEPT !.statuses = h.statuses \cup Due(h, "Status")], Due(h, "Restart"))

(* Mutant of InterruptReply: a mutation, too, is said to be repeatable.    *)
SafeToRetry == [b \in ToolBehavior |-> "interrupted"]

(* The answer to a request whose worker is gone.                           *)
InterruptReply == [b \in ToolBehavior |-> IF b = "Mutation" THEN "uncertain" ELSE "interrupted"]

InterruptWorkerRequests(h) ==
    CompleteAll(h, {t \in DOMAIN h.pending : h.pending[t].owner = "Worker"}, InterruptReply)

(* Worker::send.  Into a channel whose process has died the line vanishes  *)
(* or is refused.                                                          *)
CanSend(h) ==
    IF ~h.worker.running THEN {FALSE}
    ELSE IF ~h.worker.alive THEN BOOLEAN
    ELSE {Len(h.input) < QueueCap}

Send(h, m) == IF h.worker.alive THEN [h EXCEPT !.input = Append(@, m)] ELSE h

Route(tool) ==
    CASE tool = "initialize" -> "Session"
      [] tool = "unknown" -> "Mutation"
      [] OTHER -> Behavior(tool)

Owner(behavior) == IF behavior \in {"Status", "Upgrade"} THEN "Management" ELSE "Worker"

(* Refused while the session may move to another worker.                   *)
Refuses(h, behavior) ==
    \/ h.flight.stage # "None"
    \/ \E q \in h.queued : q.call = "Restart"
    \/ behavior = "Session" /\ h.queued # {}

DispatchRoute(h, t, r, sends) ==
    LET behavior == Route(r.tool) IN
    CASE Owner(behavior) = "Management" ->
            StartQueued([h EXCEPT !.queued = h.queued \cup
                {[ticket |-> t, call |-> IF behavior = "Status" THEN "Status" ELSE "Restart"]}])
      [] Owner(behavior) = "Worker" /\ (Refuses(h, behavior) \/ ~sends) ->
            Complete(h, t, "refused")
      [] OTHER -> Send(h, [type |-> "Dispatch", ticket |-> t, req |-> r])

(* A request.  A ping, a malformed call, an identifier still in use and a  *)
(* call over the limit are answered on the spot and change nothing.        *)
(* Identifiers are interchangeable: the client takes the least free one.   *)
Incoming(i, r) ==
    /\ open /\ nextTicket <= MaxTicket
    /\ r.tool # "ping" /\ i \notin DOMAIN external
    /\ \A j \in Ids : j < i => j \in DOMAIN external
    /\ Cardinality(DOMAIN pending) < MaxPending
    /\ LET b == Route(r.tool)
           h == [Host EXCEPT
                    !.external = With(external, i, nextTicket),
                    !.pending = With(pending, nextTicket,
                        [id |-> i, behavior |-> b, owner |-> Owner(b), canceled |-> FALSE]),
                    !.answers = With(answers, nextTicket,
                        [id |-> i, behavior |-> b, reply |-> "none"])]
       IN  \E sends \in CanSend(h) : Become(DispatchRoute(h, nextTicket, r, sends))
    /\ nextTicket' = nextTicket + 1
    /\ UNCHANGED <<menu, cancels, open, srv, active, output, events, draining, nextKey, ran, bare, faults>>

(* A cancellation frees the identifier at once; the worker hears of it,    *)
(* and a management call that has not started is dropped.                  *)
Cancel(i) ==
    /\ open /\ cancels < MaxCancel /\ i \in DOMAIN external
    /\ LET t == external[i]
           h == [Host EXCEPT !.external = Without(external, {i}),
                             !.pending = [pending EXCEPT ![t].canceled = TRUE]]
           waiting == \E q \in queued : q.ticket = t
       IN  IF pending[t].owner = "Worker"
           THEN \E sends \in CanSend(h) :
                    Become(IF sends THEN Send(h, [type |-> "Cancel", ticket |-> t,
                                                  req |-> [tool |-> "ping", arg |-> ""]])
                           ELSE h)
           ELSE Become(IF waiting
                       THEN [Complete(h, t, "silent") EXCEPT
                                !.queued = {q \in queued : q.ticket # t}]
                       ELSE h)
    /\ cancels' = cancels + 1
    /\ UNCHANGED <<menu, open, nextTicket, srv, active, output, events, draining, nextKey, ran,
                   bare, faults>>

(* A line of the worker: its checkpoint is the session's, then the reply.  *)
WorkerMessage ==
    /\ open /\ worker.running /\ output # <<>>
    /\ LET m == Head(output)
           h == [Host EXCEPT !.ckpt = m.ckpt]
       IN  Become(StartQueued(Complete(h, m.ticket, m.reply)))
    /\ output' = Tail(output)
    /\ UNCHANGED <<menu, cancels, open, nextTicket, srv, active, events, draining, nextKey, ran, bare, faults>>

(* Mutant of WorkerLost: what is queued behind it is not looked at again.  *)
LostOnly ==
    /\ open /\ worker.running /\ ~worker.alive /\ output = <<>>
    /\ Become(InterruptWorkerRequests([Host EXCEPT !.worker.running = FALSE]))
    /\ UNCHANGED <<menu, cancels, open, nextTicket, srv, active, output, events, draining,
                   nextKey, ran, bare, faults>>

(* The worker's output has ended.                                          *)
WorkerLost ==
    /\ open /\ worker.running /\ ~worker.alive /\ output = <<>>
    /\ Become(StartQueued(InterruptWorkerRequests([Host EXCEPT !.worker.running = FALSE])))
    /\ UNCHANGED <<menu, cancels, open, nextTicket, srv, active, output, events, draining, nextKey, ran, bare,
                   faults>>

---------------------------------------------------------------------------
(* The activation, a task beside the host loop.                            *)

Event(type, install) == [type |-> type, ticket |-> 0, install |-> install, from |-> task.from]

(* A failed activation keeps the worker; the prepared one is dropped.      *)
Finish(result) ==
    /\ events' = Append(events, Event("Finished", IF result = "failed" THEN 0 ELSE task.install))
    /\ task' = NoTask

(* The build installed here may not be older than the running worker's;    *)
(* the daemon's own candidate must speak the same protocol.  The new       *)
(* worker is spawned and restored here, beside the running one.            *)
PrepareReplacement ==
    /\ task.pc = "Prepare"
    /\ \/ /\ task.from.ctx \in Unmanaged
          /\ task' = [task EXCEPT !.pc = "Activate"]
          /\ UNCHANGED events
       \/ /\ task.from.ctx \notin Unmanaged
          /\ \E candidate \in Builds :
                /\ candidate >= task.current
                /\ task' = [task EXCEPT !.pc = "Activate", !.verified = TRUE,
                              !.install = IF candidate = task.current
                                             /\ task.policy = "RetainSameBuild"
                                          THEN 0 ELSE candidate]
          /\ UNCHANGED events
       \/ task.from.ctx \notin Unmanaged /\ Finish("failed")
    /\ UNCHANGED <<hostVars, childVars, statuses, draining, nextKey, ran, bare, faults>>

(* Activation::checked: the daemon must have activated the build that was  *)
(* verified.                                                               *)
Checked(result, same) == IF task.verified /\ ~same THEN "failed" ELSE result

(* The coordinator's answer (for an unmanaged context, a refusal).         *)
Activate ==
    /\ task.pc = "Activate"
    /\ \E answer \in IF task.verified THEN {"failed", "restarted", "accepted"} ELSE {"failed"} :
       \E same \in BOOLEAN :
          IF Checked(answer, same) = "accepted"
          THEN /\ events' = Append(events, Event("Accepted", 0))
               /\ task' = [task EXCEPT !.pc = "Monitor"]
          ELSE Finish(Checked(answer, same))
    /\ UNCHANGED <<hostVars, childVars, statuses, draining, nextKey, ran, bare, faults>>

(* monitor_decision on the journal's progress and on what now runs: the    *)
(* journal alone is not believed.                                          *)
MonitorDecision(progress, running) ==
    CASE progress = "Active" -> "pending"
      [] progress = "Failed" -> "failed"
      [] progress = "Ready" /\ running = "Target" -> "restarted"
      [] progress = "Ready" /\ running \in {"Other", "NotManaged"} -> "failed"
      [] OTHER -> "pending"

(* Polls until a decision; the budget runs out or a poll fails.            *)
Monitor ==
    /\ task.pc = "Monitor"
    /\ \/ \E progress \in {"Active", "Failed", "Ready"},
             running \in {"Target", "Other", "Stopped", "NotManaged"} :
             LET result == MonitorDecision(progress, running) IN
                /\ result # "pending"
                /\ Finish(result)
       \/ Finish("failed")
    /\ UNCHANGED <<hostVars, childVars, statuses, draining, nextKey, ran, bare, faults>>

(* A status call: asks the coordinator beside the host loop and combines   *)
(* its answer with the worker's state when the call was started.           *)
StatusCall ==
    /\ \E t \in statuses :
          /\ statuses' = statuses \ {t}
          /\ events' = Append(events, [type |-> "Status", ticket |-> t, install |-> 0,
                                       from |-> ckpt])
    /\ UNCHANGED <<hostVars, childVars, task, draining, nextKey, ran, bare, faults>>

(* Mutant of NextInput: the new worker gets what the old one had not read. *)
ReplaysQueue(m) == input

(* The new worker takes over; the old one answers nobody any more.         *)
NextInput(m) == IF m.install = 0 THEN input ELSE <<>>

(* A management event, then whatever was waiting for it.                   *)
ManagementMessage ==
    /\ open /\ events # <<>>
    /\ LET m == Head(events)
           swapped == [Host EXCEPT !.worker = [running |-> TRUE, alive |-> TRUE,
                                               build |-> m.install],
                                   !.input = NextInput(m)]
           h == IF m.install = 0 THEN Host ELSE InterruptWorkerRequests(swapped)
       IN  /\ Become(StartQueued(
                 CASE m.type = "Status" -> Complete(h, m.ticket, "ok")
                   [] m.type = "Accepted" ->
                        [CompleteAll(h, h.flight.requesters, Always("ok")) EXCEPT
                            !.flight = [stage |-> "Accepted", requesters |-> {}]]
                   [] OTHER ->
                        [CompleteAll(h, h.flight.requesters, Always("ok")) EXCEPT
                            !.flight = NoFlight]))
           /\ IF m.install = 0
              THEN UNCHANGED <<srv, active, output, draining, nextKey>>
              ELSE /\ srv' = FromCheckpoint(m.from)
                   /\ active' = << >> /\ output' = <<>>
                   /\ draining' = IF worker.alive THEN draining \cup Leftover(Len(input)) ELSE draining
                   /\ nextKey' = IF srv.link = "Connected" THEN nextKey ELSE nextKey + 1
    /\ events' = Tail(events)
    /\ UNCHANGED <<menu, cancels, open, nextTicket, ran, bare, faults>>

(* The client closes its end: tasks are aborted, the worker is stopped and *)
(* the history of this host ends.                                          *)
HostEnds ==
    /\ open /\ open' = FALSE
    /\ pending' = << >> /\ external' = << >> /\ queued' = {} /\ flight' = NoFlight
    /\ worker' = [running |-> FALSE, alive |-> FALSE, build |-> 1]
    /\ task' = NoTask /\ statuses' = {} /\ events' = <<>>
    /\ draining' = {}
    /\ srv' = ServerNew /\ active' = << >> /\ input' = <<>> /\ output' = <<>>
    /\ ckpt' = Checkpoint(ServerNew) /\ answers' = << >> /\ ran' = {} /\ bare' = {}
    /\ nextTicket' = 1 /\ nextKey' = 1 /\ faults' = 0 /\ cancels' = 0 /\ UNCHANGED menu

---------------------------------------------------------------------------
(* The client's handshake has been served.                                 *)
Begun == [ServerNew EXCEPT !.init = TRUE, !.link = "Connected"]

(* A host that has just started, or one whose client has said who it is.   *)
McpInit ==
    /\ menu \in Menus /\ cancels = 0
    /\ open = TRUE /\ nextTicket = 1
    /\ pending = << >> /\ external = << >> /\ queued = {} /\ flight = NoFlight
    /\ srv \in {FromCheckpoint(Checkpoint(ServerNew)), Begun}
    /\ ckpt = Checkpoint(srv)
    /\ worker = [running |-> TRUE, alive |-> TRUE, build |-> 1]
    /\ active = << >>
    /\ input = <<>> /\ output = <<>>
    /\ task = NoTask /\ statuses = {} /\ events = <<>>
    /\ draining = {} /\ nextKey = 1
    /\ answers = << >> /\ ran = {} /\ bare = {} /\ faults = 0

ActivationStep == PrepareReplacement \/ Activate \/ Monitor

McpNext ==
    \/ \E i \in Ids, r \in menu : Incoming(i, r)
    \/ \E i \in Ids : Cancel(i)
    \/ WorkerDispatch \/ WorkerCancel \/ \E t \in 1..MaxTicket : WorkerWaitEnds(t)
    \/ ConnectionCloses \/ WorkerDies \/ OldWorkerRuns
    \/ WorkerMessage \/ WorkerLost \/ ManagementMessage
    \/ ActivationStep \/ StatusCall
    \/ HostEnds

McpSpec == McpInit /\ [][McpNext]_mcpVars

---------------------------------------------------------------------------
(* While no change of the session is on its way, the worker's session is   *)
(* the host's checkpoint, and so is the one a prepared worker starts from: *)
(* a swap or a repair loses no identity, context or cursor policy the      *)
(* client was given (supervisor.rs, barriers and activate).                *)
SessionKept ==
    /\ open /\ worker.alive /\ ~Barriers(Host) => Checkpoint(srv) = ckpt
    /\ task.pc # "Idle" => task.from = ckpt
    /\ \A k \in DOMAIN events : events[k].install # 0 => events[k].from = ckpt

(* What a client was told of a mutation is true: one that ran was answered *)
(* with success or doubt, one answered with success ran, and one refused,  *)
(* or answered with any other error, never runs (supervisor.rs:871 and the *)
(* "not forwarded" replies).  The exception is a tool that resolves its    *)
(* targets after its event is written: the error of that resolution is     *)
(* given for a mutation that did run (review.rs:292-300).                  *)
TruthfulOutcome ==
    /\ \A r \in ran : answers[r[1]].reply \in {"none", "ok", "unresolved", "uncertain", "silent"}
    /\ \A t \in DOMAIN answers :
          answers[t].behavior = "Mutation" /\ answers[t].reply \in {"ok", "unresolved"} =>
              \E r \in ran : r[1] = t

(* No worker replays what another was given, and no two mutations share an *)
(* idempotency key, although every connection counts from one again        *)
(* (server.rs:213, "use a fresh daemon client ID").                        *)
RanOnce ==
    \A q, r \in ran : q[1] = r[1] \/ q[2] = r[2] => q = r

(* A cursor without a context is only ever applied to the context the      *)
(* session started in, also after the session has moved to another worker  *)
(* (checkpoint.rs, CursorPolicy).                                          *)
CursorsBelong == bare \subseteq {FirstContext}

(* A reply goes to the last request made under its identifier: a           *)
(* cancelled request does not answer the one that reused its identifier    *)
(* (worker.rs:17, "Reusing a host ID cannot collect an old reply").        *)
ReplyStep ==
    \A t \in DOMAIN answers \cap DOMAIN answers' :
        answers[t].reply = "none" /\ answers'[t].reply \notin {"none", "silent"} =>
            \A u \in DOMAIN answers : answers[u].id = answers[t].id => u <= t

NoStaleReply == [][ReplyStep]_mcpVars

(* Nobody waits for nobody: when the worker, its waits, the activation and *)
(* the event channel have nothing left to do, every request has been       *)
(* answered or, once cancelled, forgotten, whatever died, was swapped or   *)
(* failed to restart (supervisor.rs, start_queued after every message).    *)
NothingStuck ==
    /\ input = <<>> /\ output = <<>> /\ DOMAIN active = {}
    /\ events = <<>> /\ task.pc = "Idle" /\ statuses = {}
    /\ worker.running => worker.alive
    => DOMAIN pending = {} /\ DOMAIN external = {} /\ queued = {} /\ flight = NoFlight

=============================================================================
