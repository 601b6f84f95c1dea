----------------------------- MODULE McpProofs -----------------------------
(***************************************************************************)
(* Proofs about McpHost for any number of requests, identifiers, tools and *)
(* faults: the session survives its workers, replies are true, nothing     *)
(* runs twice, cursors stay with their context and nobody waits for        *)
(* nobody.                                                                 *)
(*                                                                         *)
(* A handler of the host is a composition of functions on the record of    *)
(* its state, so the parts of the invariant are predicates of such a       *)
(* record and each function is shown to preserve them.                     *)
(***************************************************************************)
EXTENDS McpHost, FiniteSetTheorems, TLAPS

---------------------------------------------------------------------------
(* The inductive invariant.                                                *)

Pendings == [id : Ids, behavior : ToolBehavior, owner : {"Worker", "Management"},
             canceled : BOOLEAN]
Replies == {"none", "ok", "unresolved", "error", "uncertain", "refused", "interrupted", "silent", "told"}
Answers == [id : Ids, behavior : ToolBehavior, reply : Replies]
Requests == (UNION Menus) \cup {[tool |-> "ping", arg |-> ""]}
InputLines == [type : {"Dispatch", "Cancel"}, ticket : Nat, req : Requests]
OutputLines == [event : {"Handled", "Canceled"}, ticket : Nat, reply : Replies,
                ckpt : SessionCheckpoint]
Policies == {"RetainSameBuild", "RepairWorker"}
Tasks == [pc : {"Idle", "Prepare", "Activate", "Monitor"}, from : SessionCheckpoint,
          current : Nat, policy : Policies, install : Nat, verified : BOOLEAN]
Messages == [type : {"Status", "Accepted", "Finished"}, ticket : Nat, install : Nat,
             from : SessionCheckpoint]
Flights == [stage : {"None", "Preparing", "Accepted"}, requesters : SUBSET Nat]
Workers == [running : BOOLEAN, alive : BOOLEAN, build : Nat]
Runs == Nat \X (Nat \X Nat)

(* The fields of Host.                                                     *)
IsHost(h) ==
    h = [pending |-> h.pending, external |-> h.external, queued |-> h.queued,
         flight |-> h.flight, ckpt |-> h.ckpt, worker |-> h.worker, answers |-> h.answers,
         input |-> h.input, task |-> h.task, statuses |-> h.statuses]

(* A state of the host that has given out the tickets below n.             *)
HostTyped(h, n) ==
    /\ n \in Nat \ {0}
    /\ IsHost(h)
    /\ h.pending \in [DOMAIN h.pending -> Pendings] /\ DOMAIN h.pending \subseteq 1..(n - 1)
    /\ h.external \in [DOMAIN h.external -> Nat]
    /\ h.answers \in [1..(n - 1) -> Answers]
    /\ h.queued \subseteq [ticket : Nat, call : {"Status", "Restart"}]
    /\ h.flight \in Flights /\ h.ckpt \in SessionCheckpoint /\ h.worker \in Workers
    /\ h.input \in Seq(InputLines) /\ h.task \in Tasks /\ h.statuses \subseteq Nat

McpTyped ==
    /\ HostTyped(Host, nextTicket)
    /\ srv \in Server /\ active \in [DOMAIN active -> Nat] /\ output \in Seq(OutputLines)
    /\ events \in Seq(Messages)
    /\ draining \subseteq Runs /\ ran \subseteq Runs /\ nextKey \in Nat \ {0}
    /\ faults \in Nat /\ menu \in Menus

(* Tickets and identifiers.  An identifier in use names the request that   *)
(* was made last under it.                                                 *)
Tickets(h) ==
    /\ \A t \in DOMAIN h.pending :
          /\ h.pending[t].owner = Owner(h.pending[t].behavior)
          /\ h.answers[t].id = h.pending[t].id
          /\ h.answers[t].behavior = h.pending[t].behavior
          /\ h.answers[t].reply = "none"
    /\ \A i \in DOMAIN h.external :
          /\ h.external[i] \in DOMAIN h.pending
          /\ h.pending[h.external[i]].id = i /\ ~h.pending[h.external[i]].canceled
    /\ \A t \in DOMAIN h.pending :
          ~h.pending[t].canceled =>
              /\ h.pending[t].id \in DOMAIN h.external /\ h.external[h.pending[t].id] = t
              /\ \A u \in DOMAIN h.answers : h.answers[u].id = h.pending[t].id => u <= t

(* Management calls: where each of them is, and what keeps them waiting.   *)
Managed(h, t) == t \in DOMAIN h.answers /\ Owner(h.answers[t].behavior) = "Management"
InQueue(h, t) == \E q \in h.queued : q.ticket = t
Reported(ev, t) == \E k \in DOMAIN ev : ev[k].type = "Status" /\ ev[k].ticket = t
Looked(h, ev, t) ==
    InQueue(h, t) \/ t \in h.statuses \/ t \in h.flight.requesters \/ Reported(ev, t)
Held(h, ev) ==
    /\ \A t \in Nat : Looked(h, ev, t) => Managed(h, t)
    /\ \A t \in DOMAIN h.pending : h.pending[t].owner = "Management" => Looked(h, ev, t)
Management(h, ev) == Held(h, ev) /\ (h.queued # {} => Barriers(h))

(* A flight is the activation or its result on the way, and nothing        *)
(* changes the session while there is one.                                 *)
Flying(h, ev) ==
    /\ h.flight.stage = "None" => h.flight.requesters = {}
    /\ h.flight.stage # "None" => ~Barriers(h)
    /\ h.task.pc # "Idle" =>
          /\ h.flight.stage # "None" /\ h.task.from = h.ckpt
          /\ \A k \in DOMAIN ev : ev[k].type # "Finished"
    /\ h.flight.stage # "None" =>
          h.task.pc # "Idle" \/ \E k \in DOMAIN ev : ev[k].type = "Finished"
    /\ \A k \in DOMAIN ev :
          /\ ev[k].type # "Status" => h.flight.stage # "None"
          /\ ev[k].install # 0 => ev[k].type = "Finished" /\ ev[k].from = h.ckpt
          /\ ev[k].type = "Finished" => \A j \in DOMAIN ev : j > k => ev[j].type = "Status"

(* A request to the worker is in one place: a line to it, one of its       *)
(* waits, a line from it.                                                  *)
Sent(h, t) == \E k \in DOMAIN h.input : h.input[k].type = "Dispatch" /\ h.input[k].ticket = t
Answered(out, t) == \E k \in DOMAIN out : out[k].event = "Handled" /\ out[k].ticket = t
Stopped(out, t) == \E k \in DOMAIN out : out[k].event = "Canceled" /\ out[k].ticket = t
Working(h, t) == t \in DOMAIN h.pending /\ h.pending[t].owner = "Worker"
Forgotten(h, t) ==
    /\ t \in DOMAIN h.answers /\ Owner(h.answers[t].behavior) = "Worker"
    /\ t \in DOMAIN h.pending => h.pending[t].canceled

Link(h, out) ==
    /\ h.worker.alive => h.worker.running
    /\ ~h.worker.alive => h.input = <<>>
    /\ ~h.worker.running => out = <<>>

Lines(h, act, out) ==
    /\ ~h.worker.alive => act = {}
    /\ \A k \in DOMAIN h.input :
          h.input[k].type = "Dispatch" =>
              /\ Working(h, h.input[k].ticket)
              /\ h.pending[h.input[k].ticket].behavior = Route(h.input[k].req.tool)
    /\ \A t \in act : Working(h, t) /\ h.pending[t].behavior = "Wait"
    /\ \A t \in Nat : Answered(out, t) => Working(h, t)

OnePlace(h, act, out) ==
    /\ \A j, k \in DOMAIN h.input :
          h.input[j].type = "Dispatch" /\ h.input[k].type = "Dispatch"
              /\ h.input[j].ticket = h.input[k].ticket => j = k
    /\ \A t \in Nat : Sent(h, t) => t \notin act /\ ~Answered(out, t)
    /\ \A t \in act : ~Answered(out, t)
    /\ \A j, k \in DOMAIN out :
          out[j].event = "Handled" /\ out[k].event = "Handled"
              /\ out[j].ticket = out[k].ticket => j = k

(* A cancellation follows what it cancels.                                 *)
Cancels(h, act, out) ==
    /\ \A k \in DOMAIN h.input :
          h.input[k].type = "Cancel" =>
              /\ Forgotten(h, h.input[k].ticket)
              /\ \A j \in DOMAIN h.input :
                    j > k /\ h.input[j].type = "Dispatch" => h.input[j].ticket # h.input[k].ticket
    /\ \A k \in DOMAIN out :
          out[k].event = "Canceled" =>
              /\ Forgotten(h, out[k].ticket)
              /\ ~Sent(h, out[k].ticket) /\ out[k].ticket \notin act
              /\ \A j \in DOMAIN out :
                    j > k /\ out[j].event = "Handled" => out[j].ticket # out[k].ticket

(* Every request to the worker is somewhere, as long as the worker lives.  *)
Somewhere(h, act, out) ==
    \A t \in DOMAIN h.pending :
        h.pending[t].owner = "Worker" =>
            /\ h.worker.running
            /\ h.worker.alive => Sent(h, t) \/ t \in act \/ Answered(out, t) \/ Stopped(out, t)

(* Between two lines of the worker the session changed only if the answer  *)
(* to a request that changes it is among them, and that one is pending.    *)
Changes(h, m) ==
    /\ m.event = "Handled" /\ m.ticket \in DOMAIN h.pending
    /\ h.pending[m.ticket].owner = "Worker" /\ h.pending[m.ticket].behavior = "Session"
At(h, out, i) == IF i = 0 THEN h.ckpt ELSE out[i].ckpt
Unchanged(h, out, i, j, c) ==
    At(h, out, i) = c \/ \E k \in (i + 1)..j : Changes(h, out[k])
Sessions(h, out, s) ==
    /\ \A i, j \in 0..Len(out) : i <= j => Unchanged(h, out, i, j, At(h, out, j))
    /\ h.worker.alive => \A i \in 0..Len(out) : Unchanged(h, out, i, Len(out), Checkpoint(s))

(* What ran (did) or may still run (may), under which ticket.              *)
Began(did, t) == \E r \in did : r[1] = t
Begins(did, may, t) == Began(did, t) \/ Began(may, t)
Open == {"none", "ok", "unresolved", "uncertain", "silent"}
Truths(h, out, did, may) ==
    /\ \A t \in Nat : Begins(did, may, t) =>
          /\ t \in DOMAIN h.answers /\ h.answers[t].behavior = "Mutation"
          /\ h.answers[t].reply \in Open
    /\ \A t \in Nat : Sent(h, t) => ~Begins(did, may, t)
    /\ \A k \in DOMAIN out :
          LET t == out[k].ticket IN
          out[k].event = "Handled" /\ h.answers[t].behavior = "Mutation" =>
              /\ out[k].reply \in {"ok", "unresolved", "error", "uncertain"}
              /\ out[k].reply \in {"ok", "unresolved"} => Began(did, t)
              /\ out[k].reply = "error" => ~Begins(did, may, t)
    /\ \A t \in DOMAIN h.answers :
          h.answers[t].behavior = "Mutation" /\ h.answers[t].reply \in {"ok", "unresolved"} => Began(did, t)

(* What concerns the worker.                                               *)
Work(h, act, out, s, did, may) ==
    /\ Link(h, out) /\ Lines(h, act, out) /\ OnePlace(h, act, out) /\ Cancels(h, act, out)
    /\ Somewhere(h, act, out) /\ Sessions(h, out, s)
    /\ Truths(h, out, did, may)

(* The keys under which it ran or may run.                                 *)
Keys ==
    /\ \A q, r \in ran \cup draining : q[1] = r[1] \/ q[2] = r[2] => q = r
    /\ \A d \in ran \cup draining : d[2][1] < nextKey
    /\ srv.key < nextKey
    /\ worker.alive /\ srv.link = "Connected" =>
          \A d \in ran \cup draining : d[2][1] = srv.key => d[2][2] <= srv.seq

(* A session that takes bare cursors is in its first context.              *)
Initial(c) == c.policy = "InitialContext" => c.ctx = FirstContext
Cursors ==
    /\ bare \subseteq {FirstContext}
    /\ Initial(srv) /\ Initial(ckpt) /\ \A k \in DOMAIN output : Initial(output[k].ckpt)

McpInv ==
    /\ McpTyped /\ Tickets(Host) /\ Management(Host, events) /\ Flying(Host, events)
    /\ Work(Host, DOMAIN active, output, srv, ran, draining) /\ Keys /\ Cursors

---------------------------------------------------------------------------
(* The functions of the host.                                              *)

(* g is h without the requests T, which have been told their replies.      *)
Leaves(h, g, T, reply) ==
    /\ DOMAIN g.pending = DOMAIN h.pending \ T
    /\ \A t \in DOMAIN g.pending : g.pending[t] = h.pending[t]
    /\ \A i : i \in DOMAIN g.external <=>
                 /\ i \in DOMAIN h.external
                 /\ ~ (/\ h.external[i] \in T /\ h.external[i] \in DOMAIN h.pending
                       /\ h.pending[h.external[i]].id = i
                       /\ ~h.pending[h.external[i]].canceled)
    /\ \A i \in DOMAIN g.external : g.external[i] = h.external[i]
    /\ DOMAIN g.answers = DOMAIN h.answers
    /\ \A t \in DOMAIN h.answers :
          /\ g.answers[t].id = h.answers[t].id /\ g.answers[t].behavior = h.answers[t].behavior
          /\ t \in T /\ t \in DOMAIN h.pending => g.answers[t].reply = Told(h.pending[t], reply)
          /\ t \notin T \/ t \notin DOMAIN h.pending => g.answers[t].reply = h.answers[t].reply

(* The parts of the host that completing a request leaves alone.           *)
Keeps(h, g) ==
    /\ g.queued = h.queued /\ g.flight = h.flight /\ g.ckpt = h.ckpt /\ g.worker = h.worker
    /\ g.input = h.input /\ g.task = h.task /\ g.statuses = h.statuses

ReplyTable == [ToolBehavior -> Replies]

(* The replies in use are replies.                                         *)
LEMMA ReplyTables ==
    /\ \A r \in Replies : Always(r) \in ReplyTable /\ Always(r)["Mutation"] = r
    /\ InterruptReply \in ReplyTable /\ InterruptReply["Mutation"] = "uncertain"
    BY DEF ReplyTable, Always, InterruptReply, Replies, ToolBehavior

(* complete takes the request away, frees its identifier and says the      *)
(* reply.                                                                  *)
LEMMA Completes ==
    ASSUME NEW n, NEW h, HostTyped(h, n), NEW T, NEW reply \in ReplyTable
    PROVE  LET g == CompleteAll(h, T, reply)
           IN  HostTyped(g, n) /\ Leaves(h, g, T, reply) /\ Keeps(h, g)
<1> DEFINE done == T \cap DOMAIN h.pending
           freed == {i \in DOMAIN h.external :
                        LET t == h.external[i] IN
                           t \in done /\ h.pending[t].id = i /\ ~h.pending[t].canceled}
           pend == [t \in DOMAIN h.pending \ done |-> h.pending[t]]
           ext == [i \in DOMAIN h.external \ freed |-> h.external[i]]
           ans == [t \in DOMAIN h.answers |->
                      IF t \in done
                      THEN [h.answers[t] EXCEPT !.reply = Told(h.pending[t], reply)]
                      ELSE h.answers[t]]
           g == CompleteAll(h, T, reply)
<1>1. g = [h EXCEPT !.pending = pend, !.external = ext, !.answers = ans]
  BY DEF CompleteAll, Without, Restrict
<1>2. g.pending = pend /\ g.external = ext /\ g.answers = ans /\ Keeps(h, g) /\ IsHost(g)
  <2>1. IsHost(h)
    BY DEF HostTyped
  <2> HIDE DEF g, pend, ext, ans
  <2> QED BY <1>1, <2>1 DEF IsHost, Keeps
<1>3. DOMAIN h.answers = 1..(n - 1) /\ \A t \in DOMAIN h.pending : t \in DOMAIN h.answers
  BY DEF HostTyped
<1>4. ASSUME NEW t \in DOMAIN h.pending PROVE Told(h.pending[t], reply) \in Replies
  <2>1. h.pending[t].behavior \in ToolBehavior
    BY DEF HostTyped, Pendings
  <2>2. reply[h.pending[t].behavior] \in Replies
    BY <2>1 DEF ReplyTable
  <2> QED BY <2>2 DEF Told, Replies
<1>5. ASSUME NEW t \in DOMAIN h.answers
      PROVE  /\ ans[t] \in Answers
             /\ ans[t].id = h.answers[t].id /\ ans[t].behavior = h.answers[t].behavior
             /\ t \in done => ans[t].reply = Told(h.pending[t], reply)
             /\ t \notin done => ans[t].reply = h.answers[t].reply
  <2>1. h.answers[t] \in Answers
    BY DEF HostTyped
  <2> QED BY <2>1, <1>4 DEF Answers
<1>6. Leaves(h, g, T, reply)
  <2>1. DOMAIN ans = DOMAIN h.answers
    OBVIOUS
  <2>2. /\ DOMAIN pend = DOMAIN h.pending \ T
        /\ \A t \in DOMAIN pend : pend[t] = h.pending[t]
    OBVIOUS
  <2>3. /\ \A i : i \in DOMAIN ext <=> i \in DOMAIN h.external /\ i \notin freed
        /\ \A i \in DOMAIN ext : ext[i] = h.external[i]
    OBVIOUS
  <2> HIDE DEF g, pend, ext, ans
  <2> QED BY <1>2, <1>3, <1>5, <2>1, <2>2, <2>3 DEF Leaves
<1>7. HostTyped(g, n)
  <2>1. pend \in [DOMAIN pend -> Pendings] /\ DOMAIN pend \subseteq 1..(n - 1)
    BY DEF HostTyped
  <2>2. ext \in [DOMAIN ext -> Nat]
    BY DEF HostTyped
  <2>3. ans \in [1..(n - 1) -> Answers]
    BY <1>3, <1>5
  <2> HIDE DEF g, pend, ext, ans
  <2> QED BY <2>1, <2>2, <2>3, <1>2 DEF HostTyped, Keeps
<1> QED BY <1>2, <1>6, <1>7

(* What of the host concerns its worker is the same in h and g.            *)
SameWork(h, g) ==
    /\ g.worker = h.worker /\ g.input = h.input /\ g.ckpt = h.ckpt
    /\ DOMAIN g.answers = DOMAIN h.answers
    /\ \A t \in DOMAIN h.answers :
          /\ g.answers[t].behavior = h.answers[t].behavior
          /\ Owner(h.answers[t].behavior) = "Worker" => g.answers[t].reply = h.answers[t].reply
    /\ \A t : Working(g, t) <=> Working(h, t)
    /\ \A t : Working(h, t) => g.pending[t] = h.pending[t]

(* Requests leave the host one by one; the rest of the tickets still fits. *)
LEMMA TicketsLeave ==
    ASSUME NEW n, NEW h, NEW g, HostTyped(h, n), HostTyped(g, n), NEW T, NEW reply,
           Leaves(h, g, T, reply), Tickets(h)
    PROVE  Tickets(g)
<1>1. \A t \in DOMAIN g.pending : t \in DOMAIN h.pending /\ t \notin T /\ g.pending[t] = h.pending[t]
  BY DEF Leaves
<1>2. \A t \in DOMAIN h.pending : t \in DOMAIN h.answers
  BY DEF HostTyped
<1>3. ASSUME NEW t \in DOMAIN g.pending
      PROVE  /\ g.pending[t].owner = Owner(g.pending[t].behavior)
             /\ g.answers[t].id = g.pending[t].id
             /\ g.answers[t].behavior = g.pending[t].behavior
             /\ g.answers[t].reply = "none"
  BY <1>1, <1>2 DEF Leaves, Tickets
<1>4. ASSUME NEW i \in DOMAIN g.external
      PROVE  /\ g.external[i] \in DOMAIN g.pending
             /\ g.pending[g.external[i]].id = i /\ ~g.pending[g.external[i]].canceled
  <2>1. i \in DOMAIN h.external /\ g.external[i] = h.external[i]
    BY DEF Leaves
  <2>2. /\ h.external[i] \in DOMAIN h.pending
        /\ h.pending[h.external[i]].id = i /\ ~h.pending[h.external[i]].canceled
    BY <2>1 DEF Tickets
  <2>3. h.external[i] \notin T
    BY <2>1, <2>2 DEF Leaves
  <2> QED BY <2>1, <2>2, <2>3 DEF Leaves
<1>5. ASSUME NEW t \in DOMAIN g.pending, ~g.pending[t].canceled
      PROVE  /\ g.pending[t].id \in DOMAIN g.external /\ g.external[g.pending[t].id] = t
             /\ \A u \in DOMAIN g.answers : g.answers[u].id = g.pending[t].id => u <= t
  <2>1. /\ t \in DOMAIN h.pending /\ t \notin T /\ g.pending[t] = h.pending[t]
        /\ ~h.pending[t].canceled
    BY <1>1, <1>5
  <2>2. /\ h.pending[t].id \in DOMAIN h.external /\ h.external[h.pending[t].id] = t
        /\ \A u \in DOMAIN h.answers : h.answers[u].id = h.pending[t].id => u <= t
    BY <2>1 DEF Tickets
  <2> QED BY <2>1, <2>2 DEF Leaves
<1> QED BY <1>3, <1>4, <1>5 DEF Tickets

(* Completing management calls is no concern of the worker.                *)
LEMMA ManagedLeave ==
    ASSUME NEW n, NEW h, NEW g, HostTyped(h, n), Tickets(h), NEW T, NEW reply,
           Leaves(h, g, T, reply), Keeps(h, g), \A t \in T : Managed(h, t)
    PROVE  SameWork(h, g)
<1>1. \A t \in T : t \in DOMAIN h.pending => h.pending[t].owner # "Worker"
  BY DEF Managed, Tickets, Owner
<1>2. \A t \in T : t \in DOMAIN h.answers /\ Owner(h.answers[t].behavior) # "Worker"
  BY DEF Managed
<1> QED BY <1>1, <1>2 DEF SameWork, Leaves, Keeps, Working

(* Whether a change of the session is on its way is the worker's concern.  *)
LEMMA SameBarriers ==
    ASSUME NEW h, NEW g, SameWork(h, g)
    PROVE  Barriers(g) <=> Barriers(h)
<1>1. \A t : Working(g, t) <=> Working(h, t)
  BY DEF SameWork
<1>2. \A t : Working(h, t) => g.pending[t] = h.pending[t]
  BY DEF SameWork
<1>3. \A t : Working(h, t) <=> t \in DOMAIN h.pending /\ h.pending[t].owner = "Worker"
  BY DEF Working
<1>4. \A t : Working(g, t) <=> t \in DOMAIN g.pending /\ g.pending[t].owner = "Worker"
  BY DEF Working
<1> QED BY <1>1, <1>2, <1>3, <1>4 DEF Barriers

(* g is h after start_queued.                                              *)
Started(h, g) ==
    /\ \A t \in DOMAIN g.pending : t \in DOMAIN h.pending /\ g.pending[t] = h.pending[t]
    /\ DOMAIN g.answers = DOMAIN h.answers
    /\ \A t \in DOMAIN h.answers : g.answers[t].behavior = h.answers[t].behavior
    /\ Barriers(h) => g = h
    /\ ~Barriers(h) => g.queued = {}
    /\ \A t \in Nat : t \in h.statuses => t \in g.statuses
    /\ \A t \in Nat : t \in h.flight.requesters => t \in g.flight.requesters
    /\ \A t \in Nat : t \in g.statuses => t \in h.statuses \/ InQueue(h, t)
    /\ \A t \in Nat : t \in g.flight.requesters => t \in h.flight.requesters \/ InQueue(h, t)
    /\ \A t \in Nat : InQueue(g, t) => InQueue(h, t)
    /\ \A t \in DOMAIN g.pending :
          InQueue(h, t) => InQueue(g, t) \/ t \in g.statuses \/ t \in g.flight.requesters
    /\ \/ /\ g.task = h.task /\ g.flight.stage = h.flight.stage
          /\ g.flight.stage = "None" => g.flight = h.flight
       \/ /\ ~Barriers(h) /\ h.flight.stage = "None" /\ g.flight.stage # "None"
          /\ g.task.pc # "Idle" /\ g.task.from = h.ckpt

(* The fields of a state of the host.                                      *)
Fields == {"pending", "external", "queued", "flight", "ckpt", "worker", "answers", "input",
           "task", "statuses"}
(* A state of the host has these fields.                                   *)
LEMMA HostFields ==
    ASSUME NEW h, IsHost(h)
    PROVE  DOMAIN h = Fields
    BY DEF IsHost, Fields

(* The host with other calls in its queue.                                 *)
LEMMA OtherQueue ==
    ASSUME NEW h, IsHost(h), NEW Q
    PROVE  LET g == [h EXCEPT !.queued = Q]
           IN  /\ IsHost(g) /\ g.queued = Q
               /\ g.pending = h.pending /\ g.external = h.external /\ g.answers = h.answers
               /\ g.ckpt = h.ckpt /\ g.worker = h.worker /\ g.input = h.input
               /\ g.flight = h.flight /\ g.task = h.task /\ g.statuses = h.statuses
<1>1. DOMAIN h = Fields
  BY HostFields
<1> QED BY <1>1 DEF IsHost, Fields

(* The host with other status calls under way.                             *)
LEMMA OtherStatuses ==
    ASSUME NEW h, IsHost(h), NEW S
    PROVE  LET g == [h EXCEPT !.statuses = S]
           IN  /\ IsHost(g) /\ g.statuses = S
               /\ g.pending = h.pending /\ g.external = h.external /\ g.answers = h.answers
               /\ g.ckpt = h.ckpt /\ g.worker = h.worker /\ g.input = h.input
               /\ g.flight = h.flight /\ g.task = h.task /\ g.queued = h.queued
<1>1. DOMAIN h = Fields
  BY HostFields
<1> QED BY <1>1 DEF IsHost, Fields

(* The host with another flight.                                           *)
LEMMA OtherFlight ==
    ASSUME NEW h, IsHost(h), NEW f
    PROVE  LET g == [h EXCEPT !.flight = f]
           IN  /\ IsHost(g) /\ g.flight = f
               /\ g.pending = h.pending /\ g.external = h.external /\ g.answers = h.answers
               /\ g.ckpt = h.ckpt /\ g.worker = h.worker /\ g.input = h.input
               /\ g.queued = h.queued /\ g.task = h.task /\ g.statuses = h.statuses
<1>1. DOMAIN h = Fields
  BY HostFields
<1> QED BY <1>1 DEF IsHost, Fields

(* start_queued completes, starts or leaves the queued calls; it is no     *)
(* concern of the worker.                                                  *)
LEMMA Starts ==
    ASSUME NEW n, NEW h, HostTyped(h, n), Tickets(h),
           \A t \in Nat : InQueue(h, t) => Managed(h, t),
           h.flight.stage = "None" => h.flight.requesters = {}
    PROVE  LET g == StartQueued(h)
           IN  HostTyped(g, n) /\ Tickets(g) /\ SameWork(h, g) /\ Started(h, g)
<1> DEFINE g == StartQueued(h)
           f0 == [h EXCEPT !.queued = {}]
           S == Due(h, "Status")
           R == Due(h, "Restart")
<1> SUFFICES HostTyped(g, n) /\ Tickets(g) /\ SameWork(h, g) /\ Started(h, g)
  OBVIOUS
<1>1. CASE Barriers(h)
  <2>1. g = h
    BY <1>1 DEF StartQueued
  <2> HIDE DEF g
  <2> QED BY <2>1, <1>1 DEF SameWork, Started
<1>2. CASE ~Barriers(h)
  <2>1. /\ S \subseteq Nat /\ R \subseteq Nat
        /\ \A t \in S \cup R : t \in Nat /\ InQueue(h, t) /\ Managed(h, t)
        /\ \A t \in DOMAIN h.pending : InQueue(h, t) => t \in S \cup R
    <3>1. \A q \in h.queued : q.ticket \in Nat /\ q.call \in {"Status", "Restart"}
      BY DEF HostTyped
    <3> QED BY <3>1 DEF Due, InQueue
  <2>2. /\ HostTyped(f0, n) /\ f0.queued = {}
        /\ f0.pending = h.pending /\ f0.external = h.external /\ f0.answers = h.answers
        /\ f0.ckpt = h.ckpt /\ f0.worker = h.worker /\ f0.input = h.input
        /\ f0.flight = h.flight /\ f0.task = h.task /\ f0.statuses = h.statuses
    <3>1. IsHost(h)
      BY DEF HostTyped
    <3> HIDE DEF f0
    <3>2. /\ IsHost(f0) /\ f0.queued = {}
          /\ f0.pending = h.pending /\ f0.external = h.external /\ f0.answers = h.answers
          /\ f0.ckpt = h.ckpt /\ f0.worker = h.worker /\ f0.input = h.input
          /\ f0.flight = h.flight /\ f0.task = h.task /\ f0.statuses = h.statuses
      BY <3>1, OtherQueue DEF f0
    <3> QED BY <3>2 DEF HostTyped
  <2>3. CASE ~h.ckpt.init
    <3>1. g = CompleteAll(f0, S \cup R, Always("error"))
      BY <1>2, <2>3 DEF StartQueued
    <3> HIDE DEF f0, S, R, g
    <3>2. Always("error") \in ReplyTable
      BY ReplyTables DEF Replies
    <3>3. HostTyped(g, n) /\ Leaves(f0, g, S \cup R, Always("error")) /\ Keeps(f0, g)
      BY <3>1, <3>2, <2>2, Completes
    <3>4. Tickets(f0)
      BY <2>2 DEF Tickets
    <3>5. Tickets(g)
      BY <3>3, <3>4, <2>2, TicketsLeave
    <3>6. SameWork(f0, g)
      <4>1. \A t \in S \cup R : Managed(f0, t)
        BY <2>1, <2>2 DEF Managed
      <4> QED BY <4>1, <3>3, <3>4, <2>2, ManagedLeave
    <3>7. SameWork(h, g)
      BY <3>6, <2>2 DEF SameWork, Working
    <3>8. Started(h, g)
      BY <1>2, <2>1, <2>2, <3>3 DEF Started, Leaves, Keeps, InQueue
    <3> QED BY <3>3, <3>5, <3>7, <3>8
  <2>4. CASE h.ckpt.init
    <3> DEFINE f1 == [f0 EXCEPT !.statuses = h.statuses \cup S]
    <3>1. g = StartRestart(f1, R)
      BY <1>2, <2>4 DEF StartQueued
    <3>2. /\ HostTyped(f1, n) /\ f1.queued = {}
          /\ f1.pending = h.pending /\ f1.external = h.external /\ f1.answers = h.answers
          /\ f1.ckpt = h.ckpt /\ f1.worker = h.worker /\ f1.input = h.input
          /\ f1.flight = h.flight /\ f1.task = h.task /\ f1.statuses = h.statuses \cup S
      <4>1. IsHost(f0) /\ h.statuses \cup S \subseteq Nat
        BY <2>1, <2>2 DEF HostTyped
      <4> HIDE DEF f0, f1, S
      <4>2. /\ IsHost(f1) /\ f1.queued = f0.queued
            /\ f1.pending = f0.pending /\ f1.external = f0.external /\ f1.answers = f0.answers
            /\ f1.ckpt = f0.ckpt /\ f1.worker = f0.worker /\ f1.input = f0.input
            /\ f1.flight = f0.flight /\ f1.task = f0.task /\ f1.statuses = h.statuses \cup S
        BY <4>1, OtherStatuses DEF f1
      <4> QED BY <4>1, <4>2, <2>2 DEF HostTyped
    <3> HIDE DEF f0, f1, S, R, g
    <3>3. Tickets(f1)
      BY <3>2 DEF Tickets
    <3>4. h.flight.stage \in {"None", "Preparing", "Accepted"} /\ h.flight.requesters \subseteq Nat
      BY DEF HostTyped, Flights
    <3>5. CASE R = {}
      <4>1. g = f1
        BY <3>1, <3>5 DEF StartRestart
      <4>2. Started(h, g)
        BY <4>1, <1>2, <2>1, <3>2, <3>5 DEF Started, InQueue
      <4> QED BY <4>1, <4>2, <3>2, <3>3 DEF SameWork, Working
    <3>6. CASE R # {} /\ h.flight.stage = "Preparing"
      <4> DEFINE f == [stage |-> "Preparing", requesters |-> h.flight.requesters \cup R]
      <4>1. g = [f1 EXCEPT !.flight = f]
        BY <3>1, <3>2, <3>6 DEF StartRestart
      <4>2. f \in Flights /\ f.stage = "Preparing" /\ f.requesters = h.flight.requesters \cup R
        BY <3>4, <2>1 DEF Flights
      <4> HIDE DEF f
      <4>3. /\ IsHost(g) /\ g.flight = f
            /\ g.pending = f1.pending /\ g.external = f1.external /\ g.answers = f1.answers
            /\ g.ckpt = f1.ckpt /\ g.worker = f1.worker /\ g.input = f1.input
            /\ g.queued = f1.queued /\ g.task = f1.task /\ g.statuses = f1.statuses
        <5>1. IsHost(f1)
          BY <3>2 DEF HostTyped
        <5> QED BY <4>1, <5>1, OtherFlight
      <4>4. HostTyped(g, n)
        BY <4>2, <4>3, <3>2 DEF HostTyped
      <4>5. Tickets(g)
        BY <4>3, <3>3 DEF Tickets
      <4>6. SameWork(h, g)
        BY <4>3, <3>2 DEF SameWork, Working
      <4>7. Started(h, g)
        BY <4>2, <4>3, <1>2, <2>1, <3>2, <3>6 DEF Started, InQueue
      <4> QED BY <4>4, <4>5, <4>6, <4>7
    <3>7. CASE R # {} /\ h.flight.stage = "Accepted"
      <4>1. g = CompleteAll(f1, R, Always("ok"))
        BY <3>1, <3>2, <3>7 DEF StartRestart
      <4>2. Always("ok") \in ReplyTable
        BY ReplyTables DEF Replies
      <4>3. HostTyped(g, n) /\ Leaves(f1, g, R, Always("ok")) /\ Keeps(f1, g)
        BY <4>1, <4>2, <3>2, Completes
      <4>5. Tickets(g)
        BY <4>3, <3>3, <3>2, TicketsLeave
      <4>6. SameWork(f1, g)
        <5>1. \A t \in R : Managed(f1, t)
          BY <2>1, <3>2 DEF Managed
        <5> QED BY <5>1, <3>3, <4>3, <3>2, ManagedLeave
      <4>7. SameWork(h, g)
        BY <4>6, <3>2 DEF SameWork, Working
      <4>8. Started(h, g)
        BY <1>2, <2>1, <3>2, <4>3 DEF Started, Leaves, Keeps, InQueue
      <4> QED BY <4>3, <4>5, <4>7, <4>8
    <3>8. CASE R # {} /\ h.flight.stage = "None"
      <4> DEFINE f == [stage |-> "Preparing", requesters |-> R]
                 k == [pc |-> "Prepare", from |-> f1.ckpt, current |-> f1.worker.build,
                       policy |-> ReplacementPolicy(f1.worker), install |-> 0, verified |-> FALSE]
      <4>1. g = [f1 EXCEPT !.flight = f, !.task = k]
        BY <3>1, <3>2, <3>8 DEF StartRestart
      <4>2. f \in Flights /\ f.stage = "Preparing" /\ f.requesters = R
        BY <2>1 DEF Flights
      <4>3. k \in Tasks /\ k.pc = "Prepare" /\ k.from = h.ckpt
        <5>1. f1.ckpt \in SessionCheckpoint /\ f1.worker \in Workers /\ f1.worker.build \in Nat
          BY <3>2 DEF HostTyped, Workers
        <5>2. ReplacementPolicy(f1.worker) \in Policies
          BY DEF ReplacementPolicy, Policies
        <5> QED BY <5>1, <5>2, <3>2 DEF Tasks
      <4> HIDE DEF f, k
      <4>4. /\ IsHost(g) /\ g.flight = f /\ g.task = k
            /\ g.pending = f1.pending /\ g.external = f1.external /\ g.answers = f1.answers
            /\ g.ckpt = f1.ckpt /\ g.worker = f1.worker /\ g.input = f1.input
            /\ g.queued = f1.queued /\ g.statuses = f1.statuses
        <5>1. IsHost(f1)
          BY <3>2 DEF HostTyped
        <5>2. DOMAIN f1 = Fields /\ DOMAIN g = Fields
          BY <4>1, <5>1, HostFields
        <5>3. /\ g.flight = f /\ g.task = k
              /\ g.pending = f1.pending /\ g.external = f1.external /\ g.answers = f1.answers
              /\ g.ckpt = f1.ckpt /\ g.worker = f1.worker /\ g.input = f1.input
              /\ g.queued = f1.queued /\ g.statuses = f1.statuses
          BY <4>1, <5>2 DEF Fields
        <5>4. IsHost(g)
          BY <4>1, <5>2 DEF IsHost, Fields
        <5> QED BY <5>3, <5>4
      <4>5. HostTyped(g, n)
        BY <4>2, <4>3, <4>4, <3>2 DEF HostTyped
      <4>6. Tickets(g)
        BY <4>4, <3>3 DEF Tickets
      <4>7. SameWork(h, g)
        BY <4>4, <3>2 DEF SameWork, Working
      <4>8. Started(h, g)
        BY <4>2, <4>3, <4>4, <1>2, <2>1, <3>2, <3>8 DEF Started, InQueue
      <4> QED BY <4>5, <4>6, <4>7, <4>8
    <3> QED BY <3>4, <3>5, <3>6, <3>7, <3>8
  <2> QED BY <2>3, <2>4
<1> QED BY <1>1, <1>2

(* After start_queued every management call is accounted for, and a call   *)
(* waits only for a change of the session.                                 *)
LEMMA StartManages ==
    ASSUME NEW n, NEW h, NEW g, HostTyped(h, n), HostTyped(g, n), NEW ev,
           Started(h, g), SameWork(h, g), Held(h, ev), Flying(h, ev)
    PROVE  Management(g, ev) /\ Flying(g, ev)
<1>1. Barriers(g) <=> Barriers(h)
  BY SameBarriers
<1>2. ASSUME NEW t \in Nat, Looked(g, ev, t) PROVE Managed(g, t)
  <2>1. Looked(h, ev, t)
    BY <1>2 DEF Looked, Started
  <2>2. Managed(h, t)
    BY <2>1 DEF Held
  <2> QED BY <2>2 DEF Managed, Started
<1>3. ASSUME NEW t \in DOMAIN g.pending, g.pending[t].owner = "Management" PROVE Looked(g, ev, t)
  <2>1. t \in Nat
    BY DEF HostTyped
  <2>2. Looked(h, ev, t)
    BY <1>3 DEF Held, Started
  <2> QED BY <2>1, <2>2 DEF Looked, Started
<1>4. g.queued # {} => Barriers(g)
  BY <1>1 DEF Started
<1>5. Flying(g, ev)
  <2>1. g.ckpt = h.ckpt
    BY DEF SameWork
  <2>2. CASE /\ g.task = h.task /\ g.flight.stage = h.flight.stage
             /\ g.flight.stage = "None" => g.flight = h.flight
    BY <1>1, <2>1, <2>2 DEF Flying
  <2>3. CASE /\ ~Barriers(h) /\ h.flight.stage = "None" /\ g.flight.stage # "None"
             /\ g.task.pc # "Idle" /\ g.task.from = h.ckpt
    <3>1. \A k \in DOMAIN ev : ev[k].type = "Status"
      BY <2>3 DEF Flying
    <3> QED BY <1>1, <2>1, <2>3, <3>1 DEF Flying
  <2> QED BY <2>2, <2>3 DEF Started
<1> QED BY <1>2, <1>3, <1>4, <1>5 DEF Management, Held

(* As SameWork, but for tickets that are new and not the worker's.         *)
GrownWork(h, g) ==
    /\ g.worker = h.worker /\ g.input = h.input /\ g.ckpt = h.ckpt
    /\ \A t \in DOMAIN h.answers :
          /\ t \in DOMAIN g.answers /\ g.answers[t].behavior = h.answers[t].behavior
          /\ Owner(h.answers[t].behavior) = "Worker" => g.answers[t].reply = h.answers[t].reply
    /\ \A t \in DOMAIN g.answers : t \notin DOMAIN h.answers => g.answers[t].reply \notin {"ok", "unresolved"}
    /\ \A t : Working(g, t) <=> Working(h, t)
    /\ \A t : Working(h, t) => g.pending[t] = h.pending[t]

(* What concerns the worker depends on nothing else.                       *)
LEMMA WorkGrows ==
    ASSUME NEW n, NEW h, NEW g, HostTyped(h, n), Tickets(g), GrownWork(h, g), NEW act, NEW out \in Seq(OutputLines), NEW s,
           NEW did, NEW may, Work(h, act, out, s, did, may)
    PROVE  Work(g, act, out, s, did, may)
<1>1. g.worker = h.worker /\ g.input = h.input /\ g.ckpt = h.ckpt
  BY DEF GrownWork
<1>2. \A t : Working(g, t) <=> Working(h, t)
  BY DEF GrownWork
<1>3. \A t : Working(h, t) => g.pending[t] = h.pending[t]
  BY DEF GrownWork
<1>4. \A t : Sent(g, t) <=> Sent(h, t)
  BY <1>1 DEF Sent
<1>5. \A k \in DOMAIN out : out[k].ticket \in Nat
  <2>1. \A k \in DOMAIN out : out[k] \in OutputLines
    OBVIOUS
  <2> QED BY <2>1 DEF OutputLines
<1>6. Link(g, out)
  BY <1>1 DEF Work, Link
<1>7. Lines(g, act, out)
  <2>1. Lines(h, act, out)
    BY DEF Work
  <2> QED BY <1>1, <1>2, <1>3, <2>1 DEF Lines
<1>8. OnePlace(g, act, out)
  <2>1. OnePlace(h, act, out)
    BY DEF Work
  <2> QED BY <1>1, <1>4, <2>1 DEF OnePlace
<1>9. Cancels(g, act, out)
  <2>1. Cancels(h, act, out)
    BY DEF Work
  <2>2. ASSUME NEW t, Forgotten(h, t) PROVE Forgotten(g, t)
    <3>1. t \in DOMAIN g.answers /\ Owner(g.answers[t].behavior) = "Worker"
      BY <2>2 DEF Forgotten, GrownWork
    <3>2. ASSUME t \in DOMAIN g.pending PROVE g.pending[t].canceled
      <4>1. Working(g, t)
        BY <3>1, <3>2 DEF Working, Tickets
      <4>2. Working(h, t) /\ g.pending[t] = h.pending[t]
        BY <4>1, <1>2, <1>3
      <4> QED BY <4>2, <2>2 DEF Working, Forgotten
    <3> QED BY <3>1, <3>2 DEF Forgotten
  <2> QED BY <1>1, <1>4, <2>1, <2>2 DEF Cancels
<1>10. Somewhere(g, act, out)
  <2>1. Somewhere(h, act, out)
    BY DEF Work
  <2>2. ASSUME NEW t \in DOMAIN g.pending, g.pending[t].owner = "Worker"
        PROVE  t \in DOMAIN h.pending /\ h.pending[t].owner = "Worker"
    BY <1>2, <2>2 DEF Working
  <2> QED BY <1>1, <1>4, <2>1, <2>2 DEF Somewhere
<1>11. Sessions(g, out, s)
  <2>1. Sessions(h, out, s)
    BY DEF Work
  <2>2. \A m : Changes(h, m) => Changes(g, m)
    <3>1. \A t : Working(h, t) <=> t \in DOMAIN h.pending /\ h.pending[t].owner = "Worker"
      BY DEF Working
    <3>2. \A t : Working(g, t) <=> t \in DOMAIN g.pending /\ g.pending[t].owner = "Worker"
      BY DEF Working
    <3> QED BY <1>2, <1>3, <3>1, <3>2 DEF Changes
  <2>3. \A i : At(g, out, i) = At(h, out, i)
    BY <1>1 DEF At
  <2>4. ASSUME NEW i, NEW j, NEW c, Unchanged(h, out, i, j, c) PROVE Unchanged(g, out, i, j, c)
    BY <2>2, <2>3, <2>4 DEF Unchanged
  <2> QED BY <1>1, <2>1, <2>3, <2>4 DEF Sessions
<1>12. Truths(g, out, did, may)
  <2>1. Truths(h, out, did, may) /\ Lines(h, act, out)
    BY DEF Work
  <2>2. \A t \in DOMAIN g.answers : t \notin DOMAIN h.answers => g.answers[t].reply \notin {"ok", "unresolved"}
    BY DEF GrownWork
  <2>3. \A t \in DOMAIN h.answers :
           /\ t \in DOMAIN g.answers /\ g.answers[t].behavior = h.answers[t].behavior
           /\ h.answers[t].behavior = "Mutation" => g.answers[t].reply = h.answers[t].reply
    BY DEF GrownWork, Owner
  <2>4. ASSUME NEW k \in DOMAIN out, out[k].event = "Handled"
        PROVE  out[k].ticket \in DOMAIN h.answers
    <3>1. Working(h, out[k].ticket)
      BY <1>5, <2>1, <2>4 DEF Lines, Answered
    <3> QED BY <3>1 DEF Working, HostTyped
  <2> QED BY <1>4, <2>1, <2>2, <2>3, <2>4 DEF Truths
<1> QED BY <1>6, <1>7, <1>8, <1>9, <1>10, <1>11, <1>12 DEF Work

(* In particular, of the host with the same tickets.                       *)
LEMMA WorkStays ==
    ASSUME NEW n, NEW h, NEW g, HostTyped(h, n), HostTyped(g, n), Tickets(h), Tickets(g),
           SameWork(h, g), NEW act, NEW out \in Seq(OutputLines), NEW s,
           NEW did, NEW may, Work(h, act, out, s, did, may)
    PROVE  Work(g, act, out, s, did, may)
<1>1. GrownWork(h, g)
  BY DEF SameWork, GrownWork
<1> QED BY <1>1, WorkGrows

---------------------------------------------------------------------------
(* What Server::dispatch may come to.                                      *)

Outcomes == [srv : Server, reply : {"ok", "unresolved", "error", "uncertain"}, run : SUBSET (Nat \X Nat),
             wait : BOOLEAN, fault : BOOLEAN]

(* The key of the session afterwards, and of what ran under it.            *)
Keyed(s, o) ==
    /\ \/ o.srv.key = nextKey
       \/ /\ o.srv.key = s.key /\ o.srv.seq >= s.seq
          /\ o.srv.link = "Connected" => s.link = "Connected"
    /\ \A k \in o.run :
          /\ k[1] = o.srv.key /\ k[2] = o.srv.seq
          /\ o.srv.key = nextKey \/ (s.link = "Connected" /\ o.srv.seq > s.seq)

(* The parts of a server with another connection, name or context.         *)
LEMMA Sessioned ==
    ASSUME NEW s \in Server, NEW link \in SessionConnection, nextKey \in Nat
    PROVE  /\ Session(s, link) \in Server
           /\ Session(s, link).init /\ Session(s, link).link = link
           /\ Session(s, link).name = s.name /\ Session(s, link).ctx = s.ctx
           /\ Session(s, link).policy = s.policy
           /\ Session(s, link).key = nextKey /\ Session(s, link).seq = 0
    BY DEF Server, Session

(* An outcome without a run, a wait or a fault.                            *)
LEMMA OutcomeForm ==
    ASSUME NEW s \in Server, NEW reply \in {"ok", "unresolved", "error", "uncertain"}
    PROVE  /\ Outcome(s, reply) \in Outcomes /\ Outcome(s, reply).srv = s
           /\ Outcome(s, reply).reply = reply /\ Outcome(s, reply).run = {}
           /\ Outcome(s, reply).wait = FALSE
    BY DEF Outcomes, Outcome

(* A fault changes nothing else of an outcome.                             *)
LEMMA FailingForm ==
    ASSUME NEW o \in Outcomes, NEW f \in Failing(o)
    PROVE  /\ f \in Outcomes /\ f.srv = o.srv /\ f.reply = o.reply /\ f.run = o.run
           /\ f.wait = o.wait
    BY DEF Outcomes, Failing

(* ensure_connected keeps the session and leaves it connected if it can.   *)
Ensured(s, e) ==
    /\ e \in Outcomes /\ e.run = {} /\ e.wait = FALSE /\ e.reply \in {"ok", "error"}
    /\ Checkpoint(e.srv) = Checkpoint(s) /\ Keyed(s, e)
    /\ e.reply = "ok" => e.srv.link = "Connected"

(* A server left as it was keeps its key.                                  *)
LEMMA SameServer ==
    ASSUME NEW s \in Server, NEW reply \in {"ok", "error"}, nextKey \in Nat
    PROVE  Keyed(s, Outcome(s, reply))
<1> DEFINE o == Outcome(s, reply)
<1>1. s.seq \in Nat
  BY DEF Server
<1>2. o.srv = s /\ o.run = {}
  BY DEF Outcome
<1> HIDE DEF o
<1>3. Keyed(s, o)
  BY <1>1, <1>2 DEF Keyed
<1> QED BY <1>3 DEF o

(* connect gives the new session, or leaves the server as it was.          *)
LEMMA ConnectForm ==
    ASSUME NEW s \in Server, NEW new \in Server, nextKey \in Nat, NEW e \in Connect(s, new)
    PROVE  /\ e \in Outcomes /\ e.run = {} /\ e.wait = FALSE /\ Keyed(s, e)
           /\ \/ e.srv = Session(new, "Connected") /\ e.reply = "ok"
              \/ e.srv = s /\ e.reply = "error"
<1>1. CASE e = Outcome(Session(new, "Connected"), "ok")
  <2>1. Session(new, "Connected") \in Server /\ Session(new, "Connected").key = nextKey
    BY Sessioned DEF SessionConnection
  <2> QED BY <1>1, <2>1, OutcomeForm DEF Keyed
<1>2. CASE e \in Failing(Outcome(s, "error"))
  <2> DEFINE o == Outcome(s, "error")
  <2>1. o \in Outcomes /\ o.srv = s /\ o.reply = "error" /\ o.run = {} /\ o.wait = FALSE
    BY OutcomeForm
  <2> HIDE DEF o
  <2>2. e \in Outcomes /\ e.srv = s /\ e.reply = "error" /\ e.run = {} /\ e.wait = FALSE
    <3>1. e \in Failing(o)
      BY <1>2 DEF o
    <3> QED BY <3>1, <2>1, FailingForm
  <2>3. s.seq \in Nat
    BY DEF Server
  <2> QED BY <2>2, <2>3 DEF Keyed
<1> QED BY <1>1, <1>2 DEF Connect

(* ensure_connected gives the session a connection or an error.            *)
LEMMA EnsureForm ==
    ASSUME NEW s \in Server, nextKey \in Nat, NEW e \in EnsureConnected(s)
    PROVE  Ensured(s, e)
<1>1. CASE e = Outcome(s, "error")
  BY <1>1, OutcomeForm, SameServer DEF Ensured
<1>2. CASE e = Outcome(s, "ok") /\ s.link = "Connected"
  BY <1>2, OutcomeForm, SameServer DEF Ensured
<1>3. CASE s.init /\ e \in Connect(s, s)
  <2>1. /\ e \in Outcomes /\ e.run = {} /\ e.wait = FALSE /\ Keyed(s, e)
        /\ \/ e.srv = Session(s, "Connected") /\ e.reply = "ok"
           \/ e.srv = s /\ e.reply = "error"
    BY <1>3, ConnectForm
  <2>2. CASE e.srv = Session(s, "Connected") /\ e.reply = "ok"
    <3>1. /\ Session(s, "Connected").init = TRUE /\ Session(s, "Connected").link = "Connected"
          /\ Session(s, "Connected").name = s.name /\ Session(s, "Connected").ctx = s.ctx
          /\ Session(s, "Connected").policy = s.policy
      BY DEF Session, Server
    <3>2. s.init = TRUE
      BY <1>3 DEF Server
    <3>3. Checkpoint(e.srv) = Checkpoint(s)
      BY <2>2, <3>1, <3>2 DEF Checkpoint
    <3> QED BY <2>1, <2>2, <3>1, <3>3 DEF Ensured
  <2>3. CASE e.srv = s /\ e.reply = "error"
    BY <2>1, <2>3 DEF Ensured
  <2> QED BY <2>1, <2>2, <2>3
<1> QED BY <1>1, <1>2, <1>3 DEF EnsureConnected

(* The client's requests name tools, with arguments of the tool's kind.    *)
LEMMA RequestForm ==
    ASSUME NEW r \in Requests
    PROVE  r.tool \in Tools /\ r.arg \in ToolArgs(r.tool)
<1>1. CASE r \in (UNION Menus)
  BY <1>1, McpAssumption
<1>2. CASE r = [tool |-> "ping", arg |-> ""]
  <2>1. "ping" \in Tools /\ ToolArgs("ping") = {""}
    BY DEF Tools, Method, ToolArgs
  <2> QED BY <1>2, <2>1
<1> QED BY <1>1, <1>2 DEF Requests

(* The tools by how they are scheduled.                                    *)
LEMMA Routes ==
    ASSUME NEW tool \in Tools
    PROVE  /\ Route(tool) \in ToolBehavior
           /\ tool \in {"initialize", "use_context", "set_session_identity"} => Route(tool) = "Session"
           /\ Classify(tool) = "Mutating" => Route(tool) = "Mutation"
           /\ Route(tool) = "Mutation" =>
                 tool # "initialize" /\ tool # "tools/list"
                 /\ (Classify(tool) = "Mutating" \/ Classify(tool) = "Unknown")
           /\ Classify(tool) = "EventWait" => Route(tool) = "Wait"
           /\ Classify(tool) \in {"Query", "Mutating", "EventWait", "Session", "Context",
                                  "Management", "Unknown"}
    BY DEF Tools, ToolName, Method, QueryCall, MutatingCall, ContextCall, SessionCall,
           ManagementCall, Route, Behavior, Classify, ToolBehavior

(* What is true of every outcome of a request.                             *)
Served(s, r, o) ==
    /\ o \in Outcomes /\ Keyed(s, o)
    /\ Checkpoint(o.srv) = Checkpoint(s) \/ Route(r.tool) = "Session"
    /\ o.wait => /\ Route(r.tool) = "Wait" /\ o.run = {} /\ Checkpoint(o.srv) = Checkpoint(s)
                 /\ r.arg = "Bare" => o.srv.policy = "InitialContext"
    /\ o.run # {} => Route(r.tool) = "Mutation"
    /\ Route(r.tool) = "Mutation" =>
          (o.reply \in {"ok", "unresolved"} => o.run # {}) /\ (o.reply = "error" => o.run = {})
    /\ Initial(s) => Initial(o.srv)

(* A checkpoint says all about the cursor policy.                          *)
LEMMA SameInitial ==
    ASSUME NEW s, NEW o, Checkpoint(o) = Checkpoint(s)
    PROVE  Initial(s) <=> Initial(o)
<1>1. /\ Checkpoint(s).policy = s.policy /\ Checkpoint(s).ctx = s.ctx
      /\ Checkpoint(o).policy = o.policy /\ Checkpoint(o).ctx = o.ctx
  BY DEF Checkpoint
<1> QED BY <1>1 DEF Initial

(* The daemon's part of a call: the session stays.                         *)
Asked(s, o) ==
    /\ o \in Outcomes /\ o.wait = FALSE /\ Checkpoint(o.srv) = Checkpoint(s)
    /\ o.srv.key = s.key

(* call_query runs nothing.                                                *)
LEMMA QueryForm ==
    ASSUME NEW s \in Server, NEW o \in CallQuery(s)
    PROVE  Asked(s, o) /\ o.run = {} /\ o.srv.seq = s.seq
<1>1. CASE \E reply \in {"ok", "error"} : o = Outcome(s, reply)
  <2>1. PICK reply \in {"ok", "error"} : o = Outcome(s, reply)
    BY <1>1
  <2>2. o \in Outcomes /\ o.srv = s /\ o.run = {} /\ o.wait = FALSE
    BY <2>1 DEF Outcome, Outcomes
  <2> QED BY <2>2 DEF Asked
<1>2. CASE o \in Failing(Outcome([s EXCEPT !.link = "Closed"], "error"))
  <2> DEFINE c == [s EXCEPT !.link = "Closed"]
             f == Outcome(c, "error")
  <2>1. /\ c \in Server /\ c.key = s.key /\ c.seq = s.seq
        /\ c.init = s.init /\ c.name = s.name /\ c.ctx = s.ctx /\ c.policy = s.policy
    BY DEF Server, SessionConnection
  <2> HIDE DEF c
  <2>2. f \in Outcomes /\ f.srv = c /\ f.run = {} /\ f.wait = FALSE
    BY <2>1, OutcomeForm
  <2> HIDE DEF f
  <2>3. o \in Outcomes /\ o.srv = c /\ o.run = {} /\ o.wait = FALSE
    <3>1. o \in Failing(f)
      BY <1>2 DEF f, c
    <3> QED BY <3>1, <2>2, FailingForm
  <2>4. Checkpoint(c) = Checkpoint(s)
    BY <2>1 DEF Checkpoint
  <2> QED BY <2>1, <2>3, <2>4 DEF Asked
<1> QED BY <1>1, <1>2 DEF CallQuery

(* call_mutating runs at most one mutation, under the next number of its   *)
(* connection; success or "unresolved" says that it ran, an error that not.  *)
LEMMA MutatingForm ==
    ASSUME NEW s \in Server, NEW tool, NEW o \in CallMutating(s, tool)
    PROVE  /\ Asked(s, o) /\ o.srv.seq >= s.seq
           /\ \A k \in o.run : k[1] = s.key /\ k[2] = o.srv.seq /\ o.srv.seq > s.seq
           /\ o.reply \in {"ok", "unresolved"} => o.run # {}
           /\ o.reply = "error" => o.run = {}
<1> DEFINE sent == [s EXCEPT !.seq = s.seq + 1]
           closed == [sent EXCEPT !.link = "Closed"]
           ranIt == {<<s.key, s.seq + 1>>}
<1>1. s.seq \in Nat /\ s.key \in Nat
  BY DEF Server
<1>2. /\ sent \in Server /\ sent.key = s.key /\ sent.seq = s.seq + 1 /\ sent.link = s.link
      /\ sent.init = s.init /\ sent.name = s.name /\ sent.ctx = s.ctx /\ sent.policy = s.policy
  BY <1>1 DEF Server
<1>3. /\ closed \in Server /\ closed.key = s.key /\ closed.seq = s.seq + 1
      /\ closed.init = s.init /\ closed.name = s.name /\ closed.ctx = s.ctx
      /\ closed.policy = s.policy
  <2> HIDE DEF sent
  <2> QED BY <1>2 DEF Server, SessionConnection
<1>4. Checkpoint(sent) = Checkpoint(s) /\ Checkpoint(closed) = Checkpoint(s)
  <2> HIDE DEF sent, closed
  <2> QED BY <1>2, <1>3 DEF Checkpoint
<1>5. ranIt \subseteq Nat \X Nat /\ ranIt # {} /\ \A k \in ranIt : k[1] = s.key /\ k[2] = s.seq + 1
  BY <1>1
<1>6. CASE o = [Outcome(sent, "ok") EXCEPT !.run = ranIt]
  <2> HIDE DEF sent, closed, ranIt
  <2>1. /\ Outcome(sent, "ok") \in Outcomes /\ Outcome(sent, "ok").srv = sent
        /\ Outcome(sent, "ok").wait = FALSE
    BY <1>2, OutcomeForm
  <2>2. o \in Outcomes /\ o.srv = sent /\ o.run = ranIt /\ o.wait = FALSE /\ o.reply = "ok"
    BY <1>6, <2>1, <1>2, <1>5 DEF Outcomes, Outcome
  <2> QED BY <2>2, <1>1, <1>2, <1>4, <1>5 DEF Asked
<1>11. CASE o = [Outcome(sent, "unresolved") EXCEPT !.run = ranIt]
  <2> HIDE DEF sent, closed, ranIt
  <2>1. /\ Outcome(sent, "unresolved") \in Outcomes /\ Outcome(sent, "unresolved").srv = sent
        /\ Outcome(sent, "unresolved").wait = FALSE
    BY <1>2, OutcomeForm
  <2>2. o \in Outcomes /\ o.srv = sent /\ o.run = ranIt /\ o.wait = FALSE /\ o.reply = "unresolved"
    BY <1>11, <2>1, <1>2, <1>5 DEF Outcomes, Outcome
  <2> QED BY <2>2, <1>1, <1>2, <1>4, <1>5 DEF Asked
<1>7. CASE o = Outcome(sent, "error")
  <2> HIDE DEF sent, closed, ranIt
  <2>1. o \in Outcomes /\ o.srv = sent /\ o.run = {} /\ o.wait = FALSE
    BY <1>7, <1>2, OutcomeForm
  <2>2. o.reply = "error"
    BY <1>7 DEF Outcome
  <2> QED BY <2>1, <2>2, <1>1, <1>2, <1>4 DEF Asked
<1>8. CASE o = Outcome(s, "error")
  <2>1. o \in Outcomes /\ o.srv = s /\ o.run = {} /\ o.wait = FALSE
    BY <1>8, OutcomeForm
  <2>2. o.reply = "error"
    BY <1>8 DEF Outcome
  <2> QED BY <2>1, <2>2, <1>1 DEF Asked
<1>9. ASSUME NEW run \in {{}, ranIt},
             o \in Failing([Outcome(closed, "uncertain") EXCEPT !.run = run])
      PROVE  /\ Asked(s, o) /\ o.srv.seq >= s.seq
             /\ \A k \in o.run : k[1] = s.key /\ k[2] = o.srv.seq /\ o.srv.seq > s.seq
             /\ o.reply \in {"ok", "unresolved"} => o.run # {}
             /\ o.reply = "error" => o.run = {}
  <2> DEFINE u == [Outcome(closed, "uncertain") EXCEPT !.run = run]
  <2> HIDE DEF sent, closed, ranIt
  <2>1. run \subseteq Nat \X Nat /\ \A k \in run : k[1] = s.key /\ k[2] = s.seq + 1
    BY <1>5
  <2>2. u \in Outcomes /\ u.srv = closed /\ u.run = run /\ u.wait = FALSE /\ u.reply = "uncertain"
    BY <1>3, <2>1 DEF Outcomes, Outcome
  <2>3. o \in Failing(u)
    BY <1>9
  <2> HIDE DEF u
  <2>4. o \in Outcomes /\ o.srv = closed /\ o.run = run /\ o.wait = FALSE /\ o.reply = "uncertain"
    BY <2>2, <2>3, FailingForm
  <2> QED BY <2>1, <2>4, <1>1, <1>3, <1>4 DEF Asked
<1>10. \/ o = [Outcome(sent, "ok") EXCEPT !.run = ranIt] \/ o = Outcome(sent, "error")
       \/ o = Outcome(s, "error") \/ o = [Outcome(sent, "unresolved") EXCEPT !.run = ranIt]
       \/ \E run \in {{}, ranIt} : o \in Failing([Outcome(closed, "uncertain") EXCEPT !.run = run])
  BY DEF CallMutating
<1> HIDE DEF sent, closed, ranIt
<1> QED BY <1>6, <1>7, <1>8, <1>9, <1>10, <1>11

(* A call on the connection ensure_connected gave keeps its keys.          *)
LEMMA CallKeyed ==
    ASSUME NEW s \in Server, NEW e, Ensured(s, e), e.reply = "ok", NEW o, Asked(e.srv, o),
           o.srv.seq >= e.srv.seq,
           \A k \in o.run : k[1] = e.srv.key /\ k[2] = o.srv.seq /\ o.srv.seq > e.srv.seq
    PROVE  Keyed(s, o)
<1>1. e.srv.link = "Connected" /\ o.srv.key = e.srv.key /\ Keyed(s, e)
  BY DEF Ensured, Asked
<1>2. s.seq \in Nat /\ e.srv.seq \in Nat /\ o.srv.seq \in Nat
  BY DEF Ensured, Asked, Outcomes, Server
<1>3. CASE e.srv.key = nextKey
  BY <1>1, <1>3 DEF Keyed
<1>4. CASE e.srv.key = s.key /\ e.srv.seq >= s.seq /\ s.link = "Connected"
  BY <1>1, <1>2, <1>4 DEF Keyed
<1> QED BY <1>1, <1>3, <1>4 DEF Keyed

(* A query.                                                                *)
LEMMA QueryServed ==
    ASSUME NEW s \in Server, nextKey \in Nat, NEW r \in Requests, Classify(r.tool) = "Query",
           NEW e \in EnsureConnected(s), NEW o,
           o \in IF e.reply # "ok" THEN {e} ELSE CallQuery(e.srv)
    PROVE  Served(s, r, o)
<1>1. Ensured(s, e)
  BY EnsureForm
<1>2. r.tool \in Tools
  BY RequestForm
<1>3. Route(r.tool) # "Mutation"
  BY <1>2, Routes
<1>4. CASE e.reply # "ok"
  <2>1. o = e
    BY <1>4
  <2> QED BY <1>1, <1>3, <2>1, SameInitial DEF Ensured, Served
<1>5. CASE e.reply = "ok"
  <2>1. e.srv \in Server
    BY <1>1 DEF Ensured, Outcomes
  <2>2. Asked(e.srv, o) /\ o.run = {} /\ o.srv.seq = e.srv.seq
    BY <1>5, <2>1, QueryForm
  <2>3. Keyed(s, o)
    <3>1. e.srv.seq \in Nat
      BY <2>1 DEF Server
    <3> QED BY <1>1, <1>5, <2>2, <3>1, CallKeyed
  <2>4. Checkpoint(o.srv) = Checkpoint(s)
    BY <1>1, <2>2 DEF Ensured, Asked
  <2>5. Initial(s) <=> Initial(o.srv)
    BY <2>4, SameInitial
  <2> QED BY <1>3, <2>2, <2>3, <2>4, <2>5 DEF Served, Asked
<1> QED BY <1>4, <1>5

(* A mutation.                                                             *)
LEMMA MutatingServed ==
    ASSUME NEW s \in Server, nextKey \in Nat, NEW r \in Requests, Classify(r.tool) = "Mutating",
           NEW e \in EnsureConnected(s), NEW o,
           o \in IF e.reply # "ok" THEN {e} ELSE CallMutating(e.srv, r.tool)
    PROVE  Served(s, r, o)
<1>1. Ensured(s, e)
  BY EnsureForm
<1>2. r.tool \in Tools
  BY RequestForm
<1>3. Route(r.tool) = "Mutation"
  BY <1>2, Routes
<1>4. CASE e.reply # "ok"
  <2>1. o = e
    BY <1>4
  <2> QED BY <1>1, <1>3, <1>4, <2>1, SameInitial DEF Ensured, Served
<1>5. CASE e.reply = "ok"
  <2>1. e.srv \in Server
    BY <1>1 DEF Ensured, Outcomes
  <2>2. /\ Asked(e.srv, o) /\ o.srv.seq >= e.srv.seq
        /\ \A k \in o.run : k[1] = e.srv.key /\ k[2] = o.srv.seq /\ o.srv.seq > e.srv.seq
        /\ o.reply \in {"ok", "unresolved"} => o.run # {}
        /\ o.reply = "error" => o.run = {}
    BY <1>5, <2>1, MutatingForm
  <2>3. Keyed(s, o)
    BY <1>1, <1>5, <2>2, CallKeyed
  <2>4. Checkpoint(o.srv) = Checkpoint(s)
    BY <1>1, <2>2 DEF Ensured, Asked
  <2>5. Initial(s) <=> Initial(o.srv)
    BY <2>4, SameInitial
  <2> QED BY <1>3, <2>2, <2>3, <2>4, <2>5 DEF Served, Asked
<1> QED BY <1>4, <1>5

(* An event wait: a bare cursor waits only in a session that takes one.    *)
LEMMA WaitServed ==
    ASSUME NEW s \in Server, nextKey \in Nat, NEW r \in Requests, Classify(r.tool) = "EventWait",
           NEW o \in PrepareWait(s, r.arg)
    PROVE  Served(s, r, o)
<1>1. PICK e \in EnsureConnected(s) :
         o \in IF e.reply # "ok" THEN {e}
               ELSE IF ~SubscriptionSince(e.srv, r.arg) THEN {Outcome(e.srv, "error")}
               ELSE {[Outcome(e.srv, "ok") EXCEPT !.wait = TRUE]}
                       \cup Failing(Outcome(e.srv, "error"))
  BY DEF PrepareWait
<1>2. Ensured(s, e)
  BY EnsureForm
<1>3. Route(r.tool) = "Wait"
  BY RequestForm, Routes
<1>4. e.srv \in Server /\ (Initial(s) <=> Initial(e.srv))
  BY <1>2, SameInitial DEF Ensured, Outcomes
<1>5. ASSUME o \in Outcomes, o.srv = e.srv, o.run = {},
             o.wait => (r.arg = "Bare" => e.srv.policy = "InitialContext")
      PROVE  Served(s, r, o)
  <2>1. Keyed(s, o)
    BY <1>2, <1>5 DEF Ensured, Keyed
  <2> QED BY <2>1, <1>2, <1>3, <1>4, <1>5 DEF Served, Ensured
<1>6. CASE o = e
  BY <1>2, <1>5, <1>6 DEF Ensured
<1>7. CASE o = Outcome(e.srv, "error")
  BY <1>4, <1>5, <1>7, OutcomeForm
<1>8. CASE o \in Failing(Outcome(e.srv, "error"))
  <2> DEFINE f == Outcome(e.srv, "error")
  <2>1. f \in Outcomes /\ f.srv = e.srv /\ f.run = {} /\ f.wait = FALSE
    BY <1>4, OutcomeForm
  <2>2. o \in Failing(f)
    BY <1>8
  <2> HIDE DEF f
  <2> QED BY <2>1, <2>2, <1>5, FailingForm
<1>9. CASE SubscriptionSince(e.srv, r.arg) /\ o = [Outcome(e.srv, "ok") EXCEPT !.wait = TRUE]
  <2>1. o \in Outcomes /\ o.srv = e.srv /\ o.run = {}
    BY <1>4, <1>9 DEF Outcome, Outcomes
  <2>2. r.arg = "Bare" => e.srv.policy = "InitialContext"
    BY <1>9 DEF SubscriptionSince
  <2> QED BY <2>1, <2>2, <1>5
<1> QED BY <1>1, <1>6, <1>7, <1>8, <1>9

(* A connection for another name or context.                               *)
LEMMA ConnectServed ==
    ASSUME NEW s \in Server, NEW new \in Server, nextKey \in Nat, NEW r \in Requests,
           Route(r.tool) = "Session", Initial(s) => Initial(new), NEW o \in Connect(s, new)
    PROVE  Served(s, r, o)
<1>1. /\ o \in Outcomes /\ o.run = {} /\ o.wait = FALSE /\ Keyed(s, o)
      /\ o.srv = Session(new, "Connected") \/ o.srv = s
  BY ConnectForm
<1>2. Initial(s) => Initial(o.srv)
  <2>1. Session(new, "Connected").ctx = new.ctx /\ Session(new, "Connected").policy = new.policy
    BY Sessioned DEF SessionConnection
  <2> QED BY <1>1, <2>1 DEF Initial
<1> QED BY <1>1, <1>2 DEF Served

(* A call that leaves the server as it was.                                *)
LEMMA IdleServed ==
    ASSUME NEW s \in Server, nextKey \in Nat, NEW r \in Requests, NEW reply \in {"ok", "error"},
           reply = "ok" => Route(r.tool) # "Mutation"
    PROVE  Served(s, r, Outcome(s, reply))
<1> DEFINE o == Outcome(s, reply)
<1>1. o \in Outcomes /\ o.srv = s /\ o.run = {} /\ o.wait = FALSE /\ o.reply = reply
  BY DEF Outcome, Outcomes
<1>2. Keyed(s, o)
  BY SameServer
<1> HIDE DEF o
<1>3. Served(s, r, o)
  BY <1>1, <1>2 DEF Served
<1> QED BY <1>3 DEF o

(* A call of the session.                                                  *)
LEMMA SessionServed ==
    ASSUME NEW s \in Server, nextKey \in Nat, NEW r \in Requests, Classify(r.tool) = "Session",
           NEW o \in CallSession(s, r)
    PROVE  Served(s, r, o)
<1>1. r.tool \in Tools /\ Route(r.tool) # "Mutation"
  BY RequestForm, Routes
<1>2. CASE o = Outcome(s, "error")
  BY <1>2, IdleServed
<1>3. CASE o = Outcome(s, "ok")
  BY <1>1, <1>3, IdleServed
<1>4. CASE r.tool = "set_session_identity" /\ o \in Connect(s, [s EXCEPT !.name = r.arg])
  <2> DEFINE new == [s EXCEPT !.name = r.arg]
  <2>1. r.arg \in Names /\ Route(r.tool) = "Session"
    BY <1>1, <1>4, RequestForm, Routes DEF ToolArgs
  <2>2. new \in Server /\ new.ctx = s.ctx /\ new.policy = s.policy
    BY <2>1 DEF Server
  <2> HIDE DEF new
  <2>3. Initial(s) => Initial(new)
    BY <2>2 DEF Initial
  <2>4. o \in Connect(s, new)
    BY <1>4 DEF new
  <2> QED BY <2>1, <2>2, <2>3, <2>4, ConnectServed
<1> QED BY <1>2, <1>3, <1>4 DEF CallSession

(* A call about contexts: leaving the first one ends bare cursors.         *)
LEMMA ContextServed ==
    ASSUME NEW s \in Server, nextKey \in Nat, NEW r \in Requests, Classify(r.tool) = "Context",
           NEW o \in CallContext(s, r)
    PROVE  Served(s, r, o)
<1>1. r.tool \in Tools /\ Route(r.tool) # "Mutation"
  BY RequestForm, Routes
<1> DEFINE policy == IF r.arg = s.ctx THEN s.policy ELSE "RequireContext"
           new == [s EXCEPT !.ctx = r.arg, !.policy = policy]
<1>2. CASE o = Outcome(s, "error")
  BY <1>2, IdleServed
<1>3. CASE o = Outcome(s, "ok")
  BY <1>1, <1>3, IdleServed
<1>4. CASE r.tool = "use_context" /\ o \in Connect(s, new)
  <2>1. r.arg \in Contexts /\ Route(r.tool) = "Session"
    BY <1>1, <1>4, RequestForm, Routes DEF ToolArgs
  <2>2. new \in Server /\ new.ctx = r.arg /\ new.policy = policy
    BY <2>1 DEF Server, CursorPolicy
  <2> HIDE DEF new
  <2>3. Initial(s) => Initial(new)
    BY <2>2 DEF Initial
  <2> QED BY <1>4, <2>1, <2>2, <2>3, ConnectServed
<1> QED BY <1>2, <1>3, <1>4 DEF CallContext

(* initialize always begins a session, connected or not.                   *)
LEMMA InitializeServed ==
    ASSUME NEW s \in Server, nextKey \in Nat, NEW r \in Requests, r.tool = "initialize",
           NEW o \in Initialize(s, r.arg)
    PROVE  Served(s, r, o)
<1> DEFINE new == [s EXCEPT !.name = r.arg]
<1>1. r.arg \in Names /\ Route(r.tool) = "Session"
  BY RequestForm, Routes DEF ToolArgs
<1>2. new \in Server /\ new.ctx = s.ctx /\ new.policy = s.policy
  BY <1>1 DEF Server
<1>3. \/ o = Outcome(Session(new, "Connected"), "ok")
      \/ o \in Failing(Outcome(Session(new, "Disconnected"), "ok"))
  BY DEF Initialize
<1> HIDE DEF new
<1>4. PICK link \in {"Connected", "Disconnected"} :
         o \in Outcomes /\ o.srv = Session(new, link) /\ o.run = {} /\ o.wait = FALSE
  <2>1. CASE o = Outcome(Session(new, "Connected"), "ok")
    <3>1. Session(new, "Connected") \in Server
      BY <1>2, Sessioned DEF SessionConnection
    <3> QED BY <2>1, <3>1, OutcomeForm
  <2>2. CASE o \in Failing(Outcome(Session(new, "Disconnected"), "ok"))
    <3> DEFINE f == Outcome(Session(new, "Disconnected"), "ok")
    <3>1. Session(new, "Disconnected") \in Server
      BY <1>2, Sessioned DEF SessionConnection
    <3>2. f \in Outcomes /\ f.srv = Session(new, "Disconnected") /\ f.run = {} /\ f.wait = FALSE
      BY <3>1, OutcomeForm
    <3>3. o \in Failing(f)
      BY <2>2
    <3> HIDE DEF f
    <3> QED BY <3>2, <3>3, FailingForm
  <2> QED BY <1>3, <2>1, <2>2
<1>5. o.srv.key = nextKey /\ o.srv.ctx = s.ctx /\ o.srv.policy = s.policy
  BY <1>2, <1>4, Sessioned DEF SessionConnection
<1>6. Keyed(s, o) /\ (Initial(s) => Initial(o.srv))
  BY <1>4, <1>5 DEF Keyed, Initial
<1> QED BY <1>1, <1>4, <1>6 DEF Served

(* A call by its class.                                                    *)
LEMMA CallServed ==
    ASSUME NEW s \in Server, nextKey \in Nat, NEW r \in Requests, NEW o \in PrepareCall(s, r)
    PROVE  Served(s, r, o)
<1>1. Classify(r.tool) \in {"Query", "Mutating", "EventWait", "Session", "Context",
                            "Management", "Unknown"}
  BY RequestForm, Routes
<1>2. CASE Classify(r.tool) = "Query"
  <2>1. \E e \in EnsureConnected(s) : o \in IF e.reply # "ok" THEN {e} ELSE CallQuery(e.srv)
    BY <1>2 DEF PrepareCall
  <2> QED BY <1>2, <2>1, QueryServed
<1>3. CASE Classify(r.tool) = "Mutating"
  <2>1. \E e \in EnsureConnected(s) :
           o \in IF e.reply # "ok" THEN {e} ELSE CallMutating(e.srv, r.tool)
    BY <1>3 DEF PrepareCall
  <2> QED BY <1>3, <2>1, MutatingServed
<1>4. CASE Classify(r.tool) = "EventWait"
  <2>1. o \in PrepareWait(s, r.arg)
    BY <1>4 DEF PrepareCall
  <2> QED BY <1>4, <2>1, WaitServed
<1>5. CASE Classify(r.tool) = "Session"
  <2>1. o \in CallSession(s, r)
    BY <1>5 DEF PrepareCall
  <2> QED BY <1>5, <2>1, SessionServed
<1>6. CASE Classify(r.tool) = "Context"
  <2>1. o \in CallContext(s, r)
    BY <1>6 DEF PrepareCall
  <2> QED BY <1>6, <2>1, ContextServed
<1>7. CASE Classify(r.tool) \in {"Management", "Unknown"}
  <2>1. o = Outcome(s, "error")
    BY <1>7 DEF PrepareCall
  <2> QED BY <2>1, IdleServed
<1> QED BY <1>1, <1>2, <1>3, <1>4, <1>5, <1>6, <1>7

(* Server::dispatch keeps the session, or is a request that changes it.    *)
LEMMA Dispatched ==
    ASSUME NEW s \in Server, nextKey \in Nat, NEW r \in Requests, NEW o \in Dispatch(s, r)
    PROVE  Served(s, r, o)
<1>1. CASE r.tool = "initialize"
  <2>1. o \in Initialize(s, r.arg)
    BY <1>1 DEF Dispatch
  <2> QED BY <1>1, <2>1, InitializeServed
<1>2. CASE r.tool = "tools/list"
  <2>1. o = Outcome(s, "ok")
    BY <1>2 DEF Dispatch
  <2>2. Route(r.tool) # "Mutation"
    BY <1>2, RequestForm, Routes
  <2> QED BY <2>1, <2>2, IdleServed
<1>3. CASE r.tool # "initialize" /\ r.tool # "tools/list"
  <2>1. o \in PrepareCall(s, r)
    BY <1>3 DEF Dispatch
  <2> QED BY <2>1, CallServed
<1> QED BY <1>1, <1>2, <1>3

---------------------------------------------------------------------------
(* Queues.                                                                 *)

(* The lines after the first.                                              *)
LEMMA TailLines ==
    ASSUME NEW S, NEW q \in Seq(S), q # <<>>
    PROVE  /\ Tail(q) \in Seq(S) /\ Len(q) \in Nat /\ Len(Tail(q)) \in Nat
           /\ Len(q) = Len(Tail(q)) + 1
           /\ 1 \in DOMAIN q /\ Head(q) = q[1] /\ q[1] \in S
           /\ DOMAIN q = 1..Len(q) /\ DOMAIN Tail(q) = 1..Len(Tail(q))
           /\ \A k \in DOMAIN Tail(q) : k + 1 \in DOMAIN q /\ Tail(q)[k] = q[k + 1]
           /\ \A k \in DOMAIN q : k = 1 \/ (k - 1 \in DOMAIN Tail(q) /\ q[k] = Tail(q)[k - 1])
    OBVIOUS

(* One more line.                                                          *)
LEMMA AppendLines ==
    ASSUME NEW S, NEW q \in Seq(S), NEW m \in S
    PROVE  /\ Append(q, m) \in Seq(S) /\ Len(q) \in Nat
           /\ Len(Append(q, m)) = Len(q) + 1
           /\ DOMAIN q = 1..Len(q) /\ DOMAIN Append(q, m) = 1..(Len(q) + 1)
           /\ Append(q, m)[Len(q) + 1] = m
           /\ \A k \in DOMAIN q : k \in DOMAIN Append(q, m) /\ Append(q, m)[k] = q[k]
           /\ \A k \in DOMAIN Append(q, m) : k \in DOMAIN q \/ k = Len(q) + 1
    OBVIOUS

(* Everything of the host but its worker and what is sent to it is the     *)
(* same in h and g.                                                        *)
Frame(h, g) ==
    /\ g.pending = h.pending /\ g.external = h.external /\ g.answers = h.answers
    /\ g.queued = h.queued /\ g.flight = h.flight /\ g.ckpt = h.ckpt
    /\ g.task = h.task /\ g.statuses = h.statuses

(* The tickets, the management calls and the flight are no concern of the  *)
(* worker.                                                                 *)
LEMMA SameFrame ==
    ASSUME NEW h, NEW g, Frame(h, g), NEW ev, Tickets(h), Management(h, ev), Flying(h, ev)
    PROVE  Tickets(g) /\ Management(g, ev) /\ Flying(g, ev)
<1>1. Tickets(g)
  BY DEF Frame, Tickets
<1>2. Barriers(g) <=> Barriers(h)
  BY DEF Frame, Barriers
<1>3. Management(g, ev)
  BY <1>2 DEF Frame, Management, Held, Looked, Managed, InQueue
<1>4. Flying(g, ev)
  BY <1>2 DEF Frame, Flying
<1> QED BY <1>1, <1>3, <1>4

(* The worker has read the first line.                                     *)
LEMMA ReadOne ==
    ASSUME NEW n, NEW h, HostTyped(h, n), h.input # <<>>, NEW g, g.input = Tail(h.input)
    PROVE  /\ g.input \in Seq(InputLines)
           /\ 1 \in DOMAIN h.input /\ Head(h.input) = h.input[1] /\ h.input[1] \in InputLines
           /\ \A k \in DOMAIN g.input :
                 k \in Nat /\ k > 0 /\ k + 1 \in DOMAIN h.input /\ g.input[k] = h.input[k + 1]
           /\ \A t : Sent(h, t) <=>
                 (h.input[1].type = "Dispatch" /\ h.input[1].ticket = t) \/ Sent(g, t)
<1>1. h.input \in Seq(InputLines)
  BY DEF HostTyped
<1>2. /\ g.input \in Seq(InputLines) /\ Len(g.input) \in Nat
      /\ 1 \in DOMAIN h.input /\ Head(h.input) = h.input[1] /\ h.input[1] \in InputLines
      /\ DOMAIN g.input = 1..Len(g.input)
  BY <1>1, TailLines
<1>3. \A k \in DOMAIN g.input : k + 1 \in DOMAIN h.input /\ g.input[k] = h.input[k + 1]
  BY <1>1, TailLines
<1>4. \A k \in DOMAIN h.input :
         k = 1 \/ (k - 1 \in DOMAIN g.input /\ h.input[k] = g.input[k - 1])
  BY <1>1, TailLines
<1>5. \A t : Sent(h, t) <=>
         (h.input[1].type = "Dispatch" /\ h.input[1].ticket = t) \/ Sent(g, t)
  BY <1>2, <1>3, <1>4 DEF Sent
<1> QED BY <1>2, <1>3, <1>5

(* The worker has written one line.                                        *)
LEMMA WroteOne ==
    ASSUME NEW out \in Seq(OutputLines), NEW m \in OutputLines, NEW new, new = Append(out, m)
    PROVE  /\ new \in Seq(OutputLines)
           /\ Len(out) \in Nat /\ Len(new) = Len(out) + 1 /\ new[Len(out) + 1] = m
           /\ DOMAIN out = 1..Len(out) /\ DOMAIN new = 1..(Len(out) + 1)
           /\ \A k \in DOMAIN out : k \in DOMAIN new /\ new[k] = out[k]
           /\ \A k \in DOMAIN new : k \in DOMAIN out \/ k = Len(out) + 1
    BY AppendLines

(* The requests it has answered, and those whose cancellation it has       *)
(* confirmed.                                                              *)
LEMMA WroteWhich ==
    ASSUME NEW out \in Seq(OutputLines), NEW m \in OutputLines, NEW t
    PROVE  /\ Answered(Append(out, m), t) <=> Answered(out, t) \/ (m.event = "Handled" /\ m.ticket = t)
           /\ Stopped(Append(out, m), t) <=> Stopped(out, t) \/ (m.event = "Canceled" /\ m.ticket = t)
<1> DEFINE new == Append(out, m)
<1>1. /\ Len(out) + 1 \in DOMAIN new /\ new[Len(out) + 1] = m
      /\ \A k \in DOMAIN out : k \in DOMAIN new /\ new[k] = out[k]
      /\ \A k \in DOMAIN new : k \in DOMAIN out \/ k = Len(out) + 1
  BY AppendLines
<1> HIDE DEF new
<1>2. Answered(new, t) <=> Answered(out, t) \/ (m.event = "Handled" /\ m.ticket = t)
  BY <1>1 DEF Answered
<1>3. Stopped(new, t) <=> Stopped(out, t) \/ (m.event = "Canceled" /\ m.ticket = t)
  BY <1>1 DEF Stopped
<1> QED BY <1>2, <1>3 DEF new

(* A line that carries the session as it is now.                           *)
LEMMA SessionsWritten ==
    ASSUME NEW h, NEW g, g.pending = h.pending, g.ckpt = h.ckpt, h.worker.alive,
           NEW out \in Seq(OutputLines), NEW m \in OutputLines, NEW new, new = Append(out, m),
           NEW s, NEW t, Sessions(h, out, s), m.ckpt = Checkpoint(t),
           Checkpoint(t) = Checkpoint(s) \/ Changes(h, m)
    PROVE  Sessions(g, new, t)
<1> DEFINE l == Len(out)
<1>1. /\ l \in Nat /\ Len(new) = l + 1 /\ new[l + 1] = m
      /\ DOMAIN out = 1..l /\ \A k \in DOMAIN out : new[k] = out[k]
  BY WroteOne
<1> HIDE DEF l
<1>2. \A i \in 0..l : At(g, new, i) = At(h, out, i)
  BY <1>1 DEF At
<1>3. At(g, new, l + 1) = Checkpoint(t)
  BY <1>1 DEF At
<1>4. \A k \in 1..l : Changes(h, out[k]) => Changes(g, new[k])
  BY <1>1 DEF Changes
<1>5. ASSUME NEW i \in 0..l, NEW j \in 0..l, i <= j
      PROVE  Unchanged(g, new, i, j, At(g, new, j))
  <2>1. Unchanged(h, out, i, j, At(h, out, j))
    BY <1>1, <1>5 DEF Sessions, l
  <2> QED BY <1>1, <1>2, <1>4, <2>1 DEF Unchanged
<1>6. ASSUME NEW i \in 0..(l + 1) PROVE Unchanged(g, new, i, l + 1, Checkpoint(t))
  <2>1. CASE i = l + 1
    BY <1>3, <2>1 DEF Unchanged
  <2>2. CASE i \in 0..l /\ Changes(h, m)
    <3>1. Changes(g, new[l + 1])
      BY <1>1, <2>2 DEF Changes
    <3>2. l + 1 \in (i + 1)..(l + 1)
      BY <1>1, <2>2
    <3> QED BY <3>1, <3>2 DEF Unchanged
  <2>3. CASE i \in 0..l /\ Checkpoint(t) = Checkpoint(s)
    <3>1. Unchanged(h, out, i, l, Checkpoint(s))
      BY <1>1, <2>3 DEF Sessions, l
    <3>2. CASE At(h, out, i) = Checkpoint(s)
      BY <1>2, <2>3, <3>2 DEF Unchanged
    <3>3. CASE \E k \in (i + 1)..l : Changes(h, out[k])
      <4>1. PICK k \in (i + 1)..l : Changes(h, out[k])
        BY <3>3
      <4>2. k \in 1..l /\ k \in (i + 1)..(l + 1)
        BY <1>1, <2>3, <4>1
      <4> QED BY <1>4, <4>1, <4>2 DEF Unchanged
    <3> QED BY <3>1, <3>2, <3>3 DEF Unchanged
  <2> QED BY <1>1, <2>1, <2>2, <2>3
<1>7. \A i, j \in 0..Len(new) : i <= j => Unchanged(g, new, i, j, At(g, new, j))
  <2> SUFFICES ASSUME NEW i \in 0..(l + 1), NEW j \in 0..(l + 1), i <= j
               PROVE  Unchanged(g, new, i, j, At(g, new, j))
    BY <1>1
  <2>1. CASE j = l + 1
    BY <1>3, <1>6, <2>1
  <2>2. CASE j \in 0..l
    <3>1. i \in 0..l
      BY <1>1, <2>2
    <3> QED BY <1>5, <2>2, <3>1
  <2> QED BY <1>1, <2>1, <2>2
<1>8. \A i \in 0..Len(new) : Unchanged(g, new, i, Len(new), Checkpoint(t))
  BY <1>1, <1>6
<1> QED BY <1>7, <1>8 DEF Sessions

---------------------------------------------------------------------------
(* Steps of the worker.                                                    *)

(* m answers the dispatch at the head of the queue: what ran under its     *)
(* ticket, and the session afterwards, are as it says.                     *)
Answers1(h, g, s, did, m, s2, run, did2) ==
    /\ Frame(h, g) /\ g.worker = h.worker /\ h.worker.alive
    /\ h.input # <<>> /\ g.input = Tail(h.input) /\ h.input[1].type = "Dispatch"
    /\ m \in OutputLines /\ m.event = "Handled" /\ m.ticket = h.input[1].ticket
    /\ m.reply \in {"ok", "unresolved", "error", "uncertain"} /\ m.ckpt = Checkpoint(s2)
    /\ LET behavior == Route(h.input[1].req.tool) IN
          /\ Checkpoint(s2) = Checkpoint(s) \/ behavior = "Session"
          /\ run # {} => behavior = "Mutation"
          /\ behavior = "Mutation" =>
                (m.reply \in {"ok", "unresolved"} => run # {}) /\ (m.reply = "error" => run = {})
    /\ \A t : Began(did2, t) <=> Began(did, t) \/ (t = m.ticket /\ run # {})

(* A dispatch is answered.                                                 *)
LEMMA AnswerWorks ==
    ASSUME NEW n, NEW h, HostTyped(h, n), Tickets(h), NEW g,
           NEW act, NEW out \in Seq(OutputLines), NEW s, NEW did, NEW may,
           Work(h, act, out, s, did, may), NEW m, NEW s2, NEW run, NEW did2,
           Answers1(h, g, s, did, m, s2, run, did2)
    PROVE  Work(g, act, Append(out, m), s2, did2, may)
<1> DEFINE behavior == Route(h.input[1].req.tool)
           new == Append(out, m)
<1>a. /\ Frame(h, g) /\ g.worker = h.worker /\ h.worker.alive
      /\ h.input # <<>> /\ g.input = Tail(h.input) /\ h.input[1].type = "Dispatch"
      /\ m \in OutputLines /\ m.event = "Handled" /\ m.ticket = h.input[1].ticket
      /\ m.reply \in {"ok", "unresolved", "error", "uncertain"} /\ m.ckpt = Checkpoint(s2)
      /\ Checkpoint(s2) = Checkpoint(s) \/ behavior = "Session"
      /\ run # {} => behavior = "Mutation"
      /\ behavior = "Mutation" => (m.reply \in {"ok", "unresolved"} => run # {}) /\ (m.reply = "error" => run = {})
      /\ new = Append(out, m)
  BY DEF Answers1
<1>b. \A u : Began(did2, u) <=> Began(did, u) \/ (u = m.ticket /\ run # {})
  BY DEF Answers1
<1> HIDE DEF behavior, new
<1> USE <1>a, <1>b
<1>0. behavior = Route(h.input[1].req.tool)
  BY DEF behavior
<1> USE <1>0
<1> DEFINE t == m.ticket
           ranIt == run # {}
<1>1. /\ g.pending = h.pending /\ g.answers = h.answers /\ g.ckpt = h.ckpt
  BY DEF Frame
<1>2. /\ 1 \in DOMAIN h.input
      /\ \A k \in DOMAIN g.input :
            k \in Nat /\ k > 0 /\ k + 1 \in DOMAIN h.input /\ g.input[k] = h.input[k + 1]
  BY ReadOne
<1>3. \A u : Sent(h, u) <=> u = t \/ Sent(g, u)
  <2>1. \A u : Sent(h, u) <=>
           (h.input[1].type = "Dispatch" /\ h.input[1].ticket = u) \/ Sent(g, u)
    BY ReadOne
  <2> QED BY <2>1
<1>4. /\ Len(out) \in Nat /\ Len(new) = Len(out) + 1 /\ new[Len(out) + 1] = m
      /\ DOMAIN out = 1..Len(out) /\ DOMAIN new = 1..(Len(out) + 1)
      /\ \A k \in DOMAIN out : k \in DOMAIN new /\ new[k] = out[k]
      /\ \A k \in DOMAIN new : k \in DOMAIN out \/ k = Len(out) + 1
  BY WroteOne
<1>5. \A u : Answered(new, u) <=> Answered(out, u) \/ t = u
  <2>1. \A u : Answered(new, u) <=> Answered(out, u) \/ (m.event = "Handled" /\ m.ticket = u)
    BY WroteWhich
  <2> QED BY <2>1
<1>6. \A u : Stopped(new, u) <=> Stopped(out, u)
  <2>1. \A u : Stopped(new, u) <=> Stopped(out, u) \/ (m.event = "Canceled" /\ m.ticket = u)
    BY WroteWhich
  <2> QED BY <2>1
<1>7. /\ t \in Nat /\ \A k \in DOMAIN out : out[k].ticket \in Nat
  <2>1. \A k \in DOMAIN out : out[k] \in OutputLines
    OBVIOUS
  <2> QED BY <2>1 DEF OutputLines
<1>8. Working(h, t) /\ h.pending[t].behavior = behavior
  BY <1>2 DEF Work, Lines
<1>9. t \in DOMAIN h.answers /\ h.answers[t].behavior = behavior /\ h.answers[t].reply = "none"
  BY <1>8, SMTT(20) DEF Working, Tickets, HostTyped
<1>10. Sent(h, t) /\ ~Sent(g, t)
  <2>1. ASSUME NEW k \in DOMAIN g.input, g.input[k].type = "Dispatch", g.input[k].ticket = t
        PROVE  FALSE
    <3>1. k + 1 = 1
      BY <1>2, <2>1 DEF Work, OnePlace
    <3> QED BY <1>2, <2>1, <3>1
  <2> QED BY <1>3, <2>1 DEF Sent
<1>11. t \notin act /\ ~Answered(out, t) /\ ~Begins(did, may, t)
  BY <1>7, <1>10 DEF Work, OnePlace, Truths
<1>12. ASSUME NEW k \in DOMAIN out, out[k].event = "Handled" PROVE out[k].ticket # t
  BY <1>11, <1>12 DEF Answered
<1>13. ASSUME NEW k \in DOMAIN out, out[k].event = "Canceled" PROVE out[k].ticket # t
  <2>1. ~Sent(h, out[k].ticket)
    BY <1>13 DEF Work, Cancels
  <2> QED BY <2>1, <1>10
<1> HIDE DEF t
<1>14. Link(g, new)
  BY <1>1 DEF Work, Link
<1>15. Lines(g, act, new)
  <2>1. Lines(h, act, out)
    BY DEF Work
  <2>2. ASSUME NEW u \in Nat, Answered(new, u) PROVE Working(g, u)
    BY <1>1, <1>5, <1>8, <2>1, <2>2 DEF Lines, Working
  <2>3. ASSUME NEW k \in DOMAIN g.input, g.input[k].type = "Dispatch"
        PROVE  /\ Working(g, g.input[k].ticket)
               /\ g.pending[g.input[k].ticket].behavior = Route(g.input[k].req.tool)
    BY <1>1, <1>2, <2>1, <2>3 DEF Lines, Working
  <2>4. ASSUME NEW u \in act PROVE Working(g, u) /\ g.pending[u].behavior = "Wait"
    BY <1>1, <2>1 DEF Lines, Working
  <2> QED BY <2>2, <2>3, <2>4 DEF Lines
<1>16. OnePlace(g, act, new)
  <2>1. OnePlace(h, act, out)
    BY DEF Work
  <2>2. ASSUME NEW j \in DOMAIN g.input, NEW k \in DOMAIN g.input,
               g.input[j].type = "Dispatch", g.input[k].type = "Dispatch",
               g.input[j].ticket = g.input[k].ticket
        PROVE  j = k
    <3>1. j + 1 = k + 1
      BY <1>2, <2>1, <2>2 DEF OnePlace
    <3> QED BY <1>2, <3>1
  <2>3. ASSUME NEW u \in Nat, Sent(g, u) PROVE u \notin act /\ ~Answered(new, u)
    BY <1>3, <1>5, <1>10, <2>1, <2>3 DEF OnePlace
  <2>4. ASSUME NEW u \in act PROVE ~Answered(new, u)
    BY <1>5, <1>11, <2>1 DEF OnePlace
  <2>5. ASSUME NEW j \in DOMAIN new, NEW k \in DOMAIN new,
               new[j].event = "Handled", new[k].event = "Handled", new[j].ticket = new[k].ticket
        PROVE  j = k
    BY <1>4, <1>12, <2>1, <2>5 DEF OnePlace, t
  <2> QED BY <2>2, <2>3, <2>4, <2>5 DEF OnePlace
<1>17. Cancels(g, act, new)
  <2>1. Cancels(h, act, out)
    BY DEF Work
  <2>2. \A u : Forgotten(h, u) => Forgotten(g, u)
    BY <1>1 DEF Forgotten
  <2>3. ASSUME NEW k \in DOMAIN g.input, g.input[k].type = "Cancel"
        PROVE  /\ Forgotten(g, g.input[k].ticket)
               /\ \A j \in DOMAIN g.input :
                     j > k /\ g.input[j].type = "Dispatch" => g.input[j].ticket # g.input[k].ticket
    <3>1. \A j \in DOMAIN g.input : j > k => j + 1 > k + 1
      BY <1>2
    <3> QED BY <1>2, <2>1, <2>2, <2>3, <3>1 DEF Cancels
  <2>4. ASSUME NEW k \in DOMAIN new, new[k].event = "Canceled"
        PROVE  /\ Forgotten(g, new[k].ticket)
               /\ ~Sent(g, new[k].ticket) /\ new[k].ticket \notin act
               /\ \A j \in DOMAIN new :
                     j > k /\ new[j].event = "Handled" => new[j].ticket # new[k].ticket
    <3>1. k \in DOMAIN out /\ new[k] = out[k]
      BY <1>4, <2>4
    <3>2. /\ Forgotten(h, out[k].ticket) /\ ~Sent(h, out[k].ticket) /\ out[k].ticket \notin act
          /\ \A j \in DOMAIN out :
                j > k /\ out[j].event = "Handled" => out[j].ticket # out[k].ticket
      BY <2>1, <2>4, <3>1 DEF Cancels
    <3>3. out[k].ticket # t
      BY <1>13, <2>4, <3>1
    <3> QED BY <1>3, <1>4, <2>2, <3>1, <3>2, <3>3 DEF t
  <2> QED BY <2>3, <2>4 DEF Cancels
<1>18. Somewhere(g, act, new)
  BY <1>1, <1>3, <1>5, <1>6 DEF Work, Somewhere
<1>19. Sessions(g, new, s2)
  <2>1. Checkpoint(s2) = Checkpoint(s) \/ Changes(h, m)
    BY <1>8 DEF Changes, Working, t
  <2> QED BY <1>1, <2>1, SessionsWritten DEF Work
<1>20. Truths(g, new, did2, may)
  <2>1. Truths(h, out, did, may) /\ Lines(h, act, out)
    BY DEF Work
  <2>2. \A u : Begins(did2, may, u) <=> Begins(did, may, u) \/ (u = t /\ ranIt)
    BY DEF Begins, t
  <2>3. ASSUME NEW u \in Nat, Begins(did2, may, u)
        PROVE  /\ u \in DOMAIN g.answers /\ g.answers[u].behavior = "Mutation"
               /\ g.answers[u].reply \in Open
    BY <1>1, <1>9, <2>1, <2>2, <2>3 DEF Truths, Open
  <2>4. ASSUME NEW u \in Nat, Sent(g, u) PROVE ~Begins(did2, may, u)
    BY <1>3, <1>10, <2>1, <2>2, <2>4 DEF Truths
  <2>5. ASSUME NEW k \in DOMAIN new, new[k].event = "Handled",
               g.answers[new[k].ticket].behavior = "Mutation"
        PROVE  /\ new[k].reply \in {"ok", "unresolved", "error", "uncertain"}
               /\ new[k].reply \in {"ok", "unresolved"} => Began(did2, new[k].ticket)
               /\ new[k].reply = "error" => ~Begins(did2, may, new[k].ticket)
    <3>1. CASE k \in DOMAIN out
      <4>1. new[k] = out[k] /\ out[k].ticket # t
        BY <1>4, <1>12, <2>5, <3>1
      <4> QED BY <1>1, <2>1, <2>2, <2>5, <3>1, <4>1 DEF Truths
    <3>2. CASE k = Len(out) + 1
      <4>1. new[k] = m /\ behavior = "Mutation"
        BY <1>1, <1>4, <1>9, <2>5, <3>2 DEF t
      <4> QED BY <1>11, <2>2, <4>1 DEF t
    <3> QED BY <1>4, <3>1, <3>2
  <2>6. ASSUME NEW u \in DOMAIN g.answers, g.answers[u].behavior = "Mutation",
               g.answers[u].reply \in {"ok", "unresolved"}
        PROVE  Began(did2, u)
    BY <1>1, <2>1, <2>6 DEF Truths
  <2> QED BY <2>3, <2>4, <2>5, <2>6 DEF Truths
<1>21. Work(g, act, new, s2, did2, may)
  BY <1>14, <1>15, <1>16, <1>17, <1>18, <1>19, <1>20 DEF Work
<1> QED BY <1>21 DEF new

(* A dispatch becomes an event wait.                                       *)
LEMMA WaitWorks ==
    ASSUME NEW n, NEW h, HostTyped(h, n), Tickets(h), NEW g, Frame(h, g), g.worker = h.worker,
           h.worker.alive, h.input # <<>>, g.input = Tail(h.input), h.input[1].type = "Dispatch",
           NEW act, NEW out \in Seq(OutputLines), NEW s, NEW did, NEW may,
           Work(h, act, out, s, did, may), NEW s2, Checkpoint(s2) = Checkpoint(s),
           Route(h.input[1].req.tool) = "Wait"
    PROVE  Work(g, act \cup {h.input[1].ticket}, out, s2, did, may)
<1> DEFINE t == h.input[1].ticket
           acts == act \cup {t}
<1>1. /\ g.pending = h.pending /\ g.answers = h.answers /\ g.ckpt = h.ckpt
  BY DEF Frame
<1>2. /\ 1 \in DOMAIN h.input /\ t \in Nat
      /\ \A k \in DOMAIN g.input :
            k \in Nat /\ k > 0 /\ k + 1 \in DOMAIN h.input /\ g.input[k] = h.input[k + 1]
  <2>1. h.input[1] \in InputLines
    BY ReadOne
  <2> QED BY <2>1, ReadOne DEF InputLines
<1>3. \A u : Sent(h, u) <=> u = t \/ Sent(g, u)
  <2>1. \A u : Sent(h, u) <=>
           (h.input[1].type = "Dispatch" /\ h.input[1].ticket = u) \/ Sent(g, u)
    BY ReadOne
  <2> QED BY <2>1
<1>8. Working(h, t) /\ h.pending[t].behavior = "Wait"
  BY <1>2 DEF Work, Lines
<1>10. Sent(h, t) /\ ~Sent(g, t)
  <2>1. ASSUME NEW k \in DOMAIN g.input, g.input[k].type = "Dispatch", g.input[k].ticket = t
        PROVE  FALSE
    <3>1. k + 1 = 1
      BY <1>2, <2>1 DEF Work, OnePlace
    <3> QED BY <1>2, <2>1, <3>1
  <2> QED BY <1>3, <2>1 DEF Sent
<1>11. ~Answered(out, t)
  BY <1>2, <1>10 DEF Work, OnePlace
<1>13. ASSUME NEW k \in DOMAIN out, out[k].event = "Canceled" PROVE out[k].ticket # t
  <2>1. ~Sent(h, out[k].ticket)
    BY <1>13 DEF Work, Cancels
  <2> QED BY <2>1, <1>10
<1> HIDE DEF t
<1>14. Link(g, out)
  BY <1>1 DEF Work, Link
<1>15. Lines(g, acts, out)
  <2>1. Lines(h, act, out)
    BY DEF Work
  <2>2. ASSUME NEW u \in Nat, Answered(out, u) PROVE Working(g, u)
    BY <1>1, <2>1, <2>2 DEF Lines, Working
  <2>3. ASSUME NEW k \in DOMAIN g.input, g.input[k].type = "Dispatch"
        PROVE  /\ Working(g, g.input[k].ticket)
               /\ g.pending[g.input[k].ticket].behavior = Route(g.input[k].req.tool)
    BY <1>1, <1>2, <2>1, <2>3 DEF Lines, Working
  <2>4. ASSUME NEW u \in acts PROVE Working(g, u) /\ g.pending[u].behavior = "Wait"
    BY <1>1, <1>8, <2>1 DEF Lines, Working
  <2> QED BY <2>2, <2>3, <2>4 DEF Lines
<1>16. OnePlace(g, acts, out)
  <2>1. OnePlace(h, act, out)
    BY DEF Work
  <2>2. ASSUME NEW j \in DOMAIN g.input, NEW k \in DOMAIN g.input,
               g.input[j].type = "Dispatch", g.input[k].type = "Dispatch",
               g.input[j].ticket = g.input[k].ticket
        PROVE  j = k
    <3>1. j + 1 = k + 1
      BY <1>2, <2>1, <2>2 DEF OnePlace
    <3> QED BY <1>2, <3>1
  <2>3. ASSUME NEW u \in Nat, Sent(g, u) PROVE u \notin acts /\ ~Answered(out, u)
    BY <1>3, <1>10, <2>1, <2>3 DEF OnePlace
  <2>4. ASSUME NEW u \in acts PROVE ~Answered(out, u)
    BY <1>11, <2>1 DEF OnePlace
  <2> HIDE DEF acts
  <2> QED BY <2>1, <2>2, <2>3, <2>4 DEF OnePlace
<1>17. Cancels(g, acts, out)
  <2>1. Cancels(h, act, out)
    BY DEF Work
  <2>2. \A u : Forgotten(h, u) => Forgotten(g, u)
    BY <1>1 DEF Forgotten
  <2>3. ASSUME NEW k \in DOMAIN g.input, g.input[k].type = "Cancel"
        PROVE  /\ Forgotten(g, g.input[k].ticket)
               /\ \A j \in DOMAIN g.input :
                     j > k /\ g.input[j].type = "Dispatch" => g.input[j].ticket # g.input[k].ticket
    <3>1. \A j \in DOMAIN g.input : j > k => j + 1 > k + 1
      BY <1>2
    <3> QED BY <1>2, <2>1, <2>2, <2>3, <3>1 DEF Cancels
  <2>4. ASSUME NEW k \in DOMAIN out, out[k].event = "Canceled"
        PROVE  /\ Forgotten(g, out[k].ticket)
               /\ ~Sent(g, out[k].ticket) /\ out[k].ticket \notin acts
               /\ \A j \in DOMAIN out :
                     j > k /\ out[j].event = "Handled" => out[j].ticket # out[k].ticket
    <3>1. out[k].ticket # t
      BY <1>13, <2>4
    <3> QED BY <1>3, <2>1, <2>2, <2>4, <3>1 DEF Cancels
  <2> HIDE DEF acts
  <2> QED BY <2>3, <2>4 DEF Cancels
<1>18. Somewhere(g, acts, out)
  BY <1>1, <1>3 DEF Work, Somewhere
<1>19. Sessions(g, out, s2)
  <2>1. Sessions(h, out, s)
    BY DEF Work
  <2>2. \A u : Changes(h, u) <=> Changes(g, u)
    BY <1>1 DEF Changes
  <2> QED BY <1>1, <2>1, <2>2 DEF Sessions, Unchanged, At
<1>20. Truths(g, out, did, may)
  <2>1. Truths(h, out, did, may)
    BY DEF Work
  <2> QED BY <1>1, <1>3, <2>1 DEF Truths
<1> HIDE DEF acts
<1>21. Work(g, acts, out, s2, did, may)
  BY <1>14, <1>15, <1>16, <1>17, <1>18, <1>19, <1>20 DEF Work
<1> QED BY <1>21 DEF acts, t

(* A cancellation is read: a wait under that ticket ends.                  *)
LEMMA CancelWorks ==
    ASSUME NEW n, NEW h, HostTyped(h, n), Tickets(h), NEW g, Frame(h, g), g.worker = h.worker,
           h.worker.alive, h.input # <<>>, g.input = Tail(h.input), h.input[1].type = "Cancel",
           NEW act, NEW out \in Seq(OutputLines), NEW s, NEW did, NEW may,
           Work(h, act, out, s, did, may),
           NEW m \in OutputLines, m.event = "Canceled", m.ticket = h.input[1].ticket,
           m.ckpt = Checkpoint(s), NEW new, new = Append(out, m)
    PROVE  Work(g, act \ {m.ticket}, new, s, did, may)
<1> DEFINE t == m.ticket
           acts == act \ {t}
<1>1. /\ g.pending = h.pending /\ g.answers = h.answers /\ g.ckpt = h.ckpt
  BY DEF Frame
<1>2. /\ 1 \in DOMAIN h.input
      /\ \A k \in DOMAIN g.input :
            k \in Nat /\ k > 0 /\ k + 1 \in DOMAIN h.input /\ g.input[k] = h.input[k + 1]
  BY ReadOne
<1>3. \A u : Sent(h, u) <=> Sent(g, u)
  <2>1. \A u : Sent(h, u) <=>
           (h.input[1].type = "Dispatch" /\ h.input[1].ticket = u) \/ Sent(g, u)
    BY ReadOne
  <2> QED BY <2>1
<1>4. /\ Len(out) \in Nat /\ Len(new) = Len(out) + 1 /\ new[Len(out) + 1] = m
      /\ DOMAIN out = 1..Len(out) /\ DOMAIN new = 1..(Len(out) + 1)
      /\ \A k \in DOMAIN out : k \in DOMAIN new /\ new[k] = out[k]
      /\ \A k \in DOMAIN new : k \in DOMAIN out \/ k = Len(out) + 1
  BY WroteOne
<1>5. \A u : Answered(new, u) <=> Answered(out, u)
  <2>1. \A u : Answered(new, u) <=> Answered(out, u) \/ (m.event = "Handled" /\ m.ticket = u)
    BY WroteWhich
  <2> QED BY <2>1
<1>6. \A u : Stopped(new, u) <=> Stopped(out, u) \/ t = u
  <2>1. \A u : Stopped(new, u) <=> Stopped(out, u) \/ (m.event = "Canceled" /\ m.ticket = u)
    BY WroteWhich
  <2> QED BY <2>1
<1>7. Forgotten(h, t) /\ ~Sent(g, t)
  <2>1. /\ Forgotten(h, t)
        /\ \A j \in DOMAIN h.input : j > 1 /\ h.input[j].type = "Dispatch" => h.input[j].ticket # t
    BY <1>2 DEF Work, Cancels
  <2>2. \A k \in DOMAIN g.input : k + 1 > 1
    BY <1>2
  <2> QED BY <1>2, <2>1, <2>2 DEF Sent
<1> HIDE DEF t
<1>8. Link(g, new)
  BY <1>1 DEF Work, Link
<1>9. Lines(g, acts, new)
  <2>1. Lines(h, act, out)
    BY DEF Work
  <2>2. ASSUME NEW u \in Nat, Answered(new, u) PROVE Working(g, u)
    BY <1>1, <1>5, <2>1, <2>2 DEF Lines, Working
  <2>3. ASSUME NEW k \in DOMAIN g.input, g.input[k].type = "Dispatch"
        PROVE  /\ Working(g, g.input[k].ticket)
               /\ g.pending[g.input[k].ticket].behavior = Route(g.input[k].req.tool)
    BY <1>1, <1>2, <2>1, <2>3 DEF Lines, Working
  <2>4. ASSUME NEW u \in acts PROVE Working(g, u) /\ g.pending[u].behavior = "Wait"
    BY <1>1, <2>1 DEF Lines, Working
  <2> QED BY <2>2, <2>3, <2>4 DEF Lines
<1>10. OnePlace(g, acts, new)
  <2>1. OnePlace(h, act, out)
    BY DEF Work
  <2>2. ASSUME NEW j \in DOMAIN g.input, NEW k \in DOMAIN g.input,
               g.input[j].type = "Dispatch", g.input[k].type = "Dispatch",
               g.input[j].ticket = g.input[k].ticket
        PROVE  j = k
    <3>1. j + 1 = k + 1
      BY <1>2, <2>1, <2>2 DEF OnePlace
    <3> QED BY <1>2, <3>1
  <2>3. ASSUME NEW u \in Nat, Sent(g, u) PROVE u \notin acts /\ ~Answered(new, u)
    BY <1>3, <1>5, <2>1, <2>3 DEF OnePlace
  <2>4. ASSUME NEW u \in acts PROVE ~Answered(new, u)
    BY <1>5, <2>1 DEF OnePlace
  <2>5. ASSUME NEW j \in DOMAIN new, NEW k \in DOMAIN new,
               new[j].event = "Handled", new[k].event = "Handled", new[j].ticket = new[k].ticket
        PROVE  j = k
    <3>1. j \in DOMAIN out /\ k \in DOMAIN out
      BY <1>4, <2>5
    <3> QED BY <1>4, <2>1, <2>5, <3>1 DEF OnePlace
  <2> HIDE DEF acts
  <2> QED BY <2>2, <2>3, <2>4, <2>5 DEF OnePlace
<1>11. Cancels(g, acts, new)
  <2>1. Cancels(h, act, out)
    BY DEF Work
  <2>2. \A u : Forgotten(h, u) => Forgotten(g, u)
    BY <1>1 DEF Forgotten
  <2>3. ASSUME NEW k \in DOMAIN g.input, g.input[k].type = "Cancel"
        PROVE  /\ Forgotten(g, g.input[k].ticket)
               /\ \A j \in DOMAIN g.input :
                     j > k /\ g.input[j].type = "Dispatch" => g.input[j].ticket # g.input[k].ticket
    <3>1. \A j \in DOMAIN g.input : j > k => j + 1 > k + 1
      BY <1>2
    <3> QED BY <1>2, <2>1, <2>2, <2>3, <3>1 DEF Cancels
  <2>4. ASSUME NEW k \in DOMAIN new, new[k].event = "Canceled"
        PROVE  /\ Forgotten(g, new[k].ticket)
               /\ ~Sent(g, new[k].ticket) /\ new[k].ticket \notin acts
               /\ \A j \in DOMAIN new :
                     j > k /\ new[j].event = "Handled" => new[j].ticket # new[k].ticket
    <3>1. CASE k \in DOMAIN out
      <4>1. /\ Forgotten(h, out[k].ticket) /\ ~Sent(h, out[k].ticket) /\ out[k].ticket \notin act
            /\ \A j \in DOMAIN out :
                  j > k /\ out[j].event = "Handled" => out[j].ticket # out[k].ticket
        BY <1>4, <2>1, <2>4, <3>1 DEF Cancels
      <4>2. new[k] = out[k]
        BY <1>4, <3>1
      <4>3. ASSUME NEW j \in DOMAIN new, j > k, new[j].event = "Handled"
            PROVE  new[j].ticket # new[k].ticket
        <5>1. j \in DOMAIN out /\ new[j] = out[j]
          BY <1>4, <4>3
        <5> QED BY <4>1, <4>2, <4>3, <5>1
      <4> QED BY <1>3, <2>2, <4>1, <4>2, <4>3
    <3>2. CASE k = Len(out) + 1
      <4>1. new[k].ticket = t /\ \A j \in DOMAIN new : ~(j > k)
        BY <1>4, <3>2 DEF t
      <4> QED BY <1>7, <2>2, <4>1
    <3> QED BY <1>4, <3>1, <3>2
  <2> HIDE DEF acts
  <2> QED BY <2>3, <2>4 DEF Cancels
<1>12. Somewhere(g, acts, new)
  BY <1>1, <1>3, <1>5, <1>6 DEF Work, Somewhere
<1>13. Sessions(g, new, s)
  BY <1>1, SessionsWritten DEF Work
<1>14. Truths(g, new, did, may)
  <2>1. Truths(h, out, did, may)
    BY DEF Work
  <2>2. ASSUME NEW k \in DOMAIN new, new[k].event = "Handled"
        PROVE  k \in DOMAIN out /\ new[k] = out[k]
    BY <1>4, <2>2
  <2> QED BY <1>1, <1>3, <2>1, <2>2 DEF Truths
<1> HIDE DEF acts
<1>15. Work(g, acts, new, s, did, may)
  BY <1>8, <1>9, <1>10, <1>11, <1>12, <1>13, <1>14 DEF Work
<1> QED BY <1>15 DEF acts, t

(* A wait ends.                                                            *)
LEMMA EndWorks ==
    ASSUME NEW n, NEW h, HostTyped(h, n), Tickets(h), h.worker.alive,
           NEW act, NEW out \in Seq(OutputLines), NEW s, NEW did, NEW may,
           Work(h, act, out, s, did, may),
           NEW m \in OutputLines, m.event = "Handled", m.ticket \in act,
           m.ckpt = Checkpoint(s), NEW new, new = Append(out, m)
    PROVE  Work(h, act \ {m.ticket}, new, s, did, may)
<1> DEFINE t == m.ticket
           acts == act \ {t}
<1>1. /\ Len(out) \in Nat /\ Len(new) = Len(out) + 1 /\ new[Len(out) + 1] = m
      /\ DOMAIN out = 1..Len(out) /\ DOMAIN new = 1..(Len(out) + 1)
      /\ \A k \in DOMAIN out : k \in DOMAIN new /\ new[k] = out[k]
      /\ \A k \in DOMAIN new : k \in DOMAIN out \/ k = Len(out) + 1
  BY WroteOne
<1>2. \A u : Answered(new, u) <=> Answered(out, u) \/ t = u
  <2>1. \A u : Answered(new, u) <=> Answered(out, u) \/ (m.event = "Handled" /\ m.ticket = u)
    BY WroteWhich
  <2> QED BY <2>1
<1>3. \A u : Stopped(new, u) <=> Stopped(out, u)
  <2>1. \A u : Stopped(new, u) <=> Stopped(out, u) \/ (m.event = "Canceled" /\ m.ticket = u)
    BY WroteWhich
  <2> QED BY <2>1
<1>4. t \in Nat
  BY DEF OutputLines
<1>5. Working(h, t) /\ h.pending[t].behavior = "Wait" /\ ~Answered(out, t) /\ ~Sent(h, t)
  BY <1>4 DEF Work, Lines, OnePlace
<1>6. h.answers[t].behavior = "Wait"
  BY <1>5 DEF Working, Tickets
<1>7. ASSUME NEW k \in DOMAIN out, out[k].event = "Handled" PROVE out[k].ticket # t
  BY <1>5, <1>7 DEF Answered
<1>8. ASSUME NEW k \in DOMAIN out, out[k].event = "Canceled" PROVE out[k].ticket # t
  BY <1>8 DEF Work, Cancels
<1> HIDE DEF t
<1>9. Link(h, new)
  BY DEF Work, Link
<1>10. Lines(h, acts, new)
  BY <1>2, <1>5 DEF Work, Lines
<1>11. OnePlace(h, acts, new)
  <2>1. OnePlace(h, act, out)
    BY DEF Work
  <2>2. ASSUME NEW u \in Nat, Sent(h, u) PROVE u \notin acts /\ ~Answered(new, u)
    BY <1>2, <1>5, <2>1, <2>2 DEF OnePlace
  <2>3. ASSUME NEW u \in acts PROVE ~Answered(new, u)
    BY <1>2, <2>1 DEF OnePlace
  <2>4. ASSUME NEW j \in DOMAIN new, NEW k \in DOMAIN new,
               new[j].event = "Handled", new[k].event = "Handled", new[j].ticket = new[k].ticket
        PROVE  j = k
    BY <1>1, <1>7, <2>1, <2>4 DEF OnePlace, t
  <2> HIDE DEF acts
  <2> QED BY <2>1, <2>2, <2>3, <2>4 DEF OnePlace
<1>12. Cancels(h, acts, new)
  <2>1. Cancels(h, act, out)
    BY DEF Work
  <2>2. ASSUME NEW k \in DOMAIN new, new[k].event = "Canceled"
        PROVE  /\ Forgotten(h, new[k].ticket)
               /\ ~Sent(h, new[k].ticket) /\ new[k].ticket \notin acts
               /\ \A j \in DOMAIN new :
                     j > k /\ new[j].event = "Handled" => new[j].ticket # new[k].ticket
    <3>1. k \in DOMAIN out /\ new[k] = out[k]
      BY <1>1, <2>2
    <3>2. /\ Forgotten(h, out[k].ticket) /\ ~Sent(h, out[k].ticket) /\ out[k].ticket \notin act
          /\ \A j \in DOMAIN out :
                j > k /\ out[j].event = "Handled" => out[j].ticket # out[k].ticket
      BY <2>1, <2>2, <3>1 DEF Cancels
    <3>3. out[k].ticket # t
      BY <1>8, <2>2, <3>1
    <3> QED BY <1>1, <3>1, <3>2, <3>3 DEF t
  <2> HIDE DEF acts
  <2> QED BY <2>1, <2>2 DEF Cancels
<1>13. Somewhere(h, acts, new)
  BY <1>2, <1>3 DEF Work, Somewhere
<1>14. Sessions(h, new, s)
  BY SessionsWritten DEF Work
<1>15. Truths(h, new, did, may)
  <2>1. Truths(h, out, did, may)
    BY DEF Work
  <2>2. ASSUME NEW k \in DOMAIN new, new[k].event = "Handled",
               h.answers[new[k].ticket].behavior = "Mutation"
        PROVE  k \in DOMAIN out /\ new[k] = out[k]
    BY <1>1, <1>6, <2>2 DEF t
  <2> QED BY <2>1, <2>2 DEF Truths
<1> HIDE DEF acts
<1>16. Work(h, acts, new, s, did, may)
  BY <1>9, <1>10, <1>11, <1>12, <1>13, <1>14, <1>15 DEF Work
<1> QED BY <1>16 DEF acts, t

(* The worker dies; mutations among the lines it had may still run.        *)
LEMMA DiesWorks ==
    ASSUME NEW n, NEW h, HostTyped(h, n), Tickets(h), NEW g, Frame(h, g),
           ~g.worker.alive, g.worker.running,
           g.input = <<>>,
           NEW act, NEW out \in Seq(OutputLines), NEW s, NEW did, NEW may,
           Work(h, act, out, s, did, may), NEW may2,
           \A t : Began(may2, t) =>
               Began(may, t) \/ (Sent(h, t) /\ t \in Nat /\ Working(h, t)
                                     /\ h.pending[t].behavior = "Mutation")
    PROVE  Work(g, {}, out, s, did, may2)
<1>1. /\ g.pending = h.pending /\ g.answers = h.answers /\ g.ckpt = h.ckpt
  BY DEF Frame
<1>2. \A t : ~Sent(g, t)
  BY DEF Sent
<1>3. Link(g, out)
  BY DEF Link
<1>4. Lines(g, {}, out)
  BY <1>1 DEF Work, Lines, Working
<1>5. OnePlace(g, {}, out)
  BY <1>2 DEF Work, OnePlace
<1>6. Cancels(g, {}, out)
  BY <1>1, <1>2 DEF Work, Cancels, Forgotten
<1>7. Somewhere(g, {}, out)
  BY DEF Somewhere
<1>8. Sessions(g, out, s)
  <2>1. \A i, j \in 0..Len(out) : i <= j => Unchanged(h, out, i, j, At(h, out, j))
    BY DEF Work, Sessions
  <2>2. \A m : Changes(h, m) <=> Changes(g, m)
    BY <1>1 DEF Changes
  <2>3. \A i : At(h, out, i) = At(g, out, i)
    BY <1>1 DEF At
  <2>4. ASSUME NEW i, NEW j, NEW c, Unchanged(h, out, i, j, c) PROVE Unchanged(g, out, i, j, c)
    BY <2>2, <2>3, <2>4 DEF Unchanged
  <2> QED BY <2>1, <2>3, <2>4 DEF Sessions
<1>9. Truths(g, out, did, may2)
  <2>1. Truths(h, out, did, may) /\ OnePlace(h, act, out)
    BY DEF Work
  <2>2. ASSUME NEW t \in Nat, Begins(did, may2, t)
        PROVE  /\ t \in DOMAIN g.answers /\ g.answers[t].behavior = "Mutation"
               /\ g.answers[t].reply \in Open
    <3>1. CASE Begins(did, may, t)
      BY <1>1, <2>1, <3>1 DEF Truths
    <3>2. CASE Working(h, t) /\ h.pending[t].behavior = "Mutation"
      BY <1>1, <3>2 DEF Working, Tickets, HostTyped, Open
    <3> QED BY <2>2, <3>1, <3>2 DEF Begins
  <2>3. ASSUME NEW k \in DOMAIN out, out[k].event = "Handled",
               g.answers[out[k].ticket].behavior = "Mutation"
        PROVE  /\ out[k].reply \in {"ok", "unresolved", "error", "uncertain"}
               /\ out[k].reply \in {"ok", "unresolved"} => Began(did, out[k].ticket)
               /\ out[k].reply = "error" => ~Begins(did, may2, out[k].ticket)
    <3>1. /\ out[k].reply \in {"ok", "unresolved", "error", "uncertain"}
          /\ out[k].reply \in {"ok", "unresolved"} => Began(did, out[k].ticket)
          /\ out[k].reply = "error" => ~Begins(did, may, out[k].ticket)
      BY <1>1, <2>1, <2>3 DEF Truths
    <3>2. Answered(out, out[k].ticket)
      BY <2>3 DEF Answered
    <3>3. ~Sent(h, out[k].ticket) \/ out[k].ticket \notin Nat
      BY <2>1, <3>2 DEF OnePlace
    <3> QED BY <3>1, <3>3 DEF Begins
  <2> QED BY <1>1, <1>2, <2>1, <2>2, <2>3 DEF Truths
<1> QED BY <1>3, <1>4, <1>5, <1>6, <1>7, <1>8, <1>9 DEF Work

(* The mutations up to a line, counted, tell its lines apart.              *)
Rank(q, n) == Cardinality({k \in 1..n : Mutates(q[k])})

(* A later mutation counts for more.                                       *)
LEMMA RankGrows ==
    ASSUME NEW q, NEW m \in Nat, NEW n \in Nat, m < n, Mutates(q[n])
    PROVE  Rank(q, m) \in Nat /\ Rank(q, n) \in Nat /\ Rank(q, m) < Rank(q, n)
<1> DEFINE M == {k \in 1..m : Mutates(q[k])}
           N == {k \in 1..n : Mutates(q[k])}
<1>1. IsFiniteSet(1..n)
  BY FS_Interval
<1>2. M \subseteq N /\ n \in N /\ n \notin M /\ N \subseteq 1..n
  OBVIOUS
<1>3. IsFiniteSet(N)
  BY <1>1, <1>2, FS_Subset
<1>4. IsFiniteSet(M) /\ Cardinality(M) <= Cardinality(N) /\ (Cardinality(N) = Cardinality(M) => N = M)
  BY <1>2, <1>3, FS_Subset
<1>5. Cardinality(M) \in Nat /\ Cardinality(N) \in Nat
  BY <1>3, <1>4, FS_CardinalityType
<1> QED BY <1>2, <1>4, <1>5 DEF Rank

(* What a worker that goes away may still have sent: mutations it was      *)
(* given, each once, under keys that nothing else has.                     *)
LEMMA Leftovers ==
    ASSUME McpTyped, Work(Host, DOMAIN active, output, srv, ran, draining),
           NEW length \in Nat, length <= Len(input)
    PROVE  /\ Leftover(length) \subseteq Runs
           /\ \A d \in Leftover(length) :
                 /\ Sent(Host, d[1]) /\ d[1] \in Nat /\ Working(Host, d[1])
                 /\ Host.pending[d[1]].behavior = "Mutation"
                 /\ srv.link = "Connected" => d[2][1] = srv.key /\ d[2][2] > srv.seq
                 /\ srv.link # "Connected" => d[2][1] = nextKey
           /\ \A d, e \in Leftover(length) : d[1] = e[1] \/ d[2] = e[2] => d = e
<1> DEFINE base == IF srv.link = "Connected" THEN <<srv.key, srv.seq>> ELSE <<nextKey, 0>>
           b == base[1]
           c == base[2]
           L == Leftover(length)
           lines == {n \in 1..length : srv.init /\ Mutates(input[n])}
           D(n) == <<input[n].ticket, <<b, c + Rank(input, n)>>>>
<1>1. Host.input = input /\ input \in Seq(InputLines) /\ Len(input) \in Nat /\ DOMAIN input = 1..Len(input)
  <2>1. Host.input = input
    BY DEF Host
  <2>2. Host.input \in Seq(InputLines)
    BY DEF McpTyped, HostTyped
  <2> QED BY <2>1, <2>2
<1>2. L = {D(n) : n \in lines}
  BY DEF Leftover, Rank
<1>3. b \in Nat /\ c \in Nat
  BY DEF McpTyped, Server
<1>4. ASSUME NEW n \in lines
      PROVE  /\ n \in DOMAIN input /\ n \in 1..length /\ n \in Nat /\ Mutates(input[n])
             /\ input[n] \in InputLines /\ input[n].ticket \in Nat /\ input[n].type = "Dispatch"
             /\ Rank(input, n) \in Nat /\ Rank(input, n) > 0
             /\ Sent(Host, input[n].ticket) /\ Working(Host, input[n].ticket)
             /\ Host.pending[input[n].ticket].behavior = "Mutation"
  <2>1. n \in DOMAIN input /\ n \in Nat /\ n > 0 /\ Mutates(input[n])
    BY <1>1
  <2>2. input[n] \in InputLines
    BY <1>1, <2>1
  <2>3. input[n].ticket \in Nat /\ input[n].type = "Dispatch" /\ input[n].req \in Requests
        /\ Classify(input[n].req.tool) = "Mutating"
    BY <2>1, <2>2 DEF InputLines, Mutates
  <2>4. Route(input[n].req.tool) = "Mutation"
    BY <2>3, RequestForm, Routes
  <2>5. Sent(Host, input[n].ticket)
    BY <1>1, <2>1, <2>3 DEF Sent
  <2>6. /\ Working(Host, input[n].ticket)
        /\ Host.pending[input[n].ticket].behavior = Route(input[n].req.tool)
    BY <1>1, <2>1, <2>3 DEF Work, Lines
  <2>7. Rank(input, 0) \in Nat /\ Rank(input, n) \in Nat /\ Rank(input, 0) < Rank(input, n)
    BY <2>1, RankGrows
  <2> QED BY <2>1, <2>2, <2>3, <2>4, <2>5, <2>6, <2>7
<1>5. ASSUME NEW n \in lines, NEW m \in lines, input[n].ticket = input[m].ticket
      PROVE  n = m
  <2>1. OnePlace(Host, DOMAIN active, output)
    BY DEF Work
  <2> QED BY <1>1, <1>4, <1>5, <2>1 DEF OnePlace
<1>6. ASSUME NEW n \in lines, NEW m \in lines, Rank(input, n) = Rank(input, m)
      PROVE  n = m
  <2>1. n \in Nat /\ m \in Nat /\ Mutates(input[n]) /\ Mutates(input[m])
    BY <1>4
  <2>2. CASE n < m
    <3>1. Rank(input, n) \in Nat /\ Rank(input, m) \in Nat /\ Rank(input, n) < Rank(input, m)
      BY <2>1, <2>2, RankGrows
    <3> QED BY <1>6, <3>1
  <2>3. CASE m < n
    <3>1. Rank(input, n) \in Nat /\ Rank(input, m) \in Nat /\ Rank(input, m) < Rank(input, n)
      BY <2>1, <2>3, RankGrows
    <3> QED BY <1>6, <3>1
  <2> QED BY <2>1, <2>2, <2>3
<1>7. srv.link = "Connected" => b = srv.key /\ c = srv.seq
  OBVIOUS
<1>8. srv.link # "Connected" => b = nextKey
  OBVIOUS
<1> HIDE DEF b, c, lines, L
<1>9. ASSUME NEW n \in lines
      PROVE  /\ D(n) \in Runs /\ D(n)[1] = input[n].ticket /\ D(n)[2][1] = b
             /\ D(n)[2][2] = c + Rank(input, n)
  BY <1>3, <1>4 DEF Runs
<1>10. L \subseteq Runs
  BY <1>2, <1>9
<1>11. ASSUME NEW d \in L
       PROVE  /\ Sent(Host, d[1]) /\ d[1] \in Nat /\ Working(Host, d[1])
              /\ Host.pending[d[1]].behavior = "Mutation"
              /\ srv.link = "Connected" => d[2][1] = srv.key /\ d[2][2] > srv.seq
              /\ srv.link # "Connected" => d[2][1] = nextKey
  <2>1. PICK n \in lines : d = D(n)
    BY <1>2
  <2>2. d[1] = input[n].ticket /\ d[2][1] = b /\ d[2][2] = c + Rank(input, n)
    BY <1>9, <2>1
  <2>3. Rank(input, n) \in Nat /\ Rank(input, n) > 0
    BY <1>4
  <2>4. srv.link = "Connected" => d[2][1] = srv.key /\ d[2][2] > srv.seq
    BY <1>3, <1>7, <2>2, <2>3
  <2>5. srv.link # "Connected" => d[2][1] = nextKey
    BY <1>8, <2>2
  <2> QED BY <1>4, <2>2, <2>4, <2>5
<1>12. ASSUME NEW d \in L, NEW e \in L, d[1] = e[1] \/ d[2] = e[2]
       PROVE  d = e
  <2>1. PICK n \in lines : d = D(n)
    BY <1>2
  <2>2. PICK m \in lines : e = D(m)
    BY <1>2
  <2>3. n = m
    <3>1. CASE d[1] = e[1]
      BY <1>5, <1>9, <2>1, <2>2, <3>1
    <3>2. CASE d[2] = e[2]
      <4>1. c + Rank(input, n) = c + Rank(input, m)
        BY <1>9, <2>1, <2>2, <3>2
      <4>2. Rank(input, n) \in Nat /\ Rank(input, m) \in Nat
        BY <1>4
      <4> QED BY <1>3, <1>6, <4>1, <4>2
    <3> QED BY <1>12, <3>1, <3>2
  <2> QED BY <2>1, <2>2, <2>3
<1> QED BY <1>10, <1>11, <1>12 DEF L

---------------------------------------------------------------------------
(* The steps of the child process.                                         *)

(* The record of the host's state.                                         *)
LEMMA HostNow ==
    /\ IsHost(Host)
    /\ Host.pending = pending /\ Host.external = external /\ Host.queued = queued
    /\ Host.flight = flight /\ Host.ckpt = ckpt /\ Host.worker = worker
    /\ Host.answers = answers /\ Host.input = input /\ Host.task = task
    /\ Host.statuses = statuses
    BY DEF Host, IsHost

(* And after a step.                                                       *)
LEMMA HostNext ==
    /\ IsHost(Host')
    /\ Host'.pending = pending' /\ Host'.external = external' /\ Host'.queued = queued'
    /\ Host'.flight = flight' /\ Host'.ckpt = ckpt' /\ Host'.worker = worker'
    /\ Host'.answers = answers' /\ Host'.input = input' /\ Host'.task = task'
    /\ Host'.statuses = statuses'
    BY DEF Host, IsHost

(* A step of the child leaves the host alone, but for what it has read.    *)
LEMMA ChildSteps ==
    ASSUME McpInv, UNCHANGED <<hostVars, taskVars>>, input' \in Seq(InputLines)
    PROVE  /\ Frame(Host, Host') /\ Host'.worker = Host.worker
           /\ HostTyped(Host, nextTicket)' /\ Tickets(Host)' /\ Management(Host, events)'
           /\ Flying(Host, events)'
<1>1. Frame(Host, Host') /\ Host'.worker = Host.worker /\ events' = events /\ nextTicket' = nextTicket
  BY HostNow, HostNext DEF Frame, hostVars, taskVars
<1>2. /\ HostTyped(Host, nextTicket) /\ Tickets(Host) /\ Management(Host, events)
      /\ Flying(Host, events)
  BY DEF McpInv, McpTyped
<1>3. Tickets(Host') /\ Management(Host', events) /\ Flying(Host', events)
  BY <1>1, <1>2, SameFrame
<1>4. HostTyped(Host', nextTicket)
  BY <1>1, <1>2, HostNow, HostNext DEF HostTyped, Frame
<1> QED BY <1>1, <1>3, <1>4

(* The lines a worker writes.                                              *)
LEMMA LineForm ==
    ASSUME NEW t \in Nat, NEW s \in Server, NEW reply \in Replies
    PROVE  /\ Checkpoint(s) \in SessionCheckpoint
           /\ Line("Canceled", t, s) \in OutputLines /\ Line("Canceled", t, s).event = "Canceled"
           /\ Line("Canceled", t, s).ticket = t /\ Line("Canceled", t, s).ckpt = Checkpoint(s)
           /\ Handled(t, reply, s) \in OutputLines /\ Handled(t, reply, s).event = "Handled"
           /\ Handled(t, reply, s).ticket = t /\ Handled(t, reply, s).reply = reply
           /\ Handled(t, reply, s).ckpt = Checkpoint(s)
<1>1. Checkpoint(s) \in SessionCheckpoint
  BY DEF Checkpoint, SessionCheckpoint, Server
<1> DEFINE c == Checkpoint(s)
<1>2. Line("Canceled", t, s) = [event |-> "Canceled", ticket |-> t, reply |-> "none", ckpt |-> c]
  BY DEF Line
<1>3. Handled(t, reply, s) = [event |-> "Handled", ticket |-> t, reply |-> reply, ckpt |-> c]
  BY DEF Line, Handled
<1> HIDE DEF c
<1>4. c \in SessionCheckpoint
  BY <1>1 DEF c
<1>5. "none" \in Replies
  BY DEF Replies
<1>6. /\ Line("Canceled", t, s) \in OutputLines /\ Line("Canceled", t, s).event = "Canceled"
      /\ Line("Canceled", t, s).ticket = t /\ Line("Canceled", t, s).ckpt = c
  BY <1>2, <1>4, <1>5 DEF OutputLines
<1>7. /\ Handled(t, reply, s) \in OutputLines /\ Handled(t, reply, s).event = "Handled"
      /\ Handled(t, reply, s).ticket = t /\ Handled(t, reply, s).reply = reply
      /\ Handled(t, reply, s).ckpt = c
  BY <1>3, <1>4 DEF OutputLines
<1> QED BY <1>1, <1>6, <1>7 DEF c

(* A mutation runs under a key that nothing else has.                      *)
LEMMA DispatchKeys ==
    ASSUME Keys, srv \in Server, nextKey \in Nat, ran \cup draining \subseteq Runs,
           NEW t \in Nat, ~Begins(ran, draining, t), NEW o \in Outcomes, Keyed(srv, o),
           srv' = o.srv, nextKey' = IF o.srv.key = nextKey THEN nextKey + 1 ELSE nextKey,
           ran' = ran \cup {<<t, k>> : k \in o.run}, draining' = draining, worker' = worker,
           worker.alive
    PROVE  Keys' /\ nextKey' \in Nat \ {0} /\ ran' \subseteq Runs
<1>1. /\ o.srv \in Server /\ o.srv.key \in Nat /\ o.srv.seq \in Nat /\ o.run \subseteq Nat \X Nat
      /\ srv.key \in Nat /\ srv.seq \in Nat
  BY DEF Outcomes, Server
<1> DEFINE old == ran \cup draining
           fresh == {<<t, k>> : k \in o.run}
<1>2. ran' \cup draining' = old \cup fresh
  OBVIOUS
<1>3. \A d \in old : d \in Nat \X (Nat \X Nat) /\ d[1] \in Nat /\ d[2][1] \in Nat /\ d[2][2] \in Nat
  BY DEF Runs
<1>4. ASSUME NEW d \in fresh
      PROVE  /\ d \in Runs /\ d[1] = t /\ d = <<t, <<o.srv.key, o.srv.seq>>>>
             /\ d[2][1] = o.srv.key /\ d[2][2] = o.srv.seq
             /\ o.srv.key = nextKey \/ (srv.link = "Connected" /\ o.srv.seq > srv.seq)
             /\ o.srv.key = nextKey \/ o.srv.key = srv.key
  <2>1. PICK k \in o.run : d = <<t, k>>
    OBVIOUS
  <2>2. k \in Nat \X Nat /\ k[1] = o.srv.key /\ k[2] = o.srv.seq
        /\ (o.srv.key = nextKey \/ (srv.link = "Connected" /\ o.srv.seq > srv.seq))
    BY <1>1 DEF Keyed
  <2>3. k = <<o.srv.key, o.srv.seq>>
    BY <2>2
  <2>4. o.srv.key = nextKey \/ o.srv.key = srv.key
    BY DEF Keyed
  <2> QED BY <1>1, <2>1, <2>2, <2>3, <2>4 DEF Runs
<1>5. \A d \in old : d[1] # t
  BY DEF Begins, Began
<1>6. \A d \in old : d[2][1] < nextKey
  BY DEF Keys
<1>7. srv.key < nextKey
  BY DEF Keys
<1>8. srv.link = "Connected" => \A d \in old : d[2][1] = srv.key => d[2][2] <= srv.seq
  BY DEF Keys
<1>9. \A q, r \in old : q[1] = r[1] \/ q[2] = r[2] => q = r
  BY DEF Keys
<1> HIDE DEF old, fresh
<1>10. ASSUME NEW d \in old, NEW e \in fresh PROVE d[1] # e[1] /\ d[2] # e[2]
  <2>1. d[1] # e[1]
    BY <1>4, <1>5
  <2>2. CASE o.srv.key = nextKey
    <3>1. d[2][1] # e[2][1]
      BY <1>3, <1>4, <1>6, <2>2
    <3> QED BY <2>1, <3>1
  <2>3. CASE o.srv.key # nextKey
    <3>1. srv.link = "Connected" /\ o.srv.seq > srv.seq /\ o.srv.key = srv.key
      BY <1>4, <2>3
    <3>2. d[2][1] = srv.key => d[2][2] <= srv.seq
      BY <1>8, <3>1
    <3>3. e[2][1] = srv.key /\ e[2][2] = o.srv.seq
      BY <1>4, <3>1
    <3>4. d[2] # e[2]
      BY <1>1, <1>3, <3>1, <3>2, <3>3
    <3> QED BY <2>1, <3>4
  <2> QED BY <2>2, <2>3
<1>11. \A q, r \in old \cup fresh : q[1] = r[1] \/ q[2] = r[2] => q = r
  BY <1>4, <1>9, <1>10
<1>12. nextKey' \in Nat /\ nextKey' >= nextKey /\ (o.srv.key = nextKey => nextKey' > nextKey)
  OBVIOUS
<1>13. o.srv.key < nextKey'
  <2>1. o.srv.key = nextKey \/ o.srv.key = srv.key
    BY DEF Keyed
  <2> QED BY <1>1, <1>7, <1>12, <2>1
<1>14. \A d \in old \cup fresh : d[2][1] < nextKey'
  BY <1>1, <1>3, <1>4, <1>6, <1>12, <1>13
<1>15. ASSUME o.srv.link = "Connected", NEW d \in old \cup fresh, d[2][1] = o.srv.key
       PROVE  d[2][2] <= o.srv.seq
  <2>1. CASE d \in fresh
    BY <1>1, <1>4, <2>1
  <2>2. CASE d \in old
    <3>1. o.srv.key # nextKey
      BY <1>1, <1>3, <1>6, <1>15, <2>2
    <3>2. o.srv.key = srv.key /\ o.srv.seq >= srv.seq /\ srv.link = "Connected"
      BY <1>15, <3>1 DEF Keyed
    <3> QED BY <1>1, <1>3, <1>8, <1>15, <2>2, <3>2
  <2> QED BY <1>15, <2>1, <2>2
<1>16. Keys'
  BY <1>2, <1>11, <1>13, <1>14, <1>15 DEF Keys
<1>17. ran' \subseteq Runs
  BY <1>4 DEF fresh
<1>18. nextKey # 0
  BY <1>1, <1>7
<1> QED BY <1>12, <1>16, <1>17, <1>18

(* The worker serves a dispatch.                                           *)
LEMMA DispatchStep ==
    ASSUME McpInv, WorkerDispatch
    PROVE  McpInv'
<1> DEFINE m == Head(input)
           t == m.ticket
<1>1. /\ worker.alive /\ input # <<>> /\ m.type = "Dispatch" /\ input' = Tail(input)
      /\ UNCHANGED <<hostVars, taskVars, draining>>
  BY DEF WorkerDispatch
<1>2. PICK o \in Dispatch(srv, m.req) :
         LET full == o.wait /\ Cardinality(DOMAIN active) >= MaxEventWaits
             waits == o.wait /\ ~full
         IN  /\ srv' = o.srv
             /\ nextKey' = IF o.srv.key = nextKey THEN nextKey + 1 ELSE nextKey
             /\ ran' = ran \cup {<<t, k>> : k \in o.run}
             /\ bare' = IF o.wait /\ m.req.arg = "Bare" THEN bare \cup {o.srv.ctx} ELSE bare
             /\ faults' = IF o.fault THEN faults + 1 ELSE faults
             /\ active' = IF waits THEN With(active, t, o.srv.key) ELSE active
             /\ output' = IF waits THEN output
                          ELSE Append(output, Handled(t, IF full THEN "error" ELSE o.reply, o.srv))
  BY DEF WorkerDispatch
<1> DEFINE full == o.wait /\ Cardinality(DOMAIN active) >= MaxEventWaits
           waits == o.wait /\ ~full
           reply == IF full THEN "error" ELSE o.reply
           line == Handled(t, reply, o.srv)
<1>3. /\ HostTyped(Host, nextTicket) /\ Tickets(Host)
      /\ Work(Host, DOMAIN active, output, srv, ran, draining) /\ Keys /\ Cursors
      /\ srv \in Server /\ active \in [DOMAIN active -> Nat] /\ output \in Seq(OutputLines)
      /\ draining \subseteq Runs /\ ran \subseteq Runs /\ nextKey \in Nat \ {0} /\ faults \in Nat
  BY DEF McpInv, McpTyped
<1>4. /\ Host.input = input /\ Host.worker = worker /\ Host'.input = input'
  BY HostNow, HostNext
<1>5. /\ input' \in Seq(InputLines) /\ m = input[1] /\ m \in InputLines /\ 1 \in DOMAIN input
  BY <1>1, <1>3, <1>4, TailLines DEF HostTyped
<1>6. t \in Nat /\ m.req \in Requests
  BY <1>5 DEF InputLines
<1>7. Served(srv, m.req, o)
  BY <1>3, <1>6, Dispatched
<1>8. o \in Outcomes /\ o.srv \in Server /\ o.srv.key \in Nat
  BY <1>7 DEF Served, Outcomes, Server
<1>9. /\ Frame(Host, Host') /\ Host'.worker = Host.worker
      /\ HostTyped(Host, nextTicket)' /\ Tickets(Host)' /\ Management(Host, events)'
      /\ Flying(Host, events)'
  BY <1>1, <1>5, ChildSteps
<1>10. Keys' /\ nextKey' \in Nat \ {0} /\ ran' \subseteq Runs
  <2>1. Sent(Host, t)
    BY <1>1, <1>4, <1>5 DEF Sent
  <2>2. ~Begins(ran, draining, t)
    BY <1>3, <1>6, <2>1 DEF Work, Truths
  <2>3. Keyed(srv, o)
    BY <1>7 DEF Served
  <2>4. worker' = worker /\ draining' = draining
    BY <1>1 DEF hostVars
  <2> QED BY <1>1, <1>2, <1>3, <1>6, <1>8, <2>2, <2>3, <2>4, DispatchKeys
<1>11. reply \in {"ok", "unresolved", "error", "uncertain"} /\ reply \in Replies
  BY <1>8 DEF Outcomes, Replies
<1>12. /\ line \in OutputLines /\ line.event = "Handled" /\ line.ticket = t /\ line.reply = reply
       /\ line.ckpt = Checkpoint(o.srv)
  <2> HIDE DEF reply, t
  <2> QED BY <1>6, <1>8, <1>11, LineForm
<1>13. /\ active' = IF waits THEN With(active, t, o.srv.key) ELSE active
       /\ output' = IF waits THEN output ELSE Append(output, line)
       /\ srv' = o.srv /\ ran' = ran \cup {<<t, k>> : k \in o.run} /\ draining' = draining
  BY <1>1, <1>2
<1>14. ASSUME waits
       PROVE  /\ active' \in [DOMAIN active' -> Nat] /\ DOMAIN active' = DOMAIN active \cup {t}
              /\ output' = output
  <2> HIDE DEF waits, line, t
  <2> QED BY <1>3, <1>8, <1>13, <1>14 DEF With
<1>15. ASSUME ~waits PROVE active' = active /\ output' = Append(output, line)
  <2> HIDE DEF waits, line, t
  <2> QED BY <1>13, <1>15
<1>16. o.wait \in BOOLEAN /\ o.run \subseteq Nat \X Nat
  BY <1>8 DEF Outcomes
<1>17. Work(Host, DOMAIN active, output, srv, ran, draining)'
  <2>1. CASE waits
    <3>1. Checkpoint(o.srv) = Checkpoint(srv) /\ Route(m.req.tool) = "Wait" /\ o.run = {}
      BY <1>7, <2>1 DEF Served
    <3>2. ran' = ran /\ draining' = draining /\ srv' = o.srv
      BY <1>13, <3>1
    <3>3. Work(Host', DOMAIN active \cup {Host.input[1].ticket}, output, o.srv, ran, draining)
      BY <1>1, <1>3, <1>4, <1>5, <1>9, <3>1, WaitWorks
    <3> QED BY <1>4, <1>5, <1>14, <2>1, <3>2, <3>3
  <2>2. CASE ~waits
    <3> DEFINE behavior == Route(m.req.tool)
    <3>1. ASSUME NEW u PROVE Began(ran', u) <=> Began(ran, u) \/ (u = t /\ o.run # {})
      <4> DEFINE F == {<<t, k>> : k \in o.run}
      <4>1. ran' = ran \cup F
        BY <1>13
      <4> HIDE DEF t
      <4>2. \A r \in F : r[1] = t
        OBVIOUS
      <4>3. o.run # {} <=> F # {}
        OBVIOUS
      <4> HIDE DEF F
      <4> QED BY <4>1, <4>2, <4>3 DEF Began
    <3>2. Checkpoint(o.srv) = Checkpoint(srv) \/ behavior = "Session"
      BY <1>7 DEF Served
    <3>3. o.run # {} => behavior = "Mutation"
      BY <1>7 DEF Served
    <3>4. behavior = "Mutation" => reply = o.reply
      BY <1>7 DEF Served
    <3>5. behavior = "Mutation" =>
             (line.reply \in {"ok", "unresolved"} => o.run # {}) /\ (line.reply = "error" => o.run = {})
      BY <1>7, <1>12, <3>4 DEF Served
    <3>6. line.reply \in {"ok", "unresolved", "error", "uncertain"}
      BY <1>11, <1>12
    <3>7. output' = Append(output, line) /\ active' = active
      BY <1>15, <2>2
    <3> HIDE DEF behavior, line, reply, waits, full
    <3>8. behavior = Route(Host.input[1].req.tool) /\ line.ticket = Host.input[1].ticket
      BY <1>4, <1>5, <1>12 DEF behavior
    <3>9. \A u : Began(ran', u) <=> Began(ran, u) \/ (u = line.ticket /\ o.run # {})
      BY <1>12, <3>1
    <3>10. Host.input # <<>> /\ Host'.input = Tail(Host.input) /\ Host.input[1].type = "Dispatch"
           /\ Host.worker.alive
      BY <1>1, <1>4, <1>5
    <3> HIDE DEF t, m
    <3>11. Work(Host', DOMAIN active, output', o.srv, ran', draining)
      <4>1. Answers1(Host, Host', srv, ran, line, o.srv, o.run, ran')
        BY <1>9, <1>12, <3>2, <3>3, <3>5, <3>6, <3>8, <3>9, <3>10 DEF Answers1
      <4> QED BY <1>3, <3>7, <4>1, AnswerWorks
    <3> QED BY <1>13, <3>7, <3>11
  <2> QED BY <2>1, <2>2
<1>18. Cursors'
  <2>1. Initial(srv) /\ bare \subseteq {FirstContext} /\ Initial(ckpt)
        /\ \A k \in DOMAIN output : Initial(output[k].ckpt)
    BY <1>3 DEF Cursors
  <2>2. Initial(o.srv)
    BY <1>7, <2>1 DEF Served
  <2>3. ckpt' = ckpt
    BY <1>1 DEF hostVars
  <2>4. bare' \subseteq {FirstContext}
    <3>1. o.wait /\ m.req.arg = "Bare" => o.srv.ctx = FirstContext
      BY <1>7, <2>2 DEF Served, Initial
    <3>2. bare' = IF o.wait /\ m.req.arg = "Bare" THEN bare \cup {o.srv.ctx} ELSE bare
      BY <1>2
    <3> QED BY <2>1, <3>1, <3>2
  <2>5. Initial(line.ckpt)
    BY <1>12, <2>2 DEF Initial, Checkpoint
  <2>6. \A k \in DOMAIN output' : Initial(output'[k].ckpt)
    <3>1. CASE waits
      BY <1>14, <2>1, <3>1
    <3>2. CASE ~waits
      <4> HIDE DEF line
      <4>1. output' = Append(output, line)
        BY <1>15, <3>2
      <4> QED BY <1>3, <1>12, <2>1, <2>5, <4>1, WroteOne
    <3> QED BY <3>1, <3>2
  <2> QED BY <1>13, <2>1, <2>2, <2>3, <2>4, <2>6 DEF Cursors
<1>19. McpTyped'
  <2>1. faults' \in Nat
    BY <1>2, <1>3
  <2>2. events' = events /\ menu' = menu /\ draining' = draining
    BY <1>1 DEF hostVars, taskVars
  <2>3. active' \in [DOMAIN active' -> Nat] /\ output' \in Seq(OutputLines)
    <3>1. CASE waits
      BY <1>3, <1>14, <3>1
    <3>2. CASE ~waits
      <4> HIDE DEF line
      <4> QED BY <1>3, <1>12, <1>15, <3>2, WroteOne
    <3> QED BY <3>1, <3>2
  <2>4. srv' \in Server
    BY <1>8, <1>13
  <2> QED BY <1>9, <1>10, <2>1, <2>2, <2>3, <2>4 DEF McpInv, McpTyped
<1> QED BY <1>9, <1>10, <1>17, <1>18, <1>19 DEF McpInv

(* The worker reads a cancellation.                                        *)
LEMMA CancelReadStep ==
    ASSUME McpInv, WorkerCancel
    PROVE  McpInv'
<1> DEFINE t == Head(input).ticket
           line == Line("Canceled", t, srv)
<1>1. /\ worker.alive /\ input # <<>> /\ Head(input).type = "Cancel" /\ input' = Tail(input)
      /\ active' = Without(active, {t}) /\ output' = Append(output, line)
      /\ UNCHANGED <<hostVars, taskVars, srv, draining, nextKey, ran, bare, faults>>
  BY DEF WorkerCancel
<1>2. /\ HostTyped(Host, nextTicket) /\ Tickets(Host)
      /\ Work(Host, DOMAIN active, output, srv, ran, draining) /\ Keys /\ Cursors
      /\ srv \in Server /\ active \in [DOMAIN active -> Nat] /\ output \in Seq(OutputLines)
  BY DEF McpInv, McpTyped
<1>3. /\ Host.input = input /\ Host.worker = worker /\ Host'.input = input'
  BY HostNow, HostNext
<1>4. /\ input' \in Seq(InputLines) /\ Head(input) = input[1] /\ Head(input) \in InputLines
  BY <1>1, <1>2, <1>3, TailLines DEF HostTyped
<1>5. t \in Nat
  BY <1>4 DEF InputLines
<1>6. /\ Frame(Host, Host') /\ Host'.worker = Host.worker
      /\ HostTyped(Host, nextTicket)' /\ Tickets(Host)' /\ Management(Host, events)'
      /\ Flying(Host, events)'
  BY <1>1, <1>4, ChildSteps
<1>7. /\ line \in OutputLines /\ line.event = "Canceled" /\ line.ticket = t
      /\ line.ckpt = Checkpoint(srv)
  <2>1. "ok" \in Replies
    BY DEF Replies
  <2> HIDE DEF t
  <2> QED BY <1>2, <1>5, <2>1, LineForm
<1> HIDE DEF line
<1>8. Work(Host, DOMAIN active, output, srv, ran, draining)'
  <2>1. Host.input # <<>> /\ Host'.input = Tail(Host.input) /\ Host.input[1].type = "Cancel"
        /\ Host.worker.alive /\ line.ticket = Host.input[1].ticket
    BY <1>1, <1>3, <1>4, <1>7
  <2>2. Work(Host', DOMAIN active \ {line.ticket}, output', srv, ran, draining)
    BY <1>1, <1>2, <1>6, <1>7, <2>1, CancelWorks
  <2>3. DOMAIN active' = DOMAIN active \ {line.ticket}
    BY <1>1, <1>7 DEF Without, Restrict
  <2> QED BY <1>1, <2>2, <2>3
<1>9. Cursors'
  <2>1. Initial(line.ckpt)
    BY <1>2, <1>7 DEF Cursors, Initial, Checkpoint
  <2>2. \A k \in DOMAIN output' : Initial(output'[k].ckpt)
    BY <1>1, <1>2, <1>7, <2>1, WroteOne DEF Cursors
  <2>3. ckpt' = ckpt /\ srv' = srv /\ bare' = bare
    BY <1>1 DEF hostVars
  <2> QED BY <1>2, <2>2, <2>3 DEF Cursors
<1>10. Keys'
  BY <1>1, <1>2 DEF Keys, hostVars
<1>11. McpTyped'
  <2>1. active' \in [DOMAIN active' -> Nat]
    BY <1>1, <1>2 DEF Without, Restrict
  <2>2. output' \in Seq(OutputLines)
    BY <1>1, <1>2, <1>7, WroteOne
  <2>3. events' = events /\ menu' = menu
    BY <1>1 DEF hostVars, taskVars
  <2> QED BY <1>1, <1>6, <2>1, <2>2, <2>3 DEF McpInv, McpTyped
<1> QED BY <1>6, <1>8, <1>9, <1>10, <1>11 DEF McpInv

(* A wait ends.                                                            *)
LEMMA WaitEndStep ==
    ASSUME McpInv, NEW t, WorkerWaitEnds(t)
    PROVE  McpInv'
<1> DEFINE reply == IF active[t] = srv.key THEN "ok" ELSE "error"
           line == Handled(t, reply, srv)
<1>1. /\ worker.alive /\ t \in DOMAIN active /\ input' = input
      /\ active' = Without(active, {t}) /\ output' = Append(output, line)
      /\ UNCHANGED <<hostVars, taskVars, srv, draining, nextKey, ran, bare, faults>>
  BY DEF WorkerWaitEnds
<1>2. /\ HostTyped(Host, nextTicket) /\ Tickets(Host)
      /\ Work(Host, DOMAIN active, output, srv, ran, draining) /\ Keys /\ Cursors
      /\ srv \in Server /\ active \in [DOMAIN active -> Nat] /\ output \in Seq(OutputLines)
  BY DEF McpInv, McpTyped
<1>3. Host' = Host
  BY <1>1 DEF Host, hostVars, taskVars
<1>4. t \in Nat
  <2>1. Working(Host, t)
    BY <1>1, <1>2 DEF Work, Lines
  <2> QED BY <1>2, <2>1 DEF Working, HostTyped
<1>5. reply \in Replies
  BY DEF Replies
<1>6. /\ line \in OutputLines /\ line.event = "Handled" /\ line.ticket = t
      /\ line.ckpt = Checkpoint(srv)
  <2> HIDE DEF reply
  <2> QED BY <1>2, <1>4, <1>5, LineForm
<1> HIDE DEF line
<1>7. Work(Host, DOMAIN active, output, srv, ran, draining)'
  <2>1. Host.worker.alive
    BY <1>1, HostNow
  <2>2. Work(Host, DOMAIN active \ {line.ticket}, output', srv, ran, draining)
    BY <1>1, <1>2, <1>6, <2>1, EndWorks
  <2>3. DOMAIN active' = DOMAIN active \ {line.ticket}
    BY <1>1, <1>6 DEF Without, Restrict
  <2> QED BY <1>1, <1>3, <2>2, <2>3
<1>8. Cursors'
  <2>1. Initial(line.ckpt)
    BY <1>2, <1>6 DEF Cursors, Initial, Checkpoint
  <2>2. \A k \in DOMAIN output' : Initial(output'[k].ckpt)
    BY <1>1, <1>2, <1>6, <2>1, WroteOne DEF Cursors
  <2>3. ckpt' = ckpt /\ srv' = srv /\ bare' = bare
    BY <1>1 DEF hostVars
  <2> QED BY <1>2, <2>2, <2>3 DEF Cursors
<1>9. Keys'
  BY <1>1, <1>2 DEF Keys, hostVars
<1>10. events' = events /\ menu' = menu /\ nextTicket' = nextTicket
  BY <1>1 DEF hostVars, taskVars
<1>11. McpTyped'
  <2>1. active' \in [DOMAIN active' -> Nat]
    BY <1>1, <1>2 DEF Without, Restrict
  <2>2. output' \in Seq(OutputLines)
    BY <1>1, <1>2, <1>6, WroteOne
  <2> QED BY <1>1, <1>2, <1>3, <1>10, <2>1, <2>2 DEF McpInv, McpTyped
<1>12. Tickets(Host)' /\ Management(Host, events)' /\ Flying(Host, events)'
  BY <1>3, <1>10 DEF McpInv
<1> QED BY <1>7, <1>8, <1>9, <1>11, <1>12 DEF McpInv

(* The connection closes under the worker.                                 *)
LEMMA CloseStep ==
    ASSUME McpInv, ConnectionCloses
    PROVE  McpInv'
<1>1. /\ srv' = [srv EXCEPT !.link = "Closed"] /\ faults' = faults + 1
      /\ UNCHANGED <<hostVars, taskVars, active, input, output, draining, nextKey, ran, bare>>
  BY DEF ConnectionCloses
<1>2. /\ Work(Host, DOMAIN active, output, srv, ran, draining) /\ Keys /\ Cursors
      /\ srv \in Server /\ faults \in Nat
  BY DEF McpInv, McpTyped
<1>3. Host' = Host
  BY <1>1 DEF Host, hostVars, taskVars
<1>4. /\ srv' \in Server /\ srv'.init = srv.init /\ srv'.name = srv.name /\ srv'.ctx = srv.ctx
      /\ srv'.policy = srv.policy /\ srv'.key = srv.key /\ srv'.link = "Closed"
  BY <1>1, <1>2 DEF Server, SessionConnection
<1>5. Checkpoint(srv') = Checkpoint(srv)
  BY <1>4 DEF Checkpoint
<1>6. Work(Host, DOMAIN active, output, srv', ran, draining)
  BY <1>2, <1>5 DEF Work, Sessions
<1>7. Cursors'
  BY <1>1, <1>2, <1>4 DEF Cursors, Initial, hostVars
<1>8. Keys'
  BY <1>1, <1>2, <1>4 DEF Keys, hostVars
<1>9. events' = events /\ menu' = menu /\ nextTicket' = nextTicket
  BY <1>1 DEF hostVars, taskVars
<1>10. McpTyped'
  BY <1>1, <1>2, <1>3, <1>4, <1>9 DEF McpInv, McpTyped
<1>11. Tickets(Host)' /\ Management(Host, events)' /\ Flying(Host, events)'
  BY <1>3, <1>9 DEF McpInv
<1>12. Work(Host, DOMAIN active, output, srv, ran, draining)'
  BY <1>1, <1>3, <1>6
<1> QED BY <1>7, <1>8, <1>10, <1>11, <1>12 DEF McpInv

(* The keys of what a worker that goes away may still have sent.           *)
LEMMA LeftoverKeys ==
    ASSUME McpInv, worker.alive, NEW length \in Nat, length <= Len(input), ran' = ran,
           draining' = draining \cup Leftover(length),
           nextKey' = IF srv.link = "Connected" THEN nextKey ELSE nextKey + 1
    PROVE  /\ draining' \subseteq Runs /\ nextKey' \in Nat \ {0} /\ nextKey' >= nextKey
           /\ \A q, r \in ran' \cup draining' : q[1] = r[1] \/ q[2] = r[2] => q = r
           /\ \A d \in ran' \cup draining' : d[2][1] < nextKey'
           /\ \A t : Began(draining', t) =>
                 Began(draining, t) \/ (Sent(Host, t) /\ t \in Nat /\ Working(Host, t)
                                            /\ Host.pending[t].behavior = "Mutation")
<1> DEFINE old == ran \cup draining
           L == Leftover(length)
<1>1. /\ McpTyped /\ Keys /\ Work(Host, DOMAIN active, output, srv, ran, draining)
      /\ ran \subseteq Runs /\ draining \subseteq Runs
      /\ nextKey \in Nat \ {0} /\ srv.key \in Nat /\ srv.seq \in Nat
  BY DEF McpInv, McpTyped, Server
<1>2. L \subseteq Runs
  BY <1>1, Leftovers
<1>3. \A d \in L :
         /\ Sent(Host, d[1]) /\ d[1] \in Nat /\ Working(Host, d[1])
         /\ Host.pending[d[1]].behavior = "Mutation"
         /\ srv.link = "Connected" => d[2][1] = srv.key /\ d[2][2] > srv.seq
         /\ srv.link # "Connected" => d[2][1] = nextKey
  BY <1>1, Leftovers
<1>4. \A d, e \in L : d[1] = e[1] \/ d[2] = e[2] => d = e
  BY <1>1, Leftovers
<1>5. \A d \in old \cup L : d[1] \in Nat /\ d[2][1] \in Nat /\ d[2][2] \in Nat
  BY <1>1, <1>2 DEF Runs
<1>6. /\ \A q, r \in old : q[1] = r[1] \/ q[2] = r[2] => q = r
      /\ \A d \in old : d[2][1] < nextKey
      /\ srv.key < nextKey
      /\ srv.link = "Connected" => \A d \in old : d[2][1] = srv.key => d[2][2] <= srv.seq
  BY <1>1 DEF Keys
<1>7. draining' = draining \cup L /\ ran' \cup draining' = old \cup L
  OBVIOUS
<1>8. \A d \in L : ~Begins(ran, draining, d[1])
  BY <1>1, <1>3 DEF Work, Truths
<1>9. \A d \in old, e \in L : d[1] # e[1]
  BY <1>8 DEF Begins, Began
<1>10. nextKey' \in Nat \ {0} /\ nextKey' >= nextKey /\ (srv.link # "Connected" => nextKey' = nextKey + 1)
  BY <1>1
<1> HIDE DEF old, L
<1>11. ASSUME NEW d \in old, NEW e \in L PROVE d[2] # e[2]
  <2>1. CASE srv.link = "Connected"
    <3>1. e[2][1] = srv.key /\ e[2][2] > srv.seq
      BY <1>3, <2>1
    <3>2. d[2][1] = srv.key => d[2][2] <= srv.seq
      BY <1>6, <2>1
    <3> QED BY <1>1, <1>5, <3>1, <3>2
  <2>2. CASE srv.link # "Connected"
    <3>1. e[2][1] = nextKey
      BY <1>3, <2>2
    <3>2. d[2][1] < nextKey
      BY <1>6
    <3> QED BY <1>1, <1>5, <3>1, <3>2
  <2> QED BY <2>1, <2>2
<1>12. \A q, r \in old \cup L : q[1] = r[1] \/ q[2] = r[2] => q = r
  BY <1>4, <1>6, <1>9, <1>11
<1>13. ASSUME NEW d \in old \cup L PROVE d[2][1] < nextKey'
  <2>1. CASE d \in old
    BY <1>1, <1>5, <1>6, <1>10, <2>1
  <2>2. CASE d \in L
    <3>1. CASE srv.link = "Connected"
      <4>1. d[2][1] = srv.key
        BY <1>3, <2>2, <3>1
      <4> QED BY <1>1, <1>6, <1>10, <4>1
    <3>2. CASE srv.link # "Connected"
      <4>1. d[2][1] = nextKey
        BY <1>3, <2>2, <3>2
      <4> QED BY <1>1, <1>10, <3>2, <4>1
    <3> QED BY <3>1, <3>2
  <2> QED BY <2>1, <2>2
<1>14. ASSUME NEW t, Began(draining', t)
       PROVE  Began(draining, t) \/ (Sent(Host, t) /\ t \in Nat /\ Working(Host, t)
                                         /\ Host.pending[t].behavior = "Mutation")
  BY <1>3, <1>7, <1>14 DEF Began
<1> QED BY <1>1, <1>2, <1>7, <1>10, <1>12, <1>13, <1>14

(* The worker dies.                                                        *)
LEMMA DieStep ==
    ASSUME McpInv, WorkerDies
    PROVE  McpInv'
<1> DEFINE length == IF input = <<>> THEN 0 ELSE 1
<1>1. /\ worker.alive /\ worker' = [worker EXCEPT !.alive = FALSE]
      /\ draining' = draining \cup Leftover(length)
      /\ nextKey' = IF srv.link = "Connected" THEN nextKey ELSE nextKey + 1
      /\ input' = <<>> /\ active' = << >> /\ faults' = faults + 1
      /\ UNCHANGED <<menu, cancels, open, nextTicket, pending, external, queued, flight, ckpt,
                     answers, srv, output, taskVars, ran, bare>>
  BY DEF WorkerDies
<1>2. /\ HostTyped(Host, nextTicket) /\ Tickets(Host) /\ Management(Host, events)
      /\ Flying(Host, events)
      /\ Work(Host, DOMAIN active, output, srv, ran, draining) /\ Keys /\ Cursors
      /\ srv \in Server /\ output \in Seq(OutputLines)
      /\ nextKey \in Nat \ {0} /\ faults \in Nat /\ srv.key \in Nat
  BY DEF McpInv, McpTyped, Server
<1>3. length \in Nat /\ length <= Len(input)
  <2>1. input \in Seq(InputLines)
    BY <1>2, HostNow DEF HostTyped
  <2>2. input # <<>> => Len(input) \in Nat /\ Len(input) >= 1
    BY <2>1
  <2>3. input = <<>> => Len(input) = 0
    OBVIOUS
  <2> QED BY <2>2, <2>3
<1> HIDE DEF length
<1>4. /\ draining' \subseteq Runs /\ nextKey' \in Nat \ {0} /\ nextKey' >= nextKey
      /\ \A q, r \in ran' \cup draining' : q[1] = r[1] \/ q[2] = r[2] => q = r
      /\ \A d \in ran' \cup draining' : d[2][1] < nextKey'
      /\ \A t : Began(draining', t) =>
            Began(draining, t) \/ (Sent(Host, t) /\ t \in Nat /\ Working(Host, t)
                                       /\ Host.pending[t].behavior = "Mutation")
  BY <1>1, <1>3, LeftoverKeys
<1>5. worker \in Workers /\ worker' \in Workers /\ ~worker'.alive /\ worker'.running = worker.running
      /\ worker.running
  <2>1. worker \in Workers
    BY <1>2, HostNow DEF HostTyped
  <2>2. worker.running
    BY <1>1, <1>2, HostNow DEF Work, Link
  <2> QED BY <1>1, <2>1, <2>2 DEF Workers
<1>6. Frame(Host, Host') /\ Host'.worker = worker' /\ Host'.input = <<>> /\ Host.worker = worker
  BY <1>1, HostNow, HostNext DEF Frame, taskVars
<1>7. events' = events /\ nextTicket' = nextTicket /\ ran' = ran /\ output' = output /\ srv' = srv
      /\ DOMAIN active' = {}
  BY <1>1 DEF taskVars
<1>8. Tickets(Host)' /\ Management(Host, events)' /\ Flying(Host, events)'
  BY <1>2, <1>6, <1>7, SameFrame
<1>9. HostTyped(Host, nextTicket)'
  <2>1. <<>> \in Seq(InputLines)
    OBVIOUS
  <2> QED BY <1>2, <1>5, <1>6, <1>7, <2>1, HostNext DEF HostTyped, Frame
<1>10. Work(Host, DOMAIN active, output, srv, ran, draining)'
  <2>1. ~Host'.worker.alive /\ Host'.worker.running
    BY <1>5, <1>6
  <2>2. \A t : Began(draining', t) =>
           Began(draining, t) \/ (Sent(Host, t) /\ t \in Nat /\ Working(Host, t)
                                      /\ Host.pending[t].behavior = "Mutation")
    BY <1>4
  <2>3. Work(Host', {}, output, srv, ran, draining')
    BY <1>2, <1>6, <2>1, <2>2, DiesWorks
  <2> QED BY <1>7, <2>3
<1>11. Keys'
  <2>1. srv'.key < nextKey'
    BY <1>2, <1>4, <1>7 DEF Keys
  <2> QED BY <1>4, <1>5, <2>1 DEF Keys
<1>12. Cursors'
  BY <1>1, <1>2 DEF Cursors
<1>13. McpTyped'
  <2>1. active' \in [DOMAIN active' -> Nat]
    BY <1>1
  <2> QED BY <1>1, <1>2, <1>4, <1>7, <1>9, <2>1 DEF McpInv, McpTyped
<1> QED BY <1>8, <1>10, <1>11, <1>12, <1>13 DEF McpInv

(* What a former worker had read runs, or never will.                      *)
LEMMA OldStep ==
    ASSUME McpInv, OldWorkerRuns
    PROVE  McpInv'
<1>1. PICK d \in draining :
         /\ ran' \in {ran, ran \cup {d}} /\ draining' = draining \ {d}
         /\ UNCHANGED <<hostVars, childVars, taskVars, nextKey, bare, faults>>
  BY DEF OldWorkerRuns
<1>2. Host' = Host /\ events' = events /\ menu' = menu /\ nextTicket' = nextTicket
      /\ srv' = srv /\ active' = active /\ output' = output /\ worker' = worker
      /\ ckpt' = ckpt
  BY <1>1 DEF Host, hostVars, childVars, taskVars
<1>3. ran' \cup draining' \subseteq ran \cup draining /\ ran \subseteq ran'
  BY <1>1
<1>4. /\ Work(Host, DOMAIN active, output, srv, ran, draining) /\ Keys /\ Cursors
      /\ ran \subseteq Runs /\ draining \subseteq Runs
  BY DEF McpInv, McpTyped
<1>5. \A t : Begins(ran', draining', t) => Begins(ran, draining, t)
  BY <1>3 DEF Begins, Began
<1>6. \A t : Began(ran, t) => Began(ran', t)
  BY <1>3 DEF Began
<1>7. Truths(Host, output, ran', draining')
  <2>1. Truths(Host, output, ran, draining)
    BY <1>4 DEF Work
  <2> QED BY <1>5, <1>6, <2>1 DEF Truths
<1>8. Work(Host, DOMAIN active, output, srv, ran, draining)'
  BY <1>2, <1>4, <1>7 DEF Work
<1>9. Keys'
  BY <1>1, <1>2, <1>3, <1>4 DEF Keys
<1>10. Cursors'
  BY <1>1, <1>2, <1>4 DEF Cursors
<1>11. McpTyped'
  BY <1>1, <1>2, <1>3, <1>4 DEF McpInv, McpTyped
<1>12. Tickets(Host)' /\ Management(Host, events)' /\ Flying(Host, events)'
  BY <1>2 DEF McpInv
<1> QED BY <1>8, <1>9, <1>10, <1>11, <1>12 DEF McpInv

---------------------------------------------------------------------------
(* The tasks beside the host loop.                                         *)

(* A step of a task changes that task, the status calls and the channel.   *)
LEMMA TaskSteps ==
    ASSUME McpInv, UNCHANGED <<hostVars, childVars, draining, nextKey, ran, bare, faults>>,
           task' \in Tasks, statuses' \subseteq Nat, events' \in Seq(Messages),
           Management(Host', events'), Flying(Host', events')
    PROVE  McpInv'
<1>1. /\ Host'.pending = Host.pending /\ Host'.external = Host.external
      /\ Host'.answers = Host.answers /\ Host'.queued = Host.queued
      /\ Host'.flight = Host.flight /\ Host'.ckpt = Host.ckpt /\ Host'.worker = Host.worker
      /\ Host'.input = Host.input /\ Host'.task = task' /\ Host'.statuses = statuses'
      /\ IsHost(Host')
  BY HostNow, HostNext DEF hostVars, childVars
<1>2. nextTicket' = nextTicket /\ menu' = menu /\ ckpt' = ckpt /\ worker' = worker
      /\ srv' = srv /\ active' = active /\ output' = output
  BY DEF hostVars, childVars
<1>3. /\ HostTyped(Host, nextTicket) /\ Tickets(Host) /\ Keys /\ Cursors
      /\ Work(Host, DOMAIN active, output, srv, ran, draining) /\ output \in Seq(OutputLines)
  BY DEF McpInv, McpTyped
<1>4. HostTyped(Host', nextTicket)
  BY <1>1, <1>3 DEF HostTyped
<1>5. Tickets(Host')
  BY <1>1, <1>3 DEF Tickets
<1>6. SameWork(Host, Host')
  BY <1>1 DEF SameWork, Working
<1>7. Work(Host', DOMAIN active, output, srv, ran, draining)
  BY <1>3, <1>4, <1>5, <1>6, WorkStays
<1>8. McpTyped'
  BY <1>2, <1>4 DEF McpInv, McpTyped
<1>9. Keys' /\ Cursors'
  BY <1>2, <1>3 DEF Keys, Cursors
<1> QED BY <1>2, <1>5, <1>7, <1>8, <1>9 DEF McpInv

(* One more message.                                                       *)
LEMMA OneMessage ==
    ASSUME NEW ev \in Seq(Messages), NEW m \in Messages
    PROVE  /\ Append(ev, m) \in Seq(Messages) /\ Len(ev) \in Nat
           /\ Len(ev) + 1 \in DOMAIN Append(ev, m) /\ Append(ev, m)[Len(ev) + 1] = m
           /\ \A k \in DOMAIN ev : k \in DOMAIN Append(ev, m) /\ Append(ev, m)[k] = ev[k]
           /\ \A k \in DOMAIN Append(ev, m) :
                 /\ k \in Nat /\ k <= Len(ev) + 1
                 /\ k \in DOMAIN ev \/ k = Len(ev) + 1
           /\ \A k \in DOMAIN ev : k \in Nat /\ k <= Len(ev)
    BY AppendLines

(* The activation goes on, reports that it was accepted, or finishes.      *)
Goes(h, g, ev, new) ==
    /\ g.flight = h.flight /\ g.ckpt = h.ckpt /\ g.pending = h.pending /\ g.answers = h.answers
    /\ g.queued = h.queued /\ g.statuses = h.statuses
    /\ h.task.pc # "Idle"
    /\ \/ new = ev /\ g.task.pc # "Idle" /\ g.task.from = h.task.from
       \/ /\ g.task.pc # "Idle" /\ g.task.from = h.task.from
          /\ \E m \in Messages : new = Append(ev, m) /\ m.type = "Accepted" /\ m.install = 0
       \/ /\ g.task.pc = "Idle"
          /\ \E m \in Messages : new = Append(ev, m) /\ m.type = "Finished" /\ m.from = h.task.from

(* A restart that goes on keeps what the host knows of its flight.         *)
LEMMA FlightGoes ==
    ASSUME NEW h, NEW g, NEW ev \in Seq(Messages), NEW new, Goes(h, g, ev, new),
           Management(h, ev), Flying(h, ev)
    PROVE  Management(g, new) /\ Flying(g, new) /\ new \in Seq(Messages)
<1>1. Barriers(g) <=> Barriers(h)
  BY DEF Goes, Barriers
<1>2. /\ h.task.pc # "Idle" /\ h.flight.stage # "None" /\ h.task.from = h.ckpt /\ ~Barriers(h)
      /\ \A k \in DOMAIN ev : ev[k].type # "Finished"
      /\ \A k \in DOMAIN ev : ev[k].install = 0
  BY DEF Goes, Flying
<1>3. g.flight = h.flight /\ g.ckpt = h.ckpt /\ g.queued = h.queued /\ g.statuses = h.statuses
      /\ g.pending = h.pending /\ g.answers = h.answers
  BY DEF Goes
<1>4. ASSUME \A t : Reported(new, t) <=> Reported(ev, t) PROVE Management(g, new)
  <2>1. \A t : Looked(g, new, t) <=> Looked(h, ev, t)
    BY <1>3, <1>4 DEF Looked, InQueue
  <2> QED BY <1>1, <1>3, <2>1 DEF Management, Held, Managed
<1>5. CASE new = ev /\ g.task.pc # "Idle" /\ g.task.from = h.task.from
  <2>1. Flying(g, new)
    BY <1>1, <1>2, <1>3, <1>5 DEF Flying
  <2> QED BY <1>4, <1>5, <2>1
<1>6. CASE /\ g.task.pc # "Idle" /\ g.task.from = h.task.from
           /\ \E m \in Messages : new = Append(ev, m) /\ m.type = "Accepted" /\ m.install = 0
  <2>1. PICK m \in Messages : new = Append(ev, m) /\ m.type = "Accepted" /\ m.install = 0
    BY <1>6
  <2>2. /\ \A k \in DOMAIN ev : k \in DOMAIN new /\ new[k] = ev[k]
        /\ \A k \in DOMAIN new : k \in DOMAIN ev \/ new[k] = m
        /\ new \in Seq(Messages)
    BY <2>1, OneMessage
  <2>3. \A k \in DOMAIN new : new[k].type # "Finished" /\ new[k].install = 0
    BY <1>2, <2>1, <2>2
  <2>4. \A t : Reported(new, t) <=> Reported(ev, t)
    BY <2>1, <2>2 DEF Reported
  <2>5. Flying(g, new)
    BY <1>1, <1>2, <1>3, <1>6, <2>3 DEF Flying
  <2> QED BY <1>4, <2>2, <2>4, <2>5
<1>7. CASE /\ g.task.pc = "Idle"
           /\ \E m \in Messages : new = Append(ev, m) /\ m.type = "Finished" /\ m.from = h.task.from
  <2>1. PICK m \in Messages : new = Append(ev, m) /\ m.type = "Finished" /\ m.from = h.task.from
    BY <1>7
  <2>2. /\ Len(ev) \in Nat /\ Len(ev) + 1 \in DOMAIN new /\ new[Len(ev) + 1] = m
        /\ \A k \in DOMAIN ev : k \in DOMAIN new /\ new[k] = ev[k]
        /\ \A k \in DOMAIN new :
              k \in Nat /\ k <= Len(ev) + 1 /\ (k \in DOMAIN ev \/ k = Len(ev) + 1)
        /\ new \in Seq(Messages)
    BY <2>1, OneMessage
  <2>3. ASSUME NEW k \in DOMAIN new, k # Len(ev) + 1
        PROVE  new[k].type # "Finished" /\ new[k].install = 0
    BY <1>2, <2>2, <2>3
  <2>4. \A t : Reported(new, t) <=> Reported(ev, t)
    BY <2>1, <2>2 DEF Reported
  <2>5. ASSUME NEW k \in DOMAIN new
        PROVE  /\ new[k].type # "Status" => g.flight.stage # "None"
               /\ new[k].install # 0 => new[k].type = "Finished" /\ new[k].from = g.ckpt
               /\ new[k].type = "Finished" => \A j \in DOMAIN new : j > k => new[j].type = "Status"
    <3>1. CASE k = Len(ev) + 1
      <4>1. \A j \in DOMAIN new : ~(j > k)
        BY <2>2, <3>1
      <4> QED BY <1>2, <1>3, <2>1, <2>2, <3>1, <4>1
    <3>2. CASE k # Len(ev) + 1
      BY <1>2, <1>3, <2>3, <3>2
    <3> QED BY <3>1, <3>2
  <2>6. Flying(g, new)
    BY <1>1, <1>2, <1>3, <1>7, <2>1, <2>2, <2>5 DEF Flying
  <2> QED BY <1>4, <2>2, <2>4, <2>6
<1> QED BY <1>5, <1>6, <1>7 DEF Goes

(* A message of the activation.                                            *)
LEMMA EventForm ==
    ASSUME task \in Tasks, NEW type \in {"Accepted", "Finished"}, NEW install \in Nat
    PROVE  /\ Event(type, install) \in Messages /\ Event(type, install).type = type
           /\ Event(type, install).install = install /\ Event(type, install).from = task.from
    BY DEF Event, Messages, Tasks

(* The initial task.                                                       *)
LEMMA IdleTask == NoTask \in Tasks /\ NoTask.pc = "Idle"
<1>1. FirstName \in Names /\ FirstContext \in Contexts
  BY McpAssumption
<1>2. Checkpoint(ServerNew) \in SessionCheckpoint
  BY <1>1 DEF Checkpoint, ServerNew, SessionCheckpoint, CursorPolicy
<1> QED BY <1>2 DEF NoTask, Tasks, Policies

(* Finishing, with or without a new worker.                                *)
LEMMA Finishes ==
    ASSUME McpInv, NEW result, Finish(result), task.pc # "Idle",
           UNCHANGED <<hostVars, childVars, statuses, draining, nextKey, ran, bare, faults>>
    PROVE  McpInv'
<1>1. task \in Tasks /\ task.install \in Nat /\ events \in Seq(Messages) /\ statuses \subseteq Nat
      /\ Management(Host, events) /\ Flying(Host, events)
  <2>1. Host.task \in Tasks /\ Host.statuses \subseteq Nat
    BY DEF McpInv, McpTyped, HostTyped
  <2> QED BY <2>1, HostNow DEF McpInv, McpTyped, Tasks
<1> DEFINE install == IF result = "failed" THEN 0 ELSE task.install
           m == Event("Finished", install)
<1>2. events' = Append(events, m) /\ task' = NoTask
  BY DEF Finish
<1>3. m \in Messages /\ m.type = "Finished" /\ m.from = task.from
  <2>1. install \in Nat
    BY <1>1
  <2> HIDE DEF install
  <2> QED BY <1>1, <2>1, EventForm
<1> HIDE DEF m
<1>4. Goes(Host, Host', events, events')
  <2>1. /\ Host'.flight = Host.flight /\ Host'.ckpt = Host.ckpt /\ Host'.pending = Host.pending
        /\ Host'.answers = Host.answers /\ Host'.queued = Host.queued
        /\ Host'.statuses = Host.statuses /\ Host.task = task /\ Host'.task = task'
    BY HostNow, HostNext DEF hostVars
  <2>2. Host'.task.pc = "Idle" /\ Host.task.pc # "Idle" /\ m.from = Host.task.from
    BY <1>2, <1>3, <2>1, IdleTask
  <2> QED BY <1>2, <1>3, <2>1, <2>2 DEF Goes
<1>5. Management(Host', events') /\ Flying(Host', events') /\ events' \in Seq(Messages)
  BY <1>1, <1>4, FlightGoes
<1>6. task' \in Tasks /\ statuses' \subseteq Nat
  BY <1>1, <1>2, IdleTask
<1> QED BY <1>5, <1>6, TaskSteps

(* The activation goes on.                                                 *)
LEMMA Proceeds ==
    ASSUME McpInv, task.pc # "Idle", task' \in Tasks, task'.pc # "Idle", task'.from = task.from,
           \/ events' = events
           \/ events' = Append(events, Event("Accepted", 0)),
           UNCHANGED <<hostVars, childVars, statuses, draining, nextKey, ran, bare, faults>>
    PROVE  McpInv'
<1>1. task \in Tasks /\ events \in Seq(Messages) /\ statuses \subseteq Nat
      /\ Management(Host, events) /\ Flying(Host, events)
  <2>1. Host.task \in Tasks /\ Host.statuses \subseteq Nat
    BY DEF McpInv, McpTyped, HostTyped
  <2> QED BY <2>1, HostNow DEF McpInv, McpTyped
<1> DEFINE m == Event("Accepted", 0)
<1>2. m \in Messages /\ m.type = "Accepted" /\ m.install = 0
  BY <1>1, EventForm
<1>3. events' = events \/ events' = Append(events, m)
  OBVIOUS
<1> HIDE DEF m
<1>4. Goes(Host, Host', events, events')
  <2>1. /\ Host'.flight = Host.flight /\ Host'.ckpt = Host.ckpt /\ Host'.pending = Host.pending
        /\ Host'.answers = Host.answers /\ Host'.queued = Host.queued
        /\ Host'.statuses = Host.statuses /\ Host.task = task /\ Host'.task = task'
    BY HostNow, HostNext DEF hostVars
  <2> QED BY <1>2, <1>3, <2>1 DEF Goes
<1>5. Management(Host', events') /\ Flying(Host', events') /\ events' \in Seq(Messages)
  BY <1>1, <1>4, FlightGoes
<1>6. statuses' \subseteq Nat
  BY <1>1
<1> QED BY <1>5, <1>6, TaskSteps

(* Preparing, activating and monitoring.                                   *)
LEMMA ActivationSteps ==
    ASSUME McpInv, ActivationStep
    PROVE  McpInv'
<1>1. task \in Tasks
  <2>1. Host.task \in Tasks
    BY DEF McpInv, McpTyped, HostTyped
  <2> QED BY <2>1, HostNow
<1>2. CASE PrepareReplacement
  <2>1. task.pc = "Prepare"
        /\ UNCHANGED <<hostVars, childVars, statuses, draining, nextKey, ran, bare, faults>>
    BY <1>2 DEF PrepareReplacement
  <2>2. CASE task' = [task EXCEPT !.pc = "Activate"] /\ events' = events
    <3>1. task' \in Tasks /\ task'.pc # "Idle" /\ task'.from = task.from
      BY <1>1, <2>2 DEF Tasks
    <3> QED BY <2>1, <2>2, <3>1, Proceeds
  <2>3. ASSUME NEW candidate \in Builds,
               task' = [task EXCEPT !.pc = "Activate", !.verified = TRUE,
                                    !.install = IF candidate = task.current
                                                   /\ task.policy = "RetainSameBuild"
                                                THEN 0 ELSE candidate],
               events' = events
        PROVE  McpInv'
    <3> DEFINE install == IF candidate = task.current /\ task.policy = "RetainSameBuild"
                          THEN 0 ELSE candidate
    <3>1. install \in Nat
      BY McpAssumption
    <3>2. task' = [task EXCEPT !.pc = "Activate", !.verified = TRUE, !.install = install]
      BY <2>3
    <3> HIDE DEF install
    <3>3. task' \in Tasks /\ task'.pc # "Idle" /\ task'.from = task.from
      BY <1>1, <3>1, <3>2 DEF Tasks
    <3> QED BY <2>1, <2>3, <3>3, Proceeds
  <2>4. CASE Finish("failed")
    BY <2>1, <2>4, Finishes
  <2> QED BY <1>2, <2>2, <2>3, <2>4 DEF PrepareReplacement
<1>3. CASE Activate
  <2>1. task.pc = "Activate"
        /\ UNCHANGED <<hostVars, childVars, statuses, draining, nextKey, ran, bare, faults>>
    BY <1>3 DEF Activate
  <2>2. PICK answer, same :
           IF Checked(answer, same) = "accepted"
           THEN /\ events' = Append(events, Event("Accepted", 0))
                /\ task' = [task EXCEPT !.pc = "Monitor"]
           ELSE Finish(Checked(answer, same))
    BY <1>3 DEF Activate
  <2>3. CASE /\ events' = Append(events, Event("Accepted", 0))
             /\ task' = [task EXCEPT !.pc = "Monitor"]
    <3>1. task' \in Tasks /\ task'.pc # "Idle" /\ task'.from = task.from
      BY <1>1, <2>3 DEF Tasks
    <3> QED BY <2>1, <2>3, <3>1, Proceeds
  <2>4. CASE Finish(Checked(answer, same))
    BY <2>1, <2>4, Finishes
  <2> QED BY <2>2, <2>3, <2>4
<1>4. CASE Monitor
  <2>1. task.pc = "Monitor"
        /\ UNCHANGED <<hostVars, childVars, statuses, draining, nextKey, ran, bare, faults>>
    BY <1>4 DEF Monitor
  <2>2. \E result : Finish(result)
    BY <1>4 DEF Monitor
  <2> QED BY <2>1, <2>2, Finishes
<1> QED BY <1>2, <1>3, <1>4 DEF ActivationStep

(* A status call has its answer.                                           *)
LEMMA StatusStep ==
    ASSUME McpInv, StatusCall
    PROVE  McpInv'
<1>1. PICK t \in statuses :
         /\ statuses' = statuses \ {t}
         /\ events' = Append(events, [type |-> "Status", ticket |-> t, install |-> 0, from |-> ckpt])
  BY DEF StatusCall
<1>2. UNCHANGED <<hostVars, childVars, task, draining, nextKey, ran, bare, faults>>
  BY DEF StatusCall
<1>3. task \in Tasks /\ statuses \subseteq Nat /\ ckpt \in SessionCheckpoint
      /\ events \in Seq(Messages) /\ Management(Host, events) /\ Flying(Host, events)
  <2>1. Host.task \in Tasks /\ Host.statuses \subseteq Nat /\ Host.ckpt \in SessionCheckpoint
    BY DEF McpInv, McpTyped, HostTyped
  <2> QED BY <2>1, HostNow DEF McpInv, McpTyped
<1> DEFINE m == [type |-> "Status", ticket |-> t, install |-> 0, from |-> ckpt]
<1>4. m \in Messages /\ m.type = "Status" /\ m.ticket = t /\ m.install = 0
  BY <1>1, <1>3 DEF Messages
<1>5. events' = Append(events, m)
  BY <1>1
<1> HIDE DEF m
<1>6. /\ Len(events) + 1 \in DOMAIN events' /\ events'[Len(events) + 1] = m
      /\ \A k \in DOMAIN events : k \in DOMAIN events' /\ events'[k] = events[k]
      /\ \A k \in DOMAIN events' : k \in DOMAIN events \/ events'[k] = m
      /\ events' \in Seq(Messages)
  BY <1>3, <1>4, <1>5, OneMessage
<1>7. /\ Host'.flight = Host.flight /\ Host'.ckpt = Host.ckpt /\ Host'.pending = Host.pending
      /\ Host'.answers = Host.answers /\ Host'.queued = Host.queued
      /\ Host'.task = Host.task /\ Host.statuses = statuses /\ Host'.statuses = statuses'
  BY <1>2, HostNow, HostNext DEF hostVars
<1>8. Barriers(Host') <=> Barriers(Host)
  BY <1>7 DEF Barriers
<1>9. \A u : Reported(events', u) <=> Reported(events, u) \/ u = t
  BY <1>4, <1>6 DEF Reported
<1>10. \A u : Looked(Host', events', u) <=> Looked(Host, events, u)
  BY <1>1, <1>7, <1>9 DEF Looked, InQueue
<1>11. Management(Host', events')
  BY <1>3, <1>7, <1>8, <1>10 DEF Management, Held, Managed
<1>12. Flying(Host', events')
  <2>1. ASSUME NEW k \in DOMAIN events'
        PROVE  /\ events'[k].type # "Status" => Host'.flight.stage # "None"
               /\ events'[k].install # 0 => events'[k].type = "Finished" /\ events'[k].from = Host'.ckpt
               /\ events'[k].type = "Finished" =>
                     \A j \in DOMAIN events' : j > k => events'[j].type = "Status"
    <3>1. CASE events'[k] = m
      BY <1>4, <3>1
    <3>2. CASE k \in DOMAIN events
      <4>1. /\ events[k].type # "Status" => Host.flight.stage # "None"
            /\ events[k].install # 0 => events[k].type = "Finished" /\ events[k].from = Host.ckpt
            /\ events[k].type = "Finished" =>
                  \A j \in DOMAIN events : j > k => events[j].type = "Status"
        BY <1>3, <3>2 DEF Flying
      <4>2. events'[k] = events[k]
        BY <1>6, <3>2
      <4> QED BY <1>4, <1>6, <1>7, <4>1, <4>2
    <3> QED BY <1>6, <3>1, <3>2
  <2>2. Host'.task.pc # "Idle" => \A k \in DOMAIN events' : events'[k].type # "Finished"
    BY <1>3, <1>4, <1>6, <1>7 DEF Flying
  <2>3. Host'.flight.stage # "None" =>
           Host'.task.pc # "Idle" \/ \E k \in DOMAIN events' : events'[k].type = "Finished"
    BY <1>3, <1>6, <1>7 DEF Flying
  <2> QED BY <1>3, <1>7, <1>8, <2>1, <2>2, <2>3 DEF Flying
<1>13. task' \in Tasks /\ statuses' \subseteq Nat
  BY <1>1, <1>2, <1>3
<1> QED BY <1>2, <1>6, <1>11, <1>12, <1>13, TaskSteps

---------------------------------------------------------------------------
(* Requests of the client.                                                 *)

(* The handler's result is the host's next state.                          *)
LEMMA Becomes ==
    ASSUME NEW g, IsHost(g), Become(g)
    PROVE  Host' = g
    BY DEF Become, Host, IsHost

(* g is h with a new request n under the identifier i.                     *)
Ticketed(h, g, n, i, b) ==
    /\ IsHost(g)
    /\ g.pending = With(h.pending, n, g.pending[n]) /\ g.external = With(h.external, i, n)
    /\ g.answers = With(h.answers, n, g.answers[n])
    /\ DOMAIN g.pending = DOMAIN h.pending \cup {n}
    /\ \A t \in DOMAIN h.pending : g.pending[t] = h.pending[t]
    /\ g.pending[n] = [id |-> i, behavior |-> b, owner |-> Owner(b), canceled |-> FALSE]
    /\ DOMAIN g.external = DOMAIN h.external \cup {i}
    /\ \A j \in DOMAIN h.external : g.external[j] = h.external[j]
    /\ g.external[i] = n
    /\ DOMAIN g.answers = DOMAIN h.answers \cup {n}
    /\ \A t \in DOMAIN h.answers : g.answers[t] = h.answers[t]
    /\ g.answers[n] = [id |-> i, behavior |-> b, reply |-> "none"]
    /\ g.queued = h.queued /\ g.flight = h.flight /\ g.ckpt = h.ckpt /\ g.worker = h.worker
    /\ g.input = h.input /\ g.task = h.task /\ g.statuses = h.statuses

(* A new ticket fits with the others.                                      *)
LEMMA NewTicket ==
    ASSUME NEW n, NEW h, HostTyped(h, n), Tickets(h), NEW i \in Ids, i \notin DOMAIN h.external,
           NEW b \in ToolBehavior, NEW g, Ticketed(h, g, n, i, b)
    PROVE  HostTyped(g, n + 1) /\ Tickets(g)
<1>1. /\ n \in Nat /\ n # 0 /\ n \notin DOMAIN h.pending /\ n \notin DOMAIN h.answers
      /\ DOMAIN h.answers = 1..(n - 1) /\ DOMAIN h.pending \subseteq 1..(n - 1)
  BY DEF HostTyped
<1>2. g.pending[n] \in Pendings /\ g.answers[n] \in Answers
  BY DEF Ticketed, Pendings, Answers, Owner, Replies
<1>3. /\ g.pending[n].id = i /\ g.pending[n].behavior = b /\ g.pending[n].owner = Owner(b)
      /\ g.pending[n].canceled = FALSE
      /\ g.answers[n].id = i /\ g.answers[n].behavior = b /\ g.answers[n].reply = "none"
  BY DEF Ticketed
<1>4. HostTyped(g, n + 1)
  <2>1. 1..((n + 1) - 1) = 1..(n - 1) \cup {n}
    BY <1>1
  <2>2. g.pending \in [DOMAIN g.pending -> Pendings]
    <3>1. \A t \in DOMAIN g.pending : g.pending[t] \in Pendings
      BY <1>2 DEF HostTyped, Ticketed
    <3>2. g.pending = [t \in DOMAIN g.pending |-> g.pending[t]]
      BY DEF With, Ticketed
    <3> QED BY <3>1, <3>2
  <2>3. g.answers \in [1..((n + 1) - 1) -> Answers]
    <3>1. \A t \in DOMAIN g.answers : g.answers[t] \in Answers
      BY <1>2 DEF HostTyped, Ticketed
    <3>2. g.answers = [t \in DOMAIN g.answers |-> g.answers[t]]
      BY DEF With, Ticketed
    <3>3. DOMAIN g.answers = 1..((n + 1) - 1)
      BY <1>1, <2>1 DEF Ticketed
    <3> QED BY <3>1, <3>2, <3>3
  <2>4. g.external \in [DOMAIN g.external -> Nat]
    <3>1. \A j \in DOMAIN g.external : g.external[j] \in Nat
      BY <1>1 DEF HostTyped, Ticketed
    <3>2. g.external = [j \in DOMAIN g.external |-> g.external[j]]
      BY DEF With, Ticketed
    <3> QED BY <3>1, <3>2
  <2>5. DOMAIN g.pending \subseteq 1..((n + 1) - 1) /\ n + 1 \in Nat \ {0}
    BY <1>1, <2>1 DEF Ticketed
  <2> QED BY <2>2, <2>3, <2>4, <2>5 DEF HostTyped, Ticketed
<1>5. ASSUME NEW t \in DOMAIN g.pending
      PROVE  /\ g.pending[t].owner = Owner(g.pending[t].behavior)
             /\ g.answers[t].id = g.pending[t].id
             /\ g.answers[t].behavior = g.pending[t].behavior
             /\ g.answers[t].reply = "none"
  <2>1. CASE t = n
    BY <1>3, <2>1
  <2>2. CASE t \in DOMAIN h.pending
    <3>1. g.pending[t] = h.pending[t] /\ g.answers[t] = h.answers[t]
      BY <1>1, <2>2 DEF Ticketed
    <3> QED BY <2>2, <3>1 DEF Tickets
  <2> QED BY <2>1, <2>2 DEF Ticketed
<1>6. ASSUME NEW j \in DOMAIN g.external
      PROVE  /\ g.external[j] \in DOMAIN g.pending
             /\ g.pending[g.external[j]].id = j /\ ~g.pending[g.external[j]].canceled
  <2>1. CASE j = i
    BY <1>3, <2>1 DEF Ticketed
  <2>2. CASE j \in DOMAIN h.external
    <3>1. g.external[j] = h.external[j] /\ h.external[j] \in DOMAIN h.pending
          /\ h.pending[h.external[j]].id = j /\ ~h.pending[h.external[j]].canceled
      BY <2>2 DEF Ticketed, Tickets
    <3> QED BY <3>1 DEF Ticketed
  <2> QED BY <2>1, <2>2 DEF Ticketed
<1>7. ASSUME NEW t \in DOMAIN g.pending, ~g.pending[t].canceled
      PROVE  /\ g.pending[t].id \in DOMAIN g.external /\ g.external[g.pending[t].id] = t
             /\ \A u \in DOMAIN g.answers : g.answers[u].id = g.pending[t].id => u <= t
  <2>1. CASE t = n
    <3>1. \A u \in DOMAIN g.answers : u <= n
      BY <1>1 DEF Ticketed
    <3> QED BY <1>3, <2>1, <3>1 DEF Ticketed
  <2>2. CASE t \in DOMAIN h.pending
    <3>1. g.pending[t] = h.pending[t] /\ ~h.pending[t].canceled
      BY <1>7, <2>2 DEF Ticketed
    <3>2. /\ h.pending[t].id \in DOMAIN h.external /\ h.external[h.pending[t].id] = t
          /\ \A u \in DOMAIN h.answers : h.answers[u].id = h.pending[t].id => u <= t
      BY <2>2, <3>1 DEF Tickets
    <3>3. h.pending[t].id # i
      BY <3>2
    <3>4. ASSUME NEW u \in DOMAIN g.answers, g.answers[u].id = g.pending[t].id PROVE u <= t
      <4>1. u # n
        BY <1>3, <3>1, <3>3, <3>4
      <4>2. u \in DOMAIN h.answers /\ g.answers[u] = h.answers[u]
        BY <4>1 DEF Ticketed
      <4> QED BY <3>1, <3>2, <3>4, <4>2
    <3> QED BY <3>1, <3>2, <3>4 DEF Ticketed
  <2> QED BY <2>1, <2>2 DEF Ticketed
<1> QED BY <1>4, <1>5, <1>6, <1>7 DEF Tickets

(* A state of the host with what it shares with the others.                *)
Sound(h, n, ev, act, out, s, did, may) ==
    /\ HostTyped(h, n) /\ Tickets(h) /\ Management(h, ev) /\ Flying(h, ev)
    /\ out \in Seq(OutputLines) /\ Work(h, act, out, s, did, may)

(* What a handler of the host leaves to the worker and to its messages.    *)
Carries(h, g) == g.ckpt = h.ckpt /\ g.worker = h.worker

(* What the new request leaves alone.                                      *)
LEMMA NewTicketKeeps ==
    ASSUME NEW n, NEW h, HostTyped(h, n), Tickets(h), NEW i, NEW b, NEW g, Ticketed(h, g, n, i, b)
    PROVE  /\ n \notin DOMAIN h.pending /\ n \notin DOMAIN h.answers /\ n \in Nat
           /\ g.pending[n].owner = Owner(b) /\ g.pending[n].behavior = b
           /\ g.answers[n].behavior = b /\ g.answers[n].reply = "none"
           /\ \A t : t # n => (Working(g, t) <=> Working(h, t))
           /\ \A t : Working(h, t) => t # n /\ g.pending[t] = h.pending[t]
           /\ Working(g, n) <=> Owner(b) = "Worker"
           /\ ~(Owner(b) = "Worker" /\ b = "Session") => (Barriers(g) <=> Barriers(h))
           /\ Barriers(h) => Barriers(g)
           /\ \A t : Managed(h, t) => Managed(g, t)
<1>1. n \notin DOMAIN h.pending /\ n \notin DOMAIN h.answers /\ n \in Nat
  BY DEF HostTyped
<1>2. /\ g.pending[n].owner = Owner(b) /\ g.pending[n].behavior = b
      /\ g.answers[n].behavior = b /\ g.answers[n].reply = "none"
  BY DEF Ticketed
<1>3. /\ DOMAIN g.pending = DOMAIN h.pending \cup {n}
      /\ \A t \in DOMAIN h.pending : g.pending[t] = h.pending[t]
      /\ DOMAIN g.answers = DOMAIN h.answers \cup {n}
      /\ \A t \in DOMAIN h.answers : g.answers[t] = h.answers[t]
  BY DEF Ticketed
<1>4. /\ \A t : t # n => (Working(g, t) <=> Working(h, t))
      /\ \A t : Working(h, t) => t # n /\ g.pending[t] = h.pending[t]
      /\ Working(g, n) <=> Owner(b) = "Worker"
  BY <1>1, <1>2, <1>3 DEF Working
<1>5. /\ ~(Owner(b) = "Worker" /\ b = "Session") => (Barriers(g) <=> Barriers(h))
      /\ Barriers(h) => Barriers(g)
  BY <1>1, <1>2, <1>3 DEF Barriers
<1>6. \A t : Managed(h, t) => Managed(g, t)
  BY <1>3 DEF Managed
<1> QED BY <1>1, <1>2, <1>4, <1>5, <1>6

(* A management call waits or starts.                                      *)
LEMMA Queues ==
    ASSUME NEW n, NEW h, NEW ev, NEW act, NEW out, NEW s, NEW did, NEW may,
           Sound(h, n, ev, act, out, s, did, may),
           NEW i \in Ids, i \notin DOMAIN h.external, NEW b \in ToolBehavior,
           Owner(b) = "Management", NEW f, Ticketed(h, f, n, i, b),
           NEW call \in {"Status", "Restart"}
    PROVE  LET g == StartQueued([f EXCEPT
                        !.queued = f.queued \cup {[ticket |-> n, call |-> call]}])
           IN  Sound(g, n + 1, ev, act, out, s, did, may) /\ Carries(h, g)
<1> DEFINE q == [ticket |-> n, call |-> call]
           Q == f.queued \cup {q}
           k == [f EXCEPT !.queued = Q]
           g == StartQueued(k)
<1>1. /\ HostTyped(h, n) /\ Tickets(h) /\ Held(h, ev) /\ Flying(h, ev)
      /\ out \in Seq(OutputLines) /\ Work(h, act, out, s, did, may)
  BY DEF Sound, Management
<1>2. HostTyped(f, n + 1) /\ Tickets(f)
  BY <1>1, NewTicket
<1>3. /\ n \notin DOMAIN h.pending /\ n \notin DOMAIN h.answers /\ n \in Nat
      /\ f.answers[n].behavior = b /\ f.answers[n].reply = "none"
      /\ \A t : Working(f, t) <=> Working(h, t)
      /\ \A t : Working(h, t) => f.pending[t] = h.pending[t]
      /\ Barriers(f) <=> Barriers(h)
      /\ \A t : Managed(h, t) => Managed(f, t)
  BY <1>1, NewTicketKeeps
<1>4. q \in [ticket : Nat, call : {"Status", "Restart"}] /\ q.ticket = n
  BY <1>3
<1> HIDE DEF q
<1>5. /\ IsHost(k) /\ k.queued = Q
      /\ k.pending = f.pending /\ k.external = f.external /\ k.answers = f.answers
      /\ k.ckpt = f.ckpt /\ k.worker = f.worker /\ k.input = f.input
      /\ k.flight = f.flight /\ k.task = f.task /\ k.statuses = f.statuses
  <2>1. IsHost(f)
    BY <1>2 DEF HostTyped
  <2> HIDE DEF Q
  <2> QED BY <2>1, OtherQueue
<1> HIDE DEF k
<1>6. HostTyped(k, n + 1)
  BY <1>2, <1>4, <1>5 DEF HostTyped
<1>7. Tickets(k)
  BY <1>2, <1>5 DEF Tickets
<1>8. f.queued = h.queued /\ f.statuses = h.statuses /\ f.flight = h.flight /\ f.task = h.task
      /\ f.ckpt = h.ckpt /\ f.worker = h.worker /\ f.input = h.input
      /\ DOMAIN f.pending = DOMAIN h.pending \cup {n}
      /\ (\A t \in DOMAIN h.pending : f.pending[t] = h.pending[t])
      /\ DOMAIN f.answers = DOMAIN h.answers \cup {n}
      /\ (\A t \in DOMAIN h.answers : f.answers[t] = h.answers[t])
  BY DEF Ticketed
<1>9. Managed(k, n) /\ InQueue(k, n)
  BY <1>3, <1>4, <1>5, <1>8 DEF Managed, InQueue
<1>10. ASSUME NEW t PROVE Looked(k, ev, t) <=> Looked(h, ev, t) \/ t = n
  BY <1>4, <1>5, <1>8 DEF Looked, InQueue
<1>11. Held(k, ev)
  <2>1. ASSUME NEW t \in Nat, Looked(k, ev, t) PROVE Managed(k, t)
    <3>1. CASE t = n
      BY <1>9, <3>1
    <3>2. CASE Looked(h, ev, t)
      <4>1. Managed(h, t)
        BY <1>1, <3>2 DEF Held
      <4> QED BY <1>3, <1>5, <4>1 DEF Managed
    <3> QED BY <1>10, <2>1, <3>1, <3>2
  <2>2. ASSUME NEW t \in DOMAIN k.pending, k.pending[t].owner = "Management"
        PROVE  Looked(k, ev, t)
    BY <1>1, <1>5, <1>8, <1>10, <2>2 DEF Held
  <2> QED BY <2>1, <2>2 DEF Held
<1>12. Barriers(k) <=> Barriers(h)
  BY <1>3, <1>5 DEF Barriers
<1>13. Flying(k, ev)
  BY <1>1, <1>5, <1>8, <1>12 DEF Flying
<1>14. GrownWork(h, k)
  BY <1>3, <1>5, <1>8 DEF GrownWork, Working
<1>15. Work(k, act, out, s, did, may)
  BY <1>1, <1>7, <1>14, WorkGrows
<1>16. HostTyped(g, n + 1) /\ Tickets(g) /\ SameWork(k, g) /\ Started(k, g)
  <2>1. \A t \in Nat : InQueue(k, t) => Managed(k, t)
    BY <1>11 DEF Held, Looked
  <2>2. k.flight.stage = "None" => k.flight.requesters = {}
    BY <1>13 DEF Flying
  <2> QED BY <1>6, <1>7, <2>1, <2>2, Starts
<1> HIDE DEF g
<1>17. Management(g, ev) /\ Flying(g, ev)
  BY <1>6, <1>11, <1>13, <1>16, StartManages
<1>18. Work(g, act, out, s, did, may)
  BY <1>1, <1>6, <1>7, <1>15, <1>16, WorkStays
<1>19. Sound(g, n + 1, ev, act, out, s, did, may)
  BY <1>1, <1>16, <1>17, <1>18 DEF Sound
<1>20. Carries(h, g)
  BY <1>5, <1>8, <1>16 DEF Carries, SameWork
<1> QED BY <1>19, <1>20 DEF g, k, q

(* A request to the worker is refused.                                     *)
LEMMA RefusedWorks ==
    ASSUME NEW n, NEW h, NEW ev, NEW act, NEW out, NEW s, NEW did, NEW may,
           Sound(h, n, ev, act, out, s, did, may),
           NEW i \in Ids, i \notin DOMAIN h.external, NEW b \in ToolBehavior,
           Owner(b) = "Worker", NEW f, Ticketed(h, f, n, i, b)
    PROVE  LET g == Complete(f, n, "refused")
           IN  Sound(g, n + 1, ev, act, out, s, did, may) /\ Carries(h, g)
<1> DEFINE reply == Always("refused")
           g == CompleteAll(f, {n}, reply)
<1>1. /\ HostTyped(h, n) /\ Tickets(h) /\ Management(h, ev) /\ Flying(h, ev)
      /\ out \in Seq(OutputLines) /\ Work(h, act, out, s, did, may)
  BY DEF Sound
<1>2. HostTyped(f, n + 1) /\ Tickets(f)
  BY <1>1, NewTicket
<1>3. reply \in ReplyTable /\ reply["Mutation"] = "refused"
  BY ReplyTables DEF Replies
<1> HIDE DEF reply
<1>4. HostTyped(g, n + 1) /\ Leaves(f, g, {n}, reply) /\ Keeps(f, g)
  BY <1>2, <1>3, Completes
<1> HIDE DEF g
<1>5. Tickets(g)
  BY <1>2, <1>4, TicketsLeave
<1>6. /\ n \notin DOMAIN h.pending /\ n \notin DOMAIN h.answers
      /\ f.queued = h.queued /\ f.statuses = h.statuses /\ f.flight = h.flight /\ f.task = h.task
      /\ f.ckpt = h.ckpt /\ f.worker = h.worker /\ f.input = h.input
      /\ DOMAIN f.pending = DOMAIN h.pending \cup {n}
      /\ (\A t \in DOMAIN h.pending : f.pending[t] = h.pending[t])
      /\ DOMAIN f.answers = DOMAIN h.answers \cup {n}
      /\ (\A t \in DOMAIN h.answers : f.answers[t] = h.answers[t])
      /\ f.pending[n].canceled = FALSE /\ f.pending[n].behavior = b
  BY <1>1 DEF Ticketed, HostTyped
<1>7. /\ DOMAIN g.pending = DOMAIN h.pending
      /\ \A t \in DOMAIN h.pending : g.pending[t] = h.pending[t]
  BY <1>4, <1>6 DEF Leaves
<1>8. /\ g.queued = h.queued /\ g.statuses = h.statuses /\ g.flight = h.flight
      /\ g.task = h.task /\ g.ckpt = h.ckpt /\ g.worker = h.worker /\ g.input = h.input
  BY <1>4, <1>6 DEF Keeps
<1>9. /\ DOMAIN g.answers = DOMAIN h.answers \cup {n}
      /\ \A t \in DOMAIN h.answers :
            /\ g.answers[t].behavior = h.answers[t].behavior
            /\ g.answers[t].reply = h.answers[t].reply
      /\ g.answers[n].reply \notin {"ok", "unresolved"}
  <2>1. Told(f.pending[n], reply) \notin {"ok", "unresolved"}
    BY <1>3, <1>6 DEF Told
  <2>2. \A t \in DOMAIN h.answers : t # n
    BY <1>6
  <2> QED BY <1>4, <1>6, <2>1, <2>2 DEF Leaves
<1>10. \A t : Working(g, t) <=> Working(h, t)
  BY <1>7 DEF Working
<1>11. GrownWork(h, g)
  BY <1>7, <1>8, <1>9, <1>10 DEF GrownWork, Working
<1>12. Work(g, act, out, s, did, may)
  BY <1>1, <1>5, <1>11, WorkGrows
<1>13. Barriers(g) <=> Barriers(h)
  BY <1>7 DEF Barriers
<1>14. Management(g, ev)
  <2>1. \A t : Looked(g, ev, t) <=> Looked(h, ev, t)
    BY <1>8 DEF Looked, InQueue
  <2>2. \A t : Managed(h, t) => Managed(g, t)
    BY <1>9 DEF Managed
  <2> QED BY <1>1, <1>7, <1>8, <1>13, <2>1, <2>2 DEF Management, Held
<1>15. Flying(g, ev)
  BY <1>1, <1>8, <1>13 DEF Flying
<1>16. Sound(g, n + 1, ev, act, out, s, did, may)
  BY <1>1, <1>4, <1>5, <1>12, <1>14, <1>15 DEF Sound
<1>17. Carries(h, g)
  BY <1>8 DEF Carries
<1> QED BY <1>16, <1>17 DEF g, reply, Complete

(* The host with another line to the worker.                               *)
LEMMA OtherInput ==
    ASSUME NEW h, IsHost(h), NEW q
    PROVE  LET g == [h EXCEPT !.input = q]
           IN  /\ IsHost(g) /\ g.input = q
               /\ g.pending = h.pending /\ g.external = h.external /\ g.answers = h.answers
               /\ g.ckpt = h.ckpt /\ g.worker = h.worker /\ g.queued = h.queued
               /\ g.flight = h.flight /\ g.task = h.task /\ g.statuses = h.statuses
<1>1. DOMAIN h = Fields
  BY HostFields
<1> QED BY <1>1 DEF IsHost, Fields

(* send: to a worker that lives, the line arrives.                         *)
LEMMA Sends ==
    ASSUME NEW n, NEW h, HostTyped(h, n), NEW m \in InputLines
    PROVE  LET g == Send(h, m)
           IN  /\ HostTyped(g, n) /\ g.worker = h.worker
               /\ g.pending = h.pending /\ g.external = h.external /\ g.answers = h.answers
               /\ g.queued = h.queued /\ g.flight = h.flight /\ g.ckpt = h.ckpt
               /\ g.task = h.task /\ g.statuses = h.statuses
               /\ h.worker.alive => g.input = Append(h.input, m)
               /\ ~h.worker.alive => g.input = h.input
<1> DEFINE g == Send(h, m)
<1>1. h.input \in Seq(InputLines) /\ IsHost(h)
  BY DEF HostTyped
<1>2. CASE h.worker.alive
  <2> DEFINE q == Append(h.input, m)
             f == [h EXCEPT !.input = q]
  <2>1. g = f
    BY <1>2 DEF Send
  <2>2. q \in Seq(InputLines)
    BY <1>1
  <2> HIDE DEF q
  <2>3. /\ IsHost(f) /\ f.input = q
        /\ f.pending = h.pending /\ f.external = h.external /\ f.answers = h.answers
        /\ f.ckpt = h.ckpt /\ f.worker = h.worker /\ f.queued = h.queued
        /\ f.flight = h.flight /\ f.task = h.task /\ f.statuses = h.statuses
    BY <1>1, OtherInput
  <2> HIDE DEF f, g
  <2>4. HostTyped(f, n)
    BY <2>2, <2>3 DEF HostTyped
  <2>5. f.input = Append(h.input, m)
    BY <2>3 DEF q
  <2> QED BY <1>2, <2>1, <2>3, <2>4, <2>5 DEF g
<1>3. CASE ~h.worker.alive
  <2>1. g = h
    BY <1>3 DEF Send
  <2> QED BY <1>3, <2>1
<1> QED BY <1>2, <1>3

(* The lines to the worker are those of h and, if it lives, one more.      *)
Posted(h, g, m) ==
    /\ \A k \in DOMAIN h.input : k \in DOMAIN g.input /\ g.input[k] = h.input[k] /\ k \in Nat
    /\ \A k \in DOMAIN g.input : k \in Nat
    /\ \A k \in DOMAIN g.input : k \notin DOMAIN h.input =>
          /\ h.worker.alive /\ g.input[k] = m
          /\ \A j \in DOMAIN g.input : j <= k
    /\ h.worker.alive => \E k \in DOMAIN g.input : g.input[k] = m
    /\ ~h.worker.alive => g.input = h.input

(* What send does to the lines.                                            *)
LEMMA Posts ==
    ASSUME NEW n, NEW h, HostTyped(h, n), NEW m \in InputLines, NEW g,
           h.worker.alive => g.input = Append(h.input, m),
           ~h.worker.alive => g.input = h.input
    PROVE  Posted(h, g, m) /\ \A t : Sent(g, t) <=>
              Sent(h, t) \/ (h.worker.alive /\ m.type = "Dispatch" /\ m.ticket = t)
<1>1. h.input \in Seq(InputLines) /\ DOMAIN h.input = 1..Len(h.input) /\ Len(h.input) \in Nat
  BY DEF HostTyped
<1>2. CASE h.worker.alive
  <2>1. /\ DOMAIN g.input = 1..(Len(h.input) + 1) /\ g.input[Len(h.input) + 1] = m
        /\ \A k \in DOMAIN h.input : k \in DOMAIN g.input /\ g.input[k] = h.input[k]
        /\ \A k \in DOMAIN g.input : k \in DOMAIN h.input \/ k = Len(h.input) + 1
    BY <1>1, <1>2, AppendLines
  <2>2. Posted(h, g, m)
    BY <1>1, <1>2, <2>1 DEF Posted
  <2>3. \E k \in DOMAIN g.input : g.input[k] = m
    BY <1>1, <2>1
  <2>4. \A t : Sent(g, t) <=> Sent(h, t) \/ (m.type = "Dispatch" /\ m.ticket = t)
    BY <2>1, <2>3 DEF Sent
  <2> QED BY <1>2, <2>2, <2>4
<1>3. CASE ~h.worker.alive
  BY <1>1, <1>3 DEF Posted, Sent
<1> QED BY <1>2, <1>3

(* What no request has been told of, no line, wait or run mentions.        *)
LEMMA Fresh ==
    ASSUME NEW h, NEW n, NEW ev, NEW act, NEW out, NEW s, NEW did, NEW may,
           Sound(h, n, ev, act, out, s, did, may), NEW t \in Nat, t \notin DOMAIN h.answers
    PROVE  /\ ~Sent(h, t) /\ t \notin act /\ ~Answered(out, t) /\ ~Begins(did, may, t)
           /\ \A k \in DOMAIN h.input : h.input[k].ticket # t
           /\ \A k \in DOMAIN out : out[k].ticket # t
<1>0. HostTyped(h, n) /\ out \in Seq(OutputLines) /\ Work(h, act, out, s, did, may)
  BY DEF Sound
<1>1. Lines(h, act, out) /\ Cancels(h, act, out) /\ Truths(h, out, did, may)
  BY <1>0 DEF Work
<1>2. ~Working(h, t) /\ ~Forgotten(h, t)
  BY <1>0 DEF Working, HostTyped, Forgotten
<1>3. \A k \in DOMAIN h.input : h.input[k].type \in {"Dispatch", "Cancel"}
  <2>1. \A k \in DOMAIN h.input : h.input[k] \in InputLines
    BY <1>0 DEF HostTyped
  <2> QED BY <2>1 DEF InputLines
<1>4. \A k \in DOMAIN out : out[k].event \in {"Handled", "Canceled"}
  <2>1. \A k \in DOMAIN out : out[k] \in OutputLines
    BY <1>0
  <2> QED BY <2>1 DEF OutputLines
<1>5. \A k \in DOMAIN h.input : h.input[k].ticket # t
  BY <1>1, <1>2, <1>3 DEF Lines, Cancels
<1>6. ~Answered(out, t)
  BY <1>1, <1>2 DEF Lines
<1>7. \A k \in DOMAIN out : out[k].ticket # t
  BY <1>1, <1>2, <1>4, <1>6 DEF Cancels, Answered
<1>8. ~Sent(h, t)
  BY <1>5 DEF Sent
<1>9. t \notin act
  BY <1>1, <1>2 DEF Lines
<1>10. ~Begins(did, may, t)
  BY <1>1 DEF Truths
<1> QED BY <1>5, <1>6, <1>7, <1>8, <1>9, <1>10

(* A request is sent to the worker.                                        *)
LEMMA SentWorks ==
    ASSUME NEW n, NEW h, NEW ev, NEW act, NEW out, NEW s, NEW did, NEW may,
           Sound(h, n, ev, act, out, s, did, may),
           NEW i \in Ids, i \notin DOMAIN h.external, NEW b \in ToolBehavior,
           Owner(b) = "Worker", NEW f, Ticketed(h, f, n, i, b),
           NEW r \in Requests, b = Route(r.tool),
           h.worker.running, h.flight.stage = "None"
    PROVE  LET g == Send(f, [type |-> "Dispatch", ticket |-> n, req |-> r])
           IN  Sound(g, n + 1, ev, act, out, s, did, may) /\ Carries(h, g)
<1> DEFINE m == [type |-> "Dispatch", ticket |-> n, req |-> r]
           g == Send(f, m)
<1>1. /\ HostTyped(h, n) /\ Tickets(h) /\ Management(h, ev) /\ Flying(h, ev)
      /\ out \in Seq(OutputLines) /\ Work(h, act, out, s, did, may)
  BY DEF Sound
<1>2. HostTyped(f, n + 1) /\ Tickets(f)
  BY <1>1, NewTicket
<1>3. /\ n \notin DOMAIN h.pending /\ n \notin DOMAIN h.answers /\ n \in Nat
      /\ f.pending[n].owner = Owner(b) /\ f.pending[n].behavior = b
      /\ f.answers[n].behavior = b /\ f.answers[n].reply = "none"
      /\ \A t : t # n => (Working(f, t) <=> Working(h, t))
      /\ \A t : Working(h, t) => t # n /\ f.pending[t] = h.pending[t]
      /\ Working(f, n) <=> Owner(b) = "Worker"
      /\ Barriers(h) => Barriers(f)
      /\ \A t : Managed(h, t) => Managed(f, t)
  BY <1>1, NewTicketKeeps
<1>4. m \in InputLines /\ m.type = "Dispatch" /\ m.ticket = n /\ m.req = r
  BY <1>3 DEF InputLines
<1> HIDE DEF m
<1>5. /\ HostTyped(g, n + 1) /\ g.worker = f.worker
      /\ g.pending = f.pending /\ g.external = f.external /\ g.answers = f.answers
      /\ g.queued = f.queued /\ g.flight = f.flight /\ g.ckpt = f.ckpt
      /\ g.task = f.task /\ g.statuses = f.statuses
      /\ f.worker.alive => g.input = Append(f.input, m)
      /\ ~f.worker.alive => g.input = f.input
  BY <1>2, <1>4, Sends
<1> HIDE DEF g
<1>6. /\ f.queued = h.queued /\ f.statuses = h.statuses /\ f.flight = h.flight /\ f.task = h.task
      /\ f.ckpt = h.ckpt /\ f.worker = h.worker /\ f.input = h.input
      /\ DOMAIN f.pending = DOMAIN h.pending \cup {n}
      /\ (\A t \in DOMAIN h.pending : f.pending[t] = h.pending[t])
      /\ DOMAIN f.answers = DOMAIN h.answers \cup {n}
      /\ (\A t \in DOMAIN h.answers : f.answers[t] = h.answers[t])
  BY DEF Ticketed
<1>7. /\ Posted(h, g, m)
      /\ \A t : Sent(g, t) <=> Sent(h, t) \/ (h.worker.alive /\ t = n)
  <2>1. Posted(h, g, m) /\ \A t : Sent(g, t) <=>
              Sent(h, t) \/ (h.worker.alive /\ m.type = "Dispatch" /\ m.ticket = t)
    BY <1>1, <1>4, <1>5, <1>6, Posts
  <2> QED BY <1>4, <2>1
<1>8. /\ ~Sent(h, n) /\ n \notin act /\ ~Answered(out, n) /\ ~Begins(did, may, n)
      /\ \A k \in DOMAIN h.input : h.input[k].ticket # n
      /\ \A k \in DOMAIN out : out[k].ticket # n
  BY <1>1, <1>3, Fresh
<1>9. /\ \A t : t # n => (Working(g, t) <=> Working(h, t))
      /\ \A t : Working(h, t) => t # n /\ g.pending[t] = h.pending[t] /\ Working(g, t)
      /\ Working(g, n) /\ g.pending[n].behavior = b
      /\ Barriers(h) => Barriers(g)
  <2>1. Barriers(g) <=> Barriers(f)
    BY <1>5 DEF Barriers
  <2>2. \A t : Working(g, t) <=> Working(f, t)
    BY <1>5 DEF Working
  <2>3. \A t : t # n => (Working(g, t) <=> Working(h, t))
    BY <1>3, <2>2
  <2>4. \A t : Working(h, t) => t # n /\ g.pending[t] = h.pending[t] /\ Working(g, t)
    BY <1>3, <1>5, <2>3
  <2>5. Working(g, n) /\ g.pending[n].behavior = b
    BY <1>3, <1>5, <2>2
  <2>6. Barriers(h) => Barriers(g)
    BY <1>3, <2>1
  <2> QED BY <2>3, <2>4, <2>5, <2>6
<1>10. Tickets(g)
  BY <1>2, <1>5 DEF Tickets
<1>11. Management(g, ev)
  <2>1. \A t : Looked(g, ev, t) <=> Looked(h, ev, t)
    BY <1>5, <1>6 DEF Looked, InQueue
  <2>2. \A t : Managed(h, t) => Managed(g, t)
    BY <1>3, <1>5 DEF Managed
  <2>3. \A t \in DOMAIN g.pending :
           g.pending[t].owner = "Management" => t \in DOMAIN h.pending /\ h.pending[t].owner = "Management"
    BY <1>3, <1>5, <1>6
  <2> QED BY <1>1, <1>5, <1>6, <1>9, <2>1, <2>2, <2>3 DEF Management, Held
<1>12. Flying(g, ev)
  BY <1>1, <1>5, <1>6 DEF Flying
<1>13. Link(g, out)
  BY <1>1, <1>5, <1>6 DEF Work, Link
<1>14. Lines(g, act, out)
  <2>1. Lines(h, act, out)
    BY <1>1 DEF Work
  <2>2. ASSUME NEW k \in DOMAIN g.input, g.input[k].type = "Dispatch"
        PROVE  /\ Working(g, g.input[k].ticket)
               /\ g.pending[g.input[k].ticket].behavior = Route(g.input[k].req.tool)
    <3>1. CASE k \in DOMAIN h.input
      BY <1>7, <1>9, <2>1, <2>2, <3>1 DEF Posted, Lines
    <3>2. CASE k \notin DOMAIN h.input
      BY <1>4, <1>7, <1>9, <3>2 DEF Posted
    <3> QED BY <3>1, <3>2
  <2>3. \A t \in act : Working(g, t) /\ g.pending[t].behavior = "Wait"
    BY <1>9, <2>1 DEF Lines
  <2>4. \A t \in Nat : Answered(out, t) => Working(g, t)
    BY <1>9, <2>1 DEF Lines
  <2>5. ~g.worker.alive => act = {}
    BY <1>5, <1>6, <2>1 DEF Lines
  <2> QED BY <2>2, <2>3, <2>4, <2>5 DEF Lines
<1>15. OnePlace(g, act, out)
  <2>1. OnePlace(h, act, out)
    BY <1>1 DEF Work
  <2>2. ASSUME NEW j \in DOMAIN g.input, NEW k \in DOMAIN g.input,
               g.input[j].type = "Dispatch", g.input[k].type = "Dispatch",
               g.input[j].ticket = g.input[k].ticket
        PROVE  j = k
    <3>1. CASE j \in DOMAIN h.input /\ k \in DOMAIN h.input
      BY <1>7, <2>1, <2>2, <3>1 DEF Posted, OnePlace
    <3>2. CASE j \notin DOMAIN h.input /\ k \notin DOMAIN h.input
      BY <1>7, <3>2 DEF Posted
    <3>3. CASE j \in DOMAIN h.input /\ k \notin DOMAIN h.input
      BY <1>4, <1>7, <1>8, <2>2, <3>3 DEF Posted
    <3>4. CASE j \notin DOMAIN h.input /\ k \in DOMAIN h.input
      BY <1>4, <1>7, <1>8, <2>2, <3>4 DEF Posted
    <3> QED BY <3>1, <3>2, <3>3, <3>4
  <2>3. \A t \in Nat : Sent(g, t) => t \notin act /\ ~Answered(out, t)
    BY <1>7, <1>8, <2>1 DEF OnePlace
  <2> QED BY <2>1, <2>2, <2>3 DEF OnePlace
<1>16. Cancels(g, act, out)
  <2>1. Cancels(h, act, out)
    BY <1>1 DEF Work
  <2>2. ASSUME NEW t, Forgotten(h, t) PROVE Forgotten(g, t)
    BY <1>3, <1>5, <1>6, <2>2 DEF Forgotten
  <2>3. ASSUME NEW k \in DOMAIN g.input, g.input[k].type = "Cancel"
        PROVE  /\ Forgotten(g, g.input[k].ticket)
               /\ \A j \in DOMAIN g.input :
                     j > k /\ g.input[j].type = "Dispatch" => g.input[j].ticket # g.input[k].ticket
    <3>1. k \in DOMAIN h.input /\ g.input[k] = h.input[k]
      BY <1>4, <1>7, <2>3 DEF Posted
    <3>2. Forgotten(g, g.input[k].ticket)
      BY <2>1, <2>2, <2>3, <3>1 DEF Cancels
    <3>3. ASSUME NEW j \in DOMAIN g.input, j > k, g.input[j].type = "Dispatch"
          PROVE  g.input[j].ticket # g.input[k].ticket
      <4>1. CASE j \in DOMAIN h.input
        BY <1>7, <2>1, <2>3, <3>1, <3>3, <4>1 DEF Posted, Cancels
      <4>2. CASE j \notin DOMAIN h.input
        BY <1>4, <1>7, <1>8, <3>1, <4>2 DEF Posted
      <4> QED BY <4>1, <4>2
    <3> QED BY <3>2, <3>3
  <2>4. ASSUME NEW k \in DOMAIN out, out[k].event = "Canceled"
        PROVE  /\ Forgotten(g, out[k].ticket)
               /\ ~Sent(g, out[k].ticket) /\ out[k].ticket \notin act
               /\ \A j \in DOMAIN out :
                     j > k /\ out[j].event = "Handled" => out[j].ticket # out[k].ticket
    BY <1>7, <1>8, <2>1, <2>2, <2>4 DEF Cancels
  <2> QED BY <2>3, <2>4 DEF Cancels
<1>17. Somewhere(g, act, out)
  <2>1. Somewhere(h, act, out)
    BY <1>1 DEF Work
  <2>2. ASSUME NEW t \in DOMAIN g.pending, g.pending[t].owner = "Worker"
        PROVE  /\ g.worker.running
               /\ g.worker.alive => Sent(g, t) \/ t \in act \/ Answered(out, t) \/ Stopped(out, t)
    <3>1. CASE t = n
      BY <1>5, <1>6, <1>7, <3>1
    <3>2. CASE t # n
      <4>1. t \in DOMAIN h.pending /\ h.pending[t].owner = "Worker"
        BY <1>5, <1>6, <2>2, <3>2
      <4> QED BY <1>5, <1>6, <1>7, <2>1, <4>1 DEF Somewhere
    <3> QED BY <3>1, <3>2
  <2> QED BY <2>2 DEF Somewhere
<1>18. Sessions(g, out, s)
  <2>1. Sessions(h, out, s)
    BY <1>1 DEF Work
  <2>2. \A l : Changes(h, l) => Changes(g, l)
    BY <1>5, <1>6 DEF Changes
  <2>3. \A j : At(g, out, j) = At(h, out, j)
    BY <1>5, <1>6 DEF At
  <2>4. ASSUME NEW j, NEW k, NEW c, Unchanged(h, out, j, k, c) PROVE Unchanged(g, out, j, k, c)
    BY <2>2, <2>3, <2>4 DEF Unchanged
  <2> QED BY <1>5, <1>6, <2>1, <2>3, <2>4 DEF Sessions
<1>19. Truths(g, out, did, may)
  <2>1. Truths(h, out, did, may) /\ Lines(h, act, out)
    BY <1>1 DEF Work
  <2>2. \A t \in DOMAIN h.answers : t # n /\ t \in DOMAIN g.answers /\ g.answers[t] = h.answers[t]
    BY <1>3, <1>5, <1>6
  <2>3. \A t \in Nat : Begins(did, may, t) =>
          /\ t \in DOMAIN g.answers /\ g.answers[t].behavior = "Mutation"
          /\ g.answers[t].reply \in Open
    BY <2>1, <2>2 DEF Truths
  <2>4. \A t \in Nat : Sent(g, t) => ~Begins(did, may, t)
    BY <1>7, <1>8, <2>1 DEF Truths
  <2>5. ASSUME NEW k \in DOMAIN out, out[k].event = "Handled"
        PROVE  out[k].ticket \in DOMAIN h.answers
    <3>1. out[k].ticket \in Nat
      <4>1. out[k] \in OutputLines
        BY <1>1
      <4> QED BY <4>1 DEF OutputLines
    <3>2. Working(h, out[k].ticket)
      BY <2>1, <2>5, <3>1 DEF Lines, Answered
    <3> QED BY <1>1, <3>2 DEF Working, HostTyped
  <2>6. \A k \in DOMAIN out :
          LET t == out[k].ticket IN
          out[k].event = "Handled" /\ g.answers[t].behavior = "Mutation" =>
              /\ out[k].reply \in {"ok", "unresolved", "error", "uncertain"}
              /\ out[k].reply \in {"ok", "unresolved"} => Began(did, t)
              /\ out[k].reply = "error" => ~Begins(did, may, t)
    BY <2>1, <2>2, <2>5 DEF Truths
  <2>7. \A t \in DOMAIN g.answers :
          g.answers[t].behavior = "Mutation" /\ g.answers[t].reply \in {"ok", "unresolved"} => Began(did, t)
    BY <1>3, <1>5, <1>6, <2>1, <2>2 DEF Truths
  <2> QED BY <2>3, <2>4, <2>6, <2>7 DEF Truths
<1>20. Work(g, act, out, s, did, may)
  BY <1>13, <1>14, <1>15, <1>16, <1>17, <1>18, <1>19 DEF Work
<1>21. Sound(g, n + 1, ev, act, out, s, did, may)
  BY <1>1, <1>5, <1>10, <1>11, <1>12, <1>20 DEF Sound
<1>22. Carries(h, g)
  BY <1>5, <1>6 DEF Carries
<1> QED BY <1>21, <1>22 DEF g, m

(* A handler that leaves the worker and its messages alone.                *)
LEMMA HandlerStep ==
    ASSUME McpInv, NEW g, Become(g), Carries(Host, g),
           Sound(g, nextTicket', events, DOMAIN active, output, srv, ran, draining),
           UNCHANGED <<menu, srv, active, output, events, draining, nextKey, ran, bare, faults>>
    PROVE  McpInv'
<1>1. /\ HostTyped(g, nextTicket') /\ Tickets(g) /\ Management(g, events) /\ Flying(g, events)
      /\ Work(g, DOMAIN active, output, srv, ran, draining)
  BY DEF Sound
<1>2. Host' = g
  BY <1>1, Becomes DEF HostTyped
<1>3. ckpt' = ckpt /\ worker' = worker
  BY <1>2, HostNow, HostNext DEF Carries
<1>4. McpTyped'
  BY <1>1, <1>2 DEF McpInv, McpTyped
<1>5. Keys' /\ Cursors'
  BY <1>3 DEF McpInv, Keys, Cursors
<1> QED BY <1>1, <1>2, <1>4, <1>5 DEF McpInv

(* The state is sound as long as the invariant holds.                      *)
LEMMA SoundNow ==
    ASSUME McpInv
    PROVE  Sound(Host, nextTicket, events, DOMAIN active, output, srv, ran, draining)
    BY DEF McpInv, McpTyped, Sound

(* A request is admitted.                                                  *)
LEMMA IncomingStep ==
    ASSUME McpInv, NEW i \in Ids, NEW r \in menu, Incoming(i, r)
    PROVE  McpInv'
<1> DEFINE n == nextTicket
           b == Route(r.tool)
           e == With(external, i, nextTicket)
           p == With(pending, nextTicket,
                     [id |-> i, behavior |-> b, owner |-> Owner(b), canceled |-> FALSE])
           a == With(answers, nextTicket, [id |-> i, behavior |-> b, reply |-> "none"])
           h == [Host EXCEPT !.external = e, !.pending = p, !.answers = a]
<1>1. /\ i \notin DOMAIN Host.external /\ nextTicket' = n + 1
      /\ UNCHANGED <<menu, srv, active, output, events, draining, nextKey, ran, bare, faults>>
  BY HostNow DEF Incoming
<1>2. PICK sends \in CanSend(h) : Become(DispatchRoute(h, n, r, sends))
  BY DEF Incoming
<1>3. Sound(Host, n, events, DOMAIN active, output, srv, ran, draining)
  BY SoundNow
<1>4. r \in Requests /\ b \in ToolBehavior
  <2>1. r \in Requests
    BY DEF Requests, McpInv, McpTyped
  <2> QED BY <2>1, RequestForm, Routes
<1>5. Ticketed(Host, h, n, i, b)
  <2> HIDE DEF b
  <2>1. n \notin DOMAIN pending /\ n \notin DOMAIN answers /\ i \notin DOMAIN external
    BY <1>1, <1>3, HostNow DEF Sound, HostTyped
  <2>2. /\ IsHost(h)
        /\ h.external = With(external, i, n)
        /\ h.pending = With(pending, n, [id |-> i, behavior |-> b, owner |-> Owner(b), canceled |-> FALSE])
        /\ h.answers = With(answers, n, [id |-> i, behavior |-> b, reply |-> "none"])
        /\ h.queued = queued /\ h.flight = flight /\ h.ckpt = ckpt /\ h.worker = worker
        /\ h.input = input /\ h.task = task /\ h.statuses = statuses
    <3>1. IsHost(Host)
      BY HostNow
    <3> HIDE DEF e, p, a
    <3>2. /\ IsHost(h) /\ h.external = e /\ h.pending = p /\ h.answers = a
          /\ h.ckpt = Host.ckpt /\ h.worker = Host.worker /\ h.queued = Host.queued
          /\ h.flight = Host.flight /\ h.task = Host.task /\ h.statuses = Host.statuses
          /\ h.input = Host.input
      <4>1. h = [Host EXCEPT !.external = e, !.pending = p, !.answers = a]
        BY DEF h
      <4> HIDE DEF h
      <4> QED BY <3>1, <4>1 DEF IsHost
    <3> HIDE DEF h
    <3> QED BY <3>2, HostNow DEF e, p, a
  <2> HIDE DEF h
  <2>3. /\ h.pending[n] = [id |-> i, behavior |-> b, owner |-> Owner(b), canceled |-> FALSE]
        /\ h.answers[n] = [id |-> i, behavior |-> b, reply |-> "none"]
        /\ h.external[i] = n
    BY <2>2 DEF With
  <2>4. /\ DOMAIN h.pending = DOMAIN pending \cup {n}
        /\ DOMAIN h.external = DOMAIN external \cup {i}
        /\ DOMAIN h.answers = DOMAIN answers \cup {n}
    BY <2>2 DEF With
  <2>5. /\ \A t \in DOMAIN pending : h.pending[t] = pending[t]
        /\ \A j \in DOMAIN external : h.external[j] = external[j]
        /\ \A t \in DOMAIN answers : h.answers[t] = answers[t]
    BY <2>1, <2>2 DEF With
  <2>6. /\ h.pending = With(pending, n, h.pending[n]) /\ h.answers = With(answers, n, h.answers[n])
    BY <2>2, <2>3
  <2> QED BY <2>2, <2>3, <2>4, <2>5, <2>6, HostNow DEF Ticketed
<1>6. h.worker = worker /\ h.flight = flight
  BY <1>5, HostNow DEF Ticketed
<1> HIDE DEF h, n, b
<1>7. CASE Owner(b) = "Management"
  <2> DEFINE call == IF b = "Status" THEN "Status" ELSE "Restart"
             g == StartQueued([h EXCEPT !.queued = h.queued \cup {[ticket |-> n, call |-> call]}])
  <2>1. DispatchRoute(h, n, r, sends) = g
    BY <1>7 DEF DispatchRoute, b
  <2>2. call \in {"Status", "Restart"}
    OBVIOUS
  <2> HIDE DEF call
  <2>3. Sound(g, n + 1, events, DOMAIN active, output, srv, ran, draining) /\ Carries(Host, g)
    BY <1>1, <1>3, <1>4, <1>5, <1>7, <2>2, Queues
  <2> HIDE DEF g
  <2> QED BY <1>1, <1>2, <2>1, <2>3, HandlerStep
<1>8. CASE Owner(b) = "Worker" /\ (Refuses(h, b) \/ ~sends)
  <2> DEFINE g == Complete(h, n, "refused")
  <2>1. DispatchRoute(h, n, r, sends) = g
    BY <1>8 DEF DispatchRoute, b
  <2>2. Sound(g, n + 1, events, DOMAIN active, output, srv, ran, draining) /\ Carries(Host, g)
    BY <1>1, <1>3, <1>4, <1>5, <1>8, RefusedWorks
  <2> HIDE DEF g
  <2> QED BY <1>1, <1>2, <2>1, <2>2, HandlerStep
<1>9. CASE Owner(b) = "Worker" /\ ~Refuses(h, b) /\ sends
  <2> DEFINE g == Send(h, [type |-> "Dispatch", ticket |-> n, req |-> r])
  <2>1. DispatchRoute(h, n, r, sends) = g
    BY <1>9 DEF DispatchRoute, b
  <2>2. Host.flight.stage = "None" /\ Host.worker.running
    <3>1. flight.stage = "None"
      BY <1>6, <1>9 DEF Refuses
    <3>2. worker.running
      BY <1>2, <1>6, <1>9 DEF CanSend
    <3> QED BY <3>1, <3>2, HostNow
  <2>3. b = Route(r.tool)
    BY DEF b
  <2>4. Sound(g, n + 1, events, DOMAIN active, output, srv, ran, draining) /\ Carries(Host, g)
    BY <1>1, <1>3, <1>4, <1>5, <1>9, <2>2, <2>3, SentWorks
  <2> HIDE DEF g
  <2> QED BY <1>1, <1>2, <2>1, <2>4, HandlerStep
<1>10. Owner(b) \in {"Management", "Worker"}
  BY DEF Owner
<1> QED BY <1>7, <1>8, <1>9, <1>10

(* g is h with the request t, made under the identifier i, cancelled.      *)
Marked(h, g, t, i) ==
    /\ IsHost(g)
    /\ g.pending \in [DOMAIN h.pending -> Pendings]
    /\ \A u \in DOMAIN h.pending : u # t => g.pending[u] = h.pending[u]
    /\ g.pending[t].canceled
    /\ \A u \in DOMAIN h.pending :
          /\ g.pending[u].id = h.pending[u].id /\ g.pending[u].behavior = h.pending[u].behavior
          /\ g.pending[u].owner = h.pending[u].owner
    /\ g.external \in [DOMAIN h.external \ {i} -> Nat]
    /\ \A j \in DOMAIN h.external \ {i} : g.external[j] = h.external[j]
    /\ g.answers = h.answers
    /\ g.queued = h.queued /\ g.flight = h.flight /\ g.ckpt = h.ckpt /\ g.worker = h.worker
    /\ g.input = h.input /\ g.task = h.task /\ g.statuses = h.statuses

(* A cancelled request is where it was; its identifier is free.            *)
LEMMA MarkedWorks ==
    ASSUME NEW h, NEW n, NEW ev, NEW act, NEW out, NEW s, NEW did, NEW may,
           Sound(h, n, ev, act, out, s, did, may),
           NEW i \in DOMAIN h.external, NEW t, t = h.external[i], NEW g, Marked(h, g, t, i)
    PROVE  Sound(g, n, ev, act, out, s, did, may) /\ Carries(h, g) /\ t \in DOMAIN g.pending
           /\ t \in Nat
<1>1. /\ HostTyped(h, n) /\ Tickets(h) /\ Management(h, ev) /\ Flying(h, ev)
      /\ out \in Seq(OutputLines) /\ Work(h, act, out, s, did, may)
  BY DEF Sound
<1>2. /\ DOMAIN g.pending = DOMAIN h.pending /\ g.pending[t].canceled
      /\ \A u \in DOMAIN h.pending :
            /\ g.pending[u].id = h.pending[u].id /\ g.pending[u].behavior = h.pending[u].behavior
            /\ g.pending[u].owner = h.pending[u].owner
            /\ u # t => g.pending[u] = h.pending[u]
  BY DEF Marked
<1>3. /\ DOMAIN g.external = DOMAIN h.external \ {i}
      /\ \A j \in DOMAIN h.external \ {i} : g.external[j] = h.external[j]
      /\ g.answers = h.answers
      /\ g.queued = h.queued /\ g.flight = h.flight /\ g.ckpt = h.ckpt /\ g.worker = h.worker
      /\ g.input = h.input /\ g.task = h.task /\ g.statuses = h.statuses
  BY DEF Marked
<1>4. t \in DOMAIN h.pending /\ h.pending[t].id = i /\ ~h.pending[t].canceled /\ t \in Nat
  BY <1>1 DEF Tickets, HostTyped
<1>5. HostTyped(g, n)
  BY <1>1, <1>2, <1>3 DEF HostTyped, Marked
<1>6. Tickets(g)
  <2>1. ASSUME NEW u \in DOMAIN g.pending
        PROVE  /\ g.pending[u].owner = Owner(g.pending[u].behavior)
               /\ g.answers[u].id = g.pending[u].id
               /\ g.answers[u].behavior = g.pending[u].behavior
               /\ g.answers[u].reply = "none"
    BY <1>1, <1>2, <1>3 DEF Tickets
  <2>2. ASSUME NEW j \in DOMAIN g.external
        PROVE  /\ g.external[j] \in DOMAIN g.pending
               /\ g.pending[g.external[j]].id = j /\ ~g.pending[g.external[j]].canceled
    <3>1. j \in DOMAIN h.external /\ j # i /\ g.external[j] = h.external[j]
      BY <1>3
    <3>2. /\ h.external[j] \in DOMAIN h.pending
          /\ h.pending[h.external[j]].id = j /\ ~h.pending[h.external[j]].canceled
      BY <1>1, <3>1 DEF Tickets
    <3>3. h.external[j] # t
      BY <1>4, <3>1, <3>2
    <3> QED BY <1>2, <3>1, <3>2, <3>3
  <2>3. ASSUME NEW u \in DOMAIN g.pending, ~g.pending[u].canceled
        PROVE  /\ g.pending[u].id \in DOMAIN g.external /\ g.external[g.pending[u].id] = u
               /\ \A v \in DOMAIN g.answers : g.answers[v].id = g.pending[u].id => v <= u
    <3>1. u # t /\ u \in DOMAIN h.pending /\ g.pending[u] = h.pending[u] /\ ~h.pending[u].canceled
      BY <1>2, <2>3
    <3>2. /\ h.pending[u].id \in DOMAIN h.external /\ h.external[h.pending[u].id] = u
          /\ \A v \in DOMAIN h.answers : h.answers[v].id = h.pending[u].id => v <= u
      BY <1>1, <3>1 DEF Tickets
    <3>3. h.pending[u].id # i
      BY <3>1, <3>2
    <3> QED BY <1>3, <3>1, <3>2, <3>3
  <2> QED BY <2>1, <2>2, <2>3 DEF Tickets
<1>7. Barriers(g) <=> Barriers(h)
  BY <1>2 DEF Barriers
<1>8. \A u : Working(g, u) <=> Working(h, u)
  BY <1>2 DEF Working
<1>9. Management(g, ev)
  <2>1. \A u : Looked(g, ev, u) <=> Looked(h, ev, u)
    BY <1>3 DEF Looked, InQueue
  <2>2. \A u : Managed(g, u) <=> Managed(h, u)
    BY <1>3 DEF Managed
  <2> QED BY <1>1, <1>2, <1>3, <1>7, <2>1, <2>2 DEF Management, Held
<1>10. Flying(g, ev)
  BY <1>1, <1>3, <1>7 DEF Flying
<1>11. \A u : Sent(g, u) <=> Sent(h, u)
  BY <1>3 DEF Sent
<1>12. Link(g, out)
  BY <1>1, <1>3 DEF Work, Link
<1>13. Lines(g, act, out)
  <2>1. Lines(h, act, out)
    BY <1>1 DEF Work
  <2>2. \A u : Working(h, u) => u \in DOMAIN h.pending
    BY DEF Working
  <2> QED BY <1>2, <1>3, <1>8, <2>1, <2>2 DEF Lines
<1>14. OnePlace(g, act, out)
  BY <1>1, <1>3, <1>11 DEF Work, OnePlace
<1>15. Cancels(g, act, out)
  <2>1. Cancels(h, act, out)
    BY <1>1 DEF Work
  <2>2. \A u : Forgotten(h, u) => Forgotten(g, u)
    BY <1>2, <1>3 DEF Forgotten
  <2> QED BY <1>3, <1>11, <2>1, <2>2 DEF Cancels
<1>16. Somewhere(g, act, out)
  BY <1>1, <1>2, <1>3, <1>11 DEF Work, Somewhere
<1>17. Sessions(g, out, s)
  <2>1. Sessions(h, out, s)
    BY <1>1 DEF Work
  <2>2. \A l : Changes(h, l) => Changes(g, l)
    BY <1>2 DEF Changes
  <2>3. \A j : At(g, out, j) = At(h, out, j)
    BY <1>3 DEF At
  <2>4. ASSUME NEW j, NEW k, NEW c, Unchanged(h, out, j, k, c) PROVE Unchanged(g, out, j, k, c)
    BY <2>2, <2>3, <2>4 DEF Unchanged
  <2> QED BY <1>3, <2>1, <2>3, <2>4 DEF Sessions
<1>18. Truths(g, out, did, may)
  BY <1>1, <1>3, <1>11 DEF Work, Truths
<1>19. Work(g, act, out, s, did, may)
  BY <1>12, <1>13, <1>14, <1>15, <1>16, <1>17, <1>18 DEF Work
<1>20. Sound(g, n, ev, act, out, s, did, may)
  BY <1>1, <1>5, <1>6, <1>9, <1>10, <1>19 DEF Sound
<1> QED BY <1>2, <1>3, <1>4, <1>20 DEF Carries

(* The worker is told of a cancellation.                                   *)
LEMMA CancelSent ==
    ASSUME NEW h, NEW n, NEW ev, NEW act, NEW out, NEW s, NEW did, NEW may,
           Sound(h, n, ev, act, out, s, did, may),
           NEW t \in DOMAIN h.pending, h.pending[t].canceled, h.pending[t].owner = "Worker",
           NEW m \in InputLines, m.type = "Cancel", m.ticket = t
    PROVE  LET g == Send(h, m)
           IN  Sound(g, n, ev, act, out, s, did, may) /\ Carries(h, g)
<1> DEFINE g == Send(h, m)
<1>1. /\ HostTyped(h, n) /\ Tickets(h) /\ Management(h, ev) /\ Flying(h, ev)
      /\ out \in Seq(OutputLines) /\ Work(h, act, out, s, did, may)
  BY DEF Sound
<1>2. /\ HostTyped(g, n) /\ g.worker = h.worker
      /\ g.pending = h.pending /\ g.external = h.external /\ g.answers = h.answers
      /\ g.queued = h.queued /\ g.flight = h.flight /\ g.ckpt = h.ckpt
      /\ g.task = h.task /\ g.statuses = h.statuses
      /\ h.worker.alive => g.input = Append(h.input, m)
      /\ ~h.worker.alive => g.input = h.input
  BY <1>1, Sends
<1> HIDE DEF g
<1>3. Frame(h, g)
  BY <1>2 DEF Frame
<1>4. Tickets(g) /\ Management(g, ev) /\ Flying(g, ev)
  BY <1>1, <1>3, SameFrame
<1>5. Posted(h, g, m) /\ \A u : Sent(g, u) <=> Sent(h, u)
  <2>1. Posted(h, g, m) /\ \A u : Sent(g, u) <=>
              Sent(h, u) \/ (h.worker.alive /\ m.type = "Dispatch" /\ m.ticket = u)
    BY <1>1, <1>2, Posts
  <2> QED BY <2>1
<1>6. \A u : Working(g, u) <=> Working(h, u)
  BY <1>2 DEF Working
<1>7. Forgotten(g, t)
  BY <1>1, <1>2 DEF Forgotten, HostTyped, Tickets
<1>8. Link(g, out)
  BY <1>1, <1>2 DEF Work, Link
<1>9. \A k \in DOMAIN g.input : g.input[k].type = "Dispatch" =>
         k \in DOMAIN h.input /\ g.input[k] = h.input[k]
  BY <1>5 DEF Posted
<1>10. Lines(g, act, out)
  <2>1. Lines(h, act, out)
    BY <1>1 DEF Work
  <2> QED BY <1>2, <1>6, <1>9, <2>1 DEF Lines
<1>11. OnePlace(g, act, out)
  <2>1. OnePlace(h, act, out)
    BY <1>1 DEF Work
  <2> QED BY <1>5, <1>9, <2>1 DEF OnePlace
<1>12. Cancels(g, act, out)
  <2>1. Cancels(h, act, out)
    BY <1>1 DEF Work
  <2>2. \A u : Forgotten(h, u) <=> Forgotten(g, u)
    BY <1>2 DEF Forgotten
  <2>3. ASSUME NEW k \in DOMAIN g.input, g.input[k].type = "Cancel"
        PROVE  /\ Forgotten(g, g.input[k].ticket)
               /\ \A j \in DOMAIN g.input :
                     j > k /\ g.input[j].type = "Dispatch" => g.input[j].ticket # g.input[k].ticket
    <3>1. CASE k \in DOMAIN h.input
      <4>1. g.input[k] = h.input[k]
        BY <1>5, <3>1 DEF Posted
      <4> QED BY <1>9, <2>1, <2>2, <2>3, <3>1, <4>1 DEF Cancels
    <3>2. CASE k \notin DOMAIN h.input
      <4>1. g.input[k] = m /\ \A j \in DOMAIN g.input : j \in Nat /\ k \in Nat /\ j <= k
        BY <1>5, <3>2 DEF Posted
      <4>2. \A j \in DOMAIN g.input : ~(j > k)
        BY <4>1
      <4> QED BY <1>7, <4>1, <4>2
    <3> QED BY <3>1, <3>2
  <2>4. ASSUME NEW k \in DOMAIN out, out[k].event = "Canceled"
        PROVE  /\ Forgotten(g, out[k].ticket)
               /\ ~Sent(g, out[k].ticket) /\ out[k].ticket \notin act
               /\ \A j \in DOMAIN out :
                     j > k /\ out[j].event = "Handled" => out[j].ticket # out[k].ticket
    BY <1>5, <2>1, <2>2, <2>4 DEF Cancels
  <2> QED BY <2>3, <2>4 DEF Cancels
<1>13. Somewhere(g, act, out)
  BY <1>1, <1>2, <1>5 DEF Work, Somewhere
<1>14. Sessions(g, out, s)
  <2>1. Sessions(h, out, s)
    BY <1>1 DEF Work
  <2>2. \A l : Changes(h, l) => Changes(g, l)
    BY <1>2 DEF Changes
  <2>3. \A j : At(g, out, j) = At(h, out, j)
    BY <1>2 DEF At
  <2>4. ASSUME NEW j, NEW k, NEW c, Unchanged(h, out, j, k, c) PROVE Unchanged(g, out, j, k, c)
    BY <2>2, <2>3, <2>4 DEF Unchanged
  <2> QED BY <1>2, <2>1, <2>3, <2>4 DEF Sessions
<1>15. Truths(g, out, did, may)
  BY <1>1, <1>2, <1>5 DEF Work, Truths
<1>16. Work(g, act, out, s, did, may)
  BY <1>8, <1>10, <1>11, <1>12, <1>13, <1>14, <1>15 DEF Work
<1>17. Sound(g, n, ev, act, out, s, did, may) /\ Carries(h, g)
  BY <1>1, <1>2, <1>4, <1>16 DEF Sound, Carries
<1> QED BY <1>17 DEF g

(* A cancelled management call that has not started leaves its queue.      *)
LEMMA Dequeues ==
    ASSUME NEW h, NEW n, NEW ev, NEW act, NEW out, NEW s, NEW did, NEW may,
           Sound(h, n, ev, act, out, s, did, may),
           NEW t \in DOMAIN h.pending, h.pending[t].owner = "Management",
           NEW Q, Q = {q \in h.queued : q.ticket # t}
    PROVE  LET g == [Complete(h, t, "silent") EXCEPT !.queued = Q]
           IN  Sound(g, n, ev, act, out, s, did, may) /\ Carries(h, g)
<1> DEFINE reply == Always("silent")
           f == CompleteAll(h, {t}, reply)
           g == [f EXCEPT !.queued = Q]
<1>1. /\ HostTyped(h, n) /\ Tickets(h) /\ Held(h, ev) /\ (h.queued # {} => Barriers(h))
      /\ Flying(h, ev) /\ out \in Seq(OutputLines) /\ Work(h, act, out, s, did, may)
  BY DEF Sound, Management
<1>2. reply \in ReplyTable
  BY ReplyTables DEF Replies
<1> HIDE DEF reply
<1>3. HostTyped(f, n) /\ Leaves(h, f, {t}, reply) /\ Keeps(h, f)
  BY <1>1, <1>2, Completes
<1> HIDE DEF f
<1>4. Tickets(f)
  BY <1>1, <1>3, TicketsLeave
<1>5. Managed(h, t)
  BY <1>1 DEF Managed, Tickets, HostTyped
<1>6. SameWork(h, f)
  BY <1>1, <1>3, <1>5, ManagedLeave
<1>7. /\ IsHost(g) /\ g.queued = Q
      /\ g.pending = f.pending /\ g.external = f.external /\ g.answers = f.answers
      /\ g.ckpt = f.ckpt /\ g.worker = f.worker /\ g.input = f.input
      /\ g.flight = f.flight /\ g.task = f.task /\ g.statuses = f.statuses
  <2>1. IsHost(f)
    BY <1>3 DEF HostTyped
  <2> QED BY <2>1, OtherQueue
<1> HIDE DEF g
<1>8. SameWork(h, g)
  BY <1>6, <1>7 DEF SameWork, Working
<1>9. Barriers(g) <=> Barriers(h)
  BY <1>8, SameBarriers
<1>10. HostTyped(g, n)
  <2>1. f.queued = h.queued
    BY <1>3 DEF Keeps
  <2> QED BY <1>3, <1>7, <2>1 DEF HostTyped
<1>11. Tickets(g)
  BY <1>4, <1>7 DEF Tickets
<1>12. /\ DOMAIN g.pending = DOMAIN h.pending \ {t}
       /\ \A u \in DOMAIN g.pending : g.pending[u] = h.pending[u]
       /\ g.flight = h.flight /\ g.task = h.task /\ g.statuses = h.statuses
       /\ g.ckpt = h.ckpt /\ g.worker = h.worker
       /\ DOMAIN g.answers = DOMAIN h.answers
       /\ \A u \in DOMAIN h.answers : g.answers[u].behavior = h.answers[u].behavior
  BY <1>3, <1>7 DEF Leaves, Keeps
<1>13. \A u : InQueue(g, u) <=> InQueue(h, u) /\ u # t
  BY <1>7 DEF InQueue
<1>14. Management(g, ev)
  <2>1. \A u : Managed(h, u) => Managed(g, u)
    BY <1>12 DEF Managed
  <2>2. \A u \in Nat : Looked(g, ev, u) => Managed(g, u)
    BY <1>1, <1>12, <1>13, <2>1 DEF Held, Looked
  <2>3. \A u \in DOMAIN g.pending : g.pending[u].owner = "Management" => Looked(g, ev, u)
    BY <1>1, <1>12, <1>13 DEF Held, Looked
  <2>4. g.queued # {} => Barriers(g)
    BY <1>1, <1>7, <1>9
  <2> QED BY <2>2, <2>3, <2>4 DEF Management, Held
<1>15. Flying(g, ev)
  BY <1>1, <1>9, <1>12 DEF Flying
<1>16. Work(g, act, out, s, did, may)
  BY <1>1, <1>8, <1>10, <1>11, WorkStays
<1>17. Sound(g, n, ev, act, out, s, did, may) /\ Carries(h, g)
  BY <1>1, <1>10, <1>11, <1>12, <1>14, <1>15, <1>16 DEF Sound, Carries
<1> QED BY <1>17 DEF g, f, reply, Complete

(* The client cancels a request.                                           *)
LEMMA CancelStep ==
    ASSUME McpInv, NEW i, Cancel(i)
    PROVE  McpInv'
<1> DEFINE t == external[i]
           e == Without(external, {i})
           p == [pending EXCEPT ![t].canceled = TRUE]
           h == [Host EXCEPT !.external = e, !.pending = p]
           m == [type |-> "Cancel", ticket |-> t, req |-> [tool |-> "ping", arg |-> ""]]
           waiting == \E q \in queued : q.ticket = t
           Q == {q \in queued : q.ticket # t}
<1>1. /\ i \in DOMAIN external /\ nextTicket' = nextTicket
      /\ UNCHANGED <<menu, srv, active, output, events, draining, nextKey, ran, bare, faults>>
  BY DEF Cancel
<1>2. IF pending[t].owner = "Worker"
      THEN \E sends \in CanSend(h) : Become(IF sends THEN Send(h, m) ELSE h)
      ELSE Become(IF waiting THEN [Complete(h, t, "silent") EXCEPT !.queued = Q] ELSE h)
  BY DEF Cancel
<1>3. Sound(Host, nextTicket, events, DOMAIN active, output, srv, ran, draining)
  BY SoundNow
<1>4. t \in DOMAIN pending /\ pending \in [DOMAIN pending -> Pendings] /\ t \in Nat
      /\ external \in [DOMAIN external -> Nat]
  <2>1. HostTyped(Host, nextTicket) /\ Tickets(Host)
    BY <1>3 DEF Sound
  <2> QED BY <1>1, <2>1, HostNow DEF HostTyped, Tickets
<1>5. Marked(Host, h, t, i)
  <2>1. /\ IsHost(h) /\ h.external = e /\ h.pending = p /\ h.answers = answers
        /\ h.queued = queued /\ h.flight = flight /\ h.ckpt = ckpt /\ h.worker = worker
        /\ h.input = input /\ h.task = task /\ h.statuses = statuses
    <3>1. IsHost(Host)
      BY HostNow
    <3>2. h = [Host EXCEPT !.external = e, !.pending = p]
      BY DEF h
    <3> HIDE DEF h, e, p
    <3>3. /\ IsHost(h) /\ h.external = e /\ h.pending = p /\ h.answers = Host.answers
          /\ h.queued = Host.queued /\ h.flight = Host.flight /\ h.ckpt = Host.ckpt
          /\ h.worker = Host.worker /\ h.input = Host.input /\ h.task = Host.task
          /\ h.statuses = Host.statuses
      BY <3>1, <3>2 DEF IsHost
    <3> QED BY <3>3, HostNow
  <2> HIDE DEF h, t
  <2>2. /\ p \in [DOMAIN pending -> Pendings]
        /\ \A u \in DOMAIN pending : u # t => p[u] = pending[u]
        /\ p[t].canceled
        /\ \A u \in DOMAIN pending :
              /\ p[u].id = pending[u].id /\ p[u].behavior = pending[u].behavior
              /\ p[u].owner = pending[u].owner
    BY <1>4 DEF Pendings
  <2>3. /\ e \in [DOMAIN external \ {i} -> Nat]
        /\ \A j \in DOMAIN external \ {i} : e[j] = external[j]
    BY <1>4 DEF Without, Restrict
  <2> HIDE DEF p, e
  <2> QED BY <2>1, <2>2, <2>3, HostNow DEF Marked
<1>6. /\ h.pending[t].canceled /\ h.pending[t].owner = pending[t].owner
      /\ h.queued = queued /\ t = Host.external[i] /\ i \in DOMAIN Host.external
  <2> HIDE DEF h, t
  <2>1. h.pending[t].canceled /\ h.pending[t].owner = pending[t].owner /\ h.queued = queued
    BY <1>4, <1>5, HostNow DEF Marked
  <2>2. t = Host.external[i] /\ i \in DOMAIN Host.external
    BY <1>1, HostNow DEF t
  <2> QED BY <2>1, <2>2
<1> HIDE DEF h, t, Q
<1>7. /\ Sound(h, nextTicket, events, DOMAIN active, output, srv, ran, draining)
      /\ Carries(Host, h) /\ t \in DOMAIN h.pending
  BY <1>3, <1>5, <1>6, MarkedWorks
<1>8. m \in InputLines /\ m.type = "Cancel" /\ m.ticket = t
  BY <1>4 DEF InputLines, Requests
<1> HIDE DEF m
<1>9. CASE Become(h)
  BY <1>1, <1>7, <1>9, HandlerStep
<1>10. CASE pending[t].owner = "Worker" /\ Become(Send(h, m))
  <2> DEFINE g == Send(h, m)
  <2>1. Sound(g, nextTicket, events, DOMAIN active, output, srv, ran, draining) /\ Carries(h, g)
    BY <1>6, <1>7, <1>8, <1>10, CancelSent
  <2>2. Become(g)
    BY <1>10
  <2> HIDE DEF g
  <2>3. Carries(Host, g)
    BY <1>7, <2>1 DEF Carries
  <2> QED BY <1>1, <2>1, <2>2, <2>3, HandlerStep
<1>11. CASE pending[t].owner # "Worker" /\ Become([Complete(h, t, "silent") EXCEPT !.queued = Q])
  <2> DEFINE g == [Complete(h, t, "silent") EXCEPT !.queued = Q]
  <2>1. h.pending[t].owner = "Management"
    <3>1. h.pending[t] \in Pendings
      BY <1>7 DEF Sound, HostTyped
    <3> QED BY <1>6, <1>11, <3>1 DEF Pendings
  <2>2. Q = {q \in h.queued : q.ticket # t}
    BY <1>6 DEF Q
  <2>3. Sound(g, nextTicket, events, DOMAIN active, output, srv, ran, draining) /\ Carries(h, g)
    BY <1>7, <2>1, <2>2, Dequeues
  <2>4. Become(g)
    BY <1>11
  <2> HIDE DEF g
  <2>5. Carries(Host, g)
    BY <1>7, <2>3 DEF Carries
  <2> QED BY <1>1, <2>3, <2>4, <2>5, HandlerStep
<1> QED BY <1>2, <1>9, <1>10, <1>11

---------------------------------------------------------------------------
(* Messages of the worker and of the management tasks.                     *)

(* As Sound, before the queued calls have been looked at.                  *)
Unqueued(h, n, ev, act, out, s, did, may) ==
    /\ HostTyped(h, n) /\ Tickets(h) /\ Held(h, ev) /\ Flying(h, ev)
    /\ out \in Seq(OutputLines) /\ Work(h, act, out, s, did, may)

(* start_queued ends every message.                                        *)
LEMMA QueueStarts ==
    ASSUME NEW h, NEW n, NEW ev, NEW act, NEW out, NEW s, NEW did, NEW may,
           Unqueued(h, n, ev, act, out, s, did, may)
    PROVE  LET g == StartQueued(h)
           IN  Sound(g, n, ev, act, out, s, did, may) /\ Carries(h, g)
<1> DEFINE g == StartQueued(h)
<1>1. /\ HostTyped(h, n) /\ Tickets(h) /\ Held(h, ev) /\ Flying(h, ev)
      /\ out \in Seq(OutputLines) /\ Work(h, act, out, s, did, may)
  BY DEF Unqueued
<1>2. HostTyped(g, n) /\ Tickets(g) /\ SameWork(h, g) /\ Started(h, g)
  <2>1. \A t \in Nat : InQueue(h, t) => Managed(h, t)
    BY <1>1 DEF Held, Looked
  <2>2. h.flight.stage = "None" => h.flight.requesters = {}
    BY <1>1 DEF Flying
  <2> QED BY <1>1, <2>1, <2>2, Starts
<1> HIDE DEF g
<1>3. Management(g, ev) /\ Flying(g, ev)
  BY <1>1, <1>2, StartManages
<1>4. Work(g, act, out, s, did, may)
  BY <1>1, <1>2, WorkStays
<1>5. Sound(g, n, ev, act, out, s, did, may) /\ Carries(h, g)
  BY <1>1, <1>2, <1>3, <1>4 DEF Sound, Carries, SameWork
<1> QED BY <1>5 DEF g

(* The host with another checkpoint.                                       *)
LEMMA OtherCheckpoint ==
    ASSUME NEW h, IsHost(h), NEW c
    PROVE  LET g == [h EXCEPT !.ckpt = c]
           IN  /\ IsHost(g) /\ g.ckpt = c
               /\ g.pending = h.pending /\ g.external = h.external /\ g.answers = h.answers
               /\ g.input = h.input /\ g.worker = h.worker /\ g.queued = h.queued
               /\ g.flight = h.flight /\ g.task = h.task /\ g.statuses = h.statuses
<1>1. DOMAIN h = Fields
  BY HostFields
<1> QED BY <1>1 DEF IsHost, Fields

(* The request a line is about is nowhere else.                            *)
LEMMA FirstLine ==
    ASSUME NEW h, NEW n, NEW ev, NEW act, NEW out, NEW s, NEW did, NEW may,
           Sound(h, n, ev, act, out, s, did, may), out # <<>>
    PROVE  LET t == out[1].ticket
           IN  /\ out[1] \in OutputLines /\ t \in DOMAIN h.answers /\ t \in Nat
               /\ Owner(h.answers[t].behavior) = "Worker"
               /\ ~Sent(h, t) /\ t \notin act
               /\ \A k \in DOMAIN out : k # 1 /\ out[k].event = "Handled" => out[k].ticket # t
               /\ out[1].event = "Canceled" /\ t \in DOMAIN h.pending => h.pending[t].canceled
               /\ out[1].event = "Handled" => t \in DOMAIN h.pending
<1> DEFINE t == out[1].ticket
<1>1. /\ HostTyped(h, n) /\ Tickets(h) /\ out \in Seq(OutputLines)
      /\ Lines(h, act, out) /\ OnePlace(h, act, out) /\ Cancels(h, act, out)
  BY DEF Sound, Work
<1>2. 1 \in DOMAIN out /\ out[1] \in OutputLines /\ \A k \in DOMAIN out : k \in Nat /\ k >= 1
  BY <1>1, TailLines
<1>3. t \in Nat /\ out[1].event \in {"Handled", "Canceled"}
  BY <1>2 DEF OutputLines
<1> HIDE DEF t
<1>4. CASE out[1].event = "Handled"
  <2>1. Answered(out, t)
    BY <1>2, <1>4 DEF Answered, t
  <2>2. Working(h, t)
    BY <1>1, <1>3, <2>1 DEF Lines
  <2>3. t \in DOMAIN h.pending /\ t \in DOMAIN h.answers /\ Owner(h.answers[t].behavior) = "Worker"
    BY <1>1, <2>2 DEF Working, HostTyped, Tickets
  <2>4. ~Sent(h, t) /\ t \notin act
    BY <1>1, <1>3, <2>1 DEF OnePlace
  <2>5. \A k \in DOMAIN out : k # 1 /\ out[k].event = "Handled" => out[k].ticket # t
    BY <1>1, <1>2, <1>4 DEF OnePlace, t
  <2> QED BY <1>2, <1>3, <1>4, <2>3, <2>4, <2>5 DEF t
<1>5. CASE out[1].event = "Canceled"
  <2>1. Forgotten(h, t) /\ ~Sent(h, t) /\ t \notin act
    BY <1>1, <1>2, <1>5 DEF Cancels, t
  <2>2. \A k \in DOMAIN out : k > 1 /\ out[k].event = "Handled" => out[k].ticket # t
    BY <1>1, <1>2, <1>5 DEF Cancels, t
  <2>3. \A k \in DOMAIN out : k # 1 => k > 1
    BY <1>2
  <2> QED BY <1>2, <1>3, <1>5, <2>1, <2>2, <2>3 DEF t, Forgotten
<1> QED BY <1>3, <1>4, <1>5

(* g has read the first line of the worker: taken its checkpoint and       *)
(* completed its request.                                                  *)
Read(h, g, m) ==
    /\ DOMAIN g.pending = DOMAIN h.pending \ {m.ticket}
    /\ \A u \in DOMAIN g.pending : g.pending[u] = h.pending[u]
    /\ DOMAIN g.answers = DOMAIN h.answers
    /\ \A u \in DOMAIN h.answers :
          /\ g.answers[u].behavior = h.answers[u].behavior
          /\ u # m.ticket \/ u \notin DOMAIN h.pending => g.answers[u].reply = h.answers[u].reply
          /\ u = m.ticket /\ u \in DOMAIN h.pending =>
                /\ h.pending[u].canceled => g.answers[u].reply = "silent"
                /\ ~h.pending[u].canceled /\ h.answers[u].behavior = "Mutation" =>
                      g.answers[u].reply = m.reply
    /\ g.ckpt = m.ckpt
    /\ g.queued = h.queued /\ g.flight = h.flight /\ g.worker = h.worker
    /\ g.input = h.input /\ g.task = h.task /\ g.statuses = h.statuses

(* Reading a line.                                                         *)
LEMMA Reads ==
    ASSUME NEW h, NEW n, HostTyped(h, n), Tickets(h), NEW m \in OutputLines
    PROVE  LET g == Complete([h EXCEPT !.ckpt = m.ckpt], m.ticket, m.reply)
           IN  HostTyped(g, n) /\ Tickets(g) /\ Read(h, g, m)
<1> DEFINE c == m.ckpt
           f == [h EXCEPT !.ckpt = c]
           t == m.ticket
           reply == Always(m.reply)
           g == CompleteAll(f, {t}, reply)
<1>1. c \in SessionCheckpoint /\ m.reply \in Replies /\ t \in Nat
  BY DEF OutputLines
<1>2. reply \in ReplyTable /\ reply["Mutation"] = m.reply
  BY <1>1, ReplyTables
<1> HIDE DEF reply, c, t
<1>3. /\ IsHost(f) /\ f.ckpt = c
      /\ f.pending = h.pending /\ f.external = h.external /\ f.answers = h.answers
      /\ f.input = h.input /\ f.worker = h.worker /\ f.queued = h.queued
      /\ f.flight = h.flight /\ f.task = h.task /\ f.statuses = h.statuses
  <2>1. IsHost(h)
    BY DEF HostTyped
  <2> QED BY <2>1, OtherCheckpoint
<1> HIDE DEF f
<1>4. HostTyped(f, n)
  BY <1>1, <1>3 DEF HostTyped
<1>5. Tickets(f)
  BY <1>3 DEF Tickets
<1>6. HostTyped(g, n) /\ Leaves(f, g, {t}, reply) /\ Keeps(f, g)
  BY <1>2, <1>4, Completes
<1> HIDE DEF g
<1>7. Tickets(g)
  BY <1>4, <1>5, <1>6, TicketsLeave
<1>8. ASSUME NEW u \in DOMAIN h.answers
      PROVE  /\ g.answers[u].behavior = h.answers[u].behavior
             /\ u # t \/ u \notin DOMAIN h.pending => g.answers[u].reply = h.answers[u].reply
             /\ u = t /\ u \in DOMAIN h.pending =>
                   /\ h.pending[u].canceled => g.answers[u].reply = "silent"
                   /\ ~h.pending[u].canceled /\ h.answers[u].behavior = "Mutation" =>
                         g.answers[u].reply = m.reply
  <2>1. /\ g.answers[u].behavior = h.answers[u].behavior
        /\ u # t \/ u \notin DOMAIN h.pending => g.answers[u].reply = h.answers[u].reply
        /\ u = t /\ u \in DOMAIN h.pending => g.answers[u].reply = Told(h.pending[u], reply)
    BY <1>3, <1>6 DEF Leaves
  <2>2. u \in DOMAIN h.pending => h.pending[u].behavior = h.answers[u].behavior
    BY DEF Tickets
  <2> QED BY <1>2, <2>1, <2>2 DEF Told
<1>9. /\ DOMAIN g.pending = DOMAIN h.pending \ {t}
      /\ \A u \in DOMAIN g.pending : g.pending[u] = h.pending[u]
      /\ DOMAIN g.answers = DOMAIN h.answers /\ g.ckpt = c
      /\ g.queued = h.queued /\ g.flight = h.flight /\ g.worker = h.worker
      /\ g.input = h.input /\ g.task = h.task /\ g.statuses = h.statuses
  BY <1>3, <1>6 DEF Leaves, Keeps
<1>10. HostTyped(g, n) /\ Tickets(g) /\ Read(h, g, m)
  BY <1>6, <1>7, <1>8, <1>9 DEF Read, t, c
<1> QED BY <1>10 DEF g, f, c, t, reply, Complete

(* The session as the host knows it after the first line.                  *)
LEMMA SessionsRead ==
    ASSUME NEW h, NEW g, NEW out \in Seq(OutputLines), out # <<>>, NEW s, Sessions(h, out, s),
           Read(h, g, out[1]),
           \A k \in DOMAIN out : k # 1 /\ out[k].event = "Handled" => out[k].ticket # out[1].ticket
    PROVE  Sessions(g, Tail(out), s)
<1> DEFINE new == Tail(out)
<1>1. /\ new \in Seq(OutputLines) /\ Len(out) \in Nat /\ Len(new) \in Nat
      /\ Len(out) = Len(new) + 1
      /\ DOMAIN out = 1..Len(out) /\ DOMAIN new = 1..Len(new)
      /\ \A k \in DOMAIN new : k + 1 \in DOMAIN out /\ new[k] = out[k + 1]
  BY TailLines
<1> HIDE DEF new
<1>2. /\ g.ckpt = out[1].ckpt /\ g.worker = h.worker
      /\ DOMAIN g.pending = DOMAIN h.pending \ {out[1].ticket}
      /\ \A u \in DOMAIN g.pending : g.pending[u] = h.pending[u]
  BY DEF Read
<1>3. ASSUME NEW i \in 0..Len(new) PROVE At(g, new, i) = At(h, out, i + 1)
  <2>1. CASE i = 0
    BY <1>2, <2>1 DEF At
  <2>2. CASE i # 0
    <3>1. i \in DOMAIN new /\ i + 1 # 0
      BY <1>1, <2>2
    <3> QED BY <1>1, <2>2, <3>1 DEF At
  <2> QED BY <2>1, <2>2
<1>4. ASSUME NEW k \in DOMAIN new, Changes(h, out[k + 1]) PROVE Changes(g, new[k])
  <2>1. k + 1 \in DOMAIN out /\ k + 1 # 1 /\ new[k] = out[k + 1]
    BY <1>1
  <2>2. out[k + 1].ticket # out[1].ticket
    BY <1>4, <2>1 DEF Changes
  <2> QED BY <1>2, <1>4, <2>1, <2>2 DEF Changes
<1>5. ASSUME NEW i \in 0..Len(new), NEW j \in 0..Len(new), NEW c,
             Unchanged(h, out, i + 1, j + 1, c)
      PROVE  Unchanged(g, new, i, j, c)
  <2>1. CASE At(h, out, i + 1) = c
    BY <1>3, <2>1 DEF Unchanged
  <2>2. CASE \E k \in ((i + 1) + 1)..(j + 1) : Changes(h, out[k])
    <3>1. PICK k \in ((i + 1) + 1)..(j + 1) : Changes(h, out[k])
      BY <2>2
    <3>2. k - 1 \in (i + 1)..j /\ k - 1 \in DOMAIN new /\ (k - 1) + 1 = k
      BY <1>1, <3>1
    <3>3. Changes(g, new[k - 1])
      BY <1>4, <3>1, <3>2
    <3> QED BY <3>2, <3>3 DEF Unchanged
  <2> QED BY <1>5, <2>1, <2>2 DEF Unchanged
<1>6. ASSUME NEW i \in 0..Len(new), NEW j \in 0..Len(new), i <= j
      PROVE  Unchanged(g, new, i, j, At(g, new, j))
  <2>1. i + 1 \in 0..Len(out) /\ j + 1 \in 0..Len(out) /\ i + 1 <= j + 1
    BY <1>1, <1>6
  <2>2. Unchanged(h, out, i + 1, j + 1, At(h, out, j + 1))
    BY <2>1 DEF Sessions
  <2>3. At(h, out, j + 1) = At(g, new, j)
    BY <1>3
  <2> QED BY <1>5, <2>2, <2>3
<1>7. ASSUME NEW i \in 0..Len(new), h.worker.alive
      PROVE  Unchanged(g, new, i, Len(new), Checkpoint(s))
  <2>1. i + 1 \in 0..Len(out) /\ Len(new) \in 0..Len(new) /\ Len(out) = Len(new) + 1
    BY <1>1
  <2>2. Unchanged(h, out, i + 1, Len(out), Checkpoint(s))
    BY <1>7, <2>1 DEF Sessions
  <2>3. Unchanged(h, out, i + 1, Len(new) + 1, Checkpoint(s))
    BY <2>1, <2>2
  <2> QED BY <1>5, <2>1, <2>3
<1>8. Sessions(g, new, s)
  BY <1>2, <1>6, <1>7 DEF Sessions
<1> QED BY <1>8 DEF new

(* The host has read a line of the worker.                                 *)
LEMMA MessageWorks ==
    ASSUME NEW h, NEW n, NEW ev, NEW act, NEW out, NEW s, NEW did, NEW may,
           Sound(h, n, ev, act, out, s, did, may), out # <<>>, h.worker.running,
           NEW g, HostTyped(g, n), Tickets(g), Read(h, g, out[1])
    PROVE  Unqueued(g, n, ev, act, Tail(out), s, did, may)
<1> DEFINE t == out[1].ticket
           new == Tail(out)
<1>1. /\ HostTyped(h, n) /\ Tickets(h) /\ Held(h, ev) /\ Flying(h, ev)
      /\ out \in Seq(OutputLines) /\ Work(h, act, out, s, did, may)
  BY DEF Sound, Management
<1>2. /\ out[1] \in OutputLines /\ t \in DOMAIN h.answers /\ t \in Nat
      /\ Owner(h.answers[t].behavior) = "Worker"
      /\ ~Sent(h, t) /\ t \notin act
      /\ \A k \in DOMAIN out : k # 1 /\ out[k].event = "Handled" => out[k].ticket # t
      /\ out[1].event = "Canceled" /\ t \in DOMAIN h.pending => h.pending[t].canceled
      /\ out[1].event = "Handled" => t \in DOMAIN h.pending
  BY FirstLine
<1>3. /\ new \in Seq(OutputLines) /\ 1 \in DOMAIN out
      /\ \A k \in DOMAIN new : k + 1 \in DOMAIN out /\ new[k] = out[k + 1] /\ k \in Nat /\ k >= 1
      /\ \A k \in DOMAIN out : k = 1 \/ (k - 1 \in DOMAIN new /\ out[k] = new[k - 1])
  BY <1>1, TailLines
<1>4. Sessions(g, new, s)
  BY <1>1, <1>2, SessionsRead DEF Work
<1> HIDE DEF new, t
<1>5. /\ DOMAIN g.pending = DOMAIN h.pending \ {t}
      /\ \A u \in DOMAIN g.pending : g.pending[u] = h.pending[u]
      /\ DOMAIN g.answers = DOMAIN h.answers
      /\ \A u \in DOMAIN h.answers : g.answers[u].behavior = h.answers[u].behavior
      /\ g.ckpt = out[1].ckpt
      /\ g.queued = h.queued /\ g.flight = h.flight /\ g.worker = h.worker
      /\ g.input = h.input /\ g.task = h.task /\ g.statuses = h.statuses
  BY DEF Read, t
<1>6. \A u \in DOMAIN h.answers :
         /\ u # t \/ u \notin DOMAIN h.pending => g.answers[u].reply = h.answers[u].reply
         /\ u = t /\ u \in DOMAIN h.pending =>
               /\ h.pending[u].canceled => g.answers[u].reply = "silent"
               /\ ~h.pending[u].canceled /\ h.answers[u].behavior = "Mutation" =>
                     g.answers[u].reply = out[1].reply
  BY DEF Read, t
<1>7. Held(g, ev)
  <2>1. \A u : Looked(g, ev, u) <=> Looked(h, ev, u)
    BY <1>5 DEF Looked, InQueue
  <2>2. \A u : Managed(g, u) <=> Managed(h, u)
    BY <1>5 DEF Managed
  <2> QED BY <1>1, <1>5, <2>1, <2>2 DEF Held
<1>8. Barriers(g) => Barriers(h)
  BY <1>5 DEF Barriers
<1>9. h.flight.stage # "None" => g.ckpt = h.ckpt
  <2> SUFFICES ASSUME h.flight.stage # "None" PROVE g.ckpt = h.ckpt
    OBVIOUS
  <2>1. ~Barriers(h)
    BY <1>1 DEF Flying
  <2>2. 0 \in 0..Len(out) /\ 1 \in 0..Len(out) /\ 0 <= 1
    BY <1>1, TailLines
  <2>3. Unchanged(h, out, 0, 1, At(h, out, 1))
    BY <1>1, <2>2 DEF Work, Sessions
  <2>4. At(h, out, 0) = h.ckpt /\ At(h, out, 1) = out[1].ckpt
    BY DEF At
  <2>5. h.ckpt = out[1].ckpt \/ Changes(h, out[1])
    BY <2>3, <2>4 DEF Unchanged
  <2>6. ~Changes(h, out[1])
    BY <2>1 DEF Changes, Barriers
  <2> QED BY <1>5, <2>5, <2>6
<1>10. Flying(g, ev)
  BY <1>1, <1>5, <1>8, <1>9 DEF Flying
<1>11. Link(g, new)
  BY <1>1, <1>5 DEF Work, Link
<1>12. /\ \A u : Working(g, u) <=> Working(h, u) /\ u # t
       /\ \A u : Working(g, u) => g.pending[u] = h.pending[u]
  BY <1>5 DEF Working
<1>13. \A u : Sent(g, u) <=> Sent(h, u)
  BY <1>5 DEF Sent
<1>14. \A u : Answered(new, u) => Answered(out, u) /\ u # t
  <2> SUFFICES ASSUME NEW u, NEW k \in DOMAIN new, new[k].event = "Handled", new[k].ticket = u
               PROVE  Answered(out, u) /\ u # t
    BY DEF Answered
  <2>1. k + 1 \in DOMAIN out /\ k + 1 # 1 /\ out[k + 1].event = "Handled" /\ out[k + 1].ticket = u
    BY <1>3
  <2> QED BY <1>2, <2>1 DEF Answered
<1>15. \A u : u # t /\ Answered(out, u) => Answered(new, u)
  BY <1>3 DEF Answered, t
<1>16. \A u : u # t /\ Stopped(out, u) => Stopped(new, u)
  BY <1>3 DEF Stopped, t
<1>17. Lines(g, act, new)
  <2>1. Lines(h, act, out)
    BY <1>1 DEF Work
  <2>2. ASSUME NEW k \in DOMAIN g.input, g.input[k].type = "Dispatch"
        PROVE  /\ Working(g, g.input[k].ticket)
               /\ g.pending[g.input[k].ticket].behavior = Route(g.input[k].req.tool)
    <3>1. h.input[k].ticket # t
      BY <1>2, <1>5, <2>2 DEF Sent
    <3> QED BY <1>5, <1>12, <2>1, <2>2, <3>1 DEF Lines
  <2>3. \A u \in act : Working(g, u) /\ g.pending[u].behavior = "Wait"
    BY <1>2, <1>12, <2>1 DEF Lines
  <2>4. \A u \in Nat : Answered(new, u) => Working(g, u)
    BY <1>12, <1>14, <2>1 DEF Lines
  <2>5. ~g.worker.alive => act = {}
    BY <1>5, <2>1 DEF Lines
  <2> QED BY <2>2, <2>3, <2>4, <2>5 DEF Lines
<1>18. OnePlace(g, act, new)
  <2>1. OnePlace(h, act, out)
    BY <1>1 DEF Work
  <2>2. ASSUME NEW j \in DOMAIN new, NEW k \in DOMAIN new, new[j].event = "Handled",
               new[k].event = "Handled", new[j].ticket = new[k].ticket
        PROVE  j = k
    <3>1. j + 1 = k + 1
      BY <1>3, <2>1, <2>2 DEF OnePlace
    <3> QED BY <1>3, <3>1
  <2>3. \A u \in Nat : Sent(g, u) => u \notin act /\ ~Answered(new, u)
    BY <1>13, <1>14, <2>1 DEF OnePlace
  <2>4. \A u \in act : ~Answered(new, u)
    BY <1>14, <2>1 DEF OnePlace
  <2>5. \A j, k \in DOMAIN g.input :
          g.input[j].type = "Dispatch" /\ g.input[k].type = "Dispatch"
              /\ g.input[j].ticket = g.input[k].ticket => j = k
    BY <1>5, <2>1 DEF OnePlace
  <2> QED BY <2>2, <2>3, <2>4, <2>5 DEF OnePlace
<1>19. Cancels(g, act, new)
  <2>1. Cancels(h, act, out)
    BY <1>1 DEF Work
  <2>2. \A u : Forgotten(h, u) => Forgotten(g, u)
    BY <1>5 DEF Forgotten
  <2>3. \A k \in DOMAIN g.input :
          g.input[k].type = "Cancel" =>
              /\ Forgotten(g, g.input[k].ticket)
              /\ \A j \in DOMAIN g.input :
                    j > k /\ g.input[j].type = "Dispatch" => g.input[j].ticket # g.input[k].ticket
    BY <1>5, <2>1, <2>2 DEF Cancels
  <2>4. ASSUME NEW k \in DOMAIN new, new[k].event = "Canceled"
        PROVE  /\ Forgotten(g, new[k].ticket)
               /\ ~Sent(g, new[k].ticket) /\ new[k].ticket \notin act
               /\ \A j \in DOMAIN new :
                     j > k /\ new[j].event = "Handled" => new[j].ticket # new[k].ticket
    <3>1. k + 1 \in DOMAIN out /\ new[k] = out[k + 1]
      BY <1>3
    <3>2. Forgotten(g, new[k].ticket) /\ ~Sent(g, new[k].ticket) /\ new[k].ticket \notin act
      BY <1>13, <2>1, <2>2, <2>4, <3>1 DEF Cancels
    <3>3. ASSUME NEW j \in DOMAIN new, j > k, new[j].event = "Handled"
          PROVE  new[j].ticket # new[k].ticket
      <4>1. j + 1 \in DOMAIN out /\ new[j] = out[j + 1] /\ j + 1 > k + 1
        BY <1>3, <3>3
      <4> QED BY <2>1, <2>4, <3>1, <3>3, <4>1 DEF Cancels
    <3> QED BY <3>2, <3>3
  <2> QED BY <2>3, <2>4 DEF Cancels
<1>20. Somewhere(g, act, new)
  <2>1. Somewhere(h, act, out)
    BY <1>1 DEF Work
  <2>2. ASSUME NEW u \in DOMAIN g.pending, g.pending[u].owner = "Worker"
        PROVE  /\ g.worker.running
               /\ g.worker.alive => Sent(g, u) \/ u \in act \/ Answered(new, u) \/ Stopped(new, u)
    <3>1. u # t /\ u \in DOMAIN h.pending /\ h.pending[u].owner = "Worker"
      BY <1>5, <2>2
    <3>2. /\ h.worker.running
          /\ h.worker.alive => Sent(h, u) \/ u \in act \/ Answered(out, u) \/ Stopped(out, u)
      BY <2>1, <3>1 DEF Somewhere
    <3> QED BY <1>5, <1>13, <1>15, <1>16, <3>1, <3>2
  <2> QED BY <2>2 DEF Somewhere
<1>21. Truths(g, new, did, may)
  <2>1. Truths(h, out, did, may) /\ Lines(h, act, out)
    BY <1>1 DEF Work
  <2>2. out[1].event \in {"Handled", "Canceled"}
    BY <1>2 DEF OutputLines
  <2>3. ASSUME t \in DOMAIN h.pending, ~h.pending[t].canceled, h.answers[t].behavior = "Mutation"
        PROVE  /\ out[1].reply \in {"ok", "unresolved", "error", "uncertain"}
               /\ out[1].reply \in {"ok", "unresolved"} => Began(did, t)
               /\ out[1].reply = "error" => ~Begins(did, may, t)
    <3>1. out[1].event = "Handled"
      BY <1>2, <2>2, <2>3
    <3> QED BY <1>3, <2>1, <2>3, <3>1 DEF Truths, t
  <2>4. ASSUME NEW u \in Nat, Begins(did, may, u)
        PROVE  /\ u \in DOMAIN g.answers /\ g.answers[u].behavior = "Mutation"
               /\ g.answers[u].reply \in Open
    <3>1. /\ u \in DOMAIN h.answers /\ h.answers[u].behavior = "Mutation"
          /\ h.answers[u].reply \in Open
      BY <2>1, <2>4 DEF Truths
    <3>2. CASE u # t \/ u \notin DOMAIN h.pending
      BY <1>5, <1>6, <3>1, <3>2
    <3>3. CASE u = t /\ u \in DOMAIN h.pending /\ h.pending[u].canceled
      BY <1>5, <1>6, <3>1, <3>3 DEF Open
    <3>4. CASE u = t /\ u \in DOMAIN h.pending /\ ~h.pending[u].canceled
      BY <1>5, <1>6, <2>3, <2>4, <3>1, <3>4 DEF Open
    <3> QED BY <3>2, <3>3, <3>4
  <2>5. \A u \in Nat : Sent(g, u) => ~Begins(did, may, u)
    BY <1>13, <2>1 DEF Truths
  <2>6. ASSUME NEW k \in DOMAIN new, new[k].event = "Handled",
               g.answers[new[k].ticket].behavior = "Mutation"
        PROVE  /\ new[k].reply \in {"ok", "unresolved", "error", "uncertain"}
               /\ new[k].reply \in {"ok", "unresolved"} => Began(did, new[k].ticket)
               /\ new[k].reply = "error" => ~Begins(did, may, new[k].ticket)
    <3>1. k + 1 \in DOMAIN out /\ new[k] = out[k + 1]
      BY <1>3
    <3>2. out[k + 1] \in OutputLines
      BY <1>1, <3>1
    <3>3. out[k + 1].ticket \in Nat
      BY <3>2 DEF OutputLines
    <3>4. out[k + 1].ticket \in DOMAIN h.answers
      <4>1. Working(h, out[k + 1].ticket)
        BY <2>1, <2>6, <3>1, <3>3 DEF Lines, Answered
      <4> QED BY <1>1, <4>1 DEF Working, HostTyped
    <3>5. h.answers[out[k + 1].ticket].behavior = "Mutation"
      BY <1>5, <2>6, <3>1, <3>4
    <3> QED BY <2>1, <2>6, <3>1, <3>5 DEF Truths
  <2>7. ASSUME NEW u \in DOMAIN g.answers, g.answers[u].behavior = "Mutation",
               g.answers[u].reply \in {"ok", "unresolved"}
        PROVE  Began(did, u)
    <3>1. u \in DOMAIN h.answers /\ h.answers[u].behavior = "Mutation"
      BY <1>5, <2>7
    <3>2. CASE u # t \/ u \notin DOMAIN h.pending
      BY <1>6, <2>1, <2>7, <3>1, <3>2 DEF Truths
    <3>3. CASE u = t /\ u \in DOMAIN h.pending /\ h.pending[u].canceled
      BY <1>6, <2>7, <3>1, <3>3
    <3>4. CASE u = t /\ u \in DOMAIN h.pending /\ ~h.pending[u].canceled
      BY <1>6, <2>3, <2>7, <3>1, <3>4
    <3> QED BY <3>2, <3>3, <3>4
  <2> QED BY <2>4, <2>5, <2>6, <2>7 DEF Truths
<1>22. Work(g, act, new, s, did, may)
  BY <1>4, <1>11, <1>17, <1>18, <1>19, <1>20, <1>21 DEF Work
<1>23. Unqueued(g, n, ev, act, new, s, did, may)
  BY <1>3, <1>7, <1>10, <1>22 DEF Unqueued
<1> QED BY <1>23 DEF new

(* The host reads a line of the worker.                                    *)
LEMMA MessageStep ==
    ASSUME McpInv, WorkerMessage
    PROVE  McpInv'
<1> DEFINE m == Head(output)
           k == Complete([Host EXCEPT !.ckpt = m.ckpt], m.ticket, m.reply)
           g == StartQueued(k)
<1>1. /\ worker.running /\ output # <<>> /\ Become(g) /\ output' = Tail(output)
      /\ nextTicket' = nextTicket
      /\ UNCHANGED <<menu, srv, active, events, draining, nextKey, ran, bare, faults>>
  BY DEF WorkerMessage
<1>2. /\ Sound(Host, nextTicket, events, DOMAIN active, output, srv, ran, draining)
      /\ HostTyped(Host, nextTicket) /\ Tickets(Host) /\ output \in Seq(OutputLines)
  BY SoundNow DEF Sound
<1>3. /\ m = output[1] /\ m \in OutputLines /\ 1 \in DOMAIN output
      /\ output' \in Seq(OutputLines)
      /\ \A j \in DOMAIN output' : j + 1 \in DOMAIN output /\ output'[j] = output[j + 1]
  BY <1>1, <1>2, TailLines
<1> HIDE DEF m
<1>4. HostTyped(k, nextTicket) /\ Tickets(k) /\ Read(Host, k, m)
  BY <1>2, <1>3, Reads
<1> HIDE DEF k
<1>5. Unqueued(k, nextTicket, events, DOMAIN active, output', srv, ran, draining)
  BY <1>1, <1>2, <1>3, <1>4, HostNow, MessageWorks
<1>6. Sound(g, nextTicket, events, DOMAIN active, output', srv, ran, draining) /\ Carries(k, g)
  BY <1>5, QueueStarts
<1> HIDE DEF g
<1>7. Host' = g
  BY <1>1, <1>6, Becomes DEF Sound, HostTyped
<1>8. ckpt' = m.ckpt /\ worker' = worker
  BY <1>4, <1>6, <1>7, HostNow, HostNext DEF Carries, Read
<1>9. McpTyped'
  BY <1>1, <1>3, <1>6, <1>7 DEF McpInv, McpTyped, Sound
<1>10. Keys'
  BY <1>1, <1>8 DEF McpInv, Keys
<1>11. Cursors'
  <2>1. Cursors
    BY DEF McpInv
  <2>2. Initial(m.ckpt)
    BY <1>3, <2>1 DEF Cursors
  <2>3. \A j \in DOMAIN output' : Initial(output'[j].ckpt)
    BY <1>3, <2>1 DEF Cursors
  <2> QED BY <1>1, <1>8, <2>1, <2>2, <2>3 DEF Cursors
<1>12. Tickets(Host)' /\ Management(Host, events)' /\ Flying(Host, events)'
       /\ Work(Host, DOMAIN active, output, srv, ran, draining)'
  BY <1>1, <1>6, <1>7 DEF Sound
<1> QED BY <1>9, <1>10, <1>11, <1>12 DEF McpInv

(* The worker of h is gone, and what it was given with it.                 *)
Gone(h, f, may, s2, may2) ==
    /\ IsHost(f) /\ Frame(h, f) /\ f.worker \in Workers /\ f.input = <<>>
    /\ f.worker.alive => f.worker.running /\ Checkpoint(s2) = h.ckpt
    /\ \A t : Began(may2, t) =>
          Began(may, t) \/ (Sent(h, t) /\ t \in Nat /\ Working(h, t)
                                /\ h.pending[t].behavior = "Mutation")

(* interrupt_worker_requests answers what the worker had been given, and   *)
(* leaves nothing of it behind.                                            *)
LEMMA Interrupts ==
    ASSUME NEW h, NEW n, NEW ev, NEW act, NEW out, NEW s, NEW did, NEW may,
           Sound(h, n, ev, act, out, s, did, may),
           NEW f, NEW s2, NEW may2, Gone(h, f, may, s2, may2)
    PROVE  LET g == InterruptWorkerRequests(f)
           IN  Unqueued(g, n, ev, {}, <<>>, s2, did, may2) /\ Carries(f, g)
<1> DEFINE T == {t \in DOMAIN f.pending : f.pending[t].owner = "Worker"}
           g == CompleteAll(f, T, InterruptReply)
           none == <<>>
<1>1. /\ HostTyped(h, n) /\ Tickets(h) /\ Management(h, ev) /\ Flying(h, ev)
      /\ Work(h, act, out, s, did, may)
  BY DEF Sound
<1>2. /\ IsHost(f) /\ Frame(h, f) /\ f.worker \in Workers /\ f.input = <<>>
      /\ f.worker.alive => f.worker.running /\ Checkpoint(s2) = h.ckpt
  BY DEF Gone
<1>3. Tickets(f) /\ Management(f, ev) /\ Flying(f, ev)
  BY <1>1, <1>2, SameFrame
<1>4. HostTyped(f, n)
  <2>1. <<>> \in Seq(InputLines)
    OBVIOUS
  <2> QED BY <1>1, <1>2, <2>1 DEF HostTyped, Frame
<1>5. InterruptReply \in ReplyTable /\ InterruptReply["Mutation"] = "uncertain"
  BY ReplyTables
<1>6. \A t : t \in T <=> t \in DOMAIN f.pending /\ f.pending[t].owner = "Worker"
  OBVIOUS
<1> HIDE DEF T
<1>7. HostTyped(g, n) /\ Leaves(f, g, T, InterruptReply) /\ Keeps(f, g)
  BY <1>4, <1>5, Completes
<1> HIDE DEF g
<1>8. Tickets(g)
  BY <1>3, <1>4, <1>7, TicketsLeave
<1>9. /\ \A t \in DOMAIN g.pending :
            t \in DOMAIN f.pending /\ g.pending[t] = f.pending[t] /\ f.pending[t].owner # "Worker"
      /\ \A t \in DOMAIN f.pending : f.pending[t].owner # "Worker" => t \in DOMAIN g.pending
      /\ DOMAIN g.answers = DOMAIN f.answers
      /\ \A t \in DOMAIN f.answers : g.answers[t].behavior = f.answers[t].behavior
      /\ g.queued = f.queued /\ g.flight = f.flight /\ g.ckpt = f.ckpt /\ g.worker = f.worker
      /\ g.input = <<>> /\ g.task = f.task /\ g.statuses = f.statuses
  BY <1>2, <1>6, <1>7 DEF Leaves, Keeps
<1>10. ASSUME NEW t \in DOMAIN f.answers, f.answers[t].behavior = "Mutation"
       PROVE  /\ t \in DOMAIN f.pending => g.answers[t].reply \in {"silent", "uncertain"}
              /\ t \notin DOMAIN f.pending => g.answers[t].reply = f.answers[t].reply
  <2>1. CASE t \in DOMAIN f.pending
    <3>1. t \in T /\ f.pending[t].behavior = "Mutation"
      BY <1>3, <1>6, <1>10, <2>1 DEF Tickets, Owner
    <3>2. g.answers[t].reply = Told(f.pending[t], InterruptReply)
      BY <1>7, <2>1, <3>1 DEF Leaves
    <3> QED BY <1>5, <2>1, <3>1, <3>2 DEF Told
  <2>2. CASE t \notin DOMAIN f.pending
    BY <1>7, <2>2 DEF Leaves
  <2> QED BY <2>1, <2>2
<1>11. Barriers(g) => Barriers(f)
  BY <1>9 DEF Barriers
<1>12. Held(g, ev)
  <2>1. \A t : Looked(g, ev, t) <=> Looked(f, ev, t)
    BY <1>9 DEF Looked, InQueue
  <2>2. \A t : Managed(g, t) <=> Managed(f, t)
    BY <1>9 DEF Managed
  <2> QED BY <1>3, <1>9, <2>1, <2>2 DEF Management, Held
<1>13. Flying(g, ev)
  BY <1>3, <1>9, <1>11 DEF Flying
<1>14. none \in Seq(OutputLines) /\ Len(none) = 0 /\ DOMAIN none = {}
  OBVIOUS
<1> HIDE DEF none
<1>15. DOMAIN g.input = {}
  BY <1>9
<1>16. Link(g, none)
  BY <1>2, <1>9 DEF Link, none
<1>17. Lines(g, {}, none) /\ OnePlace(g, {}, none) /\ Cancels(g, {}, none)
  BY <1>14, <1>15 DEF Lines, OnePlace, Cancels, Answered, Sent
<1>18. Somewhere(g, {}, none)
  BY <1>9 DEF Somewhere
<1>19. Sessions(g, none, s2)
  <2>1. \A i \in 0..Len(none) : i = 0
    BY <1>14
  <2>2. At(g, none, 0) = g.ckpt /\ g.ckpt = h.ckpt
    BY <1>2, <1>9 DEF At, Frame
  <2>3. g.worker.alive => Checkpoint(s2) = h.ckpt
    BY <1>2, <1>9
  <2>4. \A i, j \in 0..Len(none) : i <= j => Unchanged(g, none, i, j, At(g, none, j))
    BY <2>1 DEF Unchanged
  <2>5. g.worker.alive => \A i \in 0..Len(none) : Unchanged(g, none, i, Len(none), Checkpoint(s2))
    BY <2>1, <2>2, <2>3 DEF Unchanged
  <2> QED BY <2>4, <2>5 DEF Sessions
<1>20. Truths(g, none, did, may2)
  <2>1. Truths(h, out, did, may)
    BY <1>1 DEF Work
  <2>2. f.answers = h.answers /\ f.pending = h.pending
    BY <1>2 DEF Frame
  <2>3. ASSUME NEW t \in Nat, Begins(did, may2, t)
        PROVE  /\ t \in DOMAIN g.answers /\ g.answers[t].behavior = "Mutation"
               /\ g.answers[t].reply \in Open
    <3>1. CASE Begins(did, may, t)
      <4>1. /\ t \in DOMAIN h.answers /\ h.answers[t].behavior = "Mutation"
            /\ h.answers[t].reply \in Open
        BY <2>1, <3>1 DEF Truths
      <4> QED BY <1>9, <1>10, <2>2, <4>1 DEF Open
    <3>2. CASE Working(h, t) /\ h.pending[t].behavior = "Mutation"
      <4>1. t \in DOMAIN h.pending /\ t \in DOMAIN h.answers /\ h.answers[t].behavior = "Mutation"
        BY <1>1, <3>2 DEF Working, HostTyped, Tickets
      <4> QED BY <1>9, <1>10, <2>2, <4>1 DEF Open
    <3> QED BY <2>3, <3>1, <3>2 DEF Gone, Begins
  <2>4. \A t \in Nat : ~Sent(g, t)
    BY <1>15 DEF Sent
  <2>5. ASSUME NEW t \in DOMAIN g.answers, g.answers[t].behavior = "Mutation",
               g.answers[t].reply \in {"ok", "unresolved"}
        PROVE  Began(did, t)
    <3>1. t \in DOMAIN h.answers /\ h.answers[t].behavior = "Mutation"
      BY <1>9, <2>2, <2>5
    <3>2. h.answers[t].reply \in {"ok", "unresolved"}
      BY <1>10, <2>2, <2>5, <3>1
    <3> QED BY <2>1, <3>1, <3>2 DEF Truths
  <2> QED BY <1>14, <2>3, <2>4, <2>5 DEF Truths
<1>21. Work(g, {}, none, s2, did, may2)
  BY <1>16, <1>17, <1>18, <1>19, <1>20 DEF Work
<1>22. Unqueued(g, n, ev, {}, none, s2, did, may2)
  BY <1>7, <1>8, <1>12, <1>13, <1>14, <1>21 DEF Unqueued
<1>23. Carries(f, g)
  BY <1>9 DEF Carries
<1> QED BY <1>22, <1>23 DEF g, T, none, InterruptWorkerRequests

(* The worker's output has ended.                                          *)
LEMMA LostStep ==
    ASSUME McpInv, WorkerLost
    PROVE  McpInv'
<1> DEFINE w == [worker EXCEPT !.running = FALSE]
           f == [Host EXCEPT !.worker = w]
           k == InterruptWorkerRequests(f)
           g == StartQueued(k)
<1>1. /\ ~worker.alive /\ output = <<>> /\ nextTicket' = nextTicket
      /\ UNCHANGED <<menu, srv, active, output, events, draining, nextKey, ran, bare, faults>>
  BY DEF WorkerLost
<1>2. Become(g)
  <2>1. [Host EXCEPT !.worker.running = FALSE] = f
    BY HostNow
  <2> QED BY <2>1 DEF WorkerLost
<1>3. /\ Sound(Host, nextTicket, events, DOMAIN active, output, srv, ran, draining)
      /\ HostTyped(Host, nextTicket) /\ Link(Host, output) /\ Lines(Host, DOMAIN active, output)
  BY SoundNow DEF Sound, Work
<1>4. worker \in Workers /\ w \in Workers /\ w.alive = worker.alive
  <2>1. worker \in Workers
    BY <1>3, HostNow DEF HostTyped
  <2> QED BY <2>1 DEF Workers
<1> HIDE DEF w
<1>5. /\ IsHost(f) /\ f.worker = w /\ Frame(Host, f) /\ f.input = Host.input
  <2>1. IsHost(Host) /\ f = [Host EXCEPT !.worker = w]
    BY HostNow
  <2> HIDE DEF f
  <2> QED BY <2>1 DEF IsHost, Frame
<1> HIDE DEF f
<1>6. f.input = <<>> /\ DOMAIN active = {}
  BY <1>1, <1>3, <1>5, HostNow DEF Link, Lines
<1>7. Gone(Host, f, draining, srv, draining)
  BY <1>1, <1>4, <1>5, <1>6 DEF Gone
<1>8. Unqueued(k, nextTicket, events, {}, <<>>, srv, ran, draining) /\ Carries(f, k)
  BY <1>3, <1>7, Interrupts
<1> HIDE DEF k
<1>9. Sound(g, nextTicket, events, {}, <<>>, srv, ran, draining) /\ Carries(k, g)
  BY <1>8, QueueStarts
<1> HIDE DEF g
<1>10. Host' = g
  BY <1>2, <1>9, Becomes DEF Sound, HostTyped
<1>11. ckpt' = ckpt /\ worker' = w
  BY <1>5, <1>8, <1>9, <1>10, HostNow, HostNext DEF Carries, Frame
<1>12. McpTyped'
  BY <1>1, <1>9, <1>10 DEF McpInv, McpTyped, Sound
<1>13. Keys' /\ Cursors'
  BY <1>1, <1>4, <1>11 DEF McpInv, Keys, Cursors
<1>14. Tickets(Host)' /\ Management(Host, events)' /\ Flying(Host, events)'
       /\ Work(Host, DOMAIN active, output, srv, ran, draining)'
  BY <1>1, <1>6, <1>9, <1>10 DEF Sound
<1> QED BY <1>12, <1>13, <1>14 DEF McpInv

(* g is h without the management calls T, with another flight.             *)
Answers2(h, g, T, flying) ==
    /\ DOMAIN g.pending = DOMAIN h.pending \ T
    /\ \A u \in DOMAIN g.pending : g.pending[u] = h.pending[u]
    /\ DOMAIN g.answers = DOMAIN h.answers
    /\ \A u \in DOMAIN h.answers : g.answers[u].behavior = h.answers[u].behavior
    /\ g.flight = flying /\ g.queued = h.queued /\ g.task = h.task /\ g.statuses = h.statuses
    /\ g.ckpt = h.ckpt /\ g.worker = h.worker /\ SameWork(h, g)

(* Management calls are answered; what the worker does goes on.            *)
LEMMA ManagedAnswered ==
    ASSUME NEW h, NEW n, NEW ev, NEW act, NEW out, NEW s, NEW did, NEW may,
           Unqueued(h, n, ev, act, out, s, did, may),
           NEW T, \A t \in T : Managed(h, t), NEW flying \in Flights
    PROVE  LET f == CompleteAll(h, T, Always("ok"))
               g == [f EXCEPT !.flight = flying]
           IN  /\ HostTyped(g, n) /\ Tickets(g) /\ Answers2(h, g, T, flying)
               /\ Work(g, act, out, s, did, may)
               /\ HostTyped(f, n) /\ Tickets(f) /\ Answers2(h, f, T, h.flight)
               /\ Work(f, act, out, s, did, may)
<1> DEFINE reply == Always("ok")
           f == CompleteAll(h, T, reply)
           g == [f EXCEPT !.flight = flying]
<1>1. /\ HostTyped(h, n) /\ Tickets(h) /\ out \in Seq(OutputLines) /\ Work(h, act, out, s, did, may)
  BY DEF Unqueued
<1>2. reply \in ReplyTable
  BY ReplyTables DEF Replies
<1> HIDE DEF reply
<1>3. HostTyped(f, n) /\ Leaves(h, f, T, reply) /\ Keeps(h, f)
  BY <1>1, <1>2, Completes
<1> HIDE DEF f
<1>4. Tickets(f)
  BY <1>1, <1>3, TicketsLeave
<1>5. SameWork(h, f)
  BY <1>1, <1>3, ManagedLeave
<1>6. Work(f, act, out, s, did, may)
  BY <1>1, <1>3, <1>4, <1>5, WorkStays
<1>7. Answers2(h, f, T, h.flight)
  BY <1>3, <1>5 DEF Answers2, Leaves, Keeps
<1>8. /\ IsHost(g) /\ g.flight = flying
      /\ g.pending = f.pending /\ g.external = f.external /\ g.answers = f.answers
      /\ g.ckpt = f.ckpt /\ g.worker = f.worker /\ g.input = f.input
      /\ g.queued = f.queued /\ g.task = f.task /\ g.statuses = f.statuses
  <2>1. IsHost(f)
    BY <1>3 DEF HostTyped
  <2> QED BY <2>1, OtherFlight
<1> HIDE DEF g
<1>9. HostTyped(g, n)
  BY <1>3, <1>8 DEF HostTyped
<1>10. Tickets(g)
  BY <1>4, <1>8 DEF Tickets
<1>11. SameWork(h, g)
  BY <1>5, <1>8 DEF SameWork, Working
<1>12. Work(g, act, out, s, did, may)
  BY <1>1, <1>9, <1>10, <1>11, WorkStays
<1>13. Answers2(h, g, T, flying)
  BY <1>7, <1>8, <1>11 DEF Answers2
<1> QED BY <1>3, <1>4, <1>6, <1>7, <1>9, <1>10, <1>12, <1>13 DEF f, g, reply

(* The first message of a channel.                                         *)
LEMMA FirstMessage ==
    ASSUME NEW ev \in Seq(Messages), ev # <<>>
    PROVE  /\ Tail(ev) \in Seq(Messages) /\ 1 \in DOMAIN ev /\ Head(ev) = ev[1] /\ ev[1] \in Messages
           /\ \A k \in DOMAIN Tail(ev) :
                 k \in Nat /\ k + 1 \in DOMAIN ev /\ k + 1 > 1 /\ Tail(ev)[k] = ev[k + 1]
           /\ \A k \in DOMAIN ev : k # 1 => k - 1 \in DOMAIN Tail(ev) /\ ev[k] = Tail(ev)[k - 1]
           /\ \A t : Reported(ev, t) <=>
                 (ev[1].type = "Status" /\ ev[1].ticket = t) \/ Reported(Tail(ev), t)
<1> DEFINE new == Tail(ev)
<1>1. /\ new \in Seq(Messages) /\ 1 \in DOMAIN ev /\ Head(ev) = ev[1] /\ ev[1] \in Messages
      /\ Len(new) \in Nat /\ DOMAIN new = 1..Len(new)
      /\ \A k \in DOMAIN new : k + 1 \in DOMAIN ev /\ new[k] = ev[k + 1]
      /\ \A k \in DOMAIN ev : k = 1 \/ (k - 1 \in DOMAIN new /\ ev[k] = new[k - 1])
  BY TailLines
<1> HIDE DEF new
<1>2. \A k \in DOMAIN new : k \in Nat /\ k + 1 > 1
  BY <1>1
<1>3. \A t : Reported(ev, t) <=> (ev[1].type = "Status" /\ ev[1].ticket = t) \/ Reported(new, t)
  BY <1>1 DEF Reported
<1> QED BY <1>1, <1>2, <1>3 DEF new

(* What is left of the flight's messages.                                  *)
LEMMA FlightRead ==
    ASSUME NEW h, NEW ev \in Seq(Messages), ev # <<>>, Flying(h, ev), NEW g, NEW T,
           NEW flying, Answers2(h, g, T, flying),
           \/ ev[1].type = "Status" /\ flying = h.flight
           \/ ev[1].type = "Accepted" /\ flying = [stage |-> "Accepted", requesters |-> {}]
           \/ ev[1].type = "Finished" /\ flying = NoFlight
    PROVE  Flying(g, Tail(ev))
<1> DEFINE new == Tail(ev)
<1>1. /\ 1 \in DOMAIN ev
      /\ \A k \in DOMAIN new :
            k \in Nat /\ k + 1 \in DOMAIN ev /\ k + 1 > 1 /\ new[k] = ev[k + 1]
      /\ \A k \in DOMAIN ev : k # 1 => k - 1 \in DOMAIN new /\ ev[k] = new[k - 1]
  BY FirstMessage
<1> HIDE DEF new
<1>2. g.flight = flying /\ g.task = h.task /\ g.ckpt = h.ckpt /\ SameWork(h, g)
  BY DEF Answers2
<1>3. Barriers(g) <=> Barriers(h)
  BY <1>2, SameBarriers
<1>4. ASSUME ev[1].type = "Finished" PROVE Flying(g, new)
  <2>1. flying = NoFlight
    BY <1>4
  <2>2. h.task.pc = "Idle"
    BY <1>1, <1>4 DEF Flying
  <2>3. \A k \in DOMAIN new : new[k].type = "Status"
    BY <1>1, <1>4 DEF Flying
  <2>4. \A k \in DOMAIN new : new[k].install = 0
    <3>1. \A k \in DOMAIN ev : ev[k].install # 0 => ev[k].type = "Finished"
      BY DEF Flying
    <3> QED BY <1>1, <2>3, <3>1
  <2>5. g.flight.stage = "None" /\ g.flight.requesters = {}
    BY <1>2, <2>1 DEF NoFlight
  <2> QED BY <1>2, <2>2, <2>3, <2>4, <2>5 DEF Flying
<1>5. ASSUME ev[1].type # "Finished" PROVE Flying(g, new)
  <2>1. /\ g.flight.stage = "None" <=> h.flight.stage = "None"
        /\ g.flight.stage = "None" => g.flight = h.flight
    <3>1. CASE flying = h.flight
      BY <1>2, <3>1
    <3>2. CASE ev[1].type = "Accepted" /\ flying = [stage |-> "Accepted", requesters |-> {}]
      <4>1. h.flight.stage # "None"
        BY <1>1, <3>2 DEF Flying
      <4>2. g.flight.stage = "Accepted"
        BY <1>2, <3>2
      <4> QED BY <4>1, <4>2
    <3> QED BY <1>5, <3>1, <3>2
  <2>2. \A k \in DOMAIN ev : ev[k].type = "Finished" => \E j \in DOMAIN new : new[j].type = "Finished"
    BY <1>1, <1>5
  <2>3. h.flight.stage # "None" =>
           h.task.pc # "Idle" \/ \E k \in DOMAIN new : new[k].type = "Finished"
    BY <2>2 DEF Flying
  <2>4. h.task.pc # "Idle" =>
           /\ h.flight.stage # "None" /\ h.task.from = h.ckpt
           /\ \A k \in DOMAIN new : new[k].type # "Finished"
    BY <1>1 DEF Flying
  <2>5. ASSUME NEW k \in DOMAIN new
        PROVE  /\ new[k].type # "Status" => h.flight.stage # "None"
               /\ new[k].install # 0 => new[k].type = "Finished" /\ new[k].from = h.ckpt
               /\ new[k].type = "Finished" => \A j \in DOMAIN new : j > k => new[j].type = "Status"
    <3>1. k + 1 \in DOMAIN ev /\ new[k] = ev[k + 1]
      BY <1>1
    <3>2. /\ new[k].type # "Status" => h.flight.stage # "None"
          /\ new[k].install # 0 => new[k].type = "Finished" /\ new[k].from = h.ckpt
      BY <3>1 DEF Flying
    <3>3. ASSUME new[k].type = "Finished", NEW j \in DOMAIN new, j > k
          PROVE  new[j].type = "Status"
      <4>1. j + 1 \in DOMAIN ev /\ new[j] = ev[j + 1] /\ j + 1 > k + 1
        BY <1>1, <3>3
      <4> QED BY <3>1, <3>3, <4>1 DEF Flying
    <3> QED BY <3>2, <3>3
  <2>6. h.flight.stage = "None" => h.flight.requesters = {}
    BY DEF Flying
  <2>7. h.flight.stage # "None" => ~Barriers(h)
    BY DEF Flying
  <2> QED BY <1>2, <1>3, <2>1, <2>3, <2>4, <2>5, <2>6, <2>7 DEF Flying
<1>6. Flying(g, new)
  BY <1>4, <1>5
<1> QED BY <1>6 DEF new

(* Where the management calls are after a message.                         *)
LEMMA HeldRead ==
    ASSUME NEW h, NEW n, HostTyped(h, n), NEW ev \in Seq(Messages), ev # <<>>, Held(h, ev), NEW g,
           NEW T, NEW flying, Answers2(h, g, T, flying),
           flying.requesters \subseteq h.flight.requesters,
           \A t \in Nat : t \in h.flight.requesters => t \in flying.requesters \/ t \in T,
           ev[1].type = "Status" => ev[1].ticket \in T
    PROVE  Held(g, Tail(ev))
<1> DEFINE new == Tail(ev)
<1>1. \A t : Reported(ev, t) <=> (ev[1].type = "Status" /\ ev[1].ticket = t) \/ Reported(new, t)
  BY FirstMessage
<1> HIDE DEF new
<1>2. /\ g.flight = flying /\ g.queued = h.queued /\ g.statuses = h.statuses
      /\ DOMAIN g.pending = DOMAIN h.pending \ T
      /\ \A u \in DOMAIN g.pending : g.pending[u] = h.pending[u]
      /\ DOMAIN g.answers = DOMAIN h.answers
      /\ \A u \in DOMAIN h.answers : g.answers[u].behavior = h.answers[u].behavior
  BY DEF Answers2
<1>3. \A t : Managed(h, t) => Managed(g, t)
  BY <1>2 DEF Managed
<1>4. \A t : InQueue(g, t) <=> InQueue(h, t)
  BY <1>2 DEF InQueue
<1>5. \A t : Looked(g, new, t) => Looked(h, ev, t)
  BY <1>1, <1>2, <1>4 DEF Looked
<1>6. ASSUME NEW t \in DOMAIN g.pending, g.pending[t].owner = "Management"
      PROVE  Looked(g, new, t)
  <2>1. t \in DOMAIN h.pending /\ t \notin T /\ h.pending[t].owner = "Management" /\ t \in Nat
    BY <1>2, <1>6 DEF HostTyped
  <2>2. Looked(h, ev, t)
    BY <2>1 DEF Held
  <2> QED BY <1>1, <1>2, <1>4, <2>1, <2>2 DEF Looked
<1>7. Held(g, new)
  BY <1>3, <1>5, <1>6 DEF Held
<1> QED BY <1>7 DEF new

(* What a management event does to the host.                               *)
Answering(h, m) ==
    CASE m.type = "Status" -> Complete(h, m.ticket, "ok")
      [] m.type = "Accepted" ->
           [CompleteAll(h, h.flight.requesters, Always("ok")) EXCEPT
               !.flight = [stage |-> "Accepted", requesters |-> {}]]
      [] OTHER ->
           [CompleteAll(h, h.flight.requesters, Always("ok")) EXCEPT !.flight = NoFlight]

(* A management event is read.                                             *)
LEMMA EventWorks ==
    ASSUME NEW h, NEW n, NEW ev, NEW act, NEW out, NEW s, NEW did, NEW may,
           Unqueued(h, n, ev, act, out, s, did, may), ev \in Seq(Messages), ev # <<>>
    PROVE  LET k == Answering(h, Head(ev))
           IN  Unqueued(k, n, Tail(ev), act, out, s, did, may) /\ Carries(h, k)
<1> DEFINE m == Head(ev)
           k == Answering(h, m)
           R == h.flight.requesters
           accepted == [stage |-> "Accepted", requesters |-> {}]
<1>1. /\ HostTyped(h, n) /\ Held(h, ev) /\ Flying(h, ev) /\ out \in Seq(OutputLines)
  BY DEF Unqueued
<1>2. m = ev[1] /\ 1 \in DOMAIN ev /\ m \in Messages
  BY FirstMessage
<1>3. m.type \in {"Status", "Accepted", "Finished"} /\ m.ticket \in Nat
  BY <1>2 DEF Messages
<1> HIDE DEF m
<1>4. \A t \in R : t \in Nat /\ Managed(h, t)
  <2>1. R \subseteq Nat
    BY <1>1 DEF HostTyped, Flights
  <2> QED BY <1>1, <2>1 DEF Held, Looked
<1>5. accepted \in Flights /\ NoFlight \in Flights /\ accepted.requesters = {} /\ NoFlight.requesters = {}
  BY DEF Flights, NoFlight
<1>6. CASE m.type = "Status"
  <2> DEFINE T == {m.ticket}
             f == CompleteAll(h, T, Always("ok"))
  <2>1. k = f
    BY <1>6 DEF Answering, Complete
  <2>2. \A t \in T : Managed(h, t)
    <3>1. Reported(ev, m.ticket)
      BY <1>2, <1>6 DEF Reported
    <3> QED BY <1>1, <1>3, <3>1 DEF Held, Looked
  <2>3. m.ticket \in T
    OBVIOUS
  <2> HIDE DEF T
  <2>4. HostTyped(f, n) /\ Tickets(f) /\ Answers2(h, f, T, h.flight) /\ Work(f, act, out, s, did, may)
    BY <1>5, <2>2, ManagedAnswered
  <2> HIDE DEF f
  <2>5. Flying(f, Tail(ev))
    BY <1>1, <1>2, <1>6, <2>4, FlightRead
  <2>6. Held(f, Tail(ev))
    BY <1>1, <1>2, <1>6, <2>3, <2>4, HeldRead
  <2>7. Unqueued(f, n, Tail(ev), act, out, s, did, may)
    BY <1>1, <2>4, <2>5, <2>6 DEF Unqueued
  <2>8. Carries(h, f)
    BY <2>4 DEF Answers2, Carries
  <2> QED BY <2>1, <2>7, <2>8 DEF m
<1>7. ASSUME NEW flying \in Flights, flying.requesters = {}, NEW g,
             g = [CompleteAll(h, R, Always("ok")) EXCEPT !.flight = flying],
             \/ m.type = "Accepted" /\ flying = accepted
             \/ m.type = "Finished" /\ flying = NoFlight
      PROVE  Unqueued(g, n, Tail(ev), act, out, s, did, may) /\ Carries(h, g)
  <2>1. \A t \in R : Managed(h, t)
    BY <1>4
  <2>2. HostTyped(g, n) /\ Tickets(g) /\ Answers2(h, g, R, flying) /\ Work(g, act, out, s, did, may)
    BY <1>7, <2>1, ManagedAnswered
  <2>3. Flying(g, Tail(ev))
    BY <1>1, <1>2, <1>7, <2>2, FlightRead
  <2>4. Held(g, Tail(ev))
    <3>1. flying.requesters \subseteq h.flight.requesters
      BY <1>7
    <3>2. \A t \in Nat : t \in h.flight.requesters => t \in flying.requesters \/ t \in R
      OBVIOUS
    <3>3. ev[1].type # "Status"
      BY <1>2, <1>7
    <3> QED BY <1>1, <2>2, <3>1, <3>2, <3>3, HeldRead
  <2>5. Unqueued(g, n, Tail(ev), act, out, s, did, may)
    BY <1>1, <2>2, <2>3, <2>4 DEF Unqueued
  <2>6. Carries(h, g)
    BY <2>2 DEF Answers2, Carries
  <2> QED BY <2>5, <2>6
<1>8. CASE m.type = "Accepted"
  <2>1. k = [CompleteAll(h, R, Always("ok")) EXCEPT !.flight = accepted]
    BY <1>8 DEF Answering
  <2> HIDE DEF k
  <2>2. Unqueued(k, n, Tail(ev), act, out, s, did, may) /\ Carries(h, k)
    BY <1>5, <1>7, <1>8, <2>1
  <2> QED BY <2>2 DEF k, m
<1>9. CASE m.type = "Finished"
  <2>1. k = [CompleteAll(h, R, Always("ok")) EXCEPT !.flight = NoFlight]
    BY <1>9 DEF Answering
  <2> HIDE DEF k
  <2>2. Unqueued(k, n, Tail(ev), act, out, s, did, may) /\ Carries(h, k)
    BY <1>5, <1>7, <1>9, <2>1
  <2> QED BY <2>2 DEF k, m
<1> QED BY <1>3, <1>6, <1>8, <1>9

(* The host reads a management event; with it a new worker may take over.  *)
LEMMA ManagementStep ==
    ASSUME McpInv, ManagementMessage
    PROVE  McpInv'
<1> DEFINE m == Head(events)
           w == [running |-> TRUE, alive |-> TRUE, build |-> m.install]
           f == [Host EXCEPT !.worker = w, !.input = NextInput(m)]
           h == IF m.install = 0 THEN Host ELSE InterruptWorkerRequests(f)
           k == Answering(h, m)
           g == StartQueued(k)
<1>1. /\ events # <<>> /\ Become(g) /\ events' = Tail(events)
      /\ UNCHANGED <<menu, nextTicket, ran, bare, faults>>
  BY DEF ManagementMessage, Answering
<1>2. /\ Sound(Host, nextTicket, events, DOMAIN active, output, srv, ran, draining)
      /\ HostTyped(Host, nextTicket) /\ Flying(Host, events)
      /\ Unqueued(Host, nextTicket, events, DOMAIN active, output, srv, ran, draining)
  BY SoundNow DEF Sound, Unqueued, Management
<1>3. /\ events \in Seq(Messages) /\ events' \in Seq(Messages)
      /\ m = events[1] /\ 1 \in DOMAIN events /\ m \in Messages
  <2>1. events \in Seq(Messages)
    BY DEF McpInv, McpTyped
  <2> QED BY <1>1, <2>1, FirstMessage
<1>4. m.install \in Nat /\ m.from \in SessionCheckpoint
  BY <1>3 DEF Messages
<1>5. ASSUME NEW act, NEW out, NEW s, NEW may,
             Unqueued(h, nextTicket, events, act, out, s, ran, may)
      PROVE  /\ Host' = g /\ Carries(h, Host')
             /\ Sound(Host', nextTicket, events', act, out, s, ran, may)
  <2> HIDE DEF h, m
  <2>1. Unqueued(k, nextTicket, events', act, out, s, ran, may) /\ Carries(h, k)
    BY <1>1, <1>3, <1>5, EventWorks DEF m
  <2> HIDE DEF k
  <2>2. Sound(g, nextTicket, events', act, out, s, ran, may) /\ Carries(k, g)
    BY <2>1, QueueStarts
  <2> HIDE DEF g
  <2>3. Host' = g
    BY <1>1, <2>2, Becomes DEF Sound, HostTyped
  <2> QED BY <2>1, <2>2, <2>3 DEF Carries
<1>6. CASE m.install = 0
  <2>1. UNCHANGED <<srv, active, output, draining, nextKey>>
    BY <1>6 DEF ManagementMessage
  <2>2. h = Host
    BY <1>6
  <2>3. /\ Carries(Host, Host')
        /\ Sound(Host', nextTicket, events', DOMAIN active, output, srv, ran, draining)
    BY <1>2, <1>5, <2>2
  <2>4. ckpt' = ckpt /\ worker' = worker
    BY <2>3, HostNow, HostNext DEF Carries
  <2>5. McpTyped'
    BY <1>1, <1>3, <2>1, <2>3 DEF McpInv, McpTyped, Sound
  <2>6. Keys' /\ Cursors'
    BY <1>1, <2>1, <2>4 DEF McpInv, Keys, Cursors
  <2>7. Tickets(Host)' /\ Management(Host, events)' /\ Flying(Host, events)'
        /\ Work(Host, DOMAIN active, output, srv, ran, draining)'
    BY <1>1, <2>1, <2>3 DEF Sound
  <2> QED BY <2>5, <2>6, <2>7 DEF McpInv
<1>7. CASE m.install # 0
  <2>1. /\ srv' = FromCheckpoint(m.from) /\ active' = << >> /\ output' = <<>>
        /\ draining' = IF worker.alive THEN draining \cup Leftover(Len(input)) ELSE draining
        /\ nextKey' = IF srv.link = "Connected" THEN nextKey ELSE nextKey + 1
    BY <1>7 DEF ManagementMessage
  <2>2. m.from = ckpt /\ ckpt \in SessionCheckpoint
    BY <1>2, <1>3, <1>7, HostNow DEF Flying, HostTyped
  <2>3. /\ srv' \in Server /\ Checkpoint(srv') = ckpt /\ srv'.key = 0 /\ srv'.link = "Disconnected"
        /\ srv'.policy = ckpt.policy /\ srv'.ctx = ckpt.ctx
    BY <2>1, <2>2 DEF FromCheckpoint, Checkpoint, Server, SessionCheckpoint, SessionConnection
  <2>4. /\ draining' \subseteq Runs /\ nextKey' \in Nat \ {0}
        /\ \A q, r \in ran' \cup draining' : q[1] = r[1] \/ q[2] = r[2] => q = r
        /\ \A d \in ran' \cup draining' : d[2][1] < nextKey'
        /\ \A t : Began(draining', t) =>
              Began(draining, t) \/ (Sent(Host, t) /\ t \in Nat /\ Working(Host, t)
                                         /\ Host.pending[t].behavior = "Mutation")
    <3>1. CASE worker.alive
      <4>1. Len(input) \in Nat /\ Len(input) <= Len(input)
        BY <1>2, HostNow DEF HostTyped
      <4> QED BY <1>1, <2>1, <3>1, <4>1, LeftoverKeys
    <3>2. CASE ~worker.alive
      <4>1. /\ draining' = draining /\ ran' = ran /\ nextKey \in Nat \ {0} /\ Keys
            /\ draining \subseteq Runs /\ ran \subseteq Runs
        BY <1>1, <2>1, <3>2 DEF McpInv, McpTyped
      <4>2. nextKey' \in Nat \ {0} /\ nextKey' >= nextKey
        BY <2>1, <4>1
      <4>3. \A d \in ran' \cup draining' : d[2][1] \in Nat /\ d[2][1] < nextKey
        BY <4>1 DEF Keys, Runs
      <4>4. \A d \in ran' \cup draining' : d[2][1] < nextKey'
        BY <4>1, <4>2, <4>3
      <4> QED BY <4>1, <4>2, <4>4 DEF Keys
    <3> QED BY <3>1, <3>2
  <2>5. w \in Workers /\ w.alive /\ w.running
    BY <1>4 DEF Workers
  <2> HIDE DEF w
  <2>6. IsHost(f) /\ f.worker = w /\ f.input = <<>> /\ Frame(Host, f)
    <3>1. NextInput(m) = <<>>
      BY <1>7 DEF NextInput
    <3>2. IsHost(Host) /\ f = [Host EXCEPT !.worker = w, !.input = <<>>]
      BY <3>1, HostNow
    <3> HIDE DEF f
    <3> QED BY <3>2 DEF IsHost, Frame
  <2>7. h = InterruptWorkerRequests(f)
    BY <1>7
  <2> HIDE DEF f, h
  <2>8. Gone(Host, f, draining, srv', draining')
    BY <2>3, <2>4, <2>5, <2>6, HostNow DEF Gone
  <2>9. Unqueued(h, nextTicket, events, {}, <<>>, srv', ran, draining') /\ Carries(f, h)
    BY <1>2, <2>7, <2>8, Interrupts
  <2>10. /\ Carries(h, Host') /\ Sound(Host', nextTicket, events', {}, <<>>, srv', ran, draining')
    BY <1>5, <2>9
  <2>11. ckpt' = ckpt
    BY <2>6, <2>9, <2>10, HostNow, HostNext DEF Carries, Frame
  <2>12. DOMAIN active' = {} /\ active' \in [DOMAIN active' -> Nat]
    BY <2>1
  <2>13. McpTyped'
    BY <1>1, <1>3, <2>1, <2>3, <2>4, <2>10, <2>12 DEF McpInv, McpTyped, Sound
  <2>14. Keys'
    <3>1. srv'.key < nextKey'
      BY <2>3, <2>4
    <3> QED BY <2>3, <2>4, <3>1 DEF Keys
  <2>15. Cursors'
    <3>1. Cursors
      BY DEF McpInv
    <3>2. Initial(srv') /\ Initial(ckpt')
      BY <2>3, <2>11, <3>1 DEF Cursors, Initial
    <3>3. \A j \in DOMAIN output' : Initial(output'[j].ckpt)
      BY <2>1
    <3> QED BY <1>1, <3>1, <3>2, <3>3 DEF Cursors
  <2>16. Tickets(Host)' /\ Management(Host, events)' /\ Flying(Host, events)'
         /\ Work(Host, DOMAIN active, output, srv, ran, draining)'
    BY <1>1, <2>1, <2>10, <2>12 DEF Sound
  <2> QED BY <2>13, <2>14, <2>15, <2>16 DEF McpInv
<1> QED BY <1>6, <1>7

---------------------------------------------------------------------------
(* The invariant and what it says.                                         *)

(* A host without a request, with an empty worker.                         *)
Empty(h, s) ==
    /\ IsHost(h) /\ h.pending = << >> /\ h.external = << >> /\ h.answers = << >>
    /\ h.queued = {} /\ h.flight = NoFlight /\ h.input = <<>> /\ h.task = NoTask
    /\ h.statuses = {} /\ h.ckpt = Checkpoint(s) /\ s \in Server /\ h.worker \in Workers
    /\ h.worker.alive => h.worker.running

(* Such a host is sound.                                                   *)
LEMMA EmptySound ==
    ASSUME NEW h, NEW s, Empty(h, s)
    PROVE  Sound(h, 1, <<>>, {}, <<>>, s, {}, {})
<1> DEFINE none == <<>>
<1>1. /\ IsHost(h) /\ h.pending = << >> /\ h.external = << >> /\ h.answers = << >>
      /\ h.queued = {} /\ h.flight = NoFlight /\ h.input = <<>> /\ h.task = NoTask
      /\ h.statuses = {} /\ h.ckpt = Checkpoint(s) /\ s \in Server /\ h.worker \in Workers
      /\ h.worker.alive => h.worker.running
  BY DEF Empty
<1>2. DOMAIN h.pending = {} /\ DOMAIN h.external = {} /\ DOMAIN h.answers = {} /\ DOMAIN h.input = {}
  BY <1>1
<1>3. none \in Seq(OutputLines) /\ Len(none) = 0 /\ DOMAIN none = {} /\ none \in Seq(InputLines)
  OBVIOUS
<1>4. HostTyped(h, 1)
  <2>1. /\ h.pending \in [DOMAIN h.pending -> Pendings] /\ h.external \in [DOMAIN h.external -> Nat]
        /\ h.answers \in [1..(1 - 1) -> Answers] /\ DOMAIN h.pending \subseteq 1..(1 - 1)
    BY <1>1
  <2>2. h.flight \in Flights
    BY <1>1 DEF Flights, NoFlight
  <2>3. h.task \in Tasks
    BY <1>1, IdleTask
  <2>4. h.ckpt \in SessionCheckpoint
    BY <1>1 DEF Checkpoint, SessionCheckpoint, Server
  <2> QED BY <1>1, <1>3, <2>1, <2>2, <2>3, <2>4 DEF HostTyped
<1> HIDE DEF none
<1>5. Tickets(h)
  BY <1>2 DEF Tickets
<1>6. h.flight.stage = "None" /\ h.flight.requesters = {} /\ h.task.pc = "Idle"
  BY <1>1, IdleTask DEF NoFlight
<1>7. Management(h, none)
  <2>1. \A t : ~Looked(h, none, t)
    BY <1>1, <1>3, <1>6 DEF Looked, InQueue, Reported
  <2> QED BY <1>1, <1>2, <2>1 DEF Management, Held
<1>8. Flying(h, none)
  BY <1>3, <1>6 DEF Flying
<1>9. Link(h, none)
  BY <1>1 DEF Link, none
<1>10. Lines(h, {}, none) /\ OnePlace(h, {}, none) /\ Cancels(h, {}, none)
  BY <1>2, <1>3 DEF Lines, OnePlace, Cancels, Answered, Sent
<1>11. Somewhere(h, {}, none)
  BY <1>2 DEF Somewhere
<1>12. Sessions(h, none, s)
  <2>1. \A i \in 0..Len(none) : i = 0
    BY <1>3
  <2>2. At(h, none, 0) = Checkpoint(s)
    BY <1>1 DEF At
  <2>3. \A i, j \in 0..Len(none) : i <= j => Unchanged(h, none, i, j, At(h, none, j))
    BY <2>1 DEF Unchanged
  <2>4. \A i \in 0..Len(none) : Unchanged(h, none, i, Len(none), Checkpoint(s))
    BY <2>1, <2>2 DEF Unchanged
  <2> QED BY <2>3, <2>4 DEF Sessions
<1>13. Truths(h, none, {}, {})
  BY <1>2, <1>3 DEF Truths, Begins, Began, Sent
<1>14. Sound(h, 1, none, {}, none, s, {}, {})
  BY <1>3, <1>4, <1>5, <1>7, <1>8, <1>9, <1>10, <1>11, <1>12, <1>13 DEF Sound, Work
<1> QED BY <1>14 DEF none

(* The state in which a host starts.                                       *)
Nascent ==
    /\ Empty(Host, srv) /\ nextTicket = 1 /\ events = <<>> /\ active = << >> /\ output = <<>>
    /\ ran = {} /\ draining = {} /\ bare = {} /\ nextKey = 1 /\ faults = 0 /\ menu \in Menus
    /\ srv.key = 0 /\ Initial(srv)

(* The invariant holds there.                                              *)
LEMMA EmptyInv == Nascent => McpInv
<1> SUFFICES ASSUME Nascent PROVE McpInv
  OBVIOUS
<1>0. /\ Empty(Host, srv) /\ nextTicket = 1 /\ events = <<>> /\ active = << >> /\ output = <<>>
      /\ ran = {} /\ draining = {} /\ bare = {} /\ nextKey = 1 /\ faults = 0 /\ menu \in Menus
      /\ srv.key = 0 /\ Initial(srv)
  BY DEF Nascent
<1>1. Sound(Host, nextTicket, events, DOMAIN active, output, srv, ran, draining)
  <2>1. DOMAIN active = {}
    BY <1>0
  <2> QED BY <1>0, <2>1, EmptySound
<1>2. McpTyped
  <2>1. active \in [DOMAIN active -> Nat] /\ events \in Seq(Messages) /\ output \in Seq(OutputLines)
    BY <1>0
  <2>2. HostTyped(Host, nextTicket) /\ srv \in Server
    BY <1>0, <1>1 DEF Sound, Empty
  <2>3. draining \subseteq Runs /\ ran \subseteq Runs /\ nextKey \in Nat \ {0} /\ faults \in Nat
    BY <1>0
  <2> QED BY <1>0, <2>1, <2>2, <2>3 DEF McpTyped
<1>3. Keys
  BY <1>0 DEF Keys
<1>4. Cursors
  <2>1. ckpt = Checkpoint(srv)
    BY <1>0, HostNow DEF Empty
  <2>2. Initial(ckpt)
    BY <1>0, <2>1 DEF Initial, Checkpoint
  <2>3. \A k \in DOMAIN output : Initial(output[k].ckpt)
    BY <1>0
  <2> QED BY <1>0, <2>2, <2>3 DEF Cursors
<1> QED BY <1>1, <1>2, <1>3, <1>4 DEF McpInv, Sound

(* The two servers a host starts with.                                     *)
LEMMA FirstServers ==
    ASSUME NEW s \in {FromCheckpoint(Checkpoint(ServerNew)), Begun, ServerNew}
    PROVE  s \in Server /\ s.key = 0 /\ Initial(s)
<1>1. FirstName \in Names /\ FirstContext \in Contexts
  BY McpAssumption
<1>2. ServerNew \in Server /\ ServerNew.key = 0 /\ Initial(ServerNew)
  BY <1>1 DEF ServerNew, Server, CursorPolicy, SessionConnection, Initial
<1>3. FromCheckpoint(Checkpoint(ServerNew)) = ServerNew
  BY DEF FromCheckpoint, Checkpoint, ServerNew
<1>4. Begun \in Server /\ Begun.key = 0 /\ Initial(Begun)
  BY <1>1 DEF Begun, ServerNew, Server, CursorPolicy, SessionConnection, Initial
<1> QED BY <1>2, <1>3, <1>4

(* A host starts in such a state.                                          *)
LEMMA InitInv == McpInit => McpInv
<1> SUFFICES ASSUME McpInit PROVE Nascent
  BY EmptyInv
<1>1. srv \in Server /\ srv.key = 0 /\ Initial(srv)
  BY FirstServers DEF McpInit
<1>2. Empty(Host, srv)
  <2>1. worker \in Workers /\ (worker.alive => worker.running)
    BY DEF McpInit, Workers
  <2> QED BY <1>1, <2>1, HostNow DEF Empty, McpInit
<1> QED BY <1>1, <1>2 DEF Nascent, McpInit

(* And ends in one.                                                        *)
LEMMA EndStep ==
    ASSUME McpInv, HostEnds
    PROVE  McpInv'
<1>1. srv' \in Server /\ srv'.key = 0 /\ Initial(srv')
  BY FirstServers DEF HostEnds
<1>2. Empty(Host', srv')
  <2>1. worker' \in Workers /\ (worker'.alive => worker'.running)
    BY DEF HostEnds, Workers
  <2> QED BY <1>1, <2>1, HostNext DEF Empty, HostEnds
<1>3. menu' \in Menus
  BY DEF HostEnds, McpInv, McpTyped
<1>4. Nascent'
  BY <1>1, <1>2, <1>3 DEF Nascent, HostEnds
<1> QED BY <1>4, EmptyInv, PTL

(* Every step keeps the invariant.                                         *)
LEMMA McpSteps == McpInv /\ [McpNext]_mcpVars => McpInv'
<1> SUFFICES ASSUME McpInv, [McpNext]_mcpVars PROVE McpInv'
  OBVIOUS
<1>1. ASSUME NEW i \in Ids, NEW r \in menu, Incoming(i, r) PROVE McpInv'
  BY <1>1, IncomingStep
<1>2. ASSUME NEW i \in Ids, Cancel(i) PROVE McpInv'
  BY <1>2, CancelStep
<1>3. CASE WorkerDispatch
  BY <1>3, DispatchStep
<1>4. CASE WorkerCancel
  BY <1>4, CancelReadStep
<1>5. ASSUME NEW t \in 1..MaxTicket, WorkerWaitEnds(t) PROVE McpInv'
  BY <1>5, WaitEndStep
<1>6. CASE ConnectionCloses
  BY <1>6, CloseStep
<1>7. CASE WorkerDies
  BY <1>7, DieStep
<1>8. CASE OldWorkerRuns
  BY <1>8, OldStep
<1>9. CASE WorkerMessage
  BY <1>9, MessageStep
<1>10. CASE WorkerLost
  BY <1>10, LostStep
<1>11. CASE ManagementMessage
  BY <1>11, ManagementStep
<1>12. CASE ActivationStep
  BY <1>12, ActivationSteps
<1>13. CASE StatusCall
  BY <1>13, StatusStep
<1>14. CASE HostEnds
  BY <1>14, EndStep
<1>15. CASE UNCHANGED mcpVars
  <2>1. Host' = Host /\ menu' = menu /\ nextTicket' = nextTicket /\ ckpt' = ckpt
        /\ worker' = worker /\ srv' = srv /\ active' = active /\ output' = output
        /\ events' = events /\ draining' = draining /\ nextKey' = nextKey /\ ran' = ran
        /\ bare' = bare /\ faults' = faults
    BY <1>15 DEF mcpVars, Host
  <2> QED BY <2>1 DEF McpInv, McpTyped, Keys, Cursors
<1> QED BY <1>1, <1>2, <1>3, <1>4, <1>5, <1>6, <1>7, <1>8, <1>9, <1>10, <1>11, <1>12, <1>13,
           <1>14, <1>15 DEF McpNext

(* Tickets, management calls, the flight of a restart, what the worker has *)
(* been given, the idempotency keys and the cursors of the adapter agree   *)
(* at all times (supervisor.rs, worker.rs, server.rs).                     *)
THEOREM McpInvariant == McpSpec => []McpInv
  BY InitInv, McpSteps, PTL DEF McpSpec

(* The host's checkpoint is the session of its worker and of the one being *)
(* prepared unless a change of it is on its way (supervisor.rs, barriers   *)
(* and activate).                                                          *)
THEOREM McpSessionKept == McpSpec => []SessionKept
<1>1. McpInv => SessionKept
  <2> SUFFICES ASSUME McpInv PROVE SessionKept
    OBVIOUS
  <2>1. /\ Sessions(Host, output, srv) /\ Flying(Host, events) /\ output \in Seq(OutputLines)
    BY DEF McpInv, McpTyped, Work
  <2>2. ASSUME worker.alive, ~Barriers(Host) PROVE Checkpoint(srv) = ckpt
    <3>1. 0 \in 0..Len(output)
      BY <2>1
    <3>2. Unchanged(Host, output, 0, Len(output), Checkpoint(srv))
      BY <2>1, <2>2, <3>1, HostNow DEF Sessions
    <3>3. \A m : ~Changes(Host, m)
      BY <2>2 DEF Changes, Barriers
    <3> QED BY <3>2, <3>3, HostNow DEF Unchanged, At
  <2>3. task.pc # "Idle" => task.from = ckpt
    BY <2>1, HostNow DEF Flying
  <2>4. \A k \in DOMAIN events : events[k].install # 0 => events[k].from = ckpt
    BY <2>1, HostNow DEF Flying
  <2> QED BY <2>2, <2>3, <2>4 DEF SessionKept
<1> QED BY <1>1, McpInvariant, PTL

(* What a client is told of a mutation is true, whatever dies or is        *)
(* replaced under it (supervisor.rs, interrupt_worker_requests).           *)
THEOREM McpTruthfulOutcome == McpSpec => []TruthfulOutcome
<1>1. McpInv => TruthfulOutcome
  <2> SUFFICES ASSUME McpInv PROVE TruthfulOutcome
    OBVIOUS
  <2>1. Truths(Host, output, ran, draining) /\ ran \subseteq Runs /\ Host.answers = answers
    BY HostNow DEF McpInv, McpTyped, Work
  <2>2. ASSUME NEW r \in ran PROVE answers[r[1]].reply \in {"none", "ok", "unresolved", "uncertain", "silent"}
    <3>1. r[1] \in Nat /\ Begins(ran, draining, r[1])
      BY <2>1 DEF Runs, Begins, Began
    <3> QED BY <2>1, <3>1 DEF Truths, Open
  <2>3. ASSUME NEW t \in DOMAIN answers, answers[t].behavior = "Mutation", answers[t].reply \in {"ok", "unresolved"}
        PROVE  \E r \in ran : r[1] = t
    BY <2>1, <2>3 DEF Truths, Began
  <2> QED BY <2>2, <2>3 DEF TruthfulOutcome
<1> QED BY <1>1, McpInvariant, PTL

(* No mutation runs twice and no two share an idempotency key, over all    *)
(* the workers of a host (server.rs:213, fresh client identifiers).        *)
THEOREM McpRanOnce == McpSpec => []RanOnce
<1>1. McpInv => RanOnce
  BY DEF McpInv, Keys, RanOnce
<1> QED BY <1>1, McpInvariant, PTL

(* A cursor that names no context is only applied to the first one         *)
(* (checkpoint.rs, CursorPolicy).                                          *)
THEOREM McpCursorsBelong == McpSpec => []CursorsBelong
<1>1. McpInv => CursorsBelong
  BY DEF McpInv, Cursors, CursorsBelong
<1> QED BY <1>1, McpInvariant, PTL

(* When nothing is under way, no request is left without its answer        *)
(* (supervisor.rs, start_queued after every message).                      *)
THEOREM McpNothingStuck == McpSpec => []NothingStuck
<1>1. McpInv => NothingStuck
  <2> SUFFICES ASSUME McpInv, input = <<>>, output = <<>>, DOMAIN active = {},
                      events = <<>>, task.pc = "Idle", statuses = {},
                      worker.running => worker.alive
               PROVE  DOMAIN pending = {} /\ DOMAIN external = {} /\ queued = {} /\ flight = NoFlight
    BY DEF NothingStuck
  <2>1. /\ HostTyped(Host, nextTicket) /\ Tickets(Host) /\ Management(Host, events)
        /\ Flying(Host, events) /\ Somewhere(Host, DOMAIN active, output)
    BY DEF McpInv, McpTyped, Work
  <2>2. DOMAIN events = {} /\ DOMAIN output = {} /\ DOMAIN input = {}
    OBVIOUS
  <2>3. \A t : ~Sent(Host, t) /\ ~Answered(output, t) /\ ~Stopped(output, t) /\ ~Reported(events, t)
    BY <2>2, HostNow DEF Sent, Answered, Stopped, Reported
  <2>4. \A t \in DOMAIN pending : pending[t].owner # "Worker"
    BY <2>1, <2>3, HostNow DEF Somewhere
  <2>5. queued = {}
    <3>1. ~Barriers(Host)
      BY <2>4, HostNow DEF Barriers
    <3> QED BY <2>1, <3>1, HostNow DEF Management
  <2>6. flight.stage = "None" /\ flight.requesters = {}
    BY <2>1, <2>2, HostNow DEF Flying
  <2>7. flight = NoFlight
    <3>1. flight \in Flights
      BY <2>1, HostNow DEF HostTyped
    <3> QED BY <2>6, <3>1 DEF Flights, NoFlight
  <2>8. \A t : ~Looked(Host, events, t)
    BY <2>3, <2>5, <2>6, HostNow DEF Looked, InQueue
  <2>9. \A t \in DOMAIN pending : pending[t].owner # "Management"
    BY <2>1, <2>8, HostNow DEF Management, Held
  <2>10. \A t \in DOMAIN pending : pending[t].owner \in {"Worker", "Management"}
    <3>1. \A t \in DOMAIN pending : pending[t] \in Pendings
      BY <2>1, HostNow DEF HostTyped
    <3> QED BY <3>1 DEF Pendings
  <2>11. DOMAIN pending = {}
    BY <2>4, <2>9, <2>10
  <2>12. DOMAIN external = {}
    BY <2>1, <2>11, HostNow DEF Tickets
  <2> QED BY <2>5, <2>7, <2>11, <2>12
<1> QED BY <1>1, McpInvariant, PTL


---------------------------------------------------------------------------
(* Replies.                                                                *)

(* From h to g, replies go to requests that are not cancelled, and these   *)
(* requests leave.                                                         *)
Tells(h, g) ==
    /\ IsHost(g)
    /\ \A t \in DOMAIN g.pending : t \in DOMAIN h.pending /\ g.pending[t] = h.pending[t]
    /\ DOMAIN g.answers = DOMAIN h.answers
    /\ \A t \in DOMAIN h.answers :
          \/ g.answers[t] = h.answers[t]
          \/ /\ t \in DOMAIN h.pending /\ t \notin DOMAIN g.pending
             /\ \/ ~h.pending[t].canceled
                \/ g.answers[t] = [h.answers[t] EXCEPT !.reply = "silent"]

(* Tells is transitive.                                                    *)
LEMMA TellsTwice ==
    ASSUME NEW f, NEW g, NEW h, Tells(f, g), Tells(g, h)
    PROVE  Tells(f, h)
<1>1. \A t \in DOMAIN h.pending : t \in DOMAIN f.pending /\ h.pending[t] = f.pending[t]
  BY DEF Tells
<1>2. ASSUME NEW t \in DOMAIN f.answers
      PROVE  \/ h.answers[t] = f.answers[t]
             \/ /\ t \in DOMAIN f.pending /\ t \notin DOMAIN h.pending
                /\ \/ ~f.pending[t].canceled
                   \/ h.answers[t] = [f.answers[t] EXCEPT !.reply = "silent"]
  <2>1. CASE g.answers[t] = f.answers[t]
    BY <2>1, <1>1 DEF Tells
  <2>2. CASE g.answers[t] # f.answers[t]
    <3>1. t \in DOMAIN f.pending /\ t \notin DOMAIN g.pending /\ t \notin DOMAIN h.pending
      BY <2>2 DEF Tells
    <3>2. h.answers[t] = g.answers[t]
      BY <3>1 DEF Tells
    <3> QED BY <2>2, <3>1, <3>2 DEF Tells
  <2> QED BY <2>1, <2>2
<1> QED BY <1>1, <1>2 DEF Tells

(* What leaves requests and answers alone tells nobody anything.           *)
LEMMA TellsNobody ==
    ASSUME NEW h, NEW g, IsHost(g), g.pending = h.pending, g.answers = h.answers
    PROVE  Tells(h, g)
    BY DEF Tells

(* complete answers the requests that are not cancelled.                   *)
LEMMA CompleteTells ==
    ASSUME NEW h, IsHost(h), NEW T, NEW reply
    PROVE  Tells(h, CompleteAll(h, T, reply))
<1> DEFINE done == T \cap DOMAIN h.pending
           freed == {i \in DOMAIN h.external :
                        LET t == h.external[i] IN
                           t \in done /\ h.pending[t].id = i /\ ~h.pending[t].canceled}
           pend == [t \in DOMAIN h.pending \ done |-> h.pending[t]]
           ext == [i \in DOMAIN h.external \ freed |-> h.external[i]]
           ans == [t \in DOMAIN h.answers |->
                      IF t \in done
                      THEN [h.answers[t] EXCEPT !.reply = Told(h.pending[t], reply)]
                      ELSE h.answers[t]]
           g == CompleteAll(h, T, reply)
<1>1. g = [h EXCEPT !.pending = pend, !.external = ext, !.answers = ans]
  BY DEF CompleteAll, Without, Restrict
<1>2. g.pending = pend /\ g.answers = ans /\ IsHost(g)
  <2> HIDE DEF g, pend, ext, ans
  <2> QED BY <1>1 DEF IsHost
<1>3. \A t \in DOMAIN pend : t \in DOMAIN h.pending /\ pend[t] = h.pending[t]
  OBVIOUS
<1>4. DOMAIN ans = DOMAIN h.answers
  OBVIOUS
<1>5. ASSUME NEW t \in DOMAIN h.answers
      PROVE  \/ ans[t] = h.answers[t]
             \/ /\ t \in DOMAIN h.pending /\ t \notin DOMAIN pend
                /\ \/ ~h.pending[t].canceled
                   \/ ans[t] = [h.answers[t] EXCEPT !.reply = "silent"]
  <2>1. CASE t \notin done
    BY <2>1
  <2>2. CASE t \in done
    <3>1. t \in DOMAIN h.pending /\ t \notin DOMAIN pend
      BY <2>2
    <3>2. ans[t] = [h.answers[t] EXCEPT !.reply = Told(h.pending[t], reply)]
      BY <2>2
    <3>3. h.pending[t].canceled => Told(h.pending[t], reply) = "silent"
      BY DEF Told
    <3> HIDE DEF ans, pend
    <3> QED BY <3>1, <3>2, <3>3
  <2> QED BY <2>1, <2>2
<1>6. Tells(h, g)
  <2> HIDE DEF g, pend, ans
  <2> QED BY <1>2, <1>3, <1>4, <1>5 DEF Tells
<1> QED BY <1>6

(* start_queued answers the calls it cannot start.                         *)
LEMMA StartTells ==
    ASSUME NEW h, IsHost(h)
    PROVE  Tells(h, StartQueued(h))
<1> DEFINE f0 == [h EXCEPT !.queued = {}]
           f1 == [f0 EXCEPT !.statuses = h.statuses \cup Due(h, "Status")]
           R == Due(h, "Restart")
<1>1. IsHost(f0) /\ Tells(h, f0)
  <2>1. IsHost(f0) /\ f0.pending = h.pending /\ f0.answers = h.answers
    BY OtherQueue
  <2> HIDE DEF f0
  <2> QED BY <2>1, TellsNobody
<1>2. IsHost(f1) /\ Tells(h, f1)
  <2>1. f0.pending = h.pending /\ f0.answers = h.answers
    BY OtherQueue
  <2> HIDE DEF f0
  <2>2. IsHost(f1) /\ f1.pending = f0.pending /\ f1.answers = f0.answers
    BY <1>1, OtherStatuses
  <2> HIDE DEF f1
  <2> QED BY <2>1, <2>2, TellsNobody
<1>3. CASE Barriers(h)
  BY <1>3, TellsNobody DEF StartQueued
<1>4. CASE ~Barriers(h) /\ ~h.ckpt.init
  <2>1. StartQueued(h) = CompleteAll(f0, Due(h, "Status") \cup R, Always("error"))
    BY <1>4 DEF StartQueued
  <2> HIDE DEF f0, R
  <2>2. Tells(f0, StartQueued(h))
    BY <2>1, <1>1, CompleteTells
  <2> QED BY <1>1, <2>2, TellsTwice
<1>5. CASE ~Barriers(h) /\ h.ckpt.init
  <2>1. StartQueued(h) = StartRestart(f1, R)
    BY <1>5 DEF StartQueued
  <2> HIDE DEF f0, f1, R
  <2>2. Tells(f1, StartRestart(f1, R))
    <3>1. CASE R = {}
      BY <3>1, <1>2, TellsNobody DEF StartRestart
    <3>2. CASE R # {} /\ f1.flight.stage = "Preparing"
      <4> DEFINE fl == [stage |-> "Preparing", requesters |-> f1.flight.requesters \cup R]
                 g == [f1 EXCEPT !.flight = fl]
      <4>1. StartRestart(f1, R) = g
        BY <3>2 DEF StartRestart
      <4> HIDE DEF fl
      <4>2. IsHost(g) /\ g.pending = f1.pending /\ g.answers = f1.answers
        BY <1>2, OtherFlight
      <4> HIDE DEF g
      <4>3. Tells(f1, g)
        BY <4>2, TellsNobody
      <4> QED BY <4>1, <4>3
    <3>3. CASE R # {} /\ f1.flight.stage = "Accepted"
      <4>1. StartRestart(f1, R) = CompleteAll(f1, R, Always("ok"))
        BY <3>3 DEF StartRestart
      <4> QED BY <4>1, <1>2, CompleteTells
    <3>4. CASE R # {} /\ f1.flight.stage # "Preparing" /\ f1.flight.stage # "Accepted"
      <4> DEFINE fl == [stage |-> "Preparing", requesters |-> R]
                 tk == [pc |-> "Prepare", from |-> f1.ckpt, current |-> f1.worker.build,
                        policy |-> ReplacementPolicy(f1.worker), install |-> 0,
                        verified |-> FALSE]
                 g == StartRestart(f1, R)
      <4>1. g = [f1 EXCEPT !.flight = fl, !.task = tk]
        BY <3>4 DEF StartRestart
      <4>2. DOMAIN f1 = Fields
        BY <1>2, HostFields
      <4> HIDE DEF fl, tk, g
      <4>3. IsHost(g) /\ g.pending = f1.pending /\ g.answers = f1.answers
        BY <4>1, <4>2, <1>2 DEF IsHost, Fields
      <4>4. Tells(f1, g)
        BY <4>3, TellsNobody
      <4> QED BY <4>4 DEF g
    <3> QED BY <3>1, <3>2, <3>3, <3>4
  <2> QED BY <2>1, <2>2, <1>2, TellsTwice
<1> QED BY <1>3, <1>4, <1>5

(* A line to the worker answers nobody.                                    *)
LEMMA SendTells ==
    ASSUME NEW h, IsHost(h), NEW m
    PROVE  Tells(h, Send(h, m))
<1>1. CASE h.worker.alive
  <2> DEFINE q == Append(h.input, m)
             g == [h EXCEPT !.input = q]
  <2>1. Send(h, m) = g
    BY <1>1 DEF Send
  <2> HIDE DEF q
  <2>2. IsHost(g) /\ g.pending = h.pending /\ g.answers = h.answers
    BY OtherInput
  <2> HIDE DEF g
  <2>3. Tells(h, g)
    BY <2>2, TellsNobody
  <2> QED BY <2>1, <2>3
<1>2. CASE ~h.worker.alive
  <2>1. Send(h, m) = h
    BY <1>2 DEF Send
  <2> QED BY <2>1, TellsNobody
<1> QED BY <1>1, <1>2

(* A request is forwarded, queued or refused.                              *)
LEMMA RouteTells ==
    ASSUME NEW h, IsHost(h), NEW t, NEW r, NEW sends
    PROVE  Tells(h, DispatchRoute(h, t, r, sends))
<1> DEFINE b == Route(r.tool)
           Q == h.queued \cup {[ticket |-> t, call |-> IF b = "Status" THEN "Status" ELSE "Restart"]}
           f == [h EXCEPT !.queued = Q]
<1>1. IsHost(f) /\ Tells(h, f)
  <2> HIDE DEF Q
  <2>1. IsHost(f) /\ f.pending = h.pending /\ f.answers = h.answers
    BY OtherQueue
  <2> HIDE DEF f
  <2> QED BY <2>1, TellsNobody
<1>2. CASE Owner(b) = "Management"
  <2>1. DispatchRoute(h, t, r, sends) = StartQueued(f)
    BY <1>2 DEF DispatchRoute
  <2> HIDE DEF f
  <2> QED BY <1>1, <2>1, StartTells, TellsTwice
<1>3. CASE Owner(b) = "Worker" /\ (Refuses(h, b) \/ ~sends)
  <2>1. DispatchRoute(h, t, r, sends) = CompleteAll(h, {t}, Always("refused"))
    BY <1>3 DEF DispatchRoute, Complete
  <2> QED BY <2>1, CompleteTells
<1>4. CASE Owner(b) # "Management" /\ ~(Owner(b) = "Worker" /\ (Refuses(h, b) \/ ~sends))
  <2>1. DispatchRoute(h, t, r, sends)
            = Send(h, [type |-> "Dispatch", ticket |-> t, req |-> r])
    BY <1>4 DEF DispatchRoute
  <2> QED BY <2>1, SendTells
<1> QED BY <1>2, <1>3, <1>4

(* The requests that are not cancelled in h are the host's, but for new    *)
(* ones.                                                                   *)
Heirs(h) ==
    \A t \in DOMAIN answers :
        /\ t \in DOMAIN h.answers /\ h.answers[t] = answers[t]
        /\ t \in DOMAIN h.pending /\ ~h.pending[t].canceled =>
               t \in DOMAIN pending /\ ~pending[t].canceled

(* What is told from there goes to the last request of an identifier.      *)
LEMMA TellsLatest ==
    ASSUME McpInv, NEW h, Heirs(h), Tells(h, Host')
    PROVE  ReplyStep
<1> SUFFICES ASSUME NEW t \in DOMAIN answers, t \in DOMAIN answers', answers[t].reply = "none",
                    answers'[t].reply \notin {"none", "silent"},
                    NEW u \in DOMAIN answers, answers[u].id = answers[t].id
             PROVE  u <= t
  BY DEF ReplyStep
<1>1. HostTyped(Host, nextTicket) /\ Tickets(Host)
  BY DEF McpInv, McpTyped
<1>2. t \in DOMAIN h.answers /\ h.answers[t] = answers[t] /\ Host'.answers = answers'
  BY HostNext DEF Heirs
<1>3. answers[t] \in Answers
  BY <1>1, HostNow DEF HostTyped
<1>4. [answers[t] EXCEPT !.reply = "silent"].reply = "silent"
  BY <1>3 DEF Answers
<1>5. t \in DOMAIN h.pending /\ ~h.pending[t].canceled
  BY <1>2, <1>4 DEF Tells
<1>6. t \in DOMAIN pending /\ ~pending[t].canceled
  BY <1>5 DEF Heirs
<1>7. answers[t].id = pending[t].id
  BY <1>1, <1>6, HostNow DEF Tickets
<1> QED BY <1>1, <1>6, <1>7, HostNow DEF Tickets

(* A handler that becomes what has told the host's own requests.           *)
LEMMA HandlerTells ==
    ASSUME McpInv, NEW h, Heirs(h), NEW g, Tells(h, g), Become(g)
    PROVE  ReplyStep
<1>1. Host' = g
  BY Becomes DEF Tells
<1> QED BY <1>1, TellsLatest

(* With the same requests and answers as the host.                         *)
LEMMA OwnHeirs ==
    ASSUME NEW h, h.pending = pending, h.answers = answers
    PROVE  Heirs(h)
    BY DEF Heirs

(* A step that leaves the answers alone.                                   *)
LEMMA NoReply ==
    ASSUME answers' = answers
    PROVE  ReplyStep
    BY DEF ReplyStep

(* What has the fields of the host is a state of the host.                 *)
LEMMA FieldsHost ==
    ASSUME NEW h, DOMAIN h = Fields, h = [c \in DOMAIN h |-> h[c]]
    PROVE  IsHost(h)
    BY DEF IsHost, Fields

(* A new request has no older answer.                                      *)
LEMMA IncomingTells ==
    ASSUME McpInv, NEW i \in Ids, NEW r \in menu, Incoming(i, r)
    PROVE  ReplyStep
<1> DEFINE n == nextTicket
           b == Route(r.tool)
           e == With(external, i, nextTicket)
           x == [id |-> i, behavior |-> b, owner |-> Owner(b), canceled |-> FALSE]
           y == [id |-> i, behavior |-> b, reply |-> "none"]
           p == With(pending, nextTicket, x)
           a == With(answers, nextTicket, y)
           h == [Host EXCEPT !.external = e, !.pending = p, !.answers = a]
<1>1. PICK sends \in CanSend(h) : Become(DispatchRoute(h, n, r, sends))
  BY DEF Incoming
<1>2. n \notin DOMAIN answers
  <2>1. HostTyped(Host, n)
    BY DEF McpInv, McpTyped
  <2> QED BY <2>1, HostNow DEF HostTyped
<1>3. IsHost(h) /\ h.pending = p /\ h.answers = a
  <2>1. IsHost(Host)
    BY HostNow
  <2> HIDE DEF e, p, a
  <2>2. DOMAIN Host = Fields
    BY <2>1, HostFields
  <2>3. DOMAIN h = DOMAIN Host /\ h = [c \in DOMAIN h |-> h[c]]
    OBVIOUS
  <2>4. h.pending = p /\ h.answers = a
    BY <2>2 DEF Fields
  <2> HIDE DEF h
  <2> QED BY <2>2, <2>3, <2>4, FieldsHost
<1>4. ASSUME NEW t \in DOMAIN answers
      PROVE  /\ t \in DOMAIN a /\ a[t] = answers[t]
             /\ t \in DOMAIN p => t \in DOMAIN pending /\ p[t] = pending[t]
  <2>1. t # n
    BY <1>2
  <2> HIDE DEF x, y
  <2> QED BY <2>1 DEF With
<1> HIDE DEF h, p, a
<1>5. Heirs(h)
  BY <1>3, <1>4 DEF Heirs
<1>6. Tells(h, DispatchRoute(h, n, r, sends))
  BY <1>3, RouteTells
<1> QED BY <1>1, <1>5, <1>6, HandlerTells

(* A cancelled request gets no reply.                                      *)
LEMMA CancelTells ==
    ASSUME McpInv, NEW i, Cancel(i)
    PROVE  ReplyStep
<1> DEFINE t == external[i]
           e == Without(external, {i})
           p == [pending EXCEPT ![t].canceled = TRUE]
           h == [Host EXCEPT !.external = e, !.pending = p]
           m == [type |-> "Cancel", ticket |-> t, req |-> [tool |-> "ping", arg |-> ""]]
           waiting == \E q \in queued : q.ticket = t
           Q == {q \in queued : q.ticket # t}
<1>1. IF pending[t].owner = "Worker"
      THEN \E sends \in CanSend(h) : Become(IF sends THEN Send(h, m) ELSE h)
      ELSE Become(IF waiting THEN [Complete(h, t, "silent") EXCEPT !.queued = Q] ELSE h)
  BY DEF Cancel
<1>2. /\ IsHost(h) /\ h.pending = p /\ h.answers = answers
  <2>1. IsHost(Host) /\ Host.answers = answers
    BY HostNow
  <2> HIDE DEF e, p
  <2>2. DOMAIN Host = Fields
    BY <2>1, HostFields
  <2>3. DOMAIN h = DOMAIN Host /\ h = [c \in DOMAIN h |-> h[c]]
    OBVIOUS
  <2>4. h.pending = p /\ h.answers = Host.answers
    BY <2>2 DEF Fields
  <2> HIDE DEF h
  <2> QED BY <2>1, <2>2, <2>3, <2>4, FieldsHost
<1>3. \A u \in DOMAIN p : u \in DOMAIN pending /\ (p[u].canceled \/ p[u] = pending[u])
  <2>1. pending \in [DOMAIN pending -> Pendings]
    BY HostNow DEF McpInv, McpTyped, HostTyped
  <2> QED BY <2>1 DEF Pendings
<1> HIDE DEF h, p, m, t, Q
<1>4. Heirs(h)
  BY <1>2, <1>3 DEF Heirs
<1>5. Tells(h, h) /\ Tells(h, Send(h, m))
  BY <1>2, TellsNobody, SendTells
<1>6. Tells(h, [Complete(h, t, "silent") EXCEPT !.queued = Q])
  <2> DEFINE f == Complete(h, t, "silent")
             g == [f EXCEPT !.queued = Q]
  <2>1. Tells(h, f)
    BY <1>2, CompleteTells DEF Complete
  <2>2. IsHost(f)
    BY <2>1 DEF Tells
  <2> HIDE DEF f
  <2>3. IsHost(g) /\ g.pending = f.pending /\ g.answers = f.answers
    BY <2>2, OtherQueue
  <2> HIDE DEF g
  <2>4. Tells(h, g)
    BY <2>1, <2>3, TellsNobody, TellsTwice
  <2> QED BY <2>4 DEF f, g
<1>7. CASE pending[t].owner = "Worker"
  <2>1. PICK sends \in CanSend(h) : Become(IF sends THEN Send(h, m) ELSE h)
    BY <1>1, <1>7
  <2>2. CASE sends
    BY <2>1, <2>2, <1>4, <1>5, HandlerTells
  <2>3. CASE ~sends
    BY <2>1, <2>3, <1>4, <1>5, HandlerTells
  <2> QED BY <2>2, <2>3
<1>8. CASE pending[t].owner # "Worker"
  BY <1>1, <1>8, <1>4, <1>5, <1>6, HandlerTells
<1> QED BY <1>7, <1>8

(* A reply of the worker goes to the request it names.                     *)
LEMMA MessageTells ==
    ASSUME McpInv, WorkerMessage
    PROVE  ReplyStep
<1> DEFINE m == Head(output)
           c == m.ckpt
           h == [Host EXCEPT !.ckpt = c]
           k == Complete(h, m.ticket, m.reply)
<1>1. Become(StartQueued(k))
  BY DEF WorkerMessage
<1>2. IsHost(h) /\ h.pending = pending /\ h.answers = answers
  <2>1. IsHost(Host)
    BY HostNow
  <2> HIDE DEF c
  <2> QED BY <2>1, OtherCheckpoint, HostNow
<1> HIDE DEF h
<1>3. Heirs(h)
  BY <1>2, OwnHeirs
<1>4. Tells(h, k)
  BY <1>2, CompleteTells DEF Complete
<1> HIDE DEF k
<1>5. Tells(h, StartQueued(k))
  BY <1>4, StartTells, TellsTwice DEF Tells
<1> QED BY <1>1, <1>3, <1>5, HandlerTells

(* The requests of a lost worker are answered once.                        *)
LEMMA LostTells ==
    ASSUME McpInv, WorkerLost
    PROVE  ReplyStep
<1> DEFINE w == [worker EXCEPT !.running = FALSE]
           h == [Host EXCEPT !.worker = w]
           k == InterruptWorkerRequests(h)
<1>1. Become(StartQueued(k))
  <2>1. [Host EXCEPT !.worker.running = FALSE] = h
    BY HostNow
  <2> QED BY <2>1 DEF WorkerLost
<1>2. IsHost(h) /\ h.pending = pending /\ h.answers = answers
  <2>1. IsHost(Host) /\ Host.pending = pending /\ Host.answers = answers
    BY HostNow
  <2> HIDE DEF w
  <2> QED BY <2>1 DEF IsHost
<1> HIDE DEF h
<1>3. Heirs(h)
  BY <1>2, OwnHeirs
<1>4. Tells(h, k)
  BY <1>2, CompleteTells DEF InterruptWorkerRequests
<1> HIDE DEF k
<1>5. Tells(h, StartQueued(k))
  BY <1>4, StartTells, TellsTwice DEF Tells
<1> QED BY <1>1, <1>3, <1>5, HandlerTells

(* A management event answers its caller, those who asked for the restart  *)
(* and those whose worker was replaced.                                    *)
LEMMA ManagementTells ==
    ASSUME McpInv, ManagementMessage
    PROVE  ReplyStep
<1> DEFINE m == Head(events)
           w == [running |-> TRUE, alive |-> TRUE, build |-> m.install]
           q == NextInput(m)
           f == [Host EXCEPT !.worker = w, !.input = q]
           h == IF m.install = 0 THEN Host ELSE InterruptWorkerRequests(f)
           k == Answering(h, m)
<1>1. Become(StartQueued(k))
  BY DEF ManagementMessage, Answering
<1>2. IsHost(Host) /\ Tells(Host, Host) /\ Heirs(Host)
  BY HostNow, TellsNobody, OwnHeirs
<1>3. Tells(Host, f)
  <2>1. IsHost(f) /\ f.pending = Host.pending /\ f.answers = Host.answers
    <3>1. DOMAIN Host = Fields
      BY <1>2, HostFields
    <3> HIDE DEF w, q
    <3>2. DOMAIN f = DOMAIN Host /\ f = [c \in DOMAIN f |-> f[c]]
      OBVIOUS
    <3>3. f.pending = Host.pending /\ f.answers = Host.answers
      BY <3>1 DEF Fields
    <3> HIDE DEF f
    <3> QED BY <3>1, <3>2, <3>3, FieldsHost
  <2> HIDE DEF f
  <2> QED BY <2>1, TellsNobody
<1> HIDE DEF f
<1>4. Tells(Host, h)
  <2>1. Tells(f, InterruptWorkerRequests(f))
    BY <1>3, CompleteTells DEF InterruptWorkerRequests, Tells
  <2> QED BY <1>2, <1>3, <2>1, TellsTwice
<1> HIDE DEF h, m
<1>5. Tells(h, k)
  <2> DEFINE g == CompleteAll(h, h.flight.requesters, Always("ok"))
  <2>1. IsHost(h) /\ Tells(h, g)
    BY <1>4, CompleteTells DEF Tells
  <2>2. IsHost(g)
    BY <2>1 DEF Tells
  <2> HIDE DEF g
  <2>3. ASSUME NEW fl PROVE Tells(h, [g EXCEPT !.flight = fl])
    <3> DEFINE z == [g EXCEPT !.flight = fl]
    <3>1. IsHost(z) /\ z.pending = g.pending /\ z.answers = g.answers
      BY <2>2, OtherFlight
    <3> HIDE DEF z
    <3>2. Tells(h, z)
      BY <2>1, <3>1, TellsNobody, TellsTwice
    <3> QED BY <3>2 DEF z
  <2>4. Tells(h, Complete(h, m.ticket, "ok"))
    BY <2>1, CompleteTells DEF Complete
  <2> QED BY <2>3, <2>4 DEF Answering, g
<1> HIDE DEF k
<1>6. Tells(Host, StartQueued(k))
  <2>1. Tells(k, StartQueued(k))
    BY <1>5, StartTells DEF Tells
  <2> QED BY <1>4, <1>5, <2>1, TellsTwice
<1> QED BY <1>1, <1>2, <1>6, HandlerTells

(* A reply goes to the request that was made last under its identifier:    *)
(* one that reuses the identifier of a cancelled request does not collect  *)
(* the old answer (worker.rs:17, supervisor.rs, cancel and complete).      *)
THEOREM McpRepliesAreCurrent == McpSpec => NoStaleReply
<1>1. McpInv /\ [McpNext]_mcpVars => [ReplyStep]_mcpVars
  <2> SUFFICES ASSUME McpInv, McpNext PROVE ReplyStep
    OBVIOUS
  <2>1. ASSUME NEW i \in Ids, NEW r \in menu, Incoming(i, r) PROVE ReplyStep
    BY <2>1, IncomingTells
  <2>2. ASSUME NEW i \in Ids, Cancel(i) PROVE ReplyStep
    BY <2>2, CancelTells
  <2>3. CASE WorkerDispatch
    BY <2>3, NoReply DEF WorkerDispatch, hostVars
  <2>4. CASE WorkerCancel
    BY <2>4, NoReply DEF WorkerCancel, hostVars
  <2>5. ASSUME NEW t \in 1..MaxTicket, WorkerWaitEnds(t) PROVE ReplyStep
    BY <2>5, NoReply DEF WorkerWaitEnds, hostVars
  <2>6. CASE ConnectionCloses
    BY <2>6, NoReply DEF ConnectionCloses, hostVars
  <2>7. CASE WorkerDies
    BY <2>7, NoReply DEF WorkerDies
  <2>8. CASE OldWorkerRuns
    BY <2>8, NoReply DEF OldWorkerRuns, hostVars
  <2>9. CASE WorkerMessage
    BY <2>9, MessageTells
  <2>10. CASE WorkerLost
    BY <2>10, LostTells
  <2>11. CASE ManagementMessage
    BY <2>11, ManagementTells
  <2>12. CASE ActivationStep
    BY <2>12, NoReply DEF ActivationStep, PrepareReplacement, Activate, Monitor, hostVars
  <2>13. CASE StatusCall
    BY <2>13, NoReply DEF StatusCall, hostVars
  <2>14. CASE HostEnds
    <3>1. DOMAIN answers' = {}
      BY <2>14 DEF HostEnds
    <3> QED BY <3>1 DEF ReplyStep
  <2> QED BY <2>1, <2>2, <2>3, <2>4, <2>5, <2>6, <2>7, <2>8, <2>9, <2>10, <2>11, <2>12, <2>13,
             <2>14 DEF McpNext
<1> QED BY <1>1, McpInvariant, PTL DEF McpSpec, NoStaleReply

=============================================================================
