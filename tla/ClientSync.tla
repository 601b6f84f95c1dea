----------------------------- MODULE ClientSync -----------------------------
(***************************************************************************)
(* A client's view of the event log and of its own mutations, over the     *)
(* event feed: optimistic mutations, receipts racing their broadcast echo, *)
(* disconnects, planned daemon restarts and daemon crashes.                *)
(*                                                                         *)
(* crates/nits-client-core/src/lib.rs (transport, server, response,        *)
(* mutate_with, clear_in_flight, apply_event), connection.rs, lifecycle.rs;*)
(* crates/nits-client-host/src/lib.rs (receive, feed);                     *)
(* crates/nitsd/src/connection.rs (read_loop, handle), dispatch.rs         *)
(* (Request::Mutate), daemon.rs (write, prepare_restart).                  *)
(*                                                                         *)
(* A client holds at most one connection, named after it, and subscribes   *)
(* to everything. An event carries the mutation it came from; a mutation   *)
(* may commit a second, follow-up event.                                   *)
(***************************************************************************)
EXTENDS EventFeed, FiniteSets

CONSTANTS
  Daemon,        \* the author of events no client asked for (the watcher)
  NoSeq,         \* a client that has never been subscribed
  MaxMutations,  \* bound on mutations per client
  MaxDials,      \* bound on connections per client
  MaxQueue       \* bound on the queue the daemon's own jobs join

ASSUME SyncAssumption ==
  /\ Daemon \notin Conns
  /\ NoSeq \notin Nat
  /\ MaxMutations \in Nat

All == "all"

Seqs == 1 .. MaxMutations

\* The p-th event of a mutation, and an event of the daemon itself.
Part(c, k, p) == [by |-> c, seq |-> k, part |-> p]
SystemEvent == Part(Daemon, 0, 1)
SyncTopics == {SystemEvent} \cup
  {Part(c, k, p) : c \in Conns, k \in Seqs, p \in 1 .. 2}

\* The scope a client subscribes with accepts every event.
ASSUME AllAssumption ==
  All \in Scopes /\ SyncTopics \subseteq Matches[All]

VARIABLES
  daemon,     \* "serving", "draining" (admission closed) or "down"
  eof,        \* connections the daemon has finished writing to
  up,         \* requests sent by the client and not handled yet
  orphans,    \* mutations left unread on connections the client has lost
  jobs,       \* the writer thread's queue
  current,    \* the job the writer thread runs
  ready,      \* results waiting for their requests' futures
  state,      \* "down", "connecting", "hello" or "subscribed"
  last,       \* Connection::last_seq
  inFlight,   \* mutations sent on this connection and not answered
  pending,    \* what became of each mutation, see Delivery
  read,       \* messages of the outbox the client has handled
  dials,      \* connections made so far
  base,       \* history: where the first subscription started
  applied,    \* history: events folded into the client's view
  lagSeen     \* history: the client was sent SeqTooOld

daemonVars == <<daemon, jobs, current, orphans>>
linkVars == <<eof, up, ready>>
clientVars == <<state, last, inFlight, pending, read, dials, base, applied,
                lagSeen>>
vars == <<feedVars, daemonVars, linkVars, clientVars>>

(***************************************************************************)
(* PendingDelivery and the two ways out of the pending list. A "failed"    *)
(* mutation was answered with an error; "dropped" ones went with the       *)
(* review they belonged to.                                                *)
(***************************************************************************)
Waiting == {"awaiting", "unknown", "notAdmitted"}
Delivery == {"unused", "committed", "failed", "dropped"} \cup Waiting

NoJob == [by |-> Daemon, seq |-> 0, live |-> FALSE, events |-> 0,
          phase |-> "none"]
Job(c, k, live) == [by |-> c, seq |-> k, live |-> live, events |-> 0,
                    phase |-> "queued"]

Committed(k, n) == [kind |-> "committed", request |-> k, seq |-> n]
Failed(k) == [kind |-> "failed", request |-> k]
Restarting(k) == [kind |-> "restarting", request |-> k]
RestartInterrupted(ks) == [kind |-> "interrupted", requests |-> ks]

SubscribeRequest == 0   \* the Subscribe request among the mutations' numbers

SyncInit ==
  /\ Init
  /\ daemon = "serving"
  /\ eof = [c \in Conns |-> FALSE]
  /\ up = [c \in Conns |-> <<>>]
  /\ orphans = {}
  /\ jobs = <<>>
  /\ current = NoJob
  /\ ready = [c \in Conns |-> {}]
  /\ state = [c \in Conns |-> "down"]
  /\ last = [c \in Conns |-> NoSeq]
  /\ inFlight = [c \in Conns |-> {}]
  /\ pending = [c \in Conns |-> [k \in Seqs |-> "unused"]]
  /\ read = [c \in Conns |-> 0]
  /\ dials = [c \in Conns |-> 0]
  /\ base = [c \in Conns |-> NoSeq]
  /\ applied = [c \in Conns |-> {}]
  /\ lagSeen = [c \in Conns |-> FALSE]
-----------------------------------------------------------------------------
(***************************************************************************)
(* The connection's life. Connect issues the dial, the transport comes up  *)
(* and sends Hello, and the daemon answers Welcome, or Rejected while it   *)
(* restarts; Welcome makes the client subscribe where it left off.         *)
(***************************************************************************)
Dial(c) ==
  /\ state[c] = "down"
  /\ dials[c] < MaxDials
  /\ state' = [state EXCEPT ![c] = "connecting"]
  /\ dials' = [dials EXCEPT ![c] = @ + 1]
  /\ UNCHANGED <<feedVars, daemonVars, linkVars, last, inFlight, pending,
                 read, base, applied, lagSeen>>

Welcome(c) ==
  /\ state[c] = "connecting"
  /\ daemon = "serving"
  /\ Connect(c)
  /\ state' = [state EXCEPT ![c] = "hello"]
  /\ up' = [up EXCEPT ![c] = <<SubscribeRequest>>]
  /\ UNCHANGED <<daemonVars, eof, ready, last, inFlight, pending, read,
                 dials, base, applied, lagSeen>>

\* Nobody listens, or the daemon rejects the Hello because it is restarting.
DialFailed(c) ==
  /\ state[c] = "connecting"
  /\ daemon # "serving"
  /\ state' = [state EXCEPT ![c] = "down"]
  /\ UNCHANGED <<feedVars, daemonVars, linkVars, last, inFlight, pending,
                 read, dials, base, applied, lagSeen>>

\* Mutant: the pending list is left alone.
ClearedNothing(c) == pending[c]

\* clear_in_flight: whatever was sent and not answered has no known outcome.
Cleared(c) ==
  [k \in Seqs |-> IF pending[c][k] = "awaiting" THEN "unknown"
                                                ELSE pending[c][k]]

(***************************************************************************)
(* The transport is lost, at any moment or because the daemon closed it.   *)
(* Mutations the daemon has not read yet may still be admitted later: it   *)
(* sees the end of the stream only behind them. Jobs already queued run on *)
(* without anybody to answer.                                              *)
(***************************************************************************)
ConnectionLost(c) ==
  /\ state[c] \in {"hello", "subscribed"}
  /\ Disconnect(c)
  /\ state' = [state EXCEPT ![c] = "down"]
  /\ pending' = [pending EXCEPT ![c] = Cleared(c)]
  /\ inFlight' = [inFlight EXCEPT ![c] = {}]
  /\ read' = [read EXCEPT ![c] = 0]
  /\ orphans' = IF eof[c] THEN orphans
                ELSE orphans \cup {<<c, up[c][i]>> : i \in
                       {j \in 1 .. Len(up[c]) : up[c][j] # SubscribeRequest}}
  /\ up' = [up EXCEPT ![c] = <<>>]
  /\ eof' = [eof EXCEPT ![c] = FALSE]
  /\ ready' = [ready EXCEPT ![c] = {}]
  /\ jobs' = [i \in 1 .. Len(jobs) |->
                IF jobs[i].by = c THEN [jobs[i] EXCEPT !.live = FALSE]
                                  ELSE jobs[i]]
  /\ current' = IF current.by = c THEN [current EXCEPT !.live = FALSE]
                                  ELSE current
  /\ UNCHANGED <<daemon, last, dials, base, applied, lagSeen>>

\* A mutation is shown at once, queued and sent.
Mutate(c, k) ==
  /\ state[c] = "subscribed"
  /\ pending[c][k] = "unused"
  /\ \A j \in 1 .. (k - 1) : pending[c][j] # "unused"
  /\ pending' = [pending EXCEPT ![c][k] = "awaiting"]
  /\ inFlight' = [inFlight EXCEPT ![c] = @ \cup {k}]
  /\ up' = [up EXCEPT ![c] = Append(@, k)]
  /\ UNCHANGED <<feedVars, daemonVars, eof, ready, state, last, read, dials,
                 base, applied, lagSeen>>

\* Closing the review forgets its pending mutations.
CloseReview(c) ==
  /\ \E k \in Seqs : pending[c][k] \in Waiting
  /\ pending' = [pending EXCEPT ![c] = [k \in Seqs |->
                   IF @[k] \in Waiting THEN "dropped" ELSE @[k]]]
  /\ UNCHANGED <<feedVars, daemonVars, linkVars, state, last, inFlight, read,
                 dials, base, applied, lagSeen>>
-----------------------------------------------------------------------------
(***************************************************************************)
(* The daemon's side of the connection.                                    *)
(***************************************************************************)
Serving(c) == c \in open /\ ~eof[c] /\ daemon # "down"

\* The request futures of a connection are first polled in the order they
\* arrived.
Admit(c) ==
  /\ Serving(c)
  /\ daemon = "serving"
  /\ up[c] # <<>>
  /\ Head(up[c]) # SubscribeRequest
  /\ jobs' = Append(jobs, Job(c, Head(up[c]), TRUE))
  /\ up' = [up EXCEPT ![c] = Tail(@)]
  /\ UNCHANGED <<feedVars, daemon, current, orphans, eof, ready, clientVars>>

\* handle, or admission itself, refuses work once a restart is announced.
Refuse(c) ==
  /\ Serving(c)
  /\ daemon = "draining"
  /\ up[c] # <<>>
  /\ outbox' = [outbox EXCEPT ![c] = Append(@, Restarting(Head(up[c])))]
  /\ up' = [up EXCEPT ![c] = Tail(@)]
  /\ UNCHANGED <<log, published, writer, open, tail, held, active, delivered,
                 replay, at, start, mark, replays, daemonVars, eof, ready,
                 clientVars>>

AdmitOrphan(c, k) ==
  /\ daemon = "serving"
  /\ <<c, k>> \in orphans
  /\ jobs' = Append(jobs, Job(c, k, FALSE))
  /\ orphans' = orphans \ {<<c, k>>}
  /\ UNCHANGED <<feedVars, daemon, current, linkVars, clientVars>>

\* A reconnect resumes after the last event seen.
Cursor(c) == IF last[c] = NoSeq THEN Now ELSE After(last[c])

Subscribe(c) ==
  /\ Serving(c)
  /\ daemon = "serving"
  /\ up[c] # <<>>
  /\ Head(up[c]) = SubscribeRequest
  /\ SubscribeBegin(c, All, Cursor(c))
  /\ up' = [up EXCEPT ![c] = Tail(@)]
  /\ UNCHANGED <<daemonVars, eof, ready, clientVars>>

\* The tail and the replay of a connection, as in EventFeed.
Feed(c) ==
  /\ Serving(c)
  /\ \/ TailReceive(c)
     \/ TailLagged(c)
     \/ DeliverLive(c)
     \/ ReplayOne(c)
     \/ SubscribeEnd(c)
  /\ UNCHANGED <<daemonVars, linkVars, clientVars>>

\* A request's future wakes up with its result and queues the answer, in any
\* order among the connection's futures. The tail may or may not have queued
\* the broadcast of the same event by then.
Answer(c) ==
  /\ Serving(c)
  /\ \E r \in ready[c] :
       /\ outbox' = [outbox EXCEPT ![c] = Append(@, r)]
       /\ ready' = [ready EXCEPT ![c] = @ \ {r}]
  /\ UNCHANGED <<log, published, writer, open, tail, held, active, delivered,
                 replay, at, start, mark, replays, daemonVars, eof, up,
                 clientVars>>

(***************************************************************************)
(* Once a restart is announced read_loop waits two seconds for the         *)
(* requests it has accepted, answers the others RestartInterrupted and     *)
(* ends the connection; what is queued still goes out.                     *)
(***************************************************************************)
Unanswered(c) ==
  {jobs[i].seq : i \in {j \in 1 .. Len(jobs) : jobs[j].by = c /\ jobs[j].live}}
  \cup (IF current.by = c /\ current.live THEN {current.seq} ELSE {})
  \cup {r.request : r \in ready[c]}

Drain(c) ==
  /\ Serving(c)
  /\ daemon = "draining"
  /\ outbox' = [outbox EXCEPT ![c] =
                  Append(@, RestartInterrupted(Unanswered(c)))]
  /\ eof' = [eof EXCEPT ![c] = TRUE]
  /\ UNCHANGED <<log, published, writer, open, tail, held, active, delivered,
                 replay, at, start, mark, replays, daemonVars, up, ready,
                 clientVars>>
-----------------------------------------------------------------------------
(***************************************************************************)
(* The writer thread. A job commits events one by one, then broadcasts     *)
(* what it committed, even if it failed half-way, and only then answers    *)
(* with its first event.                                                   *)
(***************************************************************************)
SystemJob ==
  /\ daemon = "serving"
  /\ Len(jobs) < MaxQueue
  /\ Len(log) < MaxLog   \* bound: only while there is room for its event
  /\ jobs' = Append(jobs, Job(Daemon, 0, FALSE))
  /\ UNCHANGED <<feedVars, daemon, current, orphans, linkVars, clientVars>>

TakeJob ==
  /\ current = NoJob
  /\ jobs # <<>>
  /\ current' = [Head(jobs) EXCEPT !.phase = "running"]
  /\ jobs' = Tail(jobs)
  /\ UNCHANGED <<feedVars, daemon, orphans, linkVars, clientVars>>

RunJob ==
  /\ current.phase = "running"
  /\ current.events < (IF current.by = Daemon THEN 1 ELSE 2)
  /\ Append1(Part(current.by, current.seq, current.events + 1))
  /\ current' = [current EXCEPT !.events = @ + 1]
  /\ UNCHANGED <<daemon, jobs, orphans, linkVars, clientVars>>

EndJob ==
  /\ current.phase = "running"
  /\ \E outcome \in {"ok", "error"} :
       /\ outcome = "ok" => current.events > 0
       /\ current' = [current EXCEPT !.phase = outcome]
  /\ UNCHANGED <<feedVars, daemon, jobs, orphans, linkVars, clientVars>>

PublishJob ==
  /\ current.phase \in {"ok", "error"}
  /\ Publish
  /\ UNCHANGED <<daemonVars, linkVars, clientVars>>

Receipt ==
  IF current.phase = "ok"
  THEN Committed(current.seq, Len(log) - current.events + 1)
  ELSE Failed(current.seq)

FinishJob ==
  /\ current.phase \in {"ok", "error"}
  /\ published = Len(log)
  /\ current' = NoJob
  /\ ready' = IF current.live
              THEN [ready EXCEPT ![current.by] = @ \cup {Receipt}]
              ELSE ready
  /\ UNCHANGED <<feedVars, daemon, jobs, orphans, eof, up, clientVars>>
-----------------------------------------------------------------------------
(***************************************************************************)
(* Planned restart, crash and start. Admission closes first; the daemon    *)
(* exits only when every accepted job has finished, and does not wait for  *)
(* peers that do not read. A crash loses everything but the log.           *)
(***************************************************************************)
PrepareRestart ==
  /\ daemon = "serving"
  /\ daemon' = "draining"
  /\ UNCHANGED <<feedVars, jobs, current, orphans, linkVars, clientVars>>

Gone ==
  /\ daemon' = "down"
  /\ eof' = [c \in Conns |-> c \in open]
  /\ up' = [c \in Conns |-> <<>>]
  /\ ready' = [c \in Conns |-> {}]
  /\ orphans' = {}
  /\ jobs' = <<>>
  /\ current' = NoJob
  /\ UNCHANGED clientVars

Exit ==
  /\ daemon = "draining"
  /\ jobs = <<>> /\ current = NoJob
  /\ Gone
  /\ UNCHANGED feedVars

Crash ==
  /\ daemon # "down"
  /\ Gone
  /\ writer' = "idle"
  /\ published' = Len(log)
  /\ UNCHANGED <<log, connVars>>

StartDaemon ==
  /\ daemon = "down"
  /\ open = {}
  /\ daemon' = "serving"
  /\ UNCHANGED <<feedVars, jobs, current, orphans, linkVars, clientVars>>
-----------------------------------------------------------------------------
(***************************************************************************)
(* The client handles the next message. Rejected inputs are logged by the  *)
(* host and change nothing: an event at or before last_seq, an answer to   *)
(* no request, SeqTooOld under request id 0.                               *)
(***************************************************************************)
Message(c) == outbox[c][read[c] + 1]

Receiving(c, kind) ==
  /\ state[c] \in {"hello", "subscribed"}
  /\ read[c] < Len(outbox[c])
  /\ Message(c).kind = kind
  /\ read' = [read EXCEPT ![c] = @ + 1]
  /\ UNCHANGED <<feedVars, daemonVars, dials>>

\* apply_event folds event n in and retires the mutation it came from.
Applied(c, n) ==
  /\ last' = [last EXCEPT ![c] = n]
  /\ applied' = [applied EXCEPT ![c] = @ \cup {n}]
  /\ pending' = [pending EXCEPT ![c] = [k \in Seqs |->
                   IF @[k] \in Waiting /\ log[n].by = c /\ log[n].seq = k
                   THEN "committed" ELSE @[k]]]

Accepts(c, n) ==
  IF state[c] = "subscribed" THEN n > last[c]
  ELSE last[c] # NoSeq /\ n > last[c]

ReceiveEvent(c) ==
  /\ Receiving(c, "event")
  /\ IF Accepts(c, Message(c).seq)
     THEN Applied(c, Message(c).seq)
     ELSE UNCHANGED <<last, applied, pending>>
  /\ UNCHANGED <<linkVars, state, inFlight, base, lagSeen>>

\* Mutant: what has no known outcome is sent again, too.
ResendUnknown(c) == {k \in Seqs : pending[c][k] \in {"notAdmitted", "unknown"}}

\* Only a refusal before admission proves that sending again is safe.
Resend(c) == {k \in Seqs : pending[c][k] = "notAdmitted"}

InOrder(ks) ==
  [i \in 1 .. Cardinality(ks) |->
     CHOOSE k \in ks : Cardinality({j \in ks : j < k}) = i - 1]

\* last_seq after the answer to a Subscribe; events may have moved it already.
Resumed(c, n) == IF last[c] = NoSeq THEN n ELSE MaxOf2(last[c], n)

ReceiveSubscribed(c) ==
  /\ Receiving(c, "subscribed")
  /\ state' = [state EXCEPT ![c] = "subscribed"]
  /\ last' = [last EXCEPT ![c] = Resumed(c, Message(c).seq)]
  /\ base' = [base EXCEPT ![c] = IF @ = NoSeq THEN Message(c).seq ELSE @]
  /\ pending' = [pending EXCEPT ![c] = [k \in Seqs |->
                   IF k \in Resend(c) THEN "awaiting" ELSE @[k]]]
  /\ inFlight' = [inFlight EXCEPT ![c] = @ \cup Resend(c)]
  /\ up' = [up EXCEPT ![c] = IF eof[c] THEN @ ELSE @ \o InOrder(Resend(c))]
  /\ UNCHANGED <<eof, ready, applied, lagSeen>>

\* Mutant: off by one, the next event counts as seen.
EchoSeenEarly(c, n) == last[c] + 1 >= n

\* The broadcast of the event came before its receipt.
EchoSeen(c, n) == last[c] >= n

ReceiveCommitted(c) ==
  LET k == Message(c).request
      n == Message(c).seq
  IN
  /\ Receiving(c, "committed")
  /\ IF k \notin inFlight[c]
     THEN UNCHANGED <<last, applied, pending>>
     ELSE IF EchoSeen(c, n)
     THEN /\ pending' = [pending EXCEPT ![c][k] =
                           IF @ \in Waiting THEN "committed" ELSE @]
          /\ UNCHANGED <<last, applied>>
     ELSE Applied(c, n)
  /\ inFlight' = [inFlight EXCEPT ![c] = @ \ {k}]
  /\ UNCHANGED <<linkVars, state, base, lagSeen>>

\* What an error answer makes of the mutations it is about.
Settle(c, ks, outcome) ==
  /\ pending' = [pending EXCEPT ![c] = [k \in Seqs |->
                   IF k \in ks \cap inFlight[c] /\ @[k] \in Waiting
                   THEN outcome ELSE @[k]]]
  /\ inFlight' = [inFlight EXCEPT ![c] = @ \ ks]
  /\ UNCHANGED <<linkVars, state, last, base, applied, lagSeen>>

ReceiveFailed(c) ==
  Receiving(c, "failed") /\ Settle(c, {Message(c).request}, "failed")

ReceiveRestarting(c) ==
  Receiving(c, "restarting") /\ Settle(c, {Message(c).request}, "notAdmitted")

ReceiveInterrupted(c) ==
  Receiving(c, "interrupted") /\ Settle(c, Message(c).requests, "unknown")

ReceiveSeqTooOld(c) ==
  /\ Receiving(c, "seqTooOld")
  /\ lagSeen' = [lagSeen EXCEPT ![c] = TRUE]
  /\ UNCHANGED <<linkVars, state, last, inFlight, pending, base, applied>>

Receive(c) ==
  \/ ReceiveEvent(c)
  \/ ReceiveSubscribed(c)
  \/ ReceiveCommitted(c)
  \/ ReceiveFailed(c)
  \/ ReceiveRestarting(c)
  \/ ReceiveInterrupted(c)
  \/ ReceiveSeqTooOld(c)
-----------------------------------------------------------------------------
DaemonNext ==
  \/ SystemJob \/ TakeJob \/ RunJob \/ EndJob \/ PublishJob \/ FinishJob
  \/ PrepareRestart \/ Exit \/ Crash \/ StartDaemon

LinkNext(c) ==
  \/ Dial(c) \/ Welcome(c) \/ DialFailed(c) \/ ConnectionLost(c)
  \/ Admit(c) \/ Refuse(c) \/ Subscribe(c) \/ Feed(c) \/ Answer(c) \/ Drain(c)
  \/ \E k \in Seqs : AdmitOrphan(c, k)

ClientNext(c) ==
  \/ \E k \in Seqs : Mutate(c, k)
  \/ CloseReview(c)
  \/ Receive(c)

SyncNext ==
  \/ DaemonNext
  \/ \E c \in Conns : LinkNext(c) \/ ClientNext(c)

SyncSpec == SyncInit /\ [][SyncNext]_vars

(***************************************************************************)
(* A connected client keeps reading and notices the end of the stream, the *)
(* daemon keeps polling the connection's futures and its writer thread,    *)
(* and a draining connection is closed. Neither the feed nor the exit of   *)
(* the daemon need be fair: no receipt waits for them.                     *)
(***************************************************************************)
\* The steps of each are never enabled together: one task takes them in turn.
LoopStep(c) == Admit(c) \/ Drain(c)
WriterStep == TakeJob \/ EndJob \/ PublishJob \/ FinishJob
ReadStep(c) ==
  Receive(c) \/ (eof[c] /\ read[c] = Len(outbox[c]) /\ ConnectionLost(c))

SyncFairSpec ==
  /\ SyncSpec
  /\ WF_vars(WriterStep)
  /\ \A c \in Conns :
       WF_vars(LoopStep(c)) /\ WF_vars(Answer(c)) /\ WF_vars(ReadStep(c))
-----------------------------------------------------------------------------
(***************************************************************************)
(* SyncTypeOK: the shapes of the client's and the connection's state. A    *)
(* client never gets ahead of the log it follows.                          *)
(***************************************************************************)
SyncTypeOK ==
  /\ daemon \in {"serving", "draining", "down"}
  /\ eof \in [Conns -> BOOLEAN]
  /\ \A c \in Conns : \A i \in 1 .. Len(up[c]) : up[c][i] \in {0} \cup Seqs
  /\ orphans \subseteq Conns \X Seqs
  /\ state \in [Conns -> {"down", "connecting", "hello", "subscribed"}]
  /\ last \in [Conns -> {NoSeq} \cup 0 .. Len(log)]
  /\ inFlight \in [Conns -> SUBSET Seqs]
  /\ pending \in [Conns -> [Seqs -> Delivery]]
  /\ applied \in [Conns -> SUBSET (1 .. Len(log))]

\* Copies of a mutation on their way to the writer thread.
Underway(c, k) ==
  Cardinality({i \in 1 .. Len(up[c]) : up[c][i] = k})
  + (IF <<c, k>> \in orphans THEN 1 ELSE 0)
  + Cardinality({i \in 1 .. Len(jobs) : jobs[i].by = c /\ jobs[i].seq = k})
  + (IF current.by = c /\ current.seq = k THEN 1 ELSE 0)

InLog(c, k) == \E n \in 1 .. Len(log) : log[n].by = c /\ log[n].seq = k

(***************************************************************************)
(* MutationOnce: however often the connection is lost, the daemon restarts *)
(* or crashes, and requests outlive the connection they were sent on, no   *)
(* mutation is executed twice: each of its events is in the log at most    *)
(* once, and no copy is under way once a finished one has committed.       *)
(***************************************************************************)
MutationOnce ==
  \A c \in Conns, k \in Seqs :
    /\ Underway(c, k) <= 1
    /\ \A m, n \in 1 .. Len(log) :
         log[m] = log[n] /\ log[n].by = c /\ log[n].seq = k => m = n
    /\ InLog(c, k) /\ Underway(c, k) = 1 => current.by = c /\ current.seq = k

(***************************************************************************)
(* RefusedNeverRan: a mutation the client holds as NotAdmitted, and will   *)
(* send again, has no event in the log and no copy anywhere.               *)
(***************************************************************************)
RefusedNeverRan ==
  \A c \in Conns, k \in Seqs :
    pending[c][k] = "notAdmitted" => ~InLog(c, k) /\ Underway(c, k) = 0

\* A later mutation of the client was folded in from its receipt first, and
\* took last_seq over the first event of mutation k.
Overtaken(c, k) ==
  \E m \in applied[c] :
    /\ log[m].by = c /\ log[m].seq # k /\ log[m].part = 1
    /\ \E n \in 1 .. (m - 1) : log[n] = Part(c, k, 1)

(***************************************************************************)
(* CommittedShown: a mutation retired as committed is in the log and its   *)
(* first event has been folded into the client's view, whichever of the    *)
(* receipt and the broadcast came first and across reconnects, unless the  *)
(* daemon told the client that it lost broadcasts, or answered a later     *)
(* mutation first.                                                         *)
(***************************************************************************)
CommittedShown ==
  \A c \in Conns, k \in Seqs :
    pending[c][k] = "committed" =>
      /\ InLog(c, k)
      /\ \/ \E n \in applied[c] : log[n] = Part(c, k, 1)
         \/ lagSeen[c]
         \/ Overtaken(c, k)

(***************************************************************************)
(* FeedContiguous: whatever the subscription sends, replayed events, live  *)
(* ones or the answer of a reconnect, moves last_seq to its successor and  *)
(* over nothing, unless the daemon told the client that it lost            *)
(* broadcasts. Only a receipt can move it over events not applied.         *)
(***************************************************************************)
FeedContiguous ==
  [][\A c \in Conns :
       last[c] # NoSeq /\ last'[c] # last[c] =>
         \/ last'[c] = last[c] + 1
         \/ lagSeen[c]
         \/ Message(c).kind = "committed"]_vars

(***************************************************************************)
(* AppliedOnce: no event is folded into the view twice or behind a later   *)
(* one, whatever was replayed after a reconnect.                           *)
(***************************************************************************)
AppliedOnce ==
  [][\A c \in Conns : \A n \in 1 .. Len(log) :
       n \in applied'[c] \ applied[c] =>
         /\ \A m \in applied[c] : m < n
         /\ base[c] # NoSeq /\ n > base[c]]_vars

(***************************************************************************)
(* MissesNothing: every event between the first subscription and last_seq, *)
(* the position a reconnect resumes after, has been applied.               *)
(***************************************************************************)
MissesNothing ==
  \A c \in Conns :
    last[c] # NoSeq => \A n \in 1 .. Len(log) :
      n > base[c] /\ n <= last[c] => n \in applied[c]

(***************************************************************************)
(* ReceiptResolved: a mutation does not await its receipt forever; it is   *)
(* answered, or the connection ends and its outcome becomes unknown, or a  *)
(* restart refuses it.                                                     *)
(***************************************************************************)
ReceiptResolved ==
  \A c \in Conns, k \in Seqs :
    pending[c][k] = "awaiting" ~> pending[c][k] # "awaiting"
=============================================================================
