----------------------------- MODULE EventFeed -----------------------------
(***************************************************************************)
(* The daemon's event feed: the single writer thread appends events to the *)
(* log and then broadcasts them; every connection runs a tail that         *)
(* forwards broadcasts through per-scope watermarks, and a Subscribe       *)
(* request replays the log under the lock the tail needs to deliver.       *)
(*                                                                         *)
(* crates/nitsd/src/daemon.rs (write, subscribe, matches),                 *)
(* crates/nitsd/src/connection.rs (serve_framed, event_tail, deliver_live, *)
(* subscribe), crates/nits-review-core/src/store/mod.rs (append,           *)
(* events_after, last_seq).                                                *)
(*                                                                         *)
(* An event is its position in the log (its `seq`, from 1); what the feed  *)
(* tells apart about it is its topic: whether it matches a scope.          *)
(***************************************************************************)
EXTENDS Naturals, Sequences

CONSTANTS
  Conns,          \* connections a client may hold to the daemon
  Scopes,         \* SubscribeScope values
  Topics,         \* what an event is about: review, workspace, recipient
  Matches,        \* Matches[s]: the topics SubscribeScope::matches accepts
  Backlog,        \* EVENT_BACKLOG, the capacity of the broadcast channel
  MaxLog,         \* bound on the log, for model checking only
  MaxReplays,     \* bound on subscribe requests per connection
  FutureCursors   \* may a client resume from a cursor past the log's end?

ASSUME FeedAssumption ==
  /\ Matches \in [Scopes -> SUBSET Topics]
  /\ Backlog \in Nat \ {0}
  /\ MaxLog \in Nat
  /\ MaxReplays \in Nat
  /\ FutureCursors \in BOOLEAN

VARIABLES
  log,        \* the durable event log: log[n] is the topic of event n
  published,  \* events the writer thread has put on the broadcast channel
  writer,     \* what the writer thread is doing
  open,       \* connections past their handshake
  tail,       \* per connection: the last broadcast its receiver has taken
  held,       \* a broadcast taken by the tail and not delivered yet, or 0
  active,     \* the keys of Subscriptions::scopes
  delivered,  \* the watermark of each active scope
  replay,     \* the Subscribe request that holds the subscription lock
  at,         \* the next event that request looks at
  outbox,     \* everything queued for the peer on this connection, in order
  start,      \* where the last Subscribe of a scope asked to start from
  mark,       \* length of the outbox when that Subscribe read the log
  replays     \* Subscribe requests made on the connection so far

feedVars == <<log, published, writer, open, tail, held, active, delivered,
              replay, at, outbox, start, mark, replays>>

connVars == <<open, tail, held, active, delivered, replay, at, outbox, start,
              mark, replays>>
-----------------------------------------------------------------------------
(***************************************************************************)
(* Messages and requests.                                                  *)
(***************************************************************************)
EventMsg(n) == [kind |-> "event", seq |-> n]
Subscribed(s, n) == [kind |-> "subscribed", scope |-> s, seq |-> n]
SeqTooOld(n) == [kind |-> "seqTooOld", seq |-> n]

\* Since::Now carries no cursor; every other request resumes after one.
Now == [now |-> TRUE, after |-> 0]
After(n) == [now |-> FALSE, after |-> n]

NoReplay == [on |-> FALSE]

LastSeq == Len(log)

\* Daemon::matches for the event at a position of the log.
MatchesAt(s, n) == log[n] \in Matches[s]

MaxOf2(a, b) == IF a >= b THEN a ELSE b

Init ==
  /\ log = <<>>
  /\ published = 0
  /\ writer = "idle"
  /\ open = {}
  /\ tail = [c \in Conns |-> 0]
  /\ held = [c \in Conns |-> 0]
  /\ active = [c \in Conns |-> {}]
  /\ delivered = [c \in Conns |-> [s \in Scopes |-> 0]]
  /\ replay = [c \in Conns |-> NoReplay]
  /\ at = [c \in Conns |-> 0]
  /\ outbox = [c \in Conns |-> <<>>]
  /\ start = [c \in Conns |-> [s \in Scopes |-> 0]]
  /\ mark = [c \in Conns |-> [s \in Scopes |-> 0]]
  /\ replays = [c \in Conns |-> 0]
-----------------------------------------------------------------------------
(***************************************************************************)
(* The writer thread. A job commits one or more events, each in its own    *)
(* transaction, and broadcasts them in commit order when it has finished;  *)
(* readers may see the committed events before they are broadcast.         *)
(***************************************************************************)
Append1(t) ==
  /\ writer \in {"idle", "applying"}
  /\ Len(log) < MaxLog
  /\ log' = Append(log, t)
  /\ writer' = "applying"
  /\ UNCHANGED <<published, connVars>>

Publish ==
  /\ writer \in {"applying", "publishing"}
  /\ published < Len(log)
  /\ published' = published + 1
  /\ writer' = IF published + 1 = Len(log) THEN "idle" ELSE "publishing"
  /\ UNCHANGED <<log, connVars>>
-----------------------------------------------------------------------------
(***************************************************************************)
(* Connections.                                                            *)
(***************************************************************************)

\* serve_framed: the broadcast receiver exists before any request is read.
Connect(c) ==
  /\ c \notin open
  /\ open' = open \cup {c}
  /\ tail' = [tail EXCEPT ![c] = published]
  /\ UNCHANGED <<log, published, writer, held, active, delivered, replay, at,
                 outbox, start, mark, replays>>

\* The serving future is dropped: its receiver, its subscriptions, the lock
\* and whatever was queued for the peer go with it.
Disconnect(c) ==
  /\ c \in open
  /\ open' = open \ {c}
  /\ tail' = [tail EXCEPT ![c] = 0]
  /\ held' = [held EXCEPT ![c] = 0]
  /\ active' = [active EXCEPT ![c] = {}]
  /\ delivered' = [delivered EXCEPT ![c] = [s \in Scopes |-> 0]]
  /\ replay' = [replay EXCEPT ![c] = NoReplay]
  /\ at' = [at EXCEPT ![c] = 0]
  /\ outbox' = [outbox EXCEPT ![c] = <<>>]
  /\ start' = [start EXCEPT ![c] = [s \in Scopes |-> 0]]
  /\ mark' = [mark EXCEPT ![c] = [s \in Scopes |-> 0]]
  /\ replays' = [replays EXCEPT ![c] = 0]
  /\ UNCHANGED <<log, published, writer>>

(***************************************************************************)
(* event_tail takes the next broadcast. A receiver more than Backlog       *)
(* behind has lost the oldest ones: it is moved to the oldest retained     *)
(* event and the peer is told the log's end.                               *)
(***************************************************************************)
TailReceive(c) ==
  /\ c \in open
  /\ held[c] = 0
  /\ tail[c] < published
  /\ published - tail[c] <= Backlog
  /\ tail' = [tail EXCEPT ![c] = @ + 1]
  /\ held' = [held EXCEPT ![c] = tail[c] + 1]
  /\ UNCHANGED <<log, published, writer, open, active, delivered, replay, at,
                 outbox, start, mark, replays>>

\* Mutant: the receiver is moved and nobody is told.
TailLaggedSilently(c) ==
  /\ c \in open
  /\ held[c] = 0
  /\ published - tail[c] > Backlog
  /\ tail' = [tail EXCEPT ![c] = published - Backlog]
  /\ UNCHANGED <<log, published, writer, open, held, active, delivered,
                 replay, at, outbox, start, mark, replays>>

TailLagged(c) ==
  /\ c \in open
  /\ held[c] = 0
  /\ published - tail[c] > Backlog
  /\ tail' = [tail EXCEPT ![c] = published - Backlog]
  /\ outbox' = [outbox EXCEPT ![c] = Append(@, SeqTooOld(LastSeq))]
  /\ UNCHANGED <<log, published, writer, open, held, active, delivered,
                 replay, at, start, mark, replays>>

\* The scopes a live event is still owed to.
Owed(c, n) ==
  {s \in active[c] : n > delivered[c][s] /\ MatchesAt(s, n)}

(***************************************************************************)
(* deliver_live, under the subscription lock: every matching scope behind  *)
(* the event moves to it, and the event is sent once if there was one.     *)
(***************************************************************************)
DeliverLive(c) ==
  /\ c \in open
  /\ held[c] # 0
  /\ ~replay[c].on
  /\ delivered' = [delivered EXCEPT ![c] = [s \in Scopes |->
                     IF s \in Owed(c, held[c]) THEN held[c] ELSE @[s]]]
  /\ outbox' = IF Owed(c, held[c]) # {}
               THEN [outbox EXCEPT ![c] = Append(@, EventMsg(held[c]))]
               ELSE outbox
  /\ held' = [held EXCEPT ![c] = 0]
  /\ UNCHANGED <<log, published, writer, open, tail, active, replay, at,
                 start, mark, replays>>

(***************************************************************************)
(* subscribe. It keeps the lock from the moment it picks the position to   *)
(* replay from until it has set the watermarks. `from` is the smaller of   *)
(* the requested cursor and the watermarks of the other active scopes; a   *)
(* request for Now with no other scope reads the log only for its end.     *)
(* The read is one store transaction, so `upto` is the log's end then. A   *)
(* read that is refused or fails releases the lock and changes nothing.    *)
(***************************************************************************)
Others(c, s) == active[c] \ {s}

\* The positions that bound the replay; it starts from the smallest.
ReplayCursors(c, s, since) ==
  LET named == {delivered[c][o] : o \in Others(c, s)}
                 \cup (IF since.now THEN {} ELSE {since.after})
  IN  IF named = {} THEN {LastSeq} ELSE named

\* The cursors a client can present.
Sinces == {Now} \cup
  {After(n) : n \in 0 .. (IF FutureCursors THEN MaxLog ELSE LastSeq)}

SubscribeBegin(c, s, since) ==
  /\ c \in open
  /\ ~replay[c].on
  /\ replays[c] < MaxReplays
  /\ \E from \in ReplayCursors(c, s, since) :
       /\ \A cursor \in ReplayCursors(c, s, since) : from <= cursor
       /\ replay' = [replay EXCEPT ![c] =
                      [on |-> TRUE, scope |-> s, since |-> since,
                       upto |-> LastSeq, head |-> MaxOf2(from, LastSeq),
                       mark |-> Len(outbox[c])]]
       /\ at' = [at EXCEPT ![c] = from + 1]
  /\ replays' = [replays EXCEPT ![c] = @ + 1]
  /\ UNCHANGED <<log, published, writer, open, tail, held, active,
                 delivered, outbox, start, mark>>

\* One turn of the replay loop: an event goes out if the request asked for
\* it or another active scope has not had it yet.
Requested(r, n) ==
  ~r.since.now /\ n > r.since.after /\ MatchesAt(r.scope, n)

\* Mutant: a replay sends only what its own scope asked for.
PendingIgnored(c, r, n) == FALSE

Pending(c, r, n) ==
  \E o \in Others(c, r.scope) : n > delivered[c][o] /\ MatchesAt(o, n)

ReplayOne(c) ==
  LET r == replay[c] IN
  /\ c \in open
  /\ r.on
  /\ at[c] <= r.upto
  /\ outbox' = IF Requested(r, at[c]) \/ Pending(c, r, at[c])
               THEN [outbox EXCEPT ![c] = Append(@, EventMsg(at[c]))]
               ELSE outbox
  /\ at' = [at EXCEPT ![c] = @ + 1]
  /\ UNCHANGED <<log, published, writer, open, tail, held, active,
                 delivered, replay, start, mark, replays>>

\* Every active scope has caught up with the read's head.
SubscribeEnd(c) ==
  LET r == replay[c]
      requestedHead == IF r.since.now THEN r.head
                       ELSE MaxOf2(r.head, r.since.after)
  IN
  /\ c \in open
  /\ r.on
  /\ at[c] > r.upto
  /\ active' = [active EXCEPT ![c] = @ \cup {r.scope}]
  /\ delivered' = [delivered EXCEPT ![c] = [s \in Scopes |->
                     IF s = r.scope THEN requestedHead
                     ELSE IF s \in active[c] THEN MaxOf2(@[s], r.head)
                     ELSE @[s]]]
  /\ outbox' = [outbox EXCEPT ![c] =
                  Append(@, Subscribed(r.scope, requestedHead))]
  /\ replay' = [replay EXCEPT ![c] = NoReplay]
  /\ at' = [at EXCEPT ![c] = 0]
  /\ start' = [start EXCEPT ![c][r.scope] =
                 IF r.since.now THEN r.upto ELSE r.since.after]
  /\ mark' = [mark EXCEPT ![c][r.scope] = r.mark]
  /\ UNCHANGED <<log, published, writer, open, tail, held, replays>>

Unsubscribe(c, s) ==
  /\ c \in open
  /\ ~replay[c].on
  /\ s \in active[c]
  /\ active' = [active EXCEPT ![c] = @ \ {s}]
  /\ UNCHANGED <<log, published, writer, open, tail, held, delivered,
                 replay, at, outbox, start, mark, replays>>
-----------------------------------------------------------------------------
ConnNext(c) ==
  \/ Connect(c)
  \/ Disconnect(c)
  \/ TailReceive(c)
  \/ TailLagged(c)
  \/ DeliverLive(c)
  \/ \E s \in Scopes : \E since \in Sinces : SubscribeBegin(c, s, since)
  \/ ReplayOne(c)
  \/ SubscribeEnd(c)
  \/ \E s \in Scopes : Unsubscribe(c, s)

Next ==
  \/ \E t \in Topics : Append1(t)
  \/ Publish
  \/ \E c \in Conns : ConnNext(c)

Spec == Init /\ [][Next]_feedVars

(***************************************************************************)
(* The writer thread finishes the job it is running, and the connection's  *)
(* task keeps polling its tail and its requests.                           *)
(***************************************************************************)
FairSpec ==
  /\ Spec
  /\ WF_feedVars(Publish)
  /\ \A c \in Conns :
       /\ WF_feedVars(TailReceive(c))
       /\ WF_feedVars(TailLagged(c))
       /\ WF_feedVars(DeliverLive(c))
       /\ WF_feedVars(ReplayOne(c))
       /\ WF_feedVars(SubscribeEnd(c))
-----------------------------------------------------------------------------
Msgs == [kind : {"event"}, seq : Nat]
        \cup [kind : {"subscribed"}, scope : Scopes, seq : Nat]
        \cup [kind : {"seqTooOld"}, seq : Nat]

SinceType == [now : BOOLEAN, after : Nat]

ReplayRecord == [on : {TRUE}, scope : Scopes, since : SinceType,
                 upto : Nat, head : Nat, mark : Nat]

(***************************************************************************)
(* TypeOK: the shapes of the feed's state; the receiver of a connection    *)
(* never runs ahead of the broadcast channel, nor the channel of the log.  *)
(***************************************************************************)
TypeOK ==
  /\ log \in Seq(Topics)
  /\ published \in 0 .. Len(log)
  /\ writer \in {"idle", "applying", "publishing"}
  /\ open \in SUBSET Conns
  /\ tail \in [Conns -> 0 .. published]
  /\ held \in [Conns -> 0 .. published]
  /\ active \in [Conns -> SUBSET Scopes]
  /\ delivered \in [Conns -> [Scopes -> Nat]]
  /\ replay \in [Conns -> {NoReplay} \cup ReplayRecord]
  /\ at \in [Conns -> Nat]
  /\ outbox \in [Conns -> Seq(Msgs)]
  /\ start \in [Conns -> [Scopes -> Nat]]
  /\ mark \in [Conns -> [Scopes -> Nat]]
  /\ replays \in [Conns -> Nat]

\* What a queue holds past its first k messages.
SentAfter(q, k, n) == \E i \in (k + 1) .. Len(q) : q[i] = EventMsg(n)
LaggedAfter(q, k) == \E i \in (k + 1) .. Len(q) : q[i].kind = "seqTooOld"

\* Broadcasts the tail of a connection has finished with.
Processed(c) == IF held[c] = 0 THEN tail[c] ELSE held[c] - 1

(***************************************************************************)
(* NoGap: while a scope is subscribed, every matching event after the      *)
(* position its Subscribe asked for, up to where the scope's watermark or  *)
(* the connection's tail has got, was queued for the peer since that       *)
(* Subscribe, or the peer was told that it fell behind. Replays for other  *)
(* scopes move this scope's watermark too (connection.rs, subscribe), and  *)
(* events already broadcast when the replay ran are then dropped by the    *)
(* tail, so neither side may count on the other for an event it skips.     *)
(***************************************************************************)
NoGap ==
  \A c \in open : \A s \in active[c] :
    \A n \in 1 .. Len(log) :
      (/\ n > start[c][s]
       /\ n <= delivered[c][s] \/ n <= Processed(c)
       /\ MatchesAt(s, n))
      => \/ SentAfter(outbox[c], mark[c][s], n)
         \/ LaggedAfter(outbox[c], mark[c][s])

(***************************************************************************)
(* The inductive strengthening of NoGap, one connection at a time.         *)
(***************************************************************************)
HeldOK(c) == held[c] \in {0, tail[c]}

ClosedOK(c) ==
  c \notin open => held[c] = 0 /\ active[c] = {} /\ ~replay[c].on

MarksOK(c) ==
  \A s \in active[c] :
    /\ delivered[c][s] <= Len(log)
    /\ mark[c][s] <= Len(outbox[c])

\* The replay's window holds every watermark and, unless broadcasts were
\* lost meanwhile, everything the tail has finished with.
ReplayOK(c) ==
  replay[c].on =>
    /\ replay[c].upto <= Len(log)
    /\ replay[c].head = replay[c].upto
    /\ replay[c].since.after <= replay[c].upto
    /\ replay[c].mark <= Len(outbox[c])
    /\ \A s \in active[c] : delivered[c][s] <= replay[c].upto
    /\ \/ Processed(c) <= replay[c].upto
       \/ LaggedAfter(outbox[c], replay[c].mark)

\* What the replay has passed, it has sent to every scope that is owed it.
ReplaySent(c) ==
  replay[c].on =>
    \A n \in 1 .. replay[c].upto : n < at[c] =>
      /\ Requested(replay[c], n) => SentAfter(outbox[c], replay[c].mark, n)
      /\ \A o \in Others(c, replay[c].scope) :
           n > delivered[c][o] /\ MatchesAt(o, n)
             => SentAfter(outbox[c], mark[c][o], n)

Covered(c) ==
  \A s \in active[c] : \A n \in 1 .. Len(log) :
    n > start[c][s] /\ n <= delivered[c][s] /\ MatchesAt(s, n)
      => SentAfter(outbox[c], mark[c][s], n) \/ LaggedAfter(outbox[c], mark[c][s])

TailCovered(c) ==
  \A s \in active[c] : \A n \in 1 .. Len(log) :
    n > delivered[c][s] /\ n <= Processed(c) /\ MatchesAt(s, n)
      => LaggedAfter(outbox[c], mark[c][s])

(***************************************************************************)
(* FeedInv: the inductive invariant behind NoGap. A replay in progress     *)
(* accounts for everything between the old and the new watermarks of all   *)
(* scopes, and whatever the tail passes over without sending is at or      *)
(* below a watermark or was lost to the backlog.                           *)
(***************************************************************************)
ConnInv(c) ==
  /\ HeldOK(c)
  /\ ClosedOK(c)
  /\ MarksOK(c)
  /\ ReplayOK(c)
  /\ ReplaySent(c)
  /\ Covered(c)
  /\ TailCovered(c)

FeedInv == \A c \in Conns : ConnInv(c)

(***************************************************************************)
(* EventuallySent: a matching event committed after the position a scope   *)
(* was subscribed from reaches the peer's queue, unless the subscription   *)
(* or the connection ends, a new cursor skips it, or the peer is told that *)
(* it fell behind.                                                         *)
(***************************************************************************)
EventuallySent ==
  \A c \in Conns, s \in Scopes, n \in 1 .. MaxLog :
    (/\ c \in open
     /\ s \in active[c]
     /\ n <= Len(log)
     /\ n > start[c][s]
     /\ MatchesAt(s, n))
    ~> (\/ c \notin open
        \/ s \notin active[c]
        \/ n <= start[c][s]
        \/ SentAfter(outbox[c], mark[c][s], n)
        \/ LaggedAfter(outbox[c], mark[c][s]))
=============================================================================
