-------------------------- MODULE ClientSyncProofs --------------------------
(***************************************************************************)
(* Proofs about EventFeed and ClientSync.                                  *)
(*                                                                         *)
(* EventFeed, for every set of connections and scopes, every matching      *)
(* relation and every backlog: what a subscription delivers has no gaps.   *)
(*                                                                         *)
(* ClientSync, for every number of clients, mutations,                     *)
(* connections, restarts and crashes: a mutation runs at most once, a      *)
(* client folds in each event at most once and in order, and a mutation it *)
(* retires as committed is one it has folded in.                           *)
(*                                                                         *)
(* A copy of a mutation is in one place at a time: in the request stream   *)
(* of a connection, left over on a lost one, queued for the writer thread, *)
(* or run by it. What a client may still send has no copy and no event.    *)
(***************************************************************************)
EXTENDS ClientSync, Integers, FiniteSetTheorems, TLAPS

-----------------------------------------------------------------------------
(* EventFeed.                                                              *)

(***************************************************************************)
(* Queues only grow while a connection lives, so what was sent past a mark *)
(* stays sent past it.                                                     *)
(***************************************************************************)
LEMMA AppendKeeps ==
  ASSUME NEW q \in Seq(Msgs), NEW m \in Msgs, NEW k \in Nat, NEW n \in Nat
  PROVE  /\ Append(q, m) \in Seq(Msgs)
         /\ Len(Append(q, m)) = Len(q) + 1
         /\ SentAfter(q, k, n) => SentAfter(Append(q, m), k, n)
         /\ LaggedAfter(q, k) => LaggedAfter(Append(q, m), k)
         /\ m = EventMsg(n) /\ k <= Len(q) => SentAfter(Append(q, m), k, n)
         /\ m.kind = "seqTooOld" /\ k <= Len(q)
              => LaggedAfter(Append(q, m), k)
  BY DEF SentAfter, LaggedAfter

\* The messages a connection is sent.
LEMMA MsgTypes ==
  ASSUME NEW n \in Nat, NEW s \in Scopes
  PROVE  /\ EventMsg(n) \in Msgs
         /\ Subscribed(s, n) \in Msgs
         /\ SeqTooOld(n) \in Msgs
         /\ SeqTooOld(n).kind = "seqTooOld"
  BY DEF EventMsg, Subscribed, SeqTooOld, Msgs

-----------------------------------------------------------------------------
(***************************************************************************)
(* Type correctness.                                                       *)
(***************************************************************************)
\* A connection whose subscription lock is held has a request to replay.
LEMMA ReplayOn ==
  ASSUME TypeOK, NEW c \in Conns, replay[c].on
  PROVE  replay[c] \in ReplayRecord
<1>1. replay[c] # NoReplay
  BY DEF NoReplay
<1>2. QED
  BY <1>1 DEF TypeOK

\* The feed starts well typed.
LEMMA InitType == Init => TypeOK
  BY FeedAssumption DEF Init, TypeOK

\* Every step of the feed keeps it well typed.
LEMMA NextType == TypeOK /\ [Next]_feedVars => TypeOK'
<1> SUFFICES ASSUME TypeOK, [Next]_feedVars
             PROVE  TypeOK'
  OBVIOUS
<1> USE FeedAssumption DEF TypeOK
<1>1. ASSUME NEW t \in Topics, Append1(t)
      PROVE  TypeOK'
  BY <1>1 DEF Append1, connVars
<1>2. CASE Publish
  BY <1>2 DEF Publish, connVars
<1>3. ASSUME NEW c \in Conns, Connect(c)
      PROVE  TypeOK'
  <2>1. tail' \in [Conns -> 0 .. published'] /\ published \in 0 .. Len(log)
    BY <1>3 DEF Connect
  <2>2. held' \in [Conns -> 0 .. published'] /\ open' \in SUBSET Conns
    BY <1>3 DEF Connect
  <2>3. QED
    BY <1>3, <2>1, <2>2 DEF Connect
<1>4. ASSUME NEW c \in Conns, Disconnect(c)
      PROVE  TypeOK'
  <2>1. replay' \in [Conns -> {NoReplay} \cup ReplayRecord]
    BY <1>4 DEF Disconnect
  <2>2. delivered' \in [Conns -> [Scopes -> Nat]]
    BY <1>4 DEF Disconnect
  <2>3. start' \in [Conns -> [Scopes -> Nat]] /\ mark' \in [Conns -> [Scopes -> Nat]]
    BY <1>4 DEF Disconnect
  <2>4. outbox' \in [Conns -> Seq(Msgs)]
    BY <1>4 DEF Disconnect
  <2>5. QED
    BY <1>4, <2>1, <2>2, <2>3, <2>4 DEF Disconnect
<1>5. ASSUME NEW c \in Conns, TailReceive(c)
      PROVE  TypeOK'
  BY <1>5, SMTT(20) DEF TailReceive
<1>6. ASSUME NEW c \in Conns, TailLagged(c)
      PROVE  TypeOK'
  <2>1. Append(outbox[c], SeqTooOld(LastSeq)) \in Seq(Msgs)
    BY MsgTypes, AppendKeeps DEF LastSeq, SeqTooOld, Msgs
  <2>2. QED
    BY <1>6, <2>1, SMTT(20) DEF TailLagged
<1>7. ASSUME NEW c \in Conns, DeliverLive(c)
      PROVE  TypeOK'
  <2>1. Append(outbox[c], EventMsg(held[c])) \in Seq(Msgs)
    BY AppendKeeps DEF EventMsg, Msgs
  <2>2. outbox' \in [Conns -> Seq(Msgs)]
    BY <1>7, <2>1 DEF DeliverLive
  <2>3. delivered' \in [Conns -> [Scopes -> Nat]]
    BY <1>7 DEF DeliverLive
  <2>4. QED
    BY <1>7, <2>2, <2>3 DEF DeliverLive
<1>8. ASSUME NEW c \in Conns, NEW s \in Scopes, NEW since \in Sinces,
             SubscribeBegin(c, s, since)
      PROVE  TypeOK'
  <2>1. since \in SinceType
    <3>1. CASE since = Now
      BY <3>1 DEF SinceType, Now
    <3>2. CASE since # Now
      <4>1. PICK n \in Nat : since = After(n)
        BY <3>2 DEF Sinces, LastSeq
      <4>2. QED
        BY <4>1 DEF SinceType, After
    <3>3. QED
      BY <3>1, <3>2
  <2>2. PICK from \in ReplayCursors(c, s, since) :
          /\ at' = [at EXCEPT ![c] = from + 1]
          /\ replay' = [replay EXCEPT ![c] =
                         [on |-> TRUE, scope |-> s, since |-> since,
                          upto |-> LastSeq, head |-> MaxOf2(from, LastSeq),
                          mark |-> Len(outbox[c])]]
    BY <1>8 DEF SubscribeBegin
  <2>3. from \in Nat
    <3>1. since.after \in Nat /\ LastSeq \in Nat
      BY <2>1 DEF SinceType, LastSeq
    <3>2. {delivered[c][o] : o \in Others(c, s)} \subseteq Nat
      BY DEF Others
    <3>3. QED
      BY <3>1, <3>2 DEF ReplayCursors
  <2>4. MaxOf2(from, LastSeq) \in Nat
    BY <2>3 DEF MaxOf2, LastSeq
  <2>5. replay' \in [Conns -> {NoReplay} \cup ReplayRecord]
    <3>1. [on |-> TRUE, scope |-> s, since |-> since,
           upto |-> LastSeq, head |-> MaxOf2(from, LastSeq),
           mark |-> Len(outbox[c])] \in ReplayRecord
      BY <2>1, <2>3, <2>4 DEF ReplayRecord, LastSeq
    <3>2. QED
      BY <2>2, <3>1
  <2>6. QED
    BY <1>8, <2>2, <2>3, <2>5, SMTT(20) DEF SubscribeBegin
<1>9. ASSUME NEW c \in Conns, ReplayOne(c)
      PROVE  TypeOK'
  <2>1. Append(outbox[c], EventMsg(at[c])) \in Seq(Msgs)
    BY AppendKeeps DEF EventMsg, Msgs
  <2>2. outbox' \in [Conns -> Seq(Msgs)]
    BY <1>9, <2>1 DEF ReplayOne
  <2>3. at' \in [Conns -> Nat]
    BY <1>9 DEF ReplayOne
  <2>4. QED
    BY <1>9, <2>2, <2>3 DEF ReplayOne
<1>10. ASSUME NEW c \in Conns, SubscribeEnd(c)
       PROVE  TypeOK'
  <2> DEFINE r == replay[c]
             h == IF r.since.now THEN r.head ELSE MaxOf2(r.head, r.since.after)
  <2>1. r \in ReplayRecord
    BY <1>10, ReplayOn DEF SubscribeEnd
  <2>r. /\ r.scope \in Scopes /\ r.since.now \in BOOLEAN /\ r.since.after \in Nat
        /\ r.head \in Nat /\ r.upto \in Nat /\ r.mark \in Nat
    BY <2>1 DEF ReplayRecord, SinceType
  <2>2. h \in Nat
    BY <2>r DEF MaxOf2
  <2>3. Append(outbox[c], Subscribed(r.scope, h)) \in Seq(Msgs)
    BY <2>r, <2>2, AppendKeeps DEF Subscribed, Msgs
  <2>4. outbox' \in [Conns -> Seq(Msgs)]
    BY <1>10, <2>3 DEF SubscribeEnd
  <2>5. delivered' \in [Conns -> [Scopes -> Nat]]
    BY <1>10, <2>r, <2>2 DEF SubscribeEnd, MaxOf2
  <2>6. start' \in [Conns -> [Scopes -> Nat]] /\ mark' \in [Conns -> [Scopes -> Nat]]
    BY <1>10, <2>r DEF SubscribeEnd
  <2>7. active' \in [Conns -> SUBSET Scopes] /\ replay' \in [Conns -> {NoReplay} \cup ReplayRecord]
    BY <1>10, <2>r DEF SubscribeEnd
  <2>8. QED
    BY <1>10, <2>4, <2>5, <2>6, <2>7 DEF SubscribeEnd
<1>11. ASSUME NEW c \in Conns, NEW s \in Scopes, Unsubscribe(c, s)
       PROVE  TypeOK'
  BY <1>11 DEF Unsubscribe
<1>12. CASE UNCHANGED feedVars
  BY <1>12 DEF feedVars
<1>13. QED
  BY <1>1, <1>2, <1>3, <1>4, <1>5, <1>6, <1>7, <1>8, <1>9, <1>10, <1>11,
     <1>12 DEF Next, ConnNext

(***************************************************************************)
(* TypeCorrect: every reachable state of the feed has the shape TypeOK     *)
(* gives it, whatever the number of connections, scopes and events.        *)
(***************************************************************************)
THEOREM TypeCorrect == Spec => []TypeOK
  BY InitType, NextType, PTL DEF Spec

-----------------------------------------------------------------------------
(***************************************************************************)
(* No gap. FeedInv is a conjunction over connections and each step of the  *)
(* feed touches one of them, so a step is one lemma about the connection   *)
(* that moves and one, Frame, about the others: events only ever join the  *)
(* end of the log, beyond every watermark and every receiver.              *)
(***************************************************************************)
\* A step that leaves a connection alone.
Same(c) ==
  /\ (c \in open') = (c \in open)
  /\ tail'[c] = tail[c]
  /\ held'[c] = held[c]
  /\ active'[c] = active[c]
  /\ delivered'[c] = delivered[c]
  /\ replay'[c] = replay[c]
  /\ at'[c] = at[c]
  /\ outbox'[c] = outbox[c]
  /\ start'[c] = start[c]
  /\ mark'[c] = mark[c]

LogGrows ==
  /\ Len(log) <= Len(log')
  /\ \A n \in 1 .. Len(log) : log'[n] = log[n]

\* The types of one connection's state.
LEMMA ConnTypes ==
  ASSUME TypeOK, NEW c \in Conns
  PROVE  /\ log \in Seq(Topics) /\ Len(log) \in Nat
         /\ published \in Nat /\ published <= Len(log)
         /\ tail[c] \in Nat /\ tail[c] <= published
         /\ held[c] \in Nat /\ held[c] <= published
         /\ active[c] \subseteq Scopes
         /\ \A s \in Scopes : /\ delivered[c][s] \in Nat
                              /\ start[c][s] \in Nat
                              /\ mark[c][s] \in Nat
         /\ at[c] \in Nat
         /\ outbox[c] \in Seq(Msgs) /\ Len(outbox[c]) \in Nat
         /\ Processed(c) \in Nat /\ Processed(c) <= Len(log)
  BY DEF TypeOK, Processed

\* The fields of a replay that is on.
LEMMA ReplayTypes ==
  ASSUME TypeOK, NEW c \in Conns, replay[c].on
  PROVE  /\ replay[c].scope \in Scopes
         /\ replay[c].since.now \in BOOLEAN
         /\ replay[c].since.after \in Nat
         /\ replay[c].upto \in Nat /\ replay[c].head \in Nat
         /\ replay[c].mark \in Nat
  BY ReplayOn DEF ReplayRecord, SinceType

\* A step that leaves a connection alone, but for the log growing, keeps it.
LEMMA Frame ==
  ASSUME TypeOK, NEW c \in Conns, ConnInv(c), Same(c), LogGrows, TypeOK'
  PROVE  ConnInv(c)'
<1> USE DEF Same, LogGrows
<1>0. Len(log) \in Nat /\ Len(log') \in Nat /\ Len(log') >= Len(log)
  BY DEF TypeOK
<1>1. Processed(c)' = Processed(c)
  BY DEF Processed
<1>2. HeldOK(c)' /\ ClosedOK(c)'
  BY DEF ConnInv, HeldOK, ClosedOK
<1>3. MarksOK(c)'
  BY <1>0, ConnTypes DEF ConnInv, MarksOK
<1>4. ReplayOK(c)'
  <2>1. CASE ~replay[c].on
    BY <2>1 DEF ReplayOK
  <2>2. CASE replay[c].on
    BY <2>2, <1>0, <1>1, ReplayTypes DEF ConnInv, ReplayOK
  <2>3. QED
    BY <2>1, <2>2
<1>5. ReplaySent(c)'
  <2>1. CASE ~replay[c].on
    BY <2>1 DEF ReplaySent
  <2>2. CASE replay[c].on
    <3>1. replay[c].upto <= Len(log) /\ replay[c].upto \in Nat
      BY <2>2, ReplayTypes DEF ConnInv, ReplayOK
    <3>2. \A n \in 1 .. replay[c].upto : log'[n] = log[n]
      BY <3>1, <1>0
    <3>3. QED
      BY <2>2, <3>2 DEF ConnInv, ReplaySent, Requested, Others, MatchesAt
  <2>3. QED
    BY <2>1, <2>2
<1>6. Covered(c)'
  <2> SUFFICES ASSUME NEW s \in active[c], NEW n \in 1 .. Len(log'),
                      n > start[c][s], n <= delivered[c][s], MatchesAt(s, n)'
               PROVE  \/ SentAfter(outbox[c], mark[c][s], n)
                      \/ LaggedAfter(outbox[c], mark[c][s])
    BY DEF Covered, SentAfter, LaggedAfter
  <2>1. n \in 1 .. Len(log)
    BY <1>0, ConnTypes DEF ConnInv, MarksOK
  <2>2. QED
    BY <2>1 DEF ConnInv, Covered, MatchesAt
<1>7. TailCovered(c)'
  <2> SUFFICES ASSUME NEW s \in active[c], NEW n \in 1 .. Len(log'),
                      n > delivered[c][s], n <= Processed(c), MatchesAt(s, n)'
               PROVE  LaggedAfter(outbox[c], mark[c][s])
    BY <1>1 DEF TailCovered, LaggedAfter
  <2>1. n \in 1 .. Len(log)
    BY <1>0, ConnTypes
  <2>2. QED
    BY <2>1 DEF ConnInv, TailCovered, MatchesAt
<1>8. QED
  BY <1>2, <1>3, <1>4, <1>5, <1>6, <1>7 DEF ConnInv

\* The tail takes a broadcast: what it has finished with does not change.
LEMMA TailReceiveInv ==
  ASSUME TypeOK, TypeOK', NEW c \in Conns, ConnInv(c), TailReceive(c)
  PROVE  ConnInv(c)'
<1>1. /\ held'[c] = tail[c] + 1 /\ tail'[c] = tail[c] + 1 /\ held[c] = 0
      /\ tail[c] \in Nat /\ c \in open
  BY ConnTypes DEF TailReceive, TypeOK
<1>2. Processed(c)' = Processed(c)
  BY <1>1 DEF Processed
<1>3. UNCHANGED <<log, published, open, active, delivered, replay, at,
                  outbox, start, mark>>
  BY DEF TailReceive
<1>4. HeldOK(c)' /\ ClosedOK(c)'
  BY <1>1, <1>3 DEF HeldOK, ClosedOK
<1>5. MarksOK(c)' /\ ReplaySent(c)'
  BY <1>3 DEF ConnInv, MarksOK, ReplaySent, Requested, Others, MatchesAt,
              SentAfter
<1>6. ReplayOK(c)'
  BY <1>2, <1>3 DEF ConnInv, ReplayOK, LaggedAfter
<1>7. Covered(c)' /\ TailCovered(c)'
  BY <1>2, <1>3 DEF ConnInv, Covered, TailCovered, MatchesAt, SentAfter,
                    LaggedAfter
<1>8. QED
  BY <1>4, <1>5, <1>6, <1>7 DEF ConnInv

(***************************************************************************)
(* A message joins the queue and neither the log, the scopes, the marks    *)
(* nor the watermarks move: the parts of ConnInv about what was sent stay. *)
(***************************************************************************)
LEMMA FeedQueueGrows ==
  ASSUME TypeOK, NEW c \in Conns, ConnInv(c), NEW m \in Msgs,
         outbox'[c] \in {outbox[c], Append(outbox[c], m)}
  PROVE  /\ Len(outbox[c]) <= Len(outbox'[c])
         /\ Len(outbox'[c]) \in Nat
         /\ \A k \in Nat, n \in Nat :
              SentAfter(outbox[c], k, n) => SentAfter(outbox'[c], k, n)
         /\ \A k \in Nat :
              LaggedAfter(outbox[c], k) => LaggedAfter(outbox'[c], k)
<1>1. outbox[c] \in Seq(Msgs) /\ Len(outbox[c]) \in Nat
  BY ConnTypes
<1>2. CASE outbox'[c] = outbox[c]
  BY <1>1, <1>2
<1>3. CASE outbox'[c] = Append(outbox[c], m)
  BY <1>1, <1>3, AppendKeeps
<1>4. QED
  BY <1>2, <1>3

\* Broadcasts were lost: the notice comes after every mark.
LEMMA TailLaggedInv ==
  ASSUME TypeOK, TypeOK', NEW c \in Conns, ConnInv(c), TailLagged(c)
  PROVE  ConnInv(c)'
<1> DEFINE m == SeqTooOld(LastSeq)
<1>1. m \in Msgs /\ m.kind = "seqTooOld"
  BY ConnTypes DEF LastSeq, SeqTooOld, Msgs
<1>2. outbox'[c] = Append(outbox[c], m) /\ held[c] = 0 /\ c \in open
  BY DEF TailLagged, TypeOK
<1>3. UNCHANGED <<log, published, held, open, active, delivered, replay, at,
                  start, mark>>
  BY DEF TailLagged
<1> HIDE DEF m
<1>4. \A k \in Nat : k <= Len(outbox[c]) => LaggedAfter(outbox'[c], k)
  BY <1>1, <1>2, AppendKeeps, ConnTypes
<1>5. /\ Len(outbox[c]) <= Len(outbox'[c])
      /\ Len(outbox[c]) \in Nat /\ Len(outbox'[c]) \in Nat
      /\ \A k \in Nat, n \in Nat :
           SentAfter(outbox[c], k, n) => SentAfter(outbox'[c], k, n)
  BY <1>1, <1>2, FeedQueueGrows, ConnTypes
<1>6. HeldOK(c)' /\ ClosedOK(c)'
  BY <1>2, <1>3 DEF HeldOK, ClosedOK
<1>7. MarksOK(c)'
  BY <1>3, <1>5, ConnTypes DEF ConnInv, MarksOK
<1>8. ReplayOK(c)' /\ ReplaySent(c)'
  <2>1. CASE ~replay[c].on
    BY <2>1, <1>3 DEF ReplayOK, ReplaySent
  <2>2. CASE replay[c].on
    <3>1. replay[c].mark \in Nat /\ replay[c].mark <= Len(outbox[c])
          /\ replay[c].upto \in Nat
      BY <2>2, ReplayTypes DEF ConnInv, ReplayOK
    <3>2. LaggedAfter(outbox'[c], replay[c].mark)
      BY <3>1, <1>4
    <3>3. replay[c].mark <= Len(outbox'[c])
      BY <3>1, <1>5
    <3>4. ReplayOK(c)'
      BY <3>2, <3>3, <1>3 DEF ConnInv, ReplayOK
    <3>5. \A o \in Others(c, replay[c].scope) : mark[c][o] \in Nat
      BY ConnTypes DEF Others
    <3>6. ReplaySent(c)'
      BY <3>1, <3>5, <1>5, <1>3, <2>2
      DEF ConnInv, ReplaySent, Requested, Others, MatchesAt
    <3>7. QED
      BY <3>4, <3>6
  <2>3. QED
    BY <2>1, <2>2
<1>9. \A s \in active[c] : LaggedAfter(outbox'[c], mark[c][s])
  BY <1>4, ConnTypes DEF ConnInv, MarksOK
<1>10. Covered(c)' /\ TailCovered(c)'
  BY <1>9, <1>3 DEF Covered, TailCovered
<1>11. QED
  BY <1>6, <1>7, <1>8, <1>10 DEF ConnInv

(***************************************************************************)
(* A live event: it is sent if a scope is owed it, and the scopes whose    *)
(* watermark jumps to it had lost whatever lies between.                   *)
(***************************************************************************)
LEMMA DeliverLiveInv ==
  ASSUME TypeOK, TypeOK', NEW c \in Conns, ConnInv(c), DeliverLive(c)
  PROVE  ConnInv(c)'
<1> DEFINE h == held[c]
           m == EventMsg(h)
<1>1. /\ h \in Nat /\ h # 0 /\ h = tail[c] /\ h <= Len(log) /\ Len(log) \in Nat
      /\ c \in open /\ ~replay[c].on /\ held'[c] = 0
      /\ Processed(c) = h - 1 /\ Processed(c)' = h
  BY ConnTypes DEF DeliverLive, ConnInv, HeldOK, Processed, TypeOK
<1>2. m \in Msgs
  BY <1>1 DEF EventMsg, Msgs
<1>3. UNCHANGED <<log, published, tail, open, active, replay, at, start, mark>>
  BY DEF DeliverLive
<1>4. \A s \in Scopes :
        delivered'[c][s] = IF s \in Owed(c, h) THEN h ELSE delivered[c][s]
  BY DEF DeliverLive, TypeOK
<1>5. /\ outbox'[c] \in {outbox[c], Append(outbox[c], m)}
      /\ Owed(c, h) # {} => outbox'[c] = Append(outbox[c], m)
  BY DEF DeliverLive, TypeOK
<1>6. /\ Len(outbox[c]) <= Len(outbox'[c])
      /\ Len(outbox[c]) \in Nat /\ Len(outbox'[c]) \in Nat
      /\ \A k \in Nat, n \in Nat :
           SentAfter(outbox[c], k, n) => SentAfter(outbox'[c], k, n)
      /\ \A k \in Nat :
           LaggedAfter(outbox[c], k) => LaggedAfter(outbox'[c], k)
  BY <1>2, <1>5, FeedQueueGrows, ConnTypes
<1>7. ASSUME NEW s \in Owed(c, h)
      PROVE  SentAfter(outbox'[c], mark[c][s], h)
  <2>1. s \in active[c] /\ mark[c][s] \in Nat /\ mark[c][s] <= Len(outbox[c])
    BY ConnTypes DEF Owed, ConnInv, MarksOK
  <2>2. outbox'[c] = Append(outbox[c], m) /\ outbox[c] \in Seq(Msgs)
    BY <1>5, ConnTypes
  <2>3. SentAfter(Append(outbox[c], m), mark[c][s], h)
    BY <2>1, <2>2, <1>1, <1>2, AppendKeeps
  <2>4. QED
    BY <2>2, <2>3
<1>8. \A s \in active[c] :
        /\ s \in Scopes /\ mark[c][s] \in Nat /\ delivered[c][s] \in Nat
        /\ delivered'[c][s] \in Nat /\ start[c][s] \in Nat
        /\ delivered[c][s] <= delivered'[c][s]
        /\ s \in Owed(c, h) <=> (h > delivered[c][s] /\ MatchesAt(s, h))
  BY <1>1, <1>4, ConnTypes DEF Owed
<1> HIDE DEF m
<1>9. HeldOK(c)' /\ ClosedOK(c)' /\ ReplayOK(c)' /\ ReplaySent(c)'
  BY <1>1, <1>3 DEF HeldOK, ClosedOK, ReplayOK, ReplaySent
<1>10. MarksOK(c)'
  BY <1>1, <1>3, <1>4, <1>6, <1>8 DEF ConnInv, MarksOK
<1>11. Covered(c)'
  <2> SUFFICES ASSUME NEW s \in active[c], NEW n \in 1 .. Len(log),
                      n > start[c][s], n <= delivered'[c][s], MatchesAt(s, n)
               PROVE  \/ SentAfter(outbox'[c], mark[c][s], n)
                      \/ LaggedAfter(outbox'[c], mark[c][s])
    BY <1>3 DEF Covered, MatchesAt
  <2>1. CASE n <= delivered[c][s]
    BY <2>1, <1>6, <1>8 DEF ConnInv, Covered
  <2>2. CASE n > delivered[c][s] /\ n = h
    BY <2>2, <1>7, <1>8
  <2>3. CASE n > delivered[c][s] /\ n # h
    <3>1. n <= Processed(c)
      BY <2>3, <1>1, <1>4, <1>8
    <3>2. QED
      BY <2>3, <3>1, <1>6, <1>8 DEF ConnInv, TailCovered
  <2>4. QED
    BY <2>1, <2>2, <2>3, <1>8
<1>12. TailCovered(c)'
  <2> SUFFICES ASSUME NEW s \in active[c], NEW n \in 1 .. Len(log),
                      n > delivered'[c][s], n <= h, MatchesAt(s, n)
               PROVE  LaggedAfter(outbox'[c], mark[c][s])
    BY <1>1, <1>3 DEF TailCovered, MatchesAt
  <2>1. n # h /\ n > delivered[c][s]
    BY <1>1, <1>4, <1>8
  <2>2. QED
    BY <2>1, <1>1, <1>6, <1>8 DEF ConnInv, TailCovered
<1>13. QED
  BY <1>9, <1>10, <1>11, <1>12 DEF ConnInv

(***************************************************************************)
(* A Subscribe takes the lock: no cursor is past the end of the log, and   *)
(* the replay starts at or before every other watermark and its own cursor.*)
(***************************************************************************)
LEMMA SubscribeBeginInv ==
  ASSUME TypeOK, TypeOK', NEW c \in Conns, ConnInv(c), ~FutureCursors,
         NEW s \in Scopes, NEW since \in Sinces, SubscribeBegin(c, s, since)
  PROVE  ConnInv(c)'
<1>1. /\ since.now \in BOOLEAN /\ since.after \in Nat
      /\ since.after <= Len(log) /\ Len(log) \in Nat
  <2>1. CASE since = Now
    BY <2>1, ConnTypes DEF Now
  <2>2. CASE since # Now
    <3>1. PICK n \in 0 .. Len(log) : since = After(n)
      BY <2>2 DEF Sinces, LastSeq
    <3>2. QED
      BY <3>1, ConnTypes DEF After
  <2>3. QED
    BY <2>1, <2>2
<1>2. PICK from \in ReplayCursors(c, s, since) :
        /\ \A cursor \in ReplayCursors(c, s, since) : from <= cursor
        /\ at' = [at EXCEPT ![c] = from + 1]
        /\ replay' = [replay EXCEPT ![c] =
                       [on |-> TRUE, scope |-> s, since |-> since,
                        upto |-> LastSeq, head |-> MaxOf2(from, LastSeq),
                        mark |-> Len(outbox[c])]]
  BY DEF SubscribeBegin
<1>3. from \in Nat /\ from <= Len(log)
  <2>1. \A o \in Others(c, s) :
          delivered[c][o] \in Nat /\ delivered[c][o] <= Len(log)
    BY ConnTypes DEF Others, ConnInv, MarksOK
  <2>2. CASE from = LastSeq
    BY <2>2, <1>1 DEF LastSeq
  <2>3. CASE from # LastSeq
    <3>1. \/ from \in {delivered[c][o] : o \in Others(c, s)}
          \/ from = since.after
      BY <2>3 DEF ReplayCursors
    <3>2. QED
      BY <3>1, <2>1, <1>1
  <2>4. QED
    BY <2>2, <2>3
<1>4. UNCHANGED <<log, published, open, tail, held, active, delivered,
                  outbox, start, mark>>
  BY DEF SubscribeBegin
<1>5. /\ at'[c] = from + 1
      /\ replay'[c] = [on |-> TRUE, scope |-> s, since |-> since,
                       upto |-> LastSeq, head |-> MaxOf2(from, LastSeq),
                       mark |-> Len(outbox[c])]
  BY <1>2 DEF TypeOK
<1>6. /\ replay'[c].upto = Len(log) /\ replay'[c].head = Len(log)
      /\ replay'[c].since = since /\ replay'[c].scope = s
      /\ replay'[c].mark = Len(outbox[c])
  BY <1>3, <1>1, <1>5 DEF MaxOf2, LastSeq
<1>7. Processed(c)' = Processed(c)
  BY <1>4 DEF Processed
<1>8. HeldOK(c)' /\ ClosedOK(c)' /\ MarksOK(c)'
  BY <1>4 DEF ConnInv, HeldOK, ClosedOK, MarksOK, SubscribeBegin
<1>9. ReplayOK(c)'
  BY <1>1, <1>4, <1>6, <1>7, ConnTypes DEF ConnInv, ReplayOK, MarksOK
<1>10. ReplaySent(c)'
  <2> SUFFICES ASSUME NEW n \in 1 .. Len(log), n < from + 1
               PROVE  /\ ~(~since.now /\ n > since.after)
                      /\ \A o \in Others(c, s) : ~(n > delivered[c][o])
    BY <1>4, <1>5, <1>6 DEF ReplaySent, Requested, Others
  <2>1. n <= from
    BY <1>3
  <2>2. ~since.now => from <= since.after
    BY <1>2 DEF ReplayCursors
  <2>3. \A o \in Others(c, s) : from <= delivered[c][o]
    BY <1>2 DEF ReplayCursors
  <2>4. \A o \in Others(c, s) : delivered[c][o] \in Nat
    BY ConnTypes DEF Others
  <2>5. QED
    BY <2>1, <2>2, <2>3, <2>4, <1>1, <1>3
<1>11. Covered(c)' /\ TailCovered(c)'
  BY <1>4, <1>7 DEF ConnInv, Covered, TailCovered, MatchesAt, SentAfter,
                    LaggedAfter
<1>12. QED
  BY <1>8, <1>9, <1>10, <1>11 DEF ConnInv

\* One event of the replay: whoever is owed it gets it past its own mark.
LEMMA ReplayOneInv ==
  ASSUME TypeOK, TypeOK', NEW c \in Conns, ConnInv(c), ReplayOne(c)
  PROVE  ConnInv(c)'
<1> DEFINE r == replay[c]
           m == EventMsg(at[c])
<1>1. /\ r.on /\ c \in open /\ at[c] \in Nat /\ at'[c] = at[c] + 1
      /\ at[c] <= r.upto
  BY ConnTypes DEF ReplayOne, TypeOK
<1>2. /\ r.scope \in Scopes /\ r.upto \in Nat /\ r.mark \in Nat
      /\ r.mark <= Len(outbox[c])
  BY <1>1, ReplayTypes DEF ConnInv, ReplayOK
<1>3. UNCHANGED <<log, published, open, tail, held, active, delivered,
                  replay, start, mark>>
  BY DEF ReplayOne
<1>4. m \in Msgs
  BY <1>1 DEF EventMsg, Msgs
<1>5. /\ outbox'[c] \in {outbox[c], Append(outbox[c], m)}
      /\ Requested(r, at[c]) \/ Pending(c, r, at[c])
           => outbox'[c] = Append(outbox[c], m)
  BY DEF ReplayOne, TypeOK
<1>6. /\ Len(outbox[c]) <= Len(outbox'[c])
      /\ Len(outbox[c]) \in Nat /\ Len(outbox'[c]) \in Nat
      /\ \A k \in Nat, n \in Nat :
           SentAfter(outbox[c], k, n) => SentAfter(outbox'[c], k, n)
      /\ \A k \in Nat :
           LaggedAfter(outbox[c], k) => LaggedAfter(outbox'[c], k)
  BY <1>4, <1>5, FeedQueueGrows, ConnTypes
<1>7. ASSUME NEW k \in Nat, k <= Len(outbox[c]),
             Requested(r, at[c]) \/ Pending(c, r, at[c])
      PROVE  SentAfter(outbox'[c], k, at[c])
  <2>1. outbox'[c] = Append(outbox[c], m) /\ outbox[c] \in Seq(Msgs)
    BY <1>5, <1>7, ConnTypes
  <2>2. SentAfter(Append(outbox[c], m), k, at[c])
    BY <2>1, <1>1, <1>4, <1>7, AppendKeeps
  <2>3. QED
    BY <2>1, <2>2
<1>8. \A s \in active[c] :
        s \in Scopes /\ mark[c][s] \in Nat /\ mark[c][s] <= Len(outbox[c])
  BY ConnTypes DEF ConnInv, MarksOK
<1>9. Processed(c)' = Processed(c)
  BY <1>3 DEF Processed
<1> HIDE DEF m
<1>10. HeldOK(c)' /\ ClosedOK(c)'
  BY <1>1, <1>3 DEF ConnInv, HeldOK, ClosedOK
<1>11. MarksOK(c)'
  BY <1>3, <1>6, <1>8 DEF ConnInv, MarksOK
<1>12. ReplayOK(c)'
  BY <1>1, <1>2, <1>3, <1>6, <1>9 DEF ConnInv, ReplayOK
<1>13. ReplaySent(c)'
  <2> SUFFICES ASSUME NEW n \in 1 .. r.upto, n < at[c] + 1
               PROVE  /\ Requested(r, n) => SentAfter(outbox'[c], r.mark, n)
                      /\ \A o \in Others(c, r.scope) :
                           n > delivered[c][o] /\ MatchesAt(o, n)
                             => SentAfter(outbox'[c], mark[c][o], n)
    BY <1>1, <1>3 DEF ReplaySent, Requested, Others, MatchesAt
  <2>1. CASE n = at[c]
    BY <2>1, <1>2, <1>7, <1>8 DEF Pending, Others
  <2>2. CASE n # at[c]
    <3>1. n < at[c]
      BY <2>2, <1>1
    <3>2. QED
      BY <3>1, <1>1, <1>2, <1>6, <1>8 DEF ConnInv, ReplaySent, Others
  <2>3. QED
    BY <2>1, <2>2
<1>14. Covered(c)' /\ TailCovered(c)'
  BY <1>3, <1>6, <1>8, <1>9 DEF ConnInv, Covered, TailCovered, MatchesAt
<1>15. QED
  BY <1>10, <1>11, <1>12, <1>13, <1>14 DEF ConnInv

(***************************************************************************)
(* The replay ends: ReplaySent covers the events between the old and the   *)
(* new watermarks of the other scopes, and the requested ones of its own.  *)
(***************************************************************************)
LEMMA SubscribeEndInv ==
  ASSUME TypeOK, TypeOK', NEW c \in Conns, ConnInv(c), SubscribeEnd(c)
  PROVE  ConnInv(c)'
<1> DEFINE r == replay[c]
           h == IF r.since.now THEN r.head ELSE MaxOf2(r.head, r.since.after)
           m == Subscribed(r.scope, h)
<1>1. r.on /\ c \in open /\ at[c] \in Nat /\ at[c] > r.upto
  BY ConnTypes DEF SubscribeEnd
<1>2. /\ r.scope \in Scopes /\ r.upto \in Nat /\ r.mark \in Nat
      /\ r.since.now \in BOOLEAN /\ r.since.after \in Nat
      /\ r.head = r.upto /\ r.since.after <= r.upto
      /\ r.upto <= Len(log) /\ Len(log) \in Nat
      /\ r.mark <= Len(outbox[c])
  BY <1>1, ReplayTypes, ConnTypes DEF ConnInv, ReplayOK
<1>3. h = r.upto
  BY <1>2 DEF MaxOf2
<1>4. UNCHANGED <<log, published, open, tail, held>>
  BY DEF SubscribeEnd
<1>5. /\ active'[c] = active[c] \cup {r.scope}
      /\ outbox'[c] = Append(outbox[c], m)
      /\ replay'[c] = NoReplay
  BY DEF SubscribeEnd, TypeOK
<1>6. /\ delivered'[c][r.scope] = h
      /\ \A s \in active[c] : s # r.scope =>
           delivered'[c][s] = MaxOf2(delivered[c][s], r.upto)
  BY <1>2, ConnTypes DEF SubscribeEnd, TypeOK
<1>7. /\ start'[c][r.scope] = IF r.since.now THEN r.upto ELSE r.since.after
      /\ \A s \in Scopes : s # r.scope => start'[c][s] = start[c][s]
      /\ mark'[c][r.scope] = r.mark
      /\ \A s \in Scopes : s # r.scope => mark'[c][s] = mark[c][s]
  BY <1>2 DEF SubscribeEnd, TypeOK
<1>8. m \in Msgs
  BY <1>2, <1>3 DEF Subscribed, Msgs
<1> HIDE DEF m
<1>9. /\ Len(outbox[c]) <= Len(outbox'[c])
      /\ Len(outbox[c]) \in Nat /\ Len(outbox'[c]) \in Nat
      /\ \A k \in Nat, n \in Nat :
           SentAfter(outbox[c], k, n) => SentAfter(outbox'[c], k, n)
      /\ \A k \in Nat :
           LaggedAfter(outbox[c], k) => LaggedAfter(outbox'[c], k)
  BY <1>5, <1>8, FeedQueueGrows, ConnTypes
<1> HIDE DEF h
<1>10. \A s \in active[c] :
         /\ s \in Scopes /\ mark[c][s] \in Nat /\ mark[c][s] <= Len(outbox[c])
         /\ delivered[c][s] \in Nat /\ delivered[c][s] <= r.upto
  BY <1>1, ConnTypes DEF ConnInv, MarksOK, ReplayOK
<1>11. \A s \in active[c] : s # r.scope => delivered'[c][s] = r.upto
  BY <1>2, <1>6, <1>10 DEF MaxOf2
<1>12. Processed(c)' = Processed(c) /\ Processed(c) \in Nat
  BY <1>4, ConnTypes DEF Processed
<1>13. HeldOK(c)' /\ ClosedOK(c)'
  BY <1>1, <1>4 DEF ConnInv, HeldOK, ClosedOK
<1>14. ReplayOK(c)' /\ ReplaySent(c)'
  BY <1>5 DEF ReplayOK, ReplaySent, NoReplay
<1>15. MarksOK(c)'
  BY <1>2, <1>3, <1>4, <1>5, <1>6, <1>7, <1>9, <1>10, <1>11 DEF MarksOK
<1>16. ASSUME NEW n \in 1 .. r.upto
       PROVE  /\ Requested(r, n) => SentAfter(outbox'[c], r.mark, n)
              /\ \A o \in Others(c, r.scope) :
                   n > delivered[c][o] /\ MatchesAt(o, n)
                     => SentAfter(outbox'[c], mark[c][o], n)
  <2>1. n < at[c]
    BY <1>1, <1>2
  <2>2. QED
    BY <2>1, <1>1, <1>2, <1>9, <1>10 DEF ConnInv, ReplaySent, Others
<1>17. Covered(c)'
  <2> SUFFICES ASSUME NEW s \in active'[c], NEW n \in 1 .. Len(log),
                      n > start'[c][s], n <= delivered'[c][s], MatchesAt(s, n)
               PROVE  \/ SentAfter(outbox'[c], mark'[c][s], n)
                      \/ LaggedAfter(outbox'[c], mark'[c][s])
    BY <1>4 DEF Covered, MatchesAt
  <2>1. CASE s = r.scope
    <3>1. n <= r.upto /\ ~r.since.now /\ n > r.since.after
      BY <2>1, <1>2, <1>3, <1>6, <1>7
    <3>2. Requested(r, n)
      BY <2>1, <3>1 DEF Requested
    <3>3. QED
      BY <3>1, <3>2, <2>1, <1>2, <1>7, <1>16
  <2>2. CASE s # r.scope
    <3>1. s \in active[c] /\ s \in Others(c, r.scope) /\ n <= r.upto
          /\ start'[c][s] = start[c][s] /\ mark'[c][s] = mark[c][s]
      BY <2>2, <1>5, <1>7, <1>10, <1>11 DEF Others
    <3>2. CASE n > delivered[c][s]
      BY <3>1, <3>2, <1>2, <1>16
    <3>3. CASE ~(n > delivered[c][s])
      <4>1. n <= delivered[c][s]
        BY <3>1, <3>3, <1>10
      <4>2. QED
        BY <4>1, <3>1, <1>9, <1>10 DEF ConnInv, Covered
    <3>4. QED
      BY <3>2, <3>3
  <2>3. QED
    BY <2>1, <2>2
<1>18. TailCovered(c)'
  <2> SUFFICES ASSUME NEW s \in active'[c], NEW n \in 1 .. Len(log),
                      n > delivered'[c][s], n <= Processed(c), MatchesAt(s, n)
               PROVE  LaggedAfter(outbox'[c], mark'[c][s])
    BY <1>4, <1>12 DEF TailCovered, MatchesAt
  <2>1. CASE s = r.scope
    <3>1. ~(Processed(c) <= r.upto)
      BY <2>1, <1>2, <1>3, <1>6, <1>12
    <3>2. LaggedAfter(outbox[c], r.mark)
      BY <3>1, <1>1 DEF ConnInv, ReplayOK
    <3>3. QED
      BY <3>2, <2>1, <1>2, <1>7, <1>9
  <2>2. CASE s # r.scope
    <3>1. s \in active[c] /\ mark'[c][s] = mark[c][s] /\ n > delivered[c][s]
      BY <2>2, <1>2, <1>5, <1>7, <1>10, <1>11
    <3>2. QED
      BY <3>1, <1>9, <1>10 DEF ConnInv, TailCovered
  <2>3. QED
    BY <2>1, <2>2
<1>19. QED
  BY <1>13, <1>14, <1>15, <1>17, <1>18 DEF ConnInv

\* unsubscribe only forgets a scope.
LEMMA UnsubscribeInv ==
  ASSUME TypeOK, TypeOK', NEW c \in Conns, ConnInv(c),
         NEW s \in Scopes, Unsubscribe(c, s)
  PROVE  ConnInv(c)'
<1>1. UNCHANGED <<log, published, open, tail, held, delivered, replay, at,
                  outbox, start, mark>>
  BY DEF Unsubscribe
<1>2. /\ active'[c] = active[c] \ {s} /\ c \in open /\ ~replay[c].on
      /\ Processed(c)' = Processed(c)
  BY <1>1 DEF Unsubscribe, TypeOK, Processed
<1>3. HeldOK(c)' /\ ClosedOK(c)' /\ MarksOK(c)'
  BY <1>1, <1>2 DEF ConnInv, HeldOK, ClosedOK, MarksOK
<1>4. ReplayOK(c)' /\ ReplaySent(c)'
  BY <1>1, <1>2 DEF ReplayOK, ReplaySent
<1>5. Covered(c)' /\ TailCovered(c)'
  BY <1>1, <1>2 DEF ConnInv, Covered, TailCovered, MatchesAt, SentAfter,
                    LaggedAfter
<1>6. QED
  BY <1>3, <1>4, <1>5 DEF ConnInv

\* Connecting and disconnecting leave no scope and no replay behind.
LEMMA OpenCloseInv ==
  ASSUME TypeOK, TypeOK', NEW c \in Conns, ConnInv(c),
         Connect(c) \/ Disconnect(c)
  PROVE  ConnInv(c)'
<1>1. held'[c] = 0 /\ active'[c] = {} /\ ~replay'[c].on
  <2>1. CASE Connect(c)
    BY <2>1 DEF Connect, ConnInv, ClosedOK
  <2>2. CASE Disconnect(c)
    <3>1. held'[c] = 0 /\ active'[c] = {} /\ replay'[c] = NoReplay
      BY <2>2 DEF Disconnect, TypeOK
    <3>2. QED
      BY <3>1 DEF NoReplay
  <2>3. QED
    BY <2>1, <2>2
<1>2. QED
  BY <1>1 DEF ConnInv, HeldOK, ClosedOK, MarksOK, ReplayOK, ReplaySent,
              Covered, TailCovered

-----------------------------------------------------------------------------
\* A feed with no connection open satisfies the invariant.
LEMMA InitInv == Init => FeedInv
<1> SUFFICES ASSUME Init, NEW c \in Conns
             PROVE  ConnInv(c)
  BY DEF FeedInv
<1>1. held[c] = 0 /\ active[c] = {} /\ ~replay[c].on
  BY DEF Init, NoReplay
<1>2. QED
  BY <1>1 DEF ConnInv, HeldOK, ClosedOK, MarksOK, ReplayOK, ReplaySent,
              Covered, TailCovered

\* The log only grows, and a connection's step leaves the others alone.
LEMMA StepFrames ==
  ASSUME TypeOK, [Next]_feedVars
  PROVE  /\ LogGrows
         /\ \A c \in Conns : ~ConnNext(c) => Same(c)
<1>1. ASSUME NEW t \in Topics, Append1(t)
      PROVE  LogGrows /\ \A c \in Conns : Same(c)
  <2>1. log' = Append(log, t) /\ log \in Seq(Topics)
    BY <1>1 DEF Append1, TypeOK
  <2>2. LogGrows
    BY <2>1 DEF LogGrows
  <2>3. UNCHANGED connVars
    BY <1>1 DEF Append1
  <2>4. QED
    BY <2>2, <2>3 DEF connVars, Same
<1>2. CASE Publish
  BY <1>2 DEF Publish, connVars, Same, LogGrows, TypeOK
<1>3. CASE UNCHANGED feedVars
  BY <1>3 DEF feedVars, Same, LogGrows, TypeOK
<1>4. ASSUME NEW d \in Conns, ConnNext(d)
      PROVE  LogGrows /\ \A c \in Conns : c # d => Same(c)
  <2>0. log' = log => LogGrows
    BY DEF LogGrows, TypeOK
  <2>1. CASE Connect(d) \/ Disconnect(d)
    BY <2>0, <2>1 DEF Connect, Disconnect, Same, TypeOK
  <2>2. CASE TailReceive(d) \/ TailLagged(d)
    BY <2>0, <2>2 DEF TailReceive, TailLagged, Same, TypeOK
  <2>3. CASE DeliverLive(d)
    BY <2>0, <2>3 DEF DeliverLive, Same, TypeOK
  <2>4. ASSUME NEW s \in Scopes, NEW since \in Sinces,
               SubscribeBegin(d, s, since)
        PROVE  LogGrows /\ \A c \in Conns : c # d => Same(c)
    BY <2>0, <2>4 DEF SubscribeBegin, Same, TypeOK
  <2>5. CASE ReplayOne(d)
    BY <2>0, <2>5 DEF ReplayOne, Same, TypeOK
  <2>6. CASE SubscribeEnd(d)
    BY <2>0, <2>6 DEF SubscribeEnd, Same, TypeOK
  <2>7. ASSUME NEW s \in Scopes, Unsubscribe(d, s)
        PROVE  LogGrows /\ \A c \in Conns : c # d => Same(c)
    BY <2>0, <2>7 DEF Unsubscribe, Same, TypeOK
  <2>8. QED
    BY <1>4, <2>1, <2>2, <2>3, <2>4, <2>5, <2>6, <2>7 DEF ConnNext
<1>5. QED
  BY <1>1, <1>2, <1>3, <1>4 DEF Next

\* Every step of the feed keeps the invariant of every connection.
LEMMA NextInv ==
  ASSUME ~FutureCursors, TypeOK, TypeOK', FeedInv, [Next]_feedVars
  PROVE  FeedInv'
<1> SUFFICES ASSUME NEW c \in Conns
             PROVE  ConnInv(c)'
  BY DEF FeedInv
<1>1. ConnInv(c)
  BY DEF FeedInv
<1>2. CASE ~ConnNext(c)
  BY <1>1, <1>2, StepFrames, Frame
<1>3. CASE ConnNext(c)
  BY <1>1, <1>3, OpenCloseInv, TailReceiveInv, TailLaggedInv, DeliverLiveInv,
     SubscribeBeginInv, ReplayOneInv, SubscribeEndInv, UnsubscribeInv
  DEF ConnNext
<1>4. QED
  BY <1>2, <1>3

\* What is delivered or processed was sent, or its loss was announced.
LEMMA InvNoGap ==
  ASSUME TypeOK, FeedInv
  PROVE  NoGap
<1> SUFFICES ASSUME NEW c \in open, NEW s \in active[c],
                    NEW n \in 1 .. Len(log), n > start[c][s],
                    n <= delivered[c][s] \/ n <= Processed(c), MatchesAt(s, n)
             PROVE  \/ SentAfter(outbox[c], mark[c][s], n)
                    \/ LaggedAfter(outbox[c], mark[c][s])
  BY DEF NoGap
<1>1. c \in Conns /\ ConnInv(c)
  BY DEF TypeOK, FeedInv
<1>2. CASE n <= delivered[c][s]
  BY <1>1, <1>2 DEF ConnInv, Covered
<1>3. CASE ~(n <= delivered[c][s])
  <2>1. n > delivered[c][s]
    BY <1>1, <1>3, ConnTypes
  <2>2. QED
    BY <1>1, <1>3, <2>1 DEF ConnInv, TailCovered
<1>4. QED
  BY <1>2, <1>3

(***************************************************************************)
(* FeedInvariant: as long as no client presents a cursor past the end of   *)
(* the log, FeedInv holds in every reachable state of the feed.            *)
(***************************************************************************)
THEOREM FeedInvariant ==
  ASSUME ~FutureCursors
  PROVE  Spec => [](TypeOK /\ FeedInv)
<1>1. Init => TypeOK /\ FeedInv
  BY InitType, InitInv
<1>2. TypeOK /\ FeedInv /\ [Next]_feedVars => (TypeOK /\ FeedInv)'
  BY NextType, NextInv
<1>3. QED
  BY <1>1, <1>2, PTL DEF Spec

(***************************************************************************)
(* NoGapHolds: subscribe, deliver_live and event_tail between them never   *)
(* lose an event of a subscribed scope without telling the peer, for any   *)
(* number of connections, any overlap of scopes and any backlog, provided  *)
(* the cursors clients resume from lie in the log.                         *)
(***************************************************************************)
THEOREM NoGapHolds ==
  ASSUME ~FutureCursors
  PROVE  Spec => []NoGap
<1>1. TypeOK /\ FeedInv => NoGap
  BY InvNoGap
<1>2. QED
  BY <1>1, FeedInvariant, PTL

-----------------------------------------------------------------------------
(* ClientSync.                                                             *)

Authors == Conns \cup {Daemon}
LogEvents == [by : Authors, seq : Nat, part : Nat]
Works == [by : Authors, seq : Nat, live : BOOLEAN, events : Nat,
          phase : {"none", "queued", "running", "ok", "error"}]
Numbers == {SubscribeRequest} \cup Seqs
Answers == [kind : {"committed"}, request : Nat, seq : Int]
           \cup [kind : {"failed"}, request : Nat]
SyncMsgs ==
  Answers \cup [kind : {"event", "seqTooOld"}, seq : Nat]
  \cup [kind : {"subscribed"}, scope : {All}, seq : Nat]
  \cup [kind : {"restarting"}, request : Nat]
  \cup [kind : {"interrupted"}, requests : SUBSET Nat]
Replays == [on : {TRUE}, scope : {All}, since : SinceType,
            upto : Nat, head : Nat, mark : Nat]

\* The feed of a client that subscribes to everything.
FeedShape ==
  /\ log \in Seq(LogEvents)
  /\ published \in Nat
  /\ tail \in [Conns -> Nat]
  /\ held \in [Conns -> Nat]
  /\ at \in [Conns -> Nat]
  /\ active \in [Conns -> SUBSET {All}]
  /\ replay \in [Conns -> {NoReplay} \cup Replays]
  /\ outbox \in [Conns -> Seq(SyncMsgs)]

\* The requests on their way and the answers to them.
WorkShape ==
  /\ up \in [Conns -> Seq(Numbers)]
  /\ orphans \subseteq Conns \X Seqs
  /\ jobs \in Seq(Works)
  /\ current \in Works
  /\ ready \in [Conns -> SUBSET Answers]

ClientShape ==
  /\ state \in [Conns -> {"down", "connecting", "hello", "subscribed"}]
  /\ pending \in [Conns -> [Seqs -> Delivery]]
  /\ inFlight \in [Conns -> SUBSET Seqs]
  /\ read \in [Conns -> Nat]
  /\ last \in [Conns -> {NoSeq} \cup Nat]
  /\ base \in [Conns -> {NoSeq} \cup Nat]
  /\ applied \in [Conns -> SUBSET Nat]

\* Where a copy of mutation k of client c may be.
Sending(c, k) == \E i \in 1 .. Len(up[c]) : up[c][i] = k
Left(c, k) == <<c, k>> \in orphans
Queued(c, k) == \E i \in 1 .. Len(jobs) : jobs[i].by = c /\ jobs[i].seq = k
Runs(c, k) == current.by = c /\ current.seq = k

\* Mutation k of client c has no copy and no event.
Untouched(c, k) ==
  ~Sending(c, k) /\ ~Left(c, k) /\ ~Queued(c, k) /\ ~Runs(c, k) /\ ~InLog(c, k)

\* The i-th message for client c refuses its mutation k and is unread.
Refusal(c, k, i) ==
  /\ i \in 1 .. Len(outbox[c]) /\ i > read[c]
  /\ outbox[c][i].kind = "restarting" /\ outbox[c][i].request = k

\* A mutation occurs once in a stream of requests, and once in the queue.
SentOnce ==
  \A c \in Conns, k \in Seqs : \A i, j \in 1 .. Len(up[c]) :
    up[c][i] = k /\ up[c][j] = k => i = j
QueuedOnce ==
  \A c \in Conns, k \in Seqs : \A i, j \in 1 .. Len(jobs) :
    jobs[i].by = c /\ jobs[j].by = c /\ jobs[i].seq = k /\ jobs[j].seq = k
      => i = j

\* Its copy is in one place, and only the one that runs has events.
OnePlace ==
  \A c \in Conns, k \in Seqs :
    /\ Sending(c, k) => ~Left(c, k) /\ ~Queued(c, k) /\ ~Runs(c, k) /\ ~InLog(c, k)
    /\ Left(c, k) => ~Queued(c, k) /\ ~Runs(c, k) /\ ~InLog(c, k)
    /\ Queued(c, k) => ~Runs(c, k) /\ ~InLog(c, k)

\* Each event is in the log once; a job has written the parts it counts.
Recorded ==
  \A c \in Conns, k \in Seqs :
    /\ \A m, n \in 1 .. Len(log) :
         log[m] = log[n] /\ log[n].by = c /\ log[n].seq = k => m = n
    /\ Runs(c, k) => \A n \in 1 .. Len(log) :
         log[n].by = c /\ log[n].seq = k => log[n].part <= current.events

\* What the client may send now or after a reconnect has not been sent, or
\* what was sent is gone.
Sendable == {"unused", "notAdmitted"}
SendableUntouched ==
  \A c \in Conns, k \in Seqs :
    pending[c][k] \in Sendable => Untouched(c, k)

\* A refusal on its way is the only one, of a mutation that has gone nowhere
\* and that the client has not sent again.
RefusalsTrue ==
  \A c \in Conns, k \in Seqs : \A i \in 1 .. Len(outbox[c]) :
    Refusal(c, k, i) =>
      /\ pending[c][k] \notin Sendable
      /\ Untouched(c, k)
      /\ \A j \in 1 .. Len(outbox[c]) : Refusal(c, k, j) => i = j

\* What has been folded in lies between the first subscription and last_seq.
Followed ==
  \A c \in Conns :
    /\ state[c] = "subscribed" \/ inFlight[c] # {} => last[c] # NoSeq
    /\ last[c] = NoSeq => base[c] = NoSeq /\ applied[c] = {}
    /\ last[c] # NoSeq =>
         /\ base[c] \in Nat /\ base[c] <= last[c]
         /\ \A n \in applied[c] : base[c] < n /\ n <= last[c]

Shapes == FeedShape /\ WorkShape /\ ClientShape
Copies == SentOnce /\ QueuedOnce /\ OnePlace /\ Recorded /\ SendableUntouched /\ RefusalsTrue
SyncInv == Shapes /\ Copies /\ Followed

-----------------------------------------------------------------------------
(***************************************************************************)
(* The order in which refused mutations are sent again.                    *)
(***************************************************************************)

\* A set of mutations is a finite set of numbers.
LEMMA MutationsFinite ==
  ASSUME NEW ks \in SUBSET Seqs
  PROVE  IsFiniteSet(ks) /\ Cardinality(ks) \in Nat /\ \A i \in ks : i \in Nat
<1>1. IsFiniteSet(Seqs)
  BY SyncAssumption, FS_Interval DEF Seqs
<1>2. IsFiniteSet(ks)
  BY <1>1, FS_Subset
<1>3. \A i \in ks : i \in Nat
  BY SyncAssumption DEF Seqs
<1>4. QED
  BY <1>2, <1>3, FS_CardinalityType

\* Of two members of a set of mutations the smaller has the smaller rank.
LEMMA RankGrows ==
  ASSUME NEW ks \in SUBSET Seqs, NEW j \in ks, NEW k \in ks, j < k
  PROVE  /\ IsFiniteSet({i \in ks : i < k}) /\ IsFiniteSet({i \in ks : i < j})
         /\ Cardinality({i \in ks : i < j}) < Cardinality({i \in ks : i < k})
<1> DEFINE J == {i \in ks : i < j}
           K == {i \in ks : i < k}
<1>1. IsFiniteSet(ks) /\ \A i \in ks : i \in Nat
  BY MutationsFinite
<1>2. J \subseteq K /\ j \in K /\ j \notin J
  BY <1>1
<1>3. IsFiniteSet(K) /\ IsFiniteSet(J) /\ Cardinality(J) <= Cardinality(K) /\ (Cardinality(K) = Cardinality(J) => K = J)
  <2>1. IsFiniteSet(K)
    BY <1>1, FS_Subset
  <2>2. QED
    BY <1>2, <2>1, FS_Subset
<1>4. Cardinality(J) \in Nat /\ Cardinality(K) \in Nat
  BY <1>3, FS_CardinalityType
<1>5. QED
  BY <1>2, <1>3, <1>4

\* A rank is below the size of the set.
LEMMA RankBounded ==
  ASSUME NEW ks \in SUBSET Seqs, NEW k \in ks
  PROVE  /\ IsFiniteSet(ks) /\ Cardinality(ks) \in Nat
         /\ Cardinality({i \in ks : i < k}) \in 0 .. (Cardinality(ks) - 1)
<1> DEFINE K == {i \in ks : i < k}
<1>1. IsFiniteSet(ks) /\ \A i \in ks : i \in Nat
  BY MutationsFinite
<1>2. K \subseteq ks /\ k \notin K
  BY <1>1
<1>3. IsFiniteSet(K) /\ Cardinality(K) <= Cardinality(ks) /\ (Cardinality(ks) = Cardinality(K) => ks = K)
  BY <1>1, <1>2, FS_Subset
<1>4. Cardinality(ks) \in Nat /\ Cardinality(K) \in Nat
  BY <1>1, <1>3, FS_CardinalityType
<1>5. QED
  BY <1>1, <1>2, <1>3, <1>4

\* Every rank is taken: InOrder lists each member once.
LEMMA InOrderLists ==
  ASSUME NEW ks \in SUBSET Seqs
  PROVE  /\ InOrder(ks) \in Seq(ks)
         /\ \A i, j \in 1 .. Len(InOrder(ks)) :
              InOrder(ks)[i] = InOrder(ks)[j] => i = j
<1> DEFINE R(k) == Cardinality({i \in ks : i < k})
           N == Cardinality(ks)
           f == [k \in ks |-> R(k)]
<1>1. IsFiniteSet(ks) /\ N \in Nat
  BY MutationsFinite
<1>2. \A k \in ks : R(k) \in 0 .. (N - 1)
  BY RankBounded
<1>3. \A j, k \in ks : j < k => R(j) < R(k)
  BY RankGrows
<1>4. \A j, k \in ks : R(j) = R(k) => j = k
  <2>1. \A j, k \in ks : j \in Int /\ k \in Int /\ R(j) \in Int /\ R(k) \in Int
    BY <1>1, <1>2, SyncAssumption DEF Seqs
  <2> HIDE DEF R
  <2>2. QED
    BY <1>3, <2>1
<1>5. IsFiniteSet(0 .. (N - 1)) /\ Cardinality(0 .. (N - 1)) = N
  BY <1>1, FS_Interval, SMTT(20)
<1>6. f \in Injection(ks, 0 .. (N - 1))
  <2> HIDE DEF R
  <2>1. QED
    BY <1>2, <1>4 DEF Injection, IsInjective
<1>7. f \in Surjection(ks, 0 .. (N - 1))
  <2> HIDE DEF f
  <2>1. QED
    BY <1>1, <1>5, <1>6, FS_Injection
<1>8. \A n \in 0 .. (N - 1) : \E k \in ks : R(k) = n
  <2> HIDE DEF R
  <2>1. QED
    BY <1>7 DEF Surjection
<1> DEFINE g == InOrder(ks)
<1>9. g = [i \in 1 .. N |-> CHOOSE k \in ks : R(k) = i - 1]
  BY DEF InOrder
<1>10. \A i \in 1 .. N : g[i] \in ks /\ R(g[i]) = i - 1
  <2> HIDE DEF R, g
  <2> SUFFICES ASSUME NEW i \in 1 .. N PROVE g[i] \in ks /\ R(g[i]) = i - 1
    OBVIOUS
  <2>1. i - 1 \in 0 .. (N - 1)
    BY <1>1
  <2>2. \E k \in ks : R(k) = i - 1
    BY <1>8, <2>1
  <2>3. QED
    BY <1>9, <2>2
<1>11. g \in Seq(ks) /\ Len(g) = N
  <2> HIDE DEF R
  <2>1. g \in [1 .. N -> ks]
    BY <1>9, <1>10
  <2> HIDE DEF g
  <2>2. QED
    BY <1>1, <2>1
<1>12. \A i, j \in 1 .. N : g[i] = g[j] => i = j
  <2> HIDE DEF R, g
  <2>1. QED
    BY <1>1, <1>10
<1>13. QED
  BY <1>11, <1>12

-----------------------------------------------------------------------------
(***************************************************************************)
(* The shapes of the state. First what each step does to the queue of      *)
(* messages for a client.                                                  *)
(***************************************************************************)
Says(c, m) == outbox' = [outbox EXCEPT ![c] = Append(@, m)]
SaysOneOf(c, kinds) ==
  outbox' = outbox \/ \E m \in SyncMsgs : m.kind \in kinds /\ Says(c, m)
FeedKinds == {"event", "subscribed", "seqTooOld"}

\* Messages are what the shapes say they are.
LEMMA MessageShapes ==
  /\ \A n \in Nat : EventMsg(n) \in SyncMsgs /\ EventMsg(n).kind = "event"
  /\ \A n \in Nat : SeqTooOld(n) \in SyncMsgs /\ SeqTooOld(n).kind = "seqTooOld"
  /\ \A n \in Nat : Subscribed(All, n) \in SyncMsgs /\ Subscribed(All, n).kind = "subscribed"
  /\ \A k \in Nat : Restarting(k) \in SyncMsgs /\ Restarting(k).kind = "restarting"
                    /\ Restarting(k).request = k
  /\ \A k \in Nat, n \in Int : Committed(k, n) \in Answers
  /\ \A k \in Nat : Failed(k) \in Answers
  /\ \A ks \in SUBSET Nat : RestartInterrupted(ks) \in SyncMsgs
                            /\ RestartInterrupted(ks).kind = "interrupted"
  /\ \A m \in Answers : m \in SyncMsgs /\ m.kind \in {"committed", "failed"} /\ m.request \in Nat
  BY DEF EventMsg, SeqTooOld, Subscribed, Restarting, Committed, Failed, RestartInterrupted,
         Answers, SyncMsgs

\* A queue of messages grows by one at its end.
LEMMA SaysGrows ==
  ASSUME NEW c \in Conns, NEW m \in SyncMsgs, outbox \in [Conns -> Seq(SyncMsgs)], Says(c, m)
  PROVE  /\ outbox' \in [Conns -> Seq(SyncMsgs)]
         /\ \A d \in Conns : d # c => outbox'[d] = outbox[d]
         /\ Len(outbox'[c]) = Len(outbox[c]) + 1
         /\ \A i \in 1 .. Len(outbox[c]) : outbox'[c][i] = outbox[c][i]
         /\ outbox'[c][Len(outbox[c]) + 1] = m
<1>1. Append(outbox[c], m) \in Seq(SyncMsgs)
  OBVIOUS
<1>2. outbox'[c] = Append(outbox[c], m) /\ outbox' \in [Conns -> Seq(SyncMsgs)]
  BY <1>1 DEF Says
<1>3. \A d \in Conns : d # c => outbox'[d] = outbox[d]
  BY DEF Says
<1>4. QED
  BY <1>2, <1>3

\* A replay under way has a request.
LEMMA ReplayHasRequest ==
  ASSUME FeedShape, NEW c \in Conns, replay[c].on
  PROVE  replay[c] \in Replays
<1>1. replay[c] # NoReplay
  BY DEF NoReplay
<1>2. QED
  BY <1>1 DEF FeedShape

\* The tail and the replay of a connection.
LEMMA FeedSteps ==
  ASSUME FeedShape, NEW c \in Conns, Feed(c)
  PROVE  FeedShape' /\ log' = log /\ SaysOneOf(c, FeedKinds)
<1> USE DEF FeedShape
<1>0. FeedAssumption /\ Len(log) \in Nat
  BY FeedAssumption
<1>1. CASE TailReceive(c)
  BY <1>1 DEF TailReceive, SaysOneOf
<1>2. CASE TailLagged(c)
  <2>1. SeqTooOld(LastSeq) \in SyncMsgs /\ SeqTooOld(LastSeq).kind \in FeedKinds
    BY <1>0, MessageShapes DEF LastSeq, FeedKinds
  <2>2. Says(c, SeqTooOld(LastSeq))
    BY <1>2 DEF TailLagged, Says
  <2>3. outbox' \in [Conns -> Seq(SyncMsgs)]
    BY <2>1, <2>2, SaysGrows
  <2>4. published - Backlog \in Nat
    BY <1>2, FeedAssumption DEF TailLagged
  <2>5. tail' \in [Conns -> Nat]
    BY <1>2, <2>4 DEF TailLagged
  <2>6. QED
    BY <1>2, <2>1, <2>2, <2>3, <2>5 DEF TailLagged, SaysOneOf
<1>3. CASE DeliverLive(c)
  <2>1. EventMsg(held[c]) \in SyncMsgs /\ EventMsg(held[c]).kind \in FeedKinds
    BY MessageShapes DEF FeedKinds
  <2>2. outbox' = outbox \/ Says(c, EventMsg(held[c]))
    BY <1>3 DEF DeliverLive, Says
  <2>3. outbox' \in [Conns -> Seq(SyncMsgs)]
    BY <2>1, <2>2, SaysGrows
  <2>4. QED
    BY <1>3, <2>1, <2>2, <2>3 DEF DeliverLive, SaysOneOf
<1>4. CASE ReplayOne(c)
  <2>1. EventMsg(at[c]) \in SyncMsgs /\ EventMsg(at[c]).kind \in FeedKinds
    BY MessageShapes DEF FeedKinds
  <2>2. outbox' = outbox \/ Says(c, EventMsg(at[c]))
    BY <1>4 DEF ReplayOne, Says
  <2>3. outbox' \in [Conns -> Seq(SyncMsgs)]
    BY <2>1, <2>2, SaysGrows
  <2>4. QED
    BY <1>4, <2>1, <2>2, <2>3 DEF ReplayOne, SaysOneOf
<1>5. CASE SubscribeEnd(c)
  <2>1. replay[c] \in Replays
    BY <1>5, ReplayHasRequest DEF SubscribeEnd
  <2>2. PICK n \in Nat : outbox' = [outbox EXCEPT ![c] = Append(@, Subscribed(All, n))]
    <3>1. replay[c].head \in Nat /\ replay[c].since.after \in Nat /\ replay[c].scope = All
      BY <2>1 DEF Replays, SinceType
    <3>2. MaxOf2(replay[c].head, replay[c].since.after) \in Nat
      BY <3>1 DEF MaxOf2
    <3>3. QED
      BY <1>5, <3>1, <3>2 DEF SubscribeEnd
  <2>3. Subscribed(All, n) \in SyncMsgs /\ Subscribed(All, n).kind \in FeedKinds
    BY MessageShapes DEF FeedKinds
  <2>4. Says(c, Subscribed(All, n)) /\ outbox' \in [Conns -> Seq(SyncMsgs)]
    BY <2>2, <2>3, SaysGrows DEF Says
  <2>5. active' \in [Conns -> SUBSET {All}]
    BY <1>5, <2>1 DEF SubscribeEnd, Replays
  <2>6. replay' \in [Conns -> {NoReplay} \cup Replays] /\ at' \in [Conns -> Nat]
    BY <1>5 DEF SubscribeEnd
  <2>7. QED
    BY <1>5, <2>3, <2>4, <2>5, <2>6 DEF SubscribeEnd, SaysOneOf
<1>6. QED
  BY <1>1, <1>2, <1>3, <1>4, <1>5 DEF Feed

\* The Subscribe request of a client.
LEMMA SubscribeShape ==
  ASSUME FeedShape, last \in [Conns -> {NoSeq} \cup Nat], NEW c \in Conns, Subscribe(c)
  PROVE  FeedShape' /\ log' = log /\ outbox' = outbox
<1> USE DEF FeedShape
<1>1. SubscribeBegin(c, All, Cursor(c))
  BY DEF Subscribe
<1>2. Cursor(c) \in SinceType
  <2>1. CASE last[c] = NoSeq
    BY <2>1 DEF Cursor, Now, SinceType
  <2>2. CASE last[c] # NoSeq
    <3>1. last[c] \in Nat
      BY <2>2
    <3>2. QED
      BY <2>2, <3>1 DEF Cursor, After, SinceType
  <2>3. QED
    BY <2>1, <2>2
<1>3. Len(log) \in Nat /\ Len(outbox[c]) \in Nat
  OBVIOUS
<1>4. ReplayCursors(c, All, Cursor(c)) \subseteq Nat
  <2>1. Others(c, All) = {}
    BY DEF Others
  <2>2. Cursor(c).after \in Nat
    BY <1>2 DEF SinceType
  <2>3. QED
    BY <1>3, <2>1, <2>2 DEF ReplayCursors, LastSeq
<1>5. PICK from \in Nat :
        /\ replay' = [replay EXCEPT ![c] =
             [on |-> TRUE, scope |-> All, since |-> Cursor(c), upto |-> LastSeq,
              head |-> MaxOf2(from, LastSeq), mark |-> Len(outbox[c])]]
        /\ at' = [at EXCEPT ![c] = from + 1]
  BY <1>1, <1>4 DEF SubscribeBegin
<1>6. MaxOf2(from, LastSeq) \in Nat /\ LastSeq \in Nat
  BY <1>3 DEF MaxOf2, LastSeq
<1>7. [on |-> TRUE, scope |-> All, since |-> Cursor(c), upto |-> LastSeq,
       head |-> MaxOf2(from, LastSeq), mark |-> Len(outbox[c])] \in Replays
  BY <1>2, <1>3, <1>6 DEF Replays
<1>8. replay' \in [Conns -> {NoReplay} \cup Replays] /\ at' \in [Conns -> Nat]
  BY <1>5, <1>7
<1>9. QED
  BY <1>1, <1>8 DEF SubscribeBegin

\* The message a client handles next, and that it has handled one more.
LEMMA Receives ==
  ASSUME Shapes, NEW c \in Conns, NEW kind, Receiving(c, kind)
  PROVE  /\ Message(c) \in SyncMsgs /\ Message(c).kind = kind
         /\ read[c] + 1 \in 1 .. Len(outbox[c])
         /\ read' \in [Conns -> Nat] /\ read'[c] = read[c] + 1
         /\ \A d \in Conns : d # c => read'[d] = read[d]
         /\ FeedShape' /\ outbox' = outbox /\ log' = log
         /\ UNCHANGED <<orphans, jobs, current>>
<1>1. read[c] \in Nat /\ read[c] < Len(outbox[c]) /\ outbox[c] \in Seq(SyncMsgs)
  BY DEF Shapes, ClientShape, FeedShape, Receiving
<1>2. Message(c) \in SyncMsgs /\ read[c] + 1 \in 1 .. Len(outbox[c])
  BY <1>1 DEF Message
<1>3. FeedShape'
  BY DEF Shapes, FeedShape, Receiving, feedVars
<1>4. QED
  BY <1>1, <1>2, <1>3 DEF Receiving, feedVars, daemonVars, Shapes, ClientShape

\* Folding in event n.
LEMMA AppliedShape ==
  ASSUME ClientShape, NEW c \in Conns, NEW n \in Nat, Applied(c, n)
  PROVE  /\ pending' \in [Conns -> [Seqs -> Delivery]]
         /\ \A d \in Conns, k \in Seqs :
              pending'[d][k] = pending[d][k] \/ pending'[d][k] = "committed"
         /\ last' \in [Conns -> {NoSeq} \cup Nat] /\ applied' \in [Conns -> SUBSET Nat]
         /\ last'[c] = n /\ applied'[c] = applied[c] \cup {n}
         /\ \A d \in Conns : d # c => last'[d] = last[d] /\ applied'[d] = applied[d]
<1> USE DEF ClientShape
<1>1. "committed" \in Delivery
  BY DEF Delivery
<1>2. pending' \in [Conns -> [Seqs -> Delivery]]
  BY <1>1 DEF Applied
<1>3. \A d \in Conns, k \in Seqs :
        pending'[d][k] = pending[d][k] \/ pending'[d][k] = "committed"
  BY DEF Applied
<1>4. last' \in [Conns -> {NoSeq} \cup Nat] /\ last'[c] = n
      /\ \A d \in Conns : d # c => last'[d] = last[d]
  BY DEF Applied
<1>5. applied' \in [Conns -> SUBSET Nat] /\ applied'[c] = applied[c] \cup {n}
      /\ \A d \in Conns : d # c => applied'[d] = applied[d]
  BY DEF Applied
<1>6. QED
  BY <1>2, <1>3, <1>4, <1>5

\* The outcome of an answer about some mutations.
LEMMA SettleShape ==
  ASSUME ClientShape, NEW c \in Conns, NEW ks, NEW outcome \in Delivery, Settle(c, ks, outcome)
  PROVE  /\ pending' \in [Conns -> [Seqs -> Delivery]]
         /\ inFlight' \in [Conns -> SUBSET Seqs]
         /\ \A k \in Seqs : pending'[c][k] = pending[c][k]
              \/ (pending'[c][k] = outcome /\ k \in ks /\ pending[c][k] \in Waiting)
         /\ \A d \in Conns : d # c => pending'[d] = pending[d] /\ inFlight'[d] = inFlight[d]
         /\ inFlight'[c] \subseteq inFlight[c]
         /\ UNCHANGED <<eof, up, ready, state, last, base, applied>>
<1> USE DEF ClientShape
<1>1. pending' \in [Conns -> [Seqs -> Delivery]]
  BY DEF Settle
<1>2. inFlight' \in [Conns -> SUBSET Seqs] /\ inFlight'[c] \subseteq inFlight[c]
      /\ \A d \in Conns : d # c => inFlight'[d] = inFlight[d]
  BY DEF Settle
<1>3. \A k \in Seqs : pending'[c][k] = pending[c][k]
              \/ (pending'[c][k] = outcome /\ k \in ks /\ pending[c][k] \in Waiting)
  <2> SUFFICES ASSUME NEW k \in Seqs
               PROVE  pending'[c][k] = pending[c][k]
                 \/ (pending'[c][k] = outcome /\ k \in ks /\ pending[c][k] \in Waiting)
    OBVIOUS
  <2>1. pending'[c][k] = IF k \in ks \cap inFlight[c] /\ pending[c][k] \in Waiting
                         THEN outcome ELSE pending[c][k]
    BY DEF Settle
  <2>2. QED
    BY <2>1
<1>4. \A d \in Conns : d # c => pending'[d] = pending[d]
  BY DEF Settle
<1>5. QED
  BY <1>1, <1>2, <1>3, <1>4 DEF Settle, linkVars

\* The steps of the client keep the shapes.
LEMMA ReceiveShapes ==
  ASSUME Shapes, Followed, NEW c \in Conns, Receive(c)
  PROVE  Shapes'
<1>0. FeedShape /\ WorkShape /\ ClientShape
  BY DEF Shapes
<1>1. CASE ReceiveEvent(c)
  <2>1. Message(c) \in SyncMsgs /\ Message(c).kind = "event" /\ FeedShape'
        /\ read' \in [Conns -> Nat] /\ UNCHANGED <<orphans, jobs, current>>
    BY <1>1, Receives DEF ReceiveEvent
  <2>2. Message(c).seq \in Nat
    BY <2>1 DEF SyncMsgs, Answers
  <2>3. /\ pending' \in [Conns -> [Seqs -> Delivery]]
        /\ last' \in [Conns -> {NoSeq} \cup Nat] /\ applied' \in [Conns -> SUBSET Nat]
    BY <1>0, <1>1, <2>2, AppliedShape DEF ReceiveEvent, ClientShape
  <2>4. ClientShape'
    BY <1>0, <1>1, <2>1, <2>3 DEF ReceiveEvent, ClientShape
  <2>5. WorkShape'
    BY <1>0, <1>1, <2>1 DEF ReceiveEvent, WorkShape, linkVars
  <2>6. QED
    BY <2>1, <2>4, <2>5 DEF Shapes
<1>2. CASE ReceiveSubscribed(c)
  <2>1. Message(c) \in SyncMsgs /\ Message(c).kind = "subscribed" /\ FeedShape'
        /\ read' \in [Conns -> Nat] /\ UNCHANGED <<orphans, jobs, current>>
    BY <1>2, Receives DEF ReceiveSubscribed
  <2>2. Message(c).seq \in Nat
    BY <2>1 DEF SyncMsgs, Answers
  <2>3. Resend(c) \in SUBSET Seqs
    BY DEF Resend
  <2>4. InOrder(Resend(c)) \in Seq(Seqs)
    BY <2>3, InOrderLists
  <2>5. up' \in [Conns -> Seq(Numbers)]
    <3>1. up[c] \in Seq(Numbers) /\ InOrder(Resend(c)) \in Seq(Numbers)
      BY <1>0, <2>4 DEF WorkShape, Numbers
    <3>2. up[c] \o InOrder(Resend(c)) \in Seq(Numbers)
      BY <3>1
    <3>3. QED
      BY <1>0, <1>2, <3>1, <3>2 DEF ReceiveSubscribed, WorkShape
  <2>6. Resumed(c, Message(c).seq) \in Nat
    BY <1>0, <2>2 DEF Resumed, MaxOf2, ClientShape
  <2>7. last' \in [Conns -> {NoSeq} \cup Nat] /\ base' \in [Conns -> {NoSeq} \cup Nat]
    BY <1>0, <1>2, <2>2, <2>6 DEF ReceiveSubscribed, ClientShape
  <2>8. pending' \in [Conns -> [Seqs -> Delivery]] /\ inFlight' \in [Conns -> SUBSET Seqs]
    <3>1. "awaiting" \in Delivery
      BY DEF Delivery, Waiting
    <3>2. pending' \in [Conns -> [Seqs -> Delivery]]
      BY <1>0, <1>2, <3>1 DEF ReceiveSubscribed, ClientShape
    <3>3. inFlight' \in [Conns -> SUBSET Seqs]
      BY <1>0, <1>2, <2>3 DEF ReceiveSubscribed, ClientShape
    <3>4. QED
      BY <3>2, <3>3
  <2>9. ClientShape'
    BY <1>0, <1>2, <2>1, <2>7, <2>8 DEF ReceiveSubscribed, ClientShape
  <2>10. QED
    BY <1>0, <1>2, <2>1, <2>5, <2>9 DEF ReceiveSubscribed, WorkShape, Shapes
<1>3. CASE ReceiveCommitted(c)
  <2>1. Message(c) \in SyncMsgs /\ Message(c).kind = "committed" /\ FeedShape'
        /\ read' \in [Conns -> Nat] /\ UNCHANGED <<orphans, jobs, current>>
    BY <1>3, Receives DEF ReceiveCommitted
  <2> DEFINE k == Message(c).request
             n == Message(c).seq
  <2>2. n \in Int /\ k \in Nat
    BY <2>1 DEF SyncMsgs, Answers
  <2>3. CASE k \notin inFlight[c] \/ EchoSeen(c, n)
    <3>1. last' = last /\ applied' = applied
      BY <1>3, <2>3 DEF ReceiveCommitted
    <3>2. "committed" \in Delivery
      BY DEF Delivery
    <3>3. pending' \in [Conns -> [Seqs -> Delivery]]
      <4>1. \/ pending' = pending
            \/ /\ k \in Seqs
               /\ pending' = [pending EXCEPT ![c][k] = IF @ \in Waiting THEN "committed" ELSE @]
        BY <1>0, <1>3, <2>3 DEF ReceiveCommitted, ClientShape
      <4> HIDE DEF k
      <4>2. CASE k \in Seqs /\ pending' = [pending EXCEPT ![c][k] =
                                           IF @ \in Waiting THEN "committed" ELSE @]
        <5>1. PICK v \in Delivery : pending' = [pending EXCEPT ![c][k] = v]
          BY <1>0, <3>2, <4>2 DEF ClientShape
        <5>2. QED
          BY <1>0, <4>2, <5>1 DEF ClientShape
      <4>3. QED
        BY <1>0, <4>1, <4>2 DEF ClientShape
    <3>4. inFlight' \in [Conns -> SUBSET Seqs]
      BY <1>0, <1>3 DEF ReceiveCommitted, ClientShape
    <3>5. ClientShape'
      BY <1>0, <1>3, <2>1, <3>1, <3>3, <3>4 DEF ReceiveCommitted, ClientShape
    <3>6. QED
      BY <1>0, <1>3, <2>1, <3>5 DEF ReceiveCommitted, WorkShape, Shapes, linkVars
  <2>4. CASE k \in inFlight[c] /\ ~EchoSeen(c, n)
    <3>1. n \in Nat
      BY <1>0, <2>2, <2>4 DEF Followed, EchoSeen, ClientShape
    <3>2. Applied(c, n)
      BY <1>3, <2>4 DEF ReceiveCommitted
    <3>3. /\ pending' \in [Conns -> [Seqs -> Delivery]]
          /\ last' \in [Conns -> {NoSeq} \cup Nat] /\ applied' \in [Conns -> SUBSET Nat]
      BY <1>0, <3>1, <3>2, AppliedShape
    <3>4. inFlight' \in [Conns -> SUBSET Seqs]
      BY <1>0, <1>3 DEF ReceiveCommitted, ClientShape
    <3>5. ClientShape'
      BY <1>0, <1>3, <2>1, <3>3, <3>4 DEF ReceiveCommitted, ClientShape
    <3>6. QED
      BY <1>0, <1>3, <2>1, <3>5 DEF ReceiveCommitted, WorkShape, Shapes, linkVars
  <2>5. QED
    BY <2>3, <2>4
<1>4. ASSUME NEW ks, NEW kind, NEW outcome \in Delivery, Receiving(c, kind), Settle(c, ks, outcome)
      PROVE  Shapes'
  <2>1. FeedShape' /\ read' \in [Conns -> Nat] /\ UNCHANGED <<orphans, jobs, current>>
    BY <1>4, Receives
  <2>2. /\ pending' \in [Conns -> [Seqs -> Delivery]] /\ inFlight' \in [Conns -> SUBSET Seqs]
        /\ UNCHANGED <<eof, up, ready, state, last, base, applied>>
    BY <1>0, <1>4, SettleShape
  <2>3. ClientShape' /\ WorkShape'
    BY <1>0, <2>1, <2>2 DEF ClientShape, WorkShape
  <2>4. QED
    BY <2>1, <2>3 DEF Shapes
<1>5. CASE ReceiveFailed(c) \/ ReceiveRestarting(c) \/ ReceiveInterrupted(c)
  <2>1. "failed" \in Delivery /\ "notAdmitted" \in Delivery /\ "unknown" \in Delivery
    BY DEF Delivery, Waiting
  <2>2. QED
    BY <1>4, <1>5, <2>1 DEF ReceiveFailed, ReceiveRestarting, ReceiveInterrupted
<1>6. CASE ReceiveSeqTooOld(c)
  <2>1. FeedShape' /\ read' \in [Conns -> Nat] /\ UNCHANGED <<orphans, jobs, current>>
    BY <1>6, Receives DEF ReceiveSeqTooOld
  <2>2. ClientShape' /\ WorkShape'
    BY <1>0, <1>6, <2>1 DEF ReceiveSeqTooOld, ClientShape, WorkShape, linkVars
  <2>3. QED
    BY <2>1, <2>2 DEF Shapes
<1>7. QED
  BY <1>1, <1>2, <1>3, <1>5, <1>6 DEF Receive

\* The request at the head of a stream, and what is behind it.
LEMMA HeadOfStream ==
  ASSUME WorkShape, NEW c \in Conns, up[c] # <<>>
  PROVE  /\ Head(up[c]) \in Numbers /\ Head(up[c]) \in Nat /\ Head(up[c]) = up[c][1]
         /\ Tail(up[c]) \in Seq(Numbers) /\ Len(up[c]) \in Nat /\ Len(up[c]) >= 1
         /\ Len(Tail(up[c])) = Len(up[c]) - 1
         /\ \A i \in 1 .. Len(Tail(up[c])) : Tail(up[c])[i] = up[c][i + 1]
<1>1. up[c] \in Seq(Numbers)
  BY DEF WorkShape
<1>2. \A k \in Numbers : k \in Nat
  BY SyncAssumption DEF Numbers, Seqs, SubscribeRequest
<1>3. QED
  BY <1>1, <1>2

\* A mutation becomes a job.
LEMMA JobShape ==
  ASSUME NEW c \in Authors, NEW k \in Nat, NEW live \in BOOLEAN
  PROVE  /\ Job(c, k, live) \in Works /\ NoJob \in Works
         /\ Job(c, k, live).by = c /\ Job(c, k, live).seq = k /\ NoJob.by = Daemon
  BY DEF Job, NoJob, Works, Authors

\* The queue of jobs, and one job more.
LEMMA JobsAppend ==
  ASSUME WorkShape
  PROVE  /\ Len(jobs) \in Nat /\ \A i \in 1 .. Len(jobs) : jobs[i] \in Works /\ jobs[i].seq \in Nat
         /\ \A j \in Works : /\ Append(jobs, j) \in Seq(Works)
                             /\ Len(Append(jobs, j)) = Len(jobs) + 1
                             /\ \A i \in 1 .. Len(jobs) : Append(jobs, j)[i] = jobs[i]
                             /\ Append(jobs, j)[Len(jobs) + 1] = j
<1>1. jobs \in Seq(Works)
  BY DEF WorkShape
<1>2. \A j \in Works : j.seq \in Nat
  BY DEF Works
<1>3. Len(jobs) \in Nat /\ \A i \in 1 .. Len(jobs) : jobs[i] \in Works
  BY <1>1
<1>4. QED
  BY <1>1, <1>2, <1>3

\* The steps of a connection keep the shapes.
LEMMA LinkShapes ==
  ASSUME Shapes, NEW c \in Conns, LinkNext(c)
  PROVE  Shapes'
<1>0. FeedShape /\ WorkShape /\ ClientShape
  BY DEF Shapes
<1>a. ASSUME UNCHANGED feedVars
      PROVE  FeedShape'
  BY <1>0, <1>a DEF feedVars, FeedShape
<1>b. ASSUME UNCHANGED clientVars
      PROVE  ClientShape'
  BY <1>0, <1>b DEF clientVars, ClientShape
<1>c. ASSUME UNCHANGED <<orphans, jobs, current, ready, up>>
      PROVE  WorkShape'
  BY <1>0, <1>c DEF WorkShape
<1>d. Numbers \subseteq Nat /\ \A k \in Seqs : k \in Nat
  BY SyncAssumption DEF Numbers, Seqs, SubscribeRequest
<1>1. CASE Dial(c)
  <2>1. ClientShape'
    BY <1>0, <1>1 DEF Dial, ClientShape
  <2>2. QED
    BY <1>1, <1>a, <1>c, <2>1 DEF Dial, Shapes, daemonVars, linkVars
<1>2. CASE Welcome(c)
  <2>1. ClientShape'
    BY <1>0, <1>2 DEF Welcome, ClientShape
  <2>2. FeedShape'
    BY <1>0, <1>2 DEF Welcome, Connect, FeedShape
  <2>3. up' \in [Conns -> Seq(Numbers)]
    <3>1. <<SubscribeRequest>> \in Seq(Numbers)
      BY DEF Numbers
    <3>2. QED
      BY <1>0, <1>2, <3>1 DEF Welcome, WorkShape
  <2>4. QED
    BY <1>0, <1>2, <2>1, <2>2, <2>3 DEF Welcome, WorkShape, Shapes, daemonVars
<1>3. CASE DialFailed(c)
  <2>1. ClientShape'
    BY <1>0, <1>3 DEF DialFailed, ClientShape
  <2>2. QED
    BY <1>3, <1>a, <1>c, <2>1 DEF DialFailed, Shapes, daemonVars, linkVars
<1>4. CASE ConnectionLost(c)
  <2>1. FeedShape'
    <3>1. log' = log /\ published' = published
      BY <1>4 DEF ConnectionLost, Disconnect
    <3>2. tail' \in [Conns -> Nat] /\ held' \in [Conns -> Nat] /\ at' \in [Conns -> Nat]
      BY <1>0, <1>4 DEF ConnectionLost, Disconnect, FeedShape
    <3>3. replay' \in [Conns -> {NoReplay} \cup Replays] /\ active' \in [Conns -> SUBSET {All}]
      BY <1>0, <1>4 DEF ConnectionLost, Disconnect, FeedShape
    <3>4. outbox' \in [Conns -> Seq(SyncMsgs)]
      BY <1>0, <1>4 DEF ConnectionLost, Disconnect, FeedShape
    <3>5. QED
      BY <1>0, <3>1, <3>2, <3>3, <3>4 DEF FeedShape
  <2>2. ClientShape'
    <3>1. \A k \in Seqs : Cleared(c)[k] \in Delivery
      BY <1>0 DEF Cleared, Delivery, Waiting, ClientShape
    <3>2. Cleared(c) \in [Seqs -> Delivery]
      BY <3>1 DEF Cleared
    <3>3. pending' \in [Conns -> [Seqs -> Delivery]]
      BY <1>0, <1>4, <3>2 DEF ConnectionLost, ClientShape
    <3>4. inFlight' \in [Conns -> SUBSET Seqs] /\ read' \in [Conns -> Nat]
          /\ state' \in [Conns -> {"down", "connecting", "hello", "subscribed"}]
      BY <1>0, <1>4 DEF ConnectionLost, ClientShape
    <3>5. QED
      BY <1>0, <1>4, <3>3, <3>4 DEF ConnectionLost, ClientShape
  <2>3. orphans' \subseteq Conns \X Seqs
    <3>1. \A i \in {j \in 1 .. Len(up[c]) : up[c][j] # SubscribeRequest} : up[c][i] \in Seqs
      BY <1>0 DEF WorkShape, Numbers
    <3>2. QED
      BY <1>0, <1>4, <3>1 DEF ConnectionLost, WorkShape
  <2>4. jobs' \in Seq(Works)
    <3>1. \A i \in 1 .. Len(jobs) : jobs[i] \in Works /\ [jobs[i] EXCEPT !.live = FALSE] \in Works
      <4>1. \A i \in 1 .. Len(jobs) : jobs[i] \in Works
        BY <1>0, JobsAppend
      <4>2. \A j \in Works : [j EXCEPT !.live = FALSE] \in Works
        BY DEF Works
      <4>3. QED
        BY <4>1, <4>2
    <3>2. Len(jobs) \in Nat
      BY <1>0 DEF WorkShape
    <3>3. jobs' \in [1 .. Len(jobs) -> Works]
      BY <1>4, <3>1 DEF ConnectionLost
    <3>4. QED
      BY <3>2, <3>3
  <2>5. current' \in Works
    BY <1>0, <1>4 DEF ConnectionLost, WorkShape, Works
  <2>6. up' \in [Conns -> Seq(Numbers)] /\ ready' \in [Conns -> SUBSET Answers]
    BY <1>0, <1>4 DEF ConnectionLost, WorkShape
  <2>7. QED
    BY <2>1, <2>2, <2>3, <2>4, <2>5, <2>6 DEF WorkShape, Shapes
<1>5. CASE Admit(c)
  <2>1. Head(up[c]) \in Nat /\ Tail(up[c]) \in Seq(Numbers)
    BY <1>0, <1>5, HeadOfStream DEF Admit
  <2>2. Job(c, Head(up[c]), TRUE) \in Works
    BY <2>1, JobShape DEF Authors
  <2>3. jobs' \in Seq(Works) /\ up' \in [Conns -> Seq(Numbers)]
    BY <1>0, <1>5, <2>1, <2>2, JobsAppend DEF Admit, WorkShape
  <2>4. QED
    BY <1>0, <1>5, <1>a, <1>b, <2>3 DEF Admit, WorkShape, Shapes
<1>6. CASE Refuse(c)
  <2>1. Head(up[c]) \in Nat /\ Tail(up[c]) \in Seq(Numbers)
    BY <1>0, <1>6, HeadOfStream DEF Refuse
  <2>2. Says(c, Restarting(Head(up[c]))) /\ Restarting(Head(up[c])) \in SyncMsgs
    BY <1>6, <2>1, MessageShapes DEF Refuse, Says
  <2>3. outbox' \in [Conns -> Seq(SyncMsgs)]
    BY <1>0, <2>2, SaysGrows DEF FeedShape
  <2>4. FeedShape'
    BY <1>0, <1>6, <2>3 DEF Refuse, FeedShape
  <2>5. up' \in [Conns -> Seq(Numbers)]
    BY <1>0, <1>6, <2>1 DEF Refuse, WorkShape
  <2>6. QED
    BY <1>0, <1>6, <1>b, <2>4, <2>5 DEF Refuse, WorkShape, Shapes, daemonVars
<1>7. CASE Subscribe(c)
  <2>1. Tail(up[c]) \in Seq(Numbers)
    BY <1>0, <1>7, HeadOfStream DEF Subscribe
  <2>2. FeedShape'
    BY <1>0, <1>7, SubscribeShape DEF ClientShape
  <2>3. up' \in [Conns -> Seq(Numbers)]
    BY <1>0, <1>7, <2>1 DEF Subscribe, WorkShape
  <2>4. QED
    BY <1>0, <1>7, <1>b, <2>2, <2>3 DEF Subscribe, WorkShape, Shapes, daemonVars
<1>8. CASE Feed(c)
  <2>1. FeedShape'
    BY <1>0, <1>8, FeedSteps
  <2>2. QED
    BY <1>8, <1>b, <1>c, <2>1 DEF Feed, Shapes, daemonVars, linkVars
<1>9. CASE Answer(c)
  <2>1. PICK r \in ready[c] : /\ outbox' = [outbox EXCEPT ![c] = Append(@, r)]
                             /\ ready' = [ready EXCEPT ![c] = @ \ {r}]
    BY <1>9 DEF Answer
  <2>2. r \in Answers
    BY <1>0, <2>1 DEF WorkShape
  <2>3. r \in SyncMsgs
    BY <2>2, MessageShapes
  <2>4. outbox' \in [Conns -> Seq(SyncMsgs)]
    BY <1>0, <2>1, <2>3, SaysGrows DEF FeedShape, Says
  <2>5. FeedShape'
    BY <1>0, <1>9, <2>4 DEF Answer, FeedShape
  <2>6. ready' \in [Conns -> SUBSET Answers]
    BY <1>0, <2>1 DEF WorkShape
  <2>7. QED
    BY <1>0, <1>9, <1>b, <2>5, <2>6 DEF Answer, WorkShape, Shapes, daemonVars
<1>10. CASE Drain(c)
  <2>1. Unanswered(c) \in SUBSET Nat
    <3>1. \A i \in 1 .. Len(jobs) : jobs[i].seq \in Nat
      BY <1>0, JobsAppend
    <3>2. current.seq \in Nat
      BY <1>0 DEF WorkShape, Works
    <3>3. \A r \in ready[c] : r.request \in Nat
      BY <1>0, MessageShapes DEF WorkShape
    <3>4. QED
      BY <3>1, <3>2, <3>3 DEF Unanswered
  <2>2. RestartInterrupted(Unanswered(c)) \in SyncMsgs
    BY <2>1, MessageShapes
  <2>3. outbox' \in [Conns -> Seq(SyncMsgs)]
    BY <1>0, <1>10, <2>2, SaysGrows DEF Drain, FeedShape, Says
  <2>4. FeedShape'
    BY <1>0, <1>10, <2>3 DEF Drain, FeedShape
  <2>5. QED
    BY <1>10, <1>b, <1>c, <2>4 DEF Drain, Shapes, daemonVars
<1>11. ASSUME NEW k \in Seqs, AdmitOrphan(c, k)
       PROVE  Shapes'
  <2>1. Job(c, k, FALSE) \in Works
    BY <1>d, JobShape DEF Authors
  <2>2. jobs' \in Seq(Works) /\ orphans' \subseteq Conns \X Seqs
    BY <1>0, <1>11, <2>1, JobsAppend DEF AdmitOrphan, WorkShape
  <2>3. QED
    BY <1>0, <1>11, <1>a, <1>b, <2>2 DEF AdmitOrphan, WorkShape, Shapes, linkVars
<1>12. QED
  BY <1>1, <1>2, <1>3, <1>4, <1>5, <1>6, <1>7, <1>8, <1>9, <1>10, <1>11 DEF LinkNext

\* The steps of the daemon keep the shapes.
LEMMA DaemonShapes ==
  ASSUME Shapes, DaemonNext
  PROVE  Shapes'
<1>0. FeedShape /\ WorkShape /\ ClientShape
  BY DEF Shapes
<1>a. ASSUME UNCHANGED feedVars
      PROVE  FeedShape'
  BY <1>0, <1>a DEF feedVars, FeedShape
<1>b. ASSUME UNCHANGED clientVars
      PROVE  ClientShape'
  BY <1>0, <1>b DEF clientVars, ClientShape
<1>1. CASE SystemJob
  <2>1. Job(Daemon, 0, FALSE) \in Works
    BY JobShape DEF Authors
  <2>2. jobs' \in Seq(Works)
    BY <1>0, <1>1, <2>1, JobsAppend DEF SystemJob
  <2>3. QED
    BY <1>0, <1>1, <1>a, <1>b, <2>2 DEF SystemJob, WorkShape, Shapes, linkVars
<1>2. CASE TakeJob
  <2>1. Head(jobs) \in Works /\ Tail(jobs) \in Seq(Works)
    BY <1>0, <1>2 DEF TakeJob, WorkShape
  <2>2. [Head(jobs) EXCEPT !.phase = "running"] \in Works
    BY <2>1 DEF Works
  <2>3. QED
    BY <1>0, <1>2, <1>a, <1>b, <2>1, <2>2 DEF TakeJob, WorkShape, Shapes, linkVars
<1>3. CASE RunJob
  <2>1. Part(current.by, current.seq, current.events + 1) \in LogEvents
    BY <1>0 DEF WorkShape, Works, Part, LogEvents
  <2>2. FeedShape'
    BY <1>0, <1>3, <2>1 DEF RunJob, Append1, connVars, FeedShape
  <2>3. current' \in Works
    <3>1. current \in Works /\ current.events + 1 \in Nat
      BY <1>0 DEF WorkShape, Works
    <3>2. current' = [current EXCEPT !.events = current.events + 1]
      BY <1>3 DEF RunJob
    <3>3. QED
      BY <3>1, <3>2 DEF Works
  <2>4. QED
    BY <1>0, <1>3, <1>b, <2>2, <2>3 DEF RunJob, WorkShape, Shapes, linkVars
<1>4. CASE EndJob
  <2>1. current' \in Works
    BY <1>0, <1>4 DEF EndJob, WorkShape, Works
  <2>2. QED
    BY <1>0, <1>4, <1>a, <1>b, <2>1 DEF EndJob, WorkShape, Shapes, linkVars
<1>5. CASE PublishJob
  <2>1. FeedShape'
    BY <1>0, <1>5 DEF PublishJob, Publish, connVars, FeedShape
  <2>2. QED
    BY <1>0, <1>5, <1>b, <2>1 DEF PublishJob, WorkShape, Shapes, linkVars, daemonVars
<1>6. CASE FinishJob
  <2>1. Receipt \in Answers
    <3>1. current.seq \in Nat /\ Len(log) - current.events + 1 \in Int
      BY <1>0 DEF WorkShape, Works, FeedShape
    <3>2. QED
      BY <3>1, MessageShapes DEF Receipt
  <2>2. \A d \in Conns : ready[d] \cup {Receipt} \in SUBSET Answers
    BY <1>0, <2>1 DEF WorkShape
  <2>3. ready' \in [Conns -> SUBSET Answers]
    BY <1>0, <1>6, <2>2 DEF FinishJob, WorkShape
  <2>4. current' \in Works
    BY <1>6 DEF FinishJob, NoJob, Works, Authors
  <2>5. QED
    BY <1>0, <1>6, <1>a, <1>b, <2>3, <2>4 DEF FinishJob, WorkShape, Shapes
<1>7. CASE PrepareRestart \/ StartDaemon
  BY <1>0, <1>7, <1>a, <1>b DEF PrepareRestart, StartDaemon, WorkShape, Shapes, linkVars
<1>8. CASE Exit \/ Crash
  <2>1. Gone
    BY <1>8 DEF Exit, Crash
  <2>2. current' \in Works
    BY <2>1 DEF Gone, NoJob, Works, Authors
  <2>3. WorkShape'
    BY <2>1, <2>2 DEF Gone, WorkShape
  <2>4. FeedShape'
    <3>1. CASE Exit
      BY <3>1, <1>a DEF Exit
    <3>2. CASE Crash
      <4>1. published' \in Nat /\ log' = log
        BY <1>0, <3>2 DEF Crash, FeedShape
      <4>2. QED
        BY <1>0, <3>2, <4>1 DEF Crash, FeedShape, connVars
    <3>3. QED
      BY <1>8, <3>1, <3>2
  <2>5. QED
    BY <1>b, <2>1, <2>3, <2>4 DEF Gone, Shapes
<1>9. QED
  BY <1>1, <1>2, <1>3, <1>4, <1>5, <1>6, <1>7, <1>8 DEF DaemonNext

\* The shapes hold at first, and every step keeps them.
LEMMA ShapesKept ==
  ASSUME Shapes, Followed, SyncNext
  PROVE  Shapes'
<1>0. FeedShape /\ WorkShape /\ ClientShape
  BY DEF Shapes
<1>a. ASSUME UNCHANGED feedVars
      PROVE  FeedShape'
  BY <1>0, <1>a DEF feedVars, FeedShape
<1>1. ASSUME NEW c \in Conns, NEW k \in Seqs, Mutate(c, k)
      PROVE  Shapes'
  <2>1. up' \in [Conns -> Seq(Numbers)]
    <3>1. k \in Numbers /\ up[c] \in Seq(Numbers)
      BY <1>0 DEF Numbers, WorkShape
    <3>2. Append(up[c], k) \in Seq(Numbers)
      BY <3>1
    <3>3. QED
      BY <1>0, <1>1, <3>2 DEF Mutate, WorkShape
  <2>2. pending' \in [Conns -> [Seqs -> Delivery]] /\ inFlight' \in [Conns -> SUBSET Seqs]
    <3>1. "awaiting" \in Delivery
      BY DEF Delivery, Waiting
    <3>2. pending' \in [Conns -> [Seqs -> Delivery]]
      BY <1>0, <1>1, <3>1 DEF Mutate, ClientShape
    <3>3. QED
      BY <1>0, <1>1, <3>2 DEF Mutate, ClientShape
  <2>3. ClientShape'
    BY <1>0, <1>1, <2>2 DEF Mutate, ClientShape
  <2>4. QED
    BY <1>0, <1>1, <1>a, <2>1, <2>3 DEF Mutate, WorkShape, Shapes, daemonVars
<1>2. ASSUME NEW c \in Conns, CloseReview(c)
      PROVE  Shapes'
  <2>1. "dropped" \in Delivery
    BY DEF Delivery
  <2>2. pending' \in [Conns -> [Seqs -> Delivery]]
    BY <1>0, <1>2, <2>1 DEF CloseReview, ClientShape
  <2>3. ClientShape'
    BY <1>0, <1>2, <2>2 DEF CloseReview, ClientShape
  <2>4. QED
    BY <1>0, <1>2, <1>a, <2>3 DEF CloseReview, WorkShape, Shapes, daemonVars, linkVars
<1>3. QED
  BY <1>1, <1>2, ReceiveShapes, LinkShapes, DaemonShapes DEF SyncNext, ClientNext

-----------------------------------------------------------------------------
(***************************************************************************)
(* What has been folded in. Only the answers a client handles move its     *)
(* position, and the transport's end does not.                             *)
(***************************************************************************)

\* The position and the view stay; the client may stop being subscribed.
LEMMA FollowedStays ==
  ASSUME Followed, UNCHANGED <<last, base, applied>>,
         \A c \in Conns : state'[c] = "subscribed" => state[c] = "subscribed",
         \A c \in Conns : inFlight'[c] # {} => inFlight[c] # {} \/ state[c] = "subscribed"
  PROVE  Followed'
  BY DEF Followed

\* Folding in an event after the last one.
LEMMA AppliedFollows ==
  ASSUME Shapes, Followed, NEW c \in Conns, NEW n \in Nat, last[c] # NoSeq, n > last[c],
         Applied(c, n), UNCHANGED <<base, state>>,
         \A d \in Conns : inFlight'[d] \subseteq inFlight[d]
  PROVE  Followed'
<1>1. ClientShape
  BY DEF Shapes
<1>2. /\ last'[c] = n /\ applied'[c] = applied[c] \cup {n}
      /\ \A d \in Conns : d # c => last'[d] = last[d] /\ applied'[d] = applied[d]
  BY <1>1, AppliedShape
<1>3. last[c] \in Nat /\ base[c] \in Nat /\ base[c] <= last[c]
      /\ \A m \in applied[c] : m \in Nat /\ base[c] < m /\ m <= last[c]
  BY <1>1 DEF Followed, ClientShape
<1>4. n # NoSeq
  BY SyncAssumption
<1>5. ASSUME NEW m \in applied'[c]
      PROVE  base'[c] < m /\ m <= last'[c]
  <2>1. base' = base
    OBVIOUS
  <2>2. CASE m = n
    BY <1>2, <1>3, <2>1, <2>2
  <2>3. CASE m \in applied[c]
    BY <1>2, <1>3, <2>1, <2>3
  <2>4. QED
    BY <1>2, <2>2, <2>3
<1>6. base'[c] \in Nat /\ base'[c] <= last'[c]
  BY <1>2, <1>3
<1>7. QED
  BY <1>2, <1>4, <1>5, <1>6 DEF Followed

\* The steps of the client keep its position ahead of its view.
LEMMA FollowedKept ==
  ASSUME Shapes, Followed, SyncNext
  PROVE  Followed'
<1>0. ClientShape
  BY DEF Shapes
<1>1. ASSUME NEW c \in Conns, ReceiveEvent(c)
      PROVE  Followed'
  <2>1. Message(c) \in SyncMsgs /\ Message(c).kind = "event"
    BY <1>1, Receives DEF ReceiveEvent
  <2>2. Message(c).seq \in Nat
    BY <2>1 DEF SyncMsgs, Answers
  <2>3. CASE Accepts(c, Message(c).seq)
    <3>1. last[c] # NoSeq /\ Message(c).seq > last[c]
      BY <2>3 DEF Accepts, Followed
    <3>2. QED
      BY <1>1, <2>2, <2>3, <3>1, AppliedFollows DEF ReceiveEvent
  <2>4. CASE ~Accepts(c, Message(c).seq)
    BY <1>1, <2>4, FollowedStays DEF ReceiveEvent
  <2>5. QED
    BY <2>3, <2>4
<1>2. ASSUME NEW c \in Conns, ReceiveSubscribed(c)
      PROVE  Followed'
  <2>1. Message(c) \in SyncMsgs /\ Message(c).kind = "subscribed"
    BY <1>2, Receives DEF ReceiveSubscribed
  <2> DEFINE n == Message(c).seq
  <2>2. n \in Nat /\ n # NoSeq
    BY <2>1, SyncAssumption DEF SyncMsgs, Answers
  <2>3. /\ last'[c] = Resumed(c, n) /\ base'[c] = (IF base[c] = NoSeq THEN n ELSE base[c])
        /\ applied' = applied
        /\ \A d \in Conns : d # c => /\ last'[d] = last[d] /\ base'[d] = base[d]
                                     /\ state'[d] = state[d] /\ inFlight'[d] = inFlight[d]
    BY <1>0, <1>2 DEF ReceiveSubscribed, ClientShape
  <2> HIDE DEF n
  <2>4. CASE last[c] = NoSeq
    <3>1. last'[c] = n /\ base'[c] = n /\ applied'[c] = {}
      BY <2>3, <2>4 DEF Resumed, Followed
    <3>2. QED
      BY <2>2, <2>3, <3>1 DEF Followed
  <2>5. CASE last[c] # NoSeq
    <3>1. last[c] \in Nat /\ base[c] \in Nat /\ base[c] # NoSeq
      BY <1>0, <2>5, SyncAssumption DEF Followed, ClientShape
    <3>2. last'[c] \in Nat /\ last'[c] >= last[c] /\ base'[c] = base[c]
      BY <2>2, <2>3, <2>5, <3>1 DEF Resumed, MaxOf2
    <3>3. last'[c] # NoSeq
      BY <3>2, SyncAssumption
    <3>4. base[c] <= last[c] /\ \A m \in applied[c] : m \in Nat /\ base[c] < m /\ m <= last[c]
      BY <1>0, <2>5 DEF Followed, ClientShape
    <3>5. base'[c] <= last'[c] /\ \A m \in applied'[c] : base'[c] < m /\ m <= last'[c]
      BY <2>3, <3>1, <3>2, <3>4
    <3>6. QED
      BY <2>3, <3>1, <3>2, <3>3, <3>5 DEF Followed
  <2>6. QED
    BY <2>4, <2>5
<1>3. ASSUME NEW c \in Conns, ReceiveCommitted(c)
      PROVE  Followed'
  <2>1. Message(c) \in SyncMsgs /\ Message(c).kind = "committed"
    BY <1>3, Receives DEF ReceiveCommitted
  <2> DEFINE k == Message(c).request
             n == Message(c).seq
  <2>2. n \in Int
    BY <2>1 DEF SyncMsgs, Answers
  <2>3. \A d \in Conns : inFlight'[d] \subseteq inFlight[d]
    BY <1>0, <1>3 DEF ReceiveCommitted, ClientShape
  <2>4. base' = base /\ state' = state
    BY <1>3 DEF ReceiveCommitted
  <2>5. CASE k \notin inFlight[c] \/ EchoSeen(c, n)
    <3>1. last' = last /\ applied' = applied
      BY <1>3, <2>5 DEF ReceiveCommitted
    <3>2. QED
      BY <2>3, <2>4, <3>1, FollowedStays
  <2>6. CASE k \in inFlight[c] /\ ~EchoSeen(c, n)
    <3>1. last[c] # NoSeq /\ last[c] \in Nat
      BY <1>0, <2>6 DEF Followed, ClientShape
    <3>2. n \in Nat /\ n > last[c]
      BY <2>2, <2>6, <3>1 DEF EchoSeen
    <3>3. Applied(c, n)
      BY <1>3, <2>6 DEF ReceiveCommitted
    <3>4. QED
      BY <2>3, <2>4, <3>1, <3>2, <3>3, AppliedFollows
  <2>7. QED
    BY <2>5, <2>6
<1>4. ASSUME NEW c \in Conns,
             ReceiveFailed(c) \/ ReceiveRestarting(c) \/ ReceiveInterrupted(c)
      PROVE  Followed'
  <2>1. UNCHANGED <<last, base, applied, state>>
    BY <1>4 DEF ReceiveFailed, ReceiveRestarting, ReceiveInterrupted, Settle
  <2>2. \A d \in Conns : inFlight'[d] \subseteq inFlight[d]
    BY <1>0, <1>4 DEF ReceiveFailed, ReceiveRestarting, ReceiveInterrupted, Settle, ClientShape
  <2>3. QED
    BY <2>1, <2>2, FollowedStays
<1>5. ASSUME NEW c \in Conns, ReceiveSeqTooOld(c)
      PROVE  Followed'
  BY <1>5, FollowedStays DEF ReceiveSeqTooOld
<1>6. ASSUME NEW c \in Conns, NEW k \in Seqs, Mutate(c, k)
      PROVE  Followed'
  BY <1>0, <1>6, FollowedStays DEF Mutate, ClientShape
<1>7. ASSUME NEW c \in Conns, CloseReview(c)
      PROVE  Followed'
  BY <1>7, FollowedStays DEF CloseReview
<1>8. ASSUME NEW c \in Conns, Dial(c) \/ Welcome(c) \/ DialFailed(c)
      PROVE  Followed'
  BY <1>0, <1>8, FollowedStays DEF Dial, Welcome, DialFailed, ClientShape
<1>9. ASSUME NEW c \in Conns, ConnectionLost(c)
      PROVE  Followed'
  BY <1>0, <1>9, FollowedStays DEF ConnectionLost, ClientShape
<1>10. ASSUME UNCHANGED clientVars
       PROVE  Followed'
  BY <1>10, FollowedStays DEF clientVars
<1>11. ASSUME NEW c \in Conns, NEW k \in Seqs, AdmitOrphan(c, k)
       PROVE  Followed'
  BY <1>10, <1>11 DEF AdmitOrphan
<1>12. ASSUME NEW c \in Conns,
              Admit(c) \/ Refuse(c) \/ Subscribe(c) \/ Feed(c) \/ Answer(c) \/ Drain(c)
       PROVE  Followed'
  BY <1>10, <1>12 DEF Admit, Refuse, Subscribe, Feed, Answer, Drain
<1>13. CASE DaemonNext
  BY <1>10, <1>13 DEF DaemonNext, SystemJob, TakeJob, RunJob, EndJob, PublishJob, FinishJob,
                      PrepareRestart, Exit, Crash, StartDaemon, Gone
<1>14. QED
  BY <1>1, <1>2, <1>3, <1>4, <1>5, <1>6, <1>7, <1>8, <1>9, <1>11, <1>12, <1>13
     DEF SyncNext, LinkNext, ClientNext, Receive

-----------------------------------------------------------------------------
(***************************************************************************)
(* The copies of a mutation.                                               *)
(***************************************************************************)
Waits(c, k) == Sending(c, k) \/ Left(c, k) \/ Queued(c, k)

\* In the next state a copy is in one place at most.
Parted ==
  \A c \in Conns, k \in Seqs :
    /\ Sending(c, k) => ~Left(c, k) /\ ~Queued(c, k) /\ ~Runs(c, k)
    /\ Left(c, k) => ~Queued(c, k) /\ ~Runs(c, k)
    /\ Queued(c, k) => ~Runs(c, k)

\* A step that makes no copy, writes no event, refuses nothing and makes
\* nothing sendable keeps all there is to say about copies.
LEMMA CopiesMove ==
  ASSUME Copies, log' = log, SentOnce', QueuedOnce', Parted',
         \A c \in Conns, k \in Seqs : Waits(c, k)' => Waits(c, k),
         \A c \in Conns, k \in Seqs :
           Runs(c, k)' => Waits(c, k) \/ (Runs(c, k) /\ current'.events = current.events),
         \A c \in Conns, k \in Seqs : pending'[c][k] \in Sendable => pending[c][k] \in Sendable,
         \A c \in Conns, k \in Seqs : \A i \in 1 .. Len(outbox'[c]) :
           Refusal(c, k, i)' => Refusal(c, k, i)
  PROVE  Copies'
<1>1. \A c \in Conns, k \in Seqs : InLog(c, k)' <=> InLog(c, k)
  BY DEF InLog
<1>2. \A c \in Conns, k \in Seqs : Waits(c, k) => ~InLog(c, k)
  BY DEF Waits, Copies, OnePlace
<1>3. OnePlace'
  BY <1>1, <1>2 DEF Parted, OnePlace, Waits
<1>4. Recorded'
  <2> SUFFICES ASSUME NEW c \in Conns, NEW k \in Seqs
               PROVE  /\ \A m, n \in 1 .. Len(log) :
                           log[m] = log[n] /\ log[n].by = c /\ log[n].seq = k => m = n
                      /\ Runs(c, k)' => \A n \in 1 .. Len(log) :
                           log[n].by = c /\ log[n].seq = k => log[n].part <= current'.events
    BY DEF Recorded
  <2>1. ASSUME Runs(c, k)', NEW n \in 1 .. Len(log), log[n].by = c, log[n].seq = k
        PROVE  log[n].part <= current'.events
    <3>1. InLog(c, k)
      BY <2>1 DEF InLog
    <3>2. Runs(c, k) /\ current'.events = current.events
      BY <1>2, <2>1, <3>1
    <3>3. QED
      BY <2>1, <3>2 DEF Copies, Recorded
  <2>2. QED
    BY <2>1 DEF Copies, Recorded
<1>5. \A c \in Conns, k \in Seqs : Untouched(c, k) => Untouched(c, k)'
  BY <1>1 DEF Untouched, Waits
<1>6. SendableUntouched'
  BY <1>5 DEF SendableUntouched, Copies
<1>7. RefusalsTrue'
  <2> SUFFICES ASSUME NEW c \in Conns, NEW k \in Seqs, NEW i \in 1 .. Len(outbox'[c]),
                      Refusal(c, k, i)'
               PROVE  /\ pending'[c][k] \notin Sendable
                      /\ Untouched(c, k)'
                      /\ \A j \in 1 .. Len(outbox'[c]) : Refusal(c, k, j)' => i = j
    BY DEF RefusalsTrue
  <2>1. Refusal(c, k, i) /\ i \in 1 .. Len(outbox[c])
    BY DEF Refusal
  <2>2. \A j \in 1 .. Len(outbox'[c]) :
          Refusal(c, k, j)' => Refusal(c, k, j) /\ j \in 1 .. Len(outbox[c])
    BY DEF Refusal
  <2>3. QED
    BY <1>5, <2>1, <2>2 DEF Copies, RefusalsTrue
<1>8. QED
  BY <1>3, <1>4, <1>6, <1>7 DEF Copies

\* In particular, copies may vanish.
LEMMA CopiesVanish ==
  ASSUME Copies, log' = log, SentOnce', QueuedOnce',
         \A c \in Conns, k \in Seqs : Sending(c, k)' => Sending(c, k),
         \A c \in Conns, k \in Seqs : Left(c, k)' => Left(c, k),
         \A c \in Conns, k \in Seqs : Queued(c, k)' => Queued(c, k),
         \A c \in Conns, k \in Seqs :
           Runs(c, k)' => Runs(c, k) /\ current'.events = current.events,
         \A c \in Conns, k \in Seqs : pending'[c][k] \in Sendable => pending[c][k] \in Sendable,
         \A c \in Conns, k \in Seqs : \A i \in 1 .. Len(outbox'[c]) :
           Refusal(c, k, i)' => Refusal(c, k, i)
  PROVE  Copies'
<1>1. Parted'
  BY DEF Parted, Copies, OnePlace
<1>2. \A c \in Conns, k \in Seqs : Waits(c, k)' => Waits(c, k)
  BY DEF Waits
<1>3. QED
  BY <1>1, <1>2, CopiesMove

\* No refusal is new where nothing is said, or something else.
LEMMA NoRefusal ==
  ASSUME outbox \in [Conns -> Seq(SyncMsgs)], read \in [Conns -> Nat], read' \in [Conns -> Nat],
         \A d \in Conns : read'[d] >= read[d],
         NEW c \in Conns, NEW kinds, "restarting" \notin kinds, SaysOneOf(c, kinds)
  PROVE  \A d \in Conns, k \in Seqs : \A i \in 1 .. Len(outbox'[d]) :
           Refusal(d, k, i)' => Refusal(d, k, i)
<1> SUFFICES ASSUME NEW d \in Conns, NEW k \in Seqs, NEW i \in 1 .. Len(outbox'[d]),
                    Refusal(d, k, i)'
             PROVE  Refusal(d, k, i)
  OBVIOUS
<1>0. /\ i > read'[d] /\ outbox'[d][i].kind = "restarting" /\ outbox'[d][i].request = k
      /\ i \in Nat /\ i > read[d]
  <2>1. i > read'[d] /\ outbox'[d][i].kind = "restarting" /\ outbox'[d][i].request = k
    BY DEF Refusal
  <2>2. i \in Nat
    OBVIOUS
  <2>3. read'[d] \in Nat /\ read[d] \in Nat /\ read'[d] >= read[d]
    OBVIOUS
  <2>4. QED
    BY <2>1, <2>2, <2>3
<1>1. CASE outbox' = outbox
  BY <1>0, <1>1 DEF Refusal
<1>2. CASE outbox' # outbox
  <2>1. PICK m \in SyncMsgs : m.kind # "restarting" /\ Says(c, m)
    BY <1>2 DEF SaysOneOf
  <2>2. /\ \A e \in Conns : e # c => outbox'[e] = outbox[e]
        /\ Len(outbox'[c]) = Len(outbox[c]) + 1
        /\ \A j \in 1 .. Len(outbox[c]) : outbox'[c][j] = outbox[c][j]
        /\ outbox'[c][Len(outbox[c]) + 1] = m
    BY <2>1, SaysGrows
  <2>3. Len(outbox[c]) \in Nat
    OBVIOUS
  <2>4. CASE d = c
    <3>1. i # Len(outbox[c]) + 1
      BY <1>0, <2>1, <2>2, <2>4
    <3>2. i \in 1 .. Len(outbox[c])
      BY <2>2, <2>3, <2>4, <3>1
    <3>3. outbox'[c][i] = outbox[c][i]
      BY <2>2, <3>2
    <3>4. QED
      BY <1>0, <2>4, <3>2, <3>3 DEF Refusal
  <2>5. CASE d # c
    BY <1>0, <2>2, <2>5 DEF Refusal
  <2>6. QED
    BY <2>4, <2>5
<1>3. QED
  BY <1>1, <1>2

\* Requests and jobs stay where they are; the one that runs may end.
LEMMA CopiesStay ==
  ASSUME Copies, UNCHANGED <<up, orphans, jobs, log>>,
         \A c \in Conns, k \in Seqs :
           Runs(c, k)' => Runs(c, k) /\ current'.events = current.events,
         \A c \in Conns, k \in Seqs : pending'[c][k] \in Sendable => pending[c][k] \in Sendable,
         \A c \in Conns, k \in Seqs : \A i \in 1 .. Len(outbox'[c]) :
           Refusal(c, k, i)' => Refusal(c, k, i)
  PROVE  Copies'
<1>1. SentOnce' /\ QueuedOnce'
  BY DEF Copies, SentOnce, QueuedOnce
<1>2. /\ \A c \in Conns, k \in Seqs : Sending(c, k)' => Sending(c, k)
      /\ \A c \in Conns, k \in Seqs : Left(c, k)' => Left(c, k)
      /\ \A c \in Conns, k \in Seqs : Queued(c, k)' => Queued(c, k)
  BY DEF Sending, Left, Queued
<1>3. QED
  BY <1>1, <1>2, CopiesVanish

\* The stream of c loses its head.
LEMMA StreamTail ==
  ASSUME WorkShape, SentOnce, NEW c \in Conns, up[c] # <<>>, up' = [up EXCEPT ![c] = Tail(@)]
  PROVE  /\ SentOnce'
         /\ \A d \in Conns, k \in Seqs : Sending(d, k)' => Sending(d, k)
         /\ \A k \in Seqs : k = Head(up[c]) => ~Sending(c, k)' /\ Sending(c, k)
         /\ \A d \in Conns : d # c => up'[d] = up[d]
<1>1. /\ up'[c] = Tail(up[c]) /\ \A d \in Conns : d # c => up'[d] = up[d]
  BY DEF WorkShape
<1>2. /\ Head(up[c]) = up[c][1] /\ Len(up[c]) \in Nat /\ Len(up[c]) >= 1
      /\ Len(up'[c]) = Len(up[c]) - 1
      /\ \A i \in 1 .. Len(up'[c]) : up'[c][i] = up[c][i + 1]
  BY <1>1, HeadOfStream
<1>3. \A i \in 1 .. Len(up'[c]) : i + 1 \in 1 .. Len(up[c]) /\ i + 1 # 1
  BY <1>2
<1>4. SentOnce'
  <2> SUFFICES ASSUME NEW d \in Conns, NEW k \in Seqs, NEW i \in 1 .. Len(up'[d]),
                      NEW j \in 1 .. Len(up'[d]), up'[d][i] = k, up'[d][j] = k
               PROVE  i = j
    BY DEF SentOnce
  <2>1. CASE d = c
    <3>1. up[c][i + 1] = k /\ up[c][j + 1] = k
      BY <1>2, <2>1
    <3>2. i + 1 = j + 1
      BY <1>3, <2>1, <3>1 DEF SentOnce
    <3>3. i \in Int /\ j \in Int
      OBVIOUS
    <3>4. QED
      BY <3>2, <3>3
  <2>2. CASE d # c
    BY <1>1, <2>2 DEF SentOnce
  <2>3. QED
    BY <2>1, <2>2
<1>5. ASSUME NEW d \in Conns, NEW k \in Seqs, Sending(d, k)'
      PROVE  Sending(d, k)
  <2>1. PICK i \in 1 .. Len(up'[d]) : up'[d][i] = k
    BY <1>5 DEF Sending
  <2>2. CASE d = c
    BY <1>2, <1>3, <2>1, <2>2 DEF Sending
  <2>3. CASE d # c
    BY <1>1, <2>1, <2>3 DEF Sending
  <2>4. QED
    BY <2>2, <2>3
<1>6. ASSUME NEW k \in Seqs, k = Head(up[c])
      PROVE  ~Sending(c, k)' /\ Sending(c, k)
  <2>1. 1 \in 1 .. Len(up[c]) /\ up[c][1] = k
    BY <1>2, <1>6
  <2>2. \A i \in 1 .. Len(up'[c]) : up'[c][i] # k
    <3> SUFFICES ASSUME NEW i \in 1 .. Len(up'[c]), up'[c][i] = k
                 PROVE  FALSE
      OBVIOUS
    <3>1. up[c][i + 1] = k /\ i + 1 \in 1 .. Len(up[c]) /\ i + 1 # 1
      BY <1>2, <1>3
    <3>2. QED
      BY <2>1, <3>1 DEF SentOnce
  <2>3. QED
    BY <2>1, <2>2 DEF Sending
<1>7. QED
  BY <1>1, <1>4, <1>5, <1>6

\* A job joins the queue.
LEMMA QueueGrows ==
  ASSUME WorkShape, QueuedOnce, NEW j \in Works, jobs' = Append(jobs, j),
         \A c \in Conns, k \in Seqs : j.by = c /\ j.seq = k => ~Queued(c, k)
  PROVE  /\ QueuedOnce'
         /\ \A c \in Conns, k \in Seqs :
              Queued(c, k)' <=> Queued(c, k) \/ (j.by = c /\ j.seq = k)
<1>1. /\ Len(jobs) \in Nat /\ Len(jobs') = Len(jobs) + 1
      /\ \A i \in 1 .. Len(jobs) : jobs'[i] = jobs[i]
      /\ jobs'[Len(jobs) + 1] = j
  BY JobsAppend
<1>2. \A i \in 1 .. Len(jobs') : i \in 1 .. Len(jobs) \/ i = Len(jobs) + 1
  BY <1>1
<1>3. QueuedOnce'
  <2> SUFFICES ASSUME NEW c \in Conns, NEW k \in Seqs,
                      NEW m \in 1 .. Len(jobs'), NEW n \in 1 .. Len(jobs'),
                      jobs'[m].by = c, jobs'[n].by = c, jobs'[m].seq = k, jobs'[n].seq = k
               PROVE  m = n
    BY DEF QueuedOnce
  <2>1. CASE m \in 1 .. Len(jobs) /\ n \in 1 .. Len(jobs)
    BY <1>1, <2>1 DEF QueuedOnce
  <2>2. CASE m = Len(jobs) + 1 /\ n \in 1 .. Len(jobs)
    BY <1>1, <2>2 DEF Queued
  <2>3. CASE n = Len(jobs) + 1 /\ m \in 1 .. Len(jobs)
    BY <1>1, <2>3 DEF Queued
  <2>4. QED
    BY <1>2, <2>1, <2>2, <2>3
<1>4. ASSUME NEW c \in Conns, NEW k \in Seqs
      PROVE  Queued(c, k)' <=> Queued(c, k) \/ (j.by = c /\ j.seq = k)
  <2>1. ASSUME Queued(c, k)'
        PROVE  Queued(c, k) \/ (j.by = c /\ j.seq = k)
    <3>1. PICK i \in 1 .. Len(jobs') : jobs'[i].by = c /\ jobs'[i].seq = k
      BY <2>1 DEF Queued
    <3>2. QED
      BY <1>1, <1>2, <3>1 DEF Queued
  <2>2. ASSUME Queued(c, k) \/ (j.by = c /\ j.seq = k)
        PROVE  Queued(c, k)'
    <3>1. 1 .. Len(jobs) \subseteq 1 .. Len(jobs') /\ Len(jobs) + 1 \in 1 .. Len(jobs')
      BY <1>1
    <3>2. QED
      BY <1>1, <2>2, <3>1 DEF Queued
  <2>3. QED
    BY <2>1, <2>2
<1>5. QED
  BY <1>3, <1>4

\* Without a message to a client there is no new refusal.
LEMMA SameRefusals ==
  ASSUME UNCHANGED outbox, read \in [Conns -> Nat], read' \in [Conns -> Nat],
         \A d \in Conns : read'[d] >= read[d]
  PROVE  \A d \in Conns, k \in Seqs : \A i \in 1 .. Len(outbox'[d]) :
           Refusal(d, k, i)' => Refusal(d, k, i)
<1> SUFFICES ASSUME NEW d \in Conns, NEW k \in Seqs, NEW i \in 1 .. Len(outbox'[d]),
                    Refusal(d, k, i)'
             PROVE  Refusal(d, k, i)
  OBVIOUS
<1>1. /\ i \in 1 .. Len(outbox[d]) /\ i > read'[d]
      /\ outbox[d][i].kind = "restarting" /\ outbox[d][i].request = k
  BY DEF Refusal
<1>2. i > read[d]
  <2>1. i \in Int
    OBVIOUS
  <2>2. read'[d] \in Nat /\ read[d] \in Nat /\ read'[d] >= read[d]
    OBVIOUS
  <2>3. QED
    BY <1>1, <2>1, <2>2
<1>3. QED
  BY <1>1, <1>2 DEF Refusal

\* The writer thread and the daemon's life, except that a job starts or
\* writes an event.
LEMMA CopiesDaemon ==
  ASSUME Shapes, Copies,
         SystemJob \/ EndJob \/ PublishJob \/ FinishJob \/ PrepareRestart \/ Exit \/ Crash
         \/ StartDaemon
  PROVE  Copies'
<1>0. FeedShape /\ WorkShape /\ ClientShape
  BY DEF Shapes
<1>a. UNCHANGED <<outbox, read, pending, log>>
  BY DEF SystemJob, EndJob, PublishJob, Publish, FinishJob, PrepareRestart, Exit, Crash, Gone,
         StartDaemon, clientVars, feedVars, connVars
<1>b. read' \in [Conns -> Nat] /\ read \in [Conns -> Nat] /\ \A d \in Conns : read'[d] >= read[d]
  BY <1>0, <1>a DEF ClientShape
<1>c. \A d \in Conns, k \in Seqs : \A i \in 1 .. Len(outbox'[d]) :
        Refusal(d, k, i)' => Refusal(d, k, i)
  BY <1>a, <1>b, SameRefusals
<1>1. CASE SystemJob
  <2>1. Job(Daemon, 0, FALSE) \in Works /\ Job(Daemon, 0, FALSE).by = Daemon
    BY JobShape DEF Authors
  <2>2. QueuedOnce' /\ \A c \in Conns, k \in Seqs : Queued(c, k)' => Queued(c, k)
    <3> DEFINE j == Job(Daemon, 0, FALSE)
    <3>1. \A c \in Conns : j.by # c
      BY <2>1, SyncAssumption
    <3>2. jobs' = Append(jobs, j) /\ j \in Works
      BY <1>1, <2>1 DEF SystemJob
    <3> HIDE DEF j
    <3>3. QED
      BY <1>0, <3>1, <3>2, QueueGrows DEF Copies
  <2>3. /\ UNCHANGED <<up, orphans, current>> /\ SentOnce'
    BY <1>1 DEF SystemJob, linkVars, Copies, SentOnce
  <2>4. /\ \A c \in Conns, k \in Seqs : Sending(c, k)' => Sending(c, k)
        /\ \A c \in Conns, k \in Seqs : Left(c, k)' => Left(c, k)
        /\ \A c \in Conns, k \in Seqs :
             Runs(c, k)' => Runs(c, k) /\ current'.events = current.events
    BY <2>3 DEF Sending, Left, Runs
  <2>5. QED
    BY <1>a, <1>c, <2>2, <2>3, <2>4, CopiesVanish
<1>2. CASE EndJob
  <2>1. current'.by = current.by /\ current'.seq = current.seq /\ current'.events = current.events
    BY <1>0, <1>2 DEF EndJob, WorkShape, Works
  <2>2. \A c \in Conns, k \in Seqs :
          Runs(c, k)' => Runs(c, k) /\ current'.events = current.events
    BY <2>1 DEF Runs
  <2>3. UNCHANGED <<up, orphans, jobs>>
    BY <1>2 DEF EndJob, linkVars
  <2>4. QED
    BY <1>a, <1>c, <2>2, <2>3, CopiesStay
<1>3. CASE PublishJob \/ PrepareRestart \/ StartDaemon
  <2>1. UNCHANGED <<up, orphans, jobs, current>>
    BY <1>3 DEF PublishJob, PrepareRestart, StartDaemon, linkVars, daemonVars
  <2>2. QED
    BY <1>a, <1>c, <2>1, CopiesStay DEF Runs
<1>4. CASE FinishJob
  <2>1. UNCHANGED <<up, orphans, jobs>> /\ current' = NoJob
    BY <1>4 DEF FinishJob
  <2>2. current'.by \notin Conns
    BY <2>1, SyncAssumption DEF NoJob
  <2>3. QED
    BY <1>a, <1>c, <2>1, <2>2, CopiesStay DEF Runs
<1>5. CASE Exit \/ Crash
  <2>1. Gone
    BY <1>5 DEF Exit, Crash
  <2>2. /\ \A c \in Conns : up'[c] = <<>>
        /\ orphans' = {} /\ jobs' = <<>> /\ current'.by \notin Conns
    BY <2>1, SyncAssumption DEF Gone, NoJob
  <2>3. SentOnce' /\ QueuedOnce'
    BY <2>2 DEF SentOnce, QueuedOnce
  <2>4. \A c \in Conns, k \in Seqs :
          ~Sending(c, k)' /\ ~Left(c, k)' /\ ~Queued(c, k)' /\ ~Runs(c, k)'
    BY <2>2 DEF Sending, Left, Queued, Runs
  <2>5. QED
    BY <1>a, <1>c, <2>3, <2>4, CopiesVanish
<1>6. QED
  BY <1>1, <1>2, <1>3, <1>4, <1>5

\* What the connection does without touching a mutation.
LEMMA CopiesLink ==
  ASSUME Shapes, Copies, NEW c \in Conns,
         Dial(c) \/ Welcome(c) \/ DialFailed(c) \/ Subscribe(c) \/ Feed(c) \/ Answer(c) \/ Drain(c)
  PROVE  Copies'
<1>0. FeedShape /\ WorkShape /\ ClientShape
  BY DEF Shapes
<1>a. UNCHANGED <<orphans, jobs, current, read, pending>>
  BY DEF Dial, Welcome, DialFailed, Subscribe, Feed, Answer, Drain, daemonVars, clientVars
<1>b. log' = log
  BY <1>0, FeedSteps DEF Dial, Welcome, Connect, DialFailed, Subscribe, SubscribeBegin, Answer,
                         Drain, feedVars
<1>c. SaysOneOf(c, FeedKinds \cup {"committed", "failed", "interrupted"})
  <2>1. CASE Dial(c) \/ Welcome(c) \/ DialFailed(c) \/ Subscribe(c)
    BY <2>1 DEF Dial, Welcome, Connect, DialFailed, Subscribe, SubscribeBegin, feedVars, SaysOneOf
  <2>2. CASE Feed(c)
    BY <1>0, <2>2, FeedSteps DEF SaysOneOf
  <2>3. CASE Answer(c)
    <3>1. PICK r \in ready[c] : Says(c, r)
      BY <2>3 DEF Answer, Says
    <3>2. r \in SyncMsgs /\ r.kind \in {"committed", "failed"}
      BY <1>0, <3>1, MessageShapes DEF WorkShape
    <3>3. QED
      BY <3>1, <3>2 DEF SaysOneOf
  <2>4. CASE Drain(c)
    <3>1. outbox'[c] \in Seq(SyncMsgs)
      <4>1. LinkNext(c)
        BY <2>4 DEF LinkNext
      <4>2. QED
        BY <4>1, LinkShapes DEF Shapes, FeedShape
    <3>2. outbox' = [outbox EXCEPT ![c] = Append(@, RestartInterrupted(Unanswered(c)))]
      BY <2>4 DEF Drain
    <3>3. RestartInterrupted(Unanswered(c)) \in SyncMsgs
      <4>1. outbox[c] \in Seq(SyncMsgs) /\ outbox'[c] = Append(outbox[c], RestartInterrupted(Unanswered(c)))
        BY <1>0, <3>2 DEF FeedShape
      <4>2. Len(outbox[c]) + 1 \in 1 .. Len(outbox'[c])
            /\ outbox'[c][Len(outbox[c]) + 1] = RestartInterrupted(Unanswered(c))
        BY <4>1
      <4>3. QED
        BY <3>1, <4>2
    <3>4. RestartInterrupted(Unanswered(c)).kind = "interrupted"
      BY DEF RestartInterrupted
    <3>5. QED
      BY <3>2, <3>3, <3>4 DEF SaysOneOf, Says
  <2>5. QED
    BY <2>1, <2>2, <2>3, <2>4
<1>d. \A d \in Conns, k \in Seqs : \A i \in 1 .. Len(outbox'[d]) :
        Refusal(d, k, i)' => Refusal(d, k, i)
  <2>1. read' \in [Conns -> Nat] /\ read \in [Conns -> Nat] /\ \A d \in Conns : read'[d] >= read[d]
    BY <1>0, <1>a DEF ClientShape
  <2>2. outbox \in [Conns -> Seq(SyncMsgs)]
    BY <1>0 DEF FeedShape
  <2>3. "restarting" \notin FeedKinds \cup {"committed", "failed", "interrupted"}
    BY DEF FeedKinds
  <2>4. QED
    BY <1>c, <2>1, <2>2, <2>3, NoRefusal
<1>1. CASE up' = up
  BY <1>1, <1>a, <1>b, <1>d, CopiesStay DEF Runs
<1>e. ASSUME SentOnce', \A d \in Conns, k \in Seqs : Sending(d, k)' => Sending(d, k)
      PROVE  Copies'
  <2>1. QueuedOnce'
    BY <1>a DEF Copies, QueuedOnce
  <2>2. /\ \A d \in Conns, k \in Seqs : Left(d, k)' => Left(d, k)
        /\ \A d \in Conns, k \in Seqs : Queued(d, k)' => Queued(d, k)
        /\ \A d \in Conns, k \in Seqs :
             Runs(d, k)' => Runs(d, k) /\ current'.events = current.events
    BY <1>a DEF Left, Queued, Runs
  <2>3. QED
    BY <1>a, <1>b, <1>d, <1>e, <2>1, <2>2, CopiesVanish
<1>2. CASE Welcome(c)
  <2>1. up'[c] = <<0>> /\ \A d \in Conns : d # c => up'[d] = up[d]
    BY <1>0, <1>2 DEF Welcome, WorkShape, SubscribeRequest
  <2>2. \A k \in Seqs : k # 0
    BY SyncAssumption DEF Seqs
  <2>3. \A i \in 1 .. Len(up'[c]) : up'[c][i] = 0
    BY <2>1
  <2>4. SentOnce'
    BY <2>1, <2>2, <2>3 DEF SentOnce, Copies
  <2>5. \A d \in Conns, k \in Seqs : Sending(d, k)' => Sending(d, k)
    BY <2>1, <2>2, <2>3 DEF Sending
  <2>6. QED
    BY <1>e, <2>4, <2>5
<1>3. CASE Subscribe(c)
  <2>1. up[c] # <<>> /\ up' = [up EXCEPT ![c] = Tail(@)]
    BY <1>3 DEF Subscribe
  <2>2. QED
    BY <1>0, <1>e, <2>1, StreamTail DEF Copies
<1>4. QED
  BY <1>1, <1>2, <1>3 DEF Dial, DialFailed, Feed, Answer, Drain, linkVars

\* What the client handles without sending anything or learning of a refusal.
LEMMA CopiesClient ==
  ASSUME Shapes, Followed, Copies, NEW c \in Conns,
         ReceiveEvent(c) \/ ReceiveCommitted(c) \/ ReceiveFailed(c) \/ ReceiveInterrupted(c)
         \/ ReceiveSeqTooOld(c) \/ CloseReview(c)
  PROVE  Copies'
<1>0. FeedShape /\ WorkShape /\ ClientShape
  BY DEF Shapes
<1>a. UNCHANGED <<up, orphans, jobs, current, log, outbox>>
  BY DEF ReceiveEvent, ReceiveCommitted, ReceiveFailed, ReceiveInterrupted, ReceiveSeqTooOld,
         CloseReview, Receiving, Settle, feedVars, daemonVars, linkVars
<1>b. read' \in [Conns -> Nat] /\ \A d \in Conns : read'[d] >= read[d]
  <2>1. read' = read \/ read' = [read EXCEPT ![c] = @ + 1]
    BY DEF ReceiveEvent, ReceiveCommitted, ReceiveFailed, ReceiveInterrupted, ReceiveSeqTooOld,
           CloseReview, Receiving
  <2>2. read \in [Conns -> Nat]
    BY <1>0 DEF ClientShape
  <2>3. QED
    BY <2>1, <2>2
<1>c. \A d \in Conns, k \in Seqs : \A i \in 1 .. Len(outbox'[d]) :
        Refusal(d, k, i)' => Refusal(d, k, i)
  BY <1>0, <1>a, <1>b, SameRefusals DEF ClientShape
<1>d. "committed" \notin Sendable /\ "failed" \notin Sendable /\ "unknown" \notin Sendable
      /\ "dropped" \notin Sendable
  BY DEF Sendable
<1>e. ASSUME \A d \in Conns, k \in Seqs :
               pending'[d][k] \in Sendable => pending[d][k] \in Sendable
      PROVE  Copies'
  BY <1>a, <1>c, <1>e, CopiesStay DEF Runs
<1>1. CASE ReceiveEvent(c)
  <2>1. Message(c) \in SyncMsgs /\ Message(c).kind = "event"
    BY <1>1, Receives DEF ReceiveEvent
  <2>2. Message(c).seq \in Nat
    BY <2>1 DEF SyncMsgs, Answers
  <2>3. pending' = pending \/ \A d \in Conns, k \in Seqs :
                                pending'[d][k] = pending[d][k] \/ pending'[d][k] = "committed"
    BY <1>0, <1>1, <2>2, AppliedShape DEF ReceiveEvent
  <2>4. QED
    BY <1>d, <1>e, <2>3
<1>2. CASE ReceiveCommitted(c)
  <2>1. Message(c) \in SyncMsgs /\ Message(c).kind = "committed"
    BY <1>2, Receives DEF ReceiveCommitted
  <2> DEFINE k == Message(c).request
             n == Message(c).seq
  <2>2. n \in Int
    BY <2>1 DEF SyncMsgs, Answers
  <2>3. CASE k \in inFlight[c] /\ ~EchoSeen(c, n)
    <3>1. n \in Nat
      BY <1>0, <2>2, <2>3 DEF Followed, EchoSeen, ClientShape
    <3>2. Applied(c, n)
      BY <1>2, <2>3 DEF ReceiveCommitted
    <3> HIDE DEF n
    <3>3. \A d \in Conns, j \in Seqs :
            pending'[d][j] = pending[d][j] \/ pending'[d][j] = "committed"
      BY <1>0, <3>1, <3>2, AppliedShape
    <3>4. QED
      BY <1>d, <1>e, <3>3
  <2>4. CASE ~(k \in inFlight[c] /\ ~EchoSeen(c, n))
    <3>1. \/ pending' = pending
          \/ pending' = [pending EXCEPT ![c][k] = IF @ \in Waiting THEN "committed" ELSE @]
      BY <1>2, <2>4 DEF ReceiveCommitted
    <3> HIDE DEF k
    <3>2. \A d \in Conns, j \in Seqs :
            pending'[d][j] = pending[d][j] \/ pending'[d][j] = "committed"
      BY <1>0, <3>1, SMTT(20) DEF ClientShape
    <3>3. QED
      BY <1>d, <1>e, <3>2
  <2>5. QED
    BY <2>3, <2>4
<1>3. CASE ReceiveFailed(c) \/ ReceiveInterrupted(c)
  <2>1. "failed" \in Delivery /\ "unknown" \in Delivery
    BY DEF Delivery, Waiting
  <2>2. PICK outcome \in {"failed", "unknown"} : \E ks : Settle(c, ks, outcome)
    BY <1>3 DEF ReceiveFailed, ReceiveInterrupted
  <2>3. \A d \in Conns, k \in Seqs :
          pending'[d][k] = pending[d][k] \/ pending'[d][k] = outcome
    BY <1>0, <2>1, <2>2, SettleShape
  <2>4. QED
    BY <1>d, <1>e, <2>3
<1>4. CASE ReceiveSeqTooOld(c)
  BY <1>4, <1>e DEF ReceiveSeqTooOld
<1>5. CASE CloseReview(c)
  <2>1. \A d \in Conns, k \in Seqs :
          pending'[d][k] = pending[d][k] \/ pending'[d][k] = "dropped"
    BY <1>0, <1>5 DEF CloseReview, ClientShape
  <2>2. QED
    BY <1>d, <1>e, <2>1
<1>6. QED
  BY <1>1, <1>2, <1>3, <1>4, <1>5

\* Admission takes a mutation from the stream, or a leftover, to the queue.
LEMMA CopiesAdmit ==
  ASSUME Shapes, Copies, NEW c \in Conns,
         Admit(c) \/ \E k \in Seqs : AdmitOrphan(c, k)
  PROVE  Copies'
<1>0. FeedShape /\ WorkShape /\ ClientShape
  BY DEF Shapes
<1>a. UNCHANGED <<current, log, outbox, read, pending>>
  BY DEF Admit, AdmitOrphan, feedVars, clientVars
<1>b. \A d \in Conns, k \in Seqs : \A i \in 1 .. Len(outbox'[d]) :
        Refusal(d, k, i)' => Refusal(d, k, i)
  BY <1>0, <1>a, SameRefusals DEF ClientShape
<1>c. \A d \in Conns, k \in Seqs : Runs(d, k)' <=> Runs(d, k)
  BY <1>a DEF Runs
<1>d. ASSUME NEW k \in Seqs, NEW live \in BOOLEAN, jobs' = Append(jobs, Job(c, k, live)), Waits(c, k),
             ~Queued(c, k), SentOnce',
             \A d \in Conns, i \in Seqs : Sending(d, i)' => Sending(d, i),
             \A d \in Conns, i \in Seqs : Left(d, i)' => Left(d, i),
             ~Sending(c, k)', ~Left(c, k)'
      PROVE  Copies'
  <2> DEFINE j == Job(c, k, live)
  <2>1. k \in Nat /\ c \in Authors
    BY SyncAssumption DEF Seqs, Authors
  <2>2. j \in Works /\ j.by = c /\ j.seq = k /\ jobs' = Append(jobs, j)
    BY <1>d, <2>1, JobShape
  <2> HIDE DEF j
  <2>3. \A d \in Conns, i \in Seqs : j.by = d /\ j.seq = i => ~Queued(d, i)
    BY <1>d, <2>2
  <2>4. /\ QueuedOnce'
        /\ \A d \in Conns, i \in Seqs : Queued(d, i)' <=> Queued(d, i) \/ (d = c /\ i = k)
    <3>1. QueuedOnce
      BY DEF Copies
    <3>2. /\ QueuedOnce'
          /\ \A d \in Conns, i \in Seqs : Queued(d, i)' <=> Queued(d, i) \/ (j.by = d /\ j.seq = i)
      BY <1>0, <2>2, <2>3, <3>1, QueueGrows
    <3>3. QED
      BY <2>2, <3>2
  <2>5. ~Runs(c, k)
    BY <1>d DEF Copies, OnePlace, Waits
  <2>6. OnePlace
    BY DEF Copies
  <2>7. Parted'
    BY <1>c, <1>d, <2>4, <2>5, <2>6 DEF Parted, OnePlace
  <2>8. \A d \in Conns, i \in Seqs : Waits(d, i)' => Waits(d, i)
    BY <1>d, <2>4 DEF Waits
  <2>9. QED
    BY <1>a, <1>b, <1>c, <1>d, <2>4, <2>7, <2>8, CopiesMove
<1>1. CASE Admit(c)
  <2>1. up[c] # <<>> /\ up' = [up EXCEPT ![c] = Tail(@)] /\ Head(up[c]) # SubscribeRequest
        /\ jobs' = Append(jobs, Job(c, Head(up[c]), TRUE)) /\ orphans' = orphans
    BY <1>1 DEF Admit
  <2>2. PICK k \in Seqs : k = Head(up[c])
    BY <1>0, <2>1, HeadOfStream DEF Numbers
  <2>3. /\ SentOnce' /\ ~Sending(c, k)' /\ Sending(c, k)
        /\ \A d \in Conns, i \in Seqs : Sending(d, i)' => Sending(d, i)
    BY <1>0, <2>1, <2>2, StreamTail DEF Copies
  <2>4. ~Queued(c, k) /\ ~Left(c, k)
    BY <2>3 DEF Copies, OnePlace
  <2>5. \A d \in Conns, i \in Seqs : Left(d, i)' <=> Left(d, i)
    BY <2>1 DEF Left
  <2>6. QED
    BY <1>d, <2>1, <2>2, <2>3, <2>4, <2>5 DEF Waits
<1>2. ASSUME NEW k \in Seqs, AdmitOrphan(c, k)
      PROVE  Copies'
  <2>1. Left(c, k) /\ jobs' = Append(jobs, Job(c, k, FALSE)) /\ up' = up
        /\ orphans' = orphans \ {<<c, k>>}
    BY <1>2 DEF AdmitOrphan, Left, linkVars
  <2>2. ~Queued(c, k) /\ ~Sending(c, k)
    BY <2>1 DEF Copies, OnePlace
  <2>3. ~Left(c, k)' /\ \A d \in Conns, i \in Seqs : Left(d, i)' => Left(d, i)
    BY <2>1 DEF Left
  <2>4. SentOnce' /\ \A d \in Conns, i \in Seqs : Sending(d, i)' <=> Sending(d, i)
    BY <2>1 DEF Sending, SentOnce, Copies
  <2>5. QED
    BY <1>d, <2>1, <2>2, <2>3, <2>4 DEF Waits
<1>3. QED
  BY <1>1, <1>2

\* A client sends mutations that it may send.
LEMMA CopiesSend ==
  ASSUME Shapes, Copies, NEW c \in Conns, NEW ks \in SUBSET Seqs,
         UNCHANGED <<orphans, jobs, current, log, outbox>>,
         read' \in [Conns -> Nat], \A d \in Conns : read'[d] >= read[d],
         \A k \in ks : pending[c][k] \in Sendable /\ pending'[c][k] \notin Sendable,
         \A d \in Conns, k \in Seqs : pending'[d][k] \in Sendable => pending[d][k] \in Sendable,
         SentOnce',
         \A d \in Conns, k \in Seqs : Sending(d, k)' => Sending(d, k) \/ (d = c /\ k \in ks)
  PROVE  Copies'
<1>1. \A k \in ks : Untouched(c, k)
  BY DEF Copies, SendableUntouched
<1>2. \A d \in Conns, k \in Seqs :
        /\ Left(d, k)' <=> Left(d, k)
        /\ Queued(d, k)' <=> Queued(d, k)
        /\ Runs(d, k)' <=> Runs(d, k)
        /\ InLog(d, k)' <=> InLog(d, k)
  BY DEF Left, Queued, Runs, InLog
<1>3. OnePlace'
  BY <1>1, <1>2 DEF OnePlace, Copies, Untouched
<1>4. QueuedOnce' /\ Recorded'
  BY DEF QueuedOnce, Recorded, Copies, Runs
<1>5. \A d \in Conns, k \in Seqs : ~(d = c /\ k \in ks) => (Untouched(d, k) => Untouched(d, k)')
  BY <1>2 DEF Untouched
<1>6. SendableUntouched'
  <2> SUFFICES ASSUME NEW d \in Conns, NEW k \in Seqs, pending'[d][k] \in Sendable
               PROVE  Untouched(d, k)'
    BY DEF SendableUntouched
  <2>1. ~(d = c /\ k \in ks)
    OBVIOUS
  <2>2. pending[d][k] \in Sendable
    OBVIOUS
  <2>3. QED
    BY <1>5, <2>1, <2>2 DEF Copies, SendableUntouched
<1>7. \A d \in Conns, k \in Seqs : \A i \in 1 .. Len(outbox'[d]) :
        Refusal(d, k, i)' => Refusal(d, k, i)
  BY SameRefusals DEF Shapes, ClientShape
<1>8. RefusalsTrue'
  <2> SUFFICES ASSUME NEW d \in Conns, NEW k \in Seqs, NEW i \in 1 .. Len(outbox'[d]),
                      Refusal(d, k, i)'
               PROVE  /\ pending'[d][k] \notin Sendable
                      /\ Untouched(d, k)'
                      /\ \A j \in 1 .. Len(outbox'[d]) : Refusal(d, k, j)' => i = j
    BY DEF RefusalsTrue
  <2>1. Refusal(d, k, i) /\ i \in 1 .. Len(outbox[d])
    BY <1>7 DEF Refusal
  <2>2. /\ pending[d][k] \notin Sendable /\ Untouched(d, k)
        /\ \A j \in 1 .. Len(outbox[d]) : Refusal(d, k, j) => i = j
    BY <2>1 DEF Copies, RefusalsTrue
  <2>3. ~(d = c /\ k \in ks)
    BY <2>2
  <2>4. QED
    BY <1>5, <1>7, <2>2, <2>3
<1>9. QED
  BY <1>3, <1>4, <1>6, <1>8 DEF Copies

\* A new mutation is sent; a reconnect sends the refused ones again.
LEMMA CopiesSent ==
  ASSUME Shapes, Copies, NEW c \in Conns,
         ReceiveSubscribed(c) \/ \E k \in Seqs : Mutate(c, k)
  PROVE  Copies'
<1>0. FeedShape /\ WorkShape /\ ClientShape
  BY DEF Shapes
<1>a. UNCHANGED <<orphans, jobs, current, log, outbox>>
  BY DEF ReceiveSubscribed, Mutate, Receiving, feedVars, daemonVars
<1>b. read' \in [Conns -> Nat] /\ \A d \in Conns : read'[d] >= read[d]
  <2>1. read' = read \/ read' = [read EXCEPT ![c] = @ + 1]
    BY DEF ReceiveSubscribed, Mutate, Receiving
  <2>2. read \in [Conns -> Nat]
    BY <1>0 DEF ClientShape
  <2>3. QED
    BY <2>1, <2>2
<1>c. ASSUME NEW ks \in SUBSET Seqs, NEW s \in Seq(ks),
             \A i, j \in 1 .. Len(s) : s[i] = s[j] => i = j,
             \A k \in ks : Untouched(c, k),
             up' = up \/ up' = [up EXCEPT ![c] = @ \o s]
      PROVE  /\ SentOnce'
             /\ \A d \in Conns, k \in Seqs : Sending(d, k)' => Sending(d, k) \/ (d = c /\ k \in ks)
  <2>1. CASE up' = up
    BY <2>1 DEF SentOnce, Copies, Sending
  <2>2. CASE up' = [up EXCEPT ![c] = @ \o s]
    <3> DEFINE n == Len(up[c])
    <3>0. up[c] \in Seq(Numbers) /\ n \in Nat /\ Len(s) \in Nat
      BY <1>0 DEF WorkShape
    <3>1. up'[c] = up[c] \o s /\ \A d \in Conns : d # c => up'[d] = up[d]
      BY <1>0, <2>2 DEF WorkShape
    <3>2. /\ Len(up'[c]) = n + Len(s)
          /\ \A i \in 1 .. n : up'[c][i] = up[c][i]
          /\ \A i \in 1 .. Len(up'[c]) : i \notin 1 .. n =>
               i - n \in 1 .. Len(s) /\ up'[c][i] = s[i - n] /\ up'[c][i] \in ks
      <4>1. s \in Seq(Numbers)
        BY DEF Numbers
      <4>2. Len(up'[c]) = n + Len(s) /\ \A i \in 1 .. n : up'[c][i] = up[c][i]
        BY <3>0, <3>1, <4>1
      <4>3. ASSUME NEW i \in 1 .. Len(up'[c]), i \notin 1 .. n
            PROVE  i - n \in 1 .. Len(s) /\ up'[c][i] = s[i - n] /\ up'[c][i] \in ks
        <5>1. i - n \in 1 .. Len(s)
          BY <3>0, <4>2, <4>3
        <5>2. up'[c][i] = s[i - n]
          BY <3>0, <3>1, <4>1, <4>2, <4>3
        <5>3. QED
          BY <5>1, <5>2
      <4>4. QED
        BY <4>2, <4>3
    <3>3. \A i \in 1 .. n : up[c][i] \notin ks
      BY <1>c DEF Untouched, Sending
    <3>4. SentOnce'
      <4> SUFFICES ASSUME NEW d \in Conns, NEW k \in Seqs, NEW i \in 1 .. Len(up'[d]),
                          NEW j \in 1 .. Len(up'[d]), up'[d][i] = k, up'[d][j] = k
                   PROVE  i = j
        BY DEF SentOnce
      <4>1. CASE d # c
        BY <3>1, <4>1 DEF Copies, SentOnce
      <4>2. CASE d = c /\ i \in 1 .. n /\ j \in 1 .. n
        <5>1. up[c][i] = k /\ up[c][j] = k
          BY <3>2, <4>2
        <5>2. SentOnce
          BY DEF Copies
        <5>3. QED
          BY <4>2, <5>1, <5>2 DEF SentOnce
      <4>3. CASE d = c /\ i \notin 1 .. n /\ j \notin 1 .. n
        <5>1. s[i - n] = k /\ s[j - n] = k /\ i - n \in 1 .. Len(s) /\ j - n \in 1 .. Len(s)
          BY <3>2, <4>3
        <5>2. i - n = j - n
          BY <1>c, <5>1
        <5>3. i \in Int /\ j \in Int
          OBVIOUS
        <5>4. QED
          BY <3>0, <5>2, <5>3
      <4>4. CASE d = c /\ ~(i \in 1 .. n <=> j \in 1 .. n)
        BY <3>2, <3>3, <4>4
      <4>5. QED
        BY <4>1, <4>2, <4>3, <4>4
    <3>5. ASSUME NEW d \in Conns, NEW k \in Seqs, Sending(d, k)'
          PROVE  Sending(d, k) \/ (d = c /\ k \in ks)
      <4>1. PICK i \in 1 .. Len(up'[d]) : up'[d][i] = k
        BY <3>5 DEF Sending
      <4>2. QED
        BY <3>1, <3>2, <4>1 DEF Sending
    <3>6. QED
      BY <3>4, <3>5
  <2>3. QED
    BY <1>c, <2>1, <2>2
<1>1. CASE ReceiveSubscribed(c)
  <2> DEFINE ks == Resend(c)
             s == InOrder(ks)
  <2>1. ks \in SUBSET Seqs /\ \A k \in Seqs : k \in ks <=> pending[c][k] = "notAdmitted"
    BY DEF Resend
  <2>2. s \in Seq(ks) /\ \A i, j \in 1 .. Len(s) : s[i] = s[j] => i = j
    BY <2>1, InOrderLists
  <2>3. up' = up \/ up' = [up EXCEPT ![c] = @ \o s]
    BY <1>0, <1>1 DEF ReceiveSubscribed, WorkShape
  <2>4. \A k \in ks : pending[c][k] \in Sendable
    BY <2>1 DEF Sendable
  <2>5. /\ \A k \in Seqs : pending'[c][k] = (IF k \in ks THEN "awaiting" ELSE pending[c][k])
        /\ \A d \in Conns : d # c => pending'[d] = pending[d]
    BY <1>0, <1>1 DEF ReceiveSubscribed, ClientShape
  <2> HIDE DEF ks, s
  <2>6. /\ \A k \in ks : pending'[c][k] \notin Sendable
        /\ \A d \in Conns, k \in Seqs : pending'[d][k] \in Sendable => pending[d][k] \in Sendable
    BY <2>1, <2>5 DEF Sendable
  <2>7. \A k \in ks : Untouched(c, k)
    BY <2>1, <2>4 DEF Copies, SendableUntouched
  <2>8. /\ SentOnce'
        /\ \A d \in Conns, k \in Seqs : Sending(d, k)' => Sending(d, k) \/ (d = c /\ k \in ks)
    BY <1>c, <2>1, <2>2, <2>3, <2>7
  <2>9. QED
    BY <1>a, <1>b, <2>1, <2>4, <2>6, <2>8, CopiesSend
<1>2. ASSUME NEW k \in Seqs, Mutate(c, k)
      PROVE  Copies'
  <2>1. pending[c][k] = "unused" /\ pending' = [pending EXCEPT ![c][k] = "awaiting"]
        /\ up' = [up EXCEPT ![c] = Append(@, k)]
    BY <1>2 DEF Mutate
  <2>2. /\ pending[c][k] \in Sendable /\ pending'[c][k] \notin Sendable
        /\ \A d \in Conns, i \in Seqs : pending'[d][i] \in Sendable => pending[d][i] \in Sendable
    BY <1>0, <2>1 DEF Sendable, ClientShape
  <2>3. \A i \in {k} : Untouched(c, i)
    BY <2>2 DEF Copies, SendableUntouched
  <2>4. up' = [up EXCEPT ![c] = @ \o <<k>>]
    <3>1. up[c] \in Seq(Numbers) /\ k \in Numbers
      BY <1>0 DEF WorkShape, Numbers
    <3>2. Append(up[c], k) = up[c] \o <<k>>
      BY <3>1
    <3>3. QED
      BY <1>0, <2>1, <3>2 DEF WorkShape
  <2>5. {k} \in SUBSET Seqs /\ <<k>> \in Seq({k})
        /\ \A i, j \in 1 .. Len(<<k>>) : <<k>>[i] = <<k>>[j] => i = j
    OBVIOUS
  <2>6. /\ SentOnce'
        /\ \A d \in Conns, i \in Seqs : Sending(d, i)' => Sending(d, i) \/ (d = c /\ i \in {k})
    BY <1>c, <2>3, <2>4, <2>5
  <2>7. QED
    BY <1>a, <1>b, <2>2, <2>5, <2>6, CopiesSend
<1>3. QED
  BY <1>1, <1>2

\* The end of a connection leaves what the daemon has not read to it, and
\* takes its refusals away.
LEMMA CopiesLost ==
  ASSUME Shapes, Copies, NEW c \in Conns, ConnectionLost(c)
  PROVE  Copies'
<1>0. FeedShape /\ WorkShape /\ ClientShape
  BY DEF Shapes
<1>1. up'[c] = <<>> /\ \A d \in Conns : d # c => up'[d] = up[d]
  BY <1>0 DEF ConnectionLost, WorkShape
<1>2. SentOnce' /\ \A d \in Conns, k \in Seqs : Sending(d, k)' => Sending(d, k) /\ d # c
  BY <1>1 DEF SentOnce, Copies, Sending
<1>3. \A d \in Conns, k \in Seqs : Left(d, k)' => Left(d, k) \/ (d = c /\ Sending(c, k))
  <2> SUFFICES ASSUME NEW d \in Conns, NEW k \in Seqs, Left(d, k)', ~Left(d, k)
               PROVE  d = c /\ Sending(c, k)
    OBVIOUS
  <2>1. <<d, k>> \in {<<c, up[c][i]>> : i \in {j \in 1 .. Len(up[c]) : up[c][j] # SubscribeRequest}}
    BY DEF Left, ConnectionLost
  <2>2. PICK i \in 1 .. Len(up[c]) : <<d, k>> = <<c, up[c][i]>>
    BY <2>1
  <2>3. QED
    BY <2>2 DEF Sending
<1>4. /\ Len(jobs) \in Nat /\ Len(jobs') = Len(jobs)
      /\ \A i \in 1 .. Len(jobs) : jobs'[i].by = jobs[i].by /\ jobs'[i].seq = jobs[i].seq
  <2>1. Len(jobs) \in Nat /\ \A i \in 1 .. Len(jobs) : jobs[i] \in Works
    BY <1>0, JobsAppend
  <2>2. jobs' = [i \in 1 .. Len(jobs) |-> IF jobs[i].by = c THEN [jobs[i] EXCEPT !.live = FALSE]
                                                          ELSE jobs[i]]
    BY DEF ConnectionLost
  <2>3. \A j \in Works : [j EXCEPT !.live = FALSE].by = j.by /\ [j EXCEPT !.live = FALSE].seq = j.seq
    BY DEF Works
  <2>4. Len(jobs') = Len(jobs)
    BY <2>1, <2>2
  <2>5. QED
    BY <2>1, <2>2, <2>3, <2>4
<1>5. QueuedOnce' /\ \A d \in Conns, k \in Seqs : Queued(d, k)' <=> Queued(d, k)
  <2>1. QueuedOnce'
    BY <1>4 DEF QueuedOnce, Copies
  <2>2. QED
    BY <1>4, <2>1 DEF Queued
<1>6. current'.by = current.by /\ current'.seq = current.seq /\ current'.events = current.events
  BY <1>0 DEF ConnectionLost, WorkShape, Works
<1>7. \A d \in Conns, k \in Seqs : Runs(d, k)' <=> Runs(d, k)
  BY <1>6 DEF Runs
<1>8. log' = log
  BY DEF ConnectionLost, Disconnect
<1>9. \A d \in Conns, k \in Seqs : pending'[d][k] \in Sendable => pending[d][k] \in Sendable
  BY <1>0 DEF ConnectionLost, Cleared, Sendable, ClientShape
<1>10. \A d \in Conns, k \in Seqs : \A i \in 1 .. Len(outbox'[d]) :
         Refusal(d, k, i)' => Refusal(d, k, i)
  <2>1. outbox'[c] = <<>> /\ \A d \in Conns : d # c => outbox'[d] = outbox[d] /\ read'[d] = read[d]
    BY <1>0 DEF ConnectionLost, Disconnect, FeedShape, ClientShape
  <2>2. QED
    BY <2>1 DEF Refusal
<1>11. Parted' /\ \A d \in Conns, k \in Seqs : Waits(d, k)' => Waits(d, k)
  <2>1. OnePlace
    BY DEF Copies
  <2>2. Parted'
    BY <1>2, <1>3, <1>5, <1>7, <2>1 DEF Parted, OnePlace
  <2>3. QED
    BY <1>2, <1>3, <1>5, <2>2 DEF Waits
<1>12. QED
  BY <1>2, <1>5, <1>6, <1>7, <1>8, <1>9, <1>10, <1>11, CopiesMove

\* The writer thread takes the job at the head of the queue.
LEMMA CopiesTake ==
  ASSUME Shapes, Copies, TakeJob
  PROVE  Copies'
<1>0. FeedShape /\ WorkShape /\ ClientShape
  BY DEF Shapes
<1>a. UNCHANGED <<up, orphans, log, outbox, read, pending>>
  BY DEF TakeJob, feedVars, linkVars, clientVars
<1>b. \A d \in Conns, k \in Seqs : \A i \in 1 .. Len(outbox'[d]) :
        Refusal(d, k, i)' => Refusal(d, k, i)
  BY <1>0, <1>a, SameRefusals DEF ClientShape
<1>1. /\ Len(jobs) \in Nat /\ Len(jobs) >= 1 /\ Len(jobs') = Len(jobs) - 1
      /\ Head(jobs) = jobs[1] /\ jobs[1] \in Works
      /\ \A i \in 1 .. Len(jobs') : jobs'[i] = jobs[i + 1]
  <2>1. jobs \in Seq(Works) /\ jobs # <<>> /\ jobs' = Tail(jobs)
    BY <1>0 DEF WorkShape, TakeJob
  <2>2. QED
    BY <2>1
<1>2. \A i \in 1 .. Len(jobs') : i + 1 \in 1 .. Len(jobs) /\ i + 1 # 1
  BY <1>1
<1>3. current'.by = jobs[1].by /\ current'.seq = jobs[1].seq /\ 1 \in 1 .. Len(jobs)
  BY <1>1 DEF TakeJob, Works
<1>4. QueuedOnce
  BY DEF Copies
<1>5. QueuedOnce'
  <2> SUFFICES ASSUME NEW c \in Conns, NEW k \in Seqs,
                      NEW m \in 1 .. Len(jobs'), NEW n \in 1 .. Len(jobs'),
                      jobs'[m].by = c, jobs'[n].by = c, jobs'[m].seq = k, jobs'[n].seq = k
               PROVE  m = n
    BY DEF QueuedOnce
  <2>1. m + 1 = n + 1
    BY <1>1, <1>2, <1>4 DEF QueuedOnce
  <2>2. m \in Int /\ n \in Int
    OBVIOUS
  <2>3. QED
    BY <2>1, <2>2
<1>6. ASSUME NEW c \in Conns, NEW k \in Seqs
      PROVE  /\ Queued(c, k)' => Queued(c, k) /\ ~Runs(c, k)'
             /\ Runs(c, k)' => Queued(c, k)
  <2>1. ASSUME Queued(c, k)'
        PROVE  Queued(c, k) /\ ~Runs(c, k)'
    <3>1. PICK i \in 1 .. Len(jobs') : jobs'[i].by = c /\ jobs'[i].seq = k
      BY <2>1 DEF Queued
    <3>2. jobs[i + 1].by = c /\ jobs[i + 1].seq = k /\ i + 1 \in 1 .. Len(jobs) /\ i + 1 # 1
      BY <1>1, <1>2, <3>1
    <3>3. ~(jobs[1].by = c /\ jobs[1].seq = k)
      BY <1>3, <1>4, <3>2 DEF QueuedOnce
    <3>4. QED
      BY <1>3, <3>2, <3>3 DEF Queued, Runs
  <2>2. Runs(c, k)' => Queued(c, k)
    BY <1>3 DEF Runs, Queued
  <2>3. QED
    BY <2>1, <2>2
<1>7. /\ SentOnce'
      /\ \A c \in Conns, k \in Seqs : (Sending(c, k)' <=> Sending(c, k)) /\ (Left(c, k)' <=> Left(c, k))
  BY <1>a DEF SentOnce, Copies, Sending, Left
<1>8. Parted'
  <2>1. OnePlace
    BY DEF Copies
  <2>2. QED
    BY <1>6, <1>7, <2>1 DEF Parted, OnePlace
<1>9. /\ \A c \in Conns, k \in Seqs : Waits(c, k)' => Waits(c, k)
      /\ \A c \in Conns, k \in Seqs : Runs(c, k)' => Waits(c, k)
  BY <1>6, <1>7 DEF Waits
<1>10. QED
  BY <1>a, <1>b, <1>5, <1>7, <1>8, <1>9, CopiesMove

\* The job that runs writes its next event.
LEMMA CopiesRun ==
  ASSUME Shapes, Copies, RunJob
  PROVE  Copies'
<1>0. FeedShape /\ WorkShape /\ ClientShape
  BY DEF Shapes
<1> DEFINE e == Part(current.by, current.seq, current.events + 1)
<1>a. UNCHANGED <<up, orphans, jobs, outbox, read, pending>> /\ log' = Append(log, e)
  BY DEF RunJob, Append1, connVars, linkVars, clientVars
<1>1. current \in Works /\ current.events \in Nat /\ e \in LogEvents
      /\ e.by = current.by /\ e.seq = current.seq /\ e.part = current.events + 1
  <2>1. current \in Works
    BY <1>0 DEF WorkShape
  <2>2. current.by \in Authors /\ current.seq \in Nat /\ current.events \in Nat
    BY <2>1 DEF Works
  <2>3. current.events + 1 \in Nat
    BY <2>2
  <2>4. QED
    BY <2>1, <2>2, <2>3 DEF Part, LogEvents
<1>2. current'.by = current.by /\ current'.seq = current.seq /\ current'.events = current.events + 1
  <2>1. current' = [current EXCEPT !.events = current.events + 1]
    BY DEF RunJob
  <2>2. QED
    BY <1>1, <2>1 DEF Works
<1> HIDE DEF e
<1>3. /\ Len(log) \in Nat /\ Len(log') = Len(log) + 1
      /\ \A n \in 1 .. Len(log) : log'[n] = log[n]
      /\ log'[Len(log) + 1] = e
  BY <1>0, <1>1, <1>a DEF FeedShape
<1>4. \A n \in 1 .. Len(log') : n \in 1 .. Len(log) \/ n = Len(log) + 1
  BY <1>3
<1>5. \A c \in Conns, k \in Seqs :
        /\ Sending(c, k)' <=> Sending(c, k)
        /\ Left(c, k)' <=> Left(c, k)
        /\ Queued(c, k)' <=> Queued(c, k)
        /\ Runs(c, k)' <=> Runs(c, k)
  BY <1>a, <1>2 DEF Sending, Left, Queued, Runs
<1>6. \A c \in Conns, k \in Seqs : InLog(c, k)' => InLog(c, k) \/ Runs(c, k)
  BY <1>1, <1>3, <1>4 DEF InLog, Runs
<1>7. SentOnce' /\ QueuedOnce'
  BY <1>a DEF SentOnce, QueuedOnce, Copies
<1>8. OnePlace'
  BY <1>5, <1>6 DEF OnePlace, Copies
<1>9. Recorded'
  <2> SUFFICES ASSUME NEW c \in Conns, NEW k \in Seqs
               PROVE  /\ \A m, n \in 1 .. Len(log') :
                           log'[m] = log'[n] /\ log'[n].by = c /\ log'[n].seq = k => m = n
                      /\ Runs(c, k)' => \A n \in 1 .. Len(log') :
                           log'[n].by = c /\ log'[n].seq = k => log'[n].part <= current'.events
    BY DEF Recorded
  <2>0. Recorded
    BY DEF Copies
  <2>1. ASSUME NEW n \in 1 .. Len(log), log[n].by = c, log[n].seq = k, Runs(c, k)
        PROVE  log[n].part <= current.events
    BY <2>0, <2>1 DEF Recorded
  <2>2. ASSUME NEW n \in 1 .. Len(log), log[n] = e, log[n].by = c, log[n].seq = k
        PROVE  FALSE
    <3>1. Runs(c, k)
      BY <1>1, <2>2 DEF Runs
    <3>2. log[n].part <= current.events /\ log[n].part = current.events + 1
      BY <1>1, <2>1, <2>2, <3>1
    <3>3. QED
      BY <1>1, <3>2
  <2>3. ASSUME NEW m \in 1 .. Len(log'), NEW n \in 1 .. Len(log'),
               log'[m] = log'[n], log'[n].by = c, log'[n].seq = k
        PROVE  m = n
    <3>1. CASE m \in 1 .. Len(log) /\ n \in 1 .. Len(log)
      <4>1. log[m] = log[n] /\ log[n].by = c /\ log[n].seq = k
        BY <1>3, <2>3, <3>1
      <4>2. QED
        BY <2>0, <3>1, <4>1 DEF Recorded
    <3>2. CASE m = Len(log) + 1 /\ n \in 1 .. Len(log)
      <4>1. log[n] = e /\ log[n].by = c /\ log[n].seq = k
        BY <1>3, <2>3, <3>2
      <4>2. QED
        BY <2>2, <3>2, <4>1
    <3>3. CASE n = Len(log) + 1 /\ m \in 1 .. Len(log)
      <4>1. log[m] = e /\ log[m].by = c /\ log[m].seq = k
        BY <1>3, <2>3, <3>3
      <4>2. QED
        BY <2>2, <3>3, <4>1
    <3>4. QED
      BY <1>4, <3>1, <3>2, <3>3
  <2>4. ASSUME Runs(c, k)', NEW n \in 1 .. Len(log'), log'[n].by = c, log'[n].seq = k
        PROVE  log'[n].part <= current'.events
    <3>1. CASE n = Len(log) + 1
      BY <1>1, <1>2, <1>3, <3>1
    <3>2. CASE n \in 1 .. Len(log)
      <4>1. log[n].part <= current.events
        BY <1>3, <1>5, <2>1, <2>4, <3>2
      <4>2. log[n].part \in Nat
        <5>1. log[n] \in LogEvents
          BY <1>0, <3>2 DEF FeedShape
        <5>2. QED
          BY <5>1 DEF LogEvents
      <4>3. QED
        BY <1>1, <1>2, <1>3, <3>2, <4>1, <4>2
    <3>3. QED
      BY <1>4, <3>1, <3>2
  <2>5. QED
    BY <2>3, <2>4
<1>10. \A c \in Conns, k \in Seqs : Untouched(c, k) => Untouched(c, k)'
  BY <1>5, <1>6 DEF Untouched
<1>11. SendableUntouched'
  BY <1>a, <1>10 DEF SendableUntouched, Copies
<1>12. RefusalsTrue'
  BY <1>a, <1>10 DEF RefusalsTrue, Copies, Refusal
<1>13. QED
  BY <1>7, <1>8, <1>9, <1>11, <1>12 DEF Copies

\* A request is refused because the daemon restarts.
LEMMA CopiesRefuse ==
  ASSUME Shapes, Copies, NEW c \in Conns, Refuse(c)
  PROVE  Copies'
<1>0. FeedShape /\ WorkShape /\ ClientShape
  BY DEF Shapes
<1>a. UNCHANGED <<orphans, jobs, current, log, read, pending>>
  BY DEF Refuse, daemonVars, clientVars
<1>b. up[c] # <<>> /\ up' = [up EXCEPT ![c] = Tail(@)]
  BY DEF Refuse
<1>1. PICK h \in Nat : h = Head(up[c])
  BY <1>0, <1>b, HeadOfStream
<1>2. Says(c, Restarting(h))
  BY <1>1 DEF Refuse, Says
<1>3. Restarting(h) \in SyncMsgs /\ Restarting(h).kind = "restarting" /\ Restarting(h).request = h
  BY MessageShapes
<1>4. /\ \A d \in Conns : d # c => outbox'[d] = outbox[d]
      /\ Len(outbox'[c]) = Len(outbox[c]) + 1 /\ Len(outbox[c]) \in Nat
      /\ \A i \in 1 .. Len(outbox[c]) : outbox'[c][i] = outbox[c][i]
      /\ outbox'[c][Len(outbox[c]) + 1] = Restarting(h)
  BY <1>0, <1>2, <1>3, SaysGrows DEF FeedShape
<1>5. /\ SentOnce'
      /\ \A d \in Conns, k \in Seqs : Sending(d, k)' => Sending(d, k)
      /\ \A k \in Seqs : k = h => ~Sending(c, k)' /\ Sending(c, k)
  BY <1>0, <1>1, <1>b, StreamTail DEF Copies
<1>6. \A d \in Conns, k \in Seqs :
        /\ Left(d, k)' <=> Left(d, k)
        /\ Queued(d, k)' <=> Queued(d, k)
        /\ Runs(d, k)' <=> Runs(d, k)
        /\ InLog(d, k)' <=> InLog(d, k)
  BY <1>a DEF Left, Queued, Runs, InLog
<1>7. OnePlace'
  BY <1>5, <1>6 DEF OnePlace, Copies
<1>8. QueuedOnce' /\ Recorded'
  BY <1>a DEF QueuedOnce, Recorded, Copies, Runs
<1>9. \A d \in Conns, k \in Seqs : Untouched(d, k) => Untouched(d, k)'
  BY <1>5, <1>6 DEF Untouched
<1>10. SendableUntouched'
  BY <1>a, <1>9 DEF SendableUntouched, Copies
<1>11. \A k \in Seqs : k = h => /\ Untouched(c, k)' /\ ~Untouched(c, k)
                                /\ pending[c][k] \notin Sendable
                                /\ \A i \in 1 .. Len(outbox[c]) : ~Refusal(c, k, i)
  <2> SUFFICES ASSUME NEW k \in Seqs, k = h
               PROVE  /\ Untouched(c, k)' /\ ~Untouched(c, k)
                      /\ pending[c][k] \notin Sendable
                      /\ \A i \in 1 .. Len(outbox[c]) : ~Refusal(c, k, i)
    OBVIOUS
  <2>1. Sending(c, k) /\ ~Sending(c, k)'
    BY <1>5
  <2>2. ~Left(c, k) /\ ~Queued(c, k) /\ ~Runs(c, k) /\ ~InLog(c, k)
    BY <2>1 DEF Copies, OnePlace
  <2>3. Untouched(c, k)' /\ ~Untouched(c, k)
    BY <1>6, <2>1, <2>2 DEF Untouched
  <2>4. QED
    BY <2>3 DEF Copies, SendableUntouched, RefusalsTrue
<1>12. ASSUME NEW d \in Conns, NEW k \in Seqs, NEW i \in 1 .. Len(outbox'[d]), Refusal(d, k, i)'
       PROVE  \/ Refusal(d, k, i) /\ i \in 1 .. Len(outbox[d])
              \/ d = c /\ k = h /\ i = Len(outbox[c]) + 1
  <2>1. i > read[d] /\ outbox'[d][i].kind = "restarting" /\ outbox'[d][i].request = k
    BY <1>12, <1>a DEF Refusal
  <2>2. CASE d # c
    BY <1>4, <2>1, <2>2 DEF Refusal
  <2>3. CASE d = c /\ i = Len(outbox[c]) + 1
    BY <1>3, <1>4, <2>1, <2>3
  <2>4. CASE d = c /\ i # Len(outbox[c]) + 1
    <3>1. i \in 1 .. Len(outbox[c])
      BY <1>4, <2>4
    <3>2. QED
      BY <1>4, <2>1, <2>4, <3>1 DEF Refusal
  <2>5. QED
    BY <2>2, <2>3, <2>4
<1>13. RefusalsTrue'
  <2> SUFFICES ASSUME NEW d \in Conns, NEW k \in Seqs, NEW i \in 1 .. Len(outbox'[d]),
                      Refusal(d, k, i)'
               PROVE  /\ pending[d][k] \notin Sendable
                      /\ Untouched(d, k)'
                      /\ \A j \in 1 .. Len(outbox'[d]) : Refusal(d, k, j)' => i = j
    BY <1>a DEF RefusalsTrue
  <2>1. CASE d = c /\ k = h
    <3>1. /\ Untouched(c, k)' /\ pending[c][k] \notin Sendable
          /\ \A j \in 1 .. Len(outbox[c]) : ~Refusal(c, k, j)
      BY <1>11, <2>1
    <3>2. \A j \in 1 .. Len(outbox'[c]) : Refusal(c, k, j)' => j = Len(outbox[c]) + 1
      BY <1>12, <3>1
    <3>3. QED
      BY <2>1, <3>1, <3>2
  <2>2. CASE ~(d = c /\ k = h)
    <3>1. \A j \in 1 .. Len(outbox'[d]) :
            Refusal(d, k, j)' => Refusal(d, k, j) /\ j \in 1 .. Len(outbox[d])
      BY <1>12, <2>2
    <3>2. QED
      BY <1>9, <3>1 DEF Copies, RefusalsTrue
  <2>3. QED
    BY <2>1, <2>2
<1>14. QED
  BY <1>5, <1>7, <1>8, <1>10, <1>13 DEF Copies

\* The client learns that a mutation was refused, and will send it again.
LEMMA CopiesRefused ==
  ASSUME Shapes, Copies, NEW c \in Conns, ReceiveRestarting(c)
  PROVE  Copies'
<1>0. FeedShape /\ WorkShape /\ ClientShape
  BY DEF Shapes
<1>1. Receiving(c, "restarting") /\ Settle(c, {Message(c).request}, "notAdmitted")
  BY DEF ReceiveRestarting
<1>a. UNCHANGED <<up, orphans, jobs, current, log, outbox>>
  BY <1>1 DEF Receiving, Settle, feedVars, daemonVars, linkVars
<1>2. /\ Message(c).kind = "restarting" /\ read[c] + 1 \in 1 .. Len(outbox[c])
      /\ read' \in [Conns -> Nat] /\ read'[c] = read[c] + 1 /\ read[c] \in Nat
      /\ \A d \in Conns : d # c => read'[d] = read[d]
  BY <1>0, <1>1, Receives DEF ClientShape
<1>3. \A d \in Conns : read'[d] >= read[d]
  <2>1. \A d \in Conns : read[d] \in Nat
    BY <1>0 DEF ClientShape
  <2>2. QED
    BY <1>2, <2>1
<1>4. \A d \in Conns, k \in Seqs : \A i \in 1 .. Len(outbox'[d]) :
        Refusal(d, k, i)' => Refusal(d, k, i)
  BY <1>0, <1>2, <1>3, <1>a, SameRefusals DEF ClientShape
<1>5. /\ \A k \in Seqs : pending'[c][k] = pending[c][k]
           \/ (pending'[c][k] = "notAdmitted" /\ k = Message(c).request)
      /\ \A d \in Conns : d # c => pending'[d] = pending[d]
  <2>1. "notAdmitted" \in Delivery
    BY DEF Delivery, Waiting
  <2>2. /\ \A k \in Seqs : pending'[c][k] = pending[c][k]
             \/ (pending'[c][k] = "notAdmitted" /\ k \in {Message(c).request} /\ pending[c][k] \in Waiting)
        /\ \A d \in Conns : d # c => pending'[d] = pending[d]
    BY <1>0, <1>1, <2>1, SettleShape
  <2>3. QED
    BY <2>2
<1>6. \A k \in Seqs : k = Message(c).request =>
        /\ Refusal(c, k, read[c] + 1) /\ Untouched(c, k)
        /\ \A i \in 1 .. Len(outbox[c]) : ~Refusal(c, k, i)'
  <2> SUFFICES ASSUME NEW k \in Seqs, k = Message(c).request
               PROVE  /\ Refusal(c, k, read[c] + 1) /\ Untouched(c, k)
                      /\ \A i \in 1 .. Len(outbox[c]) : ~Refusal(c, k, i)'
    OBVIOUS
  <2>1. Refusal(c, k, read[c] + 1)
    BY <1>2 DEF Refusal, Message
  <2>2. Untouched(c, k) /\ \A i \in 1 .. Len(outbox[c]) : Refusal(c, k, i) => i = read[c] + 1
    BY <1>2, <2>1 DEF Copies, RefusalsTrue
  <2>3. ASSUME NEW i \in 1 .. Len(outbox[c]), Refusal(c, k, i)'
        PROVE  FALSE
    <3>1. i = read[c] + 1
      BY <1>4, <1>a, <2>2, <2>3
    <3>2. i > read'[c]
      BY <2>3 DEF Refusal
    <3>3. QED
      BY <1>2, <3>1, <3>2
  <2>4. QED
    BY <2>1, <2>2, <2>3
<1>7. \A d \in Conns, k \in Seqs : Untouched(d, k)' <=> Untouched(d, k)
  BY <1>a DEF Untouched, Sending, Left, Queued, Runs, InLog
<1>8. SentOnce' /\ QueuedOnce' /\ OnePlace' /\ Recorded'
  BY <1>a DEF Copies, SentOnce, QueuedOnce, OnePlace, Recorded, Sending, Left, Queued, Runs, InLog
<1>9. SendableUntouched'
  <2> SUFFICES ASSUME NEW d \in Conns, NEW k \in Seqs, pending'[d][k] \in Sendable
               PROVE  Untouched(d, k)
    BY <1>7 DEF SendableUntouched
  <2>1. CASE pending'[d][k] = pending[d][k]
    BY <2>1 DEF Copies, SendableUntouched
  <2>2. CASE pending'[d][k] # pending[d][k]
    BY <1>5, <1>6, <2>2
  <2>3. QED
    BY <2>1, <2>2
<1>10. RefusalsTrue'
  <2> SUFFICES ASSUME NEW d \in Conns, NEW k \in Seqs, NEW i \in 1 .. Len(outbox'[d]),
                      Refusal(d, k, i)'
               PROVE  /\ pending'[d][k] \notin Sendable
                      /\ Untouched(d, k)'
                      /\ \A j \in 1 .. Len(outbox'[d]) : Refusal(d, k, j)' => i = j
    BY DEF RefusalsTrue
  <2>1. Refusal(d, k, i) /\ i \in 1 .. Len(outbox[d])
    BY <1>4 DEF Refusal
  <2>2. /\ pending[d][k] \notin Sendable /\ Untouched(d, k)
        /\ \A j \in 1 .. Len(outbox[d]) : Refusal(d, k, j) => i = j
    BY <2>1 DEF Copies, RefusalsTrue
  <2>3. pending'[d][k] = pending[d][k]
    <3>1. CASE d = c /\ k = Message(c).request
      BY <1>6, <1>a, <3>1
    <3>2. CASE ~(d = c /\ k = Message(c).request)
      BY <1>5, <3>2
    <3>3. QED
      BY <3>1, <3>2
  <2>4. QED
    BY <1>4, <1>7, <1>a, <2>2, <2>3
<1>11. QED
  BY <1>8, <1>9, <1>10 DEF Copies

\* Every step keeps what is known of the copies of a mutation.
LEMMA CopiesKept ==
  ASSUME Shapes, Followed, Copies, SyncNext
  PROVE  Copies'
<1>1. CASE DaemonNext
  BY <1>1, CopiesDaemon, CopiesTake, CopiesRun DEF DaemonNext
<1>2. ASSUME NEW c \in Conns, LinkNext(c)
      PROVE  Copies'
  BY <1>2, CopiesLink, CopiesAdmit, CopiesLost, CopiesRefuse DEF LinkNext
<1>3. ASSUME NEW c \in Conns, ClientNext(c)
      PROVE  Copies'
  BY <1>3, CopiesClient, CopiesSent, CopiesRefused DEF ClientNext, Receive
<1>4. QED
  BY <1>1, <1>2, <1>3 DEF SyncNext

-----------------------------------------------------------------------------
(***************************************************************************)
(* The theorems.                                                           *)
(***************************************************************************)

\* A set of positions without two different members is empty or a singleton.
LEMMA OnePosition ==
  ASSUME NEW n \in Nat, NEW S \in SUBSET (1 .. n), \A i, j \in S : i = j
  PROVE  /\ Cardinality(S) \in {0, 1}
         /\ S = {} => Cardinality(S) = 0
<1>1. CASE S = {}
  BY <1>1, FS_EmptySet
<1>2. CASE S # {}
  <2>0. PICK x \in S : TRUE
    BY <1>2
  <2>1. S = {x}
    BY <2>0
  <2>2. Cardinality({x}) = 1
    BY FS_Singleton
  <2>3. QED
    BY <1>2, <2>1, <2>2
<1>3. QED
  BY <1>1, <1>2

\* The number of copies of a mutation is that of the places it is in.
LEMMA UnderwayCounts ==
  ASSUME WorkShape, Copies, NEW c \in Conns, NEW k \in Seqs
  PROVE  /\ Underway(c, k) \in {0, 1}
         /\ Untouched(c, k) => Underway(c, k) = 0
         /\ InLog(c, k) => Underway(c, k) = (IF Runs(c, k) THEN 1 ELSE 0)
<1> DEFINE U == {i \in 1 .. Len(up[c]) : up[c][i] = k}
           J == {i \in 1 .. Len(jobs) : jobs[i].by = c /\ jobs[i].seq = k}
<1>1. Len(up[c]) \in Nat /\ Len(jobs) \in Nat
  BY JobsAppend DEF WorkShape
<1>2. (\A i, j \in U : i = j) /\ (\A i, j \in J : i = j)
  BY DEF Copies, SentOnce, QueuedOnce
<1>3. Cardinality(U) \in {0, 1} /\ (U = {} => Cardinality(U) = 0)
  BY <1>1, <1>2, OnePosition
<1>4. Cardinality(J) \in {0, 1} /\ (J = {} => Cardinality(J) = 0)
  BY <1>1, <1>2, OnePosition
<1>5. (U # {} <=> Sending(c, k)) /\ (J # {} <=> Queued(c, k))
  BY DEF Sending, Queued
<1>6. Underway(c, k) = Cardinality(U) + (IF Left(c, k) THEN 1 ELSE 0) + Cardinality(J)
                       + (IF Runs(c, k) THEN 1 ELSE 0)
  BY DEF Underway, Left, Runs
<1>7. /\ Sending(c, k) => ~Left(c, k) /\ ~Queued(c, k) /\ ~Runs(c, k) /\ ~InLog(c, k)
      /\ Left(c, k) => ~Queued(c, k) /\ ~Runs(c, k) /\ ~InLog(c, k)
      /\ Queued(c, k) => ~Runs(c, k) /\ ~InLog(c, k)
  BY DEF Copies, OnePlace
<1> HIDE DEF U, J
<1>8. QED
  BY <1>3, <1>4, <1>5, <1>6, <1>7 DEF Untouched

\* The inductive invariant of the copies of mutations and of the position of
\* clients: shapes, one place for each copy, nothing sendable that was sent.
THEOREM SyncInvariant == SyncSpec => []SyncInv
<1>1. SyncInit => SyncInv
  <2> SUFFICES ASSUME SyncInit PROVE SyncInv
    OBVIOUS
  <2> USE DEF SyncInit, Init
  <2>1. FeedShape
    BY DEF FeedShape
  <2>2. NoJob \in Works /\ NoJob.by = Daemon
    BY DEF NoJob, Works, Authors
  <2>3. WorkShape
    BY <2>2 DEF WorkShape
  <2>4. ClientShape
    BY DEF ClientShape, Delivery
  <2>5. \A c \in Conns, k \in Seqs : Untouched(c, k)
    BY <2>2, SyncAssumption DEF Untouched, Sending, Left, Queued, Runs, InLog
  <2>6. SentOnce /\ QueuedOnce /\ OnePlace
    BY <2>5 DEF SentOnce, QueuedOnce, OnePlace, Untouched
  <2>7. Recorded
    BY DEF Recorded
  <2>8. SendableUntouched /\ RefusalsTrue
    BY <2>5 DEF SendableUntouched, RefusalsTrue
  <2>9. Followed
    BY DEF Followed
  <2>10. QED
    BY <2>1, <2>3, <2>4, <2>6, <2>7, <2>8, <2>9 DEF SyncInv, Shapes, Copies
<1>2. SyncInv /\ [SyncNext]_vars => SyncInv'
  <2> SUFFICES ASSUME SyncInv, [SyncNext]_vars PROVE SyncInv'
    OBVIOUS
  <2>1. CASE SyncNext
    BY <2>1, ShapesKept, CopiesKept, FollowedKept DEF SyncInv
  <2>2. CASE UNCHANGED vars
    <3>1. UNCHANGED <<log, published, tail, held, at, active, replay, outbox>>
          /\ UNCHANGED <<up, orphans, jobs, current, ready>>
          /\ UNCHANGED <<state, pending, inFlight, read, last, base, applied>>
      BY <2>2 DEF vars, feedVars, daemonVars, linkVars, clientVars
    <3>2. Shapes'
      BY <3>1 DEF SyncInv, Shapes, FeedShape, WorkShape, ClientShape
    <3>3. Followed'
      BY <3>1 DEF SyncInv, Followed
    <3>4. Copies'
      <4>1. \A d \in Conns, k \in Seqs : \A i \in 1 .. Len(outbox'[d]) :
              Refusal(d, k, i)' => Refusal(d, k, i)
        BY <3>1 DEF Refusal
      <4>2. QED
        BY <3>1, <4>1, CopiesStay DEF SyncInv, Runs
    <3>5. QED
      BY <3>2, <3>3, <3>4 DEF SyncInv
  <2>3. QED
    BY <2>1, <2>2
<1>3. QED
  BY <1>1, <1>2, PTL DEF SyncSpec

\* MutationOnce for every number of clients, mutations, connections, restarts
\* and crashes: no mutation is executed twice, whatever was sent again.
THEOREM MutationsOnce == SyncSpec => []MutationOnce
<1>1. SyncInv => MutationOnce
  <2> SUFFICES ASSUME SyncInv, NEW c \in Conns, NEW k \in Seqs
               PROVE  /\ Underway(c, k) <= 1
                      /\ \A m, n \in 1 .. Len(log) :
                           log[m] = log[n] /\ log[n].by = c /\ log[n].seq = k => m = n
                      /\ InLog(c, k) /\ Underway(c, k) = 1 => current.by = c /\ current.seq = k
    BY DEF MutationOnce
  <2>1. WorkShape /\ Copies
    BY DEF SyncInv, Shapes
  <2>2. /\ Underway(c, k) \in {0, 1}
        /\ InLog(c, k) => Underway(c, k) = (IF Runs(c, k) THEN 1 ELSE 0)
    BY <2>1, UnderwayCounts
  <2>3. Underway(c, k) <= 1 /\ (InLog(c, k) /\ Underway(c, k) = 1 => Runs(c, k))
    BY <2>2
  <2>4. QED
    BY <2>1, <2>3 DEF Copies, Recorded, Runs
<1>2. QED
  BY <1>1, SyncInvariant, PTL

\* RefusedNeverRan for every instance: a mutation that client-core holds as
\* NotAdmitted and will send again has no event and no copy anywhere.
THEOREM RefusedStaysOut == SyncSpec => []RefusedNeverRan
<1>1. SyncInv => RefusedNeverRan
  <2> SUFFICES ASSUME SyncInv, NEW c \in Conns, NEW k \in Seqs, pending[c][k] = "notAdmitted"
               PROVE  ~InLog(c, k) /\ Underway(c, k) = 0
    BY DEF RefusedNeverRan
  <2>1. WorkShape /\ Copies
    BY DEF SyncInv, Shapes
  <2>2. Untouched(c, k)
    BY <2>1 DEF Copies, SendableUntouched, Sendable
  <2>3. QED
    BY <2>1, <2>2, UnderwayCounts DEF Untouched
<1>2. QED
  BY <1>1, SyncInvariant, PTL

\* A step folds in nothing, or one event after the last one seen.
LEMMA FoldsNext ==
  ASSUME Shapes, Followed, SyncNext, NEW c \in Conns, applied'[c] # applied[c]
  PROVE  \E n \in Nat : applied'[c] = applied[c] \cup {n} /\ last[c] # NoSeq /\ n > last[c]
<1>0. ClientShape
  BY DEF Shapes
<1>a. ASSUME NEW d \in Conns, NEW n \in Nat, Applied(d, n), last[d] # NoSeq, n > last[d]
      PROVE  \E m \in Nat : applied'[c] = applied[c] \cup {m} /\ last[c] # NoSeq /\ m > last[c]
  <2>1. applied'[d] = applied[d] \cup {n} /\ \A e \in Conns : e # d => applied'[e] = applied[e]
    BY <1>0, <1>a, AppliedShape
  <2>2. c = d
    BY <2>1
  <2>3. QED
    BY <1>a, <2>1, <2>2
<1>1. PICK d \in Conns : ReceiveEvent(d) \/ ReceiveCommitted(d)
  BY ZenonT(30) DEF SyncNext, DaemonNext, LinkNext, ClientNext, Receive, SystemJob, TakeJob, RunJob, EndJob,
         PublishJob, FinishJob, PrepareRestart, Exit, Crash, Gone, StartDaemon, Dial, Welcome,
         DialFailed, ConnectionLost, Admit, Refuse, Subscribe, Feed, Answer, Drain, AdmitOrphan,
         Mutate, CloseReview, ReceiveSubscribed, ReceiveFailed, ReceiveRestarting,
         ReceiveInterrupted, ReceiveSeqTooOld, Settle, clientVars
<1>2. CASE ReceiveEvent(d)
  <2>1. Message(d) \in SyncMsgs /\ Message(d).kind = "event"
    BY <1>2, Receives DEF ReceiveEvent
  <2>2. Message(d).seq \in Nat
    BY <2>1 DEF SyncMsgs, Answers
  <2>3. Accepts(d, Message(d).seq) /\ Applied(d, Message(d).seq)
    BY <1>2 DEF ReceiveEvent
  <2>4. last[d] # NoSeq /\ Message(d).seq > last[d]
    BY <2>3 DEF Accepts, Followed
  <2>5. QED
    BY <1>a, <2>2, <2>3, <2>4
<1>3. CASE ReceiveCommitted(d)
  <2>1. Message(d) \in SyncMsgs /\ Message(d).kind = "committed"
    BY <1>3, Receives DEF ReceiveCommitted
  <2>2. Message(d).seq \in Int
    BY <2>1 DEF SyncMsgs, Answers
  <2>3. Message(d).request \in inFlight[d] /\ ~EchoSeen(d, Message(d).seq) /\ Applied(d, Message(d).seq)
    BY <1>3 DEF ReceiveCommitted
  <2>4. last[d] # NoSeq /\ last[d] \in Nat
    BY <1>0, <2>3 DEF Followed, ClientShape
  <2>5. Message(d).seq \in Nat /\ Message(d).seq > last[d]
    BY <2>2, <2>3, <2>4 DEF EchoSeen
  <2>6. QED
    BY <1>a, <2>3, <2>4, <2>5
<1>4. QED
  BY <1>1, <1>2, <1>3

\* AppliedOnce for every instance: no event is folded into the view twice or
\* behind a later one, whatever a reconnect replays and whichever of receipt
\* and broadcast comes first.
THEOREM AppliedInOrder == SyncSpec => AppliedOnce
<1>1. SyncInv /\ [SyncNext]_vars =>
        [\A c \in Conns : \A n \in 1 .. Len(log) :
           n \in applied'[c] \ applied[c] =>
             /\ \A m \in applied[c] : m < n
             /\ base[c] # NoSeq /\ n > base[c]]_vars
  <2> SUFFICES ASSUME SyncInv, SyncNext, NEW c \in Conns, NEW n \in 1 .. Len(log),
                      n \in applied'[c] \ applied[c]
               PROVE  /\ \A m \in applied[c] : m < n
                      /\ base[c] # NoSeq /\ n > base[c]
    OBVIOUS
  <2>1. Shapes /\ Followed /\ ClientShape
    BY DEF SyncInv, Shapes
  <2>2. n \in Nat /\ last[c] # NoSeq /\ n > last[c]
    <3>1. PICK i \in Nat : applied'[c] = applied[c] \cup {i} /\ last[c] # NoSeq /\ i > last[c]
      BY <2>1, FoldsNext
    <3>2. QED
      BY <3>1
  <2>3. last[c] \in Nat /\ base[c] \in Nat /\ base[c] <= last[c]
        /\ \A m \in applied[c] : m \in Nat /\ m <= last[c]
    BY <2>1, <2>2 DEF Followed, ClientShape
  <2>4. QED
    BY <2>2, <2>3, SyncAssumption
<1>2. QED
  BY <1>1, SyncInvariant, PTL DEF SyncSpec, AppliedOnce

-----------------------------------------------------------------------------
(***************************************************************************)
(* What a client has been told of the log. Its last_seq follows the events *)
(* and answers queued for it, each the successor of a position it has or   *)
(* is about to be told of, unless it is told first that broadcasts were    *)
(* lost; a receipt may be ahead of all of them.                            *)
(***************************************************************************)
Unread(c, i) == i \in 1 .. Len(outbox[c]) /\ i > read[c]
UnreadOf(c, i, kind) == Unread(c, i) /\ outbox[c][i].kind = kind

\* Before its i-th message the client has been told that broadcasts were lost,
\* or it has got to position n.
LagBefore(c, i) ==
  lagSeen[c] \/ \E j \in 1 .. (i - 1) : UnreadOf(c, j, "seqTooOld")
ReachedBefore(c, i, n) ==
  \/ last[c] # NoSeq /\ n <= last[c]
  \/ \E j \in 1 .. (i - 1) :
       Unread(c, j) /\ outbox[c][j].kind \in {"event", "subscribed"} /\ n <= outbox[c][j].seq
KnownBefore(c, i, n) == LagBefore(c, i) \/ ReachedBefore(c, i, n)

\* The same of everything queued.
Lags(c) == LagBefore(c, Len(outbox[c]) + 1)
Told(c, n) == KnownBefore(c, Len(outbox[c]) + 1, n)

\* Nothing is ahead of the log.
Behind(c) ==
  /\ tail[c] <= published
  /\ held[c] \in {0, tail[c]}
  /\ replay[c].on => replay[c].upto <= Len(log) /\ replay[c].head = replay[c].upto
QueueBehind(c) ==
  /\ last[c] # NoSeq => last[c] <= Len(log)
  /\ read[c] <= Len(outbox[c])
  /\ \A i \in 1 .. Len(outbox[c]) :
       /\ outbox[c][i].kind \in {"event", "subscribed"} => outbox[c][i].seq <= Len(log)
       /\ outbox[c][i].kind = "event" => outbox[c][i].seq # 0

\* A connection subscribes once.
Linked(c) ==
  /\ c \notin open => held[c] = 0 /\ active[c] = {} /\ ~replay[c].on /\ outbox[c] = <<>> /\ read[c] = 0
  /\ c \in open <=> state[c] \in {"hello", "subscribed"}
  /\ \A i \in 1 .. Len(up[c]) : up[c][i] = SubscribeRequest =>
       Len(up[c]) = 1 /\ state[c] = "hello" /\ ~replay[c].on /\ active[c] = {}
  /\ state[c] = "subscribed" => active[c] # {}

\* Only a client that was never subscribed asks for the log's end.
Asked(c) ==
  replay[c].on =>
    /\ replay[c].since.now <=> last[c] = NoSeq
    /\ at[c] <= replay[c].upto + 1
    /\ IF replay[c].since.now THEN at[c] = replay[c].upto + 1 ELSE replay[c].since.after < at[c]
    /\ replay[c].since.after <= replay[c].upto

\* The answer to Subscribe is behind the replay and before live events.
AwaitsAnswer(c) == \E i \in 1 .. Len(outbox[c]) : UnreadOf(c, i, "subscribed")
Ordered(c) ==
  /\ active[c] # {} => ~replay[c].on /\ (last[c] # NoSeq \/ AwaitsAnswer(c))
  /\ \A i \in 1 .. Len(outbox[c]) :
       /\ UnreadOf(c, i, "subscribed") =>
            active[c] # {} /\ \A j \in 1 .. Len(outbox[c]) : UnreadOf(c, j, "subscribed") => i = j
       /\ UnreadOf(c, i, "event") =>
            last[c] # NoSeq \/ \E j \in 1 .. (i - 1) : UnreadOf(c, j, "subscribed")

\* What is queued continues what the client has got to before it.
Stream(c) ==
  \A i \in 1 .. Len(outbox[c]) :
    /\ UnreadOf(c, i, "event") => KnownBefore(c, i, outbox[c][i].seq - 1)
    /\ UnreadOf(c, i, "subscribed") =>
         last[c] = NoSeq \/ KnownBefore(c, i, outbox[c][i].seq)

\* What the connection takes as sent has been queued.
Feeding(c) ==
  /\ active[c] # {} =>
       /\ Told(c, delivered[c][All])
       /\ Processed(c) <= delivered[c][All] \/ Lags(c)
  /\ replay[c].on =>
       /\ replay[c].since.now \/ Told(c, at[c] - 1)
       /\ Processed(c) <= replay[c].upto \/ Lags(c)

\* The running job wrote the end of the log; a mutation's second event follows
\* its first.
Owned(j) ==
  \/ j.by = Daemon /\ j.seq = 0 /\ j.events <= 1
  \/ j.by \in Conns /\ j.seq \in Seqs /\ j.events <= 2
FirstEvent == Len(log) - current.events + 1
JobLog ==
  /\ \A i \in 1 .. Len(jobs) : Owned(jobs[i]) /\ jobs[i].events = 0
  /\ Owned(current)
  /\ current.phase \in {"none", "queued"} => current.events = 0
  /\ current.phase = "ok" => current.events > 0
  /\ current.events <= Len(log)
  /\ current.events > 0 => log[FirstEvent] = Part(current.by, current.seq, 1)
  /\ \A n \in 1 .. Len(log) :
       /\ log[n] \in SyncTopics
       /\ log[n].part # 1 => n > 1 /\ log[n - 1] = Part(log[n].by, log[n].seq, 1)

\* A receipt names the first event of its mutation.
Names(c, r) == r.seq \in 1 .. Len(log) /\ log[r.seq] = Part(c, r.request, 1)
Receipts(c) ==
  /\ \A i \in 1 .. Len(outbox[c]) : outbox[c][i].kind = "committed" => Names(c, outbox[c][i])
  /\ \A r \in ready[c] : r.kind = "committed" => Names(c, r)

\* A mutation begins after its client's first subscription.
Begun(c) ==
  /\ \A k \in Seqs : pending[c][k] # "unused" => last[c] # NoSeq
  /\ \A n \in 1 .. Len(log) : log[n].by = c => base[c] # NoSeq /\ n > base[c]
  /\ last[c] # NoSeq => base[c] # NoSeq

\* The receipt of a mutation of the client took last_seq over position n.
Skipped(c, n) == \E m \in applied[c] : n < m /\ log[m].by = c /\ log[m].part = 1

\* Whatever is behind the client's position has been folded in or skipped for
\* a receipt, and the last event is folded in.
Shown(c) ==
  \/ lagSeen[c]
  \/ last[c] = NoSeq
  \/ /\ last[c] = base[c] \/ last[c] \in applied[c]
     /\ \A n \in Nat : base[c] < n /\ n <= last[c] => n \in applied[c] \/ Skipped(c, n)

Follows(c) ==
  Behind(c) /\ QueueBehind(c) /\ Linked(c) /\ Asked(c) /\ Ordered(c) /\ Stream(c) /\ Feeding(c)
ToldInv ==
  /\ published <= Len(log)
  /\ delivered \in [Conns -> [Scopes -> Nat]]
  /\ lagSeen \in [Conns -> BOOLEAN]
  /\ JobLog
  /\ \A c \in Conns : Follows(c) /\ Receipts(c) /\ Begun(c) /\ Shown(c)
  /\ CommittedShown

\* What a step does to what client c is told: nothing, one message more, or
\* one message handled.
SameCourse(c) == last'[c] = last[c] /\ lagSeen'[c] = lagSeen[c]
Mute(c) == outbox'[c] = outbox[c] /\ read'[c] = read[c] /\ SameCourse(c)
Hears(c, m) ==
  m \in SyncMsgs /\ outbox'[c] = Append(outbox[c], m) /\ read'[c] = read[c] /\ SameCourse(c)
Handles(c) ==
  /\ outbox'[c] = outbox[c]
  /\ read[c] < Len(outbox[c]) /\ read'[c] = read[c] + 1
  /\ lagSeen[c] => lagSeen'[c]
  /\ Message(c).kind = "seqTooOld" => lagSeen'[c]
  /\ last'[c] \in {NoSeq} \cup Nat
  /\ last[c] # NoSeq => last'[c] # NoSeq /\ last[c] <= last'[c]
  /\ last[c] = NoSeq /\ last'[c] # NoSeq => Message(c).kind = "subscribed"
  /\ Message(c).kind = "subscribed" => last'[c] # NoSeq
  /\ Message(c).kind \in {"event", "subscribed"} /\ last'[c] # NoSeq => Message(c).seq <= last'[c]

\* A client's queue, its place in it and its position.
LEMMA QueueOf ==
  ASSUME Shapes, NEW c \in Conns
  PROVE  /\ outbox[c] \in Seq(SyncMsgs) /\ Len(outbox[c]) \in Nat /\ read[c] \in Nat
         /\ last[c] \in {NoSeq} \cup Nat /\ NoSeq \notin Nat
         /\ \A i \in 1 .. Len(outbox[c]) : outbox[c][i] \in SyncMsgs
         /\ Len(log) \in Nat /\ published \in Nat
         /\ tail[c] \in Nat /\ held[c] \in Nat /\ at[c] \in Nat
         /\ active[c] \in SUBSET {All} /\ replay[c] \in {NoReplay} \cup Replays
  BY SyncAssumption DEF Shapes, FeedShape, ClientShape

\* The numbers in messages.
LEMMA MessageNumbers ==
  ASSUME NEW m \in SyncMsgs
  PROVE  /\ m.kind \in {"event", "subscribed", "seqTooOld"} => m.seq \in Nat
         /\ m.kind = "committed" => m.seq \in Int /\ m.request \in Nat
  BY DEF SyncMsgs, Answers

\* One message more.
LEMMA HearsGrows ==
  ASSUME Shapes, NEW c \in Conns, NEW m, Hears(c, m)
  PROVE  /\ Len(outbox'[c]) = Len(outbox[c]) + 1
         /\ \A i \in 1 .. Len(outbox[c]) : outbox'[c][i] = outbox[c][i]
         /\ outbox'[c][Len(outbox[c]) + 1] = m
         /\ outbox'[c] \in Seq(SyncMsgs)
  BY QueueOf DEF Hears

\* Who hears a message has the older ones unread as before, and the new one.
LEMMA UnreadHears ==
  ASSUME Shapes, NEW c \in Conns, NEW m, Hears(c, m), QueueBehind(c)
  PROVE  /\ \A i \in 1 .. Len(outbox[c]) : Unread(c, i)' <=> Unread(c, i)
         /\ \A i : i = Len(outbox[c]) + 1 => Unread(c, i)'
         /\ \A i \in 1 .. Len(outbox[c]) : \A kind : UnreadOf(c, i, kind)' <=> UnreadOf(c, i, kind)
         /\ \A i, kind : i = Len(outbox[c]) + 1 => (UnreadOf(c, i, kind)' <=> m.kind = kind)
<1>1. Len(outbox[c]) \in Nat /\ read[c] \in Nat /\ read'[c] = read[c] /\ read[c] <= Len(outbox[c])
  BY QueueOf DEF Hears, QueueBehind
<1>2. /\ Len(outbox'[c]) = Len(outbox[c]) + 1
      /\ \A i \in 1 .. Len(outbox[c]) : outbox'[c][i] = outbox[c][i]
      /\ outbox'[c][Len(outbox[c]) + 1] = m
  BY HearsGrows
<1>3. \A i \in 1 .. Len(outbox[c]) : Unread(c, i)' <=> Unread(c, i)
  BY <1>1, <1>2 DEF Unread
<1>4. \A i : i = Len(outbox[c]) + 1 => Unread(c, i)'
  BY <1>1, <1>2 DEF Unread
<1>5. \A i \in 1 .. Len(outbox[c]) : \A kind : UnreadOf(c, i, kind)' <=> UnreadOf(c, i, kind)
  BY <1>2, <1>3 DEF UnreadOf
<1>6. \A i, kind : i = Len(outbox[c]) + 1 => (UnreadOf(c, i, kind)' <=> m.kind = kind)
  BY <1>2, <1>4 DEF UnreadOf
<1>7. QED
  BY <1>3, <1>4, <1>5, <1>6

\* What was known before a message is known before it when more is queued.
LEMMA KnownHears ==
  ASSUME Shapes, NEW c \in Conns, NEW m, Hears(c, m), QueueBehind(c)
  PROVE  /\ \A i \in 1 .. (Len(outbox[c]) + 1), n \in Int : KnownBefore(c, i, n)' <=> KnownBefore(c, i, n)
         /\ \A n \in Int : Told(c, n) => Told(c, n)'
         /\ Lags(c) => Lags(c)'
         /\ m.kind = "seqTooOld" => Lags(c)'
         /\ m.kind \in {"event", "subscribed"} => \A n \in Int : n <= m.seq => Told(c, n)'
<1> DEFINE L == Len(outbox[c])
<1>1. L \in Nat /\ Len(outbox'[c]) = L + 1
      /\ (\A i \in 1 .. L : outbox'[c][i] = outbox[c][i])
      /\ outbox'[c][L + 1] = m
  BY QueueOf, HearsGrows
<1>2. last'[c] = last[c] /\ lagSeen'[c] = lagSeen[c]
  BY DEF Hears, SameCourse
<1>3. /\ \A i \in 1 .. L : Unread(c, i)' <=> Unread(c, i)
      /\ \A i : i = L + 1 => Unread(c, i)'
      /\ \A i \in 1 .. L : UnreadOf(c, i, "seqTooOld")' <=> UnreadOf(c, i, "seqTooOld")
      /\ \A i : i = L + 1 => (UnreadOf(c, i, "seqTooOld")' <=> m.kind = "seqTooOld")
  BY UnreadHears
<1>4. \A i \in 1 .. (L + 1) : LagBefore(c, i)' <=> LagBefore(c, i)
  <2> SUFFICES ASSUME NEW i \in 1 .. (L + 1) PROVE LagBefore(c, i)' <=> LagBefore(c, i)
    OBVIOUS
  <2>1. \A j \in 1 .. (i - 1) : j \in 1 .. L
    BY <1>1
  <2> HIDE DEF L
  <2>2. QED
    BY <1>2, <1>3, <2>1 DEF LagBefore
<1>5. \A i \in 1 .. (L + 1), n \in Int : ReachedBefore(c, i, n)' <=> ReachedBefore(c, i, n)
  <2> SUFFICES ASSUME NEW i \in 1 .. (L + 1), NEW n \in Int
               PROVE  ReachedBefore(c, i, n)' <=> ReachedBefore(c, i, n)
    OBVIOUS
  <2>1. \A j \in 1 .. (i - 1) : j \in 1 .. L
    BY <1>1
  <2>2. QED
    BY <1>1, <1>2, <1>3, <2>1 DEF ReachedBefore
<1>6. \A i \in Nat : i = L + 2 => (LagBefore(c, L + 1) \/ m.kind = "seqTooOld" => LagBefore(c, i)')
  <2> SUFFICES ASSUME NEW i \in Nat, i = L + 2, LagBefore(c, L + 1) \/ m.kind = "seqTooOld"
               PROVE  LagBefore(c, i)'
    OBVIOUS
  <2>1. \A j \in 1 .. (L + 1 - 1) : j \in 1 .. L /\ j \in 1 .. (i - 1)
    BY <1>1
  <2>2. \A j \in Nat : j = L + 1 => j \in 1 .. (i - 1)
    BY <1>1
  <2>3. L + 1 \in Nat /\ 1 .. (L + 1 - 1) = 1 .. L
    BY <1>1
  <2>a. LagBefore(c, L + 1) <=> lagSeen[c] \/ \E j \in 1 .. (L + 1 - 1) : UnreadOf(c, j, "seqTooOld")
    BY DEF LagBefore
  <2> HIDE DEF L
  <2>4. CASE LagBefore(c, L + 1)
    <3>1. lagSeen[c] \/ \E j \in 1 .. (L + 1 - 1) : UnreadOf(c, j, "seqTooOld")
      BY <2>4, <2>a
    <3>2. ASSUME NEW j \in 1 .. (L + 1 - 1), UnreadOf(c, j, "seqTooOld")
          PROVE  LagBefore(c, i)'
      BY <1>3, <2>1, <3>2 DEF LagBefore
    <3>3. QED
      BY <1>2, <3>1, <3>2 DEF LagBefore
  <2>5. CASE m.kind = "seqTooOld"
    <3>1. PICK j \in Nat : j = L + 1
      BY <2>3
    <3>2. UnreadOf(c, j, "seqTooOld")' /\ j \in 1 .. (i - 1)
      BY <1>3, <2>2, <2>5, <3>1
    <3>3. QED
      BY <3>2 DEF LagBefore
  <2>6. QED
    BY <2>4, <2>5
<1>7. /\ Lags(c) => Lags(c)'
      /\ m.kind = "seqTooOld" => Lags(c)'
  <2>1. PICK i \in Nat : i = L + 2
    BY <1>1
  <2>2. (LagBefore(c, L + 1) \/ m.kind = "seqTooOld" => LagBefore(c, i)') /\ Len(outbox'[c]) + 1 = i
    BY <1>1, <1>6, <2>1
  <2>3. QED
    BY <2>2 DEF Lags
<1>8. \A i \in Nat, n \in Int : i = L + 2 /\ ReachedBefore(c, L + 1, n) => ReachedBefore(c, i, n)'
  <2> SUFFICES ASSUME NEW i \in Nat, NEW n \in Int, i = L + 2, ReachedBefore(c, L + 1, n)
               PROVE  ReachedBefore(c, i, n)'
    OBVIOUS
  <2>1. CASE last[c] # NoSeq /\ n <= last[c]
    BY <1>2, <2>1 DEF ReachedBefore
  <2>2. CASE \E j \in 1 .. (L + 1 - 1) :
               Unread(c, j) /\ outbox[c][j].kind \in {"event", "subscribed"} /\ n <= outbox[c][j].seq
    <3>1. PICK j \in 1 .. L :
               Unread(c, j) /\ outbox[c][j].kind \in {"event", "subscribed"} /\ n <= outbox[c][j].seq
      BY <1>1, <2>2
    <3>2. Unread(c, j)' /\ outbox'[c][j] = outbox[c][j]
      BY <1>1, <1>3, <3>1
    <3>3. j \in 1 .. (i - 1)
      BY <1>1
    <3>4. QED
      BY <3>1, <3>2, <3>3 DEF ReachedBefore
  <2>3. QED
    BY <2>1, <2>2 DEF ReachedBefore
<1>9. \A i \in Nat, n \in Int :
        i = L + 2 /\ m.kind \in {"event", "subscribed"} /\ n <= m.seq => ReachedBefore(c, i, n)'
  <2> SUFFICES ASSUME NEW i \in Nat, NEW n \in Int, i = L + 2, m.kind \in {"event", "subscribed"},
                      n <= m.seq
               PROVE  ReachedBefore(c, i, n)'
    OBVIOUS
  <2>1. PICK j \in Nat : j = L + 1
    BY <1>1
  <2>2. Unread(c, j)' /\ outbox'[c][j] = m /\ j \in 1 .. (i - 1)
    BY <1>1, <1>3, <2>1
  <2>3. QED
    BY <2>2 DEF ReachedBefore
<1>10. /\ \A n \in Int : Told(c, n) => Told(c, n)'
       /\ m.kind \in {"event", "subscribed"} => \A n \in Int : n <= m.seq => Told(c, n)'
  <2>1. PICK i \in Nat : i = L + 2
    BY <1>1
  <2>2. Len(outbox'[c]) + 1 = i
    BY <1>1, <2>1
  <2>3. \A n \in Int : Told(c, n)' <=> KnownBefore(c, i, n)'
    BY <2>2 DEF Told
  <2>4. \A n \in Int : Told(c, n) <=> LagBefore(c, L + 1) \/ ReachedBefore(c, L + 1, n)
    BY DEF Told, KnownBefore
  <2> HIDE DEF L
  <2>5. QED
    BY <1>6, <1>8, <1>9, <2>1, <2>3, <2>4 DEF KnownBefore
<1>11. QED
  BY <1>4, <1>5, <1>7, <1>10 DEF KnownBefore

\* A step that does not concern the client leaves what it knows.
LEMMA KnownMute ==
  ASSUME NEW c \in Conns, Mute(c)
  PROVE  /\ \A i, n : KnownBefore(c, i, n)' <=> KnownBefore(c, i, n)
         /\ \A n : Told(c, n)' <=> Told(c, n)
         /\ Lags(c)' <=> Lags(c)
         /\ \A i : Unread(c, i)' <=> Unread(c, i)
         /\ \A i, kind : UnreadOf(c, i, kind)' <=> UnreadOf(c, i, kind)
<1>1. /\ \A i : Unread(c, i)' <=> Unread(c, i)
      /\ \A i, kind : UnreadOf(c, i, kind)' <=> UnreadOf(c, i, kind)
  BY DEF Mute, Unread, UnreadOf
<1>2. \A i : LagBefore(c, i)' <=> LagBefore(c, i)
  BY <1>1 DEF Mute, SameCourse, LagBefore
<1>3. \A i, n : ReachedBefore(c, i, n)' <=> ReachedBefore(c, i, n)
  BY <1>1 DEF Mute, SameCourse, ReachedBefore
<1>4. \A i, n : KnownBefore(c, i, n)' <=> KnownBefore(c, i, n)
  BY <1>2, <1>3 DEF KnownBefore
<1>5. Len(outbox'[c]) = Len(outbox[c])
  BY DEF Mute
<1>6. QED
  BY <1>1, <1>2, <1>4, <1>5 DEF Told, Lags

\* Handling a message keeps what is known before the others.
LEMMA KnownHandles ==
  ASSUME Shapes, NEW c \in Conns, Handles(c), Ordered(c)
  PROVE  /\ \A i \in (read[c] + 2) .. (Len(outbox[c]) + 1), n \in Int :
              KnownBefore(c, i, n) => KnownBefore(c, i, n)'
         /\ \A n \in Int : Told(c, n) => Told(c, n)'
         /\ Lags(c) => Lags(c)'
         /\ \A i : Unread(c, i)' <=> Unread(c, i) /\ i # read[c] + 1
         /\ \A i, kind : UnreadOf(c, i, kind)' <=> UnreadOf(c, i, kind) /\ i # read[c] + 1
<1>1. /\ outbox'[c] = outbox[c] /\ Len(outbox[c]) \in Nat /\ read[c] \in Nat
      /\ read'[c] = read[c] + 1 /\ read[c] < Len(outbox[c])
      /\ last[c] \in {NoSeq} \cup Nat /\ last'[c] \in {NoSeq} \cup Nat /\ NoSeq \notin Nat
      /\ \A i \in 1 .. Len(outbox[c]) : outbox[c][i] \in SyncMsgs
  BY QueueOf DEF Handles
<1>2. /\ \A i : Unread(c, i)' <=> Unread(c, i) /\ i # read[c] + 1
      /\ \A i, kind : UnreadOf(c, i, kind)' <=> UnreadOf(c, i, kind) /\ i # read[c] + 1
  BY <1>1 DEF Unread, UnreadOf
<1>3. \A i : LagBefore(c, i) => LagBefore(c, i)'
  <2> SUFFICES ASSUME NEW i, LagBefore(c, i) PROVE LagBefore(c, i)'
    OBVIOUS
  <2>1. CASE lagSeen[c]
    BY <2>1 DEF Handles, LagBefore
  <2>2. CASE \E j \in 1 .. (i - 1) : UnreadOf(c, j, "seqTooOld")
    <3>1. PICK j \in 1 .. (i - 1) : UnreadOf(c, j, "seqTooOld")
      BY <2>2
    <3>2. CASE j = read[c] + 1
      BY <3>1, <3>2 DEF UnreadOf, Message, Handles, LagBefore
    <3>3. CASE j # read[c] + 1
      BY <1>2, <3>1, <3>3 DEF LagBefore
    <3>4. QED
      BY <3>2, <3>3
  <2>3. QED
    BY <2>1, <2>2 DEF LagBefore
<1>4. ASSUME NEW i \in (read[c] + 2) .. (Len(outbox[c]) + 1), NEW n \in Int, ReachedBefore(c, i, n)
      PROVE  ReachedBefore(c, i, n)'
  <2>1. CASE last[c] # NoSeq /\ n <= last[c]
    <3>1. last'[c] # NoSeq /\ last[c] <= last'[c]
      BY <2>1 DEF Handles
    <3>2. n <= last'[c]
      BY <1>1, <2>1, <3>1
    <3>3. QED
      BY <3>1, <3>2 DEF ReachedBefore
  <2>2. ASSUME NEW j \in 1 .. (i - 1), Unread(c, j), outbox[c][j].kind \in {"event", "subscribed"},
               n <= outbox[c][j].seq
        PROVE  ReachedBefore(c, i, n)'
    <3>1. CASE j # read[c] + 1
      BY <1>1, <1>2, <2>2, <3>1 DEF ReachedBefore
    <3>2. CASE j = read[c] + 1
      <4>1. Message(c) = outbox[c][j] /\ j \in 1 .. Len(outbox[c])
        BY <1>1, <3>2 DEF Message
      <4>2. last'[c] # NoSeq
        <5>1. CASE Message(c).kind = "subscribed"
          BY <5>1 DEF Handles
        <5>2. CASE Message(c).kind = "event"
          <6>1. UnreadOf(c, j, "event")
            BY <2>2, <4>1, <5>2 DEF UnreadOf
          <6>2. ~ \E k \in 1 .. (j - 1) : UnreadOf(c, k, "subscribed")
            BY <1>1, <3>2 DEF UnreadOf, Unread
          <6>3. last[c] # NoSeq
            BY <4>1, <6>1, <6>2 DEF Ordered
          <6>4. QED
            BY <6>3 DEF Handles
        <5>3. QED
          BY <2>2, <4>1, <5>1, <5>2
      <4>3. Message(c).seq <= last'[c]
        BY <2>2, <4>1, <4>2 DEF Handles
      <4>4. Message(c).seq \in Nat
        BY <1>1, <2>2, <4>1, MessageNumbers
      <4>5. n <= last'[c]
        BY <1>1, <2>2, <4>1, <4>2, <4>3, <4>4
      <4>6. QED
        BY <4>2, <4>5 DEF ReachedBefore
    <3>3. QED
      BY <3>1, <3>2
  <2>3. QED
    BY <1>4, <2>1, <2>2 DEF ReachedBefore
<1>5. \A i \in (read[c] + 2) .. (Len(outbox[c]) + 1), n \in Int :
         KnownBefore(c, i, n) => KnownBefore(c, i, n)'
  BY <1>3, <1>4 DEF KnownBefore
<1>6. Len(outbox[c]) + 1 \in (read[c] + 2) .. (Len(outbox[c]) + 1)
  BY <1>1
<1>7. QED
  BY <1>1, <1>2, <1>3, <1>5, <1>6 DEF Told, Lags

-----------------------------------------------------------------------------
(***************************************************************************)
(* The steps that queue messages.                                          *)
(***************************************************************************)

\* Message m fits behind what is queued for client c.
Continues(c, m) ==
  /\ m.kind = "event" =>
       m.seq \in 1 .. Len(log) /\ Told(c, m.seq - 1) /\ (last[c] # NoSeq \/ AwaitsAnswer(c))
  /\ m.kind = "subscribed" =>
       m.seq <= Len(log) /\ active[c] = {} /\ (last[c] = NoSeq \/ Told(c, m.seq))

\* The log and what is broadcast of it only grow.
Grows ==
  Len(log) \in Nat /\ Len(log') \in Nat /\ Len(log) <= Len(log')
  /\ published \in Nat /\ published' \in Nat /\ published <= published' /\ published' <= Len(log')

FeedSame(c) ==
  /\ tail'[c] = tail[c] /\ held'[c] = held[c] /\ active'[c] = active[c]
  /\ delivered'[c] = delivered[c] /\ replay'[c] = replay[c] /\ at'[c] = at[c]

\* The connection is as open as before, and no Subscribe is sent on it.
LinkSame(c) ==
  /\ state'[c] = state[c] /\ (c \in open' <=> c \in open)
  /\ up'[c] = up[c] \/ \A i \in 1 .. Len(up'[c]) : up'[c][i] # SubscribeRequest

\* The queue stays in order when a message that fits is put at its end.
LEMMA QueueHears ==
  ASSUME Shapes, NEW c \in Conns, NEW m, Hears(c, m), Continues(c, m), Grows,
         QueueBehind(c), Ordered(c), Stream(c),
         active'[c] # {} <=> active[c] # {} \/ m.kind = "subscribed",
         active'[c] # {} => ~replay'[c].on
  PROVE  QueueBehind(c)' /\ Ordered(c)' /\ Stream(c)'
<1> DEFINE L == Len(outbox[c])
<1>1. /\ L \in Nat /\ read[c] \in Nat
      /\ last[c] \in {NoSeq} \cup Nat /\ NoSeq \notin Nat
      /\ \A i \in 1 .. L : outbox[c][i] \in SyncMsgs
  BY QueueOf
<1>b. \A i \in 1 .. (L + 1) : \A j \in 1 .. (i - 1) : j \in 1 .. L
  BY <1>1
<1>2. /\ Len(outbox'[c]) = L + 1
      /\ \A i \in 1 .. L : outbox'[c][i] = outbox[c][i]
      /\ outbox'[c][L + 1] = m
  BY HearsGrows
<1>3. m \in SyncMsgs /\ read'[c] = read[c] /\ last'[c] = last[c] /\ lagSeen'[c] = lagSeen[c]
  BY DEF Hears, SameCourse
<1>4. /\ \A i \in 1 .. L : \A kind : UnreadOf(c, i, kind)' <=> UnreadOf(c, i, kind)
      /\ \A i, kind : i = L + 1 => (UnreadOf(c, i, kind)' <=> m.kind = kind)
  BY UnreadHears
<1>5. \A i \in 1 .. (L + 1), n \in Int : KnownBefore(c, i, n)' <=> KnownBefore(c, i, n)
  BY KnownHears
<1>6. m.kind \in {"event", "subscribed"} => m.seq \in Nat /\ m.seq <= Len(log')
  BY <1>3, MessageNumbers DEF Continues, Grows
<1>7. m.kind = "event" => m.seq # 0
  BY DEF Continues
<1>8. QueueBehind(c)'
  <2>1. last'[c] # NoSeq => last'[c] <= Len(log')
    BY <1>1, <1>3 DEF QueueBehind, Grows
  <2>2. read'[c] <= Len(outbox'[c])
    BY <1>1, <1>2, <1>3 DEF QueueBehind
  <2>3. ASSUME NEW i \in 1 .. (L + 1)
        PROVE  /\ outbox'[c][i].kind \in {"event", "subscribed"} => outbox'[c][i].seq <= Len(log')
               /\ outbox'[c][i].kind = "event" => outbox'[c][i].seq # 0
    <3>1. CASE i = L + 1
      BY <1>2, <1>6, <1>7, <3>1
    <3>2. CASE i \in 1 .. L
      <4>1. outbox'[c][i] = outbox[c][i] /\ outbox[c][i] \in SyncMsgs
        BY <1>1, <1>2, <3>2
      <4>2. outbox[c][i].kind \in {"event", "subscribed"} => outbox[c][i].seq \in Nat
        BY <4>1, MessageNumbers
      <4>3. QED
        BY <3>2, <4>1, <4>2 DEF QueueBehind, Grows
    <3>3. QED
      BY <1>1, <3>1, <3>2
  <2>4. QED
    BY <1>2, <2>1, <2>2, <2>3 DEF QueueBehind
<1>9. (AwaitsAnswer(c) => AwaitsAnswer(c)') /\ (m.kind = "subscribed" => AwaitsAnswer(c)')
  <2>1. ASSUME NEW i \in 1 .. (L + 1), UnreadOf(c, i, "subscribed")' PROVE AwaitsAnswer(c)'
    BY <1>2, <2>1 DEF AwaitsAnswer
  <2>a. L + 1 \in 1 .. (L + 1)
    BY <1>1
  <2>2. PICK i \in 1 .. (L + 1) : i = L + 1
    BY <2>a
  <2>3. \A j \in 1 .. L : j \in 1 .. (L + 1)
    BY <1>1
  <2>4. AwaitsAnswer(c) => \E j \in 1 .. L : UnreadOf(c, j, "subscribed")
    BY DEF AwaitsAnswer
  <2> HIDE DEF L
  <2>5. QED
    BY <1>4, <2>1, <2>2, <2>3, <2>4
<1>10. Ordered(c)'
  <2>1. active'[c] # {} => ~replay'[c].on /\ (last'[c] # NoSeq \/ AwaitsAnswer(c)')
    BY <1>3, <1>9 DEF Ordered
  <2>2. ASSUME NEW i \in 1 .. (L + 1), UnreadOf(c, i, "subscribed")'
        PROVE  active'[c] # {} /\ \A j \in 1 .. (L + 1) : UnreadOf(c, j, "subscribed")' => i = j
    <3>1. CASE m.kind = "subscribed"
      <4>1. active[c] = {}
        BY <3>1 DEF Continues
      <4>2. \A j \in 1 .. L : ~UnreadOf(c, j, "subscribed")
        BY <4>1 DEF Ordered
      <4>3. \A j \in 1 .. (L + 1) : UnreadOf(c, j, "subscribed")' => j = L + 1
        BY <1>1, <1>4, <4>2
      <4>4. QED
        BY <2>2, <3>1, <4>3
    <3>2. CASE m.kind # "subscribed"
      <4>1. \A j \in 1 .. (L + 1) : UnreadOf(c, j, "subscribed")' => j \in 1 .. L /\ UnreadOf(c, j, "subscribed")
        BY <1>1, <1>4, <3>2
      <4>2. QED
        BY <2>2, <3>2, <4>1 DEF Ordered
    <3>3. QED
      BY <3>1, <3>2
  <2>3. ASSUME NEW i \in 1 .. (L + 1), UnreadOf(c, i, "event")', last'[c] = NoSeq
        PROVE  \E j \in 1 .. (i - 1) : UnreadOf(c, j, "subscribed")'
    <3>1. \A j \in 1 .. (i - 1) : j \in 1 .. L
      BY <1>b
    <3>2. CASE i = L + 1
      <4>1. m.kind = "event"
        BY <1>4, <2>3, <3>2
      <4>2. AwaitsAnswer(c)
        BY <1>3, <2>3, <4>1 DEF Continues
      <4>3. PICK j \in 1 .. L : UnreadOf(c, j, "subscribed")
        BY <4>2 DEF AwaitsAnswer
      <4>4. j \in 1 .. (i - 1)
        BY <1>1, <3>2
      <4>5. QED
        BY <1>4, <4>3, <4>4
    <3>3. CASE i \in 1 .. L
      <4>1. UnreadOf(c, i, "event")
        BY <1>4, <2>3, <3>3
      <4>2. \E j \in 1 .. (i - 1) : UnreadOf(c, j, "subscribed")
        BY <1>3, <2>3, <3>3, <4>1 DEF Ordered
      <4>3. QED
        BY <1>4, <3>1, <4>2
    <3>4. QED
      BY <1>1, <3>2, <3>3
  <2>4. QED
    BY <1>2, <2>1, <2>2, <2>3 DEF Ordered
<1>11. ASSUME NEW i \in 1 .. (L + 1)
       PROVE  /\ UnreadOf(c, i, "event")' => KnownBefore(c, i, outbox[c][i].seq - 1)'
              /\ UnreadOf(c, i, "subscribed")' => last'[c] = NoSeq \/ KnownBefore(c, i, outbox[c][i].seq)'
  <2>1. CASE i = L + 1
    <3>1. outbox'[c][i] = m /\ (\A kind : UnreadOf(c, i, kind)' <=> m.kind = kind)
      BY <1>2, <1>4, <2>1
    <3>2. m.kind = "event" => m.seq - 1 \in Int /\ KnownBefore(c, i, m.seq - 1)
      BY <1>6, <2>1 DEF Continues, Told
    <3>3. m.kind = "subscribed" => m.seq \in Int /\ (last[c] = NoSeq \/ KnownBefore(c, i, m.seq))
      BY <1>6, <2>1 DEF Continues, Told
    <3>4. m.kind = "event" => KnownBefore(c, i, outbox[c][i].seq - 1)'
      <4>1. ASSUME NEW n \in Int, n = m.seq - 1, KnownBefore(c, i, n)' PROVE KnownBefore(c, i, outbox[c][i].seq - 1)'
        BY <3>1, <4>1
      <4>2. QED
        BY <1>5, <3>2, <4>1
    <3>5. m.kind = "subscribed" => last[c] = NoSeq \/ KnownBefore(c, i, outbox[c][i].seq)'
      <4>1. ASSUME NEW n \in Int, n = m.seq, KnownBefore(c, i, n)' PROVE KnownBefore(c, i, outbox[c][i].seq)'
        BY <3>1, <4>1
      <4>2. QED
        BY <1>5, <3>3, <4>1
    <3>6. QED
      BY <1>3, <3>1, <3>4, <3>5
  <2>2. CASE i \in 1 .. L
    <3>1. outbox'[c][i] = outbox[c][i] /\ (\A kind : UnreadOf(c, i, kind)' <=> UnreadOf(c, i, kind))
      BY <1>2, <1>4, <2>2
    <3>2. outbox[c][i].kind \in {"event", "subscribed"} => outbox[c][i].seq \in Int /\ outbox[c][i].seq - 1 \in Int
      BY <1>1, <2>2, MessageNumbers
    <3>3. UnreadOf(c, i, "event") => KnownBefore(c, i, outbox[c][i].seq - 1)
      BY <2>2 DEF Stream
    <3>4. UnreadOf(c, i, "subscribed") => last[c] = NoSeq \/ KnownBefore(c, i, outbox[c][i].seq)
      BY <2>2 DEF Stream
    <3>5. UnreadOf(c, i, "event") => KnownBefore(c, i, outbox[c][i].seq - 1)'
      <4>1. ASSUME NEW n \in Int, n = outbox[c][i].seq - 1, KnownBefore(c, i, n)'
            PROVE KnownBefore(c, i, outbox[c][i].seq - 1)'
        BY <3>1, <4>1
      <4>2. UnreadOf(c, i, "event") => outbox[c][i].seq - 1 \in Int
        BY <3>2 DEF UnreadOf
      <4>3. QED
        BY <1>5, <3>3, <4>1, <4>2
    <3>6. UnreadOf(c, i, "subscribed") => last[c] = NoSeq \/ KnownBefore(c, i, outbox[c][i].seq)'
      <4>1. ASSUME NEW n \in Int, n = outbox[c][i].seq, KnownBefore(c, i, n)'
            PROVE KnownBefore(c, i, outbox[c][i].seq)'
        BY <3>1, <4>1
      <4>2. UnreadOf(c, i, "subscribed") => outbox[c][i].seq \in Int
        BY <3>2 DEF UnreadOf
      <4>3. QED
        BY <1>5, <3>4, <4>1, <4>2
    <3>7. QED
      BY <1>3, <3>1, <3>5, <3>6
  <2>3. QED
    BY <1>1, <2>1, <2>2
<1>12. Stream(c)'
  BY <1>2, <1>11 DEF Stream
<1>13. QED
  BY <1>8, <1>10, <1>12

\* What has been sent stays sent while the feed of the connection rests.
LEMMA FeedingStays ==
  ASSUME Shapes, NEW c \in Conns, Feeding(c), FeedSame(c), Grows,
         delivered \in [Conns -> [Scopes -> Nat]],
         \A n \in Int : Told(c, n) => Told(c, n)', Lags(c) => Lags(c)'
  PROVE  Feeding(c)'
<1>1. All \in Scopes /\ delivered[c][All] \in Int /\ at[c] \in Int /\ at[c] - 1 \in Int
  BY QueueOf, AllAssumption
<1>2. Processed(c)' = Processed(c)
  BY DEF FeedSame, Processed
<1>3. active[c] # {} => Told(c, delivered[c][All])'
  <2>1. ASSUME NEW n \in Int, n = delivered[c][All], Told(c, n)' PROVE Told(c, delivered[c][All])'
    BY <2>1 DEF FeedSame
  <2>2. QED
    BY <1>1, <2>1 DEF Feeding
<1>4. replay[c].on => replay[c].since.now \/ Told(c, at[c] - 1)'
  <2>1. ASSUME NEW n \in Int, n = at[c] - 1, Told(c, n)' PROVE Told(c, at[c] - 1)'
    BY <2>1 DEF FeedSame
  <2>2. QED
    BY <1>1, <2>1 DEF Feeding
<1>5. QED
  BY <1>2, <1>3, <1>4 DEF Feeding, FeedSame

\* So does the rest.
LEMMA BehindStays ==
  ASSUME Shapes, NEW c \in Conns, Behind(c), FeedSame(c), Grows
  PROVE  Behind(c)'
<1>1. tail[c] \in Nat
  BY QueueOf
<1>2. replay[c].on => replay[c].upto \in Nat
  BY ReplayHasRequest DEF Replays, Shapes
<1>3. QED
  BY <1>1, <1>2 DEF Behind, FeedSame, Grows

\* A step elsewhere.
LEMMA FollowsMute ==
  ASSUME Shapes, NEW c \in Conns, Follows(c), Mute(c), FeedSame(c), LinkSame(c), Grows,
         delivered \in [Conns -> [Scopes -> Nat]]
  PROVE  Follows(c)'
<1>0. Behind(c) /\ QueueBehind(c) /\ Linked(c) /\ Asked(c) /\ Ordered(c) /\ Stream(c) /\ Feeding(c)
  BY DEF Follows
<1>1. /\ outbox'[c] = outbox[c] /\ read'[c] = read[c] /\ last'[c] = last[c] /\ lagSeen'[c] = lagSeen[c]
      /\ Len(outbox[c]) \in Nat /\ last[c] \in {NoSeq} \cup Nat
      /\ \A i \in 1 .. Len(outbox[c]) : outbox[c][i] \in SyncMsgs
  BY QueueOf DEF Mute, SameCourse
<1>2. /\ \A i, n : KnownBefore(c, i, n)' <=> KnownBefore(c, i, n)
      /\ \A n : Told(c, n)' <=> Told(c, n)
      /\ Lags(c)' <=> Lags(c)
      /\ \A i, kind : UnreadOf(c, i, kind)' <=> UnreadOf(c, i, kind)
  BY KnownMute
<1>3. Behind(c)' /\ Feeding(c)'
  BY <1>0, <1>2, BehindStays, FeedingStays
<1>4. QueueBehind(c)'
  <2>1. \A i \in 1 .. Len(outbox[c]) : outbox[c][i].kind \in {"event", "subscribed"} => outbox[c][i].seq \in Nat
    BY <1>1, MessageNumbers
  <2>2. last[c] # NoSeq => last[c] <= Len(log')
    BY <1>0, <1>1 DEF QueueBehind, Grows
  <2>3. \A i \in 1 .. Len(outbox[c]) :
          outbox[c][i].kind \in {"event", "subscribed"} => outbox[c][i].seq <= Len(log')
    BY <1>0, <2>1 DEF QueueBehind, Grows
  <2>4. QED
    BY <1>0, <1>1, <2>2, <2>3 DEF QueueBehind
<1>5. Linked(c)' /\ Asked(c)'
  BY <1>0, <1>1 DEF Linked, Asked, FeedSame, LinkSame
<1>6. Ordered(c)'
  BY <1>0, <1>1, <1>2 DEF Ordered, FeedSame, AwaitsAnswer
<1>7. Stream(c)'
  BY <1>0, <1>1, <1>2 DEF Stream
<1>8. QED
  BY <1>3, <1>4, <1>5, <1>6, <1>7 DEF Follows

\* A message about mutations.
LEMMA FollowsHears ==
  ASSUME Shapes, NEW c \in Conns, NEW m, Follows(c), Hears(c, m), m.kind \notin FeedKinds,
         FeedSame(c), LinkSame(c), Grows, delivered \in [Conns -> [Scopes -> Nat]], c \in open
  PROVE  Follows(c)'
<1>0. Behind(c) /\ QueueBehind(c) /\ Linked(c) /\ Asked(c) /\ Ordered(c) /\ Stream(c) /\ Feeding(c)
  BY DEF Follows
<1>1. Continues(c, m)
  BY DEF Continues, FeedKinds
<1>2. QueueBehind(c)' /\ Ordered(c)' /\ Stream(c)'
  <2>1. m.kind # "subscribed"
    BY DEF FeedKinds
  <2>2. active'[c] # {} <=> active[c] # {} \/ m.kind = "subscribed"
    BY <2>1 DEF FeedSame
  <2>3. active'[c] # {} => ~replay'[c].on
    BY <1>0 DEF FeedSame, Ordered
  <2>4. QED
    BY <1>0, <1>1, <2>2, <2>3, QueueHears
<1>3. Behind(c)' /\ Feeding(c)'
  BY <1>0, BehindStays, FeedingStays, KnownHears
<1>4. Linked(c)' /\ Asked(c)'
  BY <1>0 DEF Linked, Asked, FeedSame, LinkSame, Hears, SameCourse
<1>5. QED
  BY <1>2, <1>3, <1>4 DEF Follows

-----------------------------------------------------------------------------
(***************************************************************************)
(* The tail and the replay of a connection.                                *)
(***************************************************************************)

\* What the steps of the feed need of the rest of the daemon.
FeedGround ==
  /\ Shapes
  /\ published <= Len(log)
  /\ delivered \in [Conns -> [Scopes -> Nat]]
  /\ lagSeen \in [Conns -> BOOLEAN]
  /\ \A n \in 1 .. Len(log) : log[n] \in SyncTopics

\* Nobody else's connection is concerned.
OthersRest(c) == \A d \in Conns : d # c => Mute(d) /\ FeedSame(d) /\ LinkSame(d)

\* Every event of the log is for the client.
LEMMA AllMatches ==
  ASSUME FeedGround, NEW n \in 1 .. Len(log)
  PROVE  MatchesAt(All, n)
  BY AllAssumption DEF FeedGround, MatchesAt

\* One who has been told of lost broadcasts has been told of any position.
LEMMA LagTells ==
  ASSUME NEW c \in Conns, Lags(c)
  PROVE  \A n : Told(c, n)
  BY DEF Lags, Told, KnownBefore

\* The tail takes a broadcast.
LEMMA FollowsReceive ==
  ASSUME FeedGround, NEW c \in Conns, Follows(c), TailReceive(c), UNCHANGED <<up, clientVars>>
  PROVE  Follows(c)' /\ OthersRest(c) /\ Grows /\ delivered' = delivered
<1> USE DEF FeedGround
<1>0. Behind(c) /\ QueueBehind(c) /\ Linked(c) /\ Asked(c) /\ Ordered(c) /\ Stream(c) /\ Feeding(c)
  BY DEF Follows
<1>1. tail \in [Conns -> Nat] /\ held \in [Conns -> Nat]
  BY DEF Shapes, FeedShape
<1>2. /\ tail'[c] = tail[c] + 1 /\ held'[c] = tail[c] + 1 /\ held[c] = 0 /\ tail[c] < published
      /\ \A d \in Conns : d # c => tail'[d] = tail[d] /\ held'[d] = held[d]
      /\ UNCHANGED <<log, published, open, active, delivered, replay, at, outbox>>
  BY <1>1 DEF TailReceive
<1>3. UNCHANGED <<state, last, read, lagSeen>>
  BY DEF clientVars
<1>4. Grows
  BY <1>2, QueueOf DEF Grows
<1>5. \A d \in Conns : Mute(d) /\ LinkSame(d)
  BY <1>2, <1>3 DEF Mute, SameCourse, LinkSame
<1>6. OthersRest(c)
  BY <1>2, <1>5 DEF OthersRest, FeedSame
<1>7. Mute(c) /\ LinkSame(c)
  BY <1>5
<1>8. Processed(c)' = Processed(c)
  BY <1>1, <1>2 DEF Processed
<1>9. /\ \A i, n : KnownBefore(c, i, n)' <=> KnownBefore(c, i, n)
      /\ \A n : Told(c, n)' <=> Told(c, n)
      /\ Lags(c)' <=> Lags(c)
      /\ \A i, kind : UnreadOf(c, i, kind)' <=> UnreadOf(c, i, kind)
  BY <1>7, KnownMute
<1>10. Behind(c)'
  BY <1>0, <1>1, <1>2, QueueOf DEF Behind
<1>11. QueueBehind(c)' /\ Asked(c)'
  BY <1>0, <1>2, <1>3 DEF QueueBehind, Asked
<1>12. Linked(c)'
  BY <1>0, <1>2, <1>3 DEF Linked, TailReceive
<1>13. Ordered(c)' /\ Stream(c)'
  <2>1. active' = active /\ replay' = replay /\ last' = last /\ outbox' = outbox
    BY <1>2, <1>3
  <2>2. \A i, kind : UnreadOf(c, i, kind)' <=> UnreadOf(c, i, kind)
    BY <1>9
  <2>3. Ordered(c)'
    BY <1>0, <2>1, <2>2 DEF Ordered, AwaitsAnswer
  <2>4. Stream(c)'
    BY <1>0, <1>9, <2>1 DEF Stream
  <2>5. QED
    BY <2>3, <2>4
<1>14. Feeding(c)'
  BY <1>0, <1>2, <1>8, <1>9 DEF Feeding
<1>15. QED
  BY <1>2, <1>4, <1>6, <1>10, <1>11, <1>12, <1>13, <1>14 DEF Follows

\* Only one client hears a message.
LEMMA SaysHears ==
  ASSUME Shapes, NEW c \in Conns, NEW m \in SyncMsgs, Says(c, m), UNCHANGED <<read, last, lagSeen>>
  PROVE  Hears(c, m) /\ \A d \in Conns : d # c => Mute(d)
  BY DEF Shapes, FeedShape, Says, Hears, Mute, SameCourse

\* The tail finds that it has lost broadcasts.
LEMMA FollowsLagged ==
  ASSUME FeedGround, NEW c \in Conns, Follows(c), TailLagged(c), UNCHANGED <<up, clientVars>>
  PROVE  Follows(c)' /\ OthersRest(c) /\ Grows /\ delivered' = delivered
<1> USE DEF FeedGround
<1>0. Behind(c) /\ QueueBehind(c) /\ Linked(c) /\ Asked(c) /\ Ordered(c) /\ Stream(c) /\ Feeding(c)
  BY DEF Follows
<1>1. tail \in [Conns -> Nat] /\ Backlog \in Nat /\ published \in Nat /\ Len(log) \in Nat
  BY FeedAssumption DEF Shapes, FeedShape
<1> DEFINE m == SeqTooOld(LastSeq)
<1>2. /\ tail'[c] = published - Backlog /\ held[c] = 0
      /\ \A d \in Conns : d # c => tail'[d] = tail[d]
      /\ UNCHANGED <<log, published, open, held, active, delivered, replay, at>>
      /\ Says(c, m)
  BY <1>1 DEF TailLagged, Says
<1>3. UNCHANGED <<state, last, read, lagSeen>>
  BY DEF clientVars
<1>4. m \in SyncMsgs /\ m.kind = "seqTooOld"
  BY <1>1, MessageShapes DEF LastSeq
<1> HIDE DEF m
<1>5. Hears(c, m) /\ \A d \in Conns : d # c => Mute(d)
  BY <1>2, <1>3, <1>4, SaysHears
<1>6. Grows
  BY <1>1, <1>2 DEF Grows
<1>7. \A d \in Conns : LinkSame(d)
  BY <1>2, <1>3 DEF LinkSame
<1>8. OthersRest(c)
  BY <1>2, <1>5, <1>7 DEF OthersRest, FeedSame
<1>9. Continues(c, m)
  BY <1>4 DEF Continues
<1>10. QueueBehind(c)' /\ Ordered(c)' /\ Stream(c)'
  <2>1. active'[c] # {} <=> active[c] # {} \/ m.kind = "subscribed"
    BY <1>2, <1>4
  <2>2. active'[c] # {} => ~replay'[c].on
    BY <1>0, <1>2 DEF Ordered
  <2>3. QED
    BY <1>0, <1>5, <1>6, <1>9, <2>1, <2>2, QueueHears
<1>11. Behind(c)'
  BY <1>0, <1>1, <1>2, <1>6 DEF Behind
<1>12. Linked(c)' /\ Asked(c)'
  BY <1>0, <1>2, <1>3 DEF Linked, Asked, TailLagged
<1>13. Lags(c)'
  BY <1>0, <1>4, <1>5, KnownHears
<1>14. Feeding(c)'
  <2>1. Told(c, delivered[c][All])' /\ Told(c, at[c] - 1)'
    BY <1>13 DEF Lags, Told, KnownBefore
  <2>2. QED
    BY <1>13, <2>1 DEF Feeding
<1>15. QED
  BY <1>2, <1>6, <1>8, <1>10, <1>11, <1>12, <1>14 DEF Follows

\* The tail delivers what it holds, or finds that it was sent already.
LEMMA FollowsDeliver ==
  ASSUME FeedGround, NEW c \in Conns, Follows(c), DeliverLive(c), UNCHANGED <<up, clientVars>>
  PROVE  Follows(c)' /\ OthersRest(c) /\ Grows /\ delivered' \in [Conns -> [Scopes -> Nat]]
<1> USE DEF FeedGround
<1>0. Behind(c) /\ QueueBehind(c) /\ Linked(c) /\ Asked(c) /\ Ordered(c) /\ Stream(c) /\ Feeding(c)
  BY DEF Follows
<1>1. held \in [Conns -> Nat] /\ published \in Nat /\ Len(log) \in Nat /\ active[c] \in SUBSET {All}
      /\ tail[c] \in Nat /\ outbox \in [Conns -> Seq(SyncMsgs)] /\ All \in Scopes
      /\ delivered[c][All] \in Nat
  BY AllAssumption DEF Shapes, FeedShape
<1> DEFINE h == held[c]
           m == EventMsg(h)
           D == delivered[c][All]
<1>2. h \in 1 .. Len(log) /\ h = tail[c]
  BY <1>0, <1>1 DEF DeliverLive, Behind
<1>3. m \in SyncMsgs /\ m.kind = "event" /\ m.seq = h
  BY <1>2, MessageShapes DEF EventMsg
<1>4. Owed(c, h) = IF active[c] # {} /\ h > D THEN {All} ELSE {}
  <2>1. MatchesAt(All, h)
    BY <1>2, AllMatches
  <2>2. QED
    BY <1>1, <2>1 DEF Owed
<1>5. /\ held'[c] = 0 /\ ~replay[c].on /\ c \in open
      /\ \A d \in Conns : d # c => held'[d] = held[d] /\ delivered'[d] = delivered[d]
      /\ UNCHANGED <<log, published, open, tail, active, replay, at>>
      /\ delivered'[c] = [s \in Scopes |-> IF s \in Owed(c, h) THEN h ELSE delivered[c][s]]
      /\ Owed(c, h) # {} => Says(c, m)
      /\ Owed(c, h) = {} => outbox' = outbox
      /\ delivered' = [delivered EXCEPT ![c] = [s \in Scopes |->
                     IF s \in Owed(c, h) THEN h ELSE @[s]]]
  BY <1>1 DEF DeliverLive, Says
<1>6. UNCHANGED <<state, last, read, lagSeen>>
  BY DEF clientVars
<1>7. delivered' \in [Conns -> [Scopes -> Nat]]
  <2>1. delivered'[c] \in [Scopes -> Nat]
    BY <1>1, <1>2, <1>5
  <2>2. QED
    BY <1>5, <2>1
<1>8. Grows
  BY <1>1, <1>5 DEF Grows
<1>9. \A d \in Conns : LinkSame(d)
  BY <1>5, <1>6 DEF LinkSame
<1>10. Processed(c) = h - 1 /\ Processed(c)' = h
  BY <1>2, <1>5 DEF Processed
<1>11. Behind(c)' /\ Linked(c)' /\ Asked(c)'
  <2>1. Behind(c)'
    BY <1>0, <1>5 DEF Behind
  <2>2. QED
    BY <1>0, <1>5, <1>6, <2>1 DEF Linked, Asked
<1> HIDE DEF m
<1>12. CASE active[c] # {} /\ h > D
  <2>1. Owed(c, h) = {All}
    BY <1>4, <1>12
  <2>2. Hears(c, m) /\ \A d \in Conns : d # c => Mute(d)
    BY <1>3, <1>5, <1>6, <2>1, SaysHears
  <2>3. delivered'[c][All] = h
    BY <1>1, <1>5, <2>1
  <2>4. Told(c, h - 1)
    <3>1. Told(c, D) /\ (h - 1 <= D \/ Lags(c))
      BY <1>0, <1>10, <1>12 DEF Feeding
    <3>2. CASE Lags(c)
      BY <3>2, LagTells
    <3>3. CASE h - 1 <= D
      <4>1. h - 1 = D
        BY <1>1, <1>2, <1>12, <3>3
      <4>2. QED
        BY <3>1, <4>1
    <3>4. QED
      BY <3>1, <3>2, <3>3
  <2>5. Continues(c, m)
    BY <1>0, <1>2, <1>3, <1>12, <2>4 DEF Continues, Ordered
  <2>6. QueueBehind(c)' /\ Ordered(c)' /\ Stream(c)'
    <3>1. active'[c] # {} <=> active[c] # {} \/ m.kind = "subscribed"
      BY <1>3, <1>5
    <3>2. active'[c] # {} => ~replay'[c].on
      BY <1>5
    <3>3. QED
      BY <1>0, <1>8, <2>2, <2>5, <3>1, <3>2, QueueHears
  <2>7. \A n \in Int : n <= m.seq => Told(c, n)'
    BY <1>0, <1>3, <2>2, KnownHears
  <2>8. Told(c, delivered[c][All])'
    <3>1. ASSUME NEW n \in Int, n = h, Told(c, n)' PROVE Told(c, delivered[c][All])'
      BY <2>3, <3>1
    <3>2. QED
      BY <1>2, <1>3, <2>7, <3>1
  <2>9. Feeding(c)'
    <3>1. Processed(c)' <= delivered'[c][All]
      BY <1>2, <1>10, <2>3
    <3>2. QED
      BY <1>5, <2>8, <3>1 DEF Feeding
  <2>10. OthersRest(c)
    BY <1>5, <1>9, <2>2 DEF OthersRest, FeedSame
  <2>11. QED
    BY <1>7, <1>8, <1>11, <2>6, <2>9, <2>10 DEF Follows
<1>13. CASE ~(active[c] # {} /\ h > D)
  <2>1. Owed(c, h) = {} /\ outbox' = outbox
    BY <1>4, <1>5, <1>13
  <2>2. \A d \in Conns : Mute(d)
    BY <1>6, <2>1 DEF Mute, SameCourse
  <2>3. OthersRest(c)
    BY <1>5, <1>9, <2>2 DEF OthersRest, FeedSame
  <2>4. Mute(c) /\ delivered'[c][All] = D
    BY <1>1, <1>5, <2>1, <2>2
  <2>5. /\ \A i, n : KnownBefore(c, i, n)' <=> KnownBefore(c, i, n)
        /\ \A n : Told(c, n)' <=> Told(c, n)
        /\ Lags(c)' <=> Lags(c)
        /\ \A i, kind : UnreadOf(c, i, kind)' <=> UnreadOf(c, i, kind)
    BY <2>4, KnownMute
  <2>6. QueueBehind(c)' /\ Ordered(c)' /\ Stream(c)'
    <3>1. QueueBehind(c)'
      BY <1>0, <1>5, <1>6, <2>1 DEF QueueBehind
    <3>2. Ordered(c)'
      <4>1. active' = active /\ replay' = replay /\ last' = last /\ outbox' = outbox
        BY <1>5, <1>6, <2>1
      <4>2. \A i, kind : UnreadOf(c, i, kind)' <=> UnreadOf(c, i, kind)
        BY <2>5
      <4>3. QED
        BY <1>0, <4>1, <4>2 DEF Ordered, AwaitsAnswer
    <3>3. Stream(c)'
      BY <1>0, <1>6, <2>1, <2>5 DEF Stream
    <3>4. QED
      BY <3>1, <3>2, <3>3
  <2>7. Feeding(c)'
    <3>1. active[c] # {} => Processed(c)' <= D
      BY <1>1, <1>2, <1>10, <1>13
    <3>2. active[c] # {} => Told(c, delivered[c][All])'
      <4>1. ASSUME NEW n, n = D, Told(c, n)' PROVE Told(c, delivered[c][All])'
        BY <2>4, <4>1
      <4>2. QED
        BY <1>0, <2>5, <4>1 DEF Feeding
    <3>3. QED
      BY <1>5, <2>4, <3>1, <3>2 DEF Feeding
  <2>8. QED
    BY <1>7, <1>8, <1>11, <2>3, <2>6, <2>7 DEF Follows
<1>14. QED
  BY <1>12, <1>13

\* One turn of the replay.
LEMMA FollowsReplay ==
  ASSUME FeedGround, NEW c \in Conns, Follows(c), ReplayOne(c), UNCHANGED <<up, clientVars>>
  PROVE  Follows(c)' /\ OthersRest(c) /\ Grows /\ delivered' = delivered
<1> USE DEF FeedGround
<1>0. Behind(c) /\ QueueBehind(c) /\ Linked(c) /\ Asked(c) /\ Ordered(c) /\ Stream(c) /\ Feeding(c)
  BY DEF Follows
<1>1. at \in [Conns -> Nat] /\ published \in Nat /\ Len(log) \in Nat /\ active[c] \in SUBSET {All}
      /\ outbox \in [Conns -> Seq(SyncMsgs)] /\ last[c] \in {NoSeq} \cup Nat
  BY DEF Shapes, FeedShape, ClientShape
<1> DEFINE r == replay[c]
           n == at[c]
           m == EventMsg(n)
<1>2. r \in Replays /\ r.on /\ n <= r.upto /\ c \in open
  BY ReplayHasRequest DEF ReplayOne, Shapes
<1>3. r.upto \in Nat /\ r.since.after \in Nat /\ r.scope = All /\ r.upto <= Len(log)
  BY <1>0, <1>2 DEF Replays, SinceType, Behind
<1>4. ~r.since.now /\ r.since.after < n /\ last[c] # NoSeq
  BY <1>0, <1>1, <1>2, <1>3 DEF Asked
<1>5. n \in 1 .. Len(log)
  BY <1>1, <1>2, <1>3, <1>4
<1>6. Requested(r, n)
  BY <1>3, <1>4, <1>5, AllMatches DEF Requested
<1>7. m \in SyncMsgs /\ m.kind = "event" /\ m.seq = n
  BY <1>1, MessageShapes DEF EventMsg
<1>8. /\ at'[c] = n + 1
      /\ \A d \in Conns : d # c => at'[d] = at[d]
      /\ UNCHANGED <<log, published, open, tail, held, active, delivered, replay>>
      /\ Says(c, m)
  BY <1>1, <1>6 DEF ReplayOne, Says
<1>9. UNCHANGED <<state, last, read, lagSeen>>
  BY DEF clientVars
<1>10. Hears(c, m) /\ \A d \in Conns : d # c => Mute(d)
  BY <1>7, <1>8, <1>9, SaysHears
<1>11. Grows
  BY <1>1, <1>8 DEF Grows
<1>12. \A d \in Conns : LinkSame(d)
  BY <1>8, <1>9 DEF LinkSame
<1>13. OthersRest(c)
  BY <1>8, <1>10, <1>12 DEF OthersRest, FeedSame
<1>14. Told(c, n - 1)
  BY <1>0, <1>2, <1>4 DEF Feeding
<1>15. Continues(c, m)
  BY <1>4, <1>5, <1>7, <1>14 DEF Continues
<1> HIDE DEF m
<1>16. QueueBehind(c)' /\ Ordered(c)' /\ Stream(c)'
  <2>1. active'[c] # {} <=> active[c] # {} \/ m.kind = "subscribed"
    BY <1>7, <1>8
  <2>2. active'[c] # {} => ~replay'[c].on
    BY <1>0, <1>8 DEF Ordered
  <2>3. QED
    BY <1>0, <1>10, <1>11, <1>15, <2>1, <2>2, QueueHears
<1>17. Behind(c)' /\ Linked(c)'
  BY <1>0, <1>2, <1>8, <1>9 DEF Behind, Linked
<1>18. Asked(c)'
  BY <1>0, <1>1, <1>2, <1>3, <1>4, <1>8, <1>9 DEF Asked
<1>19. \A k \in Int : k <= m.seq => Told(c, k)'
  BY <1>0, <1>7, <1>10, KnownHears
<1>20. Told(c, at[c] - 1)'
  <2>1. ASSUME NEW k \in Int, k = n, Told(c, k)' PROVE Told(c, at[c] - 1)'
    <3>1. at'[c] - 1 = k
      BY <1>8, <2>1
    <3>2. QED
      BY <2>1, <3>1
  <2>2. n \in Int /\ n <= m.seq
    BY <1>1, <1>7
  <2>3. QED
    BY <1>19, <2>1, <2>2
<1>21. Feeding(c)'
  <2>1. Processed(c)' = Processed(c)
    BY <1>8 DEF Processed
  <2>2. active'[c] = {}
    BY <1>0, <1>2, <1>8 DEF Ordered
  <2>3. Processed(c) <= r.upto \/ Lags(c)'
    BY <1>0, <1>2, <1>10, KnownHears DEF Feeding
  <2>4. QED
    BY <1>8, <1>20, <2>1, <2>2, <2>3 DEF Feeding
<1>22. QED
  BY <1>8, <1>11, <1>13, <1>16, <1>17, <1>18, <1>21 DEF Follows

\* The replay ends with the answer to the request.
LEMMA FollowsEnd ==
  ASSUME FeedGround, NEW c \in Conns, Follows(c), SubscribeEnd(c), UNCHANGED <<up, clientVars>>
  PROVE  Follows(c)' /\ OthersRest(c) /\ Grows /\ delivered' \in [Conns -> [Scopes -> Nat]]
<1> USE DEF FeedGround
<1>0. Behind(c) /\ QueueBehind(c) /\ Linked(c) /\ Asked(c) /\ Ordered(c) /\ Stream(c) /\ Feeding(c)
  BY DEF Follows
<1>1. at \in [Conns -> Nat] /\ published \in Nat /\ Len(log) \in Nat /\ active \in [Conns -> SUBSET {All}]
      /\ outbox \in [Conns -> Seq(SyncMsgs)] /\ last[c] \in {NoSeq} \cup Nat /\ All \in Scopes
      /\ delivered[c] \in [Scopes -> Nat] /\ replay \in [Conns -> {NoReplay} \cup Replays]
  BY AllAssumption DEF Shapes, FeedShape, ClientShape
<1> DEFINE r == replay[c]
           n == r.upto
           m == Subscribed(All, n)
<1>2. r \in Replays /\ r.on /\ at[c] > r.upto /\ c \in open
  BY ReplayHasRequest DEF SubscribeEnd, Shapes
<1>3. n \in Nat /\ r.since.after \in Nat /\ r.scope = All /\ n <= Len(log) /\ r.head = n
      /\ r.since.after <= n /\ at[c] = n + 1
  BY <1>0, <1>1, <1>2 DEF Replays, SinceType, Behind, Asked
<1>4. (IF r.since.now THEN r.head ELSE MaxOf2(r.head, r.since.after)) = n
  BY <1>3 DEF MaxOf2
<1>5. m \in SyncMsgs /\ m.kind = "subscribed" /\ m.seq = n
  BY <1>3, MessageShapes DEF Subscribed
<1>6. active[c] = {}
  BY <1>0, <1>2 DEF Ordered
<1>7. /\ active'[c] = {All} /\ replay'[c] = NoReplay
      /\ \A d \in Conns : d # c => /\ at'[d] = at[d] /\ active'[d] = active[d]
                                   /\ replay'[d] = replay[d] /\ delivered'[d] = delivered[d]
      /\ UNCHANGED <<log, published, open, tail, held>>
      /\ Says(c, m)
  BY <1>1, <1>3, <1>4, <1>6 DEF SubscribeEnd, Says
<1>8. delivered' = [delivered EXCEPT ![c] = [s \in Scopes |->
                      IF s = All THEN n ELSE IF s \in active[c] THEN MaxOf2(@[s], r.head) ELSE @[s]]]
  BY <1>3, <1>4 DEF SubscribeEnd
<1>9. delivered'[c] = [s \in Scopes |-> IF s = All THEN n ELSE delivered[c][s]]
  BY <1>6, <1>8
<1>10. delivered' \in [Conns -> [Scopes -> Nat]] /\ delivered'[c][All] = n
  <2>1. delivered'[c] \in [Scopes -> Nat] /\ delivered'[c][All] = n
    BY <1>1, <1>3, <1>9
  <2>2. QED
    BY <1>7, <1>8, <2>1
<1>11. UNCHANGED <<state, last, read, lagSeen>>
  BY DEF clientVars
<1>12. Hears(c, m) /\ \A d \in Conns : d # c => Mute(d)
  BY <1>5, <1>7, <1>11, SaysHears
<1>13. Grows
  BY <1>1, <1>7 DEF Grows
<1>14. \A d \in Conns : LinkSame(d)
  BY <1>7, <1>11 DEF LinkSame
<1>15. OthersRest(c)
  BY <1>7, <1>12, <1>14 DEF OthersRest, FeedSame
<1>16. last[c] = NoSeq \/ Told(c, n)
  <2>1. r.since.now \/ Told(c, at[c] - 1)
    BY <1>0, <1>2 DEF Feeding
  <2>2. at[c] - 1 = n
    BY <1>3
  <2>3. r.since.now => last[c] = NoSeq
    BY <1>0, <1>2 DEF Asked
  <2>4. QED
    BY <2>1, <2>2, <2>3
<1>17. Continues(c, m)
  BY <1>3, <1>5, <1>6, <1>16 DEF Continues
<1> HIDE DEF m
<1>18. ~replay'[c].on
  BY <1>7 DEF NoReplay
<1>19. QueueBehind(c)' /\ Ordered(c)' /\ Stream(c)'
  <2>1. active'[c] # {} <=> active[c] # {} \/ m.kind = "subscribed"
    BY <1>5, <1>7
  <2>2. QED
    BY <1>0, <1>12, <1>13, <1>17, <1>18, <2>1, QueueHears
<1>20. Behind(c)' /\ Asked(c)'
  BY <1>0, <1>7, <1>18 DEF Behind, Asked
<1>21. Linked(c)'
  <2>1. \A i \in 1 .. Len(up[c]) : up[c][i] # SubscribeRequest
    BY <1>0, <1>2 DEF Linked
  <2>2. QED
    BY <1>0, <1>2, <1>7, <1>11, <2>1 DEF Linked
<1>22. \A k \in Int : k <= m.seq => Told(c, k)'
  BY <1>0, <1>5, <1>12, KnownHears
<1>23. Told(c, delivered[c][All])'
  <2>1. ASSUME NEW k \in Int, k = n, Told(c, k)' PROVE Told(c, delivered[c][All])'
    BY <1>10, <2>1
  <2>2. n \in Int /\ n <= m.seq
    BY <1>3, <1>5
  <2>3. QED
    BY <1>22, <2>1, <2>2
<1>24. Feeding(c)'
  <2>1. Processed(c)' = Processed(c)
    BY <1>7 DEF Processed
  <2>2. Processed(c) <= n \/ Lags(c)'
    BY <1>0, <1>2, <1>12, KnownHears DEF Feeding
  <2>3. QED
    BY <1>10, <1>18, <1>23, <2>1, <2>2 DEF Feeding
<1>25. QED
  BY <1>10, <1>13, <1>15, <1>19, <1>20, <1>21, <1>24 DEF Follows

\* Everything in a Feed step.
LEMMA FollowsFeed ==
  ASSUME FeedGround, NEW c \in Conns, Follows(c), Feed(c)
  PROVE  Follows(c)' /\ OthersRest(c) /\ Grows /\ delivered' \in [Conns -> [Scopes -> Nat]]
<1>1. UNCHANGED <<up, clientVars>>
  BY DEF Feed, linkVars
<1>2. delivered \in [Conns -> [Scopes -> Nat]]
  BY DEF FeedGround
<1>3. QED
  BY <1>1, <1>2, FollowsReceive, FollowsLagged, FollowsDeliver, FollowsReplay, FollowsEnd DEF Feed

\* The daemon takes up the Subscribe request.
LEMMA FollowsSubscribe ==
  ASSUME FeedGround, NEW c \in Conns, Follows(c), Subscribe(c)
  PROVE  Follows(c)' /\ OthersRest(c) /\ Grows /\ delivered' = delivered
<1> USE DEF FeedGround
<1>0. Behind(c) /\ QueueBehind(c) /\ Linked(c) /\ Asked(c) /\ Ordered(c) /\ Stream(c) /\ Feeding(c)
  BY DEF Follows
<1>1. at \in [Conns -> Nat] /\ published \in Nat /\ Len(log) \in Nat /\ active[c] \in SUBSET {All}
      /\ tail[c] \in Nat /\ held[c] \in Nat /\ last[c] \in {NoSeq} \cup Nat /\ NoSeq \notin Nat
      /\ up \in [Conns -> Seq(Numbers)] /\ replay \in [Conns -> {NoReplay} \cup Replays]
  BY SyncAssumption DEF Shapes, FeedShape, ClientShape, WorkShape
<1>2. /\ up[c] # <<>> /\ Head(up[c]) = SubscribeRequest /\ Head(up[c]) = up[c][1] /\ Len(up[c]) >= 1
      /\ Len(Tail(up[c])) = Len(up[c]) - 1 /\ Len(up[c]) \in Nat
  BY HeadOfStream DEF Subscribe, Shapes
<1>3. Len(up[c]) = 1 /\ state[c] = "hello" /\ ~replay[c].on /\ active[c] = {}
  BY <1>0, <1>2 DEF Linked
<1>4. up'[c] = Tail(up[c]) /\ Len(up'[c]) = 0 /\ \A d \in Conns : d # c => up'[d] = up[d]
  BY <1>1, <1>2, <1>3 DEF Subscribe
<1>5. /\ UNCHANGED <<log, published, open, tail, held, active, delivered, outbox>>
      /\ c \in open
  BY DEF Subscribe, SubscribeBegin
<1>6. UNCHANGED <<state, last, read, lagSeen>>
  BY DEF Subscribe, clientVars
<1>7. ReplayCursors(c, All, Cursor(c)) = {IF last[c] = NoSeq THEN Len(log) ELSE last[c]}
  BY <1>1, <1>3 DEF ReplayCursors, Others, Cursor, Now, After, LastSeq
<1> DEFINE from == IF last[c] = NoSeq THEN Len(log) ELSE last[c]
           r == [on |-> TRUE, scope |-> All, since |-> Cursor(c), upto |-> Len(log),
                 head |-> Len(log), mark |-> Len(outbox[c])]
<1>8. from \in Nat /\ from <= Len(log)
  BY <1>0, <1>1 DEF QueueBehind
<1>9. MaxOf2(from, LastSeq) = Len(log)
  BY <1>1, <1>8 DEF MaxOf2, LastSeq
<1>10. /\ replay'[c] = r /\ at'[c] = from + 1
       /\ \A d \in Conns : d # c => replay'[d] = replay[d] /\ at'[d] = at[d]
  <2>1. SubscribeBegin(c, All, Cursor(c))
    BY DEF Subscribe
  <2>2. /\ replay' = [replay EXCEPT ![c] =
                      [on |-> TRUE, scope |-> All, since |-> Cursor(c), upto |-> LastSeq,
                       head |-> MaxOf2(from, LastSeq), mark |-> Len(outbox[c])]]
        /\ at' = [at EXCEPT ![c] = from + 1]
    BY <1>7, <2>1 DEF SubscribeBegin
  <2>3. QED
    BY <1>1, <1>9, <2>2 DEF LastSeq
<1>11. Cursor(c).now <=> last[c] = NoSeq
  BY DEF Cursor, Now, After
<1>12. Cursor(c).after = IF last[c] = NoSeq THEN 0 ELSE last[c]
  BY DEF Cursor, Now, After
<1>13. Grows
  BY <1>1, <1>5 DEF Grows
<1>14. \A d \in Conns : Mute(d)
  BY <1>5, <1>6 DEF Mute, SameCourse
<1>15. OthersRest(c)
  BY <1>4, <1>5, <1>6, <1>10, <1>14 DEF OthersRest, FeedSame, LinkSame
<1>16. Mute(c)
  BY <1>14
<1>17. /\ \A i, n : KnownBefore(c, i, n)' <=> KnownBefore(c, i, n)
       /\ \A n : Told(c, n)' <=> Told(c, n)
       /\ Lags(c)' <=> Lags(c)
       /\ \A i, kind : UnreadOf(c, i, kind)' <=> UnreadOf(c, i, kind)
  BY <1>16, KnownMute
<1>18. r.on /\ r.upto = Len(log) /\ r.head = Len(log) /\ r.since = Cursor(c)
  OBVIOUS
<1> HIDE DEF r
<1>19. Behind(c)'
  BY <1>0, <1>1, <1>5, <1>10, <1>18 DEF Behind
<1>20. QueueBehind(c)'
  BY <1>0, <1>5, <1>6 DEF QueueBehind
<1>21. Linked(c)'
  BY <1>0, <1>3, <1>4, <1>5, <1>6 DEF Linked
<1>22. Asked(c)'
  BY <1>1, <1>6, <1>8, <1>10, <1>11, <1>12, <1>18 DEF Asked
<1>23. Ordered(c)'
  <2>1. active'[c] = {} /\ last' = last /\ outbox' = outbox
    BY <1>3, <1>5, <1>6
  <2>2. \A i, kind : UnreadOf(c, i, kind)' <=> UnreadOf(c, i, kind)
    BY <1>17
  <2>3. QED
    BY <1>0, <1>3, <2>1, <2>2 DEF Ordered
<1>24. Stream(c)'
  BY <1>0, <1>5, <1>6, <1>17 DEF Stream
<1>25. Feeding(c)'
  <2>1. Processed(c)' = Processed(c) /\ Processed(c) <= Len(log)
    BY <1>0, <1>1, <1>5 DEF Processed, Behind
  <2>2. last[c] # NoSeq => Told(c, last[c])
    BY <1>1 DEF Told, KnownBefore, ReachedBefore
  <2>3. last[c] # NoSeq => Told(c, at[c] - 1)'
    <3>1. ASSUME NEW n, n = last[c], Told(c, n)', last[c] # NoSeq PROVE Told(c, at[c] - 1)'
      <4>1. at'[c] - 1 = n
        BY <1>1, <1>10, <3>1
      <4>2. QED
        BY <3>1, <4>1
    <3>2. QED
      BY <1>17, <2>2, <3>1
  <2>4. active'[c] = {}
    BY <1>3, <1>5
  <2>5. QED
    BY <1>10, <1>11, <1>18, <2>1, <2>3, <2>4 DEF Feeding
<1>26. QED
  BY <1>5, <1>13, <1>15, <1>19, <1>20, <1>21, <1>22, <1>23, <1>24, <1>25 DEF Follows

-----------------------------------------------------------------------------
(***************************************************************************)
(* The client handles what is queued.                                      *)
(***************************************************************************)

\* The client stays as subscribed as it was, or the answer it waits for
\* makes it so.
Settles(c) ==
  \/ up'[c] = up[c] /\ state'[c] = state[c]
  \/ /\ \A i \in 1 .. Len(up'[c]) : up'[c][i] # SubscribeRequest
     /\ state'[c] = "subscribed" /\ Message(c).kind = "subscribed"

\* A message handled.
LEMMA FollowsHandles ==
  ASSUME FeedGround, NEW c \in Conns, Follows(c), Handles(c), FeedSame(c), Settles(c), Grows,
         open' = open, state[c] \in {"hello", "subscribed"},
         last'[c] # NoSeq => last'[c] <= Len(log')
  PROVE  Follows(c)'
<1> USE DEF FeedGround
<1>0. Behind(c) /\ QueueBehind(c) /\ Linked(c) /\ Asked(c) /\ Ordered(c) /\ Stream(c) /\ Feeding(c)
  BY DEF Follows
<1>1. /\ outbox'[c] = outbox[c] /\ Len(outbox[c]) \in Nat /\ read[c] \in Nat
      /\ read'[c] = read[c] + 1 /\ read[c] < Len(outbox[c])
      /\ last[c] \in {NoSeq} \cup Nat /\ last'[c] \in {NoSeq} \cup Nat
      /\ \A i \in 1 .. Len(outbox[c]) : outbox[c][i] \in SyncMsgs
  BY QueueOf DEF Handles
<1>2. /\ \A i \in (read[c] + 2) .. (Len(outbox[c]) + 1), n \in Int :
              KnownBefore(c, i, n) => KnownBefore(c, i, n)'
      /\ \A n \in Int : Told(c, n) => Told(c, n)'
      /\ Lags(c) => Lags(c)'
      /\ \A i, kind : UnreadOf(c, i, kind)' <=> UnreadOf(c, i, kind) /\ i # read[c] + 1
  BY <1>0, KnownHandles
<1> DEFINE r == read[c] + 1
<1>3. r \in 1 .. Len(outbox[c]) /\ Message(c) = outbox[c][r] /\ Unread(c, r)
  BY <1>1 DEF Message, Unread
<1>4. \A kind : UnreadOf(c, r, kind) <=> Message(c).kind = kind
  BY <1>3 DEF UnreadOf
<1>5. last[c] = NoSeq /\ last'[c] # NoSeq => UnreadOf(c, r, "subscribed")
  BY <1>4 DEF Handles
<1>6. UnreadOf(c, r, "subscribed") => last'[c] # NoSeq
  BY <1>4 DEF Handles
<1>7. last[c] # NoSeq => last'[c] # NoSeq
  BY DEF Handles
<1>8. UnreadOf(c, r, "subscribed") =>
        active[c] # {} /\ \A j \in 1 .. Len(outbox[c]) : UnreadOf(c, j, "subscribed") => r = j
  BY <1>0, <1>3 DEF Ordered
<1>9. active'[c] = active[c] /\ replay'[c] = replay[c]
  BY DEF FeedSame
<1>10. Behind(c)' /\ Feeding(c)'
  BY <1>0, <1>2, BehindStays, FeedingStays
<1>11. QueueBehind(c)'
  <2>1. \A i \in 1 .. Len(outbox[c]) : outbox[c][i].kind \in {"event", "subscribed"} => outbox[c][i].seq \in Nat
    BY <1>1, MessageNumbers
  <2>2. \A i \in 1 .. Len(outbox[c]) :
          outbox[c][i].kind \in {"event", "subscribed"} => outbox[c][i].seq <= Len(log')
    BY <1>0, <2>1 DEF QueueBehind, Grows
  <2>3. read'[c] <= Len(outbox[c])
    BY <1>1
  <2>4. QED
    BY <1>0, <1>1, <2>2, <2>3 DEF QueueBehind
<1>12. Linked(c)'
  <2>1. c \in open
    BY <1>0 DEF Linked
  <2>2. CASE up'[c] = up[c] /\ state'[c] = state[c]
    BY <1>0, <1>9, <2>1, <2>2 DEF Linked
  <2>3. CASE /\ \A i \in 1 .. Len(up'[c]) : up'[c][i] # SubscribeRequest
             /\ state'[c] = "subscribed" /\ Message(c).kind = "subscribed"
    BY <1>4, <1>8, <1>9, <2>1, <2>3 DEF Linked
  <2>4. QED
    BY <2>2, <2>3 DEF Settles
<1>13. Asked(c)'
  <2>1. replay[c].on => (last'[c] = NoSeq <=> last[c] = NoSeq)
    BY <1>0, <1>5, <1>7, <1>8 DEF Ordered
  <2>2. QED
    BY <1>0, <1>9, <2>1 DEF Asked, FeedSame
<1>14. Ordered(c)'
  <2>1. active[c] # {} => last'[c] # NoSeq \/ AwaitsAnswer(c)'
    <3>1. SUFFICES ASSUME active[c] # {}, last'[c] = NoSeq PROVE AwaitsAnswer(c)'
      OBVIOUS
    <3>2. AwaitsAnswer(c)
      BY <1>0, <1>7, <3>1 DEF Ordered
    <3>3. PICK i \in 1 .. Len(outbox[c]) : UnreadOf(c, i, "subscribed")
      BY <3>2 DEF AwaitsAnswer
    <3>4. i # r
      BY <1>6, <3>1, <3>3
    <3>5. UnreadOf(c, i, "subscribed")'
      BY <1>2, <3>3, <3>4
    <3>6. QED
      BY <1>1, <3>5 DEF AwaitsAnswer
  <2>2. ASSUME NEW i \in 1 .. Len(outbox[c]), UnreadOf(c, i, "event")', last'[c] = NoSeq
        PROVE  \E j \in 1 .. (i - 1) : UnreadOf(c, j, "subscribed")'
    <3>1. UnreadOf(c, i, "event") /\ last[c] = NoSeq
      BY <1>2, <1>7, <2>2
    <3>2. PICK j \in 1 .. (i - 1) : UnreadOf(c, j, "subscribed")
      BY <1>0, <3>1 DEF Ordered
    <3>3. j # r
      BY <1>6, <2>2, <3>2
    <3>4. QED
      BY <1>2, <3>2, <3>3
  <2>3. ASSUME NEW i \in 1 .. Len(outbox[c]), UnreadOf(c, i, "subscribed")'
        PROVE  active[c] # {} /\ \A j \in 1 .. Len(outbox[c]) : UnreadOf(c, j, "subscribed")' => i = j
    BY <1>0, <1>2, <2>3 DEF Ordered
  <2>4. active[c] # {} => ~replay[c].on
    BY <1>0 DEF Ordered
  <2>5. QED
    BY <1>1, <1>9, <2>1, <2>2, <2>3, <2>4 DEF Ordered
<1>15. Stream(c)'
  <2>1. ASSUME NEW i \in 1 .. Len(outbox[c]), NEW kind, UnreadOf(c, i, kind)'
        PROVE  /\ i \in (read[c] + 2) .. (Len(outbox[c]) + 1) /\ UnreadOf(c, i, kind) /\ i # r
               /\ kind \in {"event", "subscribed"} => outbox[c][i].seq \in Int /\ outbox[c][i].seq - 1 \in Int
    <3>1. UnreadOf(c, i, kind) /\ i # r
      BY <1>2, <2>1
    <3>2. i > read[c] /\ outbox[c][i].kind = kind
      BY <3>1 DEF UnreadOf, Unread
    <3>3. i \in (read[c] + 2) .. (Len(outbox[c]) + 1)
      BY <1>1, <3>1, <3>2
    <3>4. kind \in {"event", "subscribed"} => outbox[c][i].seq \in Nat
      BY <1>1, <3>2, MessageNumbers
    <3>5. QED
      BY <3>1, <3>3, <3>4
  <2>2. ASSUME NEW i \in 1 .. Len(outbox[c]), UnreadOf(c, i, "event")'
        PROVE  KnownBefore(c, i, outbox[c][i].seq - 1)'
    <3>1. i \in (read[c] + 2) .. (Len(outbox[c]) + 1) /\ UnreadOf(c, i, "event")
          /\ outbox[c][i].seq - 1 \in Int
      BY <2>1, <2>2
    <3>2. KnownBefore(c, i, outbox[c][i].seq - 1)
      BY <1>0, <3>1 DEF Stream
    <3>3. ASSUME NEW n \in Int, n = outbox[c][i].seq - 1, KnownBefore(c, i, n)'
          PROVE  KnownBefore(c, i, outbox[c][i].seq - 1)'
      BY <1>1, <3>3
    <3>4. QED
      BY <1>2, <3>1, <3>2, <3>3
  <2>3. ASSUME NEW i \in 1 .. Len(outbox[c]), UnreadOf(c, i, "subscribed")', last'[c] # NoSeq
        PROVE  KnownBefore(c, i, outbox[c][i].seq)'
    <3>1. i \in (read[c] + 2) .. (Len(outbox[c]) + 1) /\ UnreadOf(c, i, "subscribed") /\ i # r
          /\ outbox[c][i].seq \in Int
      BY <2>1, <2>3
    <3>2. last[c] # NoSeq
      BY <1>5, <1>8, <2>3, <3>1
    <3>3. KnownBefore(c, i, outbox[c][i].seq)
      BY <1>0, <3>1, <3>2 DEF Stream
    <3>4. ASSUME NEW n \in Int, n = outbox[c][i].seq, KnownBefore(c, i, n)'
          PROVE  KnownBefore(c, i, outbox[c][i].seq)'
      BY <1>1, <3>4
    <3>5. QED
      BY <1>2, <3>1, <3>3, <3>4
  <2>4. QED
    BY <1>1, <2>2, <2>3 DEF Stream
<1>16. QED
  BY <1>10, <1>11, <1>12, <1>13, <1>14, <1>15 DEF Follows

\* What is left of the connection after a message is handled.
LEMMA ReceiveRests ==
  ASSUME FeedGround, NEW c \in Conns, NEW kind, Receiving(c, kind)
  PROVE  /\ Grows /\ delivered' = delivered /\ open' = open
         /\ (\A d \in Conns : FeedSame(d))
         /\ outbox'[c] = outbox[c] /\ read[c] < Len(outbox[c]) /\ read'[c] = read[c] + 1
         /\ Message(c) \in SyncMsgs /\ Message(c).kind = kind
         /\ state[c] \in {"hello", "subscribed"}
         /\ \A d \in Conns : d # c => outbox'[d] = outbox[d] /\ read'[d] = read[d]
<1>1. /\ Message(c) \in SyncMsgs /\ Message(c).kind = kind
      /\ read'[c] = read[c] + 1
      /\ \A d \in Conns : d # c => read'[d] = read[d]
  BY Receives DEF FeedGround
<1>2. UNCHANGED <<log, published, open, tail, held, active, delivered, replay, at, outbox>>
      /\ read[c] < Len(outbox[c]) /\ state[c] \in {"hello", "subscribed"}
  BY DEF Receiving, feedVars
<1>3. Grows
  BY <1>2, QueueOf DEF Grows, FeedGround
<1>4. QED
  BY <1>1, <1>2, <1>3 DEF FeedSame

\* Handling any message.
LEMMA FollowsHandled ==
  ASSUME FeedGround, NEW c \in Conns, Follows(c), Followed, Receive(c), Receipts(c), current \in Works
  PROVE  Follows(c)' /\ OthersRest(c) /\ Grows /\ delivered' = delivered /\ Handles(c)
<1>0. Shapes /\ ClientShape /\ WorkShape
  BY DEF FeedGround, Shapes
<1>1. PICK kind : Receiving(c, kind)
  BY DEF Receive, ReceiveEvent, ReceiveSubscribed, ReceiveCommitted, ReceiveFailed, ReceiveRestarting,
         ReceiveInterrupted, ReceiveSeqTooOld
<1>2. /\ Grows /\ delivered' = delivered /\ open' = open
      /\ (\A d \in Conns : FeedSame(d))
      /\ outbox'[c] = outbox[c] /\ read[c] < Len(outbox[c]) /\ read'[c] = read[c] + 1
      /\ Message(c) \in SyncMsgs /\ Message(c).kind = kind
      /\ state[c] \in {"hello", "subscribed"}
      /\ \A d \in Conns : d # c => outbox'[d] = outbox[d] /\ read'[d] = read[d]
  BY <1>1, ReceiveRests
<1>3. /\ last[c] \in {NoSeq} \cup Nat /\ NoSeq \notin Nat /\ Len(log) \in Nat
      /\ read[c] \in Nat /\ Len(outbox[c]) \in Nat
      /\ last \in [Conns -> {NoSeq} \cup Nat] /\ state \in [Conns -> {"down", "connecting", "hello", "subscribed"}]
      /\ up \in [Conns -> Seq(Numbers)]
  BY <1>0, QueueOf DEF ClientShape, WorkShape
<1> DEFINE m == Message(c)
           n == m.seq
<1>4. /\ m.kind \in {"event", "subscribed", "seqTooOld"} => n \in Nat
      /\ m.kind = "committed" => n \in Int
  BY <1>2, MessageNumbers
<1>5. m.kind \in {"event", "subscribed", "committed"} => n <= Len(log')
  <2>1. read[c] + 1 \in 1 .. Len(outbox[c]) /\ m = outbox[c][read[c] + 1]
    BY <1>2, <1>3 DEF Message
  <2>2. CASE m.kind \in {"event", "subscribed"}
    BY <1>2, <1>3, <1>4, <2>1, <2>2, SMTT(20) DEF Follows, QueueBehind, Grows
  <2>3. CASE m.kind = "committed"
    <3>1. n \in 1 .. Len(log)
      BY <2>1, <2>3 DEF Receipts, Names
    <3>2. QED
      BY <1>2, <1>3, <1>4, <3>1 DEF Grows
  <2>4. QED
    BY <2>2, <2>3
<1>6. last[c] # NoSeq => last[c] <= Len(log')
  BY <1>2, <1>3 DEF Follows, QueueBehind, Grows
<1>7. state[c] = "subscribed" \/ inFlight[c] # {} => last[c] # NoSeq
  BY DEF Followed
<1> HIDE DEF m
\* What is to be shown of each kind of message.
<1>8. SUFFICES /\ last'[c] \in {NoSeq} \cup Nat
               /\ last[c] # NoSeq => last'[c] # NoSeq /\ last[c] <= last'[c]
               /\ last[c] = NoSeq /\ last'[c] # NoSeq => m.kind = "subscribed"
               /\ m.kind = "subscribed" => last'[c] # NoSeq
               /\ m.kind \in {"event", "subscribed"} /\ last'[c] # NoSeq => n <= last'[c]
               /\ last'[c] # NoSeq => last'[c] <= Len(log')
               /\ lagSeen[c] => lagSeen'[c]
               /\ m.kind = "seqTooOld" => lagSeen'[c]
               /\ Settles(c)
               /\ \A d \in Conns : d # c => SameCourse(d) /\ LinkSame(d)
  <2>1. Handles(c)
    BY <1>2, <1>8 DEF Handles, m
  <2>2. Follows(c)'
    BY <1>2, <1>8, <2>1, FollowsHandles
  <2>3. OthersRest(c)
    BY <1>2, <1>8 DEF OthersRest, Mute
  <2>4. QED
    BY <1>2, <2>1, <2>2, <2>3
<1>9. CASE ReceiveEvent(c)
  <2>1. m.kind = "event" /\ UNCHANGED <<up, state, lagSeen>>
    BY <1>9 DEF ReceiveEvent, Receiving, linkVars, m
  <2>2. /\ \A d \in Conns : d # c => last'[d] = last[d]
        /\ IF Accepts(c, n) THEN last'[c] = n ELSE last'[c] = last[c]
    BY <1>3, <1>9 DEF ReceiveEvent, Applied, m
  <2>3. last[c] = NoSeq => ~Accepts(c, n)
    BY <1>7 DEF Accepts
  <2>4. last[c] # NoSeq => (Accepts(c, n) <=> n > last[c])
    BY DEF Accepts
  <2>5. Settles(c) /\ \A d \in Conns : d # c => SameCourse(d) /\ LinkSame(d)
    BY <1>2, <2>1, <2>2 DEF Settles, SameCourse, LinkSame
  <2>6. QED
    BY <1>3, <1>4, <1>5, <1>6, <2>1, <2>2, <2>3, <2>4, <2>5
<1>10. CASE ReceiveSubscribed(c)
  <2>1. m.kind = "subscribed" /\ lagSeen' = lagSeen
    BY <1>10 DEF ReceiveSubscribed, Receiving, m
  <2>2. /\ last'[c] = Resumed(c, n) /\ state'[c] = "subscribed"
        /\ \A d \in Conns : d # c => last'[d] = last[d] /\ state'[d] = state[d] /\ up'[d] = up[d]
        /\ up'[c] = IF eof[c] THEN up[c] ELSE up[c] \o InOrder(Resend(c))
    BY <1>3, <1>10 DEF ReceiveSubscribed, m
  <2>3. Resumed(c, n) = IF last[c] = NoSeq THEN n ELSE IF last[c] >= n THEN last[c] ELSE n
    BY DEF Resumed, MaxOf2
  <2>4. \A i \in 1 .. Len(up'[c]) : up'[c][i] # SubscribeRequest
    <3>1. UnreadOf(c, read[c] + 1, "subscribed") /\ read[c] + 1 \in 1 .. Len(outbox[c])
      BY <1>2, <1>3, <2>1 DEF UnreadOf, Unread, Message, m
    <3>2. active[c] # {}
      BY <3>1 DEF Follows, Ordered
    <3>3. \A i \in 1 .. Len(up[c]) : up[c][i] # SubscribeRequest
      BY <3>2 DEF Follows, Linked
    <3>4. Resend(c) \in SUBSET Seqs
      BY DEF Resend
    <3>5. InOrder(Resend(c)) \in Seq(Seqs)
      BY <3>4, InOrderLists
    <3>6. SubscribeRequest \notin Seqs
      BY SyncAssumption DEF SubscribeRequest, Seqs
    <3> DEFINE u == up[c]
               v == InOrder(Resend(c))
    <3>7. u \in Seq(Numbers) /\ v \in Seq(Seqs) /\ \A i \in 1 .. Len(u) : u[i] # SubscribeRequest
      BY <1>3, <3>3, <3>5
    <3>8. up'[c] = u \/ up'[c] = u \o v
      BY <2>2
    <3> HIDE DEF u, v
    <3>9. v \in Seq(Numbers) /\ \A i \in 1 .. Len(v) : v[i] # SubscribeRequest
      BY <3>6, <3>7 DEF Numbers
    <3>10. \A i \in 1 .. Len(u \o v) : (u \o v)[i] # SubscribeRequest
      BY <3>7, <3>9
    <3>11. QED
      BY <3>7, <3>8, <3>10
  <2>5. Settles(c) /\ \A d \in Conns : d # c => SameCourse(d) /\ LinkSame(d)
    BY <1>2, <2>1, <2>2, <2>4 DEF Settles, SameCourse, LinkSame, m
  <2>6. QED
    BY <1>3, <1>4, <1>5, <1>6, <2>1, <2>2, <2>3, <2>5
<1>11. CASE ReceiveCommitted(c)
  <2>1. m.kind = "committed" /\ UNCHANGED <<up, state, lagSeen>>
    BY <1>11 DEF ReceiveCommitted, Receiving, linkVars, m
  <2>2. /\ \A d \in Conns : d # c => last'[d] = last[d]
        /\ last'[c] = last[c] \/ (last'[c] = n /\ inFlight[c] # {} /\ ~(last[c] >= n))
    BY <1>3, <1>11 DEF ReceiveCommitted, Applied, EchoSeen, m
  <2>3. Settles(c) /\ \A d \in Conns : d # c => SameCourse(d) /\ LinkSame(d)
    BY <1>2, <2>1, <2>2 DEF Settles, SameCourse, LinkSame
  <2>4. QED
    BY <1>3, <1>4, <1>5, <1>6, <1>7, <2>1, <2>2, <2>3
<1>12. CASE ReceiveFailed(c) \/ ReceiveRestarting(c) \/ ReceiveInterrupted(c)
  <2>1. m.kind \in {"failed", "restarting", "interrupted"} /\ UNCHANGED <<up, state, lagSeen, last>>
    BY <1>12 DEF ReceiveFailed, ReceiveRestarting, ReceiveInterrupted, Settle, Receiving, linkVars, m
  <2>2. Settles(c) /\ \A d \in Conns : d # c => SameCourse(d) /\ LinkSame(d)
    BY <1>2, <2>1 DEF Settles, SameCourse, LinkSame
  <2>3. QED
    BY <1>3, <1>6, <2>1, <2>2
<1>13. CASE ReceiveSeqTooOld(c)
  <2>1. m.kind = "seqTooOld" /\ UNCHANGED <<up, state, last>>
    BY <1>13 DEF ReceiveSeqTooOld, Receiving, linkVars, m
  <2>2. lagSeen' = [lagSeen EXCEPT ![c] = TRUE]
    BY <1>13 DEF ReceiveSeqTooOld
  <2>3. lagSeen'[c] /\ \A d \in Conns : d # c => lagSeen'[d] = lagSeen[d]
    BY <2>2 DEF FeedGround
  <2>4. Settles(c) /\ \A d \in Conns : d # c => SameCourse(d) /\ LinkSame(d)
    BY <1>2, <2>1, <2>3 DEF Settles, SameCourse, LinkSame
  <2>5. QED
    BY <1>3, <1>6, <2>1, <2>3, <2>4
<1>14. QED
  BY <1>9, <1>10, <1>11, <1>12, <1>13 DEF Receive

-----------------------------------------------------------------------------
(***************************************************************************)
(* The other steps of a connection and of the daemon.                      *)
(***************************************************************************)

\* A closed connection has nothing queued, and a new one nothing but its
\* Subscribe request on its way.
LEMMA FollowsOpens ==
  ASSUME FeedGround, NEW c \in Conns, Follows(c), Welcome(c) \/ Dial(c) \/ DialFailed(c)
  PROVE  Follows(c)' /\ OthersRest(c) /\ Grows /\ delivered' = delivered
<1> USE DEF FeedGround
<1>0. Behind(c) /\ QueueBehind(c) /\ Linked(c) /\ Asked(c) /\ Ordered(c) /\ Stream(c) /\ Feeding(c)
  BY DEF Follows
<1>1. /\ tail \in [Conns -> Nat] /\ published \in Nat /\ Len(log) \in Nat
      /\ state \in [Conns -> {"down", "connecting", "hello", "subscribed"}]
      /\ up \in [Conns -> Seq(Numbers)]
  BY DEF Shapes, FeedShape, ClientShape, WorkShape
<1>2. /\ UNCHANGED <<log, published, held, active, delivered, replay, at, outbox, read, last, lagSeen>>
      /\ \A d \in Conns : d # c => /\ tail'[d] = tail[d] /\ state'[d] = state[d] /\ up'[d] = up[d]
                                   /\ (d \in open' <=> d \in open)
  BY <1>1 DEF Welcome, Connect, Dial, DialFailed, feedVars, linkVars
<1>3. Grows
  BY <1>1, <1>2 DEF Grows
<1>4. \A d \in Conns : Mute(d)
  BY <1>2 DEF Mute, SameCourse
<1>5. OthersRest(c)
  BY <1>2, <1>4 DEF OthersRest, FeedSame, LinkSame
<1>6. Mute(c)
  BY <1>4
<1>7. /\ \A i, n : KnownBefore(c, i, n)' <=> KnownBefore(c, i, n)
      /\ \A n : Told(c, n)' <=> Told(c, n)
      /\ Lags(c)' <=> Lags(c)
      /\ \A i, kind : UnreadOf(c, i, kind)' <=> UnreadOf(c, i, kind)
  BY <1>6, KnownMute
<1>8. c \notin open /\ held[c] = 0 /\ active[c] = {} /\ ~replay[c].on /\ outbox[c] = <<>>
      /\ \A i \in 1 .. Len(up[c]) : up[c][i] # SubscribeRequest
  BY <1>0 DEF Linked, Welcome, Dial, DialFailed
<1>9. Len(outbox[c]) = 0
  BY <1>8
<1>10. QueueBehind(c)' /\ Asked(c)' /\ Ordered(c)' /\ Stream(c)' /\ Feeding(c)'
  <2>1. QueueBehind(c)'
    BY <1>0, <1>2 DEF QueueBehind
  <2>2. Asked(c)' /\ Feeding(c)'
    BY <1>2, <1>8 DEF Asked, Feeding
  <2>3. Ordered(c)' /\ Stream(c)'
    BY <1>2, <1>8, <1>9 DEF Ordered, Stream
  <2>4. QED
    BY <2>1, <2>2, <2>3
<1>11. Behind(c)'
  <2>1. tail'[c] = tail[c] \/ tail'[c] = published
    BY <1>1 DEF Welcome, Connect, Dial, DialFailed, feedVars
  <2>2. QED
    BY <1>0, <1>1, <1>2, <1>8, <2>1 DEF Behind
<1>12. Linked(c)'
  <2>1. CASE Welcome(c)
    <3>1. c \in open' /\ state'[c] = "hello" /\ up'[c] = <<SubscribeRequest>>
      BY <1>1, <2>1 DEF Welcome, Connect
    <3>2. QED
      BY <1>2, <1>8, <3>1 DEF Linked
  <2>2. CASE Dial(c) \/ DialFailed(c)
    <3>1. c \notin open' /\ state'[c] \in {"connecting", "down"} /\ up'[c] = up[c]
      BY <1>1, <1>8, <2>2 DEF Dial, DialFailed, feedVars, linkVars
    <3>2. QED
      BY <1>0, <1>2, <1>8, <3>1 DEF Linked
  <2>3. QED
    BY <2>1, <2>2
<1>13. QED
  BY <1>2, <1>3, <1>5, <1>10, <1>11, <1>12 DEF Follows

\* The connection is gone with all that was queued.
LEMMA FollowsLost ==
  ASSUME FeedGround, NEW c \in Conns, Follows(c), ConnectionLost(c)
  PROVE  Follows(c)' /\ OthersRest(c) /\ Grows /\ delivered' \in [Conns -> [Scopes -> Nat]]
<1> USE DEF FeedGround
<1>0. QueueBehind(c)
  BY DEF Follows
<1>1. /\ published \in Nat /\ Len(log) \in Nat
      /\ state \in [Conns -> {"down", "connecting", "hello", "subscribed"}]
      /\ FeedShape /\ ClientShape /\ WorkShape
  BY DEF Shapes, FeedShape, ClientShape
<1>2. /\ UNCHANGED <<log, published, last, lagSeen>>
      /\ open' = open \ {c}
  BY DEF ConnectionLost, Disconnect
<1>3. /\ tail'[c] = 0 /\ held'[c] = 0 /\ active'[c] = {} /\ replay'[c] = NoReplay
      /\ outbox'[c] = <<>> /\ read'[c] = 0 /\ state'[c] = "down" /\ up'[c] = <<>>
  BY <1>1 DEF ConnectionLost, Disconnect, FeedShape, ClientShape, WorkShape
<1>4. \A d \in Conns : d # c =>
        /\ tail'[d] = tail[d] /\ held'[d] = held[d] /\ active'[d] = active[d] /\ replay'[d] = replay[d]
        /\ outbox'[d] = outbox[d] /\ read'[d] = read[d] /\ state'[d] = state[d] /\ up'[d] = up[d]
        /\ at'[d] = at[d] /\ delivered'[d] = delivered[d]
  BY <1>1 DEF ConnectionLost, Disconnect, FeedShape, ClientShape, WorkShape
<1>5. delivered' \in [Conns -> [Scopes -> Nat]]
  BY DEF ConnectionLost, Disconnect
<1>6. Grows
  BY <1>1, <1>2 DEF Grows
<1>7. OthersRest(c)
  BY <1>2, <1>4 DEF OthersRest, Mute, SameCourse, FeedSame, LinkSame
<1>8. ~replay'[c].on
  BY <1>3 DEF NoReplay
<1>9. Len(outbox'[c]) = 0 /\ Len(up'[c]) = 0
  BY <1>3
<1>10. Behind(c)' /\ Asked(c)' /\ Feeding(c)'
  BY <1>1, <1>2, <1>3, <1>8 DEF Behind, Asked, Feeding
<1>11. QueueBehind(c)' /\ Ordered(c)' /\ Stream(c)'
  BY <1>0, <1>2, <1>3, <1>9 DEF QueueBehind, Ordered, Stream
<1>12. Linked(c)'
  BY <1>2, <1>3, <1>8, <1>9 DEF Linked
<1>13. QED
  BY <1>5, <1>6, <1>7, <1>10, <1>11, <1>12 DEF Follows

\* The head of a stream leaves it with no Subscribe request.
LEMMA StreamWithout ==
  ASSUME WorkShape, NEW c \in Conns, up[c] # <<>>, Linked(c), up' = [up EXCEPT ![c] = Tail(@)]
  PROVE  /\ \A i \in 1 .. Len(up'[c]) : up'[c][i] # SubscribeRequest
         /\ \A d \in Conns : d # c => up'[d] = up[d]
<1> DEFINE u == up[c]
           t == Tail(u)
<1>1. up'[c] = t /\ \A d \in Conns : d # c => up'[d] = up[d]
  BY DEF WorkShape
<1>2. Len(u) \in Nat /\ Len(u) >= 1 /\ Len(t) = Len(u) - 1 /\ \A i \in 1 .. Len(t) : t[i] = u[i + 1]
  BY HeadOfStream
<1>3. \A i \in 1 .. Len(u) : u[i] = SubscribeRequest => Len(u) = 1
  BY DEF Linked
<1> HIDE DEF u, t
<1>4. ASSUME NEW i \in 1 .. Len(t), t[i] = SubscribeRequest
      PROVE  FALSE
  <2>1. i \in 1 .. (Len(u) - 1) /\ i + 1 \in 1 .. Len(u)
    BY <1>2, <1>4
  <2>2. u[i + 1] = SubscribeRequest
    BY <1>2, <1>4
  <2>3. Len(u) = 1
    BY <1>3, <2>1, <2>2
  <2>4. QED
    BY <2>1, <2>3
<1>5. QED
  BY <1>1, <1>4

\* A mutation joins a stream with no Subscribe request.
LEMMA StreamWith ==
  ASSUME WorkShape, NEW c \in Conns, NEW k \in Seqs, Linked(c), state[c] = "subscribed",
         up' = [up EXCEPT ![c] = Append(@, k)]
  PROVE  /\ \A i \in 1 .. Len(up'[c]) : up'[c][i] # SubscribeRequest
         /\ \A d \in Conns : d # c => up'[d] = up[d]
<1>1. up[c] \in Seq(Numbers) /\ up'[c] = Append(up[c], k) /\ \A d \in Conns : d # c => up'[d] = up[d]
  BY DEF WorkShape
<1>2. \A i \in 1 .. Len(up[c]) : up[c][i] # SubscribeRequest
  BY DEF Linked
<1>3. k # SubscribeRequest
  BY SyncAssumption DEF Seqs, SubscribeRequest
<1>4. QED
  BY <1>1, <1>2, <1>3

\* A message about mutations is queued for a client.
LEMMA FollowsAnswers ==
  ASSUME FeedGround, NEW c \in Conns, Follows(c), Refuse(c) \/ Answer(c) \/ Drain(c)
  PROVE  Follows(c)' /\ OthersRest(c) /\ Grows /\ delivered' = delivered
         /\ \E m \in SyncMsgs : /\ Hears(c, m) /\ m.kind \notin FeedKinds
                                /\ m.kind = "committed" => Answer(c) /\ m \in ready[c]
<1> USE DEF FeedGround
<1>1. FeedShape /\ ClientShape /\ WorkShape /\ Linked(c)
  BY DEF Shapes, Follows
<1>2. UNCHANGED <<log, published, open, tail, held, active, delivered, replay, at, read, last, lagSeen, state>>
      /\ c \in open
  BY DEF Refuse, Answer, Drain, Serving, clientVars
<1>3. Grows
  BY <1>2, QueueOf DEF Grows
<1>4. /\ up'[c] = up[c] \/ \A i \in 1 .. Len(up'[c]) : up'[c][i] # SubscribeRequest
      /\ \A d \in Conns : d # c => up'[d] = up[d]
  <2>1. CASE Refuse(c)
    <3>1. up[c] # <<>> /\ up' = [up EXCEPT ![c] = Tail(@)]
      BY <2>1 DEF Refuse
    <3>2. QED
      BY <1>1, <3>1, StreamWithout
  <2>2. CASE Answer(c) \/ Drain(c)
    BY <2>2 DEF Answer, Drain
  <2>3. QED
    BY <2>1, <2>2
<1>5. PICK m \in SyncMsgs : /\ Says(c, m) /\ m.kind \notin FeedKinds
                            /\ m.kind = "committed" => Answer(c) /\ m \in ready[c]
  <2>1. CASE Refuse(c)
    <3>1. Head(up[c]) \in Nat
      BY <1>1, <2>1, HeadOfStream DEF Refuse
    <3>2. Says(c, Restarting(Head(up[c])))
      BY <2>1 DEF Refuse, Says
    <3>3. Restarting(Head(up[c])) \in SyncMsgs /\ Restarting(Head(up[c])).kind = "restarting"
      BY <3>1, MessageShapes
    <3>4. QED
      BY <3>2, <3>3 DEF FeedKinds
  <2>2. CASE Answer(c)
    <3>1. PICK r \in ready[c] : Says(c, r)
      BY <2>2 DEF Answer, Says
    <3>2. r \in SyncMsgs /\ r.kind \in {"committed", "failed"}
      BY <1>1, <3>1, MessageShapes DEF WorkShape
    <3>3. QED
      BY <2>2, <3>1, <3>2 DEF FeedKinds
  <2>3. CASE Drain(c)
    <3>1. \E q \in SUBSET Nat : q = Unanswered(c)
      <4>1. \A i \in 1 .. Len(jobs) : jobs[i].seq \in Nat
        BY <1>1, JobsAppend
      <4>2. current.seq \in Nat
        BY <1>1 DEF WorkShape, Works
      <4>3. \A r \in ready[c] : r.request \in Nat
        BY <1>1, MessageShapes DEF WorkShape
      <4>4. QED
        BY <4>1, <4>2, <4>3 DEF Unanswered
    <3>2. Says(c, RestartInterrupted(Unanswered(c)))
      BY <2>3 DEF Drain, Says
    <3>3. RestartInterrupted(Unanswered(c)) \in SyncMsgs
          /\ RestartInterrupted(Unanswered(c)).kind = "interrupted"
      BY <3>1, MessageShapes
    <3>4. QED
      BY <3>2, <3>3 DEF FeedKinds
  <2>4. QED
    BY <2>1, <2>2, <2>3
<1>6. Hears(c, m) /\ \A d \in Conns : d # c => Mute(d)
  BY <1>2, <1>5, SaysHears
<1>7. \A d \in Conns : FeedSame(d) /\ LinkSame(d)
  BY <1>2, <1>4 DEF FeedSame, LinkSame
<1>8. OthersRest(c)
  BY <1>6, <1>7 DEF OthersRest
<1>9. Follows(c)'
  BY <1>2, <1>3, <1>5, <1>6, <1>7, FollowsHears
<1>10. QED
  BY <1>2, <1>3, <1>5, <1>6, <1>8, <1>9

\* Steps that queue nothing for anybody.
LEMMA QuietSteps ==
  ASSUME FeedGround, \A c \in Conns : Follows(c),
         \/ DaemonNext
         \/ \E c \in Conns : Admit(c) \/ CloseReview(c)
                             \/ \E k \in Seqs : Mutate(c, k) \/ AdmitOrphan(c, k)
  PROVE  /\ \A d \in Conns : Mute(d) /\ FeedSame(d) /\ LinkSame(d)
         /\ Grows /\ delivered' = delivered /\ lagSeen' = lagSeen
<1> USE DEF FeedGround
<1>1. FeedShape /\ ClientShape /\ WorkShape /\ (\A c \in Conns : Linked(c))
      /\ Len(log) \in Nat /\ published \in Nat /\ published <= Len(log)
  BY DEF Shapes, Follows, FeedShape
<1>2. UNCHANGED <<open, tail, held, active, delivered, replay, at, outbox, read, last, lagSeen, state>>
  BY DEF DaemonNext, SystemJob, TakeJob, RunJob, EndJob, PublishJob, FinishJob, PrepareRestart, Exit,
         Crash, StartDaemon, Gone, Append1, Publish, Admit, CloseReview, Mutate, AdmitOrphan, feedVars,
         connVars, clientVars, linkVars
<1>3. Grows
  <2>1. CASE RunJob
    <3>1. published' = published /\ Len(log') = Len(log) + 1
      BY <1>1, <2>1 DEF RunJob, Append1, FeedShape
    <3>2. QED
      BY <1>1, <3>1 DEF Grows
  <2>2. CASE PublishJob
    BY <1>1, <2>2 DEF PublishJob, Publish, Grows
  <2>3. CASE Crash
    BY <1>1, <2>3 DEF Crash, Grows
  <2>4. CASE log' = log /\ published' = published
    BY <1>1, <2>4 DEF Grows
  <2>5. ~(RunJob \/ PublishJob \/ Crash) => log' = log /\ published' = published
    BY DEF DaemonNext, SystemJob, TakeJob, EndJob, FinishJob, PrepareRestart, Exit, StartDaemon, Admit,
           CloseReview, Mutate, AdmitOrphan, feedVars
  <2>6. QED
    BY <2>1, <2>2, <2>3, <2>4, <2>5
<1>4. \A d \in Conns : up'[d] = up[d] \/ \A i \in 1 .. Len(up'[d]) : up'[d][i] # SubscribeRequest
  <2>1. CASE Gone
    <3>1. \A d \in Conns : up'[d] = <<>>
      BY <2>1 DEF Gone
    <3>2. QED
      BY <3>1
  <2>2. ASSUME NEW c \in Conns, Admit(c)
        PROVE \A d \in Conns : up'[d] = up[d] \/ \A i \in 1 .. Len(up'[d]) : up'[d][i] # SubscribeRequest
    <3>1. up[c] # <<>> /\ up' = [up EXCEPT ![c] = Tail(@)]
      BY <2>2 DEF Admit
    <3>2. /\ \A i \in 1 .. Len(up'[c]) : up'[c][i] # SubscribeRequest
          /\ \A d \in Conns : d # c => up'[d] = up[d]
      BY <1>1, <3>1, StreamWithout
    <3>3. QED
      BY <3>2
  <2>3. ASSUME NEW c \in Conns, NEW k \in Seqs, Mutate(c, k)
        PROVE \A d \in Conns : up'[d] = up[d] \/ \A i \in 1 .. Len(up'[d]) : up'[d][i] # SubscribeRequest
    <3>1. state[c] = "subscribed" /\ up' = [up EXCEPT ![c] = Append(@, k)]
      BY <2>3 DEF Mutate
    <3>2. /\ \A i \in 1 .. Len(up'[c]) : up'[c][i] # SubscribeRequest
          /\ \A d \in Conns : d # c => up'[d] = up[d]
      BY <1>1, <3>1, StreamWith
    <3>3. QED
      BY <3>2
  <2>4. CASE up' = up
    BY <2>4
  <2>5. \/ Gone \/ up' = up \/ \E c \in Conns : Admit(c) \/ \E k \in Seqs : Mutate(c, k)
    BY DEF DaemonNext, SystemJob, TakeJob, RunJob, EndJob, PublishJob, FinishJob, PrepareRestart, Exit,
           Crash, StartDaemon, CloseReview, AdmitOrphan, linkVars
  <2>6. QED
    BY <2>1, <2>2, <2>3, <2>4, <2>5
<1>5. \A d \in Conns : Mute(d)
  BY <1>2 DEF Mute, SameCourse
<1>6. \A d \in Conns : FeedSame(d)
  BY <1>2 DEF FeedSame
<1>7. \A d \in Conns : LinkSame(d)
  BY <1>2, <1>4 DEF LinkSame
<1>8. QED
  BY <1>2, <1>3, <1>5, <1>6, <1>7

\* Every step keeps what the clients have been told in order.
LEMMA FollowsKept ==
  ASSUME FeedGround, \A c \in Conns : Follows(c), \A c \in Conns : Receipts(c), Followed, SyncNext
  PROVE  /\ \A c \in Conns : Follows(c)'
         /\ Grows /\ delivered' \in [Conns -> [Scopes -> Nat]] /\ lagSeen' \in [Conns -> BOOLEAN]
<1>0. delivered \in [Conns -> [Scopes -> Nat]] /\ lagSeen \in [Conns -> BOOLEAN] /\ Shapes
      /\ current \in Works
  BY DEF FeedGround, Shapes, WorkShape
<1>1. ASSUME NEW c \in Conns, Follows(c)', OthersRest(c), Grows, delivered' \in [Conns -> [Scopes -> Nat]]
      PROVE  \A d \in Conns : Follows(d)'
  <2> SUFFICES ASSUME NEW d \in Conns, d # c PROVE Follows(d)'
    BY <1>1
  <2>1. Mute(d) /\ FeedSame(d) /\ LinkSame(d)
    BY <1>1 DEF OthersRest
  <2>2. QED
    BY <1>0, <1>1, <2>1, FollowsMute
<1>2. CASE \/ DaemonNext
           \/ \E c \in Conns : Admit(c) \/ CloseReview(c)
                               \/ \E k \in Seqs : Mutate(c, k) \/ AdmitOrphan(c, k)
  <2>1. /\ \A d \in Conns : Mute(d) /\ FeedSame(d) /\ LinkSame(d)
        /\ Grows /\ delivered' = delivered /\ lagSeen' = lagSeen
    BY <1>2, QuietSteps
  <2>2. QED
    BY <1>0, <2>1, FollowsMute
<1>3. ASSUME NEW c \in Conns, Welcome(c) \/ Dial(c) \/ DialFailed(c)
      PROVE  /\ \A d \in Conns : Follows(d)'
             /\ Grows /\ delivered' \in [Conns -> [Scopes -> Nat]] /\ lagSeen' = lagSeen
  <2>1. Follows(c)' /\ OthersRest(c) /\ Grows /\ delivered' = delivered
    BY <1>3, FollowsOpens
  <2>2. lagSeen' = lagSeen
    BY <1>3 DEF Welcome, Dial, DialFailed
  <2>3. QED
    BY <1>0, <1>1, <2>1, <2>2
<1>4. ASSUME NEW c \in Conns, ConnectionLost(c)
      PROVE  /\ \A d \in Conns : Follows(d)'
             /\ Grows /\ delivered' \in [Conns -> [Scopes -> Nat]] /\ lagSeen' = lagSeen
  <2>1. Follows(c)' /\ OthersRest(c) /\ Grows /\ delivered' \in [Conns -> [Scopes -> Nat]]
    BY <1>4, FollowsLost
  <2>2. lagSeen' = lagSeen
    BY <1>4 DEF ConnectionLost
  <2>3. QED
    BY <1>1, <2>1, <2>2
<1>5. ASSUME NEW c \in Conns, Subscribe(c)
      PROVE  /\ \A d \in Conns : Follows(d)'
             /\ Grows /\ delivered' \in [Conns -> [Scopes -> Nat]] /\ lagSeen' = lagSeen
  <2>1. Follows(c)' /\ OthersRest(c) /\ Grows /\ delivered' = delivered
    BY <1>5, FollowsSubscribe
  <2>2. lagSeen' = lagSeen
    BY <1>5 DEF Subscribe, clientVars
  <2>3. QED
    BY <1>0, <1>1, <2>1, <2>2
<1>6. ASSUME NEW c \in Conns, Feed(c)
      PROVE  /\ \A d \in Conns : Follows(d)'
             /\ Grows /\ delivered' \in [Conns -> [Scopes -> Nat]] /\ lagSeen' = lagSeen
  <2>1. Follows(c)' /\ OthersRest(c) /\ Grows /\ delivered' \in [Conns -> [Scopes -> Nat]]
    BY <1>6, FollowsFeed
  <2>2. lagSeen' = lagSeen
    BY <1>6 DEF Feed, clientVars
  <2>3. QED
    BY <1>1, <2>1, <2>2
<1>7. ASSUME NEW c \in Conns, Refuse(c) \/ Answer(c) \/ Drain(c)
      PROVE  /\ \A d \in Conns : Follows(d)'
             /\ Grows /\ delivered' \in [Conns -> [Scopes -> Nat]] /\ lagSeen' = lagSeen
  <2>1. Follows(c)' /\ OthersRest(c) /\ Grows /\ delivered' = delivered
    BY <1>7, FollowsAnswers
  <2>2. lagSeen' = lagSeen
    BY <1>7 DEF Refuse, Answer, Drain, clientVars
  <2>3. QED
    BY <1>0, <1>1, <2>1, <2>2
<1>8. ASSUME NEW c \in Conns, Receive(c)
      PROVE  /\ \A d \in Conns : Follows(d)'
             /\ Grows /\ delivered' \in [Conns -> [Scopes -> Nat]] /\ lagSeen' \in [Conns -> BOOLEAN]
  <2>1. Follows(c)' /\ OthersRest(c) /\ Grows /\ delivered' = delivered
    BY <1>0, <1>8, FollowsHandled
  <2>2. lagSeen' = lagSeen \/ lagSeen' = [lagSeen EXCEPT ![c] = TRUE]
    BY <1>8 DEF Receive, ReceiveEvent, ReceiveSubscribed, ReceiveCommitted, ReceiveFailed,
                ReceiveRestarting, ReceiveInterrupted, ReceiveSeqTooOld, Settle
  <2>3. QED
    BY <1>0, <1>1, <2>1, <2>2
<1>9. QED
  BY <1>0, <1>2, <1>3, <1>4, <1>5, <1>6, <1>7, <1>8 DEF SyncNext, LinkNext, ClientNext

-----------------------------------------------------------------------------
(***************************************************************************)
(* What the writer thread has written.                                     *)
(***************************************************************************)

\* What is in the log stays where it is.
LogKept ==
  /\ Len(log) \in Nat /\ Len(log') \in Nat /\ Len(log) <= Len(log')
  /\ \A n \in 1 .. Len(log) : log'[n] = log[n]

\* The jobs and the log rest, but for whom the answers go to.
LEMMA JobLogStays ==
  ASSUME Shapes, JobLog, log' = log,
         \/ Len(jobs') = 0
         \/ Len(jobs') = Len(jobs)
            /\ \A i \in 1 .. Len(jobs) : jobs'[i].by = jobs[i].by /\ jobs'[i].seq = jobs[i].seq
                                         /\ jobs'[i].events = jobs[i].events,
         \/ current' = NoJob
         \/ current'.by = current.by /\ current'.seq = current.seq
            /\ current'.events = current.events /\ current'.phase = current.phase
  PROVE  JobLog'
<1>1. Len(log) \in Nat
  BY QueueOf DEF Shapes, FeedShape
<1>2. \A i \in 1 .. Len(jobs') : Owned(jobs'[i]) /\ jobs'[i].events = 0
  <2>1. CASE Len(jobs') = 0
    BY <2>1
  <2>2. CASE Len(jobs') = Len(jobs)
            /\ \A i \in 1 .. Len(jobs) : jobs'[i].by = jobs[i].by /\ jobs'[i].seq = jobs[i].seq
                                         /\ jobs'[i].events = jobs[i].events
    BY <2>2 DEF JobLog, Owned
  <2>3. QED
    BY <2>1, <2>2
<1>3. CASE current' = NoJob
  <2>1. /\ current'.by = Daemon /\ current'.seq = 0 /\ current'.events = 0 /\ current'.phase = "none"
    BY <1>3 DEF NoJob
  <2>2. Owned(current')
    BY <2>1 DEF Owned
  <2>3. QED
    BY <1>1, <1>2, <2>1, <2>2 DEF JobLog, FirstEvent
<1>4. CASE current'.by = current.by /\ current'.seq = current.seq
            /\ current'.events = current.events /\ current'.phase = current.phase
  <2>1. Owned(current')
    BY <1>4 DEF Owned, JobLog
  <2>2. QED
    BY <1>2, <1>4, <2>1 DEF JobLog, FirstEvent
<1>5. QED
  BY <1>3, <1>4

\* A job joins the queue.
LEMMA JobLogQueues ==
  ASSUME Shapes, JobLog, UNCHANGED <<log, current>>, NEW j \in Works, Owned(j), j.events = 0,
         jobs' = Append(jobs, j)
  PROVE  JobLog'
<1>1. /\ Len(jobs) \in Nat /\ Len(jobs') = Len(jobs) + 1
      /\ \A i \in 1 .. Len(jobs) : jobs'[i] = jobs[i]
      /\ jobs'[Len(jobs) + 1] = j
  BY JobsAppend DEF Shapes
<1>2. \A i \in 1 .. Len(jobs') : Owned(jobs'[i]) /\ jobs'[i].events = 0
  <2> SUFFICES ASSUME NEW i \in 1 .. (Len(jobs) + 1) PROVE Owned(jobs'[i]) /\ jobs'[i].events = 0
    BY <1>1
  <2>1. i \in 1 .. Len(jobs) \/ i = Len(jobs) + 1
    BY <1>1
  <2>2. CASE i \in 1 .. Len(jobs)
    <3>1. jobs'[i] = jobs[i]
      BY <1>1, <2>2
    <3>2. QED
      BY <2>2, <3>1 DEF JobLog
  <2>3. CASE i = Len(jobs) + 1
    BY <1>1, <2>3
  <2>4. QED
    BY <2>1, <2>2, <2>3
<1>3. FirstEvent' = FirstEvent
  BY DEF FirstEvent
<1>4. QED
  BY <1>2, <1>3 DEF JobLog

\* The running job appends its next event.
LEMMA JobLogRuns ==
  ASSUME Shapes, JobLog, RunJob
  PROVE  JobLog' /\ LogKept /\ current'.by = current.by /\ current'.events = current.events + 1
         /\ Len(log') = Len(log) + 1 /\ FirstEvent' = FirstEvent
<1> DEFINE e == current.events
           t == Part(current.by, current.seq, e + 1)
           L == Len(log)
<1>1. current \in Works /\ e \in Nat /\ L \in Nat /\ log \in Seq(LogEvents)
  BY DEF Shapes, WorkShape, Works, FeedShape
<1>2. /\ log' = Append(log, t) /\ e < (IF current.by = Daemon THEN 1 ELSE 2)
      /\ current.phase = "running" /\ jobs' = jobs
  BY DEF RunJob, Append1
<1>3. /\ current'.by = current.by /\ current'.seq = current.seq /\ current'.events = e + 1
      /\ current'.phase = "running"
  BY <1>1, <1>2 DEF RunJob, Works
<1>4. Len(log') = L + 1 /\ log'[L + 1] = t /\ \A n \in 1 .. L : log'[n] = log[n]
  BY <1>1, <1>2
<1>5. e <= L /\ Owned(current) /\ (e > 0 => log[L - e + 1] = Part(current.by, current.seq, 1))
  BY DEF JobLog, FirstEvent
<1>6. current.by = Daemon \/ current.by \in Conns
  BY <1>1 DEF Works, Authors
<1>7. e = 0 \/ (e = 1 /\ current.by \in Conns /\ current.seq \in Seqs)
  BY <1>1, <1>2, <1>5, SyncAssumption DEF Owned
<1>8. Owned(current')
  BY <1>1, <1>2, <1>3, <1>5, SyncAssumption DEF Owned
<1>9. t \in SyncTopics /\ t.part = e + 1 /\ t.by = current.by /\ t.seq = current.seq
  <2>1. CASE current.by = Daemon
    <3>1. e = 0 /\ current.seq = 0
      BY <1>1, <1>2, <1>5, <2>1, SyncAssumption DEF Owned
    <3>2. QED
      BY <2>1, <3>1 DEF SyncTopics, SystemEvent, Part
  <2>2. CASE current.by \in Conns
    <3>1. current.seq \in Seqs /\ e + 1 \in 1 .. 2
      BY <1>5, <1>7, <2>2, SyncAssumption DEF Owned
    <3>2. QED
      BY <2>2, <3>1 DEF SyncTopics, Part
  <2>3. QED
    BY <1>6, <2>1, <2>2
<1> HIDE DEF t
<1>10. FirstEvent' = L - e + 1 /\ FirstEvent = L - e + 1
  BY <1>1, <1>3, <1>4 DEF FirstEvent
<1>11. e = 0 => t = Part(current.by, current.seq, 1)
  BY DEF t
<1>12. log'[L - e + 1] = Part(current.by, current.seq, 1)
  <2>1. CASE e = 0
    BY <1>1, <1>4, <1>11, <2>1
  <2>2. CASE e = 1
    <3>1. L - e + 1 \in 1 .. L
      BY <1>1, <1>5, <2>2
    <3>2. QED
      BY <1>4, <1>5, <2>2, <3>1
  <2>3. QED
    BY <1>7, <2>1, <2>2
<1>13. ASSUME NEW n \in 1 .. (L + 1)
       PROVE  /\ log'[n] \in SyncTopics
              /\ log'[n].part # 1 => n > 1 /\ log'[n - 1] = Part(log'[n].by, log'[n].seq, 1)
  <2>1. CASE n \in 1 .. L
    <3>1. log'[n] = log[n] /\ log[n] \in SyncTopics
          /\ (log[n].part # 1 => n > 1 /\ log[n - 1] = Part(log[n].by, log[n].seq, 1))
      BY <1>4, <2>1 DEF JobLog
    <3>2. n > 1 => n - 1 \in 1 .. L
      BY <1>1, <2>1
    <3>3. n > 1 => log'[n - 1] = log[n - 1]
      BY <1>4, <3>2
    <3>4. QED
      BY <3>1, <3>3
  <2>2. CASE n = L + 1
    <3>1. log'[n] = t
      BY <1>4, <2>2
    <3>2. CASE e = 0
      BY <1>9, <3>1, <3>2
    <3>3. CASE e = 1
      <4>1. L \in 1 .. L /\ n - 1 = L /\ L - e + 1 = L /\ n > 1
        BY <1>1, <1>5, <2>2, <3>3
      <4>2. log'[n - 1] = Part(current.by, current.seq, 1)
        BY <1>12, <4>1
      <4>3. QED
        BY <1>9, <3>1, <4>1, <4>2
    <3>4. QED
      BY <1>7, <3>2, <3>3
  <2>3. QED
    BY <1>1, <2>1, <2>2
<1>14. \A i \in 1 .. Len(jobs') : Owned(jobs'[i]) /\ jobs'[i].events = 0
  BY <1>2 DEF JobLog
<1>15. JobLog'
  <2>1. current'.events <= Len(log')
    BY <1>1, <1>3, <1>4, <1>5
  <2>2. log'[FirstEvent'] = Part(current'.by, current'.seq, 1)
    BY <1>3, <1>10, <1>12
  <2>3. current'.phase \notin {"none", "queued", "ok"}
    BY <1>3
  <2>4. \A n \in 1 .. Len(log') :
           /\ log'[n] \in SyncTopics
           /\ log'[n].part # 1 => n > 1 /\ log'[n - 1] = Part(log'[n].by, log'[n].seq, 1)
    BY <1>4, <1>13
  <2>5. QED
    BY <1>8, <1>14, <2>1, <2>2, <2>3, <2>4 DEF JobLog
<1>16. QED
  BY <1>1, <1>3, <1>4, <1>10, <1>15 DEF LogKept

\* Which steps the jobs and the log see.
LEMMA JobSteps ==
  ASSUME SyncNext, ~RunJob
  PROVE  /\ log' = log
         /\ \/ SystemJob \/ TakeJob \/ EndJob \/ FinishJob \/ Exit \/ Crash
            \/ (\E c \in Conns : Admit(c) \/ ConnectionLost(c) \/ \E k \in Seqs : AdmitOrphan(c, k))
            \/ jobs' = jobs /\ current' = current
<1>1. CASE DaemonNext
  <2>1. CASE SystemJob \/ TakeJob \/ EndJob \/ FinishJob \/ Exit \/ Crash
    BY <2>1 DEF SystemJob, TakeJob, EndJob, FinishJob, Exit, Crash, feedVars
  <2>2. CASE PublishJob \/ PrepareRestart \/ StartDaemon
    BY <2>2 DEF PublishJob, Publish, PrepareRestart, StartDaemon, feedVars, daemonVars
  <2>3. QED
    BY <1>1, <2>1, <2>2 DEF DaemonNext
<1>2. ASSUME NEW c \in Conns, LinkNext(c)
      PROVE  /\ log' = log
             /\ \/ Admit(c) \/ ConnectionLost(c) \/ \E k \in Seqs : AdmitOrphan(c, k)
                \/ jobs' = jobs /\ current' = current
  <2>1. CASE Admit(c) \/ ConnectionLost(c) \/ \E k \in Seqs : AdmitOrphan(c, k)
    BY <2>1 DEF Admit, ConnectionLost, AdmitOrphan, Disconnect, feedVars
  <2>2. CASE Dial(c) \/ Welcome(c) \/ DialFailed(c)
    BY <2>2 DEF Dial, Welcome, Connect, DialFailed, feedVars, daemonVars
  <2>3. CASE Refuse(c) \/ Answer(c) \/ Drain(c)
    BY <2>3 DEF Refuse, Answer, Drain, daemonVars
  <2>4. CASE Subscribe(c)
    BY <2>4 DEF Subscribe, SubscribeBegin, daemonVars
  <2>5. CASE Feed(c)
    BY <2>5 DEF Feed, TailReceive, TailLagged, DeliverLive, ReplayOne, SubscribeEnd, daemonVars
  <2>6. QED
    BY <1>2, <2>1, <2>2, <2>3, <2>4, <2>5 DEF LinkNext
<1>3. ASSUME NEW c \in Conns, ClientNext(c)
      PROVE  log' = log /\ jobs' = jobs /\ current' = current
  <2>1. CASE CloseReview(c) \/ \E k \in Seqs : Mutate(c, k)
    BY <2>1 DEF CloseReview, Mutate, feedVars, daemonVars
  <2>2. CASE Receive(c)
    <3>1. \E kind : Receiving(c, kind)
      BY <2>2 DEF Receive, ReceiveEvent, ReceiveSubscribed, ReceiveCommitted, ReceiveFailed,
         ReceiveRestarting, ReceiveInterrupted, ReceiveSeqTooOld
    <3>2. QED
      BY <3>1 DEF Receiving, feedVars, daemonVars
  <2>3. QED
    BY <1>3, <2>1, <2>2 DEF ClientNext
<1>4. QED
  BY <1>1, <1>2, <1>3 DEF SyncNext

\* Every step keeps what the log tells of the jobs.
LEMMA JobLogKept ==
  ASSUME Shapes, JobLog, SyncNext
  PROVE  JobLog' /\ LogKept
<1>0. WorkShape /\ Len(log) \in Nat
  BY DEF Shapes, FeedShape
<1>1. CASE RunJob
  BY <1>1, JobLogRuns
<1>2. CASE ~RunJob
  <2>1. log' = log
    BY <1>2, JobSteps
  <2>2. LogKept
    BY <1>0, <2>1 DEF LogKept
  <2>3. CASE SystemJob
    <3>1. Job(Daemon, 0, FALSE) \in Works
      BY JobShape DEF Authors
    <3>2. Owned(Job(Daemon, 0, FALSE)) /\ Job(Daemon, 0, FALSE).events = 0
      BY DEF Owned, Job
    <3>3. jobs' = Append(jobs, Job(Daemon, 0, FALSE)) /\ current' = current
      BY <2>3 DEF SystemJob
    <3>4. QED
      BY <2>1, <2>2, <3>1, <3>2, <3>3, JobLogQueues
  <2>4. ASSUME NEW c \in Conns, NEW k \in Seqs, NEW live \in BOOLEAN, jobs' = Append(jobs, Job(c, k, live)),
               current' = current
        PROVE  JobLog'
    <3>1. Job(c, k, live) \in Works
      BY SyncAssumption, JobShape DEF Authors, Seqs
    <3>2. Owned(Job(c, k, live)) /\ Job(c, k, live).events = 0
      BY DEF Owned, Job
    <3>3. QED
      BY <2>1, <2>4, <3>1, <3>2, JobLogQueues
  <2>5. ASSUME NEW c \in Conns, Admit(c)
        PROVE  JobLog'
    <3>1. Head(up[c]) \in Seqs
      BY <1>0, <2>5, HeadOfStream DEF Admit, Numbers
    <3>2. QED
      BY <2>4, <2>5, <3>1 DEF Admit
  <2>6. ASSUME NEW c \in Conns, NEW k \in Seqs, AdmitOrphan(c, k)
        PROVE  JobLog'
    BY <2>4, <2>6 DEF AdmitOrphan
  <2>7. CASE TakeJob
    <3> DEFINE q == jobs
               h == Head(q)
               t == Tail(q)
    <3>1. q \in Seq(Works) /\ q # <<>> /\ jobs' = t /\ current = NoJob
          /\ current' = [h EXCEPT !.phase = "running"]
      BY <1>0, <2>7 DEF TakeJob, WorkShape
    <3>2. \A i \in 1 .. Len(q) : Owned(q[i]) /\ q[i].events = 0
      BY DEF JobLog
    <3> HIDE DEF q
    <3>3. /\ Len(q) \in Nat /\ Len(q) >= 1 /\ h = q[1] /\ h \in Works
          /\ Len(t) = Len(q) - 1 /\ \A i \in 1 .. Len(t) : t[i] = q[i + 1]
      BY <3>1
    <3> HIDE DEF h, t
    <3>4. \A i \in 1 .. Len(t) : Owned(t[i]) /\ t[i].events = 0
      <4> SUFFICES ASSUME NEW i \in 1 .. Len(t) PROVE Owned(t[i]) /\ t[i].events = 0
        OBVIOUS
      <4>1. i + 1 \in 1 .. Len(q)
        BY <3>3
      <4>2. QED
        BY <3>2, <3>3, <4>1
    <3>5. Owned(h) /\ h.events = 0
      BY <3>2, <3>3
    <3>6. current'.by = h.by /\ current'.seq = h.seq /\ current'.events = 0 /\ current'.phase = "running"
      BY <3>1, <3>3, <3>5 DEF Works
    <3>7. Owned(current')
      BY <3>5, <3>6 DEF Owned
    <3>8. QED
      BY <1>0, <2>1, <2>2, <3>1, <3>4, <3>6, <3>7 DEF JobLog
  <2>8. CASE EndJob
    <3>1. /\ current'.by = current.by /\ current'.seq = current.seq /\ current'.events = current.events
          /\ current'.phase \in {"ok", "error"} /\ (current'.phase = "ok" => current.events > 0) /\ jobs' = jobs
      BY <1>0, <2>8 DEF EndJob, WorkShape, Works
    <3>2. Owned(current') /\ FirstEvent' = FirstEvent
      BY <2>1, <3>1 DEF Owned, JobLog, FirstEvent
    <3>3. QED
      BY <2>1, <2>2, <3>1, <3>2 DEF JobLog
  <2>9. CASE FinishJob \/ Exit \/ Crash
    <3>1. current' = NoJob /\ (jobs' = jobs \/ jobs' = <<>>)
      BY <2>9 DEF FinishJob, Exit, Crash, Gone
    <3>2. \/ Len(jobs') = 0
          \/ Len(jobs') = Len(jobs)
             /\ \A i \in 1 .. Len(jobs) : jobs'[i].by = jobs[i].by /\ jobs'[i].seq = jobs[i].seq
                                          /\ jobs'[i].events = jobs[i].events
      BY <3>1
    <3>3. QED
      BY <2>1, <2>2, <3>1, <3>2, JobLogStays
  <2>10. ASSUME NEW c \in Conns, ConnectionLost(c)
         PROVE  JobLog'
    <3>1. /\ Len(jobs') = Len(jobs)
          /\ \A i \in 1 .. Len(jobs) : jobs'[i].by = jobs[i].by /\ jobs'[i].seq = jobs[i].seq
                                       /\ jobs'[i].events = jobs[i].events
      <4>1. Len(jobs) \in Nat /\ \A i \in 1 .. Len(jobs) : jobs[i] \in Works
        BY <1>0, JobsAppend
      <4>2. jobs' = [i \in 1 .. Len(jobs) |->
                IF jobs[i].by = c THEN [jobs[i] EXCEPT !.live = FALSE] ELSE jobs[i]]
        BY <2>10 DEF ConnectionLost
      <4>3. QED
        BY <4>1, <4>2 DEF Works
    <3>2. /\ current'.by = current.by /\ current'.seq = current.seq
          /\ current'.events = current.events /\ current'.phase = current.phase
      <4>1. current \in Works
        BY <1>0 DEF WorkShape
      <4>2. current' = [current EXCEPT !.live = FALSE] \/ current' = current
        BY <2>10 DEF ConnectionLost
      <4>3. QED
        BY <4>1, <4>2 DEF Works
    <3>3. QED
      BY <2>1, <2>2, <3>1, <3>2, JobLogStays
  <2>11. CASE jobs' = jobs /\ current' = current
    <3>1. \/ Len(jobs') = 0
          \/ Len(jobs') = Len(jobs)
             /\ \A i \in 1 .. Len(jobs) : jobs'[i].by = jobs[i].by /\ jobs'[i].seq = jobs[i].seq
                                          /\ jobs'[i].events = jobs[i].events
      BY <2>11
    <3>2. QED
      BY <2>1, <2>2, <2>11, <3>1, JobLogStays
  <2>12. \/ SystemJob \/ TakeJob \/ EndJob \/ FinishJob \/ Exit \/ Crash
         \/ (\E c \in Conns : Admit(c) \/ ConnectionLost(c) \/ \E k \in Seqs : AdmitOrphan(c, k))
         \/ jobs' = jobs /\ current' = current
    BY <1>2, JobSteps
  <2>13. QED
    BY <2>2, <2>3, <2>5, <2>6, <2>7, <2>8, <2>9, <2>10, <2>11, <2>12
<1>3. QED
  BY <1>1, <1>2

-----------------------------------------------------------------------------
(***************************************************************************)
(* Where receipts come from.                                               *)
(***************************************************************************)

\* No receipt is new to the queue or to the results that wait for it.
QueueOld(c) ==
  \A i \in 1 .. Len(outbox'[c]) : outbox'[c][i].kind = "committed" =>
    i \in 1 .. Len(outbox[c]) /\ outbox'[c][i] = outbox[c][i]
ReadyOld(c) == ready'[c] \subseteq ready[c]

\* Other messages, or the loss of the queue, leave the receipts.
LEMMA QueueOldWhen ==
  ASSUME Shapes, NEW c \in Conns,
         \/ outbox'[c] = outbox[c]
         \/ outbox'[c] = <<>>
         \/ \E m : Hears(c, m) /\ m.kind # "committed"
  PROVE  QueueOld(c)
<1>1. CASE outbox'[c] = outbox[c]
  BY <1>1 DEF QueueOld
<1>2. CASE outbox'[c] = <<>>
  <2>1. Len(outbox'[c]) = 0
    BY <1>2
  <2>2. QED
    BY <2>1 DEF QueueOld
<1>3. ASSUME NEW m, Hears(c, m), m.kind # "committed"
      PROVE  QueueOld(c)
  <2>1. /\ Len(outbox[c]) \in Nat /\ Len(outbox'[c]) = Len(outbox[c]) + 1
        /\ \A i \in 1 .. Len(outbox[c]) : outbox'[c][i] = outbox[c][i]
        /\ outbox'[c][Len(outbox[c]) + 1] = m
    BY <1>3, HearsGrows, QueueOf
  <2>2. ASSUME NEW i \in 1 .. Len(outbox'[c]), outbox'[c][i].kind = "committed"
        PROVE  i \in 1 .. Len(outbox[c])
    BY <1>3, <2>1, <2>2
  <2>3. QED
    BY <2>1, <2>2 DEF QueueOld
<1>4. QED
  BY <1>1, <1>2, <1>3

\* A receipt is queued by its request's future, to which the writer thread
\* hands it.
LEMMA AnswerCourse ==
  ASSUME FeedGround, \A c \in Conns : Follows(c), SyncNext, NEW d \in Conns
  PROVE  \/ Answer(d)
         \/ FinishJob /\ current.by = d /\ current.live
         \/ QueueOld(d) /\ ReadyOld(d)
<1>0. Shapes /\ FeedShape /\ WorkShape /\ ClientShape
  BY DEF FeedGround, Shapes
<1>1. CASE DaemonNext
  <2>1. Mute(d) /\ read[d] \in Nat
    BY <1>0, <1>1, QuietSteps, QueueOf
  <2>2. QueueOld(d)
    BY <1>0, <2>1, QueueOldWhen DEF Mute, ReadyOld
  <2>3. CASE FinishJob
    <3>1. CASE current.by = d /\ current.live
      BY <2>3, <3>1
    <3>2. CASE ~(current.by = d /\ current.live)
      <4>1. ready'[d] = ready[d]
        BY <1>0, <2>3, <3>2 DEF FinishJob, WorkShape
      <4>2. QED
        BY <2>2, <4>1 DEF ReadyOld
    <3>3. QED
      BY <3>1, <3>2
  <2>4. CASE Exit \/ Crash
    <3>1. ready'[d] = {}
      BY <2>4 DEF Exit, Crash, Gone
    <3>2. QED
      BY <2>2, <3>1 DEF ReadyOld
  <2>5. CASE SystemJob \/ TakeJob \/ RunJob \/ EndJob \/ PublishJob \/ PrepareRestart \/ StartDaemon
    <3>1. ready'[d] = ready[d]
      BY <2>5 DEF SystemJob, TakeJob, RunJob, EndJob, PublishJob, PrepareRestart, StartDaemon, linkVars
    <3>2. QED
      BY <2>2, <3>1 DEF ReadyOld
  <2>6. QED
    BY <1>1, <2>3, <2>4, <2>5 DEF DaemonNext
<1>2. ASSUME NEW c \in Conns, Admit(c) \/ CloseReview(c) \/ \E k \in Seqs : Mutate(c, k) \/ AdmitOrphan(c, k)
      PROVE  QueueOld(d) /\ ReadyOld(d)
  <2>1. Mute(d) /\ read[d] \in Nat
    BY <1>0, <1>2, QuietSteps, QueueOf
  <2>2. ready'[d] = ready[d]
    BY <1>2 DEF Admit, CloseReview, Mutate, AdmitOrphan, linkVars
  <2>3. QED
    BY <1>0, <2>1, <2>2, QueueOldWhen DEF Mute, ReadyOld
<1>3. ASSUME NEW c \in Conns, Dial(c) \/ Welcome(c) \/ DialFailed(c) \/ Subscribe(c)
      PROVE  QueueOld(d) /\ ReadyOld(d)
  <2>1. outbox' = outbox /\ read' = read /\ ready' = ready /\ read[d] \in Nat
    <3>1. CASE Dial(c) \/ DialFailed(c)
      BY <1>0, <3>1, QueueOf DEF Dial, DialFailed, feedVars, connVars, linkVars
    <3>2. CASE Welcome(c)
      BY <1>0, <3>2, QueueOf DEF Welcome, Connect
    <3>3. CASE Subscribe(c)
      BY <1>0, <3>3, QueueOf DEF Subscribe, SubscribeBegin, clientVars
    <3>4. QED
      BY <1>3, <3>1, <3>2, <3>3
  <2>2. QED
    BY <1>0, <2>1, QueueOldWhen DEF ReadyOld
<1>4. ASSUME NEW c \in Conns, ConnectionLost(c)
      PROVE  QueueOld(d) /\ ReadyOld(d)
  <2>1. CASE d = c
    <3>1. outbox'[d] = <<>> /\ ready'[d] = {}
      BY <1>0, <1>4, <2>1 DEF ConnectionLost, Disconnect, FeedShape, WorkShape
    <3>2. QED
      BY <1>0, <3>1, QueueOldWhen DEF ReadyOld
  <2>2. CASE d # c
    <3>1. outbox'[d] = outbox[d] /\ ready'[d] = ready[d] /\ read'[d] = read[d] /\ read[d] \in Nat
      BY <1>0, <1>4, <2>2 DEF ConnectionLost, Disconnect, FeedShape, WorkShape, ClientShape
    <3>2. QED
      BY <1>0, <3>1, QueueOldWhen DEF ReadyOld
  <2>3. QED
    BY <2>1, <2>2
<1>5. ASSUME NEW c \in Conns, Refuse(c) \/ Drain(c) \/ Answer(c), c = d => ~Answer(d)
      PROVE  QueueOld(d) /\ ReadyOld(d)
  <2>1. ready'[d] = ready[d]
    BY <1>0, <1>5 DEF Refuse, Drain, Answer, WorkShape
  <2>2. CASE d # c
    <3>1. Mute(d) /\ read[d] \in Nat
      BY <1>0, <1>5, <2>2, FollowsAnswers, QueueOf DEF OthersRest
    <3>2. QED
      BY <1>0, <2>1, <3>1, QueueOldWhen DEF Mute, ReadyOld
  <2>3. CASE d = c
    <3>1. \E m \in SyncMsgs : Hears(d, m) /\ (m.kind = "committed" => Answer(d))
      BY <1>5, <2>3, FollowsAnswers
    <3>2. \E m : Hears(d, m) /\ m.kind # "committed"
      BY <1>5, <2>3, <3>1
    <3>3. QED
      BY <1>0, <2>1, <3>2, QueueOldWhen DEF ReadyOld
  <2>4. QED
    BY <2>2, <2>3
<1>6. ASSUME NEW c \in Conns, Feed(c)
      PROVE  QueueOld(d) /\ ReadyOld(d)
  <2>1. /\ ready' = ready /\ UNCHANGED <<read, last, lagSeen>> /\ SaysOneOf(c, FeedKinds)
        /\ read[d] \in Nat
    BY <1>0, <1>6, FeedSteps, QueueOf DEF Feed, linkVars, clientVars
  <2>2. CASE outbox' = outbox
    BY <1>0, <2>1, <2>2, QueueOldWhen DEF ReadyOld
  <2>3. ASSUME NEW m \in SyncMsgs, m.kind \in FeedKinds, Says(c, m)
        PROVE  QueueOld(d) /\ ReadyOld(d)
    <3>1. Hears(c, m) /\ \A e \in Conns : e # c => Mute(e)
      BY <1>0, <2>1, <2>3, SaysHears
    <3>2. m.kind # "committed"
      BY <2>3 DEF FeedKinds
    <3>3. CASE d = c
      BY <1>0, <2>1, <3>1, <3>2, <3>3, QueueOldWhen DEF ReadyOld
    <3>4. CASE d # c
      BY <1>0, <2>1, <3>1, <3>4, QueueOldWhen DEF Mute, ReadyOld
    <3>5. QED
      BY <3>3, <3>4
  <2>4. QED
    BY <2>1, <2>2, <2>3 DEF SaysOneOf
<1>7. ASSUME NEW c \in Conns, Receive(c)
      PROVE  QueueOld(d) /\ ReadyOld(d)
  <2>1. \E kind : Receiving(c, kind)
    BY <1>7 DEF Receive, ReceiveEvent, ReceiveSubscribed, ReceiveCommitted, ReceiveFailed,
       ReceiveRestarting, ReceiveInterrupted, ReceiveSeqTooOld
  <2>2. /\ outbox'[c] = outbox[c] /\ read'[c] = read[c] + 1 /\ read[c] \in Nat /\ read[d] \in Nat
        /\ \A e \in Conns : e # c => outbox'[e] = outbox[e] /\ read'[e] = read[e]
    BY <1>0, <2>1, ReceiveRests, QueueOf
  <2>3. ready' = ready
    BY <1>7 DEF Receive, ReceiveEvent, ReceiveSubscribed, ReceiveCommitted, ReceiveFailed,
       ReceiveRestarting, ReceiveInterrupted, ReceiveSeqTooOld, Settle, linkVars
  <2>4. outbox'[d] = outbox[d] /\ read[d] <= read'[d]
    BY <2>2
  <2>5. QED
    BY <1>0, <2>3, <2>4, QueueOldWhen DEF ReadyOld
<1>8. QED
  <2>1. ASSUME NEW c \in Conns, LinkNext(c)
        PROVE  Answer(d) \/ (QueueOld(d) /\ ReadyOld(d))
    BY <1>2, <1>3, <1>4, <1>5, <1>6, <2>1 DEF LinkNext
  <2>2. ASSUME NEW c \in Conns, ClientNext(c)
        PROVE  QueueOld(d) /\ ReadyOld(d)
    BY <1>2, <1>7, <2>2 DEF ClientNext
  <2>3. QED
    BY <1>1, <2>1, <2>2 DEF SyncNext

\* Every step keeps receipts true to the log.
LEMMA ReceiptsKept ==
  ASSUME FeedGround, Shapes', JobLog, \A c \in Conns : Follows(c), SyncNext,
         NEW c \in Conns, Receipts(c)
  PROVE  Receipts(c)'
<1>0. Shapes /\ WorkShape /\ FeedShape
  BY DEF FeedGround, Shapes
<1>1. LogKept
  BY <1>0, JobLogKept
<1>2. ASSUME NEW r, Names(c, r)
      PROVE  Names(c, r)'
  BY <1>1, <1>2 DEF Names, LogKept
<1>3. /\ \A i \in 1 .. Len(outbox[c]) : outbox[c][i].kind = "committed" => Names(c, outbox[c][i])
      /\ \A r \in ready[c] : r.kind = "committed" => Names(c, r)
  BY DEF Receipts
<1>4. CASE Answer(c)
  <2>1. PICK r \in ready[c] : /\ outbox' = [outbox EXCEPT ![c] = Append(@, r)]
                             /\ ready' = [ready EXCEPT ![c] = @ \ {r}]
    BY <1>4 DEF Answer
  <2>2. Says(c, r) /\ r \in SyncMsgs
    BY <1>0, <2>1, MessageShapes DEF WorkShape, Says
  <2>3. /\ Len(outbox[c]) \in Nat /\ Len(outbox'[c]) = Len(outbox[c]) + 1
        /\ \A i \in 1 .. Len(outbox[c]) : outbox'[c][i] = outbox[c][i]
        /\ outbox'[c][Len(outbox[c]) + 1] = r
    BY <1>0, <2>2, SaysGrows, QueueOf DEF FeedShape
  <2>4. ASSUME NEW i \in 1 .. Len(outbox'[c]), NEW m, m = outbox'[c][i], m.kind = "committed"
        PROVE  Names(c, m)'
    <3>1. CASE i \in 1 .. Len(outbox[c])
      <4>1. m = outbox[c][i]
        BY <2>3, <2>4, <3>1
      <4>2. Names(c, m)
        BY <1>3, <2>4, <3>1, <4>1
      <4>3. QED
        BY <1>2, <4>2
    <3>2. CASE i = Len(outbox[c]) + 1
      <4>1. m = r
        BY <2>3, <2>4, <3>2
      <4>2. Names(c, m)
        BY <1>3, <2>4, <4>1
      <4>3. QED
        BY <1>2, <4>2
    <3>3. QED
      BY <2>3, <3>1, <3>2
  <2>5. ready'[c] \subseteq ready[c]
    BY <1>0, <2>1 DEF WorkShape
  <2>6. QED
    <3>1. \A i \in 1 .. Len(outbox'[c]) : outbox'[c][i].kind = "committed" => Names(c, outbox[c][i])'
      BY <2>4 DEF Names
    <3>2. \A x \in ready'[c] : x.kind = "committed" => Names(c, x)'
      BY <1>2, <1>3, <2>5
    <3>3. QED
      BY <3>1, <3>2 DEF Receipts
<1>5. CASE FinishJob /\ current.by = c /\ current.live
  <2>1. outbox' = outbox /\ ready'[c] = ready[c] \cup {Receipt}
    BY <1>0, <1>5 DEF FinishJob, WorkShape, feedVars, connVars
  <2>2. ASSUME Receipt.kind = "committed"
        PROVE  Names(c, Receipt)
    <3>1. current.phase = "ok" /\ Receipt = Committed(current.seq, FirstEvent)
      BY <2>2 DEF Receipt, Failed, FirstEvent
    <3>2. Receipt.seq = FirstEvent /\ Receipt.request = current.seq
      BY <3>1 DEF Committed
    <3>3. Len(log) \in Nat /\ current.events \in Nat /\ current.events <= Len(log) /\ current.events > 0
      BY <1>0, <3>1 DEF FeedShape, WorkShape, Works, JobLog
    <3>4. FirstEvent \in 1 .. Len(log) /\ log[FirstEvent] = Part(c, current.seq, 1)
      BY <1>5, <3>3 DEF JobLog, FirstEvent
    <3>5. QED
      BY <3>2, <3>4 DEF Names
  <2>3. QED
    BY <1>2, <1>3, <2>1, <2>2 DEF Receipts
<1>6. CASE QueueOld(c) /\ ReadyOld(c)
  BY <1>2, <1>3, <1>6 DEF Receipts, QueueOld, ReadyOld
<1>7. QED
  BY <1>4, <1>5, <1>6, AnswerCourse

-----------------------------------------------------------------------------
(***************************************************************************)
(* What clients make of what they are told.                                *)
(***************************************************************************)

\* Only a message handled moves a client or adds to its view.
LEMMA ClientRests ==
  ASSUME SyncNext, \A c \in Conns : ~Receive(c)
  PROVE  UNCHANGED <<last, base, applied, lagSeen>>
<1>1. CASE DaemonNext
  BY <1>1 DEF DaemonNext, SystemJob, TakeJob, RunJob, EndJob, PublishJob, FinishJob, PrepareRestart, Exit,
     Crash, StartDaemon, Gone, clientVars
<1>2. ASSUME NEW c \in Conns, LinkNext(c)
      PROVE  UNCHANGED <<last, base, applied, lagSeen>>
  <2>1. CASE Dial(c) \/ Welcome(c) \/ DialFailed(c) \/ ConnectionLost(c)
    BY <2>1 DEF Dial, Welcome, DialFailed, ConnectionLost
  <2>2. CASE Admit(c) \/ Refuse(c) \/ Subscribe(c) \/ Feed(c) \/ Answer(c) \/ Drain(c)
             \/ \E k \in Seqs : AdmitOrphan(c, k)
    BY <2>2 DEF Admit, Refuse, Subscribe, Feed, Answer, Drain, AdmitOrphan, clientVars
  <2>3. QED
    BY <1>2, <2>1, <2>2 DEF LinkNext
<1>3. ASSUME NEW c \in Conns, CloseReview(c) \/ \E k \in Seqs : Mutate(c, k)
      PROVE  UNCHANGED <<last, base, applied, lagSeen>>
  BY <1>3 DEF CloseReview, Mutate
<1>4. QED
  BY <1>1, <1>2, <1>3 DEF SyncNext, ClientNext

\* A client that handles a message changes nothing of the daemon's and of
\* other clients', and forgets nothing.
LEMMA ReceiveOwn ==
  ASSUME FeedGround, NEW c \in Conns, Receive(c)
  PROVE  /\ log' = log /\ current' = current /\ ready' = ready /\ outbox' = outbox
         /\ \A d \in Conns : d # c =>
              /\ last'[d] = last[d] /\ base'[d] = base[d] /\ applied'[d] = applied[d]
              /\ lagSeen'[d] = lagSeen[d] /\ pending'[d] = pending[d] /\ read'[d] = read[d]
         /\ base'[c] = base[c] \/ base[c] = NoSeq
         /\ applied[c] \subseteq applied'[c]
         /\ lagSeen[c] => lagSeen'[c]
<1>0. FeedShape /\ ClientShape /\ lagSeen \in [Conns -> BOOLEAN]
  BY DEF FeedGround, Shapes
<1>1. /\ log' = log /\ current' = current /\ outbox' = outbox
      /\ \A d \in Conns : d # c => read'[d] = read[d]
  <2>1. \E kind : Receiving(c, kind)
    BY DEF Receive, ReceiveEvent, ReceiveSubscribed, ReceiveCommitted, ReceiveFailed,
       ReceiveRestarting, ReceiveInterrupted, ReceiveSeqTooOld
  <2>2. QED
    BY <1>0, <2>1 DEF Receiving, feedVars, connVars, daemonVars, ClientShape
<1>2. ready' = ready
  BY DEF Receive, ReceiveEvent, ReceiveSubscribed, ReceiveCommitted, ReceiveFailed,
     ReceiveRestarting, ReceiveInterrupted, ReceiveSeqTooOld, Settle, linkVars
<1> DEFINE Own == /\ \A d \in Conns : d # c =>
                       /\ last'[d] = last[d] /\ base'[d] = base[d] /\ applied'[d] = applied[d]
                       /\ lagSeen'[d] = lagSeen[d] /\ pending'[d] = pending[d]
                  /\ base'[c] = base[c] \/ base[c] = NoSeq
                  /\ applied[c] \subseteq applied'[c]
                  /\ lagSeen[c] => lagSeen'[c]
<1>3. ASSUME NEW n, Applied(c, n), UNCHANGED <<base, lagSeen>>
      PROVE  Own
  BY <1>0, <1>3 DEF Applied, ClientShape
<1>4. ASSUME UNCHANGED <<last, base, applied, lagSeen>>,
             \A d \in Conns : d # c => pending'[d] = pending[d]
      PROVE  Own
  BY <1>4
<1>5. ASSUME ReceiveEvent(c) PROVE Own
  <2>1. UNCHANGED <<base, lagSeen>> /\ (Applied(c, Message(c).seq) \/ UNCHANGED <<last, applied, pending>>)
    BY <1>5 DEF ReceiveEvent
  <2>2. QED
    BY <1>3, <1>4, <2>1
<1>6. ASSUME ReceiveCommitted(c) PROVE Own
  <2>1. /\ UNCHANGED <<base, lagSeen>>
        /\ \/ Applied(c, Message(c).seq)
           \/ UNCHANGED <<last, applied>> /\ \A d \in Conns : d # c => pending'[d] = pending[d]
    BY <1>0, <1>6 DEF ReceiveCommitted, ClientShape
  <2>2. QED
    BY <1>3, <1>4, <2>1
<1>7. ASSUME ReceiveFailed(c) \/ ReceiveRestarting(c) \/ ReceiveInterrupted(c) PROVE Own
  <2>1. UNCHANGED <<last, base, applied, lagSeen>> /\ \A d \in Conns : d # c => pending'[d] = pending[d]
    BY <1>0, <1>7 DEF ReceiveFailed, ReceiveRestarting, ReceiveInterrupted, Settle, ClientShape
  <2>2. QED
    BY <1>4, <2>1
<1>8. ASSUME ReceiveSubscribed(c) PROVE Own
  BY <1>0, <1>8 DEF ReceiveSubscribed, ClientShape
<1>9. ASSUME ReceiveSeqTooOld(c) PROVE Own
  BY <1>0, <1>9 DEF ReceiveSeqTooOld, ClientShape
<1>10. Own
  BY <1>5, <1>6, <1>7, <1>8, <1>9 DEF Receive
<1>11. QED
  BY <1>1, <1>2, <1>10

\* No step forgets a position, where a client started, what it has folded in
\* or that it lost broadcasts.
LEMMA NothingForgotten ==
  ASSUME FeedGround, \A c \in Conns : Follows(c) /\ Receipts(c), Followed, SyncNext, NEW d \in Conns
  PROVE  /\ last[d] # NoSeq => last'[d] # NoSeq
         /\ base'[d] = base[d] \/ base[d] = NoSeq
         /\ applied[d] \subseteq applied'[d]
         /\ lagSeen[d] => lagSeen'[d]
<1>1. CASE \A c \in Conns : ~Receive(c)
  BY <1>1, ClientRests
<1>2. ASSUME NEW c \in Conns, Receive(c)
      PROVE  /\ last[d] # NoSeq => last'[d] # NoSeq
             /\ base'[d] = base[d] \/ base[d] = NoSeq
             /\ applied[d] \subseteq applied'[d]
             /\ lagSeen[d] => lagSeen'[d]
  <2>1. CASE d = c
    <3>1. Handles(d)
      <4>1. current \in Works
        BY DEF FeedGround, Shapes, WorkShape
      <4>2. QED
        BY <1>2, <2>1, <4>1, FollowsHandled
    <3>2. last[d] # NoSeq => last'[d] # NoSeq
      BY <3>1 DEF Handles
    <3>3. QED
      BY <1>2, <2>1, <3>2, ReceiveOwn
  <2>2. CASE d # c
    BY <1>2, <2>2, ReceiveOwn
  <2>3. QED
    BY <2>1, <2>2
<1>3. QED
  BY <1>1, <1>2

\* Which steps concern the outcome of mutations.
LEMMA PendingSteps ==
  ASSUME SyncNext
  PROVE  \/ pending' = pending
         \/ \E c \in Conns : ConnectionLost(c) \/ CloseReview(c) \/ Receive(c) \/ \E j \in Seqs : Mutate(c, j)
<1>1. CASE DaemonNext
  BY <1>1 DEF DaemonNext, SystemJob, TakeJob, RunJob, EndJob, PublishJob, FinishJob, PrepareRestart,
     Exit, Crash, StartDaemon, Gone, clientVars
<1>2. ASSUME NEW c \in Conns, LinkNext(c), ~ConnectionLost(c)
      PROVE  pending' = pending
  BY <1>2 DEF LinkNext, Dial, Welcome, DialFailed, Admit, Refuse, Subscribe, Feed, Answer, Drain,
     AdmitOrphan, clientVars
<1>3. QED
  BY <1>1, <1>2 DEF SyncNext, ClientNext

\* A mutation is begun by a client that has been subscribed.
LEMMA MutationBegins ==
  ASSUME Shapes, Followed, SyncNext, NEW d \in Conns, NEW k \in Seqs, pending'[d][k] # "unused"
  PROVE  pending[d][k] # "unused" \/ last[d] # NoSeq
<1>0. ClientShape
  BY DEF Shapes
<1> DEFINE StillSo == pending'[d][k] # "unused" => pending[d][k] # "unused"
<1>1. CASE pending' = pending
  BY <1>1
<1>2. ASSUME NEW c \in Conns, Mutate(c, k)
      PROVE  StillSo \/ last[d] # NoSeq
  <2>1. CASE d = c
    BY <1>2, <2>1 DEF Mutate, Followed
  <2>2. CASE d # c
    BY <1>0, <1>2, <2>2 DEF Mutate, ClientShape
  <2>3. QED
    BY <2>1, <2>2
<1>3. ASSUME NEW c \in Conns, NEW j \in Seqs, Mutate(c, j), j # k
      PROVE  StillSo
  BY <1>0, <1>3 DEF Mutate, ClientShape
<1>4. ASSUME NEW c \in Conns, ConnectionLost(c) \/ CloseReview(c)
      PROVE  StillSo
  <2>1. CASE ConnectionLost(c)
    <3>1. pending' = [pending EXCEPT ![c] = Cleared(c)]
      BY <2>1 DEF ConnectionLost
    <3>2. Cleared(c)[k] \in {"unknown", pending[c][k]} /\ (pending[c][k] = "unused" => Cleared(c)[k] = "unused")
      BY DEF Cleared
    <3>3. QED
      BY <1>0, <3>1, <3>2 DEF ClientShape
  <2>2. CASE CloseReview(c)
    BY <1>0, <2>2 DEF CloseReview, ClientShape, Waiting
  <2>3. QED
    BY <1>4, <2>1, <2>2
<1>5. ASSUME NEW c \in Conns, Receive(c)
      PROVE  StillSo
  <2>1. ASSUME NEW n, Applied(c, n)
        PROVE  StillSo
    BY <1>0, <2>1 DEF Applied, ClientShape, Waiting
  <2>2. CASE ReceiveEvent(c)
    BY <2>1, <2>2 DEF ReceiveEvent
  <2>3. CASE ReceiveCommitted(c)
    BY <1>0, <2>1, <2>3 DEF ReceiveCommitted, ClientShape, Waiting
  <2>4. CASE ReceiveFailed(c) \/ ReceiveRestarting(c) \/ ReceiveInterrupted(c)
    BY <1>0, <2>4, SMTT(20) DEF ReceiveFailed, ReceiveRestarting, ReceiveInterrupted, Settle, ClientShape, Waiting
  <2>5. CASE ReceiveSubscribed(c)
    BY <1>0, <2>5 DEF ReceiveSubscribed, ClientShape, Resend
  <2>6. CASE ReceiveSeqTooOld(c)
    BY <2>6 DEF ReceiveSeqTooOld
  <2>7. QED
    BY <1>5, <2>2, <2>3, <2>4, <2>5, <2>6 DEF Receive
<1>6. \/ pending' = pending
      \/ \E c \in Conns : ConnectionLost(c) \/ CloseReview(c) \/ Receive(c) \/ \E j \in Seqs : Mutate(c, j)
  BY PendingSteps
<1>7. QED
  BY <1>1, <1>2, <1>3, <1>4, <1>5, <1>6

\* Every step keeps mutations behind their client's first subscription.
LEMMA BegunKept ==
  ASSUME FeedGround, JobLog, Copies, \A c \in Conns : Follows(c) /\ Receipts(c), Followed, Followed', SyncNext,
         NEW d \in Conns, Begun(d)
  PROVE  Begun(d)'
<1>0. Shapes /\ ClientShape /\ WorkShape /\ Len(log) \in Nat
  BY QueueOf DEF FeedGround, Shapes
<1>1. /\ last[d] # NoSeq => last'[d] # NoSeq
      /\ base'[d] = base[d] \/ base[d] = NoSeq
  BY NothingForgotten
<1>2. ASSUME NEW k \in Seqs, pending'[d][k] # "unused"
      PROVE  last'[d] # NoSeq
  BY <1>0, <1>1, <1>2, MutationBegins DEF Begun
<1>3. last'[d] # NoSeq => base'[d] # NoSeq
  BY SyncAssumption DEF Followed
<1>4. LogKept
  BY <1>0, JobLogKept
<1>5. ASSUME NEW n \in 1 .. Len(log), log'[n].by = d
      PROVE  base'[d] # NoSeq /\ n > base'[d]
  BY <1>1, <1>4, <1>5 DEF LogKept, Begun
<1>6. CASE RunJob
  <2>1. /\ current.by = d => current.seq \in Seqs
        /\ Len(log') = Len(log) + 1 /\ log'[Len(log) + 1].by = current.by
    <3>1. Owned(current)
      BY DEF JobLog
    <3>2. log \in Seq(LogEvents) /\ log' = Append(log, Part(current.by, current.seq, current.events + 1))
      BY <1>0, <1>6 DEF RunJob, Append1, Shapes, FeedShape
    <3>3. QED
      BY <3>1, <3>2, SyncAssumption DEF Owned, Part
  <2>2. CASE current.by = d
    <3>1. PICK k \in Seqs : k = current.seq
      BY <2>1, <2>2
    <3>2. ~Untouched(d, k)
      BY <2>2, <3>1 DEF Untouched, Runs
    <3>3. pending[d][k] # "unused"
      BY <3>2 DEF Copies, SendableUntouched, Sendable
    <3>4. last[d] # NoSeq
      BY <3>3 DEF Begun
    <3>5. last[d] \in Nat /\ last[d] <= Len(log)
      BY <1>0, <3>4, QueueOf DEF Follows, QueueBehind
    <3>6. base[d] \in Nat /\ base[d] <= last[d]
      BY <3>4 DEF Followed
    <3>7. base'[d] = base[d]
      BY <1>1, <3>6, SyncAssumption
    <3>8. \A n \in 1 .. Len(log') : n > Len(log) => base'[d] # NoSeq /\ n > base'[d]
      BY <1>0, <2>1, <3>5, <3>6, <3>7, SyncAssumption
    <3>9. \A n \in 1 .. Len(log') : log'[n].by = d => base'[d] # NoSeq /\ n > base'[d]
      BY <1>0, <1>5, <2>1, <3>8
    <3>10. QED
      BY <1>2, <1>3, <3>9 DEF Begun
  <2>3. CASE current.by # d
    <3>1. \A n \in 1 .. Len(log') : log'[n].by = d => base'[d] # NoSeq /\ n > base'[d]
      BY <1>0, <1>5, <2>1, <2>3
    <3>2. QED
      BY <1>2, <1>3, <3>1 DEF Begun
  <2>4. QED
    BY <2>2, <2>3
<1>7. CASE ~RunJob
  <2>1. log' = log
    BY <1>7, JobSteps
  <2>2. QED
    BY <1>2, <1>3, <1>5, <2>1 DEF Begun
<1>8. QED
  BY <1>6, <1>7

\* What the message to be handled next continues is where the client is.
LEMMA HeadKnown ==
  ASSUME Shapes, NEW c \in Conns, NEW i, i = read[c] + 1, NEW n, KnownBefore(c, i, n)
  PROVE  lagSeen[c] \/ (last[c] # NoSeq /\ n <= last[c])
<1>1. \A j \in 1 .. (i - 1) : ~Unread(c, j)
  BY QueueOf DEF Unread
<1>2. QED
  BY <1>1 DEF KnownBefore, LagBefore, ReachedBefore, UnreadOf

\* What a message does to a client's position and view, when it has not lost
\* broadcasts.
Arrives(c, n) ==
  /\ n \in Nat /\ last[c] # NoSeq /\ last[c] < n /\ Applied(c, n)
  /\ \/ Message(c).kind = "event" /\ (lagSeen[c] \/ n = last[c] + 1)
     \/ Message(c).kind = "committed"
  /\ n = Message(c).seq

\* A message moves the client to the next position, or a receipt takes it
\* further; else the client stays, or it has lost broadcasts.
LEMMA ReceiveCourse ==
  ASSUME FeedGround, Followed, NEW c \in Conns, Follows(c), Receive(c)
  PROVE  /\ read'[c] = read[c] + 1
         /\ \/ lagSeen'[c] /\ UNCHANGED <<last, applied>>
            \/ UNCHANGED <<last, base, applied>>
            \/ \E n : Arrives(c, n) /\ base' = base
            \/ /\ last[c] = NoSeq /\ last'[c] \in Nat /\ base'[c] = last'[c] /\ applied' = applied
            \/ /\ lagSeen[c] /\ last[c] # NoSeq /\ applied' = applied /\ base'[c] = base[c]
<1>0. /\ Shapes /\ ClientShape /\ read[c] \in Nat /\ last[c] \in {NoSeq} \cup Nat
      /\ Len(outbox[c]) \in Nat /\ NoSeq \notin Nat
  BY QueueOf DEF FeedGround, Shapes
<1>1. \E kind : Receiving(c, kind)
  BY DEF Receive, ReceiveEvent, ReceiveSubscribed, ReceiveCommitted, ReceiveFailed,
     ReceiveRestarting, ReceiveInterrupted, ReceiveSeqTooOld
<1>2. /\ read'[c] = read[c] + 1 /\ read[c] < Len(outbox[c])
      /\ Message(c) \in SyncMsgs /\ state[c] \in {"hello", "subscribed"}
  BY <1>1, ReceiveRests
<1>3. PICK h \in 1 .. Len(outbox[c]) : h = read[c] + 1
  <2>1. read[c] + 1 \in 1 .. Len(outbox[c])
    BY <1>0, <1>2
  <2>2. QED
    BY <2>1
<1>4. Message(c) = outbox[c][h]
  BY <1>3 DEF Message
<1>5. \A kind : outbox[c][h].kind = kind => UnreadOf(c, h, kind)
  BY <1>0, <1>3 DEF UnreadOf, Unread
<1>6. CASE ReceiveEvent(c)
  <2> DEFINE n == Message(c).seq
  <2>1. outbox[c][h].kind = "event" /\ n \in Nat
    BY <1>2, <1>4, <1>6, MessageNumbers DEF ReceiveEvent, Receiving
  <2>2. CASE ~Accepts(c, n)
    BY <1>2, <1>6, <2>2 DEF ReceiveEvent
  <2>3. CASE Accepts(c, n)
    <3>1. last[c] # NoSeq /\ last[c] < n
      BY <1>0, <2>1, <2>3 DEF Accepts, Followed
    <3>2. lagSeen[c] \/ n - 1 <= last[c]
      <4>1. KnownBefore(c, h, n - 1)
        BY <1>4, <1>5, <2>1 DEF Follows, Stream
      <4>2. QED
        BY <1>0, <1>3, <4>1, HeadKnown
    <3>3. lagSeen[c] \/ n = last[c] + 1
      BY <1>0, <2>1, <3>1, <3>2
    <3>4. Applied(c, n) /\ base' = base
      BY <1>6, <2>3 DEF ReceiveEvent
    <3>5. QED
      BY <1>2, <1>4, <2>1, <3>1, <3>3, <3>4 DEF Arrives
  <2>4. QED
    BY <2>2, <2>3
<1>7. CASE ReceiveSubscribed(c)
  <2> DEFINE n == Message(c).seq
  <2>1. outbox[c][h].kind = "subscribed" /\ n \in Nat
    BY <1>2, <1>4, <1>7, MessageNumbers DEF ReceiveSubscribed, Receiving
  <2>2. /\ last' = [last EXCEPT ![c] = Resumed(c, n)] /\ applied' = applied
        /\ base' = [base EXCEPT ![c] = IF @ = NoSeq THEN n ELSE @]
    BY <1>7 DEF ReceiveSubscribed
  <2> HIDE DEF n
  <2>3. CASE last[c] = NoSeq
    <3>1. base[c] = NoSeq
      BY <2>3 DEF Followed
    <3>2. last'[c] = n /\ base'[c] = n
      BY <1>0, <2>2, <2>3, <3>1 DEF Resumed, ClientShape
    <3>3. QED
      BY <1>2, <2>1, <2>2, <2>3, <3>2
  <2>4. CASE last[c] # NoSeq
    <3>1. base[c] \in Nat
      BY <2>4 DEF Followed
    <3>2. base' = base
      BY <1>0, <2>2, <3>1 DEF ClientShape
    <3>3. lagSeen[c] \/ n <= last[c]
      <4>1. KnownBefore(c, h, n)
        BY <1>4, <1>5, <2>1, <2>4 DEF Follows, Stream, n
      <4>2. QED
        BY <1>0, <1>3, <4>1, HeadKnown
    <3>4. n <= last[c] => last' = last
      <4>1. ASSUME n <= last[c] PROVE Resumed(c, n) = last[c]
        BY <1>0, <2>1, <2>4, <4>1 DEF Resumed, MaxOf2
      <4>2. QED
        BY <1>0, <2>2, <4>1 DEF ClientShape
    <3>5. QED
      BY <1>2, <2>2, <2>4, <3>2, <3>3, <3>4
  <2>5. QED
    BY <2>3, <2>4
<1>8. CASE ReceiveCommitted(c)
  <2> DEFINE n == Message(c).seq
  <2>1. outbox[c][h].kind = "committed" /\ n \in Int
    BY <1>2, <1>4, <1>8, MessageNumbers DEF ReceiveCommitted, Receiving
  <2>2. base' = base
    BY <1>8 DEF ReceiveCommitted
  <2>3. CASE Message(c).request \in inFlight[c] /\ ~EchoSeen(c, n)
    <3>1. last[c] # NoSeq /\ last[c] \in Nat
      BY <1>0, <2>3 DEF Followed
    <3>2. last[c] < n /\ n \in Nat
      BY <2>1, <2>3, <3>1 DEF EchoSeen
    <3>3. Applied(c, n)
      BY <1>8, <2>3 DEF ReceiveCommitted
    <3>4. QED
      BY <1>2, <1>4, <2>1, <2>2, <3>1, <3>2, <3>3 DEF Arrives
  <2>4. CASE ~(Message(c).request \in inFlight[c] /\ ~EchoSeen(c, n))
    BY <1>2, <1>8, <2>2, <2>4 DEF ReceiveCommitted
  <2>5. QED
    BY <2>3, <2>4
<1>9. CASE ReceiveFailed(c) \/ ReceiveRestarting(c) \/ ReceiveInterrupted(c)
  BY <1>2, <1>9 DEF ReceiveFailed, ReceiveRestarting, ReceiveInterrupted, Settle
<1>10. CASE ReceiveSeqTooOld(c)
  BY <1>2, <1>10 DEF ReceiveSeqTooOld
<1>11. QED
  BY <1>6, <1>7, <1>8, <1>9, <1>10 DEF Receive

\* What a client has folded in is in the log, and not ahead of its position.
LEMMA AppliedInLog ==
  ASSUME FeedGround, Followed, NEW c \in Conns, Follows(c)
  PROVE  \A n \in applied[c] : n \in 1 .. Len(log) /\ last[c] # NoSeq /\ n <= last[c]
<1>0. /\ ClientShape /\ Len(log) \in Nat /\ last[c] \in {NoSeq} \cup Nat
      /\ last[c] # NoSeq => last[c] <= Len(log)
  BY QueueOf DEF FeedGround, Shapes, Follows, QueueBehind
<1> SUFFICES ASSUME NEW n \in applied[c]
             PROVE  n \in 1 .. Len(log) /\ last[c] # NoSeq /\ n <= last[c]
  OBVIOUS
<1>1. last[c] # NoSeq
  BY DEF Followed
<1>2. base[c] \in Nat /\ base[c] < n /\ n <= last[c]
  BY <1>1 DEF Followed
<1>3. n \in Nat
  BY <1>0 DEF ClientShape
<1>4. QED
  BY <1>0, <1>1, <1>2, <1>3

\* What is skipped for a receipt stays skipped.
LEMMA SkippedStays ==
  ASSUME NEW c \in Conns, NEW n, Skipped(c, n), LogKept, applied[c] \subseteq 1 .. Len(log),
         applied[c] \subseteq applied'[c]
  PROVE  Skipped(c, n)'
  BY DEF Skipped, LogKept

\* Every step keeps the account of what is behind the client's position.
LEMMA ShownKept ==
  ASSUME FeedGround, Shapes', JobLog, Followed, \A c \in Conns : Follows(c) /\ Receipts(c) /\ Begun(c),
         SyncNext, NEW c \in Conns, Shown(c)
  PROVE  Shown(c)'
<1>0. /\ Shapes /\ ClientShape /\ lagSeen \in [Conns -> BOOLEAN] /\ Len(log) \in Nat
      /\ last[c] \in {NoSeq} \cup Nat /\ NoSeq \notin Nat
  BY QueueOf DEF FeedGround, Shapes
<1>1. LogKept /\ applied[c] \subseteq applied'[c] /\ (lagSeen[c] => lagSeen'[c])
      /\ applied[c] \subseteq 1 .. Len(log)
  BY <1>0, NothingForgotten, JobLogKept, AppliedInLog
<1>2. CASE lagSeen[c]
  BY <1>1, <1>2 DEF Shown
<1> SUFFICES ASSUME ~lagSeen[c] PROVE Shown(c)'
  BY <1>2
<1>3. last[c] # NoSeq =>
        /\ last[c] = base[c] \/ last[c] \in applied[c]
        /\ \A n \in Nat : base[c] < n /\ n <= last[c] => n \in applied[c] \/ Skipped(c, n)
  BY DEF Shown
<1>4. \A n : Skipped(c, n) => Skipped(c, n)'
  BY <1>1, SkippedStays
<1>5. ASSUME last'[c] = last[c], base'[c] = base[c], applied'[c] = applied[c]
      PROVE  Shown(c)'
  BY <1>3, <1>4, <1>5 DEF Shown
<1>6. CASE ~Receive(c)
  <2>1. last'[c] = last[c] /\ base'[c] = base[c] /\ applied'[c] = applied[c]
    <3>1. CASE \A d \in Conns : ~Receive(d)
      BY <3>1, ClientRests
    <3>2. ASSUME NEW d \in Conns, Receive(d)
          PROVE  last'[c] = last[c] /\ base'[c] = base[c] /\ applied'[c] = applied[c]
      BY <1>6, <3>2, ReceiveOwn
    <3>3. QED
      BY <3>1, <3>2
  <2>2. QED
    BY <1>5, <2>1
<1>7. CASE Receive(c)
  <2>1. CASE lagSeen'[c]
    BY <2>1 DEF Shown
  <2>2. CASE UNCHANGED <<last, base, applied>>
    BY <1>5, <2>2
  <2>3. ASSUME NEW m, Arrives(c, m), base' = base
        PROVE  Shown(c)'
    <3>1. /\ m \in Nat /\ last[c] # NoSeq /\ last[c] < m /\ last[c] \in Nat
          /\ \/ Message(c).kind = "event" /\ m = last[c] + 1
             \/ Message(c).kind = "committed" /\ m = Message(c).seq
      BY <1>0, <2>3 DEF Arrives
    <3>2. last'[c] = m /\ applied'[c] = applied[c] \cup {m}
      BY <1>0, <2>3, <3>1, AppliedShape DEF Arrives
    <3>3. base[c] \in Nat
      BY <3>1 DEF Followed
    <3>4. log' = log
      BY <1>7, ReceiveOwn
    <3>5. Message(c).kind = "committed" => log[m].by = c /\ log[m].part = 1
      <4>1. Message(c).kind = "committed" => Names(c, Message(c))
        <5>1. \E kind : Receiving(c, kind)
          BY <1>7 DEF Receive, ReceiveEvent, ReceiveSubscribed, ReceiveCommitted, ReceiveFailed,
             ReceiveRestarting, ReceiveInterrupted, ReceiveSeqTooOld
        <5>2. read[c] \in Nat /\ Len(outbox[c]) \in Nat /\ read[c] < Len(outbox[c])
          BY <1>0, <5>1, QueueOf DEF Receiving
        <5>3. read[c] + 1 \in 1 .. Len(outbox[c])
          BY <5>2
        <5>4. QED
          BY <5>3 DEF Receipts, Message
      <4>2. QED
        BY <3>1, <4>1 DEF Names, Part
    <3>6. ASSUME NEW n \in Nat, base[c] < n, n <= m
          PROVE  n \in applied'[c] \/ Skipped(c, n)'
      <4>1. CASE n <= last[c]
        BY <1>1, <1>3, <1>4, <3>1, <3>6, <4>1
      <4>2. CASE n = m
        BY <3>2, <4>2
      <4>3. CASE last[c] < n /\ n < m
        <5>1. Message(c).kind = "committed"
          BY <3>1, <4>3
        <5>2. QED
          BY <3>2, <3>4, <3>5, <4>3, <5>1 DEF Skipped
      <4>4. QED
        BY <3>1, <3>6, <4>1, <4>2, <4>3
    <3>7. QED
      BY <2>3, <3>2, <3>6 DEF Shown
  <2>4. CASE last[c] = NoSeq /\ last'[c] \in Nat /\ base'[c] = last'[c] /\ applied' = applied
    <3>1. \A n \in Nat : ~(base'[c] < n /\ n <= last'[c])
      BY <2>4
    <3>2. QED
      BY <2>4, <3>1 DEF Shown
  <2>5. QED
    BY <1>7, <2>1, <2>2, <2>3, <2>4, ReceiveCourse
<1>8. QED
  BY <1>6, <1>7

\* A mutation is retired as committed by the event it came from, or by its
\* receipt.
LEMMA CommitsBy ==
  ASSUME Shapes, Followed, SyncNext, NEW c \in Conns, NEW k \in Seqs,
         pending'[c][k] = "committed", pending[c][k] # "committed"
  PROVE  /\ Receive(c)
         /\ \/ \E n : Applied(c, n) /\ n = Message(c).seq /\ log[n].by = c /\ log[n].seq = k
                      /\ Message(c).kind \in {"event", "committed"}
            \/ /\ Message(c).kind = "committed" /\ Message(c).request = k /\ k \in inFlight[c]
               /\ EchoSeen(c, Message(c).seq) /\ last' = last
<1>0. ClientShape
  BY DEF Shapes
<1> DEFINE StillSo == pending'[c][k] = pending[c][k] \/ pending'[c][k] # "committed"
           Goal == /\ Receive(c)
                   /\ \/ \E n : Applied(c, n) /\ n = Message(c).seq /\ log[n].by = c /\ log[n].seq = k
                                /\ Message(c).kind \in {"event", "committed"}
                      \/ /\ Message(c).kind = "committed" /\ Message(c).request = k /\ k \in inFlight[c]
                         /\ EchoSeen(c, Message(c).seq) /\ last' = last
<1>1. ~StillSo
  OBVIOUS
<1>2. ASSUME NEW d \in Conns, ConnectionLost(d) \/ CloseReview(d) \/ \E j \in Seqs : Mutate(d, j)
      PROVE  StillSo
  <2>1. CASE ConnectionLost(d)
    <3>1. pending' = [pending EXCEPT ![d] = Cleared(d)]
      BY <2>1 DEF ConnectionLost
    <3>2. Cleared(d)[k] \in {"unknown", pending[d][k]}
      BY DEF Cleared
    <3>3. QED
      BY <1>0, <3>1, <3>2 DEF ClientShape
  <2>2. CASE CloseReview(d)
    BY <1>0, <2>2 DEF CloseReview, ClientShape
  <2>3. ASSUME NEW j \in Seqs, Mutate(d, j)
        PROVE  StillSo
    BY <1>0, <2>3 DEF Mutate, ClientShape
  <2>4. QED
    BY <1>1, <1>2, <2>1, <2>2, <2>3
<1>3. ASSUME NEW d \in Conns, NEW n, Applied(d, n), ReceiveEvent(d) \/ ReceiveCommitted(d), n = Message(d).seq
      PROVE  StillSo \/ Goal
  <2>1. pending' = [pending EXCEPT ![d] = [j \in Seqs |->
                   IF @[j] \in Waiting /\ log[n].by = d /\ log[n].seq = j
                   THEN "committed" ELSE @[j]]]
    BY <1>3 DEF Applied
  <2>2. CASE d # c
    BY <1>0, <2>1, <2>2 DEF ClientShape
  <2>3. CASE d = c /\ log[n].by = c /\ log[n].seq = k
    <3>1. Receive(c) /\ Message(c).kind \in {"event", "committed"}
      BY <1>3, <2>3 DEF Receive, ReceiveEvent, ReceiveCommitted, Receiving
    <3>2. QED
      BY <1>3, <2>3, <3>1
  <2>4. CASE d = c /\ ~(log[n].by = c /\ log[n].seq = k)
    BY <1>0, <2>1, <2>4 DEF ClientShape
  <2>5. QED
    BY <2>2, <2>3, <2>4
<1>4. ASSUME NEW d \in Conns, Receive(d)
      PROVE  StillSo \/ Goal
  <2>1. ASSUME ReceiveEvent(d)
        PROVE  StillSo \/ Goal
    <3>1. Applied(d, Message(d).seq) \/ pending' = pending
      BY <2>1 DEF ReceiveEvent
    <3>2. QED
      BY <1>3, <2>1, <3>1
  <2>2. ASSUME ReceiveCommitted(d)
        PROVE  StillSo \/ Goal
    <3>1. CASE Applied(d, Message(d).seq)
      BY <1>3, <2>2, <3>1
    <3>2. CASE pending' = pending
      BY <3>2
    <3>3. ASSUME Message(d).request \in inFlight[d], EchoSeen(d, Message(d).seq),
                 pending' = [pending EXCEPT ![d][Message(d).request] =
                           IF @ \in Waiting THEN "committed" ELSE @], last' = last
          PROVE  StillSo \/ Goal
      <4>1. CASE d = c /\ Message(d).request = k
        BY <2>2, <3>3, <4>1 DEF Receive, ReceiveCommitted, Receiving
      <4>2. CASE ~(d = c /\ Message(d).request = k)
        <5>1. Message(d).request \in Seqs
          BY <1>0, <3>3 DEF ClientShape
        <5>2. QED
          BY <1>0, <3>3, <4>2, <5>1 DEF ClientShape
      <4>3. QED
        BY <4>1, <4>2
    <3>4. QED
      BY <2>2, <3>1, <3>2, <3>3 DEF ReceiveCommitted
  <2>3. ASSUME ReceiveFailed(d) \/ ReceiveRestarting(d) \/ ReceiveInterrupted(d)
        PROVE  StillSo
    BY <1>0, <2>3 DEF ReceiveFailed, ReceiveRestarting, ReceiveInterrupted, Settle, ClientShape
  <2>4. ASSUME ReceiveSubscribed(d)
        PROVE  StillSo
    BY <1>0, <2>4 DEF ReceiveSubscribed, ClientShape
  <2>5. ASSUME ReceiveSeqTooOld(d)
        PROVE  StillSo
    BY <2>5 DEF ReceiveSeqTooOld
  <2>6. QED
    BY <1>4, <2>1, <2>2, <2>3, <2>4, <2>5 DEF Receive
<1>5. \/ pending' = pending
      \/ \E d \in Conns : ConnectionLost(d) \/ CloseReview(d) \/ Receive(d) \/ \E j \in Seqs : Mutate(d, j)
  BY PendingSteps
<1>6. Goal
  BY <1>1, <1>2, <1>4, <1>5
<1>7. QED
  BY <1>6

\* A mutation overtaken by a later one's receipt stays so.
LEMMA OvertakenStays ==
  ASSUME NEW c \in Conns, NEW k, Overtaken(c, k), LogKept, applied[c] \subseteq 1 .. Len(log),
         applied[c] \subseteq applied'[c]
  PROVE  Overtaken(c, k)'
<1>1. PICK m \in applied[c] : \E n \in 1 .. (m - 1) :
        log[m].by = c /\ log[m].seq # k /\ log[m].part = 1 /\ log[n] = Part(c, k, 1)
  BY DEF Overtaken
<1>2. PICK n \in 1 .. (m - 1) :
        log[m].by = c /\ log[m].seq # k /\ log[m].part = 1 /\ log[n] = Part(c, k, 1)
  BY <1>1
<1>3. m \in applied'[c] /\ log'[m] = log[m] /\ log'[n] = log[n]
  BY <1>1, <1>2 DEF LogKept
<1>4. QED
  BY <1>1, <1>2, <1>3 DEF Overtaken

\* A mutation retired as committed stays shown, and one is retired when it is.
LEMMA CommittedShownKept ==
  ASSUME FeedGround, JobLog, Followed, Recorded, \A c \in Conns : Follows(c) /\ Receipts(c) /\ Begun(c) /\ Shown(c),
         CommittedShown, SyncNext
  PROVE  CommittedShown'
<1> SUFFICES ASSUME NEW c \in Conns, NEW k \in Seqs, pending'[c][k] = "committed"
             PROVE  /\ InLog(c, k)'
                    /\ \/ \E n \in applied'[c] : log'[n] = Part(c, k, 1)
                       \/ lagSeen'[c]
                       \/ Overtaken(c, k)'
  BY DEF CommittedShown
<1>0. /\ Shapes /\ ClientShape /\ lagSeen \in [Conns -> BOOLEAN] /\ Len(log) \in Nat
      /\ last[c] \in {NoSeq} \cup Nat /\ NoSeq \notin Nat
      /\ last[c] # NoSeq => last[c] <= Len(log)
  BY QueueOf DEF FeedGround, Shapes, Follows, QueueBehind
<1>1. LogKept /\ applied[c] \subseteq applied'[c] /\ (lagSeen[c] => lagSeen'[c])
  BY <1>0, NothingForgotten, JobLogKept
<1>2. \A n \in applied[c] : n \in 1 .. Len(log) /\ last[c] # NoSeq /\ n <= last[c]
  BY AppliedInLog
<1>3. InLog(c, k) => InLog(c, k)'
  BY <1>0, <1>1 DEF InLog, LogKept
<1>4. CASE pending[c][k] = "committed"
  <2>1. InLog(c, k) /\ (\/ \E n \in applied[c] : log[n] = Part(c, k, 1)
                        \/ lagSeen[c]
                        \/ Overtaken(c, k))
    BY <1>4 DEF CommittedShown
  <2>2. (\E n \in applied[c] : log[n] = Part(c, k, 1)) => \E n \in applied'[c] : log'[n] = Part(c, k, 1)
    BY <1>1, <1>2 DEF LogKept
  <2>3. Overtaken(c, k) => Overtaken(c, k)'
    BY <1>1, <1>2, OvertakenStays
  <2>4. QED
    BY <1>1, <1>3, <2>1, <2>2, <2>3
<1>5. CASE pending[c][k] # "committed"
  <2>1. Receive(c)
    BY <1>0, <1>5, CommitsBy
  <2>2. /\ log' = log /\ read[c] \in Nat /\ read[c] < Len(outbox[c]) /\ Message(c) \in SyncMsgs
        /\ Len(outbox[c]) \in Nat
    <3>1. \E kind : Receiving(c, kind)
      BY <2>1 DEF Receive, ReceiveEvent, ReceiveSubscribed, ReceiveCommitted, ReceiveFailed,
         ReceiveRestarting, ReceiveInterrupted, ReceiveSeqTooOld
    <3>2. QED
      BY <1>0, <2>1, <3>1, ReceiveRests, ReceiveOwn, QueueOf
  <2>3. PICK h \in 1 .. Len(outbox[c]) : h = read[c] + 1
    <3>1. read[c] + 1 \in 1 .. Len(outbox[c])
      BY <2>2
    <3>2. QED
      BY <3>1
  <2>4. Message(c) = outbox[c][h] /\ Unread(c, h)
    BY <2>2, <2>3 DEF Message, Unread
  <2> DEFINE n == Message(c).seq
  <2>5. Message(c).kind = "committed" =>
          n \in 1 .. Len(log) /\ log[n] = Part(c, Message(c).request, 1)
    BY <2>4 DEF Receipts, Names
  <2>6. Message(c).kind = "event" => n \in 1 .. Len(log)
    <3>1. Message(c).kind = "event" => n \in Nat /\ n <= Len(log) /\ n # 0
      BY <2>2, <2>4, MessageNumbers DEF Follows, QueueBehind
    <3>2. QED
      BY <1>0, <3>1
  <2>7. ASSUME Applied(c, n), log[n].by = c, log[n].seq = k, Message(c).kind \in {"event", "committed"}
        PROVE  \/ \E m \in applied'[c] : log'[m] = Part(c, k, 1)
               \/ lagSeen'[c]
               \/ Overtaken(c, k)'
    <3>1. n \in 1 .. Len(log) /\ n \in Nat
      BY <2>5, <2>6, <2>7
    <3>2. applied'[c] = applied[c] \cup {n} /\ last'[c] = n
      BY <1>0, <2>7, <3>1, AppliedShape
    <3>3. log[n] \in SyncTopics /\ (log[n].part # 1 => n > 1 /\ log[n - 1] = Part(c, k, 1))
      BY <2>7, <3>1 DEF JobLog
    <3>4. log[n].part = 1 => log[n] = Part(c, k, 1)
      <4>1. log[n] # SystemEvent
        BY <2>7, SyncAssumption DEF SystemEvent, Part
      <4>2. \E d \in Conns, j \in Seqs, p \in 1 .. 2 : log[n] = Part(d, j, p)
        BY <3>3, <4>1 DEF SyncTopics
      <4>3. QED
        BY <2>7, <4>2 DEF Part
    <3>5. CASE log[n].part = 1
      BY <2>2, <3>2, <3>4, <3>5
    <3>6. CASE log[n].part # 1
      <4>1. n > 1 /\ log[n - 1] = Part(c, k, 1) /\ n - 1 \in 1 .. Len(log)
        BY <1>0, <3>1, <3>3, <3>6
      <4>2. CASE lagSeen[c]
        BY <1>1, <4>2
      <4>3. CASE ~lagSeen[c]
        <5>1. Message(c).kind # "committed"
          BY <2>5, <3>6 DEF Part
        <5>2. n = last[c] + 1 /\ last[c] \in Nat /\ last[c] # NoSeq
          <6>1. Message(c).kind = "event"
            BY <2>7, <5>1
          <6>2. ReceiveEvent(c)
            BY <2>1, <6>1 DEF Receive, ReceiveSubscribed, ReceiveCommitted, ReceiveFailed,
               ReceiveRestarting, ReceiveInterrupted, ReceiveSeqTooOld, Receiving
          <6>3. Accepts(c, n) /\ last[c] # NoSeq /\ last[c] < n
            <7>1. Accepts(c, n)
              <8>1. ~Accepts(c, n) => pending' = pending
                BY <6>2 DEF ReceiveEvent
              <8>2. QED
                BY <1>5, <8>1
            <7>2. QED
              BY <1>0, <3>1, <7>1 DEF Accepts, Followed
          <6>4. KnownBefore(c, h, n - 1)
            BY <2>4, <6>1 DEF Follows, Stream, UnreadOf
          <6>5. n - 1 <= last[c]
            BY <1>0, <2>3, <4>3, <6>4, HeadKnown
          <6>6. QED
            BY <1>0, <3>1, <6>3, <6>5
        <5>3. log[n - 1].by = c
          BY <4>1 DEF Part
        <5>4. base[c] # NoSeq /\ n - 1 > base[c]
          BY <4>1, <5>3 DEF Begun
        <5>5. last[c] = n - 1 /\ base[c] \in Nat
          BY <3>1, <5>2 DEF Followed
        <5>6. last[c] \in applied[c]
          <6>1. last[c] # base[c]
            BY <5>2, <5>4, <5>5
          <6>2. Shown(c)
            OBVIOUS
          <6>3. QED
            BY <4>3, <5>2, <6>1, <6>2 DEF Shown
        <5>7. n - 1 \in applied'[c] /\ log'[n - 1] = Part(c, k, 1)
          BY <1>1, <2>2, <4>1, <5>5, <5>6
        <5>8. QED
          BY <5>7
      <4>4. QED
        BY <4>2, <4>3
    <3>7. QED
      BY <3>5, <3>6
  <2>8. ASSUME Message(c).kind = "committed", Message(c).request = k, k \in inFlight[c], EchoSeen(c, n)
        PROVE  \/ \E m \in applied'[c] : log'[m] = Part(c, k, 1)
               \/ lagSeen'[c]
               \/ Overtaken(c, k)'
    <3>1. n \in 1 .. Len(log) /\ log[n] = Part(c, k, 1)
      BY <2>5, <2>8
    <3>2. CASE lagSeen[c]
      BY <1>1, <3>2
    <3>3. CASE ~lagSeen[c]
      <4>1. last[c] # NoSeq /\ n <= last[c] /\ n \in Nat
        BY <1>0, <2>8, <3>1 DEF Followed, EchoSeen
      <4>2. log[n].by = c /\ base[c] # NoSeq /\ n > base[c]
        BY <3>1 DEF Begun, Part
      <4>3. n \in applied[c] \/ Skipped(c, n)
        BY <3>3, <4>1, <4>2 DEF Shown
      <4>4. ASSUME Skipped(c, n)
            PROVE  Overtaken(c, k)
        <5>1. PICK m \in applied[c] : n < m /\ log[m].by = c /\ log[m].part = 1
          BY <4>4 DEF Skipped
        <5>2. m \in 1 .. Len(log) /\ log[m] \in SyncTopics
          BY <1>2, <5>1 DEF JobLog
        <5>3. log[m] = Part(c, log[m].seq, 1)
          <6>1. log[m] # SystemEvent
            BY <5>1, SyncAssumption DEF SystemEvent, Part
          <6>2. \E d \in Conns, j \in Seqs, p \in 1 .. 2 : log[m] = Part(d, j, p)
            BY <5>2, <6>1 DEF SyncTopics
          <6>3. QED
            BY <5>1, <6>2 DEF Part
        <5>4. log[m].seq # k
          <6>1. ASSUME log[m].seq = k PROVE FALSE
            <7>1. log[m] = log[n] /\ log[n].by = c /\ log[n].seq = k
              BY <3>1, <5>3, <6>1 DEF Part
            <7>2. m = n
              BY <3>1, <5>2, <7>1 DEF Recorded
            <7>3. QED
              BY <5>1, <5>2, <7>2
          <6>2. QED
            BY <6>1
        <5>5. n \in 1 .. (m - 1)
          BY <3>1, <5>1, <5>2
        <5>6. QED
          BY <3>1, <5>1, <5>4, <5>5 DEF Overtaken
      <4>5. CASE n \in applied[c]
        BY <1>1, <2>2, <3>1, <4>5
      <4>6. CASE Skipped(c, n)
        BY <1>1, <1>2, <4>4, <4>6, OvertakenStays
      <4>7. QED
        BY <4>3, <4>5, <4>6
    <3>4. QED
      BY <3>2, <3>3
  <2>9. InLog(c, k)
    <3>1. ASSUME log[n].by = c, log[n].seq = k, Message(c).kind \in {"event", "committed"}
          PROVE  InLog(c, k)
      BY <2>5, <2>6, <3>1 DEF InLog
    <3>2. ASSUME Message(c).kind = "committed", Message(c).request = k
          PROVE  InLog(c, k)
      BY <2>5, <3>2 DEF InLog, Part
    <3>3. QED
      BY <1>0, <1>5, <3>1, <3>2, CommitsBy
  <2>10. QED
    BY <1>0, <1>3, <1>5, <2>7, <2>8, <2>9, CommitsBy
<1>6. QED
  BY <1>4, <1>5

-----------------------------------------------------------------------------
(***************************************************************************)
(* The invariant of what clients have been told, and what follows from it. *)
(***************************************************************************)

\* Nothing has been told at first.
LEMMA ToldInit ==
  ASSUME SyncInit
  PROVE  ToldInv
<1> USE DEF SyncInit, Init
<1>0. \A c \in Conns : outbox[c] = <<>> /\ ready[c] = {} /\ up[c] = <<>> /\ read[c] = 0 /\ last[c] = NoSeq
  OBVIOUS
<1>1. Len(log) = 0 /\ Len(jobs) = 0 /\ \A c \in Conns : Len(outbox[c]) = 0 /\ Len(up[c]) = 0
  BY <1>0
<1>2. /\ current.by = Daemon /\ current.seq = 0 /\ current.events = 0 /\ current.phase = "none"
  BY DEF NoJob
<1>3. JobLog
  BY <1>1, <1>2 DEF JobLog, Owned
<1>4. published <= Len(log) /\ delivered \in [Conns -> [Scopes -> Nat]] /\ lagSeen \in [Conns -> BOOLEAN]
  BY <1>1
<1>5. ASSUME NEW c \in Conns
      PROVE  Follows(c) /\ Receipts(c) /\ Begun(c) /\ Shown(c)
  <2>0. ~replay[c].on /\ active[c] = {} /\ c \notin open /\ state[c] = "down" /\ last[c] = NoSeq
        /\ base[c] = NoSeq /\ held[c] = 0 /\ tail[c] = 0 /\ published = 0 /\ read[c] = 0
    BY DEF NoReplay
  <2>1. Behind(c) /\ QueueBehind(c)
    BY <1>1, <2>0 DEF Behind, QueueBehind
  <2>2. Linked(c)
    BY <1>0, <1>1, <2>0 DEF Linked
  <2>3. Asked(c) /\ Ordered(c) /\ Stream(c) /\ Feeding(c)
    BY <1>1, <2>0 DEF Asked, Ordered, Stream, Feeding
  <2>4. Receipts(c)
    BY <1>0, <1>1 DEF Receipts
  <2>5. Begun(c)
    BY <1>1, <2>0 DEF Begun
  <2>6. Shown(c)
    BY <2>0 DEF Shown
  <2>7. QED
    BY <2>1, <2>2, <2>3, <2>4, <2>5, <2>6 DEF Follows
<1>6. CommittedShown
  BY DEF CommittedShown
<1>7. QED
  BY <1>3, <1>4, <1>5, <1>6 DEF ToldInv

\* Nothing changes what has been told when nothing changes.
LEMMA ToldStays ==
  ASSUME ToldInv, UNCHANGED vars
  PROVE  ToldInv'
<1>1. /\ UNCHANGED <<log, published, open, tail, held, active, delivered, replay, at, outbox>>
      /\ UNCHANGED <<up, jobs, current, ready, state, last, pending, read, base, applied, lagSeen>>
  BY DEF vars, feedVars, connVars, daemonVars, linkVars, clientVars
<1>2. JobLog'
  BY <1>1 DEF ToldInv, JobLog, FirstEvent
<1>3. CommittedShown'
  BY <1>1 DEF ToldInv, CommittedShown, InLog, Overtaken
<1>4. ASSUME NEW c \in Conns
      PROVE  Follows(c)' /\ Receipts(c)' /\ Begun(c)' /\ Shown(c)'
  <2>0. Follows(c) /\ Receipts(c) /\ Begun(c) /\ Shown(c)
    BY DEF ToldInv
  <2>1. /\ \A i, kind : UnreadOf(c, i, kind)' <=> UnreadOf(c, i, kind)
        /\ \A i : Unread(c, i)' <=> Unread(c, i)
        /\ \A i, n : KnownBefore(c, i, n)' <=> KnownBefore(c, i, n)
        /\ \A n : Told(c, n)' <=> Told(c, n)
        /\ Lags(c)' <=> Lags(c)
    <3>1. Mute(c)
      BY <1>1 DEF Mute, SameCourse
    <3>2. QED
      BY <3>1, KnownMute
  <2>2. Behind(c)' /\ QueueBehind(c)' /\ Linked(c)' /\ Asked(c)'
    BY <1>1, <2>0 DEF Follows, Behind, QueueBehind, Linked, Asked
  <2>3. Ordered(c)'
    BY <1>1, <2>0, <2>1 DEF Follows, Ordered, AwaitsAnswer
  <2>4. Stream(c)'
    BY <1>1, <2>0, <2>1 DEF Follows, Stream
  <2>5. Feeding(c)'
    BY <1>1, <2>0, <2>1 DEF Follows, Feeding, Processed
  <2>6. Receipts(c)' /\ Begun(c)'
    BY <1>1, <2>0 DEF Receipts, Names, Begun
  <2>7. Shown(c)'
    BY <1>1, <2>0 DEF Shown, Skipped
  <2>8. QED
    BY <2>2, <2>3, <2>4, <2>5, <2>6, <2>7 DEF Follows
<1>5. QED
  BY <1>1, <1>2, <1>3, <1>4 DEF ToldInv

\* The inductive invariant of what clients have been told: every queued event
\* continues what the client has or is about to be told of, a receipt names
\* the first event of its mutation, and what is behind the client's position
\* has been folded in, or was skipped when a receipt of its own came first.
THEOREM ToldInvariant == SyncSpec => []ToldInv
<1>1. SyncInit => ToldInv
  BY ToldInit
<1>2. SyncInv /\ SyncInv' /\ ToldInv /\ [SyncNext]_vars => ToldInv'
  <2> SUFFICES ASSUME SyncInv, SyncInv', ToldInv, [SyncNext]_vars PROVE ToldInv'
    OBVIOUS
  <2>1. CASE SyncNext
    <3>1. /\ Shapes /\ Shapes' /\ Copies /\ Followed /\ Followed' /\ JobLog /\ CommittedShown
          /\ \A c \in Conns : Follows(c) /\ Receipts(c) /\ Begun(c) /\ Shown(c)
      BY DEF SyncInv, ToldInv
    <3>2. FeedGround
      BY <3>1 DEF ToldInv, JobLog, FeedGround
    <3>3. /\ \A c \in Conns : Follows(c)'
          /\ Grows /\ delivered' \in [Conns -> [Scopes -> Nat]] /\ lagSeen' \in [Conns -> BOOLEAN]
      BY <2>1, <3>1, <3>2, FollowsKept
    <3>4. JobLog'
      BY <2>1, <3>1, JobLogKept
    <3>5. ASSUME NEW c \in Conns
          PROVE  Receipts(c)' /\ Begun(c)' /\ Shown(c)'
      BY <2>1, <3>1, <3>2, ReceiptsKept, BegunKept, ShownKept
    <3>6. CommittedShown'
      BY <2>1, <3>1, <3>2, CommittedShownKept DEF Copies
    <3>7. published' <= Len(log')
      BY <3>3 DEF Grows
    <3>8. QED
      BY <3>3, <3>4, <3>5, <3>6, <3>7 DEF ToldInv
  <2>2. CASE UNCHANGED vars
    BY <2>2, ToldStays
  <2>3. QED
    BY <2>1, <2>2
<1>3. QED
  BY <1>1, <1>2, SyncInvariant, PTL DEF SyncSpec

\* CommittedShown for every instance: a mutation that client-core retires as
\* committed is in the log and its first event has been folded into the view,
\* whichever of the receipt and the broadcast came first and across
\* reconnects, unless the daemon sent SeqTooOld or answered a later mutation
\* of the client first.
THEOREM CommittedIsShown == SyncSpec => []CommittedShown
<1>1. ToldInv => CommittedShown
  BY DEF ToldInv
<1>2. QED
  BY <1>1, ToldInvariant, PTL

\* FeedContiguous for every instance: live events, replayed ones and the
\* answer of a reconnect move last_seq to its successor and over nothing,
\* unless the daemon sent SeqTooOld; only a receipt moves it further.
THEOREM FeedIsContiguous == SyncSpec => FeedContiguous
<1>1. SyncInv /\ ToldInv /\ [SyncNext]_vars =>
        [\A c \in Conns :
           last[c] # NoSeq /\ last'[c] # last[c] =>
             \/ last'[c] = last[c] + 1
             \/ lagSeen[c]
             \/ Message(c).kind = "committed"]_vars
  <2> SUFFICES ASSUME SyncInv, ToldInv, SyncNext, NEW c \in Conns, last[c] # NoSeq, last'[c] # last[c]
               PROVE  last'[c] = last[c] + 1 \/ lagSeen[c] \/ Message(c).kind = "committed"
    OBVIOUS
  <2>1. /\ Shapes /\ ClientShape /\ Followed /\ JobLog /\ Follows(c)
    BY DEF SyncInv, Shapes, ToldInv
  <2>2. FeedGround
    BY <2>1 DEF ToldInv, JobLog, FeedGround
  <2>3. Receive(c)
    <3>1. \E d \in Conns : Receive(d)
      BY ClientRests
    <3>2. QED
      BY <2>2, <3>1, ReceiveOwn
  <2>4. ASSUME NEW n, Arrives(c, n)
        PROVE  last'[c] = last[c] + 1 \/ lagSeen[c] \/ Message(c).kind = "committed"
    <3>1. last'[c] = n
      BY <2>1, <2>4, AppliedShape DEF Arrives
    <3>2. QED
      BY <2>4, <3>1 DEF Arrives
  <2>5. QED
    BY <2>1, <2>2, <2>3, <2>4, ReceiveCourse
<1>2. QED
  BY <1>1, SyncInvariant, ToldInvariant, PTL DEF SyncSpec, FeedContiguous

=============================================================================
