---------------------------- MODULE ContentCache ----------------------------
(***************************************************************************)
(* What the client keeps of a review's content (crates/nits-client-core,   *)
(* content.rs and cache.rs): trees, render headers and chunks in a memory  *)
(* tier with pins and a byte budget, the host's key-value store behind it, *)
(* and the fetches that are loading, queued or sent to the daemon.         *)
(*                                                                         *)
(* The daemon's checkout has a version; ListedAt gives the changed files   *)
(* of one as pairs of path and content, Chunks the length of a content.    *)
(* A chunk has one row.  Which file list or snapshot is the latest is the  *)
(* matter of ReviewView.                                                   *)
(***************************************************************************)
EXTENDS Integers, Sequences, FiniteSets, SequencesExt, Functions, TLC

CONSTANTS
  ListedAt,       \* the changed files by version: Seq(Seq([path, blob]))
  Chunks,        \* [blob -> number of chunks]
  Radius,        \* PREFETCH_RADIUS
  MaxInFlight,   \* max_in_flight
  Budget,        \* memory_budget
  DiskBudget,    \* the budget of the disk tier, when there is one
  ContentMenus   \* bounds: whether there is a disk, and how often each input may happen

ASSUME CacheAssumption ==
  /\ Radius \in Nat /\ MaxInFlight \in Nat /\ ListedAt # <<>>
  /\ ListedAt \in Seq(Seq([path : {f.path : f \in UNION {Range(l) : l \in Range(ListedAt)}},
                           blob : DOMAIN Chunks]))

Absent == 0
NoRender == [path |-> Absent, blob |-> Absent]

TreeKey(v) == [kind |-> "Tree", render |-> NoRender, n |-> v]
HeaderKey(r) == [kind |-> "Header", render |-> r, n |-> 0]
OpenKey == [kind |-> "Open", render |-> NoRender, n |-> 0]
ChunkKey(r, n) == [kind |-> "Chunk", render |-> r, n |-> n]

Fetch(key, stop) == [key |-> key, stop |-> stop]
SizeOf(key) == IF key.kind = "Chunk" THEN 2 ELSE 1

VARIABLES
  ver,        \* the version of the daemon's checkout
  work,       \* the requests the daemon works on
  kv,         \* the host's store: [key -> value], Absent when it does not decode
  content,    \* the client
  budget      \* what remains of the chosen menu

cacheVars == <<ver, work, kv, content, budget>>

NoOpenReview == [open |-> FALSE, committed |-> Absent, trees |-> {}, files |-> <<>>,
             openFile |-> NoRender, row |-> 0, listing |-> FALSE, stream |-> Absent]

\* History variables: lost, an answer the review needs did not come, did not
\* fit or was dropped; blind, the viewport was set before its header was there; wasDown, the
\* connection was lost once.
NoContent == [mem |-> <<>>, pinned |-> {}, disk |-> <<>>, loads |-> {}, pending |-> <<>>,
              queue |-> <<>>, inFlight |-> 0, waiting |-> {}, connected |-> TRUE,
              lost |-> FALSE, blind |-> FALSE, wasDown |-> FALSE]

\* Without a review, the fields of one are as at the start.
WithoutReview(c) == [f \in DOMAIN NoContent \cup DOMAIN NoOpenReview |->
               IF f \in DOMAIN NoOpenReview THEN NoOpenReview[f] ELSE c[f]]
Unopened == WithoutReview(NoContent)

CacheInit ==
  /\ ver = 1 /\ work = {} /\ content = Unopened
  /\ budget \in ContentMenus
  /\ kv = budget.stored

Cached == [c |-> content, work |-> work, kv |-> kv]
HasDisk == budget.disk

Put(f, key, val) == [k \in DOMAIN f \cup {key} |-> IF k = key THEN val ELSE f[k]]

-----------------------------------------------------------------------------
(* The memory tier: entries from the least to the most recently used.      *)

RowTotal(keys) == FoldLeft(LAMBDA n, k : n + SizeOf(k), 0, keys)
KeysOf(mem) == [i \in DOMAIN mem |-> mem[i].key]
Resident(c, key) == \E i \in DOMAIN c.mem : c.mem[i].key = key

\* The unpinned entries, oldest first, until the rest fits.
Evicted(c) ==
  LET loose == SelectSeq(c.mem, LAMBDA e : e.key \notin c.pinned)
      total == RowTotal(KeysOf(c.mem))
      fits(k) == k = Len(loose) \/ total - RowTotal(KeysOf(SubSeq(loose, 1, k))) <= Budget
      n == CHOOSE k \in 0..Len(loose) : fits(k) /\ \A m \in 0..(k - 1) : ~fits(m)
  IN SubSeq(loose, 1, n)

(* The disk tier: the keys this session wrote or loaded, oldest first.     *)

Rest(disk, key) == SelectSeq(disk, LAMBDA k : k # key)

Touched(disk, key) ==
  LET all == Append(Rest(disk, key), key)
      fits(k) == k = Len(all) - 1 \/ RowTotal(SubSeq(all, k + 1, Len(all))) <= DiskBudget
      n == CHOOSE k \in 0..(Len(all) - 1) : fits(k) /\ \A m \in 0..(k - 1) : ~fits(m)
  IN SubSeq(all, n + 1, Len(all))

\* The key becomes the most recent on disk; what no longer fits is removed.
Promote(s, key, disk) ==
  LET gone == ToSet(s.c.disk) \ ToSet(disk)
  IN [s EXCEPT !.c.disk = disk, !.kv = [k \in DOMAIN @ \ (gone \ {key}) |-> @[k]]]

Touch(s, key) == Promote(s, key, Touched(s.c.disk, key))

Persist(s, key, val) ==
  IF ~HasDisk THEN s
  ELSE [Touch(s, key) EXCEPT !.kv = Put(@, key, val)]

WriteOne(s, e) ==
  [Touch(s, e.key) EXCEPT !.kv = IF e.key \in ToSet(s.c.disk) THEN @ ELSE Put(@, e.key, e.val)]

\* Only the disk and the store of t.
DiskOf(s, t) == [s EXCEPT !.c.disk = t.c.disk, !.kv = t.kv]

WriteThrough(s, evicted) ==
  IF ~HasDisk THEN s ELSE DiskOf(s, FoldLeft(WriteOne, s, evicted))

\* Evicts down to the budget and writes through.
Trim(s) ==
  LET out == Evicted(s.c)
  IN WriteThrough([s EXCEPT !.c.mem = SelectSeq(@, LAMBDA e : e \notin ToSet(out))], out)

Insert(s, key, val) ==
  Trim([s EXCEPT !.c.mem = Append(SelectSeq(@, LAMBDA e : e.key # key), [key |-> key, val |-> val])])

KeptPin(c, key) ==
  CASE key.kind = "Tree" -> key.n \in c.trees
    [] key.kind = "Header" -> key.render \in ToSet(c.files) \cup {c.openFile}
    [] key.kind = "Chunk" -> key.render = c.openFile

RetainReviewPins(s) == Trim([s EXCEPT !.c.pinned = {k \in @ : KeptPin(s.c, k)}])

Pin(s, keys) == [s EXCEPT !.c.pinned = @ \cup keys]

-----------------------------------------------------------------------------
(* Wanting                                                                 *)

FreeId(s) ==
  LET used == {w.id : w \in s.c.waiting} \cup {j.id : j \in s.work}
  IN CHOOSE i \in 1..(Cardinality(used) + 1) : i \notin used

Unmark(s, key) == [s EXCEPT !.c.pending = Restrict(@, DOMAIN @ \ {key})]
Mark(s, key, how) == [s EXCEPT !.c.pending = Put(@, key, how)]

\* Without a connection the request goes nowhere, but the slot is taken.
Send(s, f) ==
  LET id == FreeId(s)
      t == Mark(s, f.key, "Requested")
  IN [t EXCEPT
       !.c.inFlight = @ + 1,
       !.c.waiting = @ \cup {[id |-> id, key |-> f.key, stop |-> f.stop]},
       !.c.lost = @ \/ ~s.c.connected,
       !.work = @ \cup (IF s.c.connected
                        THEN {[id |-> id, key |-> f.key, items |-> <<>>, stage |-> "asked", cancelled |-> FALSE]}
                        ELSE {})]

SendNext(s, turn) ==
  IF s.c.inFlight < MaxInFlight /\ s.c.queue # <<>>
  THEN Send([s EXCEPT !.c.queue = Tail(@)], Head(s.c.queue)) ELSE s

Drain(s) == FoldLeft(SendNext, s, [turn \in 1..MaxInFlight |-> turn])

Enqueue(s, f) == Drain(Mark([s EXCEPT !.c.queue = Append(@, f)], f.key, "Queued"))

\* A second load of a key that is being loaded takes the place of the first,
\* since only one of their answers is expected.
Load(s, f) == [s EXCEPT !.c.loads = {g \in @ : g.key # f.key} \cup {f}]

Want(s, f) ==
  IF Resident(s.c, f.key) \/ f.key \in DOMAIN s.c.pending THEN s
  ELSE IF HasDisk THEN Mark(Load(s, f), f.key, "Loading")
  ELSE Enqueue(s, f)

\* The answer of a content request came: its slot is free.
ContentDone(s, id) ==
  Drain([s EXCEPT !.c.inFlight = IF @ > 0 THEN @ - 1 ELSE 0,
                  !.c.waiting = {w \in @ : w.id # id},
                  !.work = {j \in @ : j.id # id}])

Keep(kept, e) == IF e.keep THEN Append(kept, e.fetch) ELSE kept

PruneQueue(s, dropped) ==
  [s EXCEPT !.c.queue = FoldLeft(Keep, <<>>, [i \in DOMAIN @ |-> [fetch |-> @[i], keep |-> @[i].key \notin dropped]]),
            !.c.pending = Restrict(@, DOMAIN @ \ dropped)]

QueuedKeys(s) == {s.c.queue[i].key : i \in DOMAIN s.c.queue}

\* The chunks around the viewport, nearest first.
Window(render, row) ==
  LET max == Chunks[render.blob] - 1
      centre == IF row < max THEN row ELSE max
  IN {n \in 0..max : n - centre \in (0 - Radius)..Radius}

\* Counted from the centre: 0, -1, 1, -2, 2 and so on.
ByDistance(render, row) ==
  LET centre == IF row < Chunks[render.blob] THEN row ELSE Chunks[render.blob] - 1
  IN [d \in 1..(2 * Radius + 1) |->
        Fetch(ChunkKey(render, centre + (IF d % 2 = 0 THEN 0 - d \div 2 ELSE d \div 2)), 0)]

WantNear(s, f) == IF f.key.n \in Window(f.key.render, s.c.row) THEN Want(s, f) ELSE s

WantViewportChunks(s, render) == FoldLeft(WantNear, s, ByDistance(render, s.c.row))

\* Once a header is there, unless it came on a stream that brings chunks.
WantChunksFor(s, render) ==
  IF Chunks[render.blob] = 0 THEN s
  ELSE IF s.c.openFile = render THEN WantViewportChunks([s EXCEPT !.c.blind = FALSE], render)
  ELSE IF render \in ToSet(s.c.files) THEN Want(s, Fetch(ChunkKey(render, 0), 0))
  ELSE s

NeedsPin(c, key) ==
  c.open /\ CASE key.kind = "Tree" -> key.n \in c.trees
              [] key.kind = "Header" -> TRUE
              [] key.kind = "Chunk" -> key.render = c.openFile

Arrived(s, key, val, via) ==
  LET marked == IF NeedsPin(s.c, key) THEN Pin(Unmark(s, key), {key}) ELSE Unmark(s, key)
      kept == IF via = "Disk" THEN marked ELSE Persist(marked, key, val)
      t == Insert(kept, key, val)
  IN IF key.kind = "Header" /\ via # "Stream" THEN WantChunksFor(t, key.render) ELSE t

-----------------------------------------------------------------------------
(* The review that needs the content                                       *)

WantTrees(s) ==
  LET t == Pin(RetainReviewPins([s EXCEPT !.c.trees = {s.c.committed}]), {TreeKey(s.c.committed)})
  IN Want(t, Fetch(TreeKey(s.c.committed), 0))

ExpectStreamedTrees(s) ==
  Pin(RetainReviewPins([s EXCEPT !.c.trees = {s.c.committed}]), {TreeKey(s.c.committed)})

\* Mutant: chunks that came before their file was opened are not pinned.
OpensUnpinned(s, render) == RetainReviewPins([s EXCEPT !.c.openFile = render])

OpenFile(s, render) ==
  LET t == RetainReviewPins([s EXCEPT !.c.openFile = render])
  IN Pin(t, {k \in ToSet(KeysOf(t.c.mem)) : k.kind = "Chunk" /\ k.render = render})

\* Queued chunks that drifted away from the viewport are dropped.
Drifted(s, render) ==
  LET window == IF Resident(s.c, HeaderKey(render)) THEN Window(render, s.c.row) ELSE {}
  IN {k \in QueuedKeys(s) : k.kind = "Chunk" /\ ~(k.render = render /\ k.n \in window)}

ShowViewport(s, render, row) ==
  LET known == Resident(s.c, HeaderKey(render))
      moved == [s EXCEPT !.c.row = row, !.c.blind = ~known]
      opened == IF s.c.openFile = render THEN moved ELSE OpenFile(moved, render)
      pruned == PruneQueue(opened, Drifted(opened, render))
  IN IF known THEN WantViewportChunks(pruned, render)
     ELSE Want(pruned, Fetch(HeaderKey(render), Radius))

OpensFirst(s) ==
  IF s.c.openFile = NoRender /\ s.c.files # <<>> THEN ShowViewport(s, s.c.files[1], 0) ELSE s

WantFile(s, render) ==
  LET t == Want(Pin(s, {HeaderKey(render)}), Fetch(HeaderKey(render), 0))
  IN IF Resident(s.c, HeaderKey(render)) THEN WantChunksFor(t, render) ELSE t

CacheFiles(s, files) ==
  LET t == RetainReviewPins([s EXCEPT
             !.c.files = files,
             !.c.openFile = IF @ \in ToSet(files) THEN @ ELSE NoRender])
  IN OpensFirst(FoldLeft(WantFile, t, files))

ReviewClosed(s) ==
  LET t == PruneQueue([s EXCEPT !.c = WithoutReview(@)], QueuedKeys(s))
  IN Trim([t EXCEPT !.c.pinned = {}, !.c.blind = FALSE])

\* New targets of the open review: its lists are asked again.
TargetsMove(s, v) ==
  LET t == [s EXCEPT !.c.lost = @ \/ ~s.c.connected, !.c.committed = v, !.c.files = <<>>,
                     !.c.openFile = NoRender, !.c.listing = s.c.connected, !.c.stream = Absent,
                     !.c.blind = FALSE]
  IN WantTrees(t)

TreeDelta(s, from) ==
  IF Resident(s.c, TreeKey(from)) THEN Arrived(s, TreeKey(from + 1), from + 1, "Response") ELSE s

-----------------------------------------------------------------------------
(* Answers.  A value is the content it was rendered from, or the version   *)
(* of a tree.                                                              *)

StreamOf(path, v) ==
  LET r == SelectSeq(ListedAt[v], LAMBDA f : f.path = path)[1]
  IN <<[key |-> HeaderKey(r), val |-> r.blob]>>
       \o [n \in 1..Chunks[r.blob] |-> [key |-> ChunkKey(r, n - 1), val |-> r.blob]]

Listed(path, v) == \E f \in ToSet(ListedAt[v]) : f.path = path

OpenStream(v) ==
  LET chunked == SelectSeq(ListedAt[v], LAMBDA r : Chunks[r.blob] # 0)
  IN <<[key |-> TreeKey(v), val |-> v]>>
     \o [n \in DOMAIN ListedAt[v] |-> [key |-> HeaderKey(ListedAt[v][n]), val |-> ListedAt[v][n].blob]]
     \o [n \in DOMAIN chunked |-> [key |-> ChunkKey(chunked[n], 0), val |-> chunked[n].blob]]

\* An answer with another root is an error of the core: the request stays
\* in flight and its slot is never given back.
TreeAnswer(s, j) ==
  IF j.key.n = ver THEN ContentDone(Arrived(s, j.key, ver, "Response"), j.id)
  ELSE [s EXCEPT !.c.lost = TRUE, !.work = @ \ {j}]

ChunkAnswer(s, j) == ContentDone(Arrived(s, j.key, j.key.render.blob, "Response"), j.id)

\* A header of other content is refused, a chunk of the same path is not.
RenderItem(s, j, item) ==
  LET key == IF item.key.kind = "Chunk" THEN ChunkKey(j.key.render, item.key.n) ELSE item.key
      stop == (CHOOSE w \in s.c.waiting : w.id = j.id).stop
      ends == key.kind = "Chunk" /\ key.n >= stop
      next == [s EXCEPT !.work = (@ \ {j}) \cup
                 {[j EXCEPT !.items = Tail(@), !.cancelled = @ \/ ends]}]
      t == [next EXCEPT !.c.lost = @ \/ item.key.render # j.key.render]
  IN IF key.kind = "Header" /\ key # j.key THEN t ELSE Arrived(t, key, item.val, "Stream")

\* Mutant: the slot of a stream is not given back.
EndsSilently(s, j) ==
  Unmark([s EXCEPT !.c.waiting = {w \in @ : w.id # j.id}, !.work = @ \ {j}], j.key)

RenderEnd(s, j) == ContentDone(Unmark(s, j.key), j.id)

OpenItem(s, j) ==
  LET item == Head(j.items)
      next == [s EXCEPT !.work = (@ \ {j}) \cup {[j EXCEPT !.items = Tail(@)]}]
      listed == IF item.key.kind = "Header" /\ item.key.render \notin ToSet(s.c.files)
                THEN [next EXCEPT !.c.files = Append(@, item.key.render)] ELSE next
  IN IF s.c.stream = j.id THEN Arrived(listed, item.key, item.val, "Stream") ELSE next

OpenEnd(s, j) ==
  LET t == [s EXCEPT !.work = @ \ {j}, !.c.stream = IF @ = j.id THEN Absent ELSE @]
  IN IF s.c.stream = j.id THEN OpensFirst(t) ELSE t

FetchFailed(s, j) ==
  ContentDone(Unmark([s EXCEPT !.c.lost = TRUE], j.key), j.id)

-----------------------------------------------------------------------------
(* Steps                                                                   *)

ContentBecomes(s) == content' = s.c /\ work' = s.work /\ kv' = s.kv
Takes(what) == budget[what] > 0 /\ budget' = [budget EXCEPT ![what] = @ - 1]

CheckoutMoves ==
  /\ ver < Len(ListedAt) /\ Takes("moves")
  /\ ver' = ver + 1
  /\ UNCHANGED <<work, kv, content>>

\* The event of the newer targets, and the delta of its tree before it.
TargetsResolved == \E delta \in BOOLEAN :
  /\ content.open /\ content.connected /\ content.committed < ver
  /\ LET s == IF delta THEN TreeDelta(Cached, content.committed) ELSE Cached
     IN ContentBecomes(TargetsMove(s, content.committed + 1))
  /\ UNCHANGED <<ver, budget>>

FilesListed ==
  /\ content.listing /\ content.connected
  /\ LET s == [Cached EXCEPT !.c.listing = FALSE]
     IN ContentBecomes(IF content.committed = ver THEN CacheFiles(s, ListedAt[ver])
                ELSE [s EXCEPT !.c.lost = TRUE])
  /\ UNCHANGED <<ver, budget>>

\* The snapshot arrives; with a disk tier the rest is asked by key.
OpenContent ==
  /\ content.connected /\ Takes("opens")
  /\ LET s == ReviewClosed(Cached)
         t == [s EXCEPT !.c.open = TRUE, !.c.committed = ver, !.c.lost = FALSE]
         id == FreeId(t)
         streamed == ExpectStreamedTrees([t EXCEPT !.c.stream = id])
     IN ContentBecomes(IF HasDisk THEN WantTrees([t EXCEPT !.c.listing = TRUE])
                ELSE [streamed EXCEPT !.work = @ \cup
                  {[id |-> id, key |-> OpenKey, items |-> OpenStream(ver), stage |-> "read", cancelled |-> FALSE]}])
  /\ UNCHANGED ver

CloseContent ==
  /\ content.open /\ Takes("closes")
  /\ ContentBecomes(ReviewClosed(Cached))
  /\ UNCHANGED ver

Scroll == \E render \in ToSet(content.files), row \in 0..2 :
  /\ Takes("views")
  /\ ContentBecomes(ShowViewport(Cached, render, row))
  /\ UNCHANGED ver

CloseOpenFile ==
  /\ content.openFile # NoRender /\ Takes("views")
  /\ LET s == PruneQueue([Cached EXCEPT !.c.openFile = NoRender, !.c.blind = FALSE],
                         {k \in QueuedKeys(Cached) : k.kind = "Chunk"})
     IN ContentBecomes(RetainReviewPins(s))
  /\ UNCHANGED ver

\* The host answers a load.  When the key is no longer marked as loading the
\* answer is dropped: something else filled it meanwhile, or an older stream
\* of the same header ended and took the mark away.
Stored ==
  /\ \E f \in content.loads :
     LET loading == f.key \in DOMAIN content.pending /\ content.pending[f.key] = "Loading"
         s == Unmark([Cached EXCEPT !.c.loads = @ \ {f}], f.key)
         forgotten == [s EXCEPT !.c.disk = Rest(@, f.key), !.kv = Restrict(@, DOMAIN @ \ {f.key})]
     IN ContentBecomes(IF ~loading THEN [s EXCEPT !.c.lost = @ \/ ~Resident(s.c, f.key)]
                ELSE IF f.key \notin DOMAIN kv THEN Enqueue(s, f)
                ELSE IF kv[f.key] = Absent THEN Enqueue(forgotten, f)
                ELSE Arrived(Touch(s, f.key), f.key, kv[f.key], "Disk"))
  /\ UNCHANGED <<ver, budget>>

\* The daemon looks a file up in the current version of the review.
RenderStarts == \E j \in work :
  /\ j.key.kind = "Header" /\ j.stage = "asked"
  /\ Listed(j.key.render.path, ver)
  /\ work' = (work \ {j}) \cup {[j EXCEPT !.stage = "read", !.items = StreamOf(j.key.render.path, ver)]}
  /\ UNCHANGED <<ver, kv, content, budget>>

FetchAnswer == \E j \in work :
  /\ \/ j.key.kind = "Tree" /\ ContentBecomes(TreeAnswer(Cached, j))
     \/ j.key.kind = "Chunk" /\ ContentBecomes(ChunkAnswer(Cached, j))
     \/ j.key.kind = "Header" /\ j.items # <<>> /\ ContentBecomes(RenderItem(Cached, j, Head(j.items)))
     \/ j.key.kind = "Header" /\ j.stage = "read" /\ (j.items = <<>> \/ j.cancelled) /\ ContentBecomes(RenderEnd(Cached, j))
     \/ j.key = OpenKey /\ j.items # <<>> /\ ContentBecomes(OpenItem(Cached, j))
     \/ j.key = OpenKey /\ j.items = <<>> /\ ContentBecomes(OpenEnd(Cached, j))
  /\ UNCHANGED <<ver, budget>>

\* NotFound when the file is gone, or any other error.
ContentError == \E j \in work :
  /\ j.key # OpenKey /\ j.stage = "asked"
  /\ \/ j.key.kind = "Header" /\ ~Listed(j.key.render.path, ver) /\ UNCHANGED budget
     \/ Takes("fails")
  /\ ContentBecomes(FetchFailed(Cached, j))
  /\ UNCHANGED ver

\* Queued fetches stay queued; nothing sends them after the next subscribe.
ConnectionLost ==
  /\ content.connected /\ Takes("drops")
  /\ LET keys == {w.key : w \in content.waiting}
     IN content' = [content EXCEPT
          !.connected = FALSE, !.wasDown = TRUE, !.waiting = {}, !.inFlight = 0, !.stream = Absent,
          !.pending = Restrict(@, DOMAIN @ \ keys),
          !.lost = @ \/ content.waiting # {} \/ content.queue # <<>> \/ content.stream # Absent
                     \/ content.listing,
          !.listing = FALSE]
  /\ work' = {}
  /\ UNCHANGED <<ver, kv>>

Reconnected ==
  /\ ~content.connected
  /\ content' = [content EXCEPT !.connected = TRUE]
  /\ UNCHANGED <<ver, work, kv, budget>>

CacheNext ==
  \/ CheckoutMoves \/ TargetsResolved \/ FilesListed \/ OpenContent \/ CloseContent
  \/ Scroll \/ CloseOpenFile \/ Stored \/ RenderStarts \/ FetchAnswer \/ ContentError
  \/ ConnectionLost \/ Reconnected

CacheSpec == CacheInit /\ [][CacheNext]_cacheVars

-----------------------------------------------------------------------------
(* Properties                                                              *)

\* A slot is taken exactly by the content requests that await an answer, never
\* more than the limit, and only a fetch that is under way is marked so: a
\* slot that leaks, or a mark that stays, would stop all loading.
SlotsExact ==
  /\ content.inFlight = Cardinality(content.waiting) /\ content.inFlight <= MaxInFlight
  /\ \A k \in DOMAIN content.pending :
       CASE content.pending[k] = "Requested" -> \E w \in content.waiting : w.key = k
         [] content.pending[k] = "Queued" -> k \in QueuedKeys(Cached)
         [] content.pending[k] = "Loading" -> \E f \in content.loads : f.key = k
  /\ content.connected /\ content.queue # <<>> => content.inFlight = MaxInFlight \/ content.lost

\* When nothing is under way and no answer was lost since the review was opened,
\* the tree of the review, the headers of its files and the chunks around the
\* viewport are all in memory, whatever was evicted, pruned, cancelled or fetched
\* twice.  A viewport set before the header of its file is not looked at again when
\* the header comes (blind): then only the file's first chunk is expected.
QuietIsComplete ==
  LET c == content
      quiet == c.open /\ c.connected /\ work = {} /\ c.loads = {} /\ ~c.listing /\ ~c.lost
  IN quiet =>
       /\ Resident(c, TreeKey(c.committed))
       /\ \A r \in ToSet(c.files) : Resident(c, HeaderKey(r))
       /\ c.openFile # NoRender =>
            \A n \in (IF c.blind THEN {0} \cap Window(c.openFile, 0) ELSE Window(c.openFile, c.row)) :
              Resident(c, ChunkKey(c.openFile, n))

=============================================================================
