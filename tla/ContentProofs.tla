---------------------------- MODULE ContentProofs ----------------------------
(***************************************************************************)
(* Proofs about ContentCache, for any limit of the slots, any budget and   *)
(* any files: the slots are the requests that wait for an answer, every    *)
(* mark of the cache says where its fetch is, and nothing is left queued   *)
(* beside a free slot.                                                     *)
(***************************************************************************)
EXTENDS ContentCache, FiniteSetTheorems, SequenceTheorems, WellFoundedInduction, TLAPS

-----------------------------------------------------------------------------
(* Positions.                                                              *)

\* Induction over the naturals, said of a set.
LEMMA NaturalsByStep ==
  ASSUME NEW T, 0 \in T, \A n \in Nat : n \in T => n + 1 \in T
  PROVE  Nat \subseteq T
<1> SUFFICES ASSUME Nat \ T # {} PROVE FALSE
  OBVIOUS
<1>1. PICK x \in Nat \ T : \A y \in Nat \ T : ~ (<<y, x>> \in OpToRel(<, Nat))
  BY NatLessThanWellFounded, WFMin
<1>2. x # 0 /\ x - 1 \in Nat
  OBVIOUS
<1>3. <<x - 1, x>> \in OpToRel(<, Nat)
  BY <1>2 DEF OpToRel
<1>4. x - 1 \in T
  BY <1>1, <1>2, <1>3
<1>5. x - 1 + 1 \in T
  BY <1>2, <1>4
<1>6. QED
  BY <1>2, <1>5

\* Positions have a last one.
LEMMA LastPosition ==
  ASSUME NEW n \in Nat, NEW s \in SUBSET (1 .. n), s # {}
  PROVE  Max(s) \in s /\ \A i \in s : i <= Max(s)
<1> DEFINE T == {k \in Nat : \A t \in SUBSET (1 .. k) : t # {} => \E x \in t : \A y \in t : x >= y}
<1>1. 0 \in T
  <2>1. \A t \in SUBSET (1 .. 0) : t = {}
    OBVIOUS
  <2>2. QED
    BY <2>1
<1>2. ASSUME NEW k \in Nat, k \in T PROVE k + 1 \in T
  <2> SUFFICES ASSUME NEW t \in SUBSET (1 .. (k + 1)), t # {}
               PROVE  \E x \in t : \A y \in t : x >= y
    OBVIOUS
  <2>1. CASE k + 1 \in t
    BY <2>1
  <2>2. CASE k + 1 \notin t
    <3>1. t \in SUBSET (1 .. k)
      BY <2>2
    <3>2. QED
      BY <1>2, <3>1
  <2>3. QED
    BY <2>1, <2>2
<1>3. n \in T
  <2> HIDE DEF T
  <2>1. QED
    BY <1>1, <1>2, NaturalsByStep
<1>4. \E x \in s : \A y \in s : x >= y
  BY <1>3
<1>5. QED
  BY <1>4 DEF Max

\* The last of the first positions.
LEMMA LastOfFirst ==
  ASSUME NEW n \in Nat
  PROVE  /\ Max(1 .. (n + 1)) = n + 1
         /\ (1 .. (n + 1)) \ {n + 1} = 1 .. n
         /\ \A s \in SUBSET (1 .. (n + 1)) :
              s \notin SUBSET (1 .. n) => Max(s) = n + 1 /\ s # {} /\ s \ {Max(s)} \in SUBSET (1 .. n)
<1>1. ASSUME NEW s \in SUBSET (1 .. (n + 1)), n + 1 \in s
      PROVE  Max(s) = n + 1
  <2>1. n + 1 \in Nat /\ s # {}
    BY <1>1
  <2>2. Max(s) \in s /\ \A i \in s : i <= Max(s)
    BY <2>1, LastPosition
  <2>3. Max(s) \in 1 .. (n + 1) /\ n + 1 <= Max(s)
    BY <1>1, <2>2
  <2>4. QED
    BY <2>3
<1>2. Max(1 .. (n + 1)) = n + 1
  BY <1>1
<1>3. (1 .. (n + 1)) \ {n + 1} = 1 .. n
  OBVIOUS
<1>4. ASSUME NEW s \in SUBSET (1 .. (n + 1)), s \notin SUBSET (1 .. n)
      PROVE  Max(s) = n + 1 /\ s # {} /\ s \ {Max(s)} \in SUBSET (1 .. n)
  <2>1. n + 1 \in s
    BY <1>3, <1>4
  <2>2. Max(s) = n + 1
    BY <1>1, <2>1
  <2>3. QED
    BY <1>3, <2>1, <2>2
<1>5. QED
  BY <1>2, <1>3, <1>4

-----------------------------------------------------------------------------
(* The content of a review: the folds.                                     *)

\* The equation of the queue after the first n fetches of the one that is pruned.
PruneFold(g, s0, steps, n) ==
  g = [s \in SUBSET (1 .. n) |-> IF s = {} THEN s0 ELSE Keep(g[s \ {Max(s)}], steps[Max(s)])]

\* That equation has a solution, whatever is queued.
LEMMA PruneFoldExists ==
  ASSUME NEW s0, NEW steps, NEW n \in Nat
  PROVE  \E g : PruneFold(g, s0, steps, n)
<1> DEFINE Body(g, s) == IF s = {} THEN s0 ELSE Keep(g[s \ {Max(s)}], steps[Max(s)])
           T == {k \in Nat : \E g : PruneFold(g, s0, steps, k)}
<1>1. 0 \in T
  <2> DEFINE f == [s \in SUBSET (1 .. 0) |-> s0]
  <2>1. f = [s \in SUBSET (1 .. 0) |-> Body(f, s)]
    OBVIOUS
  <2>2. PruneFold(f, s0, steps, 0)
    BY <2>1 DEF PruneFold
  <2>3. QED
    BY <2>2
<1>2. ASSUME NEW k \in Nat, k \in T PROVE k + 1 \in T
  <2>0. PICK g : PruneFold(g, s0, steps, k)
    BY <1>2
  <2>1. g = [s \in SUBSET (1 .. k) |-> Body(g, s)]
    BY <2>0 DEF PruneFold
  <2> DEFINE f == [s \in SUBSET (1 .. (k + 1)) |-> IF s \in SUBSET (1 .. k) THEN g[s] ELSE Body(g, s)]
  <2>2. ASSUME NEW s \in SUBSET (1 .. (k + 1)) PROVE f[s] = Body(f, s)
    <3>1. CASE s \in SUBSET (1 .. k) /\ s # {}
      <4>1. Max(s) \in s /\ s \ {Max(s)} \in SUBSET (1 .. k) /\ s \ {Max(s)} \in SUBSET (1 .. (k + 1))
        BY <3>1, LastPosition
      <4>2. f[s \ {Max(s)}] = g[s \ {Max(s)}] /\ f[s] = g[s]
        BY <3>1, <4>1
      <4>3. QED
        BY <2>1, <3>1, <4>2
    <3>2. CASE s = {}
      BY <2>1, <3>2
    <3>3. CASE s \notin SUBSET (1 .. k)
      <4>1. s # {} /\ s \ {Max(s)} \in SUBSET (1 .. k) /\ s \ {Max(s)} \in SUBSET (1 .. (k + 1))
        BY <3>3, LastOfFirst
      <4>2. f[s \ {Max(s)}] = g[s \ {Max(s)}] /\ f[s] = Body(g, s)
        BY <3>3, <4>1
      <4>3. QED
        BY <4>1, <4>2
    <3>4. QED
      BY <3>1, <3>2, <3>3
  <2>3. f = [s \in SUBSET (1 .. (k + 1)) |-> Body(f, s)]
    <3>1. f = [s \in SUBSET (1 .. (k + 1)) |-> f[s]]
      OBVIOUS
    <3> HIDE DEF f, Body
    <3>2. QED
      BY <2>2, <3>1
  <2>4. PruneFold(f, s0, steps, k + 1)
    BY <2>3 DEF PruneFold
  <2>5. QED
    <3> HIDE DEF f
    <3>1. QED
      BY <2>4
<1>3. n \in T
  <2> HIDE DEF T
  <2>1. QED
    BY <1>1, <1>2, NaturalsByStep
<1>4. QED
  BY <1>3

\* The queue after each fetch is kept or dropped.
PruneFoldOn(h, s0, steps) ==
  /\ h[0] = s0
  /\ \A n \in 0 .. (Len(steps) - 1) : h[n + 1] = Keep(h[n], steps[n + 1])

\* A queue is pruned one fetch after the other.
LEMMA PruneFoldFollows ==
  ASSUME NEW s0, NEW steps, Len(steps) \in Nat, DOMAIN steps = 1 .. Len(steps)
  PROVE  \E h : PruneFoldOn(h, s0, steps) /\ FoldLeft(Keep, s0, steps) = h[Len(steps)]
<1> DEFINE D == 1 .. Len(steps)
           Body(g, s) == IF s = {} THEN s0 ELSE Keep(g[s \ {Max(s)}], steps[Max(s)])
           it == CHOOSE g : g = [s \in SUBSET DOMAIN steps |-> Body(g, s)]
<1>1. FoldLeft(Keep, s0, steps) = it[1 .. Len(steps)]
  BY DEF FoldLeft, MapThenFoldSet
<1> HIDE DEF it
<1>2. \E g : g = [s \in SUBSET D |-> Body(g, s)]
  <2>1. PICK g : PruneFold(g, s0, steps, Len(steps))
    BY PruneFoldExists
  <2>2. g = [s \in SUBSET D |-> Body(g, s)]
    BY <2>1 DEF PruneFold
  <2>3. QED
    BY <2>2
<1>3. it = [s \in SUBSET D |-> Body(it, s)]
  <2> HIDE DEF Body
  <2>1. QED
    BY <1>2 DEF it
<1> DEFINE h == [n \in 0 .. Len(steps) |-> it[1 .. n]]
<1>7. h[0] = s0
  <2>1. 1 .. 0 = {} /\ {} \in SUBSET D /\ 0 \in 0 .. Len(steps)
    OBVIOUS
  <2>2. it[{}] = s0
    BY <1>3, <2>1
  <2>3. QED
    BY <2>1, <2>2
<1>8. ASSUME NEW n \in 0 .. (Len(steps) - 1) PROVE h[n + 1] = Keep(h[n], steps[n + 1])
  <2>1. n \in Nat /\ n \in 0 .. Len(steps) /\ n + 1 \in 0 .. Len(steps) /\ 1 .. (n + 1) \in SUBSET D /\ 1 .. (n + 1) # {}
    <3>1. n \in Nat /\ n + 1 <= Len(steps)
      OBVIOUS
    <3>2. n + 1 \in 1 .. (n + 1)
      BY <3>1
    <3>3. 1 .. (n + 1) \subseteq 1 .. Len(steps)
      BY <3>1
    <3>4. QED
      BY <3>1, <3>2, <3>3
  <2>2. Max(1 .. (n + 1)) = n + 1 /\ (1 .. (n + 1)) \ {n + 1} = 1 .. n
    BY <2>1, LastOfFirst
  <2>3. it[1 .. (n + 1)] = Keep(it[1 .. n], steps[n + 1])
    BY <1>3, <2>1, <2>2
  <2>4. QED
    BY <2>1, <2>3
<1>9. h[Len(steps)] = FoldLeft(Keep, s0, steps)
  <2>1. QED
    BY <1>1
<1>10. PruneFoldOn(h, s0, steps)
  <2> HIDE DEF h
  <2>1. QED
    BY <1>7, <1>8 DEF PruneFoldOn
<1>11. QED
  <2> HIDE DEF h
  <2>1. QED
    BY <1>9, <1>10

\* The equation of the client after the first n turns of the loop that sends.
SendFold(g, s0, steps, n) ==
  g = [s \in SUBSET (1 .. n) |-> IF s = {} THEN s0 ELSE SendNext(g[s \ {Max(s)}], steps[Max(s)])]

\* That equation has a solution, whatever is queued.
LEMMA SendFoldExists ==
  ASSUME NEW s0, NEW steps, NEW n \in Nat
  PROVE  \E g : SendFold(g, s0, steps, n)
<1> DEFINE Body(g, s) == IF s = {} THEN s0 ELSE SendNext(g[s \ {Max(s)}], steps[Max(s)])
           T == {k \in Nat : \E g : SendFold(g, s0, steps, k)}
<1>1. 0 \in T
  <2> DEFINE f == [s \in SUBSET (1 .. 0) |-> s0]
  <2>1. f = [s \in SUBSET (1 .. 0) |-> Body(f, s)]
    OBVIOUS
  <2>2. SendFold(f, s0, steps, 0)
    BY <2>1 DEF SendFold
  <2>3. QED
    BY <2>2
<1>2. ASSUME NEW k \in Nat, k \in T PROVE k + 1 \in T
  <2>0. PICK g : SendFold(g, s0, steps, k)
    BY <1>2
  <2>1. g = [s \in SUBSET (1 .. k) |-> Body(g, s)]
    BY <2>0 DEF SendFold
  <2> DEFINE f == [s \in SUBSET (1 .. (k + 1)) |-> IF s \in SUBSET (1 .. k) THEN g[s] ELSE Body(g, s)]
  <2>2. ASSUME NEW s \in SUBSET (1 .. (k + 1)) PROVE f[s] = Body(f, s)
    <3>1. CASE s \in SUBSET (1 .. k) /\ s # {}
      <4>1. Max(s) \in s /\ s \ {Max(s)} \in SUBSET (1 .. k) /\ s \ {Max(s)} \in SUBSET (1 .. (k + 1))
        BY <3>1, LastPosition
      <4>2. f[s \ {Max(s)}] = g[s \ {Max(s)}] /\ f[s] = g[s]
        BY <3>1, <4>1
      <4>3. QED
        BY <2>1, <3>1, <4>2
    <3>2. CASE s = {}
      BY <2>1, <3>2
    <3>3. CASE s \notin SUBSET (1 .. k)
      <4>1. s # {} /\ s \ {Max(s)} \in SUBSET (1 .. k) /\ s \ {Max(s)} \in SUBSET (1 .. (k + 1))
        BY <3>3, LastOfFirst
      <4>2. f[s \ {Max(s)}] = g[s \ {Max(s)}] /\ f[s] = Body(g, s)
        BY <3>3, <4>1
      <4>3. QED
        BY <4>1, <4>2
    <3>4. QED
      BY <3>1, <3>2, <3>3
  <2>3. f = [s \in SUBSET (1 .. (k + 1)) |-> Body(f, s)]
    <3>1. f = [s \in SUBSET (1 .. (k + 1)) |-> f[s]]
      OBVIOUS
    <3> HIDE DEF f, Body
    <3>2. QED
      BY <2>2, <3>1
  <2>4. SendFold(f, s0, steps, k + 1)
    BY <2>3 DEF SendFold
  <2>5. QED
    <3> HIDE DEF f
    <3>1. QED
      BY <2>4
<1>3. n \in T
  <2> HIDE DEF T
  <2>1. QED
    BY <1>1, <1>2, NaturalsByStep
<1>4. QED
  BY <1>3

\* The client after each turn of the loop.
SendFoldOn(h, s0, steps) ==
  /\ h[0] = s0
  /\ \A n \in 0 .. (Len(steps) - 1) : h[n + 1] = SendNext(h[n], steps[n + 1])

\* Queued fetches are sent one turn after the other.
LEMMA SendFoldFollows ==
  ASSUME NEW s0, NEW steps, Len(steps) \in Nat, DOMAIN steps = 1 .. Len(steps)
  PROVE  \E h : SendFoldOn(h, s0, steps) /\ FoldLeft(SendNext, s0, steps) = h[Len(steps)]
<1> DEFINE D == 1 .. Len(steps)
           Body(g, s) == IF s = {} THEN s0 ELSE SendNext(g[s \ {Max(s)}], steps[Max(s)])
           it == CHOOSE g : g = [s \in SUBSET DOMAIN steps |-> Body(g, s)]
<1>1. FoldLeft(SendNext, s0, steps) = it[1 .. Len(steps)]
  BY DEF FoldLeft, MapThenFoldSet
<1> HIDE DEF it
<1>2. \E g : g = [s \in SUBSET D |-> Body(g, s)]
  <2>1. PICK g : SendFold(g, s0, steps, Len(steps))
    BY SendFoldExists
  <2>2. g = [s \in SUBSET D |-> Body(g, s)]
    BY <2>1 DEF SendFold
  <2>3. QED
    BY <2>2
<1>3. it = [s \in SUBSET D |-> Body(it, s)]
  <2> HIDE DEF Body
  <2>1. QED
    BY <1>2 DEF it
<1> DEFINE h == [n \in 0 .. Len(steps) |-> it[1 .. n]]
<1>7. h[0] = s0
  <2>1. 1 .. 0 = {} /\ {} \in SUBSET D /\ 0 \in 0 .. Len(steps)
    OBVIOUS
  <2>2. it[{}] = s0
    BY <1>3, <2>1
  <2>3. QED
    BY <2>1, <2>2
<1>8. ASSUME NEW n \in 0 .. (Len(steps) - 1) PROVE h[n + 1] = SendNext(h[n], steps[n + 1])
  <2>1. n \in Nat /\ n \in 0 .. Len(steps) /\ n + 1 \in 0 .. Len(steps) /\ 1 .. (n + 1) \in SUBSET D /\ 1 .. (n + 1) # {}
    <3>1. n \in Nat /\ n + 1 <= Len(steps)
      OBVIOUS
    <3>2. n + 1 \in 1 .. (n + 1)
      BY <3>1
    <3>3. 1 .. (n + 1) \subseteq 1 .. Len(steps)
      BY <3>1
    <3>4. QED
      BY <3>1, <3>2, <3>3
  <2>2. Max(1 .. (n + 1)) = n + 1 /\ (1 .. (n + 1)) \ {n + 1} = 1 .. n
    BY <2>1, LastOfFirst
  <2>3. it[1 .. (n + 1)] = SendNext(it[1 .. n], steps[n + 1])
    BY <1>3, <2>1, <2>2
  <2>4. QED
    BY <2>1, <2>3
<1>9. h[Len(steps)] = FoldLeft(SendNext, s0, steps)
  <2>1. QED
    BY <1>1
<1>10. SendFoldOn(h, s0, steps)
  <2> HIDE DEF h
  <2>1. QED
    BY <1>7, <1>8 DEF SendFoldOn
<1>11. QED
  <2> HIDE DEF h
  <2>1. QED
    BY <1>9, <1>10

\* The equation of the client after the first n chunks around the viewport.
NearFold(g, s0, steps, n) ==
  g = [s \in SUBSET (1 .. n) |-> IF s = {} THEN s0 ELSE WantNear(g[s \ {Max(s)}], steps[Max(s)])]

\* That equation has a solution, whatever is shown.
LEMMA NearFoldExists ==
  ASSUME NEW s0, NEW steps, NEW n \in Nat
  PROVE  \E g : NearFold(g, s0, steps, n)
<1> DEFINE Body(g, s) == IF s = {} THEN s0 ELSE WantNear(g[s \ {Max(s)}], steps[Max(s)])
           T == {k \in Nat : \E g : NearFold(g, s0, steps, k)}
<1>1. 0 \in T
  <2> DEFINE f == [s \in SUBSET (1 .. 0) |-> s0]
  <2>1. f = [s \in SUBSET (1 .. 0) |-> Body(f, s)]
    OBVIOUS
  <2>2. NearFold(f, s0, steps, 0)
    BY <2>1 DEF NearFold
  <2>3. QED
    BY <2>2
<1>2. ASSUME NEW k \in Nat, k \in T PROVE k + 1 \in T
  <2>0. PICK g : NearFold(g, s0, steps, k)
    BY <1>2
  <2>1. g = [s \in SUBSET (1 .. k) |-> Body(g, s)]
    BY <2>0 DEF NearFold
  <2> DEFINE f == [s \in SUBSET (1 .. (k + 1)) |-> IF s \in SUBSET (1 .. k) THEN g[s] ELSE Body(g, s)]
  <2>2. ASSUME NEW s \in SUBSET (1 .. (k + 1)) PROVE f[s] = Body(f, s)
    <3>1. CASE s \in SUBSET (1 .. k) /\ s # {}
      <4>1. Max(s) \in s /\ s \ {Max(s)} \in SUBSET (1 .. k) /\ s \ {Max(s)} \in SUBSET (1 .. (k + 1))
        BY <3>1, LastPosition
      <4>2. f[s \ {Max(s)}] = g[s \ {Max(s)}] /\ f[s] = g[s]
        BY <3>1, <4>1
      <4>3. QED
        BY <2>1, <3>1, <4>2
    <3>2. CASE s = {}
      BY <2>1, <3>2
    <3>3. CASE s \notin SUBSET (1 .. k)
      <4>1. s # {} /\ s \ {Max(s)} \in SUBSET (1 .. k) /\ s \ {Max(s)} \in SUBSET (1 .. (k + 1))
        BY <3>3, LastOfFirst
      <4>2. f[s \ {Max(s)}] = g[s \ {Max(s)}] /\ f[s] = Body(g, s)
        BY <3>3, <4>1
      <4>3. QED
        BY <4>1, <4>2
    <3>4. QED
      BY <3>1, <3>2, <3>3
  <2>3. f = [s \in SUBSET (1 .. (k + 1)) |-> Body(f, s)]
    <3>1. f = [s \in SUBSET (1 .. (k + 1)) |-> f[s]]
      OBVIOUS
    <3> HIDE DEF f, Body
    <3>2. QED
      BY <2>2, <3>1
  <2>4. NearFold(f, s0, steps, k + 1)
    BY <2>3 DEF NearFold
  <2>5. QED
    <3> HIDE DEF f
    <3>1. QED
      BY <2>4
<1>3. n \in T
  <2> HIDE DEF T
  <2>1. QED
    BY <1>1, <1>2, NaturalsByStep
<1>4. QED
  BY <1>3

\* The client after each chunk around the viewport.
NearFoldOn(h, s0, steps) ==
  /\ h[0] = s0
  /\ \A n \in 0 .. (Len(steps) - 1) : h[n + 1] = WantNear(h[n], steps[n + 1])

\* The chunks around the viewport are wanted one after the other.
LEMMA NearFoldFollows ==
  ASSUME NEW s0, NEW steps, Len(steps) \in Nat, DOMAIN steps = 1 .. Len(steps)
  PROVE  \E h : NearFoldOn(h, s0, steps) /\ FoldLeft(WantNear, s0, steps) = h[Len(steps)]
<1> DEFINE D == 1 .. Len(steps)
           Body(g, s) == IF s = {} THEN s0 ELSE WantNear(g[s \ {Max(s)}], steps[Max(s)])
           it == CHOOSE g : g = [s \in SUBSET DOMAIN steps |-> Body(g, s)]
<1>1. FoldLeft(WantNear, s0, steps) = it[1 .. Len(steps)]
  BY DEF FoldLeft, MapThenFoldSet
<1> HIDE DEF it
<1>2. \E g : g = [s \in SUBSET D |-> Body(g, s)]
  <2>1. PICK g : NearFold(g, s0, steps, Len(steps))
    BY NearFoldExists
  <2>2. g = [s \in SUBSET D |-> Body(g, s)]
    BY <2>1 DEF NearFold
  <2>3. QED
    BY <2>2
<1>3. it = [s \in SUBSET D |-> Body(it, s)]
  <2> HIDE DEF Body
  <2>1. QED
    BY <1>2 DEF it
<1> DEFINE h == [n \in 0 .. Len(steps) |-> it[1 .. n]]
<1>7. h[0] = s0
  <2>1. 1 .. 0 = {} /\ {} \in SUBSET D /\ 0 \in 0 .. Len(steps)
    OBVIOUS
  <2>2. it[{}] = s0
    BY <1>3, <2>1
  <2>3. QED
    BY <2>1, <2>2
<1>8. ASSUME NEW n \in 0 .. (Len(steps) - 1) PROVE h[n + 1] = WantNear(h[n], steps[n + 1])
  <2>1. n \in Nat /\ n \in 0 .. Len(steps) /\ n + 1 \in 0 .. Len(steps) /\ 1 .. (n + 1) \in SUBSET D /\ 1 .. (n + 1) # {}
    <3>1. n \in Nat /\ n + 1 <= Len(steps)
      OBVIOUS
    <3>2. n + 1 \in 1 .. (n + 1)
      BY <3>1
    <3>3. 1 .. (n + 1) \subseteq 1 .. Len(steps)
      BY <3>1
    <3>4. QED
      BY <3>1, <3>2, <3>3
  <2>2. Max(1 .. (n + 1)) = n + 1 /\ (1 .. (n + 1)) \ {n + 1} = 1 .. n
    BY <2>1, LastOfFirst
  <2>3. it[1 .. (n + 1)] = WantNear(it[1 .. n], steps[n + 1])
    BY <1>3, <2>1, <2>2
  <2>4. QED
    BY <2>1, <2>3
<1>9. h[Len(steps)] = FoldLeft(WantNear, s0, steps)
  <2>1. QED
    BY <1>1
<1>10. NearFoldOn(h, s0, steps)
  <2> HIDE DEF h
  <2>1. QED
    BY <1>7, <1>8 DEF NearFoldOn
<1>11. QED
  <2> HIDE DEF h
  <2>1. QED
    BY <1>9, <1>10

\* The equation of the client after the first n files of a list.
FilesFold(g, s0, steps, n) ==
  g = [s \in SUBSET (1 .. n) |-> IF s = {} THEN s0 ELSE WantFile(g[s \ {Max(s)}], steps[Max(s)])]

\* That equation has a solution, whatever is listed.
LEMMA FilesFoldExists ==
  ASSUME NEW s0, NEW steps, NEW n \in Nat
  PROVE  \E g : FilesFold(g, s0, steps, n)
<1> DEFINE Body(g, s) == IF s = {} THEN s0 ELSE WantFile(g[s \ {Max(s)}], steps[Max(s)])
           T == {k \in Nat : \E g : FilesFold(g, s0, steps, k)}
<1>1. 0 \in T
  <2> DEFINE f == [s \in SUBSET (1 .. 0) |-> s0]
  <2>1. f = [s \in SUBSET (1 .. 0) |-> Body(f, s)]
    OBVIOUS
  <2>2. FilesFold(f, s0, steps, 0)
    BY <2>1 DEF FilesFold
  <2>3. QED
    BY <2>2
<1>2. ASSUME NEW k \in Nat, k \in T PROVE k + 1 \in T
  <2>0. PICK g : FilesFold(g, s0, steps, k)
    BY <1>2
  <2>1. g = [s \in SUBSET (1 .. k) |-> Body(g, s)]
    BY <2>0 DEF FilesFold
  <2> DEFINE f == [s \in SUBSET (1 .. (k + 1)) |-> IF s \in SUBSET (1 .. k) THEN g[s] ELSE Body(g, s)]
  <2>2. ASSUME NEW s \in SUBSET (1 .. (k + 1)) PROVE f[s] = Body(f, s)
    <3>1. CASE s \in SUBSET (1 .. k) /\ s # {}
      <4>1. Max(s) \in s /\ s \ {Max(s)} \in SUBSET (1 .. k) /\ s \ {Max(s)} \in SUBSET (1 .. (k + 1))
        BY <3>1, LastPosition
      <4>2. f[s \ {Max(s)}] = g[s \ {Max(s)}] /\ f[s] = g[s]
        BY <3>1, <4>1
      <4>3. QED
        BY <2>1, <3>1, <4>2
    <3>2. CASE s = {}
      BY <2>1, <3>2
    <3>3. CASE s \notin SUBSET (1 .. k)
      <4>1. s # {} /\ s \ {Max(s)} \in SUBSET (1 .. k) /\ s \ {Max(s)} \in SUBSET (1 .. (k + 1))
        BY <3>3, LastOfFirst
      <4>2. f[s \ {Max(s)}] = g[s \ {Max(s)}] /\ f[s] = Body(g, s)
        BY <3>3, <4>1
      <4>3. QED
        BY <4>1, <4>2
    <3>4. QED
      BY <3>1, <3>2, <3>3
  <2>3. f = [s \in SUBSET (1 .. (k + 1)) |-> Body(f, s)]
    <3>1. f = [s \in SUBSET (1 .. (k + 1)) |-> f[s]]
      OBVIOUS
    <3> HIDE DEF f, Body
    <3>2. QED
      BY <2>2, <3>1
  <2>4. FilesFold(f, s0, steps, k + 1)
    BY <2>3 DEF FilesFold
  <2>5. QED
    <3> HIDE DEF f
    <3>1. QED
      BY <2>4
<1>3. n \in T
  <2> HIDE DEF T
  <2>1. QED
    BY <1>1, <1>2, NaturalsByStep
<1>4. QED
  BY <1>3

\* The client after each file of a list.
FilesFoldOn(h, s0, steps) ==
  /\ h[0] = s0
  /\ \A n \in 0 .. (Len(steps) - 1) : h[n + 1] = WantFile(h[n], steps[n + 1])

\* The files of a list are wanted one after the other.
LEMMA FilesFoldFollows ==
  ASSUME NEW s0, NEW steps, Len(steps) \in Nat, DOMAIN steps = 1 .. Len(steps)
  PROVE  \E h : FilesFoldOn(h, s0, steps) /\ FoldLeft(WantFile, s0, steps) = h[Len(steps)]
<1> DEFINE D == 1 .. Len(steps)
           Body(g, s) == IF s = {} THEN s0 ELSE WantFile(g[s \ {Max(s)}], steps[Max(s)])
           it == CHOOSE g : g = [s \in SUBSET DOMAIN steps |-> Body(g, s)]
<1>1. FoldLeft(WantFile, s0, steps) = it[1 .. Len(steps)]
  BY DEF FoldLeft, MapThenFoldSet
<1> HIDE DEF it
<1>2. \E g : g = [s \in SUBSET D |-> Body(g, s)]
  <2>1. PICK g : FilesFold(g, s0, steps, Len(steps))
    BY FilesFoldExists
  <2>2. g = [s \in SUBSET D |-> Body(g, s)]
    BY <2>1 DEF FilesFold
  <2>3. QED
    BY <2>2
<1>3. it = [s \in SUBSET D |-> Body(it, s)]
  <2> HIDE DEF Body
  <2>1. QED
    BY <1>2 DEF it
<1> DEFINE h == [n \in 0 .. Len(steps) |-> it[1 .. n]]
<1>7. h[0] = s0
  <2>1. 1 .. 0 = {} /\ {} \in SUBSET D /\ 0 \in 0 .. Len(steps)
    OBVIOUS
  <2>2. it[{}] = s0
    BY <1>3, <2>1
  <2>3. QED
    BY <2>1, <2>2
<1>8. ASSUME NEW n \in 0 .. (Len(steps) - 1) PROVE h[n + 1] = WantFile(h[n], steps[n + 1])
  <2>1. n \in Nat /\ n \in 0 .. Len(steps) /\ n + 1 \in 0 .. Len(steps) /\ 1 .. (n + 1) \in SUBSET D /\ 1 .. (n + 1) # {}
    <3>1. n \in Nat /\ n + 1 <= Len(steps)
      OBVIOUS
    <3>2. n + 1 \in 1 .. (n + 1)
      BY <3>1
    <3>3. 1 .. (n + 1) \subseteq 1 .. Len(steps)
      BY <3>1
    <3>4. QED
      BY <3>1, <3>2, <3>3
  <2>2. Max(1 .. (n + 1)) = n + 1 /\ (1 .. (n + 1)) \ {n + 1} = 1 .. n
    BY <2>1, LastOfFirst
  <2>3. it[1 .. (n + 1)] = WantFile(it[1 .. n], steps[n + 1])
    BY <1>3, <2>1, <2>2
  <2>4. QED
    BY <2>1, <2>3
<1>9. h[Len(steps)] = FoldLeft(WantFile, s0, steps)
  <2>1. QED
    BY <1>1
<1>10. FilesFoldOn(h, s0, steps)
  <2> HIDE DEF h
  <2>1. QED
    BY <1>7, <1>8 DEF FilesFoldOn
<1>11. QED
  <2> HIDE DEF h
  <2>1. QED
    BY <1>9, <1>10

-----------------------------------------------------------------------------
(* The content of a review: the inductive invariant.                       *)

CacheFields == {"mem", "pinned", "disk", "loads", "pending", "queue", "inFlight", "waiting", "connected", "lost",
                "blind", "wasDown", "open", "committed", "trees", "files", "openFile", "row", "listing", "stream"}
SlotFields == {"loads", "pending", "queue", "inFlight", "waiting"}

HasCache(c) == c = [f \in CacheFields |-> c[f]]
IsCached(s) == s = [c |-> s.c, work |-> s.work, kv |-> s.kv] /\ HasCache(s.c)
IsFetches(q) == \E T : q \in Seq(T)
KeysIn(q) == {q[i].key : i \in DOMAIN q}
LoadKeys(l) == {f.key : f \in l}
IsWork(j) == j = [id |-> j.id, key |-> j.key, items |-> j.items, stage |-> j.stage, cancelled |-> j.cancelled]

\* Each request of the daemon's has its entry among those that wait.
Owed(work0, waiting) ==
  \A j \in work0 : IsWork(j) /\ (j.key # OpenKey => \E w \in waiting : w.id = j.id /\ w.key = j.key)
OneEachId(waiting) == \A w, v \in waiting : w.id = v.id => w = v

\* Each mark says where its fetch is.
MarkHolds(how, k, c) ==
  \/ how = "Requested" /\ \E w \in c.waiting : w.key = k
  \/ how = "Queued" /\ k \in KeysIn(c.queue)
  \/ how = "Loading" /\ k \in LoadKeys(c.loads)
Marked(c) == \A k \in DOMAIN c.pending : MarkHolds(c.pending[k], k, c)

Counted(c) ==
  /\ IsFiniteSet(c.waiting) /\ c.inFlight = Cardinality(c.waiting) /\ c.inFlight <= MaxInFlight /\ c.inFlight \in Nat
  /\ OneEachId(c.waiting)

\* The slots of a client that may have one to give.
Slotted(s) ==
  /\ IsCached(s) /\ IsFiniteSet(s.work) /\ Owed(s.work, s.c.waiting)
  /\ IsFetches(s.c.queue)
  /\ Counted(s.c) /\ Marked(s.c)

\* And of one that has given them all.
Full(c) == c.queue # <<>> => c.inFlight = MaxInFlight \/ c.lost
Loaded(s) == Slotted(s) /\ Full(s.c)

CacheInv == Loaded(Cached) /\ ver \in DOMAIN ListedAt

\* A change beside the slots.
Beside(s, t) ==
  /\ t = [c |-> t.c, work |-> s.work, kv |-> t.kv] /\ HasCache(t.c)
  /\ \A f \in SlotFields : t.c[f] = s.c[f]
  /\ s.c.lost => t.c.lost

-----------------------------------------------------------------------------
(* The content of a review: queues.                                        *)

\* What is known of a list of fetches.
LEMMA FetchesAre ==
  ASSUME NEW q, IsFetches(q)
  PROVE  Len(q) \in Nat /\ DOMAIN q = 1 .. Len(q)
<1>1. PICK T : q \in Seq(T)
  BY DEF IsFetches
<1>2. QED
  BY <1>1

\* One more fetch.
LEMMA FetchesAppend ==
  ASSUME NEW q, NEW f, IsFetches(q)
  PROVE  /\ IsFetches(Append(q, f)) /\ KeysIn(Append(q, f)) = KeysIn(q) \cup {f.key}
         /\ Append(q, f) # <<>>
<1>1. PICK T : q \in Seq(T)
  BY DEF IsFetches
<1>2. q \in Seq(T \cup {f})
  <2>1. Len(q) \in Nat /\ q \in [1 .. Len(q) -> T]
    BY <1>1
  <2>2. q \in [1 .. Len(q) -> T \cup {f}]
    BY <2>1
  <2>3. q \in UNION {[1 .. n -> T \cup {f}] : n \in Nat}
    BY <2>1, <2>2
  <2>4. QED
    BY <2>3, SeqDef, Zenon
<1>3. Append(q, f) \in Seq(T \cup {f}) /\ Append(q, f) # <<>>
  <2> DEFINE U == T \cup {f}
  <2>1. q \in Seq(U) /\ f \in U
    BY <1>2
  <2> HIDE DEF U
  <2>2. Append(q, f) \in Seq(U) /\ Len(Append(q, f)) = Len(q) + 1 /\ Len(q) \in Nat
    BY <2>1
  <2>3. Append(q, f) # <<>>
    BY <2>2
  <2>4. QED
    BY <2>2, <2>3 DEF U
<1>4. /\ Len(q) \in Nat /\ DOMAIN q = 1 .. Len(q) /\ DOMAIN Append(q, f) = 1 .. (Len(q) + 1)
      /\ Append(q, f)[Len(q) + 1] = f /\ \A i \in 1 .. Len(q) : Append(q, f)[i] = q[i]
  BY <1>2
<1>5. KeysIn(Append(q, f)) = KeysIn(q) \cup {f.key}
  <2>1. ASSUME NEW k \in KeysIn(Append(q, f)) PROVE k \in KeysIn(q) \cup {f.key}
    <3>1. PICK i \in DOMAIN Append(q, f) : k = Append(q, f)[i].key
      BY DEF KeysIn
    <3>2. QED
      BY <1>4, <3>1 DEF KeysIn
  <2>2. f.key \in KeysIn(Append(q, f))
    BY <1>4 DEF KeysIn
  <2>3. ASSUME NEW k \in KeysIn(q) PROVE k \in KeysIn(Append(q, f))
    <3>1. PICK i \in DOMAIN q : k = q[i].key
      BY DEF KeysIn
    <3>2. i \in DOMAIN Append(q, f) /\ Append(q, f)[i].key = k
      BY <1>4, <3>1
    <3>3. QED
      BY <3>2 DEF KeysIn
  <2>4. QED
    BY <2>1, <2>2, <2>3
<1>6. QED
  BY <1>3, <1>5 DEF IsFetches

\* The first fetch leaves.
LEMMA FetchesTail ==
  ASSUME NEW q, IsFetches(q), q # <<>>
  PROVE  /\ IsFetches(Tail(q)) /\ KeysIn(q) = KeysIn(Tail(q)) \cup {Head(q).key}
<1>1. PICK T : q \in Seq(T)
  BY DEF IsFetches
<1>2. Tail(q) \in Seq(T)
  BY <1>1
<1>3. /\ Len(q) \in Nat /\ Len(q) >= 1 /\ DOMAIN q = 1 .. Len(q) /\ DOMAIN Tail(q) = 1 .. (Len(q) - 1)
      /\ Head(q) = q[1] /\ \A i \in 1 .. (Len(q) - 1) : Tail(q)[i] = q[i + 1]
  BY <1>1
<1>4. ASSUME NEW k \in KeysIn(q) PROVE k \in KeysIn(Tail(q)) \cup {Head(q).key}
  <2>1. PICK i \in DOMAIN q : k = q[i].key
    BY DEF KeysIn
  <2>2. CASE i = 1
    BY <1>3, <2>1, <2>2
  <2>3. CASE i # 1
    <3>1. i - 1 \in DOMAIN Tail(q) /\ Tail(q)[i - 1] = q[i - 1 + 1] /\ i - 1 + 1 = i
      BY <1>3, <2>1, <2>3
    <3>2. Tail(q)[i - 1].key = k
      BY <2>1, <3>1
    <3>3. QED
      BY <3>1, <3>2 DEF KeysIn
  <2>4. QED
    BY <2>2, <2>3
<1>5. ASSUME NEW k \in KeysIn(Tail(q)) PROVE k \in KeysIn(q)
  <2>1. PICK i \in DOMAIN Tail(q) : k = Tail(q)[i].key
    BY DEF KeysIn
  <2>2. i + 1 \in DOMAIN q /\ q[i + 1].key = k
    BY <1>3, <2>1
  <2>3. QED
    BY <2>2 DEF KeysIn
<1>6. Head(q).key \in KeysIn(q)
  <2>1. 1 \in DOMAIN q
    BY <1>3
  <2>2. QED
    BY <1>3, <2>1 DEF KeysIn
<1>7. KeysIn(q) = KeysIn(Tail(q)) \cup {Head(q).key}
  BY <1>4, <1>5, <1>6
<1>8. QED
  BY <1>2, <1>7 DEF IsFetches

\* What a change beside the slots keeps.
LEMMA BesideSlotted ==
  ASSUME NEW s, NEW t, Slotted(s), Beside(s, t)
  PROVE  Slotted(t) /\ (Full(s.c) => Full(t.c))
<1>1. /\ t.c.loads = s.c.loads /\ t.c.pending = s.c.pending /\ t.c.queue = s.c.queue /\ t.c.inFlight = s.c.inFlight
      /\ t.c.waiting = s.c.waiting /\ t.work = s.work /\ IsCached(t)
  BY DEF Beside, SlotFields, IsCached
<1>2. Counted(t.c)
  BY <1>1 DEF Slotted, Counted
<1>3. Marked(t.c)
  <2>1. Marked(s.c)
    BY DEF Slotted
  <2>2. QED
    BY <1>1, <2>1 DEF Marked, MarkHolds
<1>4. Full(s.c) => Full(t.c)
  BY <1>1 DEF Full, Beside
<1>5. QED
  BY <1>1, <1>2, <1>3, <1>4 DEF Slotted

\* Two such changes are one.
LEMMA BesideTwice ==
  ASSUME NEW s, NEW t, NEW u, Beside(s, t), Beside(t, u)
  PROVE  Beside(s, u)
<1>1. u.work = t.work /\ t.work = s.work
  BY DEF Beside
<1>2. u = [c |-> u.c, work |-> u.work, kv |-> u.kv]
  BY DEF Beside
<1>3. QED
  BY <1>1, <1>2 DEF Beside

\* And none is one.
LEMMA BesideSame ==
  ASSUME NEW s, IsCached(s)
  PROVE  Beside(s, s)
  BY DEF Beside, IsCached

\* A client with one field of its cache changed.
LEMMA CacheSet ==
  ASSUME NEW c, HasCache(c), NEW f \in CacheFields, NEW v
  PROVE  /\ HasCache([c EXCEPT ![f] = v]) /\ [c EXCEPT ![f] = v][f] = v
         /\ \A g \in CacheFields : g # f => [c EXCEPT ![f] = v][g] = c[g]
<1>1. DOMAIN c = CacheFields
  BY DEF HasCache
<1>2. QED
  BY <1>1 DEF HasCache

\* Setting a field that is not a slot's is such a change.
LEMMA BesideSet ==
  ASSUME NEW s, IsCached(s), NEW f \in CacheFields \ (SlotFields \cup {"lost"}), NEW v
  PROVE  /\ [s EXCEPT !.c[f] = v] = [c |-> [s.c EXCEPT ![f] = v], work |-> s.work, kv |-> s.kv]
         /\ Beside(s, [s EXCEPT !.c[f] = v])
<1> DEFINE d == [s.c EXCEPT ![f] = v]
<1>1. [s EXCEPT !.c[f] = v] = [c |-> d, work |-> s.work, kv |-> s.kv]
  BY DEF IsCached
<1>2. HasCache(d) /\ \A g \in CacheFields : g # f => d[g] = s.c[g]
  BY CacheSet DEF IsCached
<1>3. SlotFields \subseteq CacheFields /\ "lost" \in CacheFields
  BY DEF SlotFields, CacheFields
<1>4. d.lost = s.c.lost /\ \A g \in SlotFields : d[g] = s.c[g]
  BY <1>2, <1>3
<1> HIDE DEF d
<1>5. QED
  BY <1>1, <1>2, <1>4 DEF Beside

\* And so is a change of the host's store.
LEMMA BesideStore ==
  ASSUME NEW s, IsCached(s), NEW v
  PROVE  Beside(s, [s EXCEPT !.kv = v])
<1>1. [s EXCEPT !.kv = v] = [c |-> s.c, work |-> s.work, kv |-> v]
  BY DEF IsCached
<1>2. QED
  BY <1>1 DEF Beside, IsCached

\* A client after such a change is still one.
LEMMA BesideCached ==
  ASSUME NEW s, NEW t, Beside(s, t)
  PROVE  IsCached(t)
  BY DEF Beside, IsCached

-----------------------------------------------------------------------------
(* The content of a review: the two tiers.                                 *)

\* The disk tier in front of the host's store.
LEMMA TouchBeside ==
  ASSUME NEW s, IsCached(s), NEW key
  PROVE  Beside(s, Touch(s, key))
<1> DEFINE a == [s EXCEPT !.c.disk = Touched(s.c.disk, key)]
           gone == ToSet(s.c.disk) \ ToSet(Touched(s.c.disk, key))
           b == [k \in DOMAIN s.kv \ (gone \ {key}) |-> s.kv[k]]
<1>1. Beside(s, a) /\ a.kv = s.kv
  <2>1. "disk" \in CacheFields \ (SlotFields \cup {"lost"})
    BY DEF CacheFields, SlotFields
  <2>2. QED
    BY <2>1, BesideSet DEF IsCached
<1>2. Touch(s, key) = [a EXCEPT !.kv = b]
  BY DEF Touch, Promote
<1> HIDE DEF a, b
<1>3. Beside(a, [a EXCEPT !.kv = b])
  BY <1>1, BesideCached, BesideStore
<1>4. QED
  BY <1>1, <1>2, <1>3, BesideTwice

\* A value that is written.
LEMMA PersistBeside ==
  ASSUME NEW s, IsCached(s), NEW key, NEW val
  PROVE  Beside(s, Persist(s, key, val))
<1>1. CASE ~HasDisk
  BY <1>1, BesideSame DEF Persist
<1>2. CASE HasDisk
  <2> DEFINE t == Touch(s, key)
  <2>1. Beside(s, t)
    BY TouchBeside
  <2>2. Persist(s, key, val) = [t EXCEPT !.kv = Put(t.kv, key, val)]
    BY <1>2 DEF Persist
  <2> HIDE DEF t
  <2>3. Beside(t, [t EXCEPT !.kv = Put(t.kv, key, val)])
    BY <2>1, BesideCached, BesideStore
  <2>4. QED
    BY <2>1, <2>2, <2>3, BesideTwice
<1>3. QED
  BY <1>1, <1>2

\* Values that are evicted.
LEMMA WriteBeside ==
  ASSUME NEW s, IsCached(s), NEW evicted
  PROVE  Beside(s, WriteThrough(s, evicted))
<1>1. CASE ~HasDisk
  BY <1>1, BesideSame DEF WriteThrough
<1>2. CASE HasDisk
  <2> DEFINE t == FoldLeft(WriteOne, s, evicted)
             a == [s EXCEPT !.c.disk = t.c.disk]
  <2>1. WriteThrough(s, evicted) = [s EXCEPT !.c.disk = t.c.disk, !.kv = t.kv]
    BY <1>2 DEF WriteThrough, DiskOf
  <2> HIDE DEF t
  <2>2. WriteThrough(s, evicted) = [a EXCEPT !.kv = t.kv]
    BY <2>1
  <2>3. Beside(s, a)
    <3>1. "disk" \in CacheFields \ (SlotFields \cup {"lost"})
      BY DEF CacheFields, SlotFields
    <3>2. QED
      BY <3>1, BesideSet
  <2> HIDE DEF a
  <2>4. Beside(a, [a EXCEPT !.kv = t.kv])
    BY <2>3, BesideCached, BesideStore
  <2>5. QED
    BY <2>2, <2>3, <2>4, BesideTwice
<1>3. QED
  BY <1>1, <1>2

\* The memory tier.
LEMMA TrimBeside ==
  ASSUME NEW s, IsCached(s)
  PROVE  Beside(s, Trim(s))
<1>1. PICK mem, out : Trim(s) = WriteThrough([s EXCEPT !.c.mem = mem], out)
  BY DEF Trim
<1> DEFINE a == [s EXCEPT !.c.mem = mem]
<1>2. Beside(s, a)
  <2>1. "mem" \in CacheFields \ (SlotFields \cup {"lost"})
    BY DEF CacheFields, SlotFields
  <2>2. QED
    BY <2>1, BesideSet
<1>3. Trim(s) = WriteThrough(a, out)
  BY <1>1
<1> HIDE DEF a
<1>4. Beside(a, WriteThrough(a, out))
  BY <1>2, BesideCached, WriteBeside
<1>5. QED
  BY <1>2, <1>3, <1>4, BesideTwice

\* A value that is inserted.
LEMMA InsertBeside ==
  ASSUME NEW s, IsCached(s), NEW key, NEW val
  PROVE  Beside(s, Insert(s, key, val))
<1>1. PICK mem : Insert(s, key, val) = Trim([s EXCEPT !.c.mem = mem])
  BY DEF Insert
<1> DEFINE a == [s EXCEPT !.c.mem = mem]
<1>2. Beside(s, a)
  <2>1. "mem" \in CacheFields \ (SlotFields \cup {"lost"})
    BY DEF CacheFields, SlotFields
  <2>2. QED
    BY <2>1, BesideSet
<1>3. Insert(s, key, val) = Trim(a)
  BY <1>1
<1> HIDE DEF a
<1>4. Beside(a, Trim(a))
  BY <1>2, BesideCached, TrimBeside
<1>5. QED
  BY <1>2, <1>3, <1>4, BesideTwice

\* Other pins.
LEMMA PinsBeside ==
  ASSUME NEW s, IsCached(s), NEW pins
  PROVE  Beside(s, [s EXCEPT !.c.pinned = pins])
<1>1. "pinned" \in CacheFields \ (SlotFields \cup {"lost"})
  BY DEF CacheFields, SlotFields
<1>2. QED
  BY <1>1, BesideSet

\* One more pin.
LEMMA PinBeside ==
  ASSUME NEW s, IsCached(s), NEW keys
  PROVE  Beside(s, Pin(s, keys))
<1> DEFINE pins == s.c.pinned \cup keys
<1>1. Pin(s, keys) = [s EXCEPT !.c.pinned = pins]
  BY DEF Pin
<1> HIDE DEF pins
<1>2. QED
  BY <1>1, PinsBeside

\* The pins a review keeps.
LEMMA RetainBeside ==
  ASSUME NEW s, IsCached(s)
  PROVE  Beside(s, RetainReviewPins(s))
<1> DEFINE pins == {k \in s.c.pinned : KeptPin(s.c, k)}
           a == [s EXCEPT !.c.pinned = pins]
<1>1. RetainReviewPins(s) = Trim(a)
  BY DEF RetainReviewPins
<1> HIDE DEF pins
<1>2. Beside(s, a)
  BY PinsBeside
<1> HIDE DEF a
<1>3. Beside(a, Trim(a))
  BY <1>2, BesideCached, TrimBeside
<1>4. QED
  BY <1>1, <1>2, <1>3, BesideTwice

-----------------------------------------------------------------------------
(* The content of a review: marks and slots.                               *)

\* Nothing else of the cache changed.
Apart(c, d, f) == \A g \in CacheFields : g # f => d[g] = c[g]

\* A client with one field of its cache changed.
LEMMA CachedSet ==
  ASSUME NEW s, IsCached(s), NEW f \in CacheFields, NEW v
  PROVE  /\ IsCached([s EXCEPT !.c[f] = v])
         /\ [s EXCEPT !.c[f] = v].c[f] = v
         /\ Apart(s.c, [s EXCEPT !.c[f] = v].c, f)
         /\ [s EXCEPT !.c[f] = v].work = s.work
         /\ [s EXCEPT !.c[f] = v].kv = s.kv
<1> DEFINE d == [s.c EXCEPT ![f] = v]
<1>1. [s EXCEPT !.c[f] = v] = [c |-> d, work |-> s.work, kv |-> s.kv]
  BY DEF IsCached
<1>2. HasCache(d) /\ d[f] = v /\ Apart(s.c, d, f)
  BY CacheSet DEF IsCached, Apart
<1> HIDE DEF d
<1>3. QED
  BY <1>1, <1>2 DEF IsCached

\* A client and other work of the daemon.
LEMMA WorkSet ==
  ASSUME NEW s, IsCached(s), NEW v
  PROVE  LET t == [s EXCEPT !.work = v]
         IN IsCached(t) /\ t.c = s.c /\ t.work = v /\ t.kv = s.kv
<1>1. [s EXCEPT !.work = v] = [c |-> s.c, work |-> v, kv |-> s.kv]
  BY DEF IsCached
<1>2. QED
  BY <1>1 DEF IsCached

\* The fields the slots are about.
LEMMA SlotsOf ==
  ASSUME NEW c, NEW d, NEW f, Apart(c, d, f)
  PROVE  /\ f # "loads" => d.loads = c.loads
         /\ f # "pending" => d.pending = c.pending
         /\ f # "queue" => d.queue = c.queue
         /\ f # "inFlight" => d.inFlight = c.inFlight
         /\ f # "waiting" => d.waiting = c.waiting
         /\ f # "connected" => d.connected = c.connected
         /\ f # "lost" => d.lost = c.lost
<1>1. {"loads", "pending", "queue", "inFlight", "waiting", "connected", "lost"} \subseteq CacheFields
  BY DEF CacheFields
<1>2. QED
  BY <1>1 DEF Apart

\* Other marks that hold.
LEMMA PendingSet ==
  ASSUME NEW s, Slotted(s), NEW p, \A k \in DOMAIN p : MarkHolds(p[k], k, s.c)
  PROVE  LET t == [s EXCEPT !.c.pending = p]
         IN /\ Slotted(t) /\ (Full(s.c) => Full(t.c)) /\ t.c.pending = p
            /\ t.c.waiting = s.c.waiting /\ t.work = s.work
<1> DEFINE t == [s EXCEPT !.c.pending = p]
<1>1. IsCached(s) /\ "pending" \in CacheFields
  BY DEF Slotted, CacheFields
<1>2. IsCached(t) /\ t.c.pending = p /\ Apart(s.c, t.c, "pending") /\ t.work = s.work
  BY <1>1, CachedSet
<1> HIDE DEF t
<1>3. /\ t.c.loads = s.c.loads /\ t.c.queue = s.c.queue /\ t.c.inFlight = s.c.inFlight
      /\ t.c.waiting = s.c.waiting /\ t.c.lost = s.c.lost
  BY <1>2, SlotsOf
<1>4. Marked(t.c)
  BY <1>2, <1>3 DEF Marked, MarkHolds
<1>5. Counted(t.c)
  BY <1>3 DEF Slotted, Counted
<1>6. Full(s.c) => Full(t.c)
  BY <1>3 DEF Full
<1>7. Slotted(t)
  BY <1>2, <1>3, <1>4, <1>5 DEF Slotted
<1>8. QED
  BY <1>2, <1>3, <1>6, <1>7 DEF t

\* A mark that is taken away.
LEMMA UnmarkSlotted ==
  ASSUME NEW s, Slotted(s), NEW key
  PROVE  LET t == Unmark(s, key)
         IN /\ Slotted(t) /\ (Full(s.c) => Full(t.c)) /\ key \notin DOMAIN t.c.pending
            /\ t.c.waiting = s.c.waiting /\ t.work = s.work
<1> DEFINE p == [k \in DOMAIN s.c.pending \ {key} |-> s.c.pending[k]]
<1>1. Unmark(s, key) = [s EXCEPT !.c.pending = p]
  BY DEF Unmark, Restrict
<1>2. \A k \in DOMAIN p : MarkHolds(p[k], k, s.c)
  BY DEF Slotted, Marked
<1>3. key \notin DOMAIN p
  OBVIOUS
<1> HIDE DEF p
<1>4. QED
  BY <1>1, <1>2, <1>3, PendingSet

\* A mark of a fetch that is there.
LEMMA MarkSlotted ==
  ASSUME NEW s, Slotted(s), NEW key, NEW how, MarkHolds(how, key, s.c)
  PROVE  Slotted(Mark(s, key, how)) /\ (Full(s.c) => Full(Mark(s, key, how).c))
<1> DEFINE p == [k \in DOMAIN s.c.pending \cup {key} |-> IF k = key THEN how ELSE s.c.pending[k]]
<1>1. Mark(s, key, how) = [s EXCEPT !.c.pending = p]
  BY DEF Mark, Put
<1>2. \A k \in DOMAIN p : MarkHolds(p[k], k, s.c)
  BY DEF Slotted, Marked
<1> HIDE DEF p
<1>3. QED
  BY <1>1, <1>2, PendingSet

\* A new request has a number of its own.
LEMMA FreeOwn ==
  ASSUME NEW s, IsFiniteSet(s.work), IsFiniteSet(s.c.waiting)
  PROVE  \A w \in s.c.waiting : w.id # FreeId(s)
<1> DEFINE ids == {w.id : w \in s.c.waiting}
           others == {j.id : j \in s.work}
           used == ids \cup others
<1>1. IsFiniteSet(ids)
  <2> DEFINE g == [w \in s.c.waiting |-> w.id]
  <2>1. g \in Surjection(s.c.waiting, ids)
    BY DEF Surjection
  <2> HIDE DEF g, ids
  <2>2. QED
    BY <2>1, FS_Surjection
<1>2. IsFiniteSet(others)
  <2> DEFINE g == [j \in s.work |-> j.id]
  <2>1. g \in Surjection(s.work, others)
    BY DEF Surjection
  <2> HIDE DEF g, others
  <2>2. QED
    BY <2>1, FS_Surjection
<1> HIDE DEF ids, others
<1>3. IsFiniteSet(used)
  BY <1>1, <1>2, FS_Union
<1> HIDE DEF used
<1>4. Cardinality(used) \in Nat
  BY <1>3, FS_CardinalityType
<1> DEFINE m == Cardinality(used) + 1
<1>5. \E i \in 1 .. m : i \notin used
  <2> SUFFICES ASSUME \A i \in 1 .. m : i \in used PROVE FALSE
    OBVIOUS
  <2>1. 1 .. m \in SUBSET used
    OBVIOUS
  <2>2. Cardinality(1 .. m) <= Cardinality(used)
    BY <1>3, <2>1, FS_Subset
  <2>3. Cardinality(1 .. m) = m
    <3>1. m \in Nat /\ 1 <= m
      BY <1>4
    <3> HIDE DEF m
    <3>2. Cardinality(1 .. m) = m - 1 + 1
      BY <3>1, FS_Interval
    <3>3. QED
      BY <3>1, <3>2
  <2>4. QED
    BY <1>4, <2>2, <2>3
<1>6. FreeId(s) \notin used
  <2>1. FreeId(s) = CHOOSE i \in 1 .. m : i \notin used
    BY DEF FreeId, used, ids, others
  <2> HIDE DEF m
  <2>2. QED
    BY <1>5, <2>1
<1>7. QED
  BY <1>6 DEF used, ids

\* Nothing but the queue changed.
Requeued(s, a, q) ==
  /\ IsCached(a) /\ a.work = s.work /\ a.c.queue = q
  /\ a.c.loads = s.c.loads /\ a.c.pending = s.c.pending /\ a.c.inFlight = s.c.inFlight
  /\ a.c.waiting = s.c.waiting /\ a.c.lost = s.c.lost

\* A client with another queue.
LEMMA QueueSet ==
  ASSUME NEW s, IsCached(s), NEW q
  PROVE  Requeued(s, [s EXCEPT !.c.queue = q], q)
<1> DEFINE a == [s EXCEPT !.c.queue = q]
<1>1. "queue" \in CacheFields
  BY DEF CacheFields
<1>2. IsCached(a) /\ a.c.queue = q /\ Apart(s.c, a.c, "queue") /\ a.work = s.work
  BY <1>1, CachedSet
<1> HIDE DEF a
<1>3. /\ a.c.loads = s.c.loads /\ a.c.pending = s.c.pending /\ a.c.inFlight = s.c.inFlight
      /\ a.c.waiting = s.c.waiting /\ a.c.lost = s.c.lost
  BY <1>2, SlotsOf
<1>4. QED
  BY <1>2, <1>3 DEF a, Requeued

-----------------------------------------------------------------------------
(* The content of a review: sending.                                       *)

\* What the daemon is asked for.
AskedOf(a, f) ==
  IF a.c.connected
  THEN {[id |-> FreeId(a), key |-> f.key, items |-> <<>>, stage |-> "asked", cancelled |-> FALSE]} ELSE {}

\* A request that is sent takes a slot.
LEMMA SendTakes ==
  ASSUME NEW a, NEW f, IsCached(a), IsFetches(a.c.queue), IsFiniteSet(a.work),
         Owed(a.work, a.c.waiting), Counted(a.c), a.c.inFlight < MaxInFlight,
         \A k \in DOMAIN a.c.pending : k # f.key => MarkHolds(a.c.pending[k], k, a.c)
  PROVE  /\ Slotted(Send(a, f)) /\ Send(a, f).c.inFlight = a.c.inFlight + 1
         /\ Send(a, f).c.queue = a.c.queue
<1> DEFINE p == [k \in DOMAIN a.c.pending \cup {f.key} |-> IF k = f.key THEN "Requested" ELSE a.c.pending[k]]
           e == [id |-> FreeId(a), key |-> f.key, stop |-> f.stop]
           i == a.c.inFlight + 1
           w == a.c.waiting \cup {e}
           no == a.c.lost \/ ~a.c.connected
           k0 == a.work \cup AskedOf(a, f)
           b == [a EXCEPT !.c.pending = p]
           c1 == [b EXCEPT !.c.inFlight = i]
           c2 == [c1 EXCEPT !.c.waiting = w]
           c3 == [c2 EXCEPT !.c.lost = no]
           t == [c3 EXCEPT !.work = k0]
<1>1. /\ IsCached(b) /\ b.c.pending = p /\ Apart(a.c, b.c, "pending") /\ b.work = a.work
  <2>1. "pending" \in CacheFields
    BY DEF CacheFields
  <2> HIDE DEF p
  <2>2. QED
    BY <2>1, CachedSet
<1>2. Mark(a, f.key, "Requested") = b
  BY DEF Mark, Put
<1>3. Send(a, f) = t
  <2> HIDE DEF p
  <2>1. /\ b.c.inFlight = a.c.inFlight /\ b.c.waiting = a.c.waiting /\ b.c.lost = a.c.lost /\ b.work = a.work
    BY <1>1, SlotsOf
  <2> HIDE DEF b
  <2>2. Send(a, f) = [b EXCEPT !.c.inFlight = b.c.inFlight + 1, !.c.waiting = b.c.waiting \cup {e},
                               !.c.lost = b.c.lost \/ ~a.c.connected, !.work = b.work \cup AskedOf(a, f)]
    BY <1>1, <1>2 DEF Send, AskedOf
  <2>3. (b.c.lost \/ ~a.c.connected) = no
    BY <2>1
  <2> HIDE DEF no, e
  <2>4. QED
    BY <2>1, <2>2, <2>3
<1> HIDE DEF b
<1>4. IsCached(c1) /\ c1.c.inFlight = i /\ Apart(b.c, c1.c, "inFlight") /\ c1.work = b.work
  <2>1. "inFlight" \in CacheFields
    BY DEF CacheFields
  <2> HIDE DEF i
  <2>2. QED
    BY <1>1, <2>1, CachedSet, SMTT(20)
<1> HIDE DEF c1
<1>5. IsCached(c2) /\ c2.c.waiting = w /\ Apart(c1.c, c2.c, "waiting") /\ c2.work = c1.work
  <2>1. "waiting" \in CacheFields
    BY DEF CacheFields
  <2> HIDE DEF w
  <2>2. QED
    BY <1>4, <2>1, CachedSet
<1> HIDE DEF c2
<1>6. IsCached(c3) /\ Apart(c2.c, c3.c, "lost") /\ c3.work = c2.work
  <2>1. "lost" \in CacheFields
    BY DEF CacheFields
  <2> HIDE DEF no
  <2>2. QED
    BY <1>5, <2>1, CachedSet
<1> HIDE DEF c3
<1>7. IsCached(t) /\ t.c = c3.c /\ t.work = k0
  <2> HIDE DEF k0
  <2>1. QED
    BY <1>6, WorkSet
<1> HIDE DEF t
<1>8. /\ t.c.queue = a.c.queue /\ t.c.loads = a.c.loads
  BY <1>1, <1>4, <1>5, <1>6, <1>7, SlotsOf
<1>9. t.c.pending = p
  BY <1>1, <1>4, <1>5, <1>6, <1>7, SlotsOf
<1>10. t.c.inFlight = i
  BY <1>1, <1>4, <1>5, <1>6, <1>7, SlotsOf
<1>11. t.c.waiting = w
  BY <1>1, <1>4, <1>5, <1>6, <1>7, SlotsOf
<1>12. \A v \in a.c.waiting : v.id # e.id
  BY FreeOwn DEF Counted
<1>13. Counted(t.c)
  <2>1. e \notin a.c.waiting /\ IsFiniteSet(a.c.waiting)
    BY <1>12 DEF Counted
  <2>2. IsFiniteSet(w) /\ Cardinality(w) = Cardinality(a.c.waiting) + 1
    BY <2>1, FS_AddElement
  <2>3. OneEachId(w)
    BY <1>12 DEF OneEachId, Counted
  <2>4. i \in Nat /\ i <= MaxInFlight /\ i = Cardinality(w)
    BY <2>2, CacheAssumption DEF Counted
  <2>5. QED
    BY <1>10, <1>11, <2>2, <2>3, <2>4 DEF Counted
<1>14. Marked(t.c)
  <2> SUFFICES ASSUME NEW k \in DOMAIN p PROVE MarkHolds(p[k], k, t.c)
    BY <1>9 DEF Marked
  <2>1. CASE k = f.key
    <3>1. e \in w /\ e.key = k /\ p[k] = "Requested"
      BY <2>1
    <3>2. QED
      BY <1>11, <3>1 DEF MarkHolds
  <2>2. CASE k # f.key
    <3>1. k \in DOMAIN a.c.pending /\ p[k] = a.c.pending[k] /\ MarkHolds(a.c.pending[k], k, a.c)
      BY <2>2
    <3>2. a.c.waiting \subseteq w
      OBVIOUS
    <3> HIDE DEF w, p
    <3>3. QED
      BY <1>8, <1>11, <3>1, <3>2 DEF MarkHolds
  <2>3. QED
    BY <2>1, <2>2
<1>15. Owed(k0, w)
  <2> SUFFICES ASSUME NEW j \in k0
               PROVE  IsWork(j) /\ (j.key # OpenKey => \E v \in w : v.id = j.id /\ v.key = j.key)
    BY DEF Owed
  <2>1. CASE j \in a.work
    BY <2>1 DEF Owed
  <2>2. CASE j \notin a.work
    <3>1. j = [id |-> FreeId(a), key |-> f.key, items |-> <<>>, stage |-> "asked", cancelled |-> FALSE]
      BY <2>2 DEF AskedOf
    <3>2. IsWork(j) /\ e \in w /\ e.id = j.id /\ e.key = j.key
      BY <3>1 DEF IsWork
    <3>3. QED
      BY <3>2
  <2>3. QED
    BY <2>1, <2>2
<1>16. IsFiniteSet(k0)
  <2>1. IsFiniteSet(AskedOf(a, f))
    <3>1. IsFiniteSet({}) /\ \A x : IsFiniteSet({x})
      BY FS_EmptySet, FS_Singleton
    <3>2. QED
      BY <3>1 DEF AskedOf
  <2>2. QED
    BY <2>1, FS_Union
<1>17. Slotted(t)
  <2> HIDE DEF k0, w, p, i
  <2>1. QED
    BY <1>7, <1>8, <1>11, <1>13, <1>14, <1>15, <1>16 DEF Slotted
<1>18. QED
  BY <1>3, <1>8, <1>10, <1>17

\* One turn of the loop.
LEMMA TurnSlotted ==
  ASSUME NEW s, Slotted(s), NEW turn
  PROVE  /\ Slotted(SendNext(s, turn))
         /\ s.c.queue = <<>> \/ s.c.inFlight >= MaxInFlight => SendNext(s, turn) = s
         /\ s.c.queue # <<>> /\ s.c.inFlight < MaxInFlight => SendNext(s, turn).c.inFlight = s.c.inFlight + 1
<1>0. s.c.inFlight \in Nat /\ MaxInFlight \in Nat
  BY CacheAssumption DEF Slotted, Counted
<1>1. CASE s.c.inFlight < MaxInFlight /\ s.c.queue # <<>>
  <2> DEFINE f == Head(s.c.queue)
             q == Tail(s.c.queue)
             a == [s EXCEPT !.c.queue = q]
  <2>1. SendNext(s, turn) = Send(a, f)
    BY <1>1 DEF SendNext
  <2>2. IsFetches(q) /\ KeysIn(s.c.queue) = KeysIn(q) \cup {f.key}
    BY <1>1, FetchesTail DEF Slotted
  <2> HIDE DEF q, f
  <2>3. /\ IsCached(a) /\ a.work = s.work /\ a.c.queue = q
        /\ a.c.loads = s.c.loads /\ a.c.pending = s.c.pending /\ a.c.inFlight = s.c.inFlight
        /\ a.c.waiting = s.c.waiting /\ a.c.lost = s.c.lost
    <3>1. Requeued(s, a, q)
      BY QueueSet DEF Slotted
    <3> HIDE DEF a
    <3>2. QED
      BY <3>1 DEF Requeued
  <2> HIDE DEF a
  <2>4. Counted(a.c)
    BY <2>3 DEF Slotted, Counted
  <2>5. \A k \in DOMAIN a.c.pending : k # f.key => MarkHolds(a.c.pending[k], k, a.c)
    <3> SUFFICES ASSUME NEW k \in DOMAIN a.c.pending, k # f.key PROVE MarkHolds(a.c.pending[k], k, a.c)
      OBVIOUS
    <3>1. MarkHolds(s.c.pending[k], k, s.c)
      BY <2>3 DEF Slotted, Marked
    <3>2. k \in KeysIn(s.c.queue) => k \in KeysIn(q)
      BY <2>2
    <3>3. QED
      BY <2>3, <3>1, <3>2 DEF MarkHolds
  <2>6. /\ IsFetches(a.c.queue) /\ IsFiniteSet(a.work) /\ Owed(a.work, a.c.waiting)
        /\ a.c.inFlight < MaxInFlight
    BY <1>1, <2>2, <2>3 DEF Slotted
  <2>7. Slotted(Send(a, f)) /\ Send(a, f).c.inFlight = a.c.inFlight + 1
    BY <2>3, <2>4, <2>5, <2>6, SendTakes
  <2>8. QED
    BY <1>0, <1>1, <2>1, <2>3, <2>7
<1>2. CASE ~(s.c.inFlight < MaxInFlight /\ s.c.queue # <<>>)
  <2>1. SendNext(s, turn) = s
    BY <1>2 DEF SendNext
  <2>2. ~(s.c.queue # <<>> /\ s.c.inFlight < MaxInFlight)
    BY <1>2
  <2>3. QED
    BY <2>1, <2>2
<1>3. QED
  BY <1>1, <1>2

\* The loop ends with no fetch queued or no slot free.
LEMMA DrainLoaded ==
  ASSUME NEW s, Slotted(s)
  PROVE  Loaded(Drain(s))
<1> DEFINE steps == [turn \in 1 .. MaxInFlight |-> turn]
<1>0. MaxInFlight \in Nat
  BY CacheAssumption
<1>1. Len(steps) = MaxInFlight /\ DOMAIN steps = 1 .. MaxInFlight
  BY <1>0
<1>2. Drain(s) = FoldLeft(SendNext, s, steps)
  BY DEF Drain
<1> HIDE DEF steps
<1>3. PICK h : SendFoldOn(h, s, steps) /\ FoldLeft(SendNext, s, steps) = h[Len(steps)]
  BY <1>0, <1>1, SendFoldFollows
<1> DEFINE Ok(n) == Slotted(h[n]) /\ (h[n].c.queue = <<>> \/ h[n].c.inFlight >= n)
           T == {n \in Nat : n <= MaxInFlight => Ok(n)}
<1>4. 0 \in T
  <2>1. h[0] = s /\ s.c.inFlight \in Nat
    BY <1>3 DEF SendFoldOn, Slotted, Counted
  <2>2. Ok(0)
    BY <2>1
  <2>3. QED
    BY <2>2
<1>5. ASSUME NEW n \in Nat, n \in T PROVE n + 1 \in T
  <2> SUFFICES ASSUME n + 1 <= MaxInFlight PROVE Ok(n + 1)
    OBVIOUS
  <2>1. n <= MaxInFlight /\ n \in 0 .. (Len(steps) - 1)
    BY <1>0, <1>1
  <2>2. h[n + 1] = SendNext(h[n], steps[n + 1])
    BY <1>3, <2>1 DEF SendFoldOn
  <2>3. Slotted(h[n]) /\ (h[n].c.queue = <<>> \/ h[n].c.inFlight >= n)
    BY <1>5, <2>1
  <2>4. /\ Slotted(h[n + 1])
        /\ h[n].c.queue = <<>> \/ h[n].c.inFlight >= MaxInFlight => h[n + 1] = h[n]
        /\ h[n].c.queue # <<>> /\ h[n].c.inFlight < MaxInFlight => h[n + 1].c.inFlight = h[n].c.inFlight + 1
    BY <2>2, <2>3, TurnSlotted
  <2>5. h[n].c.inFlight \in Nat
    BY <2>3 DEF Slotted, Counted
  <2>6. CASE h[n].c.queue = <<>>
    BY <2>4, <2>6
  <2>7. CASE h[n].c.queue # <<>> /\ h[n].c.inFlight < MaxInFlight
    BY <2>3, <2>4, <2>5, <2>7
  <2>8. CASE h[n].c.queue # <<>> /\ h[n].c.inFlight >= MaxInFlight
    <3>1. h[n + 1] = h[n] /\ h[n].c.inFlight >= n + 1
      BY <1>0, <2>4, <2>5, <2>8
    <3>2. QED
      BY <2>4, <3>1
  <2>9. h[n].c.inFlight < MaxInFlight \/ h[n].c.inFlight >= MaxInFlight
    BY <1>0, <2>5
  <2>10. QED
    BY <2>6, <2>7, <2>8, <2>9
<1>6. MaxInFlight \in T
  <2> HIDE DEF T
  <2>1. QED
    BY <1>0, <1>4, <1>5, NaturalsByStep
<1>7. Ok(MaxInFlight) /\ Drain(s) = h[MaxInFlight]
  BY <1>0, <1>1, <1>2, <1>3, <1>6
<1>8. Full(h[MaxInFlight].c)
  <2>1. h[MaxInFlight].c.inFlight <= MaxInFlight /\ h[MaxInFlight].c.inFlight \in Nat
    BY <1>7 DEF Slotted, Counted
  <2>2. QED
    BY <1>0, <1>7, <2>1 DEF Full
<1>9. QED
  BY <1>7, <1>8 DEF Loaded

\* Marks that stay, and whose fetches stay.
MarksStay(c, q, p) ==
  \A k \in DOMAIN p : MarkHolds(p[k], k, c) /\ (k \in KeysIn(c.queue) => k \in KeysIn(q))

\* Another queue that has the fetches of the marks that stay.
Requeues(s, q, a) == Slotted(a) /\ a.c.lost = s.c.lost /\ a.c.inFlight = s.c.inFlight /\ a.c.queue = q

\* Such a queue loses nothing.
LEMMA QueueGrows ==
  ASSUME NEW s, Slotted(s), NEW q, IsFetches(q), NEW p, MarksStay(s.c, q, p)
  PROVE  Requeues(s, q, [s EXCEPT !.c.queue = q, !.c.pending = p])
<1> DEFINE a == [s EXCEPT !.c.queue = q]
           b == [a EXCEPT !.c.pending = p]
<1>0. IsCached(s)
  BY DEF Slotted
<1>1. /\ IsCached(a) /\ a.work = s.work /\ a.c.queue = q
      /\ a.c.loads = s.c.loads /\ a.c.inFlight = s.c.inFlight
      /\ a.c.waiting = s.c.waiting /\ a.c.lost = s.c.lost
  <2>1. Requeued(s, a, q)
    BY <1>0, QueueSet
  <2> HIDE DEF a
  <2>2. QED
    BY <2>1 DEF Requeued
<1>2. [s EXCEPT !.c.queue = q, !.c.pending = p] = b
  BY DEF Slotted, IsCached
<1> HIDE DEF a
<1>3. IsCached(b) /\ b.c.pending = p /\ Apart(a.c, b.c, "pending") /\ b.work = a.work
  <2>1. "pending" \in CacheFields
    BY DEF CacheFields
  <2>2. QED
    BY <1>1, <2>1, CachedSet, SMTT(20)
<1> HIDE DEF b
<1>4. /\ b.c.loads = s.c.loads /\ b.c.queue = q /\ b.c.inFlight = s.c.inFlight
      /\ b.c.waiting = s.c.waiting /\ b.c.lost = s.c.lost
  BY <1>1, <1>3, SlotsOf
<1>5. Marked(b.c)
  <2> SUFFICES ASSUME NEW k \in DOMAIN p PROVE MarkHolds(p[k], k, b.c)
    BY <1>3 DEF Marked
  <2>1. MarkHolds(p[k], k, s.c) /\ (k \in KeysIn(s.c.queue) => k \in KeysIn(q))
    BY DEF MarksStay
  <2>2. QED
    BY <1>4, <2>1 DEF MarkHolds
<1>6. Counted(b.c)
  BY <1>4 DEF Slotted, Counted
<1>7. Slotted(b)
  BY <1>1, <1>3, <1>4, <1>5, <1>6 DEF Slotted
<1>8. QED
  BY <1>2, <1>4, <1>7 DEF Requeues

\* A fetch that waits for a slot.
LEMMA EnqueueLoaded ==
  ASSUME NEW s, Slotted(s), NEW f
  PROVE  Loaded(Enqueue(s, f))
<1> DEFINE q == Append(s.c.queue, f)
           p == s.c.pending
           a == [s EXCEPT !.c.queue = q]
<1>1. IsFetches(q) /\ KeysIn(q) = KeysIn(s.c.queue) \cup {f.key}
  BY FetchesAppend DEF Slotted
<1>2. Enqueue(s, f) = Drain(Mark(a, f.key, "Queued"))
  BY DEF Enqueue
<1> HIDE DEF q
<1>3. IsCached(s) /\ Marked(s.c)
  BY DEF Slotted
<1>4. Requeued(s, a, q)
  BY <1>3, QueueSet
<1> HIDE DEF a
<1>5. Marked(a.c)
  BY <1>1, <1>3, <1>4 DEF Marked, MarkHolds, Requeued
<1>6. Counted(a.c)
  BY <1>4 DEF Requeued, Slotted, Counted
<1>7. Slotted(a)
  BY <1>1, <1>4, <1>5, <1>6 DEF Requeued, Slotted
<1>8. MarkHolds("Queued", f.key, a.c)
  BY <1>1, <1>4 DEF MarkHolds, Requeued
<1>9. Slotted(Mark(a, f.key, "Queued"))
  BY <1>7, <1>8, MarkSlotted
<1>10. QED
  BY <1>2, <1>9, DrainLoaded

\* Other loads, with those that are marked.
LEMMA LoadsSet ==
  ASSUME NEW s, Slotted(s), NEW l, LoadKeys(s.c.loads) \subseteq LoadKeys(l)
  PROVE  Slotted([s EXCEPT !.c.loads = l]) /\ (Full(s.c) => Full([s EXCEPT !.c.loads = l].c))
         /\ [s EXCEPT !.c.loads = l].c.loads = l
<1> DEFINE a == [s EXCEPT !.c.loads = l]
<1>1. IsCached(s) /\ "loads" \in CacheFields
  BY DEF Slotted, CacheFields
<1>2. IsCached(a) /\ a.c.loads = l /\ Apart(s.c, a.c, "loads") /\ a.work = s.work
  BY <1>1, CachedSet
<1> HIDE DEF a
<1>3. /\ a.c.pending = s.c.pending /\ a.c.queue = s.c.queue /\ a.c.inFlight = s.c.inFlight
      /\ a.c.waiting = s.c.waiting /\ a.c.lost = s.c.lost
  BY <1>2, SlotsOf
<1>4. Marked(s.c)
  BY DEF Slotted
<1>5. Marked(a.c)
  BY <1>2, <1>3, <1>4 DEF Marked, MarkHolds
<1>6. Counted(a.c)
  BY <1>3 DEF Slotted, Counted
<1>7. Full(s.c) => Full(a.c)
  BY <1>3 DEF Full
<1>8. Slotted(a)
  BY <1>2, <1>3, <1>5, <1>6 DEF Slotted
<1>9. QED
  BY <1>2, <1>7, <1>8 DEF a

\* A load takes the place of one of its key, or is a new one.
LEMMA LoadSlotted ==
  ASSUME NEW s, Slotted(s), NEW f
  PROVE  Slotted(Load(s, f)) /\ (Full(s.c) => Full(Load(s, f).c)) /\ f.key \in LoadKeys(Load(s, f).c.loads)
<1> DEFINE l == {g \in s.c.loads : g.key # f.key} \cup {f}
<1>1. Load(s, f) = [s EXCEPT !.c.loads = l]
  <2>1. DOMAIN s = {"c", "work", "kv"} /\ "loads" \in DOMAIN s.c
    BY DEF Slotted, IsCached, HasCache, CacheFields
  <2>2. QED
    BY <2>1 DEF Load
<1>2. LoadKeys(s.c.loads) \subseteq LoadKeys(l) /\ f.key \in LoadKeys(l)
  BY DEF LoadKeys
<1> HIDE DEF l
<1>3. QED
  BY <1>1, <1>2, LoadsSet

\* What is wanted is there, under way, or starts.
LEMMA WantLoaded ==
  ASSUME NEW s, Loaded(s), NEW f
  PROVE  Loaded(Want(s, f))
<1>1. CASE Resident(s.c, f.key) \/ f.key \in DOMAIN s.c.pending
  BY <1>1 DEF Want
<1>2. CASE ~(Resident(s.c, f.key) \/ f.key \in DOMAIN s.c.pending)
  <2>1. CASE HasDisk
    <3> DEFINE a == Load(s, f)
    <3>1. Want(s, f) = Mark(a, f.key, "Loading")
      BY <1>2, <2>1 DEF Want
    <3>2. Slotted(a) /\ Full(a.c) /\ f.key \in LoadKeys(a.c.loads)
      BY LoadSlotted DEF Loaded
    <3> HIDE DEF a
    <3>3. MarkHolds("Loading", f.key, a.c)
      BY <3>2 DEF MarkHolds
    <3>4. QED
      BY <3>1, <3>2, <3>3, MarkSlotted DEF Loaded
  <2>2. CASE ~HasDisk
    <3>1. Want(s, f) = Enqueue(s, f)
      BY <1>2, <2>2 DEF Want
    <3>2. QED
      BY <3>1, EnqueueLoaded DEF Loaded
  <2>3. QED
    BY <2>1, <2>2
<1>3. QED
  BY <1>1, <1>2

\* A request that was answered gives its slot back.
LEMMA DoneLoaded ==
  ASSUME NEW s, Slotted(s), NEW v \in s.c.waiting, v.key \notin DOMAIN s.c.pending
  PROVE  Loaded(ContentDone(s, v.id))
<1> DEFINE i == IF s.c.inFlight > 0 THEN s.c.inFlight - 1 ELSE 0
           w == {x \in s.c.waiting : x.id # v.id}
           k0 == {j \in s.work : j.id # v.id}
           c1 == [s EXCEPT !.c.inFlight = i]
           c2 == [c1 EXCEPT !.c.waiting = w]
           t == [c2 EXCEPT !.work = k0]
<1>0. IsCached(s) /\ Counted(s.c) /\ Marked(s.c)
  BY DEF Slotted
<1>1. ContentDone(s, v.id) = Drain(t)
  <2>1. t = [s EXCEPT !.c.inFlight = i, !.c.waiting = w, !.work = k0]
    BY <1>0 DEF IsCached
  <2>2. ContentDone(s, v.id) = Drain([s EXCEPT !.c.inFlight = i, !.c.waiting = w, !.work = k0])
    BY DEF ContentDone
  <2>3. QED
    BY <2>1, <2>2
<1>2. w = s.c.waiting \ {v}
  BY <1>0 DEF Counted, OneEachId
<1>3. IsFiniteSet(w) /\ Cardinality(w) = Cardinality(s.c.waiting) - 1
  <2> HIDE DEF w
  <2>1. QED
    BY <1>0, <1>2, FS_RemoveElement DEF Counted
<1>4. i = Cardinality(w) /\ i \in Nat /\ i <= MaxInFlight
  <2> HIDE DEF w
  <2>1. Cardinality(w) \in Nat /\ s.c.inFlight = Cardinality(s.c.waiting) /\ s.c.inFlight \in Nat
        /\ s.c.inFlight <= MaxInFlight /\ MaxInFlight \in Nat
    BY <1>0, <1>3, FS_CardinalityType, CacheAssumption DEF Counted
  <2>2. s.c.inFlight - 1 = Cardinality(w)
    BY <1>3, <2>1
  <2>3. QED
    BY <2>1, <2>2
<1>5. OneEachId(w)
  BY <1>0 DEF Counted, OneEachId
<1>6. IsCached(c1) /\ c1.c.inFlight = i /\ Apart(s.c, c1.c, "inFlight") /\ c1.work = s.work
  <2>1. "inFlight" \in CacheFields
    BY DEF CacheFields
  <2> HIDE DEF i
  <2>2. QED
    BY <1>0, <2>1, CachedSet
<1> HIDE DEF c1
<1>7. IsCached(c2) /\ c2.c.waiting = w /\ Apart(c1.c, c2.c, "waiting") /\ c2.work = c1.work
  <2>1. "waiting" \in CacheFields
    BY DEF CacheFields
  <2> HIDE DEF w
  <2>2. QED
    BY <1>6, <2>1, CachedSet
<1> HIDE DEF c2
<1>8. IsCached(t) /\ t.c = c2.c /\ t.work = k0
  <2> HIDE DEF k0
  <2>1. QED
    BY <1>7, WorkSet
<1> HIDE DEF t
<1>9. /\ t.c.loads = s.c.loads /\ t.c.pending = s.c.pending /\ t.c.queue = s.c.queue
      /\ t.c.inFlight = i /\ t.c.waiting = w
  BY <1>6, <1>7, <1>8, SlotsOf
<1>10. Counted(t.c)
  <2> HIDE DEF w, i
  <2>1. QED
    BY <1>3, <1>4, <1>5, <1>9 DEF Counted
<1>11. Marked(t.c)
  <2> SUFFICES ASSUME NEW k \in DOMAIN s.c.pending PROVE MarkHolds(s.c.pending[k], k, t.c)
    BY <1>9 DEF Marked
  <2>1. MarkHolds(s.c.pending[k], k, s.c) /\ k # v.key
    BY <1>0 DEF Marked
  <2>2. \A x \in s.c.waiting : x.key = k => x \in w
    BY <1>2, <2>1
  <2> HIDE DEF w
  <2>3. QED
    BY <1>9, <2>1, <2>2 DEF MarkHolds
<1>12. Owed(k0, w)
  <2> SUFFICES ASSUME NEW j \in k0
               PROVE  IsWork(j) /\ (j.key # OpenKey => \E x \in w : x.id = j.id /\ x.key = j.key)
    BY DEF Owed
  <2>1. j \in s.work /\ j.id # v.id
    OBVIOUS
  <2>2. IsWork(j) /\ (j.key # OpenKey => \E x \in s.c.waiting : x.id = j.id /\ x.key = j.key)
    BY <2>1 DEF Slotted, Owed
  <2>3. QED
    BY <2>1, <2>2
<1>13. IsFiniteSet(k0)
  <2>1. k0 \in SUBSET s.work /\ IsFiniteSet(s.work)
    BY DEF Slotted
  <2> HIDE DEF k0
  <2>2. QED
    BY <2>1, FS_Subset
<1>14. Slotted(t)
  <2> HIDE DEF w, i, k0
  <2>1. QED
    BY <1>8, <1>9, <1>10, <1>11, <1>12, <1>13 DEF Slotted
<1>15. QED
  BY <1>1, <1>14, DrainLoaded

\* Other work of the daemon that still answers for its requests.
LEMMA WorkLoaded ==
  ASSUME NEW s, Slotted(s), NEW more, IsFiniteSet(more), Owed(more, s.c.waiting)
  PROVE  /\ Slotted([s EXCEPT !.work = more])
         /\ [s EXCEPT !.work = more].c = s.c
<1> DEFINE t == [s EXCEPT !.work = more]
<1>1. IsCached(t) /\ t.c = s.c /\ t.work = more
  BY WorkSet DEF Slotted
<1> HIDE DEF t
<1>2. QED
  BY <1>1 DEF Slotted, t

\* The queue is pruned.
LEMMA PruneLoaded ==
  ASSUME NEW s, Slotted(s), NEW dropped
  PROVE  LET t == PruneQueue(s, dropped)
         IN /\ Slotted(t) /\ (Full(s.c) => Full(t.c))
            /\ KeysIn(s.c.queue) \subseteq dropped => t.c.queue = <<>>
<1> DEFINE q == s.c.queue
           n == Len(q)
           steps == [i \in DOMAIN q |-> [fetch |-> q[i], keep |-> q[i].key \notin dropped]]
           p == [k \in DOMAIN s.c.pending \ dropped |-> s.c.pending[k]]
           kept == FoldLeft(Keep, <<>>, steps)
<1>1. n \in Nat /\ DOMAIN q = 1 .. n
  BY FetchesAre DEF Slotted
<1>2. PruneQueue(s, dropped) = [s EXCEPT !.c.queue = kept, !.c.pending = p]
  BY DEF PruneQueue, Restrict
<1>3. Len(steps) = n /\ DOMAIN steps = 1 .. n
  BY <1>1
<1>4. \A i \in 1 .. n : /\ q[i].key \in dropped => \A x : Keep(x, steps[i]) = x
                        /\ q[i].key \notin dropped => \A x : Keep(x, steps[i]) = Append(x, q[i])
  BY <1>1 DEF Keep
<1> HIDE DEF steps
<1>5. PICK h : PruneFoldOn(h, <<>>, steps) /\ kept = h[n]
  BY <1>1, <1>3, PruneFoldFollows
<1> HIDE DEF kept
<1> DEFINE Ok(m) == /\ IsFetches(h[m])
                    /\ \A i \in 1 .. m : q[i].key \notin dropped => q[i].key \in KeysIn(h[m])
                    /\ (\A i \in 1 .. m : q[i].key \in dropped) => h[m] = <<>>
           T == {m \in Nat : m <= n => Ok(m)}
<1>6. 0 \in T
  <2>1. h[0] = <<>>
    BY <1>5 DEF PruneFoldOn
  <2>2. IsFetches(<<>>)
    <3>1. <<>> \in Seq({})
      OBVIOUS
    <3>2. QED
      BY <3>1 DEF IsFetches
  <2>3. Ok(0)
    BY <2>1, <2>2
  <2>4. QED
    BY <2>3
<1>7. ASSUME NEW m \in Nat, m \in T PROVE m + 1 \in T
  <2> SUFFICES ASSUME m + 1 <= n PROVE Ok(m + 1)
    OBVIOUS
  <2>1. m \in 0 .. (Len(steps) - 1) /\ m + 1 \in 1 .. n /\ m <= n
    BY <1>1, <1>3
  <2>2. h[m + 1] = Keep(h[m], steps[m + 1])
    BY <1>5, <2>1 DEF PruneFoldOn
  <2>3. Ok(m)
    BY <1>7, <2>1
  <2>4. CASE q[m + 1].key \in dropped
    <3>1. h[m + 1] = h[m]
      BY <1>4, <2>1, <2>2, <2>4
    <3>2. \A i \in 1 .. (m + 1) : i \in 1 .. m \/ i = m + 1
      OBVIOUS
    <3>3. \A i \in 1 .. m : i \in 1 .. (m + 1)
      OBVIOUS
    <3>4. QED
      BY <2>3, <2>4, <3>1, <3>2, <3>3
  <2>5. CASE q[m + 1].key \notin dropped
    <3>1. h[m + 1] = Append(h[m], q[m + 1])
      BY <1>4, <2>1, <2>2, <2>5
    <3>2. IsFetches(h[m + 1]) /\ KeysIn(h[m + 1]) = KeysIn(h[m]) \cup {q[m + 1].key}
      BY <2>3, <3>1, FetchesAppend
    <3>3. \A i \in 1 .. (m + 1) : i \in 1 .. m \/ i = m + 1
      OBVIOUS
    <3>4. m + 1 \in 1 .. (m + 1)
      OBVIOUS
    <3>5. QED
      BY <2>3, <2>5, <3>2, <3>3, <3>4
  <2>6. QED
    BY <2>4, <2>5
<1>8. n \in T
  <2> HIDE DEF T
  <2>1. QED
    BY <1>1, <1>6, <1>7, NaturalsByStep
<1>9. Ok(n)
  BY <1>8, <1>1
<1>10. /\ IsFetches(kept)
       /\ \A k \in KeysIn(q) : k \notin dropped => k \in KeysIn(kept)
       /\ KeysIn(q) \subseteq dropped => kept = <<>>
  <2>1. \A i \in 1 .. n : q[i].key \in KeysIn(q)
    BY <1>1 DEF KeysIn
  <2>2. \A k \in KeysIn(q) : \E i \in 1 .. n : k = q[i].key
    BY <1>1 DEF KeysIn
  <2>3. QED
    BY <1>5, <1>9, <2>1, <2>2
<1>11. \A k \in DOMAIN p : MarkHolds(p[k], k, s.c) /\ (k \in KeysIn(s.c.queue) => k \in KeysIn(kept))
  <2>1. Marked(s.c)
    BY DEF Slotted
  <2>2. QED
    BY <1>10, <2>1 DEF Marked
<1>12. s.c.queue = <<>> => kept = <<>>
  <2> SUFFICES ASSUME s.c.queue = <<>> PROVE kept = <<>>
    OBVIOUS
  <2>1. KeysIn(q) = {}
    BY DEF KeysIn
  <2>2. QED
    BY <1>10, <2>1
<1> DEFINE t == [s EXCEPT !.c.queue = kept, !.c.pending = p]
<1> HIDE DEF p
<1>13. Requeues(s, kept, t)
  <2>1. MarksStay(s.c, kept, p)
    BY <1>11 DEF MarksStay
  <2>2. QED
    BY <1>10, <2>1, QueueGrows
<1>14. PruneQueue(s, dropped) = t
  BY <1>2
<1> HIDE DEF t
<1>15. Full(s.c) => Full(t.c)
  BY <1>12, <1>13 DEF Full, Requeues
<1>16. QED
  BY <1>10, <1>13, <1>14, <1>15 DEF Requeues

-----------------------------------------------------------------------------
(* The content of a review: what the review wants.                         *)

\* The fields a review or a tier may change.
OtherFields == CacheFields \ (SlotFields \cup {"lost"})

\* What they are.
LEMMA OthersAre ==
  {"mem", "pinned", "disk", "connected", "blind", "wasDown", "open", "committed", "trees", "files", "openFile",
   "row", "listing", "stream"} \subseteq OtherFields
  BY DEF OtherFields, CacheFields, SlotFields

\* A change beside the slots keeps them.
LEMMA BesideLoaded ==
  ASSUME NEW s, NEW t, Loaded(s), Beside(s, t)
  PROVE  Loaded(t)
  BY BesideSlotted DEF Loaded

\* One other field.
LEMMA OtherSet ==
  ASSUME NEW s, IsCached(s), NEW f \in OtherFields, NEW v
  PROVE  Beside(s, [s EXCEPT !.c[f] = v])
  BY BesideSet DEF OtherFields

\* A loss that is noted.
LEMMA LostSet ==
  ASSUME NEW s, IsCached(s), NEW v, s.c.lost => v
  PROVE  Beside(s, [s EXCEPT !.c.lost = v])
<1> DEFINE d == [s.c EXCEPT !["lost"] = v]
<1>1. [s EXCEPT !.c.lost = v] = [c |-> d, work |-> s.work, kv |-> s.kv]
  BY DEF IsCached
<1>2. "lost" \in CacheFields
  BY DEF CacheFields
<1>3. HasCache(d) /\ d["lost"] = v /\ \A g \in CacheFields : g # "lost" => d[g] = s.c[g]
  BY <1>2, CacheSet DEF IsCached
<1>4. \A g \in SlotFields : d[g] = s.c[g]
  BY <1>3 DEF SlotFields, CacheFields
<1> HIDE DEF d
<1>5. QED
  BY <1>1, <1>3, <1>4 DEF Beside

\* One chunk around the viewport.
LEMMA NearLoaded ==
  ASSUME NEW s, Loaded(s), NEW f
  PROVE  Loaded(WantNear(s, f))
  BY WantLoaded DEF WantNear

\* The chunks around the viewport.
LEMMA ViewportLoaded ==
  ASSUME NEW s, Loaded(s), NEW render
  PROVE  Loaded(WantViewportChunks(s, render))
<1> DEFINE steps == ByDistance(render, s.c.row)
           n == 2 * Radius + 1
<1>1. n \in Nat
  BY CacheAssumption
<1>2. Len(steps) = n /\ DOMAIN steps = 1 .. n
  BY <1>1 DEF ByDistance
<1>3. WantViewportChunks(s, render) = FoldLeft(WantNear, s, steps)
  BY DEF WantViewportChunks
<1> HIDE DEF steps, n
<1>4. PICK h : NearFoldOn(h, s, steps) /\ FoldLeft(WantNear, s, steps) = h[n]
  BY <1>1, <1>2, NearFoldFollows
<1> DEFINE T == {m \in Nat : m <= n => Loaded(h[m])}
<1>5. 0 \in T
  BY <1>4 DEF NearFoldOn
<1>6. ASSUME NEW m \in Nat, m \in T PROVE m + 1 \in T
  <2> SUFFICES ASSUME m + 1 <= n PROVE Loaded(h[m + 1])
    OBVIOUS
  <2>1. m \in 0 .. (Len(steps) - 1) /\ m <= n
    BY <1>1, <1>2
  <2>2. h[m + 1] = WantNear(h[m], steps[m + 1])
    BY <1>4, <2>1 DEF NearFoldOn
  <2>3. Loaded(h[m])
    BY <1>6, <2>1
  <2>4. QED
    BY <2>2, <2>3, NearLoaded
<1>7. n \in T
  <2> HIDE DEF T
  <2>1. QED
    BY <1>1, <1>5, <1>6, NaturalsByStep
<1>8. QED
  BY <1>1, <1>3, <1>4, <1>7

\* The chunks a header asks for.
LEMMA ChunksLoaded ==
  ASSUME NEW s, Loaded(s), NEW render
  PROVE  Loaded(WantChunksFor(s, render))
<1> DEFINE a == [s EXCEPT !.c.blind = FALSE]
<1>1. Loaded(a)
  <2>1. Beside(s, a)
    BY OthersAre, OtherSet DEF Loaded, Slotted
  <2> HIDE DEF a
  <2>2. QED
    BY <2>1, BesideLoaded
<1>2. \/ WantChunksFor(s, render) = s
      \/ WantChunksFor(s, render) = WantViewportChunks(a, render)
      \/ WantChunksFor(s, render) = Want(s, Fetch(ChunkKey(render, 0), 0))
  BY DEF WantChunksFor
<1> HIDE DEF a
<1>3. QED
  BY <1>1, <1>2, ViewportLoaded, WantLoaded

\* A value arrives: its mark goes, and nothing else of the slots changes but
\* what a header asks for.
LEMMA ArrivedLoaded ==
  ASSUME NEW s, Loaded(s), NEW key, NEW val, NEW via
  PROVE  /\ Loaded(Arrived(s, key, val, via))
         /\ key.kind # "Header" \/ via = "Stream" =>
              /\ key \notin DOMAIN Arrived(s, key, val, via).c.pending
              /\ Arrived(s, key, val, via).c.waiting = s.c.waiting
              /\ Arrived(s, key, val, via).work = s.work
<1> DEFINE u == Unmark(s, key)
           m == IF NeedsPin(s.c, key) THEN Pin(u, {key}) ELSE u
           kept == IF via = "Disk" THEN m ELSE Persist(m, key, val)
           t == Insert(kept, key, val)
<1>1. Arrived(s, key, val, via) = IF key.kind = "Header" /\ via # "Stream" THEN WantChunksFor(t, key.render) ELSE t
  BY DEF Arrived
<1>2. Loaded(u) /\ key \notin DOMAIN u.c.pending /\ u.c.waiting = s.c.waiting /\ u.work = s.work
  BY UnmarkSlotted DEF Loaded
<1> HIDE DEF u
<1>3. IsCached(u)
  BY <1>2 DEF Loaded, Slotted
<1>4. Beside(u, m)
  BY <1>3, PinBeside, BesideSame
<1> HIDE DEF m
<1>5. IsCached(m)
  BY <1>4, BesideCached
<1>6. Beside(m, kept)
  BY <1>5, PersistBeside, BesideSame
<1> HIDE DEF kept
<1>7. IsCached(kept)
  BY <1>6, BesideCached
<1>8. Beside(kept, t)
  BY <1>7, InsertBeside
<1> HIDE DEF t
<1>9. Beside(u, kept)
  BY <1>4, <1>6, BesideTwice
<1>10. Beside(u, t)
  BY <1>8, <1>9, BesideTwice
<1>11. Loaded(t)
  BY <1>2, <1>10, BesideLoaded
<1>12. t.c.pending = u.c.pending /\ t.c.waiting = u.c.waiting /\ t.work = u.work
  BY <1>10 DEF Beside, SlotFields
<1>13. CASE key.kind = "Header" /\ via # "Stream"
  BY <1>1, <1>11, <1>13, ChunksLoaded
<1>14. CASE ~(key.kind = "Header" /\ via # "Stream")
  BY <1>1, <1>2, <1>11, <1>12, <1>14
<1>15. QED
  BY <1>13, <1>14

\* The trees of the review are pinned.
LEMMA TreesBeside ==
  ASSUME NEW s, IsCached(s)
  PROVE  Beside(s, ExpectStreamedTrees(s))
<1> DEFINE a == [s EXCEPT !.c.trees = {s.c.committed}]
           b == RetainReviewPins(a)
           t == Pin(b, {TreeKey(s.c.committed)})
<1>1. Beside(s, a)
  BY OthersAre, OtherSet
<1>2. ExpectStreamedTrees(s) = t
  BY DEF ExpectStreamedTrees
<1> HIDE DEF a
<1>3. Beside(a, b)
  BY <1>1, BesideCached, RetainBeside
<1> HIDE DEF b
<1>4. Beside(b, t)
  BY <1>3, BesideCached, PinBeside
<1> HIDE DEF t
<1>5. QED
  BY <1>1, <1>2, <1>3, <1>4, BesideTwice

\* And wanted.
LEMMA TreesLoaded ==
  ASSUME NEW s, Loaded(s)
  PROVE  Loaded(WantTrees(s))
<1> DEFINE t == ExpectStreamedTrees(s)
<1>1. WantTrees(s) = Want(t, Fetch(TreeKey(s.c.committed), 0))
  BY DEF WantTrees, ExpectStreamedTrees
<1>2. Loaded(t)
  BY TreesBeside, BesideLoaded DEF Loaded, Slotted
<1> HIDE DEF t
<1>3. QED
  BY <1>1, <1>2, WantLoaded

\* A file is opened.
LEMMA OpenFileBeside ==
  ASSUME NEW s, IsCached(s), NEW render
  PROVE  Beside(s, OpenFile(s, render))
<1> DEFINE a == [s EXCEPT !.c.openFile = render]
           b == RetainReviewPins(a)
           chunks == {k \in ToSet(KeysOf(b.c.mem)) : k.kind = "Chunk" /\ k.render = render}
<1>1. Beside(s, a)
  BY OthersAre, OtherSet
<1>2. OpenFile(s, render) = Pin(b, chunks)
  BY DEF OpenFile
<1> HIDE DEF a
<1>3. Beside(a, b)
  BY <1>1, BesideCached, RetainBeside
<1> HIDE DEF b, chunks
<1>4. Beside(b, Pin(b, chunks))
  BY <1>3, BesideCached, PinBeside
<1>5. QED
  BY <1>1, <1>2, <1>3, <1>4, BesideTwice

\* The view moves to a row of a file.
LEMMA ShowLoaded ==
  ASSUME NEW s, Loaded(s), NEW render, NEW row
  PROVE  Loaded(ShowViewport(s, render, row))
<1> DEFINE known == Resident(s.c, HeaderKey(render))
           no == ~known
           a == [s EXCEPT !.c.row = row]
           moved == [a EXCEPT !.c.blind = no]
           opened == IF s.c.openFile = render THEN moved ELSE OpenFile(moved, render)
           pruned == PruneQueue(opened, Drifted(opened, render))
<1>1. IsCached(s)
  BY DEF Loaded, Slotted
<1>2. moved = [s EXCEPT !.c.row = row, !.c.blind = ~known]
  BY <1>1 DEF IsCached
<1>3. ShowViewport(s, render, row) =
        IF known THEN WantViewportChunks(pruned, render) ELSE Want(pruned, Fetch(HeaderKey(render), Radius))
  BY <1>2 DEF ShowViewport
<1> HIDE DEF no, known
<1>4. Beside(s, a)
  BY <1>1, OthersAre, OtherSet
<1> HIDE DEF a
<1>5. Beside(a, moved)
  BY <1>4, BesideCached, OthersAre, OtherSet
<1> HIDE DEF moved
<1>6. IsCached(moved)
  BY <1>5, BesideCached
<1>7. Beside(moved, opened)
  BY <1>6, OpenFileBeside, BesideSame
<1> HIDE DEF opened
<1>8. Loaded(opened)
  BY <1>4, <1>5, <1>7, BesideLoaded
<1>9. Loaded(pruned)
  BY <1>8, PruneLoaded DEF Loaded
<1> HIDE DEF pruned
<1>10. QED
  BY <1>3, <1>9, ViewportLoaded, WantLoaded

\* The first file is shown.
LEMMA FirstLoaded ==
  ASSUME NEW s, Loaded(s)
  PROVE  Loaded(OpensFirst(s))
  BY ShowLoaded DEF OpensFirst

\* One file of a list.
LEMMA FileLoaded ==
  ASSUME NEW s, Loaded(s), NEW render
  PROVE  Loaded(WantFile(s, render))
<1> DEFINE a == Pin(s, {HeaderKey(render)})
           t == Want(a, Fetch(HeaderKey(render), 0))
<1>1. \/ WantFile(s, render) = t
      \/ WantFile(s, render) = WantChunksFor(t, render)
  BY DEF WantFile
<1>2. Loaded(a)
  BY PinBeside, BesideLoaded DEF Loaded, Slotted
<1> HIDE DEF a
<1>3. Loaded(t)
  BY <1>2, WantLoaded
<1> HIDE DEF t
<1>4. QED
  BY <1>1, <1>3, ChunksLoaded

\* The files of a list.
LEMMA FilesLoaded ==
  ASSUME NEW s, Loaded(s), NEW files, Len(files) \in Nat, DOMAIN files = 1 .. Len(files)
  PROVE  Loaded(CacheFiles(s, files))
<1> DEFINE n == Len(files)
           shown == IF s.c.openFile \in ToSet(files) THEN s.c.openFile ELSE NoRender
           a == [s EXCEPT !.c.files = files]
           b == [a EXCEPT !.c.openFile = shown]
           t == RetainReviewPins(b)
           all == FoldLeft(WantFile, t, files)
<1>1. IsCached(s)
  BY DEF Loaded, Slotted
<1>2. b = [s EXCEPT !.c.files = files, !.c.openFile = IF @ \in ToSet(files) THEN @ ELSE NoRender]
  BY <1>1 DEF IsCached, HasCache, CacheFields
<1>3. CacheFiles(s, files) = OpensFirst(all)
  BY <1>2 DEF CacheFiles
<1> HIDE DEF shown
<1>4. Beside(s, a)
  BY <1>1, OthersAre, OtherSet
<1> HIDE DEF a
<1>5. Beside(a, b)
  BY <1>4, BesideCached, OthersAre, OtherSet
<1> HIDE DEF b
<1>6. Beside(b, t)
  BY <1>5, BesideCached, RetainBeside
<1> HIDE DEF t
<1>7. Loaded(t)
  BY <1>4, <1>5, <1>6, BesideLoaded
<1>8. PICK h : FilesFoldOn(h, t, files) /\ all = h[n]
  BY FilesFoldFollows
<1> HIDE DEF all
<1> DEFINE T == {m \in Nat : m <= n => Loaded(h[m])}
<1>9. 0 \in T
  BY <1>7, <1>8 DEF FilesFoldOn
<1>10. ASSUME NEW m \in Nat, m \in T PROVE m + 1 \in T
  <2> SUFFICES ASSUME m + 1 <= n PROVE Loaded(h[m + 1])
    OBVIOUS
  <2>1. m \in 0 .. (Len(files) - 1) /\ m <= n
    OBVIOUS
  <2>2. h[m + 1] = WantFile(h[m], files[m + 1])
    BY <1>8, <2>1 DEF FilesFoldOn
  <2>3. Loaded(h[m])
    BY <1>10, <2>1
  <2>4. QED
    BY <2>2, <2>3, FileLoaded
<1>11. n \in T
  <2> HIDE DEF T
  <2>1. QED
    BY <1>9, <1>10, NaturalsByStep
<1>12. Loaded(all)
  BY <1>8, <1>11
<1>13. QED
  BY <1>3, <1>12, FirstLoaded

\* A client without a review.
LEMMA WithoutBeside ==
  ASSUME NEW s, IsCached(s)
  PROVE  Beside(s, [s EXCEPT !.c = WithoutReview(s.c)])
<1> DEFINE d == WithoutReview(s.c)
           reviewFields == {"open", "committed", "trees", "files", "openFile", "row", "listing", "stream"}
<1>1. DOMAIN NoOpenReview = reviewFields
  BY DEF NoOpenReview
<1>2. DOMAIN NoContent \cup DOMAIN NoOpenReview = CacheFields
  BY <1>1 DEF NoContent, CacheFields
<1>3. d = [f \in CacheFields |-> IF f \in reviewFields THEN NoOpenReview[f] ELSE s.c[f]]
  BY <1>1, <1>2 DEF WithoutReview
<1>4. HasCache(d) /\ d.lost = s.c.lost /\ \A f \in SlotFields : d[f] = s.c[f]
  BY <1>3 DEF HasCache, CacheFields, SlotFields
<1>5. [s EXCEPT !.c = d] = [c |-> d, work |-> s.work, kv |-> s.kv]
  BY DEF IsCached
<1> HIDE DEF d
<1>6. QED
  BY <1>4, <1>5 DEF Beside, d

\* A review is closed, with an empty queue.
LEMMA ClosedLoaded ==
  ASSUME NEW s, Loaded(s)
  PROVE  Loaded(ReviewClosed(s)) /\ ReviewClosed(s).c.queue = <<>>
<1> DEFINE a == [s EXCEPT !.c = WithoutReview(s.c)]
           keys == KeysIn(s.c.queue)
           t == PruneQueue(a, keys)
           b == [t EXCEPT !.c.pinned = {}]
           d == [b EXCEPT !.c.blind = FALSE]
<1>1. Beside(s, a)
  BY WithoutBeside DEF Loaded, Slotted
<1>2. QueuedKeys(s) = keys
  BY DEF QueuedKeys, KeysIn
<1> HIDE DEF keys
<1>3. Loaded(a) /\ a.c.queue = s.c.queue
  BY <1>1, BesideLoaded DEF Beside, SlotFields
<1>4. t = PruneQueue([s EXCEPT !.c = WithoutReview(@)], QueuedKeys(s))
  BY <1>2
<1> HIDE DEF a
<1>5. Loaded(t) /\ t.c.queue = <<>>
  <2>1. KeysIn(a.c.queue) \subseteq keys
    BY <1>3 DEF keys
  <2>2. QED
    BY <1>3, <2>1, PruneLoaded DEF Loaded
<1>6. ReviewClosed(s) = Trim([t EXCEPT !.c.pinned = {}, !.c.blind = FALSE])
  BY <1>4 DEF ReviewClosed
<1> HIDE DEF t
<1>7. IsCached(t)
  BY <1>5 DEF Loaded, Slotted
<1>8. ReviewClosed(s) = Trim(d)
  BY <1>6, <1>7 DEF IsCached
<1>9. Beside(t, b)
  BY <1>7, OthersAre, OtherSet
<1> HIDE DEF b
<1>10. Beside(b, d)
  BY <1>9, BesideCached, OthersAre, OtherSet
<1> HIDE DEF d
<1>11. Beside(d, Trim(d))
  BY <1>10, BesideCached, TrimBeside
<1> DEFINE e == Trim(d)
<1> HIDE DEF e
<1>12. Beside(t, d)
  BY <1>9, <1>10, BesideTwice
<1>13. Beside(t, e)
  BY <1>11, <1>12, BesideTwice DEF e
<1>14. Loaded(e) /\ e.c.queue = t.c.queue
  BY <1>5, <1>13, BesideLoaded DEF Beside, SlotFields
<1>15. QED
  BY <1>5, <1>8, <1>14 DEF e

\* The review has other targets.
LEMMA TargetsLoaded ==
  ASSUME NEW s, Loaded(s), NEW v
  PROVE  Loaded(TargetsMove(s, v))
<1> DEFINE no == s.c.lost \/ ~s.c.connected
           a0 == [s EXCEPT !.c.lost = no]
           a1 == [a0 EXCEPT !.c.committed = v]
           a2 == [a1 EXCEPT !.c.files = <<>>]
           a3 == [a2 EXCEPT !.c.openFile = NoRender]
           a4 == [a3 EXCEPT !.c.listing = s.c.connected]
           a5 == [a4 EXCEPT !.c.stream = Absent]
           a6 == [a5 EXCEPT !.c.blind = FALSE]
           t0 == [s EXCEPT !.c.lost = s.c.lost \/ ~s.c.connected, !.c.committed = v, !.c.files = <<>>,
                           !.c.openFile = NoRender, !.c.listing = s.c.connected, !.c.stream = Absent,
                           !.c.blind = FALSE]
<1>1. IsCached(s)
  BY DEF Loaded, Slotted
<1>2. TargetsMove(s, v) = WantTrees(t0)
  BY DEF TargetsMove
<1>3. t0 = a6
  <2>1. t0 = [s EXCEPT !.c.lost = no, !.c.committed = v, !.c.files = <<>>,
                       !.c.openFile = NoRender, !.c.listing = s.c.connected, !.c.stream = Absent, !.c.blind = FALSE]
    OBVIOUS
  <2> HIDE DEF no, t0
  <2>2. QED
    BY <1>1, <2>1 DEF IsCached
<1> HIDE DEF t0
<1>13. Beside(s, a0)
  <2>1. s.c.lost => no
    OBVIOUS
  <2> HIDE DEF no
  <2>2. QED
    BY <1>1, <2>1, LostSet
<1> HIDE DEF a0
<1>4. Beside(a0, a1)
  BY <1>13, BesideCached, OthersAre, OtherSet
<1> HIDE DEF a1
<1>5. Beside(a1, a2)
  BY <1>4, BesideCached, OthersAre, OtherSet
<1> HIDE DEF a2
<1>6. Beside(a2, a3)
  BY <1>5, BesideCached, OthersAre, OtherSet
<1> HIDE DEF a3
<1>7. Beside(a3, a4)
  BY <1>6, BesideCached, OthersAre, OtherSet
<1> HIDE DEF a4
<1>8. Beside(a4, a5)
  BY <1>7, BesideCached, OthersAre, OtherSet
<1> HIDE DEF a5
<1>9. Beside(a5, a6)
  BY <1>8, BesideCached, OthersAre, OtherSet
<1> HIDE DEF a6
<1>10. Loaded(a6)
  <2>1. Loaded(a0)
    BY <1>13, BesideLoaded
  <2>2. Loaded(a1) /\ Loaded(a2)
    BY <1>4, <1>5, <2>1, BesideLoaded
  <2>3. Loaded(a3) /\ Loaded(a4)
    BY <1>6, <1>7, <2>2, BesideLoaded
  <2>4. QED
    BY <1>8, <1>9, <2>3, BesideLoaded
<1>11. QED
  BY <1>2, <1>3, <1>10, TreesLoaded

\* A delta of a tree that is resident.
LEMMA DeltaLoaded ==
  ASSUME NEW s, Loaded(s), NEW from
  PROVE  Loaded(TreeDelta(s, from))
  BY ArrivedLoaded DEF TreeDelta

-----------------------------------------------------------------------------
(* The content of a review: answers.                                       *)

\* An answer after which the mark of its key is gone.
LEMMA AnsweredLoaded ==
  ASSUME NEW a, Loaded(a), NEW j, \E w \in a.c.waiting : w.id = j.id /\ w.key = j.key, j.key \notin DOMAIN a.c.pending
  PROVE  Loaded(ContentDone(a, j.id))
<1>1. PICK w \in a.c.waiting : w.id = j.id /\ w.key = j.key
  OBVIOUS
<1>2. Slotted(a) /\ w.key \notin DOMAIN a.c.pending
  BY <1>1 DEF Loaded
<1>3. Loaded(ContentDone(a, w.id))
  BY <1>2, DoneLoaded
<1>4. QED
  BY <1>1, <1>3

\* A request of the daemon's has its entry.
LEMMA WaitsFor ==
  ASSUME NEW s, Loaded(s), NEW j \in s.work
  PROVE  IsWork(j) /\ (j.key # OpenKey => \E w \in s.c.waiting : w.id = j.id /\ w.key = j.key)
  BY DEF Loaded, Slotted, Owed

\* A request of which another field is set.
LEMMA WorkField ==
  ASSUME NEW j, IsWork(j), NEW f \in {"items", "stage", "cancelled"}, NEW v
  PROVE  LET i == [j EXCEPT ![f] = v] IN IsWork(i) /\ i.id = j.id /\ i.key = j.key
<1> DEFINE names == {"id", "key", "items", "stage", "cancelled"}
           i == [j EXCEPT ![f] = v]
<1>1. DOMAIN j = names
  BY DEF IsWork
<1>2. i = [g \in names |-> IF g = f THEN v ELSE j[g]]
  <2>1. i = [g \in DOMAIN j |-> IF g = f THEN v ELSE j[g]]
    <3>1. j = [g \in DOMAIN j |-> j[g]]
      BY <1>1 DEF IsWork
    <3>2. QED
      BY <3>1
  <2>2. QED
    BY <1>1, <2>1
<1> HIDE DEF i
<1>3. i.id = j.id /\ i.key = j.key
  BY <1>2
<1>4. IsWork(i)
  BY <1>2 DEF IsWork
<1>5. QED
  BY <1>3, <1>4 DEF i

\* A request the daemon goes on with, or gives up.
LEMMA GoesOn ==
  ASSUME NEW s, Loaded(s), NEW j \in s.work, NEW i, IsWork(i), i.id = j.id, i.key = j.key
  PROVE  /\ Loaded([s EXCEPT !.work = (s.work \ {j}) \cup {i}])
         /\ Loaded([s EXCEPT !.work = s.work \ {j}])
<1> DEFINE more == (s.work \ {j}) \cup {i}
           less == s.work \ {j}
<1>1. Owed(s.work, s.c.waiting) /\ IsFiniteSet(s.work) /\ Slotted(s) /\ Full(s.c)
  BY DEF Loaded, Slotted
<1>2. Owed(more, s.c.waiting) /\ Owed(less, s.c.waiting)
  BY <1>1 DEF Owed
<1>3. IsFiniteSet(less)
  BY <1>1, FS_RemoveElement
<1>4. IsFiniteSet(more)
  BY <1>3, FS_AddElement
<1> HIDE DEF more, less
<1> DEFINE t == [s EXCEPT !.work = more]
           u == [s EXCEPT !.work = less]
<1>5. Slotted(t) /\ t.c = s.c
  BY <1>1, <1>2, <1>4, WorkLoaded
<1>6. Slotted(u) /\ u.c = s.c
  BY <1>1, <1>2, <1>3, WorkLoaded
<1>7. Loaded(t)
  <2> HIDE DEF t
  <2>1. QED
    BY <1>1, <1>5 DEF Loaded
<1>8. Loaded(u)
  <2> HIDE DEF u
  <2>1. QED
    BY <1>1, <1>6 DEF Loaded
<1>9. QED
  BY <1>7, <1>8 DEF more, less

\* A tree, of the version asked for or not.
LEMMA TreeAnswered ==
  ASSUME NEW s, Loaded(s), NEW j \in s.work, j.key.kind = "Tree"
  PROVE  Loaded(TreeAnswer(s, j))
<1>1. IsWork(j) /\ \E w \in s.c.waiting : w.id = j.id /\ w.key = j.key
  BY WaitsFor DEF OpenKey
<1>2. CASE j.key.n = ver
  <2> DEFINE a == Arrived(s, j.key, ver, "Response")
  <2>1. Loaded(a) /\ j.key \notin DOMAIN a.c.pending /\ a.c.waiting = s.c.waiting
    BY ArrivedLoaded
  <2>2. TreeAnswer(s, j) = ContentDone(a, j.id)
    BY <1>2 DEF TreeAnswer
  <2> HIDE DEF a
  <2>3. QED
    BY <1>1, <2>1, <2>2, AnsweredLoaded
<1>3. CASE j.key.n # ver
  <2> DEFINE yes == TRUE
             a == [s EXCEPT !.c.lost = yes]
             t == [a EXCEPT !.work = a.work \ {j}]
  <2>1. IsCached(s)
    BY DEF Loaded, Slotted
  <2>2. a.work = s.work /\ t = [s EXCEPT !.c.lost = TRUE, !.work = @ \ {j}]
    BY <2>1 DEF IsCached
  <2>3. TreeAnswer(s, j) = t
    BY <1>3, <2>2 DEF TreeAnswer
  <2>4. Beside(s, a)
    <3>1. s.c.lost => yes
      OBVIOUS
    <3> HIDE DEF yes
    <3>2. QED
      BY <2>1, <3>1, LostSet
  <2>5. j \in a.work
    BY <2>2
  <2> HIDE DEF a
  <2>6. Loaded(a)
    BY <2>4, BesideLoaded
  <2>7. QED
    BY <1>1, <2>3, <2>5, <2>6, GoesOn, ZenonT(30)
<1>4. QED
  BY <1>2, <1>3

\* A chunk.
LEMMA ChunkAnswered ==
  ASSUME NEW s, Loaded(s), NEW j \in s.work, j.key.kind = "Chunk"
  PROVE  Loaded(ChunkAnswer(s, j))
<1>1. IsWork(j) /\ \E w \in s.c.waiting : w.id = j.id /\ w.key = j.key
  BY WaitsFor DEF OpenKey
<1> DEFINE a == Arrived(s, j.key, j.key.render.blob, "Response")
<1>2. Loaded(a) /\ j.key \notin DOMAIN a.c.pending /\ a.c.waiting = s.c.waiting
  BY ArrivedLoaded
<1>3. ChunkAnswer(s, j) = ContentDone(a, j.id)
  BY DEF ChunkAnswer
<1> HIDE DEF a
<1>4. QED
  BY <1>1, <1>2, <1>3, AnsweredLoaded

\* The end of a stream.
LEMMA RenderEnded ==
  ASSUME NEW s, Loaded(s), NEW j \in s.work, j.key.kind = "Header"
  PROVE  Loaded(RenderEnd(s, j))
<1>1. IsWork(j) /\ \E w \in s.c.waiting : w.id = j.id /\ w.key = j.key
  BY WaitsFor DEF OpenKey
<1> DEFINE a == Unmark(s, j.key)
<1>2. Loaded(a) /\ j.key \notin DOMAIN a.c.pending /\ a.c.waiting = s.c.waiting
  BY UnmarkSlotted DEF Loaded
<1>3. RenderEnd(s, j) = ContentDone(a, j.id)
  BY DEF RenderEnd
<1> HIDE DEF a
<1>4. QED
  BY <1>1, <1>2, <1>3, AnsweredLoaded

\* A fetch that fails.
LEMMA FetchFails ==
  ASSUME NEW s, Loaded(s), NEW j \in s.work, j.key # OpenKey
  PROVE  Loaded(FetchFailed(s, j))
<1>1. IsWork(j) /\ \E w \in s.c.waiting : w.id = j.id /\ w.key = j.key
  BY WaitsFor
<1> DEFINE yes == TRUE
           b == [s EXCEPT !.c.lost = yes]
           a == Unmark(b, j.key)
<1>2. FetchFailed(s, j) = ContentDone(a, j.id)
  BY DEF FetchFailed
<1>3. Beside(s, b)
  <2>1. s.c.lost => yes
    OBVIOUS
  <2> HIDE DEF yes
  <2>2. QED
    BY <2>1, LostSet DEF Loaded, Slotted
<1> HIDE DEF b
<1>4. Loaded(b) /\ b.c.waiting = s.c.waiting
  BY <1>3, BesideLoaded DEF Beside, SlotFields
<1>5. Loaded(a) /\ j.key \notin DOMAIN a.c.pending /\ a.c.waiting = b.c.waiting
  BY <1>4, UnmarkSlotted DEF Loaded
<1> HIDE DEF a
<1>6. QED
  BY <1>1, <1>2, <1>4, <1>5, AnsweredLoaded

\* One item of a stream.
LEMMA RenderItems ==
  ASSUME NEW s, Loaded(s), NEW j \in s.work, NEW item
  PROVE  Loaded(RenderItem(s, j, item))
<1> DEFINE key == IF item.key.kind = "Chunk" THEN ChunkKey(j.key.render, item.key.n) ELSE item.key
           stop == (CHOOSE w \in s.c.waiting : w.id = j.id).stop
           ends == j.cancelled \/ (key.kind = "Chunk" /\ key.n >= stop)
           i0 == [j EXCEPT !.items = Tail(j.items)]
           i == [i0 EXCEPT !.cancelled = ends]
           next == [s EXCEPT !.work = (s.work \ {j}) \cup {i}]
           no == next.c.lost \/ item.key.render # j.key.render
           t == [next EXCEPT !.c.lost = no]
<1>1. RenderItem(s, j, item) = IF key.kind = "Header" /\ key # j.key THEN t ELSE Arrived(t, key, item.val, "Stream")
  BY DEF RenderItem
<1> HIDE DEF key, ends
<1>2. IsWork(i) /\ i.id = j.id /\ i.key = j.key
  <2>1. IsWork(j)
    BY WaitsFor
  <2>2. IsWork(i0) /\ i0.id = j.id /\ i0.key = j.key
    BY <2>1, WorkField
  <2> HIDE DEF i0
  <2>3. QED
    BY <2>2, WorkField
<1> HIDE DEF i
<1>3. Loaded(next)
  BY <1>2, GoesOn
<1> HIDE DEF next
<1>4. next.c.lost => no
  OBVIOUS
<1> HIDE DEF no
<1>5. Beside(next, t)
  BY <1>3, <1>4, LostSet DEF Loaded, Slotted
<1> HIDE DEF t
<1>6. Loaded(t)
  BY <1>3, <1>5, BesideLoaded
<1>7. QED
  BY <1>1, <1>6, ArrivedLoaded

\* One item of the stream that opens a review.
LEMMA OpenItems ==
  ASSUME NEW s, Loaded(s), NEW j \in s.work
  PROVE  Loaded(OpenItem(s, j))
<1> DEFINE item == Head(j.items)
           i == [j EXCEPT !.items = Tail(@)]
           next == [s EXCEPT !.work = (s.work \ {j}) \cup {i}]
           files == Append(next.c.files, item.key.render)
           more == [next EXCEPT !.c.files = files]
           listed == IF item.key.kind = "Header" /\ item.key.render \notin ToSet(s.c.files) THEN more ELSE next
<1>1. OpenItem(s, j) = IF s.c.stream = j.id THEN Arrived(listed, item.key, item.val, "Stream") ELSE next
  BY DEF OpenItem
<1>2. IsWork(i) /\ i.id = j.id /\ i.key = j.key
  <2>1. IsWork(j)
    BY WaitsFor
  <2>2. QED
    BY <2>1, WorkField
<1> HIDE DEF i
<1>3. Loaded(next)
  BY <1>2, GoesOn
<1> HIDE DEF next, files
<1>4. Beside(next, more)
  BY <1>3, OthersAre, OtherSet DEF Loaded, Slotted
<1>5. Loaded(more)
  BY <1>3, <1>4, BesideLoaded
<1>6. Loaded(listed)
  BY <1>3, <1>5
<1> HIDE DEF listed
<1>7. QED
  BY <1>1, <1>3, <1>6, ArrivedLoaded

\* The end of that stream.
LEMMA OpenEnds ==
  ASSUME NEW s, Loaded(s), NEW j \in s.work
  PROVE  Loaded(OpenEnd(s, j))
<1> DEFINE stream == IF s.c.stream = j.id THEN Absent ELSE s.c.stream
           a == [s EXCEPT !.work = s.work \ {j}]
           t == [a EXCEPT !.c.stream = stream]
<1>1. OpenEnd(s, j) = IF s.c.stream = j.id THEN OpensFirst(t) ELSE t
  <2>1. t = [s EXCEPT !.work = @ \ {j}, !.c.stream = IF @ = j.id THEN Absent ELSE @]
    BY DEF Loaded, Slotted, IsCached
  <2>2. QED
    BY <2>1 DEF OpenEnd
<1> HIDE DEF stream
<1>2. IsWork(j)
  BY WaitsFor
<1>3. Loaded(a)
  BY <1>2, GoesOn
<1> HIDE DEF a
<1>4. Beside(a, t)
  BY <1>3, OthersAre, OtherSet DEF Loaded, Slotted
<1> HIDE DEF t
<1>5. Loaded(t)
  BY <1>3, <1>4, BesideLoaded
<1>6. QED
  BY <1>1, <1>5, FirstLoaded

-----------------------------------------------------------------------------
(* The content of a review: the steps.                                     *)

\* What the client becomes keeps the invariant.
LEMMA BecomesKeeps ==
  ASSUME NEW t, Loaded(t), ContentBecomes(t), ver' \in DOMAIN ListedAt
  PROVE  CacheInv'
<1>1. content' = t.c /\ work' = t.work /\ kv' = t.kv
  BY DEF ContentBecomes
<1>2. t = [c |-> t.c, work |-> t.work, kv |-> t.kv]
  BY DEF Loaded, Slotted, IsCached
<1>3. Cached' = t
  BY <1>1, <1>2 DEF Cached
<1>4. Slotted(t) /\ Full(t.c)
  BY DEF Loaded
<1>5. Cached'.c = t.c /\ Cached'.work = t.work
  BY <1>3
<1>6. IsCached(Cached)'
  BY <1>3, <1>4 DEF Slotted, IsCached, HasCache
<1>7. IsFiniteSet(Cached.work)' /\ IsFetches(Cached.c.queue)'
  BY <1>4, <1>5 DEF Slotted, IsFetches
<1>8. Owed(Cached.work, Cached.c.waiting)'
  BY <1>4, <1>5 DEF Slotted, Owed, IsWork
<1>9. Counted(Cached.c)'
  BY <1>4, <1>5 DEF Slotted, Counted, OneEachId
<1>10. Marked(Cached.c)'
  BY <1>4, <1>5 DEF Slotted, Marked, MarkHolds, KeysIn
<1>11. Full(Cached.c)'
  BY <1>4, <1>5 DEF Full
<1>12. Loaded(Cached)'
  BY <1>6, <1>7, <1>8, <1>9, <1>10, <1>11 DEF Loaded, Slotted
<1>13. QED
  BY <1>12 DEF CacheInv

\* What the invariant says.
LEMMA CacheHas ==
  ASSUME CacheInv
  PROVE  /\ Loaded(Cached) /\ IsCached(Cached) /\ Cached.c = content /\ Cached.work = work /\ Cached.kv = kv
         /\ ver \in DOMAIN ListedAt /\ Len(ListedAt) \in Nat /\ DOMAIN ListedAt = 1 .. Len(ListedAt)
<1>1. Loaded(Cached) /\ ver \in DOMAIN ListedAt
  BY DEF CacheInv
<1>2. IsCached(Cached)
  BY <1>1 DEF Loaded, Slotted
<1>3. Len(ListedAt) \in Nat /\ DOMAIN ListedAt = 1 .. Len(ListedAt)
  BY CacheAssumption
<1>4. QED
  BY <1>1, <1>2, <1>3 DEF Cached

\* At the start nothing is under way.
LEMMA CacheBegins ==
  ASSUME CacheInit
  PROVE  CacheInv
<1>1. ver = 1 /\ work = {} /\ content = Unopened
  BY DEF CacheInit
<1>2. Cached.c = content /\ Cached.work = {} /\ Cached = [c |-> Cached.c, work |-> Cached.work, kv |-> Cached.kv]
  BY <1>1 DEF Cached
<1> DEFINE reviewFields == {"open", "committed", "trees", "files", "openFile", "row", "listing", "stream"}
<1>3. DOMAIN NoOpenReview = reviewFields /\ DOMAIN NoContent \cup DOMAIN NoOpenReview = CacheFields
  <2>1. DOMAIN NoOpenReview = reviewFields
    BY DEF NoOpenReview
  <2>2. QED
    BY <2>1 DEF NoContent, CacheFields
<1>4. content = [f \in CacheFields |-> IF f \in reviewFields THEN NoOpenReview[f] ELSE NoContent[f]]
  BY <1>1, <1>3 DEF Unopened, WithoutReview
<1>5. /\ HasCache(content) /\ content.loads = NoContent.loads /\ content.pending = NoContent.pending
      /\ content.queue = NoContent.queue /\ content.inFlight = NoContent.inFlight /\ content.waiting = NoContent.waiting
  BY <1>4 DEF HasCache, CacheFields
<1>6. /\ content.loads = {} /\ content.pending = <<>> /\ content.queue = <<>> /\ content.inFlight = 0
      /\ content.waiting = {}
  BY <1>5 DEF NoContent
<1>7. IsFiniteSet({}) /\ Cardinality({}) = 0
  BY FS_EmptySet
<1>8. Counted(content)
  BY <1>6, <1>7, CacheAssumption DEF Counted, OneEachId
<1>9. Marked(content)
  BY <1>6 DEF Marked
<1>10. IsFetches(<<>>)
  <2>1. <<>> \in Seq({})
    OBVIOUS
  <2>2. QED
    BY <2>1 DEF IsFetches
<1>11. Owed({}, {})
  BY DEF Owed
<1>12. Slotted(Cached)
  BY <1>2, <1>5, <1>6, <1>7, <1>8, <1>9, <1>10, <1>11 DEF Slotted, IsCached
<1>13. Full(content)
  BY <1>6 DEF Full
<1>14. 1 \in DOMAIN ListedAt
  BY CacheAssumption
<1>15. QED
  BY <1>1, <1>2, <1>12, <1>13, <1>14 DEF CacheInv, Loaded

\* The checkout changes beside the client.
LEMMA MovesKeeps ==
  ASSUME CacheInv, CheckoutMoves
  PROVE  CacheInv'
<1>1. ver < Len(ListedAt) /\ ver' = ver + 1 /\ UNCHANGED <<work, kv, content>>
  BY DEF CheckoutMoves
<1>2. ver' \in DOMAIN ListedAt
  BY <1>1, CacheHas
<1>3. ContentBecomes(Cached)
  BY <1>1, CacheHas DEF ContentBecomes
<1>4. QED
  BY <1>2, <1>3, CacheHas, BecomesKeeps

\* The review has other targets.
LEMMA ResolvedKeeps ==
  ASSUME CacheInv, TargetsResolved
  PROVE  CacheInv'
<1>1. PICK delta \in BOOLEAN :
        LET s == IF delta THEN TreeDelta(Cached, content.committed) ELSE Cached
        IN ContentBecomes(TargetsMove(s, content.committed + 1))
  BY DEF TargetsResolved
<1>2. ver' = ver
  BY DEF TargetsResolved
<1> DEFINE s == IF delta THEN TreeDelta(Cached, content.committed) ELSE Cached
<1>3. ContentBecomes(TargetsMove(s, content.committed + 1))
  BY <1>1
<1>4. Loaded(s)
  BY CacheHas, DeltaLoaded
<1> HIDE DEF s
<1>5. Loaded(TargetsMove(s, content.committed + 1))
  BY <1>4, TargetsLoaded
<1>6. QED
  BY <1>2, <1>3, <1>5, CacheHas, BecomesKeeps

\* A list of files arrives.
LEMMA ListedKeeps ==
  ASSUME CacheInv, FilesListed
  PROVE  CacheInv'
<1> DEFINE s == [Cached EXCEPT !.c.listing = FALSE]
           yes == TRUE
           t == [s EXCEPT !.c.lost = yes]
<1>1. ContentBecomes(IF content.committed = ver THEN CacheFiles(s, ListedAt[ver]) ELSE t) /\ ver' = ver
  BY DEF FilesListed
<1>2. Beside(Cached, s)
  BY CacheHas, OthersAre, OtherSet
<1> HIDE DEF s
<1>3. Loaded(s)
  BY <1>2, CacheHas, BesideLoaded
<1>4. Loaded(t)
  <2>1. s.c.lost => yes
    OBVIOUS
  <2> HIDE DEF yes
  <2>2. Beside(s, t)
    BY <1>3, <2>1, LostSet DEF Loaded, Slotted
  <2> HIDE DEF t
  <2>3. QED
    BY <1>3, <2>2, BesideLoaded
<1>5. Len(ListedAt[ver]) \in Nat /\ DOMAIN ListedAt[ver] = 1 .. Len(ListedAt[ver])
  <2> DEFINE F == [path : {f.path : f \in UNION {Range(l) : l \in Range(ListedAt)}}, blob : DOMAIN Chunks]
  <2>1. ListedAt \in Seq(Seq(F)) /\ ver \in DOMAIN ListedAt
    BY CacheAssumption, CacheHas
  <2> HIDE DEF F
  <2>2. ListedAt[ver] \in Seq(F)
    BY <2>1
  <2>3. QED
    BY <2>2
<1>6. Loaded(CacheFiles(s, ListedAt[ver]))
  BY <1>3, <1>5, FilesLoaded
<1> HIDE DEF t
<1>7. PICK u : Loaded(u) /\ ContentBecomes(u)
  BY <1>1, <1>4, <1>6
<1>8. QED
  BY <1>1, <1>7, CacheHas, BecomesKeeps

\* A review is closed.
LEMMA CloseContentKeeps ==
  ASSUME CacheInv, CloseContent
  PROVE  CacheInv'
<1>1. ContentBecomes(ReviewClosed(Cached)) /\ ver' = ver
  BY DEF CloseContent
<1>2. Loaded(ReviewClosed(Cached))
  BY CacheHas, ClosedLoaded
<1>3. QED
  BY <1>1, <1>2, CacheHas, BecomesKeeps

\* The view moves.
LEMMA ScrollKeeps ==
  ASSUME CacheInv, Scroll
  PROVE  CacheInv'
<1>1. PICK render, row : ContentBecomes(ShowViewport(Cached, render, row))
  BY DEF Scroll
<1>2. ver' = ver
  BY DEF Scroll
<1>3. Loaded(ShowViewport(Cached, render, row))
  BY CacheHas, ShowLoaded
<1>4. QED
  BY <1>1, <1>2, <1>3, CacheHas, BecomesKeeps

\* The open file is closed.
LEMMA CloseFileKeeps ==
  ASSUME CacheInv, CloseOpenFile
  PROVE  CacheInv'
<1> DEFINE a == [Cached EXCEPT !.c.openFile = NoRender]
           b == [a EXCEPT !.c.blind = FALSE]
           dropped == {k \in QueuedKeys(Cached) : k.kind = "Chunk"}
           t == PruneQueue(b, dropped)
<1>1. ContentBecomes(RetainReviewPins(t)) /\ ver' = ver
  <2>1. b = [Cached EXCEPT !.c.openFile = NoRender, !.c.blind = FALSE]
    BY CacheHas DEF IsCached
  <2>2. QED
    BY <2>1 DEF CloseOpenFile
<1> HIDE DEF dropped
<1>2. Beside(Cached, a)
  BY CacheHas, OthersAre, OtherSet
<1> HIDE DEF a
<1>3. Beside(a, b)
  BY <1>2, BesideCached, OthersAre, OtherSet
<1> HIDE DEF b
<1>4. Loaded(b)
  BY <1>2, <1>3, CacheHas, BesideLoaded
<1>5. Loaded(t)
  BY <1>4, PruneLoaded DEF Loaded
<1> HIDE DEF t
<1>6. Beside(t, RetainReviewPins(t))
  BY <1>5, RetainBeside DEF Loaded, Slotted
<1>7. Loaded(RetainReviewPins(t))
  BY <1>5, <1>6, BesideLoaded
<1>8. QED
  BY <1>1, <1>7, CacheHas, BecomesKeeps

\* The marks of the other keys hold.
MarksLeft(c, p, key) == \A k \in DOMAIN p : k # key /\ MarkHolds(p[k], k, c)

\* Other loads, with those the marks that are left name.
LEMMA LoadsLeft ==
  ASSUME NEW s, Loaded(s), NEW l, NEW key, LoadKeys(s.c.loads) \subseteq LoadKeys(l) \cup {key},
         NEW p, MarksLeft(s.c, p, key)
  PROVE  Loaded([[s EXCEPT !.c.loads = l] EXCEPT !.c.pending = p])
<1> DEFINE a == [s EXCEPT !.c.loads = l]
           b == [a EXCEPT !.c.pending = p]
<1>0. IsCached(s)
  BY DEF Loaded, Slotted
<1>1. IsCached(a) /\ a.c.loads = l /\ Apart(s.c, a.c, "loads") /\ a.work = s.work
  <2>1. "loads" \in CacheFields
    BY DEF CacheFields
  <2>2. QED
    BY <1>0, <2>1, CachedSet
<1> HIDE DEF a
<1>2. IsCached(b) /\ b.c.pending = p /\ Apart(a.c, b.c, "pending") /\ b.work = a.work
  <2>1. "pending" \in CacheFields
    BY DEF CacheFields
  <2>2. QED
    BY <1>1, <2>1, CachedSet
<1> HIDE DEF b
<1>3. /\ b.c.loads = l /\ b.c.queue = s.c.queue /\ b.c.inFlight = s.c.inFlight
      /\ b.c.waiting = s.c.waiting /\ b.c.lost = s.c.lost
  BY <1>1, <1>2, SlotsOf
<1>4. Marked(b.c)
  BY <1>2, <1>3 DEF Marked, MarksLeft, MarkHolds
<1>5. Counted(b.c)
  BY <1>3 DEF Loaded, Slotted, Counted
<1>6. Full(b.c)
  BY <1>3 DEF Loaded, Full
<1>7. Slotted(b)
  BY <1>1, <1>2, <1>3, <1>4, <1>5 DEF Loaded, Slotted
<1>8. QED
  BY <1>6, <1>7 DEF a, b, Loaded

\* The answer of a load is taken from the list, and its mark away.
LEMMA LoadLeaves ==
  ASSUME NEW s, Loaded(s), NEW f \in s.c.loads
  PROVE  Loaded(Unmark([s EXCEPT !.c.loads = s.c.loads \ {f}], f.key))
<1> DEFINE rest == s.c.loads \ {f}
           key == f.key
           a == [s EXCEPT !.c.loads = rest]
           p == [k \in DOMAIN s.c.pending \ {key} |-> s.c.pending[k]]
<1>1. LoadKeys(s.c.loads) \subseteq LoadKeys(rest) \cup {key}
  BY DEF LoadKeys
<1>2. IsCached(s) /\ Marked(s.c)
  BY DEF Loaded, Slotted
<1> HIDE DEF rest, key
<1>3. a.c.pending = s.c.pending
  <2>1. "loads" \in CacheFields
    BY DEF CacheFields
  <2>2. Apart(s.c, a.c, "loads")
    BY <1>2, <2>1, CachedSet
  <2>3. QED
    BY <2>2, SlotsOf
<1>4. Unmark(a, key) = [a EXCEPT !.c.pending = p]
  <2> DEFINE q == [k \in DOMAIN a.c.pending \ {key} |-> a.c.pending[k]]
  <2>1. Unmark(a, key) = [a EXCEPT !.c.pending = q]
    BY DEF Unmark, Restrict
  <2>2. q = p
    BY <1>3
  <2> HIDE DEF a, q, p
  <2>3. QED
    BY <2>1, <2>2
<1>5. MarksLeft(s.c, p, key)
  BY <1>2 DEF Marked, MarksLeft
<1> HIDE DEF p
<1>6. Loaded([a EXCEPT !.c.pending = p])
  BY <1>1, <1>5, LoadsLeft
<1>7. QED
  BY <1>4, <1>6 DEF key, rest

\* The host answers a load.
LEMMA StoredKeeps ==
  ASSUME CacheInv, Stored
  PROVE  CacheInv'
<1>1. PICK f \in content.loads :
        LET loading == f.key \in DOMAIN content.pending /\ content.pending[f.key] = "Loading"
            s == Unmark([Cached EXCEPT !.c.loads = @ \ {f}], f.key)
            forgotten == [s EXCEPT !.c.disk = Rest(@, f.key), !.kv = Restrict(@, DOMAIN @ \ {f.key})]
        IN ContentBecomes(IF ~loading THEN [s EXCEPT !.c.lost = @ \/ ~Resident(s.c, f.key)]
                   ELSE IF f.key \notin DOMAIN kv THEN Enqueue(s, f)
                   ELSE IF kv[f.key] = Absent THEN Enqueue(forgotten, f)
                   ELSE Arrived(Touch(s, f.key), f.key, kv[f.key], "Disk"))
  BY DEF Stored
<1> DEFINE loading == f.key \in DOMAIN content.pending /\ content.pending[f.key] = "Loading"
           s == Unmark([Cached EXCEPT !.c.loads = @ \ {f}], f.key)
           a == [s EXCEPT !.c.disk = Rest(s.c.disk, f.key)]
           less == Restrict(s.kv, DOMAIN s.kv \ {f.key})
           forgotten == [a EXCEPT !.kv = less]
           no == s.c.lost \/ ~Resident(s.c, f.key)
           dropped == [s EXCEPT !.c.lost = no]
           t == Touch(s, f.key)
<1>0. ver' = ver
  BY DEF Stored
<1>2. Loaded(s)
  <2>1. Loaded(Cached) /\ Cached.c = content
    BY CacheHas
  <2>2. s = Unmark([Cached EXCEPT !.c.loads = Cached.c.loads \ {f}], f.key)
    BY <2>1
  <2> HIDE DEF s
  <2>3. QED
    BY <2>1, <2>2, LoadLeaves
<1>3. IsCached(s)
  BY <1>2 DEF Loaded, Slotted
<1>4. ContentBecomes(IF ~loading THEN dropped
                     ELSE IF f.key \notin DOMAIN kv THEN Enqueue(s, f)
                     ELSE IF kv[f.key] = Absent THEN Enqueue(forgotten, f)
                     ELSE Arrived(t, f.key, kv[f.key], "Disk"))
  <2>1. forgotten = [s EXCEPT !.c.disk = Rest(@, f.key), !.kv = Restrict(@, DOMAIN @ \ {f.key})]
    <3> HIDE DEF s
    <3>1. QED
      BY <1>3 DEF IsCached
  <2>2. QED
    BY <1>1, <2>1
<1> HIDE DEF s, loading
<1>5. Loaded(dropped)
  <2>1. s.c.lost => no
    OBVIOUS
  <2> HIDE DEF no
  <2>2. Beside(s, dropped)
    BY <1>3, <2>1, LostSet
  <2> HIDE DEF dropped
  <2>3. QED
    BY <1>2, <2>2, BesideLoaded
<1>6. Loaded(Enqueue(s, f))
  BY <1>2, EnqueueLoaded DEF Loaded
<1>7. Beside(s, a)
  <2>1. "disk" \in OtherFields
    BY OthersAre
  <2>2. QED
    BY <1>3, <2>1, OtherSet
<1> HIDE DEF a, less
<1>8. Beside(a, forgotten)
  BY <1>7, BesideCached, BesideStore
<1> HIDE DEF forgotten
<1>9. Loaded(Enqueue(forgotten, f))
  <2>1. Loaded(forgotten)
    BY <1>2, <1>7, <1>8, BesideLoaded
  <2>2. QED
    BY <2>1, EnqueueLoaded DEF Loaded
<1>10. Loaded(Arrived(t, f.key, kv[f.key], "Disk"))
  <2>1. Loaded(t)
    BY <1>2, <1>3, TouchBeside, BesideLoaded
  <2> HIDE DEF t
  <2>2. QED
    BY <2>1, ArrivedLoaded
<1> HIDE DEF t, dropped
<1>11. PICK u : Loaded(u) /\ ContentBecomes(u)
  BY <1>4, <1>5, <1>6, <1>9, <1>10
<1>12. QED
  BY <1>0, <1>11, CacheHas, BecomesKeeps

\* A client that is cleared of its losses has nothing queued.
LEMMA LostCleared ==
  ASSUME NEW s, Slotted(s), s.c.queue = <<>>, NEW v
  PROVE  Loaded([s EXCEPT !.c.lost = v])
<1> DEFINE t == [s EXCEPT !.c.lost = v]
<1>1. IsCached(s) /\ "lost" \in CacheFields /\ Counted(s.c) /\ Marked(s.c)
  BY DEF Slotted, CacheFields
<1>2. IsCached(t) /\ Apart(s.c, t.c, "lost") /\ t.work = s.work
  BY <1>1, CachedSet, SMTT(60)
<1> HIDE DEF t
<1>3. /\ t.c.loads = s.c.loads /\ t.c.pending = s.c.pending /\ t.c.queue = s.c.queue
      /\ t.c.inFlight = s.c.inFlight /\ t.c.waiting = s.c.waiting
  BY <1>2, SlotsOf
<1>4. Marked(t.c)
  BY <1>1, <1>3 DEF Marked, MarkHolds
<1>5. Counted(t.c)
  BY <1>1, <1>3 DEF Counted
<1>6. Slotted(t)
  BY <1>2, <1>3, <1>4, <1>5 DEF Slotted
<1>7. QED
  BY <1>3, <1>6 DEF Loaded, Full, t

\* A review is opened, with what a host with a disk asks for, or on a stream.
LEMMA OpenContentKeeps ==
  ASSUME CacheInv, OpenContent
  PROVE  CacheInv'
<1> DEFINE s == ReviewClosed(Cached)
           yes == TRUE
           none == FALSE
           a1 == [s EXCEPT !.c.open = yes]
           a2 == [a1 EXCEPT !.c.committed = ver]
           t == [a2 EXCEPT !.c.lost = none]
           id == FreeId(t)
           u == [t EXCEPT !.c.stream = id]
           x == ExpectStreamedTrees(u)
           job == [id |-> id, key |-> OpenKey, items |-> OpenStream(ver), stage |-> "read", cancelled |-> FALSE]
           more == x.work \cup {job}
           y == [x EXCEPT !.work = more]
           z == [t EXCEPT !.c.listing = yes]
<1>1. Loaded(s) /\ s.c.queue = <<>>
  BY CacheHas, ClosedLoaded
<1>2. ContentBecomes(IF HasDisk THEN WantTrees(z) ELSE y) /\ ver' = ver
  <2>1. t = [s EXCEPT !.c.open = TRUE, !.c.committed = ver, !.c.lost = FALSE]
    <3>1. IsCached(s)
      BY <1>1 DEF Loaded, Slotted
    <3> HIDE DEF s
    <3>2. QED
      BY <3>1 DEF IsCached
  <2>2. QED
    BY <2>1 DEF OpenContent
<1> HIDE DEF s, yes, none, job
<1>3. Beside(s, a1)
  BY <1>1, OthersAre, OtherSet DEF Loaded, Slotted
<1> HIDE DEF a1
<1>4. Beside(a1, a2)
  BY <1>3, BesideCached, OthersAre, OtherSet
<1> HIDE DEF a2
<1>5. Loaded(a2) /\ a2.c.queue = <<>>
  BY <1>1, <1>3, <1>4, BesideLoaded DEF Beside, SlotFields
<1>6. Loaded(t)
  BY <1>5, LostCleared DEF Loaded
<1> HIDE DEF t, id
<1>7. Loaded(WantTrees(z))
  <2>1. Beside(t, z)
    BY <1>6, OthersAre, OtherSet DEF Loaded, Slotted
  <2> HIDE DEF z
  <2>2. QED
    BY <1>6, <2>1, BesideLoaded, TreesLoaded
<1>8. Loaded(x)
  <2>1. Beside(t, u)
    BY <1>6, OthersAre, OtherSet DEF Loaded, Slotted
  <2> HIDE DEF u
  <2>2. Beside(u, x)
    BY <2>1, BesideCached, TreesBeside
  <2>3. QED
    BY <1>6, <2>1, <2>2, BesideLoaded
<1> HIDE DEF u, x
<1>9. Loaded(y)
  <2>1. Slotted(x) /\ Full(x.c) /\ Owed(x.work, x.c.waiting) /\ IsFiniteSet(x.work)
    BY <1>8 DEF Loaded, Slotted
  <2>2. IsWork(job) /\ job.key = OpenKey
    BY DEF IsWork, job
  <2>3. Owed(more, x.c.waiting)
    BY <2>1, <2>2 DEF Owed
  <2>4. IsFiniteSet(more)
    BY <2>1, FS_AddElement
  <2> HIDE DEF more
  <2>5. Slotted(y) /\ y.c = x.c
    BY <2>1, <2>3, <2>4, WorkLoaded
  <2> HIDE DEF y
  <2>6. QED
    BY <2>1, <2>5 DEF Loaded
<1> HIDE DEF y, z
<1>10. PICK r : Loaded(r) /\ ContentBecomes(r)
  BY <1>2, <1>7, <1>9
<1>11. QED
  BY <1>2, <1>10, CacheHas, BecomesKeeps

\* The daemon looks a file up.
LEMMA StartsKeeps ==
  ASSUME CacheInv, RenderStarts
  PROVE  CacheInv'
<1>1. PICK j \in work : work' = (work \ {j}) \cup {[j EXCEPT !.stage = "read", !.items = StreamOf(j.key.render.path, ver)]}
  BY DEF RenderStarts
<1>2. UNCHANGED <<ver, kv, content>>
  BY DEF RenderStarts
<1> DEFINE i0 == [j EXCEPT !.stage = "read"]
           items == StreamOf(j.key.render.path, ver)
           i == [i0 EXCEPT !.items = items]
           t == [Cached EXCEPT !.work = (Cached.work \ {j}) \cup {i}]
<1>3. IsWork(j)
  BY CacheHas, WaitsFor
<1>4. i = [j EXCEPT !.stage = "read", !.items = StreamOf(j.key.render.path, ver)]
  <2> HIDE DEF items
  <2>1. [[j EXCEPT !.stage = "read"] EXCEPT !.items = items] = [j EXCEPT !.stage = "read", !.items = items]
    BY <1>3 DEF IsWork
  <2>2. QED
    BY <2>1 DEF items
<1>5. IsWork(i) /\ i.id = j.id /\ i.key = j.key
  <2>1. IsWork(i0) /\ i0.id = j.id /\ i0.key = j.key
    BY <1>3, WorkField
  <2> HIDE DEF i0, items
  <2>2. QED
    BY <2>1, WorkField
<1>6. ContentBecomes(t)
  <2> HIDE DEF i
  <2>1. work' = (work \ {j}) \cup {i}
    BY <1>1, <1>4
  <2>2. t = [c |-> content, work |-> (work \ {j}) \cup {i}, kv |-> kv]
    BY DEF Cached
  <2>3. QED
    BY <1>2, <2>1, <2>2 DEF ContentBecomes
<1> HIDE DEF i
<1>7. Loaded(t)
  BY <1>5, CacheHas, GoesOn
<1> HIDE DEF t
<1>8. QED
  BY <1>2, <1>6, <1>7, CacheHas, BecomesKeeps

\* The daemon answers.
LEMMA AnswerKeeps ==
  ASSUME CacheInv, FetchAnswer
  PROVE  CacheInv'
<1>1. PICK j \in work :
        \/ j.key.kind = "Tree" /\ ContentBecomes(TreeAnswer(Cached, j))
        \/ j.key.kind = "Chunk" /\ ContentBecomes(ChunkAnswer(Cached, j))
        \/ j.key.kind = "Header" /\ ContentBecomes(RenderItem(Cached, j, Head(j.items)))
        \/ j.key.kind = "Header" /\ ContentBecomes(RenderEnd(Cached, j))
        \/ ContentBecomes(OpenItem(Cached, j))
        \/ ContentBecomes(OpenEnd(Cached, j))
  BY DEF FetchAnswer
<1>2. ver' = ver
  BY DEF FetchAnswer
<1>3. j \in Cached.work /\ Loaded(Cached)
  BY CacheHas
<1>4. j.key.kind = "Tree" => Loaded(TreeAnswer(Cached, j))
  BY <1>3, TreeAnswered
<1>5. j.key.kind = "Chunk" => Loaded(ChunkAnswer(Cached, j))
  BY <1>3, ChunkAnswered
<1>6. j.key.kind = "Header" => Loaded(RenderItem(Cached, j, Head(j.items))) /\ Loaded(RenderEnd(Cached, j))
  BY <1>3, RenderItems, RenderEnded
<1>7. Loaded(OpenItem(Cached, j)) /\ Loaded(OpenEnd(Cached, j))
  BY <1>3, OpenItems, OpenEnds
<1>8. PICK u : Loaded(u) /\ ContentBecomes(u)
  BY <1>1, <1>4, <1>5, <1>6, <1>7
<1>9. QED
  BY <1>2, <1>8, CacheHas, BecomesKeeps

\* The daemon answers with an error.
LEMMA FetchErrorKeeps ==
  ASSUME CacheInv, ContentError
  PROVE  CacheInv'
<1>1. PICK j \in work : j.key # OpenKey /\ ContentBecomes(FetchFailed(Cached, j))
  BY DEF ContentError
<1>2. ver' = ver
  BY DEF ContentError
<1>3. Loaded(FetchFailed(Cached, j))
  BY <1>1, CacheHas, FetchFails
<1>4. QED
  BY <1>1, <1>2, <1>3, CacheHas, BecomesKeeps

\* The connection is lost: every slot is free, and no mark is left of what was sent.
LEMMA DownKeeps ==
  ASSUME CacheInv, ConnectionLost
  PROVE  CacheInv'
<1> DEFINE keys == {w.key : w \in content.waiting}
           p == Restrict(content.pending, DOMAIN content.pending \ keys)
           no == content.lost \/ content.waiting # {} \/ content.queue # <<>> \/ content.stream # Absent
                   \/ content.listing
           d == [f \in CacheFields |->
                  CASE f = "connected" -> FALSE [] f = "wasDown" -> TRUE [] f = "waiting" -> {} [] f = "inFlight" -> 0
                    [] f = "stream" -> Absent [] f = "pending" -> p [] f = "lost" -> no [] f = "listing" -> FALSE
                    [] OTHER -> content[f]]
           t == [c |-> d, work |-> {}, kv |-> kv]
<1>1. HasCache(content) /\ Marked(content) /\ IsFetches(content.queue)
  BY CacheHas DEF Loaded, Slotted, IsCached
<1>2. content' = d /\ work' = {} /\ kv' = kv /\ ver' = ver
  <2>1. content' = [content EXCEPT
          !.connected = FALSE, !.wasDown = TRUE, !.waiting = {}, !.inFlight = 0, !.stream = Absent,
          !.pending = p, !.lost = no, !.listing = FALSE]
    BY DEF ConnectionLost
  <2>2. DOMAIN content = CacheFields
    BY <1>1 DEF HasCache
  <2> HIDE DEF p, no
  <2>3. content' = d
    BY <1>1, <2>1, <2>2 DEF HasCache, CacheFields
  <2>4. QED
    BY <2>3 DEF ConnectionLost
<1>3. ContentBecomes(t)
  BY <1>2 DEF ContentBecomes
<1>4. p = [k \in DOMAIN content.pending \ keys |-> content.pending[k]]
  BY DEF Restrict
<1>5. \A k \in DOMAIN p : \/ k \in KeysIn(content.queue) /\ p[k] = "Queued"
                          \/ k \in LoadKeys(content.loads) /\ p[k] = "Loading"
  BY <1>1, <1>4 DEF Marked, MarkHolds
<1>6. content.queue # <<>> => no
  OBVIOUS
<1> HIDE DEF p, no
<1>7. /\ d.loads = content.loads /\ d.queue = content.queue /\ d.waiting = {} /\ d.inFlight = 0
      /\ d.pending = p /\ d.lost = no
  BY DEF CacheFields
<1>8. HasCache(d)
  <2>1. DOMAIN d = CacheFields
    OBVIOUS
  <2>2. QED
    BY <2>1 DEF HasCache
<1> HIDE DEF d
<1>9. Marked(d)
  BY <1>5, <1>7 DEF Marked, MarkHolds
<1>10. IsFiniteSet({}) /\ Cardinality({}) = 0
  BY FS_EmptySet
<1>11. Counted(d)
  BY <1>7, <1>10, CacheAssumption DEF Counted, OneEachId
<1>12. Full(d)
  BY <1>6, <1>7 DEF Full
<1>13. t.c = d /\ t.work = {} /\ IsCached(t)
  BY <1>8 DEF IsCached
<1> HIDE DEF t
<1>14. Slotted(t)
  <2>1. Owed({}, {})
    BY DEF Owed
  <2>2. QED
    BY <1>1, <1>7, <1>9, <1>10, <1>11, <1>13, <2>1 DEF Slotted
<1>15. Loaded(t)
  BY <1>12, <1>13, <1>14 DEF Loaded
<1>16. QED
  BY <1>2, <1>3, <1>15, CacheHas, BecomesKeeps

\* The connection is there again: what was queued stays so.
LEMMA UpAgainKeeps ==
  ASSUME CacheInv, Reconnected
  PROVE  CacheInv'
<1> DEFINE yes == TRUE
           t == [Cached EXCEPT !.c.connected = yes]
<1>1. ContentBecomes(t) /\ ver' = ver
  <2>0. IsCached(Cached) /\ Cached.c = content /\ Cached.work = work /\ Cached.kv = kv
    BY CacheHas
  <2>1. t = [c |-> [content EXCEPT !.connected = yes], work |-> work, kv |-> kv]
    <3> HIDE DEF yes
    <3>1. t = [c |-> [Cached.c EXCEPT !.connected = yes], work |-> Cached.work, kv |-> Cached.kv]
      BY <2>0 DEF IsCached
    <3>2. QED
      BY <2>0, <3>1
  <2>2. content' = [content EXCEPT !.connected = yes] /\ work' = work /\ kv' = kv /\ ver' = ver
    BY DEF Reconnected
  <2> HIDE DEF t, yes
  <2>3. QED
    BY <2>1, <2>2 DEF ContentBecomes
<1> HIDE DEF yes
<1>2. Beside(Cached, t)
  BY CacheHas, OthersAre, OtherSet
<1> HIDE DEF t
<1>3. Loaded(t)
  BY <1>2, CacheHas, BesideLoaded
<1>4. QED
  BY <1>1, <1>3, CacheHas, BecomesKeeps

\* Every step keeps it.
LEMMA CacheSteps ==
  ASSUME CacheInv, [CacheNext]_cacheVars
  PROVE  CacheInv'
<1>1. CASE UNCHANGED cacheVars
  <2>1. ContentBecomes(Cached) /\ ver' = ver
    BY <1>1, CacheHas DEF ContentBecomes, cacheVars
  <2>2. QED
    BY <2>1, CacheHas, BecomesKeeps
<1>2. CASE CheckoutMoves
  BY <1>2, MovesKeeps
<1>3. CASE TargetsResolved
  BY <1>3, ResolvedKeeps
<1>4. CASE FilesListed
  BY <1>4, ListedKeeps
<1>5. CASE OpenContent
  BY <1>5, OpenContentKeeps
<1>6. CASE CloseContent
  BY <1>6, CloseContentKeeps
<1>7. CASE Scroll
  BY <1>7, ScrollKeeps
<1>8. CASE CloseOpenFile
  BY <1>8, CloseFileKeeps
<1>9. CASE Stored
  BY <1>9, StoredKeeps
<1>10. CASE RenderStarts
  BY <1>10, StartsKeeps
<1>11. CASE FetchAnswer
  BY <1>11, AnswerKeeps
<1>12. CASE ContentError
  BY <1>12, FetchErrorKeeps
<1>13. CASE ConnectionLost
  BY <1>13, DownKeeps
<1>14. CASE Reconnected
  BY <1>14, UpAgainKeeps
<1>15. QED
  BY <1>1, <1>2, <1>3, <1>4, <1>5, <1>6, <1>7, <1>8, <1>9, <1>10, <1>11, <1>12, <1>13, <1>14 DEF CacheNext

\* Whatever is fetched, evicted, pruned, lost or failed, each entry that waits
\* takes one slot, each mark says where its fetch is, each request of the
\* daemon's has its entry, and what is queued waits for a slot.
THEOREM CacheInvariant == CacheSpec => []CacheInv
<1>1. CacheInit => CacheInv
  BY CacheBegins
<1>2. CacheInv /\ [CacheNext]_cacheVars => CacheInv'
  BY CacheSteps
<1>3. QED
  BY <1>1, <1>2, PTL DEF CacheSpec

\* No slot leaks, no mark stays behind and nothing waits while a slot is free
\* (content.rs: drain, content_done, content_failed, prune_queue, and the loads
\* and streams that take a mark away), for every number of slots.
THEOREM SlotsKept == CacheSpec => []SlotsExact
<1>1. CacheInv => SlotsExact
  <2> SUFFICES ASSUME CacheInv PROVE SlotsExact
    OBVIOUS
  <2>1. Counted(content) /\ Marked(content) /\ Full(content)
    BY CacheHas DEF Loaded, Slotted
  <2>2. QueuedKeys(Cached) = KeysIn(content.queue)
    BY CacheHas DEF QueuedKeys, KeysIn
  <2>3. ASSUME NEW k \in DOMAIN content.pending
        PROVE  CASE content.pending[k] = "Requested" -> \E w \in content.waiting : w.key = k
                 [] content.pending[k] = "Queued" -> k \in QueuedKeys(Cached)
                 [] content.pending[k] = "Loading" -> \E f \in content.loads : f.key = k
    <3>1. MarkHolds(content.pending[k], k, content)
      BY <2>1 DEF Marked
    <3>2. QED
      BY <2>2, <3>1 DEF MarkHolds, LoadKeys
  <2>4. QED
    BY <2>1, <2>3 DEF SlotsExact, Counted, Full
<1>2. QED
  BY <1>1, CacheInvariant, PTL
=============================================================================
