--------------------------- MODULE ReviewsProofs ---------------------------
(***************************************************************************)
(* Proofs about Reviews for all stores, menus, checkouts and bounds.       *)
(*                                                                         *)
(* The tables that the daemon serves are a fold over the log.  A fold is a *)
(* recursive function on sets of positions; that it follows its equation,  *)
(* and what holds along it, is shown by induction on the positions, which  *)
(* here means: a set of naturals that has 0 and with each number the next  *)
(* one has them all (NaturalsByStep).                                      *)
(***************************************************************************)
EXTENDS Reviews, WellFoundedInduction, FiniteSetTheorems, TLAPS

-----------------------------------------------------------------------------
(* Induction and folds.                                                    *)

\* Induction over the naturals, said of a set.
LEMMA NaturalsByStep ==
  ASSUME NEW T, 0 \in T, \A n \in Nat : n \in T => n + 1 \in T
  PROVE  Nat \subseteq T
<1> SUFFICES ASSUME Nat \ T # {} PROVE FALSE
  OBVIOUS
<1>1. PICK x \in Nat \ T : \A y \in Nat \ T : ~ (<<y, x>> \in OpToRel(<, Nat))
  BY NatLessThanWellFounded, WFMin
<1>2. x # 0 /\ x - 1 \in Nat
  OBVIOUS
<1>3. <<x - 1, x>> \in OpToRel(<, Nat)
  BY <1>2 DEF OpToRel
<1>4. x - 1 \in T
  BY <1>1, <1>2, <1>3
<1>5. x - 1 + 1 \in T
  BY <1>2, <1>4
<1>6. QED
  BY <1>2, <1>5

\* Positions have a last one.
LEMMA LastPosition ==
  ASSUME NEW n \in Nat, NEW s \in SUBSET (1 .. n), s # {}
  PROVE  Max(s) \in s /\ \A i \in s : i <= Max(s)
<1> DEFINE T == {k \in Nat : \A t \in SUBSET (1 .. k) : t # {} => \E x \in t : \A y \in t : x >= y}
<1>1. 0 \in T
  <2>1. \A t \in SUBSET (1 .. 0) : t = {}
    OBVIOUS
  <2>2. QED
    BY <2>1
<1>2. ASSUME NEW k \in Nat, k \in T PROVE k + 1 \in T
  <2> SUFFICES ASSUME NEW t \in SUBSET (1 .. (k + 1)), t # {}
               PROVE  \E x \in t : \A y \in t : x >= y
    OBVIOUS
  <2>1. CASE k + 1 \in t
    BY <2>1
  <2>2. CASE k + 1 \notin t
    <3>1. t \in SUBSET (1 .. k)
      BY <2>2
    <3>2. QED
      BY <1>2, <3>1
  <2>3. QED
    BY <2>1, <2>2
<1>3. n \in T
  <2> HIDE DEF T
  <2>1. QED
    BY <1>1, <1>2, NaturalsByStep
<1>4. \E x \in s : \A y \in s : x >= y
  BY <1>3
<1>5. QED
  BY <1>4 DEF Max

\* The last of the first positions.
LEMMA LastOfFirst ==
  ASSUME NEW n \in Nat
  PROVE  /\ Max(1 .. (n + 1)) = n + 1
         /\ (1 .. (n + 1)) \ {n + 1} = 1 .. n
         /\ \A s \in SUBSET (1 .. (n + 1)) :
              s \notin SUBSET (1 .. n) => Max(s) = n + 1 /\ s # {} /\ s \ {Max(s)} \in SUBSET (1 .. n)
<1>1. ASSUME NEW s \in SUBSET (1 .. (n + 1)), n + 1 \in s
      PROVE  Max(s) = n + 1
  <2>1. n + 1 \in Nat /\ s # {}
    BY <1>1
  <2>2. Max(s) \in s /\ \A i \in s : i <= Max(s)
    BY <2>1, LastPosition
  <2>3. Max(s) \in 1 .. (n + 1) /\ n + 1 <= Max(s)
    BY <1>1, <2>2
  <2>4. QED
    BY <2>3
<1>2. Max(1 .. (n + 1)) = n + 1
  BY <1>1
<1>3. (1 .. (n + 1)) \ {n + 1} = 1 .. n
  OBVIOUS
<1>4. ASSUME NEW s \in SUBSET (1 .. (n + 1)), s \notin SUBSET (1 .. n)
      PROVE  Max(s) = n + 1 /\ s # {} /\ s \ {Max(s)} \in SUBSET (1 .. n)
  <2>1. n + 1 \in s
    BY <1>3, <1>4
  <2>2. Max(s) = n + 1
    BY <1>1, <2>1
  <2>3. QED
    BY <1>3, <2>1, <2>2
<1>5. QED
  BY <1>2, <1>3, <1>4

\* The equation of a rebuild has a solution, whatever the log.
LEMMA ReplayExists ==
  ASSUME NEW lg, NEW n \in Nat
  PROVE  \E g : g = [s \in SUBSET (1 .. n) |->
                       IF s = {} THEN NoViews
                       ELSE ApplyEvent(g[s \ {Max(s)}], lg[Max(s)], Max(s))]
<1> DEFINE Body(g, s) == IF s = {} THEN NoViews ELSE ApplyEvent(g[s \ {Max(s)}], lg[Max(s)], Max(s))
           Solves(g, k) == g = [s \in SUBSET (1 .. k) |-> Body(g, s)]
           T == {k \in Nat : \E g : Solves(g, k)}
<1>1. 0 \in T
  <2>1. [s \in SUBSET (1 .. 0) |-> NoViews] = [s \in SUBSET (1 .. 0) |-> Body([t \in SUBSET (1 .. 0) |-> NoViews], s)]
    OBVIOUS
  <2>2. QED
    BY <2>1
<1>2. ASSUME NEW k \in Nat, k \in T PROVE k + 1 \in T
  <2>1. PICK g : g = [s \in SUBSET (1 .. k) |-> Body(g, s)]
    BY <1>2
  <2> DEFINE f == [s \in SUBSET (1 .. (k + 1)) |-> IF s \in SUBSET (1 .. k) THEN g[s] ELSE Body(g, s)]
  <2>2. ASSUME NEW s \in SUBSET (1 .. (k + 1)) PROVE f[s] = Body(f, s)
    <3>1. CASE s \in SUBSET (1 .. k) /\ s # {}
      <4>1. Max(s) \in s /\ s \ {Max(s)} \in SUBSET (1 .. k) /\ s \ {Max(s)} \in SUBSET (1 .. (k + 1))
        BY <3>1, LastPosition
      <4>2. f[s \ {Max(s)}] = g[s \ {Max(s)}] /\ f[s] = g[s]
        BY <3>1, <4>1
      <4>3. QED
        BY <2>1, <3>1, <4>2
    <3>2. CASE s = {}
      BY <2>1, <3>2
    <3>3. CASE s \notin SUBSET (1 .. k)
      <4>1. s # {} /\ s \ {Max(s)} \in SUBSET (1 .. k) /\ s \ {Max(s)} \in SUBSET (1 .. (k + 1))
        BY <3>3, LastOfFirst
      <4>2. f[s \ {Max(s)}] = g[s \ {Max(s)}] /\ f[s] = Body(g, s)
        BY <3>3, <4>1
      <4>3. QED
        BY <4>1, <4>2
    <3>4. QED
      BY <3>1, <3>2, <3>3
  <2>3. f = [s \in SUBSET (1 .. (k + 1)) |-> Body(f, s)]
    <3>1. f = [s \in SUBSET (1 .. (k + 1)) |-> f[s]]
      OBVIOUS
    <3> HIDE DEF f, Body
    <3>2. QED
      BY <2>2, <3>1
  <2>4. Solves(f, k + 1)
    BY <2>3
  <2>5. QED
    <3> HIDE DEF f, Solves
    <3>1. QED
      BY <2>4
<1>3. n \in T
  <2> HIDE DEF T
  <2>1. QED
    BY <1>1, <1>2, NaturalsByStep
<1>4. QED
  BY <1>3

\* The tables after each event of a log.
Follows(h, lg) ==
  /\ h[0] = NoViews
  /\ \A n \in 0 .. (Len(lg) - 1) : h[n + 1] = ApplyEvent(h[n], lg[n + 1], n + 1)

\* A rebuild applies the events one after the other.
LEMMA RebuildFollows ==
  ASSUME NEW lg, Len(lg) \in Nat
  PROVE  \E h : Follows(h, lg) /\ RebuildViews(lg) = h[Len(lg)]
<1> DEFINE D == 1 .. Len(lg)
           q == [i \in 1 .. Len(lg) |-> i]
           Body(g, s) == IF s = {} THEN NoViews ELSE ApplyEvent(g[s \ {Max(s)}], lg[Max(s)], Max(s))
           Raw(g, s) == IF s = {} THEN NoViews ELSE ApplyEvent(g[s \ {Max(s)}], lg[q[Max(s)]], q[Max(s)])
           it == CHOOSE g : g = [s \in SUBSET DOMAIN q |-> Raw(g, s)]
<1>1. RebuildViews(lg) = it[DOMAIN q]
  BY DEF RebuildViews, FoldLeft, MapThenFoldSet
<1>2. DOMAIN q = D /\ \A s \in SUBSET D : s # {} => q[Max(s)] = Max(s)
  <2>1. \A s \in SUBSET D : s # {} => Max(s) \in D
    BY LastPosition
  <2>2. QED
    BY <2>1
<1>3. ASSUME NEW g PROVE [s \in SUBSET DOMAIN q |-> Raw(g, s)] = [s \in SUBSET D |-> Body(g, s)]
  BY <1>2
<1>4. \E g : g = [s \in SUBSET D |-> Body(g, s)]
  BY ReplayExists
<1>5. \E g : g = [s \in SUBSET DOMAIN q |-> Raw(g, s)]
  <2>1. PICK g : g = [s \in SUBSET D |-> Body(g, s)]
    BY <1>4
  <2> HIDE DEF q, D, Raw, Body
  <2>2. g = [s \in SUBSET DOMAIN q |-> Raw(g, s)]
    BY <1>3, <2>1
  <2>3. QED
    BY <2>2
<1>6. it = [s \in SUBSET D |-> Body(it, s)]
  <2> HIDE DEF q, D, Raw, Body
  <2>1. it = [s \in SUBSET DOMAIN q |-> Raw(it, s)]
    BY <1>5
  <2>2. QED
    BY <1>3, <2>1
<1> DEFINE h == [n \in 0 .. Len(lg) |-> it[1 .. n]]
<1>7. h[0] = NoViews
  <2>1. 1 .. 0 = {} /\ {} \in SUBSET D /\ 0 \in 0 .. Len(lg)
    OBVIOUS
  <2> HIDE DEF it
  <2>2. it[{}] = NoViews
    BY <1>6, <2>1
  <2>3. QED
    BY <2>1, <2>2
<1>8. ASSUME NEW n \in 0 .. (Len(lg) - 1) PROVE h[n + 1] = ApplyEvent(h[n], lg[n + 1], n + 1)
  <2>1. n \in Nat /\ n \in 0 .. Len(lg) /\ n + 1 \in 0 .. Len(lg) /\ 1 .. (n + 1) \in SUBSET D /\ 1 .. (n + 1) # {}
    <3>1. n \in Nat /\ n + 1 <= Len(lg)
      OBVIOUS
    <3>2. n + 1 \in 1 .. (n + 1)
      BY <3>1
    <3>3. QED
      BY <3>1, <3>2, SMTT(20)
  <2>2. Max(1 .. (n + 1)) = n + 1 /\ (1 .. (n + 1)) \ {n + 1} = 1 .. n
    BY <2>1, LastOfFirst
  <2> HIDE DEF it
  <2>3. it[1 .. (n + 1)] = ApplyEvent(it[1 .. n], lg[n + 1], n + 1)
    BY <1>6, <2>1, <2>2
  <2>4. QED
    BY <2>1, <2>3
<1>9. h[Len(lg)] = RebuildViews(lg)
  <2> HIDE DEF it
  <2>1. QED
    BY <1>1, <1>2
<1>10. Follows(h, lg)
  <2> HIDE DEF h
  <2>1. QED
    BY <1>7, <1>8 DEF Follows
<1>11. QED
  <2> HIDE DEF h
  <2>1. QED
    BY <1>9, <1>10

\* The equation of a run of the first n steps.
Runs(g, s0, steps, n) ==
  g = [s \in SUBSET (1 .. n) |-> IF s = {} THEN s0 ELSE Execute(g[s \ {Max(s)}], steps[Max(s)])]

\* The equation of a run of steps has a solution, whatever the steps.
LEMMA RunExists ==
  ASSUME NEW s0, NEW steps, NEW n \in Nat
  PROVE  \E g : Runs(g, s0, steps, n)
<1> DEFINE Body(g, s) == IF s = {} THEN s0 ELSE Execute(g[s \ {Max(s)}], steps[Max(s)])
           T == {k \in Nat : \E g : Runs(g, s0, steps, k)}
<1>1. 0 \in T
  <2> DEFINE f == [s \in SUBSET (1 .. 0) |-> s0]
  <2>1. f = [s \in SUBSET (1 .. 0) |-> Body(f, s)]
    OBVIOUS
  <2>2. Runs(f, s0, steps, 0)
    BY <2>1 DEF Runs
  <2>3. QED
    BY <2>2
<1>2. ASSUME NEW k \in Nat, k \in T PROVE k + 1 \in T
  <2>0. PICK g : Runs(g, s0, steps, k)
    BY <1>2
  <2>1. g = [s \in SUBSET (1 .. k) |-> Body(g, s)]
    BY <2>0 DEF Runs
  <2> DEFINE f == [s \in SUBSET (1 .. (k + 1)) |-> IF s \in SUBSET (1 .. k) THEN g[s] ELSE Body(g, s)]
  <2>2. ASSUME NEW s \in SUBSET (1 .. (k + 1)) PROVE f[s] = Body(f, s)
    <3>1. CASE s \in SUBSET (1 .. k) /\ s # {}
      <4>1. Max(s) \in s /\ s \ {Max(s)} \in SUBSET (1 .. k) /\ s \ {Max(s)} \in SUBSET (1 .. (k + 1))
        BY <3>1, LastPosition
      <4>2. f[s \ {Max(s)}] = g[s \ {Max(s)}] /\ f[s] = g[s]
        BY <3>1, <4>1
      <4>3. QED
        BY <2>1, <3>1, <4>2
    <3>2. CASE s = {}
      BY <2>1, <3>2
    <3>3. CASE s \notin SUBSET (1 .. k)
      <4>1. s # {} /\ s \ {Max(s)} \in SUBSET (1 .. k) /\ s \ {Max(s)} \in SUBSET (1 .. (k + 1))
        BY <3>3, LastOfFirst
      <4>2. f[s \ {Max(s)}] = g[s \ {Max(s)}] /\ f[s] = Body(g, s)
        BY <3>3, <4>1
      <4>3. QED
        BY <4>1, <4>2
    <3>4. QED
      BY <3>1, <3>2, <3>3
  <2>3. f = [s \in SUBSET (1 .. (k + 1)) |-> Body(f, s)]
    <3>1. f = [s \in SUBSET (1 .. (k + 1)) |-> f[s]]
      OBVIOUS
    <3> HIDE DEF f, Body
    <3>2. QED
      BY <2>2, <3>1
  <2>4. Runs(f, s0, steps, k + 1)
    BY <2>3 DEF Runs
  <2>5. QED
    <3> HIDE DEF f
    <3>1. QED
      BY <2>4
<1>3. n \in T
  <2> HIDE DEF T
  <2>1. QED
    BY <1>1, <1>2, NaturalsByStep
<1>4. QED
  BY <1>3

\* What a plan has done after each of its steps.
Progresses(h, s0, steps) ==
  /\ h[0] = s0
  /\ \A n \in 0 .. (Len(steps) - 1) : h[n + 1] = Execute(h[n], steps[n + 1])

\* The steps of a plan are executed one after the other.
LEMMA RunProgresses ==
  ASSUME NEW s0, NEW steps, Len(steps) \in Nat, DOMAIN steps = 1 .. Len(steps)
  PROVE  \E h : Progresses(h, s0, steps) /\ FoldLeft(Execute, s0, steps) = h[Len(steps)]
<1> DEFINE D == 1 .. Len(steps)
           Body(g, s) == IF s = {} THEN s0 ELSE Execute(g[s \ {Max(s)}], steps[Max(s)])
           it == CHOOSE g : g = [s \in SUBSET DOMAIN steps |-> Body(g, s)]
<1>1. FoldLeft(Execute, s0, steps) = it[1 .. Len(steps)]
  BY DEF FoldLeft, MapThenFoldSet
<1> HIDE DEF it
<1>2. \E g : g = [s \in SUBSET D |-> Body(g, s)]
  <2>1. PICK g : Runs(g, s0, steps, Len(steps))
    BY RunExists
  <2>2. g = [s \in SUBSET D |-> Body(g, s)]
    BY <2>1 DEF Runs
  <2>3. QED
    BY <2>2
<1>3. it = [s \in SUBSET D |-> Body(it, s)]
  <2> HIDE DEF Body
  <2>1. QED
    BY <1>2 DEF it
<1> DEFINE h == [n \in 0 .. Len(steps) |-> it[1 .. n]]
<1>7. h[0] = s0
  <2>1. 1 .. 0 = {} /\ {} \in SUBSET D /\ 0 \in 0 .. Len(steps)
    OBVIOUS
  <2>2. it[{}] = s0
    BY <1>3, <2>1
  <2>3. QED
    BY <2>1, <2>2
<1>8. ASSUME NEW n \in 0 .. (Len(steps) - 1) PROVE h[n + 1] = Execute(h[n], steps[n + 1])
  <2>1. n \in Nat /\ n \in 0 .. Len(steps) /\ n + 1 \in 0 .. Len(steps) /\ 1 .. (n + 1) \in SUBSET D /\ 1 .. (n + 1) # {}
    <3>1. n \in Nat /\ n + 1 <= Len(steps)
      OBVIOUS
    <3>2. n + 1 \in 1 .. (n + 1)
      BY <3>1
    <3>3. 1 .. (n + 1) \subseteq 1 .. Len(steps)
      BY <3>1
    <3>4. QED
      BY <3>1, <3>2, <3>3
  <2>2. Max(1 .. (n + 1)) = n + 1 /\ (1 .. (n + 1)) \ {n + 1} = 1 .. n
    BY <2>1, LastOfFirst
  <2>3. it[1 .. (n + 1)] = Execute(it[1 .. n], steps[n + 1])
    BY <1>3, <2>1, <2>2
  <2>4. QED
    BY <2>1, <2>3
<1>9. h[Len(steps)] = FoldLeft(Execute, s0, steps)
  <2>1. QED
    BY <1>1
<1>10. Progresses(h, s0, steps)
  <2> HIDE DEF h
  <2>1. QED
    BY <1>7, <1>8 DEF Progresses
<1>11. QED
  <2> HIDE DEF h
  <2>1. QED
    BY <1>9, <1>10

-----------------------------------------------------------------------------
(* Sequences of anything.                                                  *)

IsSeq(s) == \E S : s \in Seq(S)

\* What a sequence is.
LEMMA SeqShape ==
  ASSUME NEW s, IsSeq(s)
  PROVE  Len(s) \in Nat /\ DOMAIN s = 1 .. Len(s)
BY DEF IsSeq

\* One more element.
LEMMA SeqAppend ==
  ASSUME NEW s, IsSeq(s), NEW e
  PROVE  /\ IsSeq(Append(s, e)) /\ Len(Append(s, e)) = Len(s) + 1
         /\ Append(s, e)[Len(s) + 1] = e
         /\ \A i \in 1 .. Len(s) : Append(s, e)[i] = s[i]
<1>1. PICK S : s \in Seq(S)
  BY DEF IsSeq
<1>2. s \in Seq(S \cup {e}) /\ e \in S \cup {e}
  BY <1>1
<1>3. Append(s, e) \in Seq(S \cup {e})
  BY <1>2
<1>4. IsSeq(Append(s, e))
  BY <1>3 DEF IsSeq
<1>5. QED
  BY <1>2, <1>4

\* Two sequences, one after the other.
LEMMA SeqConcat ==
  ASSUME NEW a, IsSeq(a), NEW b, IsSeq(b)
  PROVE  /\ IsSeq(a \o b) /\ Len(a \o b) = Len(a) + Len(b)
         /\ \A i \in 1 .. Len(a) : (a \o b)[i] = a[i]
         /\ \A i \in 1 .. Len(b) : (a \o b)[Len(a) + i] = b[i]
<1>1. PICK S : a \in Seq(S)
  BY DEF IsSeq
<1>2. PICK T : b \in Seq(T)
  BY DEF IsSeq
<1>3. a \in Seq(S \cup T) /\ b \in Seq(S \cup T)
  BY <1>1, <1>2
<1>4. a \o b \in Seq(S \cup T)
  BY <1>3
<1>5. IsSeq(a \o b)
  BY <1>4 DEF IsSeq
<1>6. QED
  BY <1>3, <1>5

\* The beginning of a sequence.
LEMMA SeqPrefix ==
  ASSUME NEW s, IsSeq(s), NEW n \in 0 .. Len(s)
  PROVE  /\ IsSeq(SubSeq(s, 1, n)) /\ Len(SubSeq(s, 1, n)) = n
         /\ \A i \in 1 .. n : SubSeq(s, 1, n)[i] = s[i]
<1>1. PICK S : s \in Seq(S)
  BY DEF IsSeq
<1>2. SubSeq(s, 1, n) \in Seq(S)
  BY <1>1
<1>3. IsSeq(SubSeq(s, 1, n))
  BY <1>2 DEF IsSeq
<1>4. QED
  BY <1>1, <1>3

\* A function on the first positions is a sequence.
LEMMA SeqOfFunction ==
  ASSUME NEW n \in Nat, NEW f, f = [i \in 1 .. n |-> f[i]]
  PROVE  IsSeq(f) /\ Len(f) = n
<1> DEFINE S == {f[i] : i \in 1 .. n}
<1>1. f \in [1 .. n -> S]
  OBVIOUS
<1>2. f \in Seq(S)
  BY <1>1
<1>3. IsSeq(f)
  BY <1>2 DEF IsSeq
<1>4. QED
  BY <1>1, <1>3

\* Sequences written out.
LEMMA SeqLiteral ==
  ASSUME NEW a, NEW b, NEW c
  PROVE  /\ IsSeq(<<>>) /\ Len(<<>>) = 0
         /\ IsSeq(<<a>>) /\ Len(<<a>>) = 1 /\ <<a>>[1] = a
         /\ IsSeq(<<a, b>>) /\ Len(<<a, b>>) = 2 /\ <<a, b>>[1] = a /\ <<a, b>>[2] = b
         /\ IsSeq(<<a, b, c>>) /\ Len(<<a, b, c>>) = 3
         /\ <<a, b, c>>[1] = a /\ <<a, b, c>>[2] = b /\ <<a, b, c>>[3] = c
<1> DEFINE S == {a, b, c}
<1>1. <<>> \in Seq(S) /\ <<a>> \in Seq(S) /\ <<a, b>> \in Seq(S) /\ <<a, b, c>> \in Seq(S)
  OBVIOUS
<1> HIDE DEF S
<1>2. IsSeq(<<>>) /\ IsSeq(<<a>>) /\ IsSeq(<<a, b>>) /\ IsSeq(<<a, b, c>>)
  BY <1>1 DEF IsSeq
<1>3. QED
  BY <1>2

\* A sequence written out, from its elements.
LEMMA LiteralConcat ==
  ASSUME NEW a, NEW b, NEW c
  PROVE  <<a, b>> = <<a>> \o <<b>> /\ <<a, b, c>> = <<a, b>> \o <<c>>
<1> DEFINE S == {a, b, c}
<1>1. <<a>> \in Seq(S) /\ <<b>> \in Seq(S) /\ <<c>> \in Seq(S) /\ <<a, b>> \in Seq(S) /\ <<a, b, c>> \in Seq(S)
  OBVIOUS
<1> HIDE DEF S
<1>2. ASSUME NEW s \in Seq(S), NEW t \in Seq(S), Len(s) = Len(t), \A i \in 1 .. Len(s) : s[i] = t[i]
      PROVE  s = t
  BY <1>2
<1> DEFINE ab == <<a>> \o <<b>>
           abc == <<a, b>> \o <<c>>
<1>3. ab \in Seq(S) /\ Len(ab) = 2 /\ ab[1] = a /\ ab[2] = b
  BY <1>1
<1>4. <<a, b>> = ab
  <2> HIDE DEF ab
  <2>1. \A i \in 1 .. Len(<<a, b>>) : <<a, b>>[i] = ab[i]
    BY <1>3
  <2>2. QED
    BY <1>1, <1>2, <1>3, <2>1
<1> HIDE DEF ab
<1>5. abc \in Seq(S) /\ Len(abc) = 3 /\ abc[1] = a /\ abc[2] = b /\ abc[3] = c
  <2> DEFINE x == <<a, b>>
             y == <<c>>
  <2>1. x \in Seq(S) /\ y \in Seq(S) /\ Len(x) = 2 /\ Len(y) = 1 /\ x[1] = a /\ x[2] = b /\ y[1] = c
    BY <1>1
  <2> HIDE DEF x, y
  <2>2. x \o y \in Seq(S) /\ Len(x \o y) = 3 /\ (x \o y)[1] = a /\ (x \o y)[2] = b /\ (x \o y)[3] = c
    <3>1. IsSeq(x) /\ IsSeq(y) /\ x \o y \in Seq(S)
      BY <2>1 DEF IsSeq
    <3> DEFINE z == x \o y
    <3>2. /\ Len(z) = Len(x) + Len(y) /\ (\A i \in 1 .. Len(x) : z[i] = x[i])
          /\ \A i \in 1 .. Len(y) : z[Len(x) + i] = y[i]
      BY <3>1, SeqConcat
    <3> HIDE DEF z
    <3>3. z[1] = a /\ z[2] = b /\ z[2 + 1] = c
      BY <2>1, <3>2
    <3>4. QED
      BY <2>1, <3>1, <3>2, <3>3 DEF z
  <2>3. QED
    BY <2>2 DEF x, y
<1> HIDE DEF abc
<1>6. \A i \in 1 .. Len(<<a, b, c>>) : <<a, b, c>>[i] = abc[i]
  BY <1>5
<1>7. <<a, b, c>> = abc
  BY <1>1, <1>2, <1>5, <1>6
<1>8. QED
  BY <1>4, <1>7 DEF ab, abc

-----------------------------------------------------------------------------
(* The tables of a log that grows.                                         *)

\* Two rebuilds agree where their logs do.
LEMMA FollowsAgree ==
  ASSUME NEW a, NEW b, NEW f, NEW g, Len(a) \in Nat, Len(b) \in Nat, Len(a) <= Len(b),
         Follows(f, a), Follows(g, b), \A i \in 1 .. Len(a) : a[i] = b[i]
  PROVE  \A n \in 0 .. Len(a) : f[n] = g[n]
<1> DEFINE T == {n \in Nat : n <= Len(a) => f[n] = g[n]}
<1>1. 0 \in T
  BY DEF Follows
<1>2. ASSUME NEW n \in Nat, n \in T PROVE n + 1 \in T
  <2> SUFFICES ASSUME n + 1 <= Len(a) PROVE f[n + 1] = g[n + 1]
    OBVIOUS
  <2>1. n \in 0 .. (Len(a) - 1) /\ n \in 0 .. (Len(b) - 1) /\ n + 1 \in 1 .. Len(a)
    OBVIOUS
  <2>2. f[n] = g[n] /\ a[n + 1] = b[n + 1]
    BY <1>2, <2>1
  <2>3. QED
    BY <2>1, <2>2 DEF Follows
<1>3. Nat \subseteq T
  <2> HIDE DEF T
  <2>1. QED
    BY <1>1, <1>2, NaturalsByStep
<1>4. QED
  BY <1>3

\* The tables of an empty log are empty.
LEMMA RebuildEmpty ==
  ASSUME NEW lg, Len(lg) = 0
  PROVE  RebuildViews(lg) = NoViews
<1>1. PICK h : Follows(h, lg) /\ RebuildViews(lg) = h[Len(lg)]
  BY RebuildFollows
<1>2. QED
  BY <1>1 DEF Follows

\* One more event is one more step.
LEMMA RebuildAppend ==
  ASSUME NEW lg, IsSeq(lg), NEW e
  PROVE  RebuildViews(Append(lg, e)) = ApplyEvent(RebuildViews(lg), e, Len(lg) + 1)
<1> DEFINE more == Append(lg, e)
<1>1. Len(lg) \in Nat /\ Len(more) = Len(lg) + 1 /\ Len(more) \in Nat /\ more[Len(lg) + 1] = e
      /\ \A i \in 1 .. Len(lg) : more[i] = lg[i]
  BY SeqShape, SeqAppend
<1> HIDE DEF more
<1>2. PICK f : Follows(f, lg) /\ RebuildViews(lg) = f[Len(lg)]
  BY <1>1, RebuildFollows
<1>3. PICK g : Follows(g, more) /\ RebuildViews(more) = g[Len(more)]
  BY <1>1, RebuildFollows
<1>4. Len(lg) <= Len(more) /\ \A i \in 1 .. Len(lg) : lg[i] = more[i]
  BY <1>1
<1>5. \A n \in 0 .. Len(lg) : f[n] = g[n]
  BY <1>1, <1>2, <1>3, <1>4, FollowsAgree
<1>6. f[Len(lg)] = g[Len(lg)] /\ Len(lg) \in 0 .. (Len(more) - 1)
  BY <1>1, <1>5
<1>7. g[Len(lg) + 1] = ApplyEvent(g[Len(lg)], more[Len(lg) + 1], Len(lg) + 1)
  BY <1>3, <1>6 DEF Follows
<1>8. QED
  BY <1>1, <1>2, <1>3, <1>6, <1>7 DEF more

-----------------------------------------------------------------------------
(* Events and the rows they leave.                                         *)

\* The revisions an event names.
KeysOf(e) == Retain(e.rv, e.resolved).keys

\* An event of a known kind, with the fields that the tables need.
Formed(e) ==
  /\ {"kind", "rv", "form"} \subseteq DOMAIN e /\ e.kind \in EventKinds
  /\ e.kind \in Naming => "resolved" \in DOMAIN e
  /\ e.kind \in Naming \ {"ReviewChecked"} =>
       \A p \in DOMAIN e.resolved : {"base", "head"} \subseteq DOMAIN e.resolved[p]

\* An event whose revisions are kept.
Good(e, kept) == Formed(e) /\ (e.kind \in Naming => KeysOf(e) \subseteq kept)

\* A log of such events, each where it may stand.
GoodLog(lg, kept) ==
  /\ IsSeq(lg)
  /\ \A n \in 1 .. Len(lg) : Good(lg[n], kept)
  /\ \A n \in 1 .. Len(lg) : Placed(lg[n], CreatedReviews(lg, n - 1))

\* Resolved targets whose revisions are kept.
Kept(rv, r, kept) ==
  \A p \in DOMAIN r : /\ {"base", "head"} \subseteq DOMAIN r[p]
                      /\ <<rv, p, r[p].base.tree>> \in kept /\ <<rv, p, r[p].head.tree>> \in kept

\* Tables with every column, finitely many comments, all of reviews, and rows whose revisions are kept.
Rows(v, kept) ==
  /\ DOMAIN v = DOMAIN NoViews
  /\ IsFiniteSet(DOMAIN v.comments)
  /\ \A k \in DOMAIN v.comments \cup DOMAIN v.threads : k[1] \in DOMAIN v.reviews
  /\ \A rv \in DOMAIN v.reviews : {"ws", "resolved"} \subseteq DOMAIN v.reviews[rv] /\ Kept(rv, v.reviews[rv].resolved, kept)
  /\ \A k \in DOMAIN v.requests : "targets" \in DOMAIN v.requests[k] /\ Kept(k[1], v.requests[k].targets, kept)

\* Events that leave the rows of reviews and requests, and which comments and threads there are.
SameRows(v, w) ==
  /\ DOMAIN w = DOMAIN v /\ w.reviews = v.reviews /\ w.requests = v.requests
  /\ DOMAIN w.comments = DOMAIN v.comments /\ DOMAIN w.threads = DOMAIN v.threads

\* What a good event names is kept.
LEMMA GoodKept ==
  ASSUME NEW e, NEW kept, Good(e, kept), e.kind \in Naming \ {"ReviewChecked"}
  PROVE  Kept(e.rv, e.resolved, kept)
<1>1. KeysOf(e) \subseteq kept /\ \A p \in DOMAIN e.resolved : {"base", "head"} \subseteq DOMAIN e.resolved[p]
  BY DEF Good, Formed
<1>2. QED
  BY <1>1 DEF Kept, KeysOf, Retain, Keep

\* Rows that are the same are kept the same.
LEMMA SameRowsKept ==
  ASSUME NEW v, NEW w, NEW kept, Rows(v, kept), SameRows(v, w)
  PROVE  Rows(w, kept)
BY DEF Rows, SameRows

\* An event keeps the rows' revisions kept: reviews.
LEMMA ReviewRows ==
  ASSUME NEW v, NEW kept, NEW e, Rows(v, kept), Good(e, kept),
         e.kind \in {"ReviewCreated", "ReviewUpdated", "ReviewTargetUpdated", "ReviewDeleted", "ReviewTargetsResolved"}
  PROVE  Rows(ApplyReviewEvent(v, e), kept)
<1> DEFINE w == ApplyReviewEvent(v, e)
<1>0. DOMAIN v = DOMAIN NoViews
  BY DEF Rows
<1>1. DOMAIN w = DOMAIN v /\ w.requests = v.requests /\ w.comments = v.comments /\ w.threads = v.threads
  BY <1>0 DEF ApplyReviewEvent, NoViews
<1>2. \A rv \in DOMAIN w.reviews : {"ws", "resolved"} \subseteq DOMAIN w.reviews[rv] /\ Kept(rv, w.reviews[rv].resolved, kept)
  <2>1. CASE e.kind = "ReviewCreated"
    <3>1. w.reviews = Put(v.reviews, e.rv, [ws |-> e.ws, status |-> "Open", targets |-> e.targets,
                                            resolved |-> NoRow, live |-> TRUE])
      BY <1>0, <2>1 DEF ApplyReviewEvent, NoViews
    <3>2. Kept(e.rv, NoRow, kept)
      BY DEF Kept, NoRow
    <3>3. QED
      BY <3>1, <3>2 DEF Put, Rows
  <2>2. CASE e.kind = "ReviewUpdated"
    <3>1. w.reviews = [v.reviews EXCEPT ![e.rv].status = e.status]
      BY <1>0, <2>2 DEF ApplyReviewEvent, NoViews
    <3>2. QED
      BY <3>1 DEF Rows
  <2>3. CASE e.kind = "ReviewTargetUpdated"
    <3>1. w.reviews = [v.reviews EXCEPT ![e.rv].targets[e.repo] = e.target]
      BY <1>0, <2>3 DEF ApplyReviewEvent, NoViews
    <3>2. QED
      BY <3>1 DEF Rows
  <2>4. CASE e.kind = "ReviewDeleted"
    <3>1. w.reviews = [v.reviews EXCEPT ![e.rv].live = FALSE]
      BY <1>0, <2>4 DEF ApplyReviewEvent, NoViews
    <3>2. QED
      BY <3>1 DEF Rows
  <2>5. CASE e.kind = "ReviewTargetsResolved"
    <3>1. w.reviews = [v.reviews EXCEPT ![e.rv].resolved = e.resolved]
      BY <1>0, <2>5 DEF ApplyReviewEvent, NoViews
    <3>2. Kept(e.rv, e.resolved, kept)
      BY <2>5, GoodKept DEF Naming
    <3>3. QED
      BY <3>1, <3>2 DEF Rows
  <2>6. QED
    BY <2>1, <2>2, <2>3, <2>4, <2>5
<1>3. DOMAIN v.reviews \subseteq DOMAIN w.reviews
  BY <1>0 DEF ApplyReviewEvent, NoViews, Put
<1>4. QED
  BY <1>1, <1>2, <1>3 DEF Rows

\* An event keeps the rows' revisions kept: discussions.
LEMMA CommentRows ==
  ASSUME NEW v, NEW kept, NEW e, NEW seq, Rows(v, kept), Placed(e, DOMAIN v.reviews),
         e.kind \in {"CommentCreated", "CommentEdited", "CommentDeleted", "CommentReanchored",
                     "ThreadDeferred", "ThreadResolved", "ThreadUnresolved"}
  PROVE  Rows(ApplyEvent(v, e, seq), kept)
<1> DEFINE w == ApplyEvent(v, e, seq)
<1>0. DOMAIN v = DOMAIN NoViews
  BY DEF Rows
<1>1. CASE e.kind = "CommentCreated"
  <2>1. w = CommentCreated(v, e)
    BY <1>1 DEF ApplyEvent, Disposals
  <2>2. DOMAIN w = DOMAIN v /\ w.reviews = v.reviews /\ w.requests = v.requests
    BY <1>0, <2>1 DEF CommentCreated, NoViews
  <2>3. /\ DOMAIN w.comments = DOMAIN v.comments \cup {<<e.rv, e.comment>>}
        /\ DOMAIN w.threads = DOMAIN v.threads \cup {<<e.rv, e.thread>>}
    BY <1>0, <2>1 DEF CommentCreated, NoViews, Put
  <2>4. IsFiniteSet(DOMAIN w.comments)
    <3>1. IsFiniteSet(DOMAIN v.comments)
      BY DEF Rows
    <3>2. IsFiniteSet(DOMAIN v.comments \cup {<<e.rv, e.comment>>})
      BY <3>1, FS_AddElement
    <3>3. QED
      BY <2>3, <3>2
  <2>5. e.rv \in DOMAIN v.reviews
    BY <1>1 DEF Placed, AboutReview, EventKinds
  <2>6. QED
    BY <2>2, <2>3, <2>4, <2>5 DEF Rows
<1>2. CASE e.kind \in {"CommentEdited", "CommentDeleted", "CommentReanchored"}
  <2>1. w = ApplyCommentEvent(v, e, seq)
    BY <1>2 DEF ApplyEvent, Disposals
  <2>2. SameRows(v, w)
    BY <1>0, <1>2, <2>1 DEF ApplyCommentEvent, NoViews, SameRows
  <2>3. QED
    BY <2>2, SameRowsKept
<1>3. CASE e.kind \in Disposals
  <2>1. w = ApplyThreadEvent(v, e)
    BY <1>3 DEF ApplyEvent, Disposals
  <2>2. SameRows(v, w)
    BY <1>0, <2>1 DEF ApplyThreadEvent, NoViews, SameRows
  <2>3. QED
    BY <2>2, SameRowsKept
<1>4. QED
  BY <1>1, <1>2, <1>3 DEF Disposals

\* An event keeps the rows' revisions kept: marks, requests, checkpoints, suggestions.
LEMMA RoundRows ==
  ASSUME NEW v, NEW kept, NEW e, NEW seq, Rows(v, kept), Good(e, kept),
         e.kind \in {"FileViewed", "FileUnviewed", "ReviewRequested", "ReviewChecked", "SuggestionApplied"}
  PROVE  Rows(ApplyEvent(v, e, seq), kept)
<1> DEFINE w == ApplyEvent(v, e, seq)
<1>0. DOMAIN v = DOMAIN NoViews
  BY DEF Rows
<1>1. w = ApplyRoundEvent(v, e, seq)
  BY DEF ApplyEvent, Disposals
<1>2. CASE e.kind = "ReviewRequested"
  <2>1. DOMAIN w = DOMAIN v /\ w.reviews = v.reviews /\ w.comments = v.comments
        /\ w.threads = v.threads /\ w.requests = Put(v.requests, <<e.rv, seq>>, [agent |-> e.agent, targets |-> e.resolved])
    BY <1>0, <1>1, <1>2 DEF ApplyRoundEvent, NoViews
  <2>2. Kept(e.rv, e.resolved, kept)
    BY <1>2, GoodKept DEF Naming
  <2>3. \A k \in DOMAIN w.requests : "targets" \in DOMAIN w.requests[k] /\ Kept(k[1], w.requests[k].targets, kept)
    BY <2>1, <2>2 DEF Put, Rows
  <2>4. QED
    BY <2>1, <2>3 DEF Rows
<1>3. CASE e.kind # "ReviewRequested"
  <2>1. SameRows(v, w)
    BY <1>0, <1>1, <1>3 DEF ApplyRoundEvent, NoViews, SameRows
  <2>2. QED
    BY <2>1, SameRowsKept
<1>4. QED
  BY <1>2, <1>3

\* An event keeps the rows' revisions kept.
LEMMA RowsApply ==
  ASSUME NEW v, NEW kept, NEW e, NEW seq, Rows(v, kept), Good(e, kept), Placed(e, DOMAIN v.reviews)
  PROVE  Rows(ApplyEvent(v, e, seq), kept)
<1> DEFINE w == ApplyEvent(v, e, seq)
<1>0. DOMAIN v = DOMAIN NoViews /\ e.kind \in EventKinds
  BY DEF Rows, Good, Formed
<1>1. CASE e.kind \in {"WorkspaceCreated", "WorkspaceUpdated", "RepoAttached", "RepoDetached"}
  <2>1. SameRows(v, w)
    BY <1>0, <1>1 DEF ApplyEvent, NoViews, SameRows, Disposals
  <2>2. QED
    BY <2>1, SameRowsKept
<1>2. CASE e.kind \in {"ReviewCreated", "ReviewUpdated", "ReviewTargetUpdated", "ReviewDeleted", "ReviewTargetsResolved"}
  <2>1. w = ApplyReviewEvent(v, e)
    BY <1>2 DEF ApplyEvent, Disposals
  <2>2. QED
    BY <1>2, <2>1, ReviewRows
<1>3. QED
  BY <1>0, <1>1, <1>2, CommentRows, RoundRows DEF EventKinds

\* What an event changes of which reviews there are, and of which workspace.
LEMMA ReviewsApply ==
  ASSUME NEW v, NEW kept, NEW e, NEW seq, Rows(v, kept), Good(e, kept)
  PROVE  LET w == ApplyEvent(v, e, seq)
             new == IF e.kind = "ReviewCreated" THEN {e.rv} ELSE {}
         IN /\ DOMAIN w.reviews = DOMAIN v.reviews \cup new
            /\ e.kind = "ReviewCreated" => w.reviews[e.rv].ws = e.ws
            /\ \A rv \in DOMAIN v.reviews \ new : w.reviews[rv].ws = v.reviews[rv].ws
<1> DEFINE w == ApplyEvent(v, e, seq)
<1>0. /\ DOMAIN v = DOMAIN NoViews /\ e.kind \in EventKinds
      /\ \A rv \in DOMAIN v.reviews : "ws" \in DOMAIN v.reviews[rv]
  BY DEF Rows, Good, Formed
<1>1. CASE e.kind \in {"ReviewCreated", "ReviewUpdated", "ReviewTargetUpdated", "ReviewDeleted", "ReviewTargetsResolved"}
  <2>1. w = ApplyReviewEvent(v, e)
    BY <1>1 DEF ApplyEvent, Disposals
  <2>2. w.reviews = CASE e.kind = "ReviewCreated" ->
                           Put(v.reviews, e.rv, [ws |-> e.ws, status |-> "Open", targets |-> e.targets,
                                                 resolved |-> NoRow, live |-> TRUE])
                      [] e.kind = "ReviewUpdated" -> [v.reviews EXCEPT ![e.rv].status = e.status]
                      [] e.kind = "ReviewTargetUpdated" -> [v.reviews EXCEPT ![e.rv].targets[e.repo] = e.target]
                      [] e.kind = "ReviewDeleted" -> [v.reviews EXCEPT ![e.rv].live = FALSE]
                      [] e.kind = "ReviewTargetsResolved" -> [v.reviews EXCEPT ![e.rv].resolved = e.resolved]
    BY <1>0, <1>1, <2>1 DEF ApplyReviewEvent, NoViews
  <2> HIDE DEF w
  <2>3. QED
    BY <1>0, <1>1, <2>2 DEF Put, w
<1>2. CASE e.kind \notin {"ReviewCreated", "ReviewUpdated", "ReviewTargetUpdated", "ReviewDeleted", "ReviewTargetsResolved"}
  <2>1. w.reviews = v.reviews
    <3>1. CASE e.kind \in {"WorkspaceCreated", "WorkspaceUpdated", "RepoAttached", "RepoDetached"}
      BY <1>0, <3>1 DEF ApplyEvent, NoViews, Disposals
    <3>2. CASE e.kind = "CommentCreated"
      BY <1>0, <3>2 DEF ApplyEvent, CommentCreated, NoViews, Disposals
    <3>3. CASE e.kind \in {"CommentEdited", "CommentDeleted", "CommentReanchored"}
      BY <1>0, <3>3 DEF ApplyEvent, ApplyCommentEvent, NoViews, Disposals
    <3>4. CASE e.kind \in Disposals
      BY <1>0, <3>4 DEF ApplyEvent, ApplyThreadEvent, NoViews, Disposals
    <3>5. CASE e.kind \in {"FileViewed", "FileUnviewed", "ReviewRequested", "ReviewChecked", "SuggestionApplied"}
      BY <1>0, <3>5 DEF ApplyEvent, ApplyRoundEvent, NoViews, Disposals
    <3>6. QED
      BY <1>0, <1>2, <3>1, <3>2, <3>3, <3>4, <3>5 DEF EventKinds, Disposals
  <2>2. QED
    BY <1>2, <2>1
<1>3. QED
  BY <1>1, <1>2

\* One more event, and the reviews that a log has created.
LEMMA CreatedNext ==
  ASSUME NEW lg, NEW n \in Nat
  PROVE  CreatedReviews(lg, n + 1) =
           CreatedReviews(lg, n) \cup (IF lg[n + 1].kind = "ReviewCreated" THEN {lg[n + 1].rv} ELSE {})
<1>1. \A i : i \in 1 .. (n + 1) <=> i \in 1 .. n \/ i = n + 1
  OBVIOUS
<1>2. QED
  BY <1>1 DEF CreatedReviews

\* Two logs that begin alike have created the same reviews so far.
LEMMA CreatedAlike ==
  ASSUME NEW lg, NEW more, NEW n, \A i \in 1 .. n : lg[i].kind = more[i].kind /\ lg[i].rv = more[i].rv
  PROVE  CreatedReviews(lg, n) = CreatedReviews(more, n)
BY DEF CreatedReviews

\* The rows of a good log: what its events name is kept, and each review has the workspace of its creation.
LEMMA RebuildRows ==
  ASSUME NEW lg, NEW kept, GoodLog(lg, kept)
  PROVE  /\ Rows(RebuildViews(lg), kept)
         /\ DOMAIN RebuildViews(lg).reviews = CreatedReviews(lg, Len(lg))
         /\ \A i \in 1 .. Len(lg) :
              lg[i].kind = "ReviewCreated" => RebuildViews(lg).reviews[lg[i].rv].ws = lg[i].ws
<1>1. Len(lg) \in Nat
  BY SeqShape DEF GoodLog
<1>2. PICK h : Follows(h, lg) /\ RebuildViews(lg) = h[Len(lg)]
  BY <1>1, RebuildFollows
<1> DEFINE Told(n) == /\ Rows(h[n], kept) /\ DOMAIN h[n].reviews = CreatedReviews(lg, n)
                      /\ \A i \in 1 .. n : lg[i].kind = "ReviewCreated" => h[n].reviews[lg[i].rv].ws = lg[i].ws
           T == {n \in Nat : n <= Len(lg) => Told(n)}
<1>3. 0 \in T
  <2>1. DOMAIN NoRow = {}
    BY DEF NoRow
  <2>2. Rows(NoViews, kept)
    BY <2>1, FS_EmptySet DEF Rows, NoViews
  <2>3. DOMAIN NoViews.reviews = {} /\ CreatedReviews(lg, 0) = {}
    BY <2>1 DEF NoViews, CreatedReviews
  <2>4. h[0] = NoViews
    BY <1>2 DEF Follows
  <2>5. Told(0)
    BY <2>2, <2>3, <2>4
  <2> HIDE DEF Told
  <2>6. QED
    BY <2>5
<1>4. ASSUME NEW n \in Nat, n \in T PROVE n + 1 \in T
  <2> SUFFICES ASSUME n + 1 <= Len(lg) PROVE Told(n + 1)
    OBVIOUS
  <2>1. n \in 0 .. (Len(lg) - 1) /\ n + 1 \in 1 .. Len(lg) /\ Told(n) /\ n + 1 - 1 = n
    BY <1>1, <1>4
  <2> DEFINE e == lg[n + 1]
             v == h[n]
  <2>2. Good(e, kept) /\ Placed(e, DOMAIN v.reviews)
    BY <2>1 DEF GoodLog
  <2>3. h[n + 1] = ApplyEvent(v, e, n + 1)
    BY <1>2, <2>1 DEF Follows
  <2>4. CreatedReviews(lg, n + 1) = CreatedReviews(lg, n) \cup (IF e.kind = "ReviewCreated" THEN {e.rv} ELSE {})
    BY CreatedNext
  <2>5. \A i \in 1 .. n : lg[i].kind = "ReviewCreated" => lg[i].rv \in CreatedReviews(lg, n)
    BY DEF CreatedReviews
  <2>6. \A i \in 1 .. (n + 1) : i \in 1 .. n \/ i = n + 1
    OBVIOUS
  <2> HIDE DEF v, e
  <2>7. Rows(v, kept) /\ DOMAIN v.reviews = CreatedReviews(lg, n)
        /\ \A i \in 1 .. n : lg[i].kind = "ReviewCreated" => v.reviews[lg[i].rv].ws = lg[i].ws
    BY <2>1 DEF v
  <2>8. Rows(ApplyEvent(v, e, n + 1), kept)
    BY <2>2, <2>7, RowsApply
  <2>9. LET w == ApplyEvent(v, e, n + 1)
            new == IF e.kind = "ReviewCreated" THEN {e.rv} ELSE {}
        IN /\ DOMAIN w.reviews = DOMAIN v.reviews \cup new
           /\ e.kind = "ReviewCreated" => w.reviews[e.rv].ws = e.ws
           /\ \A rv \in DOMAIN v.reviews \ new : w.reviews[rv].ws = v.reviews[rv].ws
    BY <2>2, <2>7, ReviewsApply
  <2>10. e.kind = "ReviewCreated" => e.rv \notin DOMAIN v.reviews
    BY <2>2 DEF Placed
  <2>11. QED
    BY <2>3, <2>4, <2>5, <2>6, <2>7, <2>8, <2>9, <2>10 DEF e
<1>5. Nat \subseteq T
  <2> HIDE DEF T
  <2>1. QED
    BY <1>3, <1>4, NaturalsByStep
<1>6. QED
  BY <1>1, <1>2, <1>5

-----------------------------------------------------------------------------
(* Plans.                                                                  *)

\* The events of a log have shapes of their schema.
Written(lg, s) == \A n \in 1 .. Len(lg) : lg[n].form \in FormsAt(lg[n].kind, s)

\* A step appends nothing, or an event of today.
Proper(st) == st.event.kind # "-" => Formed(st.event) /\ st.event.form = "now"

\* The reviews that the first n steps of a plan create.
Creates(steps, n) == {steps[i].event.rv : i \in {j \in 1 .. n : steps[j].event.kind = "ReviewCreated"}}

\* A plan for a store with these reviews before and after it.  It keeps the revisions that an event names just
\* before it, and creates a review before any other event of it.
Orderly(steps, before, after) ==
  /\ IsSeq(steps)
  /\ after = before \cup Creates(steps, Len(steps))
  /\ \A j \in 1 .. Len(steps) : Proper(steps[j])
  /\ \A j \in 1 .. Len(steps) :
       steps[j].event.kind # "-" => Placed(steps[j].event, before \cup Creates(steps, j - 1))
  /\ \A j \in 1 .. Len(steps) :
       steps[j].event.kind \in Naming => j > 1 /\ KeysOf(steps[j].event) \subseteq steps[j - 1].keys

\* What the store may rely on between two steps of a plan.
Sound(x) ==
  /\ x.views = RebuildViews(x.log)
  /\ GoodLog(x.log, x.retained)
  /\ Written(x.log, CURRENT)

\* Today's shape is one that today's types decode.
LEMMA NowDecodes ==
  ASSUME NEW kind
  PROVE  "now" \in FormsAt(kind, CURRENT)
BY DEF FormsAt, CURRENT

\* A log stays good when more is kept.
LEMMA GoodGrows ==
  ASSUME NEW lg, NEW kept, NEW more, kept \subseteq more, GoodLog(lg, kept)
  PROVE  GoodLog(lg, more)
BY DEF GoodLog, Good

\* A step keeps the tables a fold of the log, and what is named kept.
LEMMA ExecuteSound ==
  ASSUME NEW x, Sound(x), NEW st, Proper(st), st.event.kind \in Naming => KeysOf(st.event) \subseteq x.retained,
         st.event.kind # "-" => Placed(st.event, CreatedReviews(x.log, Len(x.log)))
  PROVE  /\ Sound(Execute(x, st))
         /\ \A i \in 1 .. Len(x.log) : Execute(x, st).log[i] = x.log[i]
         /\ CreatedReviews(Execute(x, st).log, Len(Execute(x, st).log)) =
              CreatedReviews(x.log, Len(x.log))
                \cup (IF st.event.kind = "ReviewCreated" THEN {st.event.rv} ELSE {})
         /\ Len(Execute(x, st).log) \in Nat /\ Len(Execute(x, st).log) >= Len(x.log)
         /\ x.retained \subseteq Execute(x, st).retained /\ st.keys \subseteq Execute(x, st).retained
<1> DEFINE y == Execute(x, st)
<1>0. IsSeq(x.log) /\ Len(x.log) \in Nat
  BY SeqShape DEF Sound, GoodLog
<1>1. y.retained = x.retained \cup st.keys
  BY DEF Execute
<1>2. GoodLog(x.log, y.retained)
  BY <1>1, GoodGrows DEF Sound
<1>3. CASE st.event.kind = "-"
  <2>1. y.log = x.log /\ y.views = x.views
    BY <1>3 DEF Execute
  <2>2. Sound(y)
    BY <1>2, <2>1 DEF Sound
  <2>3. (IF st.event.kind = "ReviewCreated" THEN {st.event.rv} ELSE {}) = {}
    BY <1>3
  <2>4. CreatedReviews(y.log, Len(y.log)) =
          CreatedReviews(x.log, Len(x.log)) \cup (IF st.event.kind = "ReviewCreated" THEN {st.event.rv} ELSE {})
    <3> HIDE DEF y
    <3>1. QED
      BY <2>1, <2>3
  <2>5. QED
    BY <1>0, <1>1, <2>1, <2>2, <2>4
<1>4. CASE st.event.kind # "-"
  <2>1. y.log = Append(x.log, st.event) /\ y.views = ApplyEvent(x.views, st.event, Len(x.log) + 1)
    BY <1>4 DEF Execute
  <2>2. y.views = RebuildViews(y.log)
    BY <1>0, <2>1, RebuildAppend DEF Sound
  <2>3. /\ IsSeq(y.log) /\ Len(y.log) = Len(x.log) + 1 /\ y.log[Len(x.log) + 1] = st.event
        /\ \A i \in 1 .. Len(x.log) : y.log[i] = x.log[i]
    BY <1>0, <2>1, SeqAppend
  <2>4. Good(st.event, y.retained)
    BY <1>1, <1>4 DEF Proper, Good
  <2> HIDE DEF y
  <2>5. \A n \in 1 .. Len(y.log) : n \in 1 .. Len(x.log) \/ n = Len(x.log) + 1
    BY <1>0, <2>3
  <2>6. GoodLog(y.log, y.retained)
    <3>1. ASSUME NEW n \in 1 .. Len(y.log) PROVE Placed(y.log[n], CreatedReviews(y.log, n - 1))
      <4>1. \A i \in 1 .. (n - 1) : y.log[i] = x.log[i]
        BY <1>0, <2>3
      <4>2. CreatedReviews(y.log, n - 1) = CreatedReviews(x.log, n - 1)
        BY <4>1, CreatedAlike
      <4>3. n = Len(x.log) + 1 => n - 1 = Len(x.log)
        BY <1>0
      <4>4. QED
        BY <1>2, <1>4, <2>3, <2>5, <4>2, <4>3 DEF GoodLog
    <3>2. QED
      BY <1>2, <2>3, <2>4, <2>5, <3>1 DEF GoodLog
  <2>7. st.event.form \in FormsAt(st.event.kind, CURRENT)
    BY <1>4, NowDecodes DEF Proper
  <2>8. Written(y.log, CURRENT)
    BY <2>3, <2>5, <2>7 DEF Sound, Written
  <2>9. Sound(y)
    BY <2>2, <2>6, <2>8 DEF Sound
  <2>10. CreatedReviews(y.log, Len(y.log)) =
           CreatedReviews(x.log, Len(x.log)) \cup (IF st.event.kind = "ReviewCreated" THEN {st.event.rv} ELSE {})
    <3>1. CreatedReviews(y.log, Len(x.log)) = CreatedReviews(x.log, Len(x.log))
      BY <2>3, CreatedAlike
    <3>2. CreatedReviews(y.log, Len(x.log) + 1) =
            CreatedReviews(y.log, Len(x.log))
              \cup (IF y.log[Len(x.log) + 1].kind = "ReviewCreated" THEN {y.log[Len(x.log) + 1].rv} ELSE {})
      BY <1>0, CreatedNext
    <3>3. QED
      BY <2>3, <3>1, <3>2
  <2>11. QED
    BY <1>0, <1>1, <2>3, <2>9, <2>10 DEF y
<1>5. QED
  BY <1>3, <1>4

\* So does a whole plan, and so does any beginning of it.
LEMMA RunSound ==
  ASSUME NEW s0, Sound(s0), NEW steps, NEW after, Orderly(steps, CreatedReviews(s0.log, Len(s0.log)), after)
  PROVE  /\ Sound(FoldLeft(Execute, s0, steps))
         /\ \A i \in 1 .. Len(s0.log) : FoldLeft(Execute, s0, steps).log[i] = s0.log[i]
         /\ Len(FoldLeft(Execute, s0, steps).log) \in Nat
         /\ Len(FoldLeft(Execute, s0, steps).log) >= Len(s0.log)
         /\ s0.retained \subseteq FoldLeft(Execute, s0, steps).retained
<1>0. Len(steps) \in Nat /\ DOMAIN steps = 1 .. Len(steps) /\ Len(s0.log) \in Nat
  BY SeqShape DEF Orderly, Sound, GoodLog
<1>1. PICK h : Progresses(h, s0, steps) /\ FoldLeft(Execute, s0, steps) = h[Len(steps)]
  BY <1>0, RunProgresses
<1> DEFINE Holds(n) == /\ Sound(h[n]) /\ Len(h[n].log) \in Nat /\ Len(h[n].log) >= Len(s0.log)
                       /\ s0.retained \subseteq h[n].retained
                       /\ \A i \in 1 .. Len(s0.log) : h[n].log[i] = s0.log[i]
                       /\ CreatedReviews(h[n].log, Len(h[n].log)) =
                            CreatedReviews(s0.log, Len(s0.log)) \cup Creates(steps, n)
                       /\ n > 0 => steps[n].keys \subseteq h[n].retained
           T == {n \in Nat : n <= Len(steps) => Holds(n)}
<1>2. 0 \in T
  <2>1. Creates(steps, 0) = {}
    BY DEF Creates
  <2>2. QED
    BY <1>0, <1>1, <2>1 DEF Progresses
<1>3. ASSUME NEW n \in Nat, n \in T PROVE n + 1 \in T
  <2> SUFFICES ASSUME n + 1 <= Len(steps) PROVE Holds(n + 1)
    OBVIOUS
  <2>1. n \in 0 .. (Len(steps) - 1) /\ n + 1 \in 1 .. Len(steps) /\ Holds(n)
    BY <1>0, <1>3
  <2>2. h[n + 1] = Execute(h[n], steps[n + 1])
    BY <1>1, <2>1 DEF Progresses
  <2>3. Proper(steps[n + 1])
    BY <2>1 DEF Orderly
  <2>4. steps[n + 1].event.kind \in Naming => n > 0 /\ KeysOf(steps[n + 1].event) \subseteq steps[n].keys
    <3>1. n + 1 - 1 = n /\ (n + 1 > 1 <=> n > 0)
      OBVIOUS
    <3>2. QED
      BY <2>1, <3>1 DEF Orderly
  <2>5. steps[n + 1].event.kind \in Naming => KeysOf(steps[n + 1].event) \subseteq h[n].retained
    BY <2>1, <2>4
  <2>6. Sound(h[n])
    BY <2>1
  <2> DEFINE a == h[n]
             b == steps[n + 1]
             new == IF b.event.kind = "ReviewCreated" THEN {b.event.rv} ELSE {}
  <2>7. b.event.kind # "-" => Placed(b.event, CreatedReviews(a.log, Len(a.log)))
    <3>1. n + 1 - 1 = n
      OBVIOUS
    <3>2. b.event.kind # "-" => Placed(b.event, CreatedReviews(s0.log, Len(s0.log)) \cup Creates(steps, n))
      <4>1. \A j \in 1 .. Len(steps) : steps[j].event.kind # "-" =>
              Placed(steps[j].event, CreatedReviews(s0.log, Len(s0.log)) \cup Creates(steps, j - 1))
        BY DEF Orderly
      <4>2. n + 1 \in 1 .. Len(steps)
        BY <2>1
      <4>3. ASSUME NEW j \in 1 .. Len(steps), j = n + 1
            PROVE  steps[j].event.kind # "-" =>
                     Placed(steps[j].event, CreatedReviews(s0.log, Len(s0.log)) \cup Creates(steps, n))
        <5>1. j - 1 = n
          BY <4>3
        <5>2. QED
          BY <4>1, <5>1
      <4>4. QED
        BY <4>2, <4>3
    <3>3. CreatedReviews(a.log, Len(a.log)) = CreatedReviews(s0.log, Len(s0.log)) \cup Creates(steps, n)
      BY <2>1
    <3>4. QED
      BY <3>2, <3>3
  <2>8. Creates(steps, n + 1) = Creates(steps, n) \cup new
    <3>1. \A i : i \in 1 .. (n + 1) <=> i \in 1 .. n \/ i = n + 1
      OBVIOUS
    <3>2. QED
      BY <3>1 DEF Creates
  <2>9. a.log = h[n].log /\ Len(a.log) \in Nat /\ Len(a.log) >= Len(s0.log)
    BY <2>1
  <2> HIDE DEF a, b
  <2>10. /\ Sound(Execute(a, b))
         /\ \A i \in 1 .. Len(a.log) : Execute(a, b).log[i] = a.log[i]
         /\ CreatedReviews(Execute(a, b).log, Len(Execute(a, b).log)) = CreatedReviews(a.log, Len(a.log)) \cup new
         /\ Len(Execute(a, b).log) \in Nat /\ Len(Execute(a, b).log) >= Len(a.log)
         /\ a.retained \subseteq Execute(a, b).retained /\ b.keys \subseteq Execute(a, b).retained
    BY <2>3, <2>5, <2>6, <2>7, ExecuteSound DEF a, b
  <2>11. \A i \in 1 .. Len(s0.log) : i \in 1 .. Len(a.log)
    BY <1>0, <2>9
  <2> HIDE DEF new
  <2>12. QED
    BY <1>0, <2>1, <2>2, <2>8, <2>10, <2>11 DEF a, b
<1>4. Nat \subseteq T
  <2> HIDE DEF T
  <2>1. QED
    BY <1>2, <1>3, NaturalsByStep
<1>5. Holds(Len(steps))
  <2> HIDE DEF Holds
  <2>1. QED
    BY <1>0, <1>4
<1>6. QED
  BY <1>1, <1>5

\* What plans that begin alike create.
LEMMA CreatesAlike ==
  ASSUME NEW a, NEW b, NEW n, \A i \in 1 .. n : a[i] = b[i]
  PROVE  Creates(a, n) = Creates(b, n)
BY DEF Creates

\* The beginning of an orderly plan.
LEMMA OrderlyPrefix ==
  ASSUME NEW steps, NEW before, NEW after, Orderly(steps, before, after), NEW n \in 0 .. Len(steps)
  PROVE  \E some : Orderly(SubSeq(steps, 1, n), before, some)
<1> DEFINE t == SubSeq(steps, 1, n)
<1>1. IsSeq(t) /\ Len(t) = n /\ \A i \in 1 .. n : t[i] = steps[i]
  BY SeqPrefix DEF Orderly
<1>2. Len(steps) \in Nat
  BY SeqShape DEF Orderly
<1>3. \A j \in 1 .. n : j \in 1 .. Len(steps) /\ (j > 1 => j - 1 \in 1 .. n)
  BY <1>2
<1> HIDE DEF t
<1>4. ASSUME NEW j \in 1 .. n PROVE Creates(t, j - 1) = Creates(steps, j - 1)
  <2>1. \A i \in 1 .. (j - 1) : t[i] = steps[i]
    BY <1>1
  <2>2. QED
    BY <2>1, CreatesAlike
<1>5. Orderly(t, before, before \cup Creates(t, Len(t)))
  BY <1>1, <1>3, <1>4 DEF Orderly
<1>6. QED
  BY <1>5 DEF t

\* Two orderly plans, one after the other.
LEMMA OrderlyConcat ==
  ASSUME NEW a, NEW b, NEW before, NEW between, NEW after,
         Orderly(a, before, between), Orderly(b, between, after)
  PROVE  Orderly(a \o b, before, after)
<1> DEFINE c == a \o b
<1>0. IsSeq(a) /\ IsSeq(b) /\ Len(a) \in Nat /\ Len(b) \in Nat
  BY SeqShape DEF Orderly
<1>1. IsSeq(c) /\ Len(c) = Len(a) + Len(b) /\ (\A i \in 1 .. Len(a) : c[i] = a[i])
      /\ \A i \in 1 .. Len(b) : c[Len(a) + i] = b[i]
  BY <1>0, SeqConcat
<1> HIDE DEF c
<1>2. ASSUME NEW n \in 0 .. Len(b) PROVE Creates(c, Len(a) + n) = Creates(a, Len(a)) \cup Creates(b, n)
  <2>1. \A i : i \in 1 .. (Len(a) + n) <=> i \in 1 .. Len(a) \/ \E k \in 1 .. n : i = Len(a) + k
    <3>1. \A i \in 1 .. (Len(a) + n) : i > Len(a) => i - Len(a) \in 1 .. n /\ i = Len(a) + (i - Len(a))
      BY <1>0
    <3>2. QED
      BY <1>0, <3>1
  <2>2. \A k \in 1 .. n : c[Len(a) + k] = b[k]
    BY <1>0, <1>1
  <2>3. ASSUME NEW x PROVE x \in Creates(c, Len(a) + n) <=> x \in Creates(a, Len(a)) \/ x \in Creates(b, n)
    <3>1. \A s, k : x \in Creates(s, k) <=> \E i \in 1 .. k : s[i].event.kind = "ReviewCreated" /\ x = s[i].event.rv
      BY DEF Creates
    <3> DEFINE new(st) == st.event.kind = "ReviewCreated" /\ x = st.event.rv
    <3>2. x \in Creates(c, Len(a) + n) <=> \E i \in 1 .. (Len(a) + n) : new(c[i])
      BY <3>1
    <3>3. x \in Creates(a, Len(a)) <=> \E i \in 1 .. Len(a) : new(a[i])
      BY <3>1
    <3>4. x \in Creates(b, n) <=> \E i \in 1 .. n : new(b[i])
      BY <3>1
    <3> HIDE DEF new
    <3>5. \A i \in 1 .. Len(a) : c[i] = a[i]
      BY <1>1
    <3>6. (\E i \in 1 .. (Len(a) + n) : new(c[i])) <=> (\E i \in 1 .. Len(a) : new(c[i])) \/ \E k \in 1 .. n : new(c[Len(a) + k])
      <4> HIDE DEF c
      <4>1. QED
        BY <2>1
    <3>7. QED
      BY <2>2, <3>2, <3>3, <3>4, <3>5, <3>6
  <2>4. QED
    BY <2>3
<1>3. ASSUME NEW j \in 1 .. Len(c)
      PROVE  /\ Proper(c[j])
             /\ c[j].event.kind # "-" => Placed(c[j].event, before \cup Creates(c, j - 1))
             /\ c[j].event.kind \in Naming => j > 1 /\ KeysOf(c[j].event) \subseteq c[j - 1].keys
  <2>1. CASE j <= Len(a)
    <3>1. j \in 1 .. Len(a) /\ c[j] = a[j] /\ (j > 1 => j - 1 \in 1 .. Len(a) /\ c[j - 1] = a[j - 1])
      BY <1>0, <1>1, <2>1, SMTT(20)
    <3>2. \A i \in 1 .. (j - 1) : c[i] = a[i]
      BY <1>0, <1>1, <2>1
    <3>3. Creates(c, j - 1) = Creates(a, j - 1)
      BY <3>2, CreatesAlike
    <3>4. QED
      BY <3>1, <3>3 DEF Orderly
  <2>2. CASE j > Len(a)
    <3> DEFINE i == j - Len(a)
    <3>1. i \in 1 .. Len(b) /\ Len(a) + i = j /\ (i > 1 => i - 1 \in 1 .. Len(b) /\ Len(a) + (i - 1) = j - 1 /\ j > 1)
          /\ i - 1 \in 0 .. Len(b) /\ Len(a) + (i - 1) = j - 1
      BY <1>0, <1>1, <2>2
    <3> HIDE DEF i
    <3>2. c[j] = b[i] /\ (i > 1 => c[j - 1] = b[i - 1] /\ j > 1)
      BY <1>1, <3>1
    <3>3. before \cup Creates(c, j - 1) = between \cup Creates(b, i - 1)
      BY <1>2, <3>1 DEF Orderly
    <3>4. QED
      BY <3>1, <3>2, <3>3 DEF Orderly
  <2>3. QED
    BY <1>0, <1>1, <2>1, <2>2
<1>4. after = before \cup Creates(c, Len(c))
  BY <1>0, <1>1, <1>2 DEF Orderly
<1>5. QED
  BY <1>1, <1>3, <1>4 DEF Orderly, c

-----------------------------------------------------------------------------
(* The plans of the operations.                                            *)

Talks == {"kind", "rv", "form"}

\* The fields that an event has from its header.
LEMMA EventFields ==
  ASSUME NEW kind, NEW rv, NEW fields, Talks \cap DOMAIN fields = {}
  PROVE  /\ Talks \subseteq DOMAIN Event(kind, rv, fields)
         /\ Event(kind, rv, fields).kind = kind /\ Event(kind, rv, fields).rv = rv
         /\ Event(kind, rv, fields).form = "now"
         /\ \A x \in DOMAIN fields : x \in DOMAIN Event(kind, rv, fields) /\ Event(kind, rv, fields)[x] = fields[x]
         /\ "ws" \in DOMAIN Event(kind, rv, fields) <=> "ws" \in DOMAIN fields
BY DEF Event, Header, Talks

\* A step that appends nothing.
LEMMA NoEventKind == NoEvent.kind = "-"
<1>1. Talks \cap DOMAIN NoRow = {}
  BY DEF NoRow
<1>2. QED
  BY <1>1, EventFields DEF NoEvent

\* A step that only touches the checkout.
LEMMA OrderlyTouch ==
  ASSUME NEW g, NEW K
  PROVE  Orderly(<<Touch(g)>>, K, K)
<1> DEFINE s == <<Touch(g)>>
<1>1. IsSeq(s) /\ Len(s) = 1 /\ s[1] = Touch(g)
  BY SeqLiteral
<1>2. s[1].event.kind = "-"
  BY <1>1, NoEventKind DEF Touch
<1> HIDE DEF s
<1>3. \A j \in 1 .. Len(s) : j = 1
  BY <1>1
<1>4. Creates(s, Len(s)) = {}
  BY <1>2, <1>3 DEF Creates
<1>5. QED
  BY <1>1, <1>2, <1>3, <1>4 DEF Orderly, Proper, Naming, s

\* A plan of nothing.
LEMMA OrderlyNone == \A K : Orderly(<<>>, K, K)
<1>1. IsSeq(<<>>) /\ Len(<<>>) = 0
  BY SeqLiteral
<1>2. Creates(<<>>, 0) = {}
  BY DEF Creates
<1>3. QED
  BY <1>1, <1>2 DEF Orderly

\* A plan of one event that names no revision.
LEMMA OrderlyOne ==
  ASSUME NEW e, Formed(e), e.form = "now", e.kind \notin Naming, NEW K, Placed(e, K)
  PROVE  Orderly(<<Emit(e)>>, K, K \cup (IF e.kind = "ReviewCreated" THEN {e.rv} ELSE {}))
<1> DEFINE s == <<Emit(e)>>
           new == IF e.kind = "ReviewCreated" THEN {e.rv} ELSE {}
<1>1. IsSeq(s) /\ Len(s) = 1 /\ s[1] = Emit(e)
  BY SeqLiteral
<1> HIDE DEF s
<1>2. s[1].event = e /\ 1 - 1 = 0 /\ \A j \in 1 .. Len(s) : j = 1
  BY <1>1 DEF Emit
<1>3. Proper(s[1])
  BY <1>2 DEF Proper
<1>4. Creates(s, 0) = {} /\ Creates(s, 1) = new
  <2>1. 1 .. 0 = {} /\ \A i : i \in 1 .. 1 <=> i = 1
    OBVIOUS
  <2>2. QED
    BY <1>2, <2>1 DEF Creates
<1>5. Placed(s[1].event, K \cup Creates(s, 1 - 1))
  <2>1. K \cup {} = K
    OBVIOUS
  <2>2. QED
    BY <1>2, <1>4, <2>1
<1> HIDE DEF new
<1>6. Orderly(s, K, K \cup new)
  BY <1>1, <1>2, <1>3, <1>4, <1>5 DEF Orderly
<1>7. QED
  BY <1>6 DEF s, new

\* An event about a review that there is.
LEMMA OrderlyEmit ==
  ASSUME NEW kind \in AboutReview \ Naming, NEW K, NEW rv \in K, NEW fields, Talks \cap DOMAIN fields = {},
         "ws" \notin DOMAIN fields
  PROVE  Orderly(<<Emit(Event(kind, rv, fields))>>, K, K)
<1> DEFINE e == Event(kind, rv, fields)
<1>1. e.kind = kind /\ e.form = "now" /\ e.rv = rv /\ Talks \subseteq DOMAIN e /\ "ws" \notin DOMAIN e
  BY EventFields
<1> HIDE DEF e
<1>2. Formed(e) /\ e.kind # "ReviewCreated" /\ e.kind \in AboutReview
  BY <1>1 DEF Formed, AboutReview, Talks
<1>3. Placed(e, K)
  BY <1>1, <1>2 DEF Placed, AboutReview
<1>4. Orderly(<<Emit(e)>>, K, K \cup {})
  BY <1>1, <1>2, <1>3, OrderlyOne
<1>5. K \cup {} = K
  OBVIOUS
<1>6. QED
  BY <1>4, <1>5 DEF e

\* An event of a workspace, about no review.
LEMMA OrderlyPlace ==
  ASSUME NEW kind \in {"WorkspaceCreated", "WorkspaceUpdated", "RepoAttached", "RepoDetached"}, NEW K,
         NEW fields, Talks \cap DOMAIN fields = {}, "ws" \in DOMAIN fields
  PROVE  Orderly(<<Emit(Event(kind, NoReview, fields))>>, K, K)
<1> DEFINE e == Event(kind, NoReview, fields)
<1>1. e.kind = kind /\ e.form = "now" /\ e.rv = NoReview /\ Talks \subseteq DOMAIN e /\ "ws" \in DOMAIN e
  BY EventFields
<1> HIDE DEF e
<1>2. Formed(e) /\ e.kind \notin Naming /\ e.kind # "ReviewCreated" /\ e.kind \notin AboutReview
  BY <1>1 DEF Formed, EventKinds, Naming, AboutReview, Talks
<1>3. Placed(e, K)
  BY <1>1, <1>2 DEF Placed
<1>4. Orderly(<<Emit(e)>>, K, K \cup {})
  BY <1>1, <1>2, <1>3, OrderlyOne
<1>5. K \cup {} = K
  OBVIOUS
<1>6. QED
  BY <1>4, <1>5 DEF e

\* The creation of a review.
LEMMA OrderlyCreated ==
  ASSUME NEW K, NEW rv, rv \notin K, rv # NoReview, NEW w, NEW targets
  PROVE  Orderly(<<Created(rv, w, targets)>>, K, K \cup {rv})
<1> DEFINE fields == [ws |-> w, targets |-> targets]
           e == Event("ReviewCreated", rv, fields)
<1>1. Talks \cap DOMAIN fields = {} /\ "ws" \in DOMAIN fields
  BY DEF Talks
<1>2. Created(rv, w, targets) = Emit(e)
  BY DEF Created
<1> HIDE DEF fields
<1>3. e.kind = "ReviewCreated" /\ e.form = "now" /\ e.rv = rv /\ Talks \subseteq DOMAIN e /\ "ws" \in DOMAIN e
  BY <1>1, EventFields
<1> HIDE DEF e
<1>4. Formed(e) /\ e.kind \notin Naming /\ e.kind \notin AboutReview
  BY <1>3 DEF Formed, EventKinds, Naming, AboutReview, Talks
<1>5. Placed(e, K)
  BY <1>3, <1>4 DEF Placed
<1>6. QED
  BY <1>2, <1>3, <1>4, <1>5, OrderlyOne

\* Revisions are kept, and then an event names them.
LEMMA OrderlyNamed ==
  ASSUME NEW kind \in Naming, NEW K, NEW rv \in K, NEW r, NEW fields,
         Talks \cap DOMAIN fields = {}, "ws" \notin DOMAIN fields, "resolved" \in DOMAIN fields, fields.resolved = r,
         kind # "ReviewChecked" => \A p \in DOMAIN r : {"base", "head"} \subseteq DOMAIN r[p]
  PROVE  Orderly(<<Retain(rv, r), Emit(Event(kind, rv, fields))>>, K, K)
<1> DEFINE e == Event(kind, rv, fields)
           k == Retain(rv, r)
           s == <<k, Emit(e)>>
<1>1. e.kind = kind /\ e.form = "now" /\ e.rv = rv /\ Talks \subseteq DOMAIN e /\ "ws" \notin DOMAIN e
      /\ "resolved" \in DOMAIN e /\ e.resolved = r
  BY EventFields
<1>2. k.event.kind = "-"
  BY NoEventKind DEF Retain, Keep
<1>3. KeysOf(e) = k.keys
  BY <1>1 DEF KeysOf
<1> HIDE DEF e, k
<1>4. IsSeq(s) /\ Len(s) = 2 /\ s[1] = k /\ s[2] = Emit(e)
  BY SeqLiteral
<1> HIDE DEF s
<1>5. s[2].event = e /\ (\A j \in 1 .. Len(s) : j = 1 \/ j = 2) /\ 2 - 1 = 1
  BY <1>4 DEF Emit
<1>6. kind \in EventKinds /\ kind \in AboutReview /\ kind # "ReviewCreated"
  BY DEF EventKinds, Naming, AboutReview
<1>7. Proper(s[2]) /\ Proper(s[1])
  BY <1>1, <1>2, <1>4, <1>5, <1>6 DEF Proper, Formed, Talks
<1>8. s[1].event.kind \notin Naming
  BY <1>2, <1>4 DEF Naming
<1>9. KeysOf(s[2].event) \subseteq s[2 - 1].keys
  BY <1>3, <1>4, <1>5
<1>10. \A n : n \in {1, 2} => Creates(s, n) = {}
  <2>1. \A j \in 1 .. 2 : j = 1 \/ j = 2
    OBVIOUS
  <2>2. \A j \in 1 .. 2 : s[j].event.kind # "ReviewCreated"
    BY <1>1, <1>2, <1>4, <1>5, <1>6, <2>1
  <2>3. \A n \in {1, 2} : 1 .. n \subseteq 1 .. 2
    OBVIOUS
  <2>4. QED
    BY <2>2, <2>3 DEF Creates
<1>11. \A j \in 1 .. Len(s) : s[j].event.kind # "-" => Placed(s[j].event, K \cup Creates(s, j - 1))
  <2>1. \A C : Placed(e, K \cup C)
    BY <1>1, <1>6 DEF Placed
  <2>2. QED
    BY <1>2, <1>4, <1>5, <2>1
<1>12. K = K \cup Creates(s, Len(s))
  BY <1>4, <1>10
<1>13. Orderly(s, K, K)
  BY <1>4, <1>5, <1>7, <1>8, <1>9, <1>11, <1>12 DEF Orderly
<1>14. QED
  BY <1>13 DEF s, e, k

\* Re-anchoring emits one event per comment that moved; there are finitely many.
LEMMA OrderlyReanchored ==
  ASSUME NEW K, NEW rv \in K, NEW old, NEW new, IsFiniteSet(DOMAIN views.comments)
  PROVE  Orderly(Reanchored(rv, old, new), K, K)
<1> DEFINE all == {k[2] : k \in {x \in DOMAIN views.comments : x[1] = rv}}
           moved == {c \in all :
                       LET r == views.comments[<<rv, c>>]
                       IN /\ r.state # "Deleted" /\ r.repo \in DOMAIN new
                          /\ new[r.repo].head.tree # old[r.repo].head.tree
                          /\ r.state # (IF new[r.repo].head.tree = r.at THEN "Live" ELSE "Outdated")}
           fields(i) == LET c == SetToSeq(moved)[i]
                            r == views.comments[<<rv, c>>]
                        IN [comment |-> c,
                            state |-> IF new[r.repo].head.tree = r.at THEN "Live" ELSE "Outdated"]
           st(i) == Emit(Event("CommentReanchored", rv, fields(i)))
           s == [i \in 1 .. Cardinality(moved) |-> st(i)]
<1>1. Reanchored(rv, old, new) = s
  BY DEF Reanchored
<1>2. IsFiniteSet(moved)
  <2>1. IsFiniteSet({x \in DOMAIN views.comments : x[1] = rv})
    BY FS_Subset
  <2>2. IsFiniteSet(all)
    <3> DEFINE U == {x \in DOMAIN views.comments : x[1] = rv}
    <3> HIDE DEF U
    <3> DEFINE f == [k \in U |-> k[2]]
               img == {k[2] : k \in U}
    <3>0. f \in Surjection(U, img)
      BY DEF Surjection
    <3> HIDE DEF f, img
    <3>1. IsFiniteSet(img)
      BY <2>1, <3>0, FS_Surjection DEF U
    <3>2. QED
      BY <3>1 DEF U, img
  <2>3. moved \subseteq all
    OBVIOUS
  <2> HIDE DEF moved, all
  <2>4. QED
    BY <2>2, <2>3, FS_Subset
<1> HIDE DEF moved
<1>3. Cardinality(moved) \in Nat
  BY <1>2, FS_CardinalityType
<1>4. \A i : Talks \cap DOMAIN fields(i) = {} /\ "ws" \notin DOMAIN fields(i)
  BY DEF Talks
<1> HIDE DEF fields
<1>5. ASSUME NEW i \in 1 .. Cardinality(moved)
      PROVE  /\ Proper(s[i]) /\ s[i].event.kind \notin Naming /\ s[i].event.kind # "ReviewCreated"
             /\ \A C : Placed(s[i].event, K \cup C)
  <2> DEFINE e == Event("CommentReanchored", rv, fields(i))
  <2>1. /\ e.kind = "CommentReanchored" /\ e.form = "now" /\ e.rv = rv /\ Talks \subseteq DOMAIN e
        /\ "ws" \notin DOMAIN e
    BY <1>4, EventFields
  <2> HIDE DEF e
  <2>2. s[i] = Emit(e)
    BY DEF e
  <2>3. s[i].event = e
    BY <2>2 DEF Emit
  <2> HIDE DEF s
  <2>4. QED
    BY <2>1, <2>3 DEF Proper, Formed, EventKinds, Naming, AboutReview, Placed, Talks
<1>6. s = [i \in 1 .. Cardinality(moved) |-> s[i]]
  OBVIOUS
<1> HIDE DEF s
<1>7. IsSeq(s) /\ Len(s) = Cardinality(moved)
  BY <1>3, <1>6, SeqOfFunction
<1>8. Creates(s, Len(s)) = {}
  BY <1>5, <1>7 DEF Creates
<1>9. QED
  BY <1>1, <1>5, <1>7, <1>8 DEF Orderly

\* The resolution of targets is recorded after its trees are kept.
LEMMA OrderlyResolved ==
  ASSUME NEW K, NEW rv \in K, NEW old, NEW new, IsFiniteSet(DOMAIN views.comments),
         \A p \in DOMAIN new : {"base", "head"} \subseteq DOMAIN new[p]
  PROVE  Orderly(RecordResolved(rv, old, new), K, K)
<1> DEFINE fields == [resolved |-> new]
           a == <<Retain(rv, new), Emit(Event("ReviewTargetsResolved", rv, fields))>>
           b == IF old = NoRow THEN <<>> ELSE Reanchored(rv, old, new)
<1>1. /\ Talks \cap DOMAIN fields = {} /\ "ws" \notin DOMAIN fields
      /\ "resolved" \in DOMAIN fields /\ fields.resolved = new
  BY DEF Talks
<1>2. Orderly(a, K, K)
  <2> HIDE DEF fields
  <2>1. QED
    BY <1>1, OrderlyNamed DEF Naming
<1>3. Orderly(b, K, K)
  BY OrderlyNone, OrderlyReanchored
<1>4. RecordResolved(rv, old, new) = IF old = new THEN <<>> ELSE a \o b
  BY DEF RecordResolved
<1> HIDE DEF a, b
<1>5. QED
  BY <1>2, <1>3, <1>4, OrderlyNone, OrderlyConcat

\* What a resolution consists of.
LEMMA ResolutionShape ==
  ASSUME NEW g, NEW targets
  PROVE  \A p \in DOMAIN Resolution(g, targets) : {"base", "head"} \subseteq DOMAIN Resolution(g, targets)[p]
BY DEF Resolution

\* The plan of a resolution, whatever the targets.
LEMMA OrderlyResolveAs ==
  ASSUME NEW g, NEW K, NEW rv \in K, NEW targets, IsFiniteSet(DOMAIN views.comments)
  PROVE  Orderly(ResolveAs(g, rv, targets).steps, K, K)
<1>1. Orderly(RecordResolved(rv, views.reviews[rv].resolved, Resolution(g, targets)), K, K)
  <2> DEFINE r == Resolution(g, targets)
  <2>1. \A p \in DOMAIN r : {"base", "head"} \subseteq DOMAIN r[p]
    BY ResolutionShape
  <2> HIDE DEF r
  <2>2. Orderly(RecordResolved(rv, views.reviews[rv].resolved, r), K, K)
    BY <2>1, OrderlyResolved
  <2>3. QED
    BY <2>2 DEF r
<1>2. QED
  BY <1>1, OrderlyNone DEF ResolveAs, Done, Refused, Failed

\* Plans of a few steps.
LEMMA OrderlyThree ==
  ASSUME NEW A, NEW B, NEW C, NEW a, Orderly(<<a>>, A, A), NEW b, Orderly(<<b>>, A, B)
  PROVE  Orderly(<<a, b>>, A, B) /\ \A c : Orderly(<<c>>, B, C) => Orderly(<<a, b, c>>, A, C)
<1>1. <<a, b>> = <<a>> \o <<b>>
  BY LiteralConcat
<1>2. Orderly(<<a, b>>, A, B)
  BY <1>1, OrderlyConcat
<1>3. ASSUME NEW c, Orderly(<<c>>, B, C) PROVE Orderly(<<a, b, c>>, A, C)
  <2>1. <<a, b, c>> = <<a, b>> \o <<c>>
    BY LiteralConcat
  <2>2. Orderly(<<a, b>> \o <<c>>, A, C)
    BY <1>2, <1>3, OrderlyConcat
  <2>3. QED
    BY <2>1, <2>2
<1>4. QED
  BY <1>2, <1>3

\* A plan that creates no review.
Creating(steps) == \E after : Orderly(steps, DOMAIN views.reviews, after)
Staying(steps) == Orderly(steps, DOMAIN views.reviews, DOMAIN views.reviews)

\* Operations on workspaces and their repositories.
LEMMA OrderlyRepositories ==
  ASSUME NEW m
  PROVE  /\ Staying(CreateWorkspace(m).steps) /\ Staying(RenameWorkspace(m).steps)
         /\ Staying(AttachRepo(m).steps) /\ Staying(DetachRepo(m).steps)
<1> USE OrderlyNone DEF Done, Refused, Failed, Staying
<1>1. ASSUME NEW w PROVE Staying(<<Emit(Event("WorkspaceCreated", NoReview, [ws |-> w]))>>)
  BY OrderlyPlace DEF Talks
<1>2. ASSUME NEW w PROVE Staying(<<Emit(Event("WorkspaceUpdated", NoReview, [ws |-> w]))>>)
  BY OrderlyPlace DEF Talks
<1>3. ASSUME NEW w, NEW p, NEW k PROVE Staying(<<Attached(w, p, k)>>)
  BY OrderlyPlace DEF Talks, Attached
<1>4. ASSUME NEW w, NEW p PROVE Staying(<<Emit(Event("RepoDetached", NoReview, [ws |-> w, repo |-> p]))>>)
  BY OrderlyPlace DEF Talks
<1>5. Staying(CreateWorkspace(m).steps)
  BY <1>1 DEF CreateWorkspace
<1>6. Staying(RenameWorkspace(m).steps)
  BY <1>2 DEF RenameWorkspace
<1>7. Staying(AttachRepo(m).steps)
  BY <1>3 DEF AttachRepo
<1>8. Staying(DetachRepo(m).steps)
  BY <1>4 DEF DetachRepo
<1>9. QED
  BY <1>5, <1>6, <1>7, <1>8

\* The creation of a review in a workspace.
LEMMA OrderlyCreate ==
  ASSUME NEW m, m.rv # NoReview, IsFiniteSet(DOMAIN views.comments)
  PROVE  Creating(CreateReview(m).steps)
<1> DEFINE a == <<Created(m.rv, m.ws, m.targets)>>
           r == Resolution(git, m.targets)
           b == RecordResolved(m.rv, NoRow, r)
           K == DOMAIN views.reviews
           L == K \cup {m.rv}
<1>1. m.rv \notin K => Orderly(a, K, L)
  BY OrderlyCreated
<1>2. \A p \in DOMAIN r : {"base", "head"} \subseteq DOMAIN r[p]
  BY ResolutionShape
<1>3. Orderly(b, L, L)
  <2> HIDE DEF r
  <2>1. QED
    BY <1>2, OrderlyResolved
<1>4. (m.rv \notin K /\ CreateReview(m).steps = a \o b) \/ CreateReview(m).steps = <<>>
  BY DEF CreateReview, Done, Refused, Failed
<1> HIDE DEF a, b, L
<1>5. QED
  BY <1>1, <1>3, <1>4, OrderlyNone, OrderlyConcat DEF Creating

\* A resolution, a refresh and a fetch.
LEMMA OrderlyResolve ==
  ASSUME NEW m, IsFiniteSet(DOMAIN views.comments)
  PROVE  /\ Staying(ResolveTargets(m).steps) /\ Staying(RefreshReview(m).steps)
         /\ Staying(FetchReview(m).steps)
<1>1. Staying(ResolveTargets(m).steps)
  BY OrderlyNone, OrderlyResolveAs DEF ResolveTargets, Live, Refused, Failed, Staying
<1>2. Staying(RefreshReview(m).steps)
  BY <1>1, OrderlyNone DEF RefreshReview, Refused, Failed, Staying
<1>3. Staying(FetchReview(m).steps)
  <2> DEFINE fetched == [git EXCEPT ![CheckoutOf(m.repo)].branch = m.to]
             a == <<Touch(fetched)>>
             b == ResolveAs(fetched, m.rv, views.reviews[m.rv].targets).steps
             K == DOMAIN views.reviews
  <2>1. (m.rv \in K /\ FetchReview(m).steps = a \o b) \/ FetchReview(m).steps = <<>>
    BY DEF FetchReview, Live, Done, Refused, Failed
  <2> HIDE DEF fetched
  <2>2. Orderly(a, K, K) /\ (m.rv \in K => Orderly(b, K, K))
    BY OrderlyTouch, OrderlyResolveAs
  <2> HIDE DEF a, b
  <2>3. QED
    BY <2>1, <2>2, OrderlyNone, OrderlyConcat DEF Staying
<1>4. QED
  BY <1>1, <1>2, <1>3

\* Changes of a review.
LEMMA OrderlyUpdates ==
  ASSUME NEW m, IsFiniteSet(DOMAIN views.comments)
  PROVE  /\ Staying(UpdateReview(m).steps) /\ Staying(UpdateReviewTarget(m).steps)
         /\ Staying(DeleteReview(m).steps)
<1>1. Staying(UpdateReview(m).steps)
  <2> DEFINE a == <<Emit(Event("ReviewUpdated", m.rv, [status |-> m.status]))>>
             r == Resolution(git, views.reviews[m.rv].targets)
             b == RecordResolved(m.rv, views.reviews[m.rv].resolved, r)
             K == DOMAIN views.reviews
             it == UpdateReview(m).steps
  <2>1. (m.rv \in K /\ (it = a \o b \/ it = a)) \/ it = <<>>
    BY DEF UpdateReview, Live, Done, Refused, Failed
  <2>2. m.rv \in K => Orderly(a, K, K)
    BY OrderlyEmit DEF EventKinds, AboutReview, Naming, Talks
  <2>3. \A p \in DOMAIN r : {"base", "head"} \subseteq DOMAIN r[p]
    BY ResolutionShape
  <2>4. m.rv \in K => Orderly(b, K, K)
    <3> HIDE DEF r
    <3>1. QED
      BY <2>3, OrderlyResolved
  <2> HIDE DEF a, b
  <2>5. QED
    BY <2>1, <2>2, <2>4, OrderlyNone, OrderlyConcat DEF Staying
<1>2. Staying(UpdateReviewTarget(m).steps)
  <2> DEFINE a == <<Emit(Event("ReviewTargetUpdated", m.rv, [repo |-> m.repo, target |-> m.target]))>>
             b == ResolveAs(git, m.rv, [views.reviews[m.rv].targets EXCEPT ![m.repo] = m.target]).steps
             K == DOMAIN views.reviews
  <2>1. (m.rv \in K /\ UpdateReviewTarget(m).steps = a \o b) \/ UpdateReviewTarget(m).steps = <<>>
    BY DEF UpdateReviewTarget, Live, Then, Done, Refused, Failed
  <2>2. m.rv \in K => Orderly(a, K, K)
    BY OrderlyEmit DEF EventKinds, AboutReview, Naming, Talks
  <2>3. m.rv \in K => Orderly(b, K, K)
    BY OrderlyResolveAs
  <2> HIDE DEF a, b
  <2>4. QED
    BY <2>1, <2>2, <2>3, OrderlyNone, OrderlyConcat DEF Staying
<1>3. Staying(DeleteReview(m).steps)
  <2>1. Talks \cap DOMAIN NoRow = {} /\ "ws" \notin DOMAIN NoRow
    BY DEF NoRow
  <2>2. m.rv \in DOMAIN views.reviews => Staying(<<Emit(Event("ReviewDeleted", m.rv, NoRow))>>)
    BY <2>1, OrderlyEmit DEF EventKinds, AboutReview, Naming, Staying
  <2>3. QED
    BY <2>2, OrderlyNone DEF DeleteReview, Live, Done, Refused, Failed, Staying
<1>4. QED
  BY <1>1, <1>2, <1>3

\* The review of a directory: found, created in its workspace, or with a new workspace.
LEMMA OrderlyDirectory ==
  ASSUME NEW m, m.rv # NoReview, IsFiniteSet(DOMAIN views.comments)
  PROVE  Creating(EnsureDirectoryReview(m).steps)
<1> DEFINE located == Attachments(m.checkout)
           k == git[m.checkout]
           target == [base |-> "Head", head |-> m.head]
           fresh == [p \in {m.repo} |-> target]
           created == [p \in {m.repo} |->
                        [base |-> [source |-> "Commit", tree |-> k.head, head |-> k.head],
                         head |-> IF m.head = "WorkingTree"
                                  THEN [source |-> "WorkingTree", tree |-> k.tree, head |-> k.head]
                                  ELSE [source |-> "Commit", tree |-> k.branch, head |-> k.branch]]]
           w == (CHOOSE x \in located : TRUE)[1]
           p == (CHOOSE x \in located : TRUE)[2]
           found == MatchingReview(w, p, m.head)
           e1 == Emit(Event("WorkspaceCreated", NoReview, [ws |-> m.ws]))
           e2 == Attached(m.ws, m.repo, m.checkout)
           e3 == Created(m.rv, m.ws, fresh)
           b == RecordResolved(m.rv, NoRow, created)
           old == ResolveTargets([rv |-> CHOOSE rv \in found : TRUE]).steps
           new == CreateReview([ws |-> w, rv |-> m.rv, targets |-> [q \in {p} |-> target]]).steps
           it == EnsureDirectoryReview(m).steps
           K == DOMAIN views.reviews
           L == K \cup {m.rv}
<1>1. it = <<>> \/ (m.rv \notin K /\ it = <<e1, e2, e3>> \o b) \/ it = old \/ it = new
  BY DEF EnsureDirectoryReview, Done, Refused, Failed
<1>2. Orderly(<<e1>>, K, K) /\ Orderly(<<e2>>, K, K) /\ (m.rv \notin K => Orderly(<<e3>>, K, L))
  <2>1. Orderly(<<e1>>, K, K)
    BY OrderlyPlace DEF Talks
  <2>2. Orderly(<<e2>>, K, K)
    BY OrderlyPlace DEF Talks, Attached
  <2>3. m.rv \notin K => Orderly(<<e3>>, K, L)
    <3> HIDE DEF fresh
    <3>1. QED
      BY OrderlyCreated
  <2>4. QED
    BY <2>1, <2>2, <2>3
<1>3. \A q \in DOMAIN created : {"base", "head"} \subseteq DOMAIN created[q]
  OBVIOUS
<1>4. Orderly(b, L, L)
  <2> HIDE DEF created
  <2>1. QED
    BY <1>3, OrderlyResolved
<1>5. Creating(old)
  BY OrderlyResolve DEF Staying, Creating
<1>6. Creating(new)
  BY OrderlyCreate
<1> HIDE DEF e1, e2, e3, b, old, new, it, L
<1>7. m.rv \notin K => Orderly(<<e1, e2, e3>>, K, L)
  BY <1>2, OrderlyThree
<1>8. m.rv \notin K => Creating(<<e1, e2, e3>> \o b)
  BY <1>4, <1>7, OrderlyConcat DEF Creating
<1>9. Creating(it)
  BY <1>1, <1>5, <1>6, <1>8, OrderlyNone DEF Creating
<1>10. QED
  BY <1>9 DEF it

\* Comments, threads, suggestions and viewed marks.
LEMMA OrderlyDiscussion ==
  ASSUME NEW m, m.op = "Dispose" => m.kind \in Disposals,
         \A k \in DOMAIN views.comments \cup DOMAIN views.threads : k[1] \in DOMAIN views.reviews
  PROVE  /\ Staying(AddComment(m).steps) /\ Staying(Reply(m).steps)
         /\ Staying(EditComment(m).steps) /\ Staying(DeleteComment(m).steps)
         /\ m.op = "Dispose" => Staying(DisposeThread(m).steps)
         /\ Staying(ApplySuggestion(m).steps)
         /\ Staying(MarkViewed(m).steps) /\ Staying(UnmarkViewed(m).steps)
<1> DEFINE K == DOMAIN views.reviews
<1>0. /\ Staying(<<>>) /\ \A t : HasThread(m.rv, t) => m.rv \in K
      /\ \A c : HasComment(m.rv, c) => m.rv \in K
  BY OrderlyNone DEF HasThread, HasComment, Staying
<1> USE <1>0 DEF Done, Refused, Failed
<1>1. ASSUME NEW t, NEW origin, m.rv \in K PROVE Staying(<<NewComment(m, t, origin)>>)
  BY <1>1, OrderlyEmit DEF EventKinds, Naming, AboutReview, Talks, NewComment, Staying
<1>2. Staying(AddComment(m).steps)
  BY <1>1 DEF AddComment, ValidAnchor, Live
<1>3. Staying(Reply(m).steps)
  BY <1>1 DEF Reply
<1>4. ASSUME NEW kind \in {"CommentEdited", "CommentDeleted", "SuggestionApplied"}, m.rv \in K
      PROVE  Staying(<<Emit(Event(kind, m.rv, [comment |-> m.comment]))>>)
  BY <1>4, OrderlyEmit DEF EventKinds, Naming, AboutReview, Talks, Staying
<1>5. Staying(EditComment(m).steps) /\ Staying(DeleteComment(m).steps)
  BY <1>4 DEF EditComment, DeleteComment, Authored
<1>6. ASSUME m.op = "Dispose" PROVE Staying(DisposeThread(m).steps)
  <2>1. m.kind \in AboutReview \ Naming
    BY <1>6 DEF Disposals, EventKinds, Naming, AboutReview
  <2>2. m.rv \in K => Staying(<<Emit(Event(m.kind, m.rv, [thread |-> m.thread]))>>)
    BY <2>1, OrderlyEmit DEF Talks, Staying
  <2>3. QED
    BY <2>2 DEF DisposeThread
<1>7. Staying(ApplySuggestion(m).steps)
  <2> DEFINE a == Touch([git EXCEPT ![CheckoutOf(views.comments[<<m.rv, m.comment>>].repo)].tree = @ + 1])
             b == Emit(Event("SuggestionApplied", m.rv, [comment |-> m.comment]))
  <2>1. (m.rv \in K /\ ApplySuggestion(m).steps = <<a, b>>) \/ ApplySuggestion(m).steps = <<>>
    BY DEF ApplySuggestion, Live
  <2>2. Orderly(<<a>>, K, K) /\ (m.rv \in K => Orderly(<<b>>, K, K))
    BY <1>4, OrderlyTouch DEF Staying
  <2> HIDE DEF a, b
  <2>3. m.rv \in K => Staying(<<a, b>>)
    BY <2>2, OrderlyThree DEF Staying
  <2>4. QED
    BY <2>1, <2>3
<1>8. Staying(MarkViewed(m).steps)
  <2> DEFINE c == views.reviews[m.rv].resolved[m.repo].head.tree
  <2> HIDE DEF c
  <2>1. m.rv \in K => Staying(<<Emit(Event("FileViewed", m.rv, [repo |-> m.repo, content |-> c]))>>)
    BY OrderlyEmit DEF EventKinds, Naming, AboutReview, Talks, Staying
  <2>2. QED
    BY <2>1 DEF MarkViewed, ReviewRepo, Live, c
<1>9. Staying(UnmarkViewed(m).steps)
  <2>1. m.rv \in K => Staying(<<Emit(Event("FileUnviewed", m.rv, [repo |-> m.repo]))>>)
    BY OrderlyEmit DEF EventKinds, Naming, AboutReview, Talks, Staying
  <2>2. QED
    BY <2>1 DEF UnmarkViewed, Live
<1>10. QED
  BY <1>2, <1>3, <1>5, <1>6, <1>7, <1>8, <1>9

\* Requests and checkpoints.
LEMMA OrderlyRounds ==
  ASSUME NEW m, IsFiniteSet(DOMAIN views.comments)
  PROVE  Staying(RequestReview(m).steps) /\ Staying(RecordCheckpoint(m).steps)
<1> DEFINE K == DOMAIN views.reviews
<1>1. Staying(RequestReview(m).steps)
  <2> DEFINE now == Resolution(git, views.reviews[m.rv].targets)
             fields == [agent |-> m.agent, resolved |-> now, compared |-> Comparison(m.rv, now)]
             a == <<Retain(m.rv, now), Emit(Event("ReviewRequested", m.rv, fields))>>
             b == RecordResolved(m.rv, views.reviews[m.rv].resolved, now)
  <2>1. (m.rv \in K /\ RequestReview(m).steps = a \o b) \/ RequestReview(m).steps = <<>>
    BY DEF RequestReview, Live, Done, Refused, Failed
  <2>2. \A p \in DOMAIN now : {"base", "head"} \subseteq DOMAIN now[p]
    BY ResolutionShape
  <2> HIDE DEF now
  <2>3. /\ Talks \cap DOMAIN fields = {} /\ "ws" \notin DOMAIN fields
        /\ "resolved" \in DOMAIN fields /\ fields.resolved = now
    BY DEF Talks
  <2> HIDE DEF fields
  <2>4. m.rv \in K => Orderly(a, K, K)
    BY <2>2, <2>3, OrderlyNamed DEF Naming
  <2>5. m.rv \in K => Orderly(b, K, K)
    BY <2>2, OrderlyResolved
  <2> HIDE DEF a, b
  <2>6. QED
    BY <2>1, <2>4, <2>5, OrderlyNone, OrderlyConcat DEF Staying
<1>2. Staying(RecordCheckpoint(m).steps)
  <2> DEFINE fields == [by |-> m.by, resolved |-> m.resolved, answers |-> m.answers]
             a == <<Retain(m.rv, m.resolved), Emit(Event("ReviewChecked", m.rv, fields))>>
  <2>1. (m.rv \in K /\ RecordCheckpoint(m).steps = a) \/ RecordCheckpoint(m).steps = <<>>
    BY DEF RecordCheckpoint, Live, Done, Refused, Failed
  <2>2. /\ Talks \cap DOMAIN fields = {} /\ "ws" \notin DOMAIN fields
        /\ "resolved" \in DOMAIN fields /\ fields.resolved = m.resolved
    BY DEF Talks
  <2> HIDE DEF fields
  <2>3. m.rv \in K => Orderly(a, K, K)
    BY <2>2, OrderlyNamed DEF Naming
  <2> HIDE DEF a
  <2>4. QED
    BY <2>1, <2>3, OrderlyNone DEF Staying
<1>3. QED
  BY <1>1, <1>2

\* What a request of the menu may ask.
Offered(m) ==
  /\ m.op = "Dispose" => m.kind \in Disposals
  /\ m.op \in {"CreateReview", "EnsureDirectoryReview"} => m.rv # NoReview

\* Every request of the menu has an orderly plan.
LEMMA PlanOrderly ==
  ASSUME NEW m, Offered(m), IsFiniteSet(DOMAIN views.comments),
         \A k \in DOMAIN views.comments \cup DOMAIN views.threads : k[1] \in DOMAIN views.reviews
  PROVE  Creating(Plan(m).steps)
<1> DEFINE repos == {"CreateWorkspace", "RenameWorkspace", "AttachRepo", "DetachRepo"}
           revs == {"CreateReview", "EnsureDirectoryReview", "UpdateReview", "UpdateReviewTarget", "ResolveTargets",
                    "Refresh", "FetchReview", "DeleteReview"}
           talk == {"AddComment", "Reply", "EditComment", "DeleteComment", "Dispose", "ApplySuggestion",
                    "MarkViewed", "UnmarkViewed"}
           rounds == {"RequestReview", "RecordCheckpoint"}
<1>0. \A steps : Staying(steps) => Creating(steps)
  BY DEF Staying, Creating
<1>1. CASE m.op \in repos
  BY <1>0, <1>1, OrderlyRepositories DEF Plan
<1>2. CASE m.op \in revs
  BY <1>0, <1>2, OrderlyCreate, OrderlyDirectory, OrderlyUpdates, OrderlyResolve DEF Plan, Offered
<1>3. CASE m.op \in talk
  BY <1>0, <1>3, OrderlyDiscussion DEF Plan, Offered
<1>4. CASE m.op \in rounds
  BY <1>0, <1>4, OrderlyRounds DEF Plan
<1>5. CASE m.op \notin repos \cup revs \cup talk \cup rounds
  BY <1>5, OrderlyNone DEF Plan, Refused, Failed, Creating
<1>6. QED
  BY <1>1, <1>2, <1>3, <1>4, <1>5

-----------------------------------------------------------------------------
(* Migration.                                                              *)

\* A step of the migration gives an event the shape of the next schema and leaves its other fields.
LEMMA MigrateForm ==
  ASSUME NEW s \in 0 .. (CURRENT - 1), NEW e, {"kind", "rv", "form"} \subseteq DOMAIN e, e.form \in FormsAt(e.kind, s)
  PROVE  /\ DOMAIN MigrateEvent(s, e) = DOMAIN e
         /\ \A x \in DOMAIN e : x # "form" => MigrateEvent(s, e)[x] = e[x]
         /\ MigrateEvent(s, e).form \in FormsAt(e.kind, s + 1)
<1> DEFINE d == MigrateEvent(s, e)
<1>1. DOMAIN d = DOMAIN e /\ \A x \in DOMAIN e : x # "form" => d[x] = e[x]
  BY DEF MigrateEvent, SkipsRequests
<1>2. d.form \in FormsAt(e.kind, s + 1)
  <2>0. s \in Int /\ 0 <= s /\ s <= 10 /\ s + 1 \in Int
    BY DEF CURRENT
  <2> DEFINE skipped ==
               IF s = 3 /\ e.form = "change" THEN "Diff oid"
               ELSE IF s = 7 /\ e.form = "blob_oid" THEN "Blob oid"
               ELSE IF s = 7 /\ e.form = "blob_oid null" THEN "now"
               ELSE IF s = 8 /\ e.form \in {"Blob oid", "Diff oid"} THEN "Unknown mode"
               ELSE e.form
  <2>1. SkipsRequests(s, e).form = skipped
    BY DEF SkipsRequests
  <2>2. d.form = IF s = 5 /\ e.kind = "ReviewRequested" THEN "Unknown" ELSE skipped
    BY <2>1 DEF MigrateEvent
  <2> HIDE DEF d
  <2>3. CASE e.kind = "ReviewRequested"
    <3>1. \A t \in Int : FormsAt(e.kind, t) = IF t < 6 THEN {"no targets"} ELSE {"Unknown", "now"}
      BY <2>3 DEF FormsAt
    <3>2. FormsAt(e.kind, s) = (IF s < 6 THEN {"no targets"} ELSE {"Unknown", "now"})
          /\ FormsAt(e.kind, s + 1) = (IF s + 1 < 6 THEN {"no targets"} ELSE {"Unknown", "now"})
      BY <2>0, <3>1
    <3>3. CASE s < 5
      <4>1. s < 6 /\ s + 1 < 6 /\ s # 5 /\ s # 7 /\ s # 8
        BY <2>0, <3>3
      <4>2. e.form = "no targets" /\ d.form = "no targets"
        BY <2>2, <3>2, <4>1
      <4>3. QED
        BY <3>2, <4>1, <4>2
    <3>4. CASE s = 5
      <4>1. ~(s + 1 < 6) /\ d.form = "Unknown"
        BY <2>0, <2>2, <2>3, <3>4
      <4>2. QED
        BY <3>2, <4>1
    <3>5. CASE s > 5
      <4>1. ~(s < 6) /\ ~(s + 1 < 6) /\ s # 5
        BY <2>0, <3>5
      <4>2. e.form \in {"Unknown", "now"}
        BY <3>2, <4>1
      <4>3. d.form = e.form
        BY <2>2, <4>1, <4>2
      <4>4. QED
        BY <3>2, <4>1, <4>2, <4>3
    <3>6. QED
      BY <2>0, <3>3, <3>4, <3>5
  <2>4. CASE e.kind = "FileViewed"
    <3>1. \A t \in Int : FormsAt(e.kind, t) = IF t < 8 THEN {"blob_oid", "blob_oid null"}
                                              ELSE IF t = 8 THEN {"Blob oid", "now"} ELSE {"Unknown mode", "now"}
      BY <2>4 DEF FormsAt
    <3>2. FormsAt(e.kind, s) = (IF s < 8 THEN {"blob_oid", "blob_oid null"}
                                ELSE IF s = 8 THEN {"Blob oid", "now"} ELSE {"Unknown mode", "now"})
          /\ FormsAt(e.kind, s + 1) = (IF s + 1 < 8 THEN {"blob_oid", "blob_oid null"}
                                ELSE IF s + 1 = 8 THEN {"Blob oid", "now"} ELSE {"Unknown mode", "now"})
      BY <2>0, <3>1
    <3>3. CASE s < 7
      <4>1. s < 8 /\ s + 1 < 8 /\ s # 7 /\ s # 8
        BY <2>0, <3>3
      <4>2. e.form \in {"blob_oid", "blob_oid null"} /\ d.form = e.form
        BY <2>2, <2>4, <3>2, <4>1
      <4>3. QED
        BY <3>2, <4>1, <4>2
    <3>4. CASE s = 7
      <4>0. s < 8 /\ ~(s + 1 < 8) /\ s + 1 = 8
        BY <2>0, <3>4
      <4>1. e.form \in {"blob_oid", "blob_oid null"} /\ FormsAt(e.kind, s + 1) = {"Blob oid", "now"}
        BY <3>2, <4>0
      <4>2. QED
        BY <2>2, <2>4, <3>4, <4>1
    <3>5. CASE s = 8
      <4>0. ~(s < 8) /\ s = 8 /\ ~(s + 1 < 8) /\ s + 1 # 8
        BY <2>0, <3>5
      <4>1. e.form \in {"Blob oid", "now"} /\ FormsAt(e.kind, s + 1) = {"Unknown mode", "now"}
        BY <3>2, <4>0
      <4>2. QED
        BY <2>2, <2>4, <3>5, <4>1
    <3>6. CASE s > 8
      <4>1. ~(s < 8) /\ s # 8 /\ ~(s + 1 < 8) /\ s + 1 # 8 /\ s # 3 /\ s # 7
        BY <2>0, <3>6
      <4>2. e.form \in {"Unknown mode", "now"} /\ d.form = e.form
        BY <2>2, <2>4, <3>2, <4>1
      <4>3. QED
        BY <3>2, <4>1, <4>2
    <3>7. QED
      BY <2>0, <3>3, <3>4, <3>5, <3>6
  <2>5. CASE e.kind = "CommentCreated"
    <3>1. \A t \in Int : FormsAt(e.kind, t) = IF t < 4 THEN {"now", "change"}
                                              ELSE IF t < 9 THEN {"now", "Diff oid"} ELSE {"now", "Unknown mode"}
      BY <2>5 DEF FormsAt
    <3>2. FormsAt(e.kind, s) = (IF s < 4 THEN {"now", "change"}
                                ELSE IF s < 9 THEN {"now", "Diff oid"} ELSE {"now", "Unknown mode"})
          /\ FormsAt(e.kind, s + 1) = (IF s + 1 < 4 THEN {"now", "change"}
                                ELSE IF s + 1 < 9 THEN {"now", "Diff oid"} ELSE {"now", "Unknown mode"})
      BY <2>0, <3>1
    <3>3. CASE s < 3
      <4>1. s < 4 /\ s + 1 < 4 /\ s # 3 /\ s # 7 /\ s # 8
        BY <2>0, <3>3
      <4>2. e.form \in {"now", "change"} /\ d.form = e.form
        BY <2>2, <2>5, <3>2, <4>1
      <4>3. QED
        BY <3>2, <4>1, <4>2
    <3>4. CASE s = 3
      <4>0. s < 4 /\ ~(s + 1 < 4) /\ s + 1 < 9
        BY <2>0, <3>4
      <4>1. e.form \in {"now", "change"} /\ FormsAt(e.kind, s + 1) = {"now", "Diff oid"}
        BY <3>2, <4>0
      <4>2. QED
        BY <2>2, <2>5, <3>4, <4>1
    <3>5. CASE 3 < s /\ s < 8
      <4>1. ~(s < 4) /\ s < 9 /\ ~(s + 1 < 4) /\ s + 1 < 9 /\ s # 3 /\ s # 8
        BY <2>0, <3>5
      <4>2. e.form \in {"now", "Diff oid"}
        BY <3>2, <4>1
      <4>3. d.form = e.form
        BY <2>2, <2>5, <4>1, <4>2
      <4>4. QED
        BY <3>2, <4>1, <4>2, <4>3
    <3>6. CASE s = 8
      <4>0. ~(s < 4) /\ s < 9 /\ ~(s + 1 < 4) /\ ~(s + 1 < 9)
        BY <2>0, <3>6
      <4>1. e.form \in {"now", "Diff oid"} /\ FormsAt(e.kind, s + 1) = {"now", "Unknown mode"}
        BY <3>2, <4>0
      <4>2. QED
        BY <2>2, <2>5, <3>6, <4>1
    <3>7. CASE s > 8
      <4>1. ~(s < 4) /\ ~(s < 9) /\ ~(s + 1 < 4) /\ ~(s + 1 < 9) /\ s # 3 /\ s # 7 /\ s # 8
        BY <2>0, <3>7
      <4>2. e.form \in {"now", "Unknown mode"} /\ d.form = e.form
        BY <2>2, <2>5, <3>2, <4>1
      <4>3. QED
        BY <3>2, <4>1, <4>2
    <3>8. QED
      BY <2>0, <3>3, <3>4, <3>5, <3>6, <3>7
  <2>6. CASE e.kind \notin {"ReviewRequested", "FileViewed", "CommentCreated"}
    <3>1. \A t : FormsAt(e.kind, t) = {"now"}
      BY <2>6 DEF FormsAt
    <3>2. QED
      BY <2>2, <2>6, <3>1
  <2>7. QED
    BY <2>3, <2>4, <2>5, <2>6
<1>3. QED
  BY <1>1, <1>2

\* So the log that a step leaves is good, and written as the next schema has it.
LEMMA MigrateGood ==
  ASSUME NEW s \in 0 .. (CURRENT - 1), NEW lg, NEW kept, GoodLog(lg, kept), Written(lg, s)
  PROVE  /\ GoodLog(MigrateLog(s, lg), kept) /\ Written(MigrateLog(s, lg), s + 1)
         /\ Len(MigrateLog(s, lg)) = Len(lg)
<1> DEFINE new == MigrateLog(s, lg)
<1>0. IsSeq(lg) /\ Len(lg) \in Nat /\ DOMAIN lg = 1 .. Len(lg)
  BY SeqShape DEF GoodLog
<1>1. new = [i \in 1 .. Len(lg) |-> MigrateEvent(s, lg[i])]
  BY <1>0 DEF MigrateLog
<1>2. \A i \in 1 .. Len(lg) : new[i] = MigrateEvent(s, lg[i])
  BY <1>1
<1>3. new = [i \in 1 .. Len(lg) |-> new[i]]
  BY <1>1
<1> HIDE DEF new
<1>4. IsSeq(new) /\ Len(new) = Len(lg)
  BY <1>0, <1>3, SeqOfFunction
<1>5. ASSUME NEW i \in 1 .. Len(lg)
      PROVE  /\ Good(new[i], kept) /\ new[i].form \in FormsAt(new[i].kind, s + 1)
             /\ new[i].kind = lg[i].kind /\ new[i].rv = lg[i].rv /\ DOMAIN new[i] = DOMAIN lg[i]
  <2> DEFINE e == lg[i]
             d == new[i]
  <2>1. Good(e, kept) /\ e.form \in FormsAt(e.kind, s)
    BY DEF GoodLog, Written
  <2>2. d = MigrateEvent(s, e)
    BY <1>2
  <2> HIDE DEF e, d
  <2>3. {"kind", "rv", "form"} \subseteq DOMAIN e
    BY <2>1 DEF Good, Formed
  <2>4. DOMAIN d = DOMAIN e /\ (\A x \in DOMAIN e : x # "form" => d[x] = e[x]) /\ d.form \in FormsAt(e.kind, s + 1)
    BY <2>1, <2>2, <2>3, MigrateForm
  <2>5. d.kind = e.kind /\ d.rv = e.rv /\ ("resolved" \in DOMAIN e => d.resolved = e.resolved)
    BY <2>3, <2>4
  <2>6. Formed(d)
    BY <2>1, <2>4, <2>5 DEF Good, Formed, Naming
  <2>7. e.kind \in Naming => KeysOf(d) = KeysOf(e)
    BY <2>1, <2>5 DEF Good, Formed, KeysOf
  <2>8. Good(d, kept)
    BY <2>1, <2>5, <2>6, <2>7 DEF Good
  <2>9. QED
    BY <2>4, <2>5, <2>8 DEF d, e
<1>6. ASSUME NEW n \in 1 .. Len(lg) PROVE Placed(new[n], CreatedReviews(new, n - 1))
  <2>1. \A i \in 1 .. (n - 1) : i \in 1 .. Len(lg)
    BY <1>0
  <2>2. CreatedReviews(lg, n - 1) = CreatedReviews(new, n - 1)
    BY <1>5, <2>1, CreatedAlike
  <2>3. Placed(lg[n], CreatedReviews(lg, n - 1))
    BY DEF GoodLog
  <2>4. QED
    BY <1>5, <2>2, <2>3 DEF Placed
<1>7. QED
  BY <1>4, <1>5, <1>6 DEF GoodLog, Written, new

-----------------------------------------------------------------------------
(* The store.                                                              *)

\* What the tables and the log are at each point of opening, serving and crashing.
StoreInv ==
  /\ \A m \in menu : Offered(m)
  /\ schema \in (0 .. CURRENT) \cup {Unstamped}
  /\ phase \in {"down", "ensured", "up"}
  /\ phase # "down" => schema # Unstamped
  /\ phase = "up" => schema = CURRENT /\ viewSeq = Len(log)
  /\ schema = CURRENT /\ viewSeq = Len(log) => views = RebuildViews(log)
  /\ schema = Unstamped => viewSeq = 0 /\ views = NoViews
  /\ GoodLog(log, retained)
  /\ Written(log, WrittenUnder(schema))

\* The store as it was left is such a store.
LEMMA StoreInit == ReviewsInit => StoreInv
<1> SUFFICES ASSUME ReviewsInit PROVE StoreInv
  OBVIOUS
<1>1. PICK s \in Stores :
        /\ menu = s.menu
        /\ log = s.log /\ schema = s.schema
        /\ views = IF s.schema = CURRENT THEN RebuildViews(s.log) ELSE NoViews
        /\ viewSeq = IF s.schema \in {0, Unstamped} THEN 0 ELSE Len(s.log)
        /\ phase = "down"
        /\ retained = UNION {Retain(s.log[n].rv, s.log[n].resolved).keys :
                                n \in {i \in DOMAIN s.log : s.log[i].kind \in Naming}}
  BY DEF ReviewsInit
<1>2. IsSeq(log) /\ DOMAIN log = 1 .. Len(log) /\ Len(log) \in Nat
  BY <1>1, StoresAssumption, SeqShape DEF IsSeq
<1>3. ASSUME NEW n \in 1 .. Len(log)
      PROVE  /\ Good(log[n], retained) /\ log[n].form \in FormsAt(log[n].kind, WrittenUnder(schema))
             /\ Placed(log[n], CreatedReviews(log, n - 1))
  <2>1. /\ {"kind", "rv", "form"} \subseteq DOMAIN log[n] /\ log[n].kind \in EventKinds
        /\ log[n].form \in FormsAt(log[n].kind, WrittenUnder(schema))
        /\ Placed(log[n], CreatedReviews(log, n - 1))
        /\ log[n].kind \in Naming =>
             /\ "resolved" \in DOMAIN log[n]
             /\ \A p \in DOMAIN log[n].resolved : {"base", "head"} \subseteq DOMAIN log[n].resolved[p]
    BY <1>1, <1>2, StoresAssumption
  <2>2. log[n].kind \in Naming => KeysOf(log[n]) \subseteq retained
    BY <1>1, <1>2 DEF KeysOf
  <2>3. QED
    BY <2>1, <2>2 DEF Good, Formed
<1>4. GoodLog(log, retained) /\ Written(log, WrittenUnder(schema))
  BY <1>2, <1>3 DEF GoodLog, Written
<1>5. \A m \in menu : Offered(m)
  BY <1>1, StoresAssumption DEF Offered
<1>6. schema \in (0 .. CURRENT) \cup {Unstamped}
  BY <1>1, ReviewsAssumption
<1>7. QED
  BY <1>1, <1>4, <1>5, <1>6 DEF StoreInv, CURRENT, Unstamped

\* What a run of an orderly plan leaves.
LEMMA StoreRun ==
  ASSUME StoreInv, phase = "up", NEW steps, Creating(steps), Run(steps)
  PROVE  /\ GoodLog(log', retained') /\ Written(log', CURRENT)
         /\ views' = RebuildViews(log') /\ viewSeq' = Len(log')
         /\ Len(log') \in Nat /\ Len(log') >= Len(log)
         /\ \A i \in 1 .. Len(log) : log'[i] = log[i]
<1> DEFINE s0 == [log |-> log, views |-> views, retained |-> retained, git |-> git]
           done == FoldLeft(Execute, s0, steps)
<1>1. s0.log = log /\ s0.views = views /\ s0.retained = retained
  OBVIOUS
<1>2. log' = done.log /\ views' = done.views /\ viewSeq' = Len(done.log) /\ retained' = done.retained
  BY DEF Run
<1> HIDE DEF s0
<1>3. WrittenUnder(CURRENT) = CURRENT
  BY DEF WrittenUnder, CURRENT, Unstamped
<1>4. Sound(s0)
  BY <1>1, <1>3 DEF StoreInv, Sound
<1>5. PICK after : Orderly(steps, CreatedReviews(s0.log, Len(s0.log)), after)
  <2>1. DOMAIN views.reviews = CreatedReviews(log, Len(log))
    BY RebuildRows DEF StoreInv
  <2>2. QED
    BY <1>1, <2>1 DEF Creating
<1>6. /\ Sound(done) /\ Len(done.log) \in Nat /\ Len(done.log) >= Len(s0.log)
      /\ \A i \in 1 .. Len(s0.log) : done.log[i] = s0.log[i]
  BY <1>4, <1>5, RunSound
<1> HIDE DEF done
<1>7. QED
  BY <1>1, <1>2, <1>6 DEF Sound

\* The tables of a daemon that serves have finitely many comments, all of reviews.
LEMMA ServedFinite ==
  ASSUME StoreInv, phase = "up"
  PROVE  /\ Rows(views, retained) /\ IsFiniteSet(DOMAIN views.comments)
         /\ \A k \in DOMAIN views.comments \cup DOMAIN views.threads : k[1] \in DOMAIN views.reviews
<1>1. Rows(views, retained)
  BY RebuildRows DEF StoreInv
<1>2. QED
  BY <1>1 DEF Rows

\* An operation, whole or cut off by a crash.
LEMMA StoreMutate ==
  ASSUME StoreInv, NEW m \in menu, Mutate(m) \/ Interrupted(m)
  PROVE  /\ StoreInv' /\ Len(log') \in Nat /\ Len(log') >= Len(log)
         /\ \A i \in 1 .. Len(log) : log'[i] = log[i]
<1>1. phase = "up" /\ Creating(Plan(m).steps)
  <2>1. phase = "up" /\ Offered(m)
    BY DEF StoreInv, Mutate, Interrupted
  <2>2. QED
    BY <2>1, ServedFinite, PlanOrderly
<1>2. PICK steps : Creating(steps) /\ Run(steps)
  <2>1. CASE Mutate(m)
    BY <1>1, <2>1 DEF Mutate
  <2>2. CASE Interrupted(m)
    <3>1. PICK n \in 0 .. (Len(Plan(m).steps) - 1) : Run(SubSeq(Plan(m).steps, 1, n))
      BY <2>2 DEF Interrupted
    <3>2. Len(Plan(m).steps) \in Nat
      BY <1>1, SeqShape DEF Creating, Orderly
    <3>3. n \in 0 .. Len(Plan(m).steps)
      BY <3>2
    <3>4. Creating(SubSeq(Plan(m).steps, 1, n))
      BY <1>1, <3>3, OrderlyPrefix DEF Creating
    <3>5. QED
      BY <3>1, <3>4
  <2>3. QED
    BY <2>1, <2>2
<1>3. /\ GoodLog(log', retained') /\ Written(log', CURRENT)
      /\ views' = RebuildViews(log') /\ viewSeq' = Len(log')
      /\ Len(log') \in Nat /\ Len(log') >= Len(log)
      /\ \A i \in 1 .. Len(log) : log'[i] = log[i]
  BY <1>1, <1>2, StoreRun
<1>4. menu' = menu /\ schema' = schema /\ schema = CURRENT /\ phase' \in {"down", "up"}
  BY <1>1 DEF Mutate, Interrupted, StoreInv
<1>5. WrittenUnder(CURRENT) = CURRENT /\ CURRENT # Unstamped
  BY DEF WrittenUnder, CURRENT, Unstamped
<1>6. QED
  BY <1>3, <1>4, <1>5 DEF StoreInv

\* Opening the store, with crashes between its transactions.
LEMMA StoreOpens ==
  ASSUME StoreInv, Ensure \/ Migrate \/ OpenViews \/ CrashOpening
  PROVE  StoreInv' /\ Len(log') = Len(log)
<1>0. IsSeq(log) /\ Len(log) \in Nat
  BY SeqShape DEF StoreInv, GoodLog
<1>1. CASE Ensure
  <2>1. UNCHANGED <<menu, log, views, viewSeq, retained>> /\ phase' = "ensured" /\ schema' = EnsureSchema(schema, log)
    BY <1>1 DEF Ensure
  <2>2. CASE schema # Unstamped
    BY <2>1, <2>2 DEF StoreInv, EnsureSchema
  <2>3. CASE schema = Unstamped /\ log = <<>>
    <3>1. Len(log) = 0
      BY <2>3
    <3>2. views = RebuildViews(log)
      BY <2>3, <3>1, RebuildEmpty DEF StoreInv
    <3>3. Written(log, WrittenUnder(CURRENT))
      BY <3>1 DEF Written
    <3>4. schema' = CURRENT /\ CURRENT # Unstamped /\ CURRENT \in 0 .. CURRENT
      BY <2>1, <2>3 DEF EnsureSchema, CURRENT, Unstamped
    <3>5. QED
      BY <2>1, <3>2, <3>3, <3>4 DEF StoreInv
  <2>4. CASE schema = Unstamped /\ log # <<>>
    <3>1. schema' = 0 /\ WrittenUnder(schema') = WrittenUnder(schema)
      BY <2>1, <2>4 DEF EnsureSchema, WrittenUnder, Unstamped
    <3>2. QED
      BY <2>1, <3>1 DEF StoreInv, CURRENT, Unstamped
  <2>5. QED
    BY <2>1, <2>2, <2>3, <2>4
<1>2. CASE Migrate
  <2>1. /\ schema \in 0 .. (CURRENT - 1) /\ phase = "ensured" /\ schema # Unstamped
        /\ log' = MigrateLog(schema, log) /\ schema' = schema + 1
        /\ views' = (IF ClearsViews(schema) THEN NoViews ELSE views)
        /\ viewSeq' = (IF ClearsViews(schema) THEN 0 ELSE viewSeq)
        /\ UNCHANGED <<menu, phase, retained>>
    BY <1>2 DEF Migrate, MigrateStep, StoreInv, CURRENT, Unstamped
  <2>2. WrittenUnder(schema) = schema /\ WrittenUnder(schema') = schema + 1 /\ schema' # Unstamped
    BY <2>1 DEF WrittenUnder, Unstamped, CURRENT
  <2>3. GoodLog(log', retained') /\ Written(log', schema + 1) /\ Len(log') = Len(log)
    BY <2>1, <2>2, MigrateGood DEF StoreInv
  <2>4. ASSUME schema' = CURRENT, viewSeq' = Len(log') PROVE views' = RebuildViews(log')
    <3>1. views' = NoViews /\ Len(log') = 0
      BY <2>1, <2>4 DEF ClearsViews, CURRENT
    <3>2. QED
      BY <3>1, RebuildEmpty
  <2>5. schema' \in (0 .. CURRENT) \cup {Unstamped}
    BY <2>1 DEF CURRENT
  <2>6. QED
    BY <2>1, <2>2, <2>3, <2>4, <2>5 DEF StoreInv
<1>3. CASE OpenViews
  <2>1. /\ phase = "ensured" /\ schema = CURRENT /\ UNCHANGED <<menu, log, schema, retained>> /\ phase' = "up"
        /\ IF viewSeq = Len(log) THEN UNCHANGED <<views, viewSeq>>
           ELSE views' = RebuildViews(log) /\ viewSeq' = Len(log)
    BY <1>3 DEF OpenViews
  <2>2. viewSeq' = Len(log') /\ views' = RebuildViews(log')
    BY <2>1 DEF StoreInv
  <2>3. QED
    BY <2>1, <2>2 DEF StoreInv
<1>4. CASE CrashOpening
  BY <1>4 DEF CrashOpening, StoreInv, storeVars
<1>5. QED
  BY <1>1, <1>2, <1>3, <1>4

\* Everything else leaves the store alone.
LEMMA StoreLeft ==
  ASSUME StoreInv, UNCHANGED <<menu, storeVars, phase, retained>>
  PROVE  StoreInv' /\ Len(log') = Len(log)
BY DEF StoreInv, storeVars

\* Which steps do.
LEMMA StoreStep ==
  ASSUME StoreInv, [ReviewsNext]_reviewVars
  PROVE  StoreInv' /\ Len(log') \in Nat /\ Len(log') >= Len(log)
<1>0. Len(log) \in Nat
  BY SeqShape DEF StoreInv, GoodLog
<1>1. ASSUME NEW m \in menu, Mutate(m) \/ Interrupted(m)
      PROVE  StoreInv' /\ Len(log') \in Nat /\ Len(log') >= Len(log)
  BY <1>1, StoreMutate
<1>2. CASE Ensure \/ Migrate \/ OpenViews \/ CrashOpening
  BY <1>0, <1>2, StoreOpens
<1>3. ASSUME NEW m \in menu, Outside(m) PROVE UNCHANGED <<menu, storeVars, phase, retained>>
  BY <1>3 DEF Outside
<1>4. CASE Publish \/ ReadPage \/ FollowRegister \/ FollowLook \/ FollowDecide \/ FollowWake \/ ReaderDropped
  <2>1. UNCHANGED <<menu, storeVars, phase, retained>>
    BY <1>4 DEF Publish, ReadPage, FollowRegister, FollowLook, FollowDecide, FollowWake, ReaderDropped
  <2>2. QED
    BY <1>0, <2>1, StoreLeft
<1>5. CASE UNCHANGED reviewVars
  <2>1. UNCHANGED <<menu, storeVars, phase, retained>>
    BY <1>5 DEF reviewVars, storeVars
  <2>2. QED
    BY <1>0, <2>1, StoreLeft
<1>6. QED
  BY <1>0, <1>1, <1>2, <1>3, <1>4, <1>5, StoreLeft DEF ReviewsNext

-----------------------------------------------------------------------------
(* Pages.                                                                  *)

\* Positions can be put in order.
LEMMA InOrderExists ==
  ASSUME NEW n \in Nat, NEW S \in SUBSET (1 .. n)
  PROVE  IsSeq(InOrder(S)) /\ Ascending(InOrder(S)) /\ ToSet(InOrder(S)) = S
<1> DEFINE Orders(s, U) == s \in [1 .. Cardinality(U) -> U] /\ Ascending(s) /\ ToSet(s) = U
           T == {k \in Nat : \A U \in SUBSET (1 .. k) : \E s : Orders(s, U)}
<1>1. ASSUME NEW U, U = {} PROVE \E s : Orders(s, U)
  <2> DEFINE s == [i \in 1 .. 0 |-> i]
  <2>1. Cardinality(U) = 0
    BY <1>1, FS_EmptySet
  <2>2. \A i : i \notin 1 .. 0
    OBVIOUS
  <2>3. s \in [1 .. 0 -> U] /\ DOMAIN s = {}
    BY <2>2
  <2> HIDE DEF s
  <2>4. Ascending(s) /\ ToSet(s) = U
    BY <1>1, <2>3 DEF Ascending, ToSet
  <2>5. QED
    BY <2>1, <2>3, <2>4
<1>2. 0 \in T
  <2>1. \A U \in SUBSET (1 .. 0) : U = {}
    OBVIOUS
  <2> HIDE DEF Orders
  <2>2. QED
    BY <1>1, <2>1
<1>3. ASSUME NEW k \in Nat, k \in T PROVE k + 1 \in T
  <2> SUFFICES ASSUME NEW U \in SUBSET (1 .. (k + 1)) PROVE \E s : Orders(s, U)
    BY SMTT(20)
  <2>1. CASE k + 1 \notin U
    <3>1. U \in SUBSET (1 .. k)
      BY <2>1
    <3> HIDE DEF Orders
    <3>2. QED
      BY <1>3, <3>1
  <2>2. CASE k + 1 \in U
    <3> DEFINE V == U \ {k + 1}
               c == Cardinality(V)
    <3>1. V \in SUBSET (1 .. k) /\ U = V \cup {k + 1}
      BY <2>2
    <3>2. IsFiniteSet(U) /\ IsFiniteSet(V) /\ Cardinality(U) \in Nat /\ c \in Nat /\ Cardinality(U) = c + 1
      <4>1. IsFiniteSet(1 .. (k + 1))
        BY FS_Interval
      <4>2. IsFiniteSet(U)
        BY <4>1, FS_Subset
      <4>3. IsFiniteSet(V) /\ c = Cardinality(U) - 1
        BY <2>2, <4>2, FS_RemoveElement
      <4>4. QED
        BY <4>2, <4>3, FS_CardinalityType
    <3>3. PICK s : Orders(s, V)
      <4> HIDE DEF Orders, V
      <4>1. QED
        BY <1>3, <3>1
    <3> HIDE DEF V, c
    <3>4. s \in [1 .. c -> V] /\ Ascending(s) /\ ToSet(s) = V /\ DOMAIN s = 1 .. c
      BY <3>3 DEF c
    <3> DEFINE t == [i \in 1 .. (c + 1) |-> IF i <= c THEN s[i] ELSE k + 1]
    <3>5. /\ DOMAIN t = 1 .. (c + 1) /\ t[c + 1] = k + 1
          /\ \A i \in 1 .. c : t[i] = s[i] /\ s[i] \in V /\ s[i] \in 1 .. k
          /\ \A i \in 1 .. (c + 1) : i \in 1 .. c \/ i = c + 1
      <4>1. /\ c + 1 \in 1 .. (c + 1) /\ ~(c + 1 <= c)
            /\ \A i \in 1 .. c : i \in 1 .. (c + 1) /\ i <= c
            /\ \A i \in 1 .. (c + 1) : i \in 1 .. c \/ i = c + 1
        BY <3>2
      <4>2. \A i \in 1 .. c : s[i] \in V /\ s[i] \in 1 .. k
        BY <3>1, <3>4
      <4>3. QED
        BY <4>1, <4>2
    <3>6. t \in [1 .. (c + 1) -> U]
      BY <3>1, <3>4
    <3> HIDE DEF t
    <3>7. Ascending(t)
      <4>1. ASSUME NEW i \in 1 .. (c + 1), NEW j \in 1 .. (c + 1), i < j PROVE t[i] < t[j]
        <5>1. i \in 1 .. c
          BY <3>2, <4>1
        <5>2. CASE j \in 1 .. c
          BY <3>4, <3>5, <4>1, <5>1, <5>2 DEF Ascending
        <5>3. CASE j = c + 1
          BY <3>5, <5>1, <5>3
        <5>4. QED
          BY <3>5, <5>2, <5>3
      <4>2. QED
        BY <3>5, <4>1 DEF Ascending
    <3>8. ToSet(t) = U
      <4>1. ToSet(t) \subseteq U
        BY <3>5, <3>6 DEF ToSet
      <4>2. k + 1 \in ToSet(t)
        BY <3>2, <3>5 DEF ToSet
      <4>3. V \subseteq ToSet(t)
        <5>1. ASSUME NEW x \in V PROVE \E i \in 1 .. c : s[i] = x
          BY <3>4 DEF ToSet
        <5>2. 1 .. c \subseteq 1 .. (c + 1)
          BY <3>2
        <5>3. QED
          BY <3>5, <5>1, <5>2 DEF ToSet
      <4>4. QED
        BY <3>1, <4>1, <4>2, <4>3
    <3>9. QED
      BY <3>2, <3>6, <3>7, <3>8
  <2>3. QED
    BY <2>1, <2>2
<1>4. PICK s : Orders(s, S)
  <2> HIDE DEF Orders
  <2>1. Nat \subseteq T
    <3> HIDE DEF T
    <3>1. QED
      BY <1>2, <1>3, NaturalsByStep
  <2>2. QED
    BY <2>1
<1>5. InOrder(S) \in [1 .. Cardinality(S) -> S] /\ Ascending(InOrder(S)) /\ ToSet(InOrder(S)) = S
  BY <1>4 DEF InOrder
<1>6. Cardinality(S) \in Nat
  <2>1. IsFiniteSet(1 .. n)
    BY FS_Interval
  <2>2. IsFiniteSet(S)
    BY <2>1, FS_Subset
  <2>3. QED
    BY <2>2, FS_CardinalityType
<1>7. InOrder(S) = [i \in 1 .. Cardinality(S) |-> InOrder(S)[i]]
  BY <1>5
<1>8. QED
  BY <1>5, <1>6, <1>7, SeqOfFunction

\* Printing on.
LEMMA AscendingConcat ==
  ASSUME NEW a, IsSeq(a), Ascending(a), NEW b, IsSeq(b), Ascending(b),
         \A x \in ToSet(a) : \A y \in ToSet(b) : x < y
  PROVE  IsSeq(a \o b) /\ Ascending(a \o b) /\ ToSet(a \o b) = ToSet(a) \cup ToSet(b)
<1> DEFINE c == a \o b
<1>1. /\ IsSeq(c) /\ Len(c) = Len(a) + Len(b) /\ \A i \in 1 .. Len(a) : c[i] = a[i]
      /\ \A i \in 1 .. Len(b) : c[Len(a) + i] = b[i]
  BY SeqConcat
<1> HIDE DEF c
<1>2. /\ Len(a) \in Nat /\ Len(b) \in Nat /\ DOMAIN a = 1 .. Len(a) /\ DOMAIN b = 1 .. Len(b)
      /\ DOMAIN c = 1 .. (Len(a) + Len(b))
  BY <1>1, SeqShape
<1>3. ASSUME NEW i \in DOMAIN c
      PROVE  \/ i \in DOMAIN a /\ c[i] = a[i]
             \/ i - Len(a) \in DOMAIN b /\ c[i] = b[i - Len(a)] /\ i > Len(a)
  <2>1. CASE i <= Len(a)
    BY <1>1, <1>2, <2>1
  <2>2. CASE i > Len(a)
    <3>1. i - Len(a) \in 1 .. Len(b) /\ Len(a) + (i - Len(a)) = i
      BY <1>2, <2>2
    <3>2. ASSUME NEW k \in 1 .. Len(b), k = i - Len(a) PROVE c[i] = b[k]
      <4>1. c[Len(a) + k] = b[k] /\ Len(a) + k = i
        BY <1>1, <1>2, <3>2
      <4>2. QED
        BY <4>1
    <3>3. QED
      BY <1>2, <2>2, <3>1, <3>2
  <2>3. QED
    BY <1>2, <2>1, <2>2
<1>4. Ascending(c)
  <2> SUFFICES ASSUME NEW i \in DOMAIN c, NEW j \in DOMAIN c, i < j PROVE c[i] < c[j]
    BY DEF Ascending
  <2>1. i \in Int /\ j \in Int
    BY <1>2
  <2>2. CASE i \in DOMAIN a /\ c[i] = a[i] /\ j \in DOMAIN a /\ c[j] = a[j]
    BY <2>2 DEF Ascending
  <2>3. CASE i \in DOMAIN a /\ c[i] = a[i] /\ j - Len(a) \in DOMAIN b /\ c[j] = b[j - Len(a)]
    BY <2>3 DEF ToSet
  <2>4. CASE i - Len(a) \in DOMAIN b /\ c[i] = b[i - Len(a)] /\ j - Len(a) \in DOMAIN b /\ c[j] = b[j - Len(a)]
    <3>1. i - Len(a) < j - Len(a)
      BY <1>2, <2>1
    <3>2. QED
      BY <2>4, <3>1 DEF Ascending
  <2>5. CASE i > Len(a) /\ j \in DOMAIN a
    BY <1>2, <2>1, <2>5
  <2>6. QED
    BY <1>3, <2>2, <2>3, <2>4, <2>5
<1>5. ToSet(c) = ToSet(a) \cup ToSet(b)
  <2>1. ToSet(c) \subseteq ToSet(a) \cup ToSet(b)
    BY <1>3 DEF ToSet
  <2>2. ToSet(a) \subseteq ToSet(c)
    <3>1. DOMAIN a \subseteq DOMAIN c
      BY <1>2
    <3>2. QED
      BY <1>1, <1>2, <3>1 DEF ToSet
  <2>3. ToSet(b) \subseteq ToSet(c)
    <3>1. \A i \in DOMAIN b : Len(a) + i \in DOMAIN c
      BY <1>2
    <3>2. QED
      BY <1>1, <1>2, <3>1 DEF ToSet
  <2>4. QED
    BY <2>1, <2>2, <2>3
<1>6. QED
  BY <1>1, <1>4, <1>5 DEF c

\* A page ends between its first position and the end of the walk.
LEMMA PageEnds ==
  ASSUME NEW lg, NEW after \in Nat, NEW through \in Nat, after < through
  PROVE  PageEnd(lg, after, through) \in after .. through
<1> DEFINE ends == {n \in (after + 1) .. through : \A m \in (after + 1) .. n : Fits(lg, after + 1, m)}
<1>1. ends \in SUBSET ((after + 1) .. through) /\ PageEnd(lg, after, through) = Max(ends \cup {after})
  BY DEF PageEnd
<1> HIDE DEF ends
<1>2. \E x \in ends \cup {after} : \A y \in ends \cup {after} : x >= y
  <2>1. CASE ends = {}
    BY <2>1
  <2>2. CASE ends # {}
    <3>1. ends \in SUBSET (1 .. through)
      BY <1>1
    <3>2. Max(ends) \in ends /\ \A i \in ends : i <= Max(ends)
      BY <2>2, <3>1, LastPosition
    <3>3. Max(ends) \in (after + 1) .. through
      BY <1>1, <3>2
    <3>4. \A y \in ends \cup {after} : y \in Int /\ y <= Max(ends)
      BY <1>1, <3>2, <3>3
    <3>5. QED
      BY <3>2, <3>3, <3>4
  <2>3. QED
    BY <2>1, <2>2
<1>3. Max(ends \cup {after}) \in ends \cup {after}
  BY <1>2 DEF Max
<1>4. ends \cup {after} \subseteq after .. through
  BY <1>1
<1>5. QED
  BY <1>1, <1>3, <1>4

\* A position that a page can be asked for: a walk that goes on has not reached its end.
IsPosition(pos) ==
  /\ pos.type \in {"Now", "After", "Continue", "Follow"} /\ pos.after \in Nat /\ pos.through \in Nat
  /\ pos.type = "Continue" => pos.after < pos.through

\* Where a walk starts.
StartOf(pos, head) == IF pos.type = "Now" THEN head ELSE pos.after

\* The records that match.
Matching(lg, v, scope, first, last) == {n \in first .. last : Matches(v, scope, lg[n])}

\* What a page has scanned, and what it returns of it.
LEMMA PageScans ==
  ASSUME NEW lg, Len(lg) \in Nat, NEW v, NEW scope, NEW pos, IsPosition(pos),
         NEW page, page = ReplayEvents(lg, v, scope, pos), page.ok
  PROVE  LET start == StartOf(pos, Len(lg))
         IN /\ page.after \in Nat /\ page.through \in Nat /\ start <= page.after /\ page.after <= page.through
            /\ page.after = start \/ page.after <= Len(lg)
            /\ pos.type = "Now" => page.after = start /\ page.through = start
            /\ page.events = InOrder(Matching(lg, v, scope, start + 1, page.after))
<1> DEFINE start == StartOf(pos, Len(lg))
           w == Window(pos, Len(lg))
           scanned == IF w[1] < w[2] THEN PageEnd(lg, w[1], w[2]) ELSE w[2]
           events == IF w[1] < w[2] THEN [i \in 1 .. (scanned - w[1]) |-> w[1] + i] ELSE <<>>
           raw == ReplayPage(lg, pos)
<1>1. /\ w[1] = start /\ w[1] \in Nat /\ w[2] \in Nat /\ w[1] <= w[2]
      /\ pos.type = "Continue" \/ w[1] = w[2] \/ w[2] = Len(lg)
      /\ pos.type = "Now" => w[1] = w[2]
  <2>1. CASE pos.type = "Now"
    BY <2>1 DEF Window, StartOf
  <2>2. CASE pos.type = "Continue"
    BY <2>2 DEF Window, IsPosition, StartOf
  <2>3. CASE pos.type \in {"After", "Follow"}
    <3>1. w = <<pos.after, IF Len(lg) > pos.after THEN Len(lg) ELSE pos.after>> /\ start = pos.after
      BY <2>3 DEF Window, StartOf
    <3>2. QED
      BY <2>3, <3>1 DEF IsPosition
  <2>4. QED
    BY <2>1, <2>2, <2>3 DEF IsPosition
<1>2. page.ok = raw.ok /\ page.after = raw.after /\ page.through = raw.through
      /\ page.events = InOrder({n \in ToSet(raw.events) : Matches(v, scope, lg[n])})
  <2>1. raw = PageError \/ raw = [ok |-> TRUE, after |-> scanned, through |-> w[2], events |-> events]
    BY DEF ReplayPage
  <2> HIDE DEF scanned, w, events
  <2>2. DOMAIN raw = {"ok", "after", "through", "events"}
    BY <2>1 DEF PageError
  <2> HIDE DEF raw
  <2>3. page = [raw EXCEPT !.events = InOrder({n \in ToSet(@) : Matches(v, scope, lg[n])})]
    BY DEF ReplayEvents, raw
  <2>4. QED
    BY <2>2, <2>3
<1>3. raw = [ok |-> TRUE, after |-> scanned, through |-> w[2], events |-> events]
      /\ (pos.type = "Continue" => pos.through <= Len(lg))
  <2>1. ~PageError.ok
    BY DEF PageError
  <2>2. /\ ~(pos.type = "Continue" /\ pos.through > Len(lg))
        /\ raw = [ok |-> TRUE, after |-> scanned, through |-> w[2], events |-> events]
    BY <1>2, <2>1 DEF ReplayPage
  <2>3. QED
    BY <2>2 DEF IsPosition
<1>4. pos.type = "Continue" => w[2] <= Len(lg)
  BY <1>3 DEF Window
<1>5. scanned \in w[1] .. w[2]
  <2> HIDE DEF w
  <2>1. QED
    BY <1>1, PageEnds
<1>6. ToSet(events) = (w[1] + 1) .. scanned
  <2> HIDE DEF w
  <2>1. CASE w[1] < w[2]
    <3>1. DOMAIN events = 1 .. (scanned - w[1]) /\ \A i \in 1 .. (scanned - w[1]) : events[i] = w[1] + i
      BY <2>1
    <3> HIDE DEF events, scanned
    <3>2. \A n \in (w[1] + 1) .. scanned : n - w[1] \in 1 .. (scanned - w[1]) /\ w[1] + (n - w[1]) = n
      BY <1>1, <1>5
    <3>3. \A i \in 1 .. (scanned - w[1]) : w[1] + i \in (w[1] + 1) .. scanned
      BY <1>1, <1>5
    <3>4. ASSUME NEW n \in (w[1] + 1) .. scanned PROVE n \in ToSet(events)
      <4>1. n - w[1] \in DOMAIN events /\ events[n - w[1]] = w[1] + (n - w[1])
        BY <3>1, <3>2
      <4>2. QED
        BY <3>2, <4>1 DEF ToSet
    <3>5. QED
      BY <3>1, <3>3, <3>4 DEF ToSet
  <2>2. CASE ~(w[1] < w[2])
    <3>1. ToSet(events) = {}
      BY <2>2 DEF ToSet
    <3>2. (w[1] + 1) .. scanned = {}
      BY <1>1, <1>5, <2>2
    <3>3. QED
      BY <3>1, <3>2
  <2>3. QED
    BY <2>1, <2>2
<1>7. raw.after = scanned /\ raw.through = w[2] /\ raw.events = events
  BY <1>3
<1> HIDE DEF w, scanned, events, raw, start
<1>8. QED
  BY <1>1, <1>2, <1>4, <1>5, <1>6, <1>7 DEF start, Matching

-----------------------------------------------------------------------------
(* The reader.                                                             *)

ReaderFields == {"state", "scope", "follow", "pos", "from", "scanned", "printed", "wake", "head"}

\* What a follower knows when it has looked, and when it sleeps.
ReaderInv ==
  /\ DOMAIN reader = ReaderFields /\ reader.wake \in BOOLEAN /\ IsPosition(reader.pos)
  /\ phase # "up" => ~Registered(reader.state)
  /\ phase = "up" => published \in Nat /\ published <= Len(log)
  /\ Registered(reader.state) => reader.pos.type = "Follow"
  /\ reader.state = "looked" =>
       reader.head \in Nat /\ (Len(log) > reader.head => reader.wake \/ published < Len(log))
  /\ reader.state = "sleep" =>
       (Len(log) > reader.pos.after => reader.wake \/ published < Len(log))

\* A page leaves the reader unregistered, at a position.
LEMMA PageReads ==
  ASSUME DOMAIN reader = ReaderFields, reader.wake \in BOOLEAN, IsPosition(reader.pos), Len(log) \in Nat, ReaderPage
  PROVE  /\ DOMAIN reader' = ReaderFields /\ reader'.wake \in BOOLEAN /\ IsPosition(reader'.pos)
         /\ reader'.state \in {"ask", "done", "lost"}
<1> DEFINE page == ReplayEvents(log, views, reader.scope, reader.pos)
           next == IF page.after < page.through THEN Continue(page.after, page.through) ELSE Follow(page.through)
           state == IF page.after < page.through \/ reader.follow THEN "ask" ELSE "done"
<1>1. CASE page.ok
  <2>0. IsPosition(next)
    <3>1. page.after \in Nat /\ page.through \in Nat
      BY <1>1, PageScans
    <3> HIDE DEF page
    <3>2. QED
      BY <3>1 DEF IsPosition, Continue, Follow
  <2>1. DOMAIN reader' = DOMAIN reader /\ reader'.pos = next /\ reader'.wake = FALSE /\ reader'.state = state
    BY <1>1 DEF ReaderPage, ReaderFields
  <2>2. state \in {"ask", "done", "lost"}
    OBVIOUS
  <2> HIDE DEF state, next
  <2>3. QED
    BY <2>0, <2>1, <2>2
<1>2. CASE ~page.ok
  <2>1. reader' = [reader EXCEPT !.state = "lost"]
    BY <1>2 DEF ReaderPage
  <2>2. QED
    BY <2>1 DEF ReaderFields
<1>3. QED
  BY <1>1, <1>2

\* At first the daemon is down.
LEMMA ReaderInit == ReviewsInit => ReaderInv
<1> SUFFICES ASSUME ReviewsInit PROVE ReaderInv
  OBVIOUS
<1>1. PICK s \in Stores :
        /\ phase = "down"
        /\ reader = [state |-> s.reader, scope |-> s.scope, follow |-> s.follow,
                     pos |-> s.pos, from |-> s.pos.after, scanned |-> s.pos.after,
                     printed |-> <<>>, wake |-> FALSE, head |-> 0]
  BY DEF ReviewsInit
<1>2. s.reader \in {"off", "ask"} /\ s.pos.type \in {"Now", "After"} /\ s.pos.after \in Nat /\ s.pos.through \in Nat
  BY StoresAssumption
<1>3. IsPosition(s.pos)
  BY <1>2 DEF IsPosition
<1>4. DOMAIN reader = ReaderFields /\ reader.wake = FALSE /\ reader.pos = s.pos /\ reader.state \in {"off", "ask"}
  BY <1>1, <1>2 DEF ReaderFields
<1>5. QED
  BY <1>1, <1>3, <1>4 DEF ReaderInv, Registered

\* A reader that is not registered, at a position.
LEMMA ReaderIdle ==
  ASSUME DOMAIN reader' = ReaderFields, reader'.wake \in BOOLEAN, IsPosition(reader'.pos),
         ~Registered(reader.state)', phase' = "up" => published' \in Nat /\ published' <= Len(log')
  PROVE  ReaderInv'
BY DEF ReaderInv, Registered

\* A broken connection.
LEMMA ReaderCut ==
  ASSUME DOMAIN reader = ReaderFields, reader.wake \in BOOLEAN, IsPosition(reader.pos),
         reader' = Disconnected(reader)
  PROVE  /\ DOMAIN reader' = ReaderFields /\ reader'.wake \in BOOLEAN /\ IsPosition(reader'.pos)
         /\ ~Registered(reader.state)'
<1>1. DOMAIN reader' = ReaderFields /\ reader'.wake = FALSE /\ reader'.pos = reader.pos /\ reader'.state \in {"ask", "lost"}
  BY DEF Disconnected, ReaderFields
<1>2. QED
  BY <1>1 DEF Registered

\* The writer appends, and what it appended is still to be broadcast.
LEMMA ReaderMutate ==
  ASSUME StoreInv, ReaderInv, NEW m \in menu, Mutate(m) \/ Interrupted(m)
  PROVE  ReaderInv'
<1>0. Len(log) \in Nat /\ Len(log') \in Nat /\ Len(log') >= Len(log)
  BY StoreMutate, SeqShape DEF StoreInv, GoodLog
<1>1. CASE Mutate(m)
  <2>1. phase = "up" /\ phase' = phase /\ published = Len(log) /\ published' = published /\ reader' = reader
    BY <1>1 DEF Mutate
  <2>2. reader.state = "looked" => reader.head \in Nat /\ (Len(log) > reader.head => reader.wake \/ published < Len(log))
    BY DEF ReaderInv
  <2>3. CASE Len(log') = Len(log)
    BY <2>1, <2>3 DEF ReaderInv
  <2>4. CASE Len(log') # Len(log)
    <3>1. published' < Len(log') /\ published' \in Nat /\ published' <= Len(log')
      BY <1>0, <2>1, <2>4
    <3>2. QED
      BY <2>1, <2>2, <3>1 DEF ReaderInv
  <2>5. QED
    BY <2>3, <2>4
<1>2. CASE Interrupted(m)
  <2>1. phase' = "down" /\ reader' = IF Reading THEN Disconnected(reader) ELSE reader
    BY <1>2 DEF Interrupted
  <2>2. CASE Reading
    BY <2>1, <2>2, ReaderCut, ReaderIdle DEF ReaderInv
  <2>3. CASE ~Reading
    BY <2>1, <2>3, ReaderIdle DEF ReaderInv, Reading, Registered
  <2>4. QED
    BY <2>2, <2>3
<1>3. QED
  BY <1>1, <1>2

\* Opening the store happens without a follower.
LEMMA ReaderOpens ==
  ASSUME StoreInv, ReaderInv, Ensure \/ Migrate \/ OpenViews \/ CrashOpening
  PROVE  ReaderInv'
<1>0. Len(log) \in Nat
  BY SeqShape DEF StoreInv, GoodLog
<1>1. reader' = reader /\ phase \in {"down", "ensured"}
  BY DEF Ensure, Migrate, OpenViews, CrashOpening
<1>2. phase' = "up" => published' \in Nat /\ published' <= Len(log')
  <2>1. CASE OpenViews
    BY <1>0, <2>1 DEF OpenViews
  <2>2. CASE Ensure \/ Migrate \/ CrashOpening
    BY <2>2 DEF Ensure, Migrate, CrashOpening
  <2>3. QED
    BY <2>1, <2>2
<1>3. ~Registered(reader.state)' /\ DOMAIN reader' = ReaderFields /\ reader'.wake \in BOOLEAN /\ IsPosition(reader'.pos)
  BY <1>1 DEF ReaderInv, Registered
<1>4. QED
  BY <1>2, <1>3, ReaderIdle

\* A broadcast wakes whoever registered.
LEMMA ReaderPublish ==
  ASSUME StoreInv, ReaderInv, Publish
  PROVE  ReaderInv'
<1>0. Len(log) \in Nat
  BY SeqShape DEF StoreInv, GoodLog
<1>1. phase' = phase /\ published' = Len(log) /\ log' = log
      /\ reader' = [reader EXCEPT !.wake = @ \/ Registered(reader.state)]
  BY DEF Publish, storeVars
<1>2. /\ DOMAIN reader' = ReaderFields /\ reader'.state = reader.state /\ reader'.pos = reader.pos
      /\ reader'.head = reader.head /\ reader'.wake = (reader.wake \/ Registered(reader.state))
  BY <1>1 DEF ReaderInv, ReaderFields
<1>3. reader'.wake \in BOOLEAN /\ (Registered(reader.state) => reader'.wake)
  BY <1>2
<1>4. CASE Registered(reader.state)
  <2>1. reader'.wake = TRUE
    BY <1>3, <1>4
  <2>2. QED
    BY <1>0, <1>1, <1>2, <2>1 DEF ReaderInv, Registered
<1>5. CASE ~Registered(reader.state)
  <2>1. ~Registered(reader.state)'
    BY <1>2, <1>5 DEF Registered
  <2>2. QED
    BY <1>0, <1>1, <1>2, <1>3, <2>1, ReaderIdle DEF ReaderInv
<1>6. QED
  BY <1>4, <1>5

\* The steps of a follower.
LEMMA ReaderFollows ==
  ASSUME StoreInv, ReaderInv, ReadPage \/ FollowRegister \/ FollowLook \/ FollowDecide \/ FollowWake \/ ReaderDropped
  PROVE  ReaderInv'
<1>0. Len(log) \in Nat /\ phase' = phase /\ published' = published /\ log' = log
  BY SeqShape DEF StoreInv, GoodLog, ReadPage, FollowRegister, FollowLook, FollowDecide, FollowWake, ReaderDropped,
                  storeVars
<1>1. ASSUME ReaderPage PROVE ReaderInv'
  <2>1. /\ DOMAIN reader' = ReaderFields /\ reader'.wake \in BOOLEAN /\ IsPosition(reader'.pos)
        /\ reader'.state \in {"ask", "done", "lost"}
    BY <1>0, <1>1, PageReads DEF ReaderInv
  <2>2. ~Registered(reader.state)'
    BY <2>1 DEF Registered
  <2>3. QED
    BY <1>0, <2>1, <2>2, ReaderIdle DEF ReaderInv
<1>2. ASSUME reader' = [reader EXCEPT !.state = "watch", !.wake = FALSE], reader.pos.type = "Follow", phase = "up"
      PROVE  ReaderInv'
  <2>1. DOMAIN reader' = ReaderFields /\ reader'.state = "watch" /\ reader'.wake = FALSE /\ reader'.pos = reader.pos
    BY <1>2 DEF ReaderInv, ReaderFields
  <2>2. QED
    BY <1>0, <1>2, <2>1 DEF ReaderInv, Registered
<1>3. CASE ReadPage
  BY <1>1, <1>3 DEF ReadPage
<1>4. CASE FollowRegister
  BY <1>2, <1>4 DEF FollowRegister
<1>5. CASE FollowWake
  BY <1>2, <1>5 DEF FollowWake, ReaderInv, Registered
<1>6. CASE FollowLook
  <2>1. phase = "up" /\ reader.state = "watch" /\ reader' = [reader EXCEPT !.state = "looked", !.head = Len(log)]
    BY <1>6 DEF FollowLook
  <2>2. /\ DOMAIN reader' = ReaderFields /\ reader'.state = "looked" /\ reader'.wake = reader.wake
        /\ reader'.pos = reader.pos /\ reader'.head = Len(log)
    BY <2>1 DEF ReaderInv, ReaderFields
  <2>3. QED
    BY <1>0, <2>1, <2>2 DEF ReaderInv, Registered
<1>7. CASE FollowDecide
  <2>1. phase = "up" /\ reader.state = "looked"
    BY <1>7 DEF FollowDecide
  <2>2. CASE reader.head > reader.pos.after
    BY <1>1, <1>7, <2>2 DEF FollowDecide
  <2>3. CASE ~(reader.head > reader.pos.after)
    <3>1. reader' = [reader EXCEPT !.state = "sleep"]
      BY <1>7, <2>3 DEF FollowDecide
    <3>2. DOMAIN reader' = ReaderFields /\ reader'.state = "sleep" /\ reader'.wake = reader.wake /\ reader'.pos = reader.pos
      BY <3>1 DEF ReaderInv, ReaderFields
    <3>3. reader.head \in Nat /\ reader.pos.after \in Int
      BY <2>1 DEF ReaderInv, Registered, IsPosition
    <3>4. Len(log) > reader.pos.after => reader.wake \/ published < Len(log)
      <4>1. Len(log) > reader.pos.after => Len(log) > reader.head
        BY <1>0, <2>3, <3>3
      <4>2. QED
        BY <2>1, <4>1 DEF ReaderInv
    <3>5. QED
      BY <1>0, <2>1, <3>2, <3>4 DEF ReaderInv, Registered
  <2>4. QED
    BY <2>2, <2>3
<1>8. CASE ReaderDropped
  BY <1>0, <1>8, ReaderCut, ReaderIdle DEF ReaderInv, ReaderDropped
<1>9. QED
  BY <1>3, <1>4, <1>5, <1>6, <1>7, <1>8

\* Every step keeps what the reader knows.
LEMMA ReaderStep ==
  ASSUME StoreInv, ReaderInv, [ReviewsNext]_reviewVars
  PROVE  ReaderInv'
<1>1. ASSUME NEW m \in menu, Mutate(m) \/ Interrupted(m) PROVE ReaderInv'
  BY <1>1, ReaderMutate
<1>2. ASSUME UNCHANGED <<log, phase, published, reader>> PROVE ReaderInv'
  BY <1>2 DEF ReaderInv, Registered
<1>3. ASSUME NEW m \in menu, Outside(m) PROVE ReaderInv'
  <2>1. UNCHANGED <<log, phase, published, reader>>
    BY <1>3 DEF Outside, storeVars
  <2>2. QED
    BY <1>2, <2>1
<1>4. CASE UNCHANGED reviewVars
  <2>1. UNCHANGED <<log, phase, published, reader>>
    BY <1>4 DEF reviewVars
  <2>2. QED
    BY <1>2, <2>1
<1>5. QED
  BY <1>1, <1>3, <1>4, ReaderOpens, ReaderPublish, ReaderFollows DEF ReviewsNext

-----------------------------------------------------------------------------
(* What is printed.                                                        *)

\* Whether an event is of a scope is known from its log alone, deleted reviews and all.
LEMMA MatchesInScope ==
  ASSUME StoreInv, phase = "up", NEW scope, scope.type \in {"All", "Workspace", "Review", "AwaitingAgent"},
         NEW n \in 1 .. Len(log)
  PROVE  Matches(views, scope, log[n]) <=> InScope(scope, n)
<1>1. Len(log) \in Nat /\ views = RebuildViews(log) /\ GoodLog(log, retained)
  BY SeqShape DEF StoreInv, GoodLog
<1>2. \A i \in 1 .. n : i \in 1 .. Len(log) /\ (i = n \/ i \in 1 .. (n - 1))
  BY <1>1
<1>3. CASE scope.type \in {"All", "Review", "AwaitingAgent"}
  BY <1>3 DEF Matches, InScope
<1>4. CASE scope.type = "Workspace"
  <2> DEFINE e == log[n]
             Places == {"WorkspaceCreated", "WorkspaceUpdated", "RepoAttached", "RepoDetached", "ReviewCreated"}
             From(i) == log[i].rv # NoReview /\ log[i].rv = e.rv
  <2>1. \A i \in 1 .. n : log[i].kind \in EventKinds /\ Placed(log[i], CreatedReviews(log, i - 1))
    BY <1>1, <1>2 DEF GoodLog, Good, Formed
  <2>2. ASSUME NEW i \in 1 .. n
        PROVE  /\ log[i].kind \in Places <=> "ws" \in DOMAIN log[i]
               /\ log[i].kind \in Places /\ log[i].rv # NoReview => log[i].kind = "ReviewCreated"
               /\ log[i].kind = "ReviewCreated" => log[i].rv # NoReview
    BY <2>1 DEF Placed, AboutReview, EventKinds
  <2>3. InScope(scope, n) <=> \E i \in 1 .. n : /\ log[i].kind \in Places /\ log[i].ws = scope.id
                                                /\ i = n \/ From(i)
    BY <1>4 DEF InScope
  <2>4. n \in 1 .. n /\ Placed(e, CreatedReviews(log, n - 1))
    BY <1>1, <2>1
  <2>5. \A i \in 1 .. (n - 1) : i \in 1 .. n
    BY <1>1
  <2>6. CASE "ws" \in DOMAIN e
    <3>1. Matches(views, scope, e) <=> scope.id = e.ws
      BY <1>4, <2>6 DEF Matches, WorkspaceOf
    <3>2. ASSUME NEW i \in 1 .. n, log[i].kind \in Places, From(i) PROVE i = n
      <4>1. log[i].kind = "ReviewCreated" /\ e.kind = "ReviewCreated" /\ log[i].rv = e.rv
        BY <2>2, <2>4, <2>6, <3>2
      <4>2. e.rv \notin CreatedReviews(log, n - 1)
        BY <2>4, <4>1 DEF Placed
      <4>3. QED
        BY <1>2, <4>1, <4>2 DEF CreatedReviews
    <3> HIDE DEF e, Places, From
    <3>3. QED
      BY <2>2, <2>3, <2>4, <2>6, <3>1, <3>2 DEF e
  <2>7. CASE "ws" \notin DOMAIN e
    <3>1. e.rv \in CreatedReviews(log, n - 1) /\ e.kind \notin Places
      BY <2>2, <2>4, <2>7 DEF Placed
    <3>2. PICK c \in 1 .. (n - 1) : log[c].kind = "ReviewCreated" /\ log[c].rv = e.rv
      BY <3>1 DEF CreatedReviews
    <3>3. ASSUME NEW i \in 1 .. n, log[i].kind = "ReviewCreated", log[i].rv = e.rv
          PROVE  e.rv \in DOMAIN views.reviews /\ views.reviews[e.rv].ws = log[i].ws
      <4>1. i \in 1 .. Len(log)
        BY <1>2
      <4>2. log[i].rv \in CreatedReviews(log, Len(log))
        BY <3>3, <4>1 DEF CreatedReviews
      <4>3. QED
        BY <1>1, <3>3, <4>1, <4>2, RebuildRows
    <3>4. e.rv \in DOMAIN views.reviews
      BY <2>5, <3>2, <3>3
    <3>5. Matches(views, scope, e) <=> scope.id = views.reviews[e.rv].ws
      BY <1>4, <2>7, <3>4 DEF Matches, WorkspaceOf, StoredReviewWorkspace
    <3>6. c \in 1 .. n /\ log[c].kind \in Places /\ From(c) /\ log[c].ws = views.reviews[e.rv].ws
      BY <2>2, <2>5, <3>2, <3>3
    <3>7. ASSUME NEW i \in 1 .. n, log[i].kind \in Places, i = n \/ From(i)
          PROVE  log[i].ws = views.reviews[e.rv].ws
      BY <2>2, <3>1, <3>3, <3>7
    <3> HIDE DEF e, Places, From
    <3>8. QED
      BY <2>3, <3>5, <3>6, <3>7 DEF e
  <2>8. QED
    BY <2>6, <2>7
<1>5. QED
  BY <1>3, <1>4

\* What has been printed is what the scope has of the positions scanned.
ReplayInv ==
  /\ reader.scope.type \in {"All", "Workspace", "Review", "AwaitingAgent"}
  /\ reader.from \in Nat /\ reader.scanned \in Nat /\ reader.from <= reader.scanned
  /\ reader.pos.type = "Now" => reader.printed = <<>>
  /\ reader.pos.type # "Now" => reader.pos.after = reader.scanned
  /\ reader.from = reader.scanned \/ (reader.scanned <= Len(log) /\ schema = CURRENT)
  /\ IsSeq(reader.printed) /\ Ascending(reader.printed)
  /\ ToSet(reader.printed) = {n \in (reader.from + 1) .. reader.scanned : InScope(reader.scope, n)}

\* Nothing is printed at first.
LEMMA ReplayInit == ReviewsInit => ReplayInv
<1> SUFFICES ASSUME ReviewsInit PROVE ReplayInv
  OBVIOUS
<1>1. PICK s \in Stores :
        reader = [state |-> s.reader, scope |-> s.scope, follow |-> s.follow,
                  pos |-> s.pos, from |-> s.pos.after, scanned |-> s.pos.after,
                  printed |-> <<>>, wake |-> FALSE, head |-> 0]
  BY DEF ReviewsInit
<1>2. s.pos.after \in Nat /\ s.scope.type \in {"All", "Workspace", "Review", "AwaitingAgent"}
  BY StoresAssumption
<1>3. /\ reader.from = s.pos.after /\ reader.scanned = s.pos.after /\ reader.printed = <<>>
      /\ reader.pos = s.pos /\ reader.scope = s.scope
  BY <1>1
<1>4. IsSeq(<<>>) /\ Ascending(<<>>) /\ ToSet(<<>>) = {}
  <2>1. IsSeq(<<>>)
    BY SeqLiteral
  <2>2. DOMAIN <<>> = {}
    OBVIOUS
  <2>3. QED
    BY <2>1, <2>2 DEF Ascending, ToSet
<1>5. (reader.from + 1) .. reader.scanned = {}
  BY <1>2, <1>3
<1>6. QED
  BY <1>2, <1>3, <1>4, <1>5 DEF ReplayInv

\* A log that grows keeps what was printed of it.
LEMMA ReplayStays ==
  ASSUME ReplayInv, Len(log) \in Nat,
         reader'.scope = reader.scope, reader'.from = reader.from, reader'.scanned = reader.scanned,
         reader'.printed = reader.printed, reader'.pos = reader.pos,
         \/ reader.from = reader.scanned
         \/ /\ schema' = schema /\ Len(log') \in Nat /\ Len(log') >= Len(log)
            /\ \A i \in 1 .. Len(log) : log'[i] = log[i]
  PROVE  ReplayInv'
<1> DEFINE now == (reader.from + 1) .. reader.scanned
<1>1. ASSUME NEW n \in now PROVE InScope(reader.scope, n)' <=> InScope(reader.scope, n)
  <2>1. reader.from # reader.scanned
    BY <1>1 DEF ReplayInv
  <2>2. \A i \in 1 .. n : log'[i] = log[i]
    BY <1>1, <2>1 DEF ReplayInv
  <2>3. n \in 1 .. n
    BY <1>1 DEF ReplayInv
  <2>4. QED
    BY <2>2, <2>3 DEF InScope
<1>2. reader'.from = reader'.scanned \/ (reader'.scanned <= Len(log') /\ schema' = CURRENT)
  BY DEF ReplayInv
<1>3. {n \in now : InScope(reader.scope, n)'} = {n \in now : InScope(reader.scope, n)}
  BY <1>1
<1>4. ToSet(reader'.printed) = {n \in now : InScope(reader.scope, n)'}
  BY <1>3 DEF ReplayInv
<1>5. ToSet(reader'.printed) = {n \in (reader'.from + 1) .. reader'.scanned : InScope(reader.scope, n)'}
  BY <1>4
<1>6. QED
  BY <1>2, <1>5 DEF ReplayInv

\* A page is printed.
LEMMA ReplayPages ==
  ASSUME StoreInv, ReaderInv, ReplayInv, phase = "up", ReaderPage, log' = log, schema' = schema
  PROVE  ReplayInv'
<1> DEFINE page == ReplayEvents(log, views, reader.scope, reader.pos)
           start == StartOf(reader.pos, Len(log))
           first == IF reader.pos.type = "Now" THEN page.through ELSE reader.from
           next == IF page.after < page.through THEN Continue(page.after, page.through) ELSE Follow(page.through)
           more == Matching(log, views, reader.scope, start + 1, page.after)
<1>0. Len(log) \in Nat /\ DOMAIN reader = ReaderFields /\ IsPosition(reader.pos) /\ schema = CURRENT
  BY SeqShape DEF StoreInv, GoodLog, ReaderInv
<1>1. CASE ~page.ok
  <2>1. reader' = [reader EXCEPT !.state = "lost"]
    BY <1>1 DEF ReaderPage
  <2>2. /\ reader'.scope = reader.scope /\ reader'.from = reader.from /\ reader'.scanned = reader.scanned
        /\ reader'.printed = reader.printed /\ reader'.pos = reader.pos
    BY <1>0, <2>1 DEF ReaderFields
  <2>3. QED
    BY <1>0, <2>2, ReplayStays
<1>2. CASE page.ok
  <2>1. /\ reader'.scope = reader.scope /\ reader'.from = first /\ reader'.scanned = page.after
        /\ reader'.printed = reader.printed \o page.events /\ reader'.pos = next
    BY <1>0, <1>2 DEF ReaderPage, ReaderFields
  <2>2. /\ page.after \in Nat /\ page.through \in Nat /\ start <= page.after /\ page.after <= page.through
        /\ page.after = start \/ page.after <= Len(log)
        /\ reader.pos.type = "Now" => page.after = start /\ page.through = start
        /\ page.events = InOrder(more)
    <3>1. page = ReplayEvents(log, views, reader.scope, reader.pos) /\ page.ok
      BY <1>2
    <3> HIDE DEF page
    <3>2. QED
      BY <1>0, <3>1, PageScans
  <2> HIDE DEF page
  <2>3. next.type # "Now" /\ next.after = page.after
    BY <2>2 DEF Continue, Follow
  <2> HIDE DEF next
  <2>4. start \in Nat /\ first \in Nat /\ first <= start
    BY <1>0, <2>2 DEF ReplayInv, StartOf, IsPosition
  <2>5. ToSet(reader.printed) = {n \in (first + 1) .. start : InScope(reader.scope, n)}
    <3>1. CASE reader.pos.type = "Now"
      <4>1. (first + 1) .. start = {} /\ ToSet(reader.printed) = {}
        BY <2>2, <2>4, <3>1 DEF ReplayInv, ToSet
      <4>2. QED
        BY <4>1
    <3>2. CASE reader.pos.type # "Now"
      BY <3>2 DEF ReplayInv, StartOf
    <3>3. QED
      BY <3>1, <3>2
  <2>6. first = page.after \/ (page.after <= Len(log) /\ schema = CURRENT)
    BY <1>0, <2>2, <2>4 DEF ReplayInv, StartOf
  <2> HIDE DEF start, first
  <2>7. more = {n \in (start + 1) .. page.after : InScope(reader.scope, n)}
    <3>1. ASSUME NEW n \in (start + 1) .. page.after
          PROVE  Matches(views, reader.scope, log[n]) <=> InScope(reader.scope, n)
      <4>1. n \in 1 .. Len(log)
        BY <1>0, <2>2, <2>4
      <4>2. QED
        BY <4>1, MatchesInScope DEF ReplayInv
    <3>2. QED
      BY <3>1 DEF Matching
  <2>8. IsSeq(InOrder(more)) /\ Ascending(InOrder(more)) /\ ToSet(InOrder(more)) = more
    <3>1. more \in SUBSET (1 .. page.after)
      BY <2>4 DEF Matching
    <3>2. QED
      BY <2>2, <3>1, InOrderExists
  <2> HIDE DEF more
  <2>9. \A x \in ToSet(reader.printed) : \A y \in more : x < y
    BY <2>4, <2>5, <2>7
  <2>10. /\ IsSeq(reader'.printed) /\ Ascending(reader'.printed)
         /\ ToSet(reader'.printed) = ToSet(reader.printed) \cup more
    <3>1. IsSeq(reader.printed) /\ Ascending(reader.printed)
      BY DEF ReplayInv
    <3>2. QED
      BY <2>1, <2>2, <2>8, <2>9, <3>1, AscendingConcat
  <2>11. ToSet(reader.printed) \cup more = {n \in (first + 1) .. page.after : InScope(reader.scope, n)}
    <3>1. \A n : n \in (first + 1) .. page.after <=> n \in (first + 1) .. start \/ n \in (start + 1) .. page.after
      BY <2>2, <2>4
    <3>2. QED
      BY <2>5, <2>7, <3>1
  <2>12. \A n : InScope(reader.scope, n)' <=> InScope(reader.scope, n)
    BY <2>1 DEF InScope
  <2>13. ToSet(reader'.printed) = {n \in (reader'.from + 1) .. reader'.scanned : InScope(reader.scope, n)'}
    BY <2>1, <2>10, <2>11, <2>12
  <2>14. QED
    BY <2>1, <2>2, <2>3, <2>4, <2>6, <2>10, <2>13 DEF ReplayInv
<1>3. QED
  BY <1>1, <1>2

\* Every step keeps what was printed exact.
LEMMA ReplayStep ==
  ASSUME StoreInv, ReaderInv, ReplayInv, [ReviewsNext]_reviewVars
  PROVE  ReplayInv'
<1> DEFINE Same == /\ reader'.scope = reader.scope /\ reader'.from = reader.from
                   /\ reader'.scanned = reader.scanned /\ reader'.printed = reader.printed
                   /\ reader'.pos = reader.pos
<1>0. Len(log) \in Nat /\ DOMAIN reader = ReaderFields
  BY SeqShape DEF StoreInv, GoodLog, ReaderInv
<1>1. reader' = Disconnected(reader) => Same
  BY <1>0 DEF Disconnected, ReaderFields
<1>2. ASSUME NEW m \in menu, Mutate(m) \/ Interrupted(m) PROVE ReplayInv'
  <2>1. Len(log') \in Nat /\ Len(log') >= Len(log) /\ \A i \in 1 .. Len(log) : log'[i] = log[i]
    BY <1>2, StoreMutate
  <2>2. schema' = schema /\ (reader' = reader \/ reader' = Disconnected(reader))
    BY <1>2 DEF Mutate, Interrupted
  <2>3. Same
    BY <1>1, <2>2
  <2> HIDE DEF Same
  <2>4. QED
    BY <1>0, <2>1, <2>2, <2>3, ReplayStays DEF Same
<1>3. ASSUME UNCHANGED <<log, schema>>, Same PROVE ReplayInv'
  BY <1>0, <1>3, ReplayStays
<1>4. CASE Ensure \/ Migrate
  <2>1. reader' = reader
    BY <1>4 DEF Ensure, Migrate
  <2>2. CASE schema = CURRENT
    <3>1. UNCHANGED <<log, schema>>
      BY <1>4, <2>2 DEF Ensure, EnsureSchema, Migrate, CURRENT, Unstamped
    <3>2. QED
      BY <1>3, <2>1, <3>1
  <2>3. CASE schema # CURRENT
    <3>1. reader.from = reader.scanned
      BY <2>3 DEF ReplayInv
    <3>2. QED
      BY <1>0, <2>1, <3>1, ReplayStays
  <2>4. QED
    BY <2>2, <2>3
<1>5. CASE ReadPage
  BY <1>5, ReplayPages DEF ReadPage, storeVars
<1>6. CASE FollowDecide
  <2>1. phase = "up" /\ UNCHANGED <<log, schema>>
    BY <1>6 DEF FollowDecide, storeVars
  <2>2. CASE ReaderPage
    BY <2>1, <2>2, ReplayPages
  <2>3. CASE reader' = [reader EXCEPT !.state = "sleep"]
    <3>1. Same
      BY <1>0, <2>3 DEF ReaderFields
    <3>2. QED
      BY <1>3, <2>1, <3>1
  <2>4. QED
    BY <1>6, <2>2, <2>3 DEF FollowDecide
<1>7. CASE OpenViews \/ CrashOpening
  <2>1. UNCHANGED <<log, schema, reader>>
    BY <1>7 DEF OpenViews, CrashOpening, storeVars
  <2>2. QED
    BY <1>3, <2>1
<1>8. CASE Publish \/ FollowRegister \/ FollowLook \/ FollowWake \/ ReaderDropped
  <2>1. UNCHANGED <<log, schema>>
    BY <1>8 DEF Publish, FollowRegister, FollowLook, FollowWake, ReaderDropped, storeVars
  <2>2. Same
    <3>1. CASE Publish \/ FollowRegister \/ FollowLook \/ FollowWake
      BY <1>0, <3>1 DEF Publish, FollowRegister, FollowLook, FollowWake, ReaderFields
    <3>2. CASE ReaderDropped
      BY <1>1, <3>2 DEF ReaderDropped
    <3>3. QED
      BY <1>8, <3>1, <3>2
  <2>3. QED
    BY <1>3, <2>1, <2>2
<1>9. ASSUME NEW m \in menu, Outside(m) PROVE ReplayInv'
  <2>1. UNCHANGED <<log, schema, reader>>
    BY <1>9 DEF Outside, storeVars
  <2>2. QED
    BY <1>3, <2>1
<1>10. CASE UNCHANGED reviewVars
  <2>1. UNCHANGED <<log, schema, reader>>
    BY <1>10 DEF reviewVars
  <2>2. QED
    BY <1>3, <2>1
<1>11. QED
  BY <1>2, <1>4, <1>5, <1>6, <1>7, <1>8, <1>9, <1>10 DEF ReviewsNext

-----------------------------------------------------------------------------
(* The theorems.                                                           *)

\* The store and its reader keep their invariants through operations, crashes between their transactions,
\* migrations and lost connections.
THEOREM ReviewsInvariant == ReviewsSpec => [](StoreInv /\ ReaderInv /\ ReplayInv)
<1>1. ReviewsInit => StoreInv /\ ReaderInv /\ ReplayInv
  BY StoreInit, ReaderInit, ReplayInit
<1>2. StoreInv /\ ReaderInv /\ ReplayInv /\ [ReviewsNext]_reviewVars => StoreInv' /\ ReaderInv' /\ ReplayInv'
  BY StoreStep, ReaderStep, ReplayStep
<1>3. QED
  BY <1>1, <1>2, PTL DEF ReviewsSpec

\* What the daemon serves is a fold over its log, in today's types: `append` keeps the tables up to date, and
\* an old store is migrated and rebuilt, though the daemon crashed between any two transactions.
THEOREM ServedFolded == ReviewsSpec => []ServedIsFolded
<1>1. ASSUME StoreInv PROVE ServedIsFolded
  <2>1. WrittenUnder(CURRENT) = CURRENT
    BY DEF WrittenUnder, CURRENT, Unstamped
  <2>2. DOMAIN log = 1 .. Len(log)
    BY <1>1, SeqShape DEF StoreInv, GoodLog
  <2>3. QED
    BY <1>1, <2>1, <2>2 DEF StoreInv, ServedIsFolded, Written, Decodes
<1>2. QED
  BY <1>1, ReviewsInvariant, PTL

\* A follower of the log does not sleep through an event: what it has not read has woken it, or is still to
\* be broadcast.
THEOREM FollowersAwake == ReviewsSpec => []FollowerAwake
<1>1. ReaderInv => FollowerAwake
  BY DEF ReaderInv, FollowerAwake
<1>2. QED
  BY <1>1, ReviewsInvariant, PTL

\* `nits events` prints every event of its scope exactly once and in order, as far as it has scanned: pages
\* bounded by count and size, writes between them, deleted reviews, a restarted daemon, a migrated store and a
\* broken connection neither skip nor repeat one.
THEOREM ReplayedExactly == ReviewsSpec => []ReplayExact
<1>1. ReplayInv => ReplayExact
  BY DEF ReplayInv, ReplayExact
<1>2. QED
  BY <1>1, ReviewsInvariant, PTL

\* Every revision that an event or a row names is kept by a ref, and so is every captured tree that a scope of
\* a review compares, whatever an interrupted operation left out.
THEOREM NamedAreRetained == ReviewsSpec => []NamedIsRetained
<1>1. ASSUME StoreInv PROVE NamedIsRetained
  <2>1. ASSUME NEW n \in DOMAIN log, log[n].kind \in Naming
        PROVE  Retain(log[n].rv, log[n].resolved).keys \subseteq retained
    <3>1. n \in 1 .. Len(log)
      BY <1>1, SeqShape DEF StoreInv, GoodLog
    <3>2. QED
      BY <1>1, <2>1, <3>1 DEF StoreInv, GoodLog, Good, KeysOf
  <2>2. ASSUME phase = "up", NEW rv \in DOMAIN views.reviews
        PROVE  OpenTrees(rv) \subseteq {<<k[2], k[3]>> : k \in {x \in retained : x[1] = rv}}
    <3> DEFINE r == views.reviews[rv].resolved
    <3>1. Kept(rv, r, retained)
      BY <1>1, <2>2, ServedFinite DEF Rows
    <3>2. ASSUME NEW p \in DOMAIN r, NEW t \in {r[p].base.tree, r[p].head.tree}
          PROVE  <<p, t>> \in {<<k[2], k[3]>> : k \in {x \in retained : x[1] = rv}}
      <4>1. <<rv, p, t>> \in retained /\ <<rv, p, t>>[1] = rv /\ <<rv, p, t>>[2] = p /\ <<rv, p, t>>[3] = t
        BY <3>1 DEF Kept
      <4>2. QED
        BY <4>1
    <3>3. OpenTrees(rv) = UNION {{<<p, t>> : t \in {r[p].base.tree, r[p].head.tree}} : p \in DOMAIN r}
      BY DEF OpenTrees
    <3> HIDE DEF r
    <3>4. QED
      BY <3>2, <3>3
  <2>3. ASSUME phase = "up", NEW rv \in DOMAIN views.reviews, NEW scope,
               scope.type \in {"All", "Requested", "SinceCheckpoint", "Committed", "Commit", "Worktree"},
               NEW targets \in ScopedTargets(rv, scope), NEW p \in DOMAIN targets,
               targets[p].head.source = "WorkingTree", views.reviews[rv].resolved[p].head.source = "WorkingTree"
        PROVE  <<rv, p, targets[p].head.tree>> \in retained
    <3> DEFINE now == views.reviews[rv].resolved
    <3>1. Rows(views, retained)
      BY <1>1, <2>3, ServedFinite
    <3>2. Kept(rv, now, retained)
      BY <3>1 DEF Rows
    <3>3. ~(~Live(rv) \/ now = NoRow)
      BY <2>3 DEF ScopedTargets
    <3>4. CASE scope.type = "All"
      <4>1. targets = now
        BY <2>3, <3>3, <3>4 DEF ScopedTargets
      <4>2. QED
        BY <3>2, <4>1 DEF Kept
    <3>5. CASE scope.type = "Requested"
      <4>1. <<rv, scope.id>> \in DOMAIN views.requests /\ targets = views.requests[<<rv, scope.id>>].targets
        BY <2>3, <3>3, <3>5 DEF ScopedTargets
      <4>2. Kept(<<rv, scope.id>>[1], targets, retained)
        BY <3>1, <4>1 DEF Rows
      <4>3. QED
        BY <4>2 DEF Kept
    <3>6. CASE scope.type = "SinceCheckpoint"
      <4>1. targets = [q \in DOMAIN now |-> [now[q] EXCEPT !.base = views.checkpoints[<<rv, scope.id>>].targets[q].head]]
        BY <2>3, <3>3, <3>6 DEF ScopedTargets
      <4>2. p \in DOMAIN now /\ targets[p].head = now[p].head
        BY <3>2, <4>1 DEF Kept
      <4>3. QED
        BY <3>2, <4>2 DEF Kept
    <3>7. CASE scope.type = "Committed"
      <4>1. targets = [q \in DOMAIN now |-> [now[q] EXCEPT !.head = AtCommit(now[q].head.head)]]
        BY <2>3, <3>3, <3>7 DEF ScopedTargets
      <4>2. p \in DOMAIN now /\ targets[p].head = AtCommit(now[p].head.head)
        BY <3>2, <4>1 DEF Kept
      <4>3. QED
        BY <2>3, <4>2 DEF AtCommit
    <3>8. CASE scope.type = "Commit"
      <4>1. targets = CommitStep(scope.repo, scope.id)
        BY <2>3, <3>3, <3>8 DEF ScopedTargets
      <4>2. targets[p].head.source = "Commit"
        BY <4>1 DEF CommitStep, AtCommit
      <4>3. QED
        BY <2>3, <4>2
    <3>9. CASE scope.type = "Worktree"
      <4>1. /\ scope.repo \in DOMAIN now
            /\ targets = [q \in {scope.repo} |->
                            IF now[q].head.source = "WorkingTree"
                            THEN [base |-> AtCommit(now[q].head.head), head |-> now[q].head]
                            ELSE [base |-> ResolveRef(git, q, "Head"), head |-> ResolveRef(git, q, "WorkingTree")]]
        BY <2>3, <3>3, <3>9 DEF ScopedTargets
      <4>2. p \in DOMAIN now /\ targets[p].head = now[p].head
        BY <2>3, <4>1
      <4>3. QED
        BY <3>2, <4>2 DEF Kept
    <3>10. QED
      BY <2>3, <3>4, <3>5, <3>6, <3>7, <3>8, <3>9
  <2>4. ASSUME phase = "up", NEW rv \in DOMAIN views.reviews,
               NEW scope \in {[type |-> t, id |-> n, repo |-> p] :
                        t \in {"All", "Requested", "SinceCheckpoint", "Committed", "Commit", "Worktree"},
                        n \in DOMAIN log, p \in DOMAIN views.reviews[rv].resolved}
        PROVE  scope.type \in {"All", "Requested", "SinceCheckpoint", "Committed", "Commit", "Worktree"}
    OBVIOUS
  <2>5. QED
    BY <2>1, <2>2, <2>3, <2>4 DEF NamedIsRetained
<1>2. QED
  BY <1>1, ReviewsInvariant, PTL

=============================================================================
