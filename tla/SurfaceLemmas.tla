---------------------------- MODULE SurfaceLemmas ----------------------------
(***************************************************************************)
(* What the proofs about Surface rest on: the inductive invariant, and     *)
(* what a commit, that works through a tree in an order, does to it.       *)
(***************************************************************************)
EXTENDS Surface, TLAPS, SequenceTheorems, WellFoundedInduction

(* The inductive invariant: of the surfaces sf, and of all that a step     *)
(* works on.                                                               *)

Frames == [Surfaces -> Buffers \cup {none}] \cup {nothing}

Working ==
  [surface : [Surfaces -> SurfaceState], busy : SUBSET Buffers, waiting : SUBSET Buffers,
   reading : SUBSET Buffers, frame : Frames, draw : BOOLEAN]

\* The lists of subsurfaces are the inverse of the parents.
Listed(sf) ==
  \A s \in Surfaces :
    /\ IsInjective(sf[s].children)
    /\ ToSet(sf[s].children) = {t \in Surfaces : sf[t].parent = s}

\* Only a subsurface has a parent, and no surface is below itself.
Ranked(sf, rank) ==
  \A s \in Surfaces : sf[s].parent # none => rank[s] < rank[sf[s].parent]

Forest(sf) ==
  /\ \A s \in Surfaces : sf[s].parent # none => s # Root /\ sf[s].role
  /\ \E n \in Nat : \E rank \in [Surfaces -> 0 .. n] : Ranked(sf, rank)

SyncAt(sf, s) ==
  sf[s].synchronous <=>
    /\ s # Root /\ sf[s].role
    /\ ~sf[s].should_be_desync \/ (sf[s].parent # none /\ sf[sf[s].parent].synchronous)

\* No surface that lost its role asks to be desynchronized any more.
Synchronized(sf) ==
  \A s \in Surfaces : SyncAt(sf, s) /\ (sf[s].should_be_desync => sf[s].role)

Waits(sf, s) == sf[s].role /\ sf[s].pending_commit /\ sf[s].cached.attached
LastCommit(sf, s) == IF Waits(sf, s) THEN sf[s].cached.buffer ELSE sf[s].current

\* States have buffers of their surface, an unattached state has none, and a
\* cached buffer waits for the parent.
States(sf) ==
  \A s \in Surfaces :
    /\ {sf[s].pending.buffer, sf[s].cached.buffer, sf[s].current} \subseteq BuffersOf[s] \cup {none}
    /\ sf[s].pending.buffer # none => sf[s].pending.attached
    /\ sf[s].cached.buffer # none => sf[s].cached.attached /\ sf[s].pending_commit
    /\ sf[s].pending_commit => sf[s].role /\ s # Root

\* What must not be released of a surface: its current and cached buffers and,
\* while it commits, its pending one.
Held(x, s, h) ==
  {x.surface[s].current, x.surface[s].cached.buffer}
  \cup IF s = h THEN {x.surface[s].pending.buffer} ELSE {}

\* The buffers that are busy are those, and those that wait for the server.
Kept(x, h) ==
  /\ x.waiting \subseteq x.busy /\ x.waiting \subseteq x.reading
  /\ \A s \in Surfaces :
       /\ Held(x, s, h) \subseteq ((x.busy \ x.waiting) \cap BuffersOf[s]) \cup {none}
       /\ x.surface[s].alive => BuffersOf[s] \cap x.busy \subseteq x.waiting \cup Held(x, s, h)

OfferedAt(x, s) ==
  x.surface[s].pending.buffer \in {none, LastCommit(x.surface, s)} \cup (BuffersOf[s] \ x.busy)

Tree(x) ==
  /\ x \in Working /\ x.waiting \subseteq x.reading
  /\ Listed(x.surface) /\ Forest(x.surface) /\ Synchronized(x.surface)

Contents(x) ==
  States(x.surface) /\ Kept(x, none) /\ \A s \in Surfaces : OfferedAt(x, s)

Sound(x) == Tree(x) /\ Contents(x)

-----------------------------------------------------------------------------
(* Induction over the natural numbers, with a set for the predicate. *)

LEMMA SetInduction ==
  ASSUME NEW P, 0 \in P, \A n \in Nat : n \in P => n + 1 \in P
  PROVE  \A n \in Nat : n \in P
<1> SUFFICES ASSUME NEW m \in Nat, m \notin P
             PROVE  FALSE
  OBVIOUS
<1> DEFINE T == {n \in Nat : n \notin P}
<1>1. PICK x \in T : \A y \in T : ~ (<<y, x>> \in OpToRel(<, Nat))
  BY ZenonT(30), NatLessThanWellFounded, WFMin
<1>2. x \in Nat /\ x # 0 /\ x \notin P
  OBVIOUS
<1>3. x - 1 \in Nat /\ x - 1 < x /\ (x - 1) + 1 = x
  BY <1>2
<1>4. x - 1 \in T
  BY <1>2, <1>3
<1>5. <<x - 1, x>> \in Nat \X Nat /\ <<x - 1, x>>[1] = x - 1 /\ <<x - 1, x>>[2] = x
  BY <1>2, <1>3
<1>6. <<x - 1, x>> \in OpToRel(<, Nat)
  BY <1>3, <1>5, Zenon DEF OpToRel
<1> QED
  BY ZenonT(30), <1>1, <1>4, <1>6

\* What the leaf needs is that every set of numbers up to n has a greatest one.
LEMMA MaxInSet ==
  ASSUME NEW n \in Nat
  PROVE  \A S \in SUBSET (1 .. n) : S # {} => Max(S) \in S /\ \A y \in S : Max(S) >= y
<1> DEFINE P == {m \in Nat : \A S \in SUBSET (1 .. m) : S # {} => \E x \in S : \A y \in S : x >= y}
<1>1. 0 \in P
  <2>1. 1 .. 0 = {}
    OBVIOUS
  <2> QED
    BY ZenonT(30), <2>1
<1>2. ASSUME NEW m \in Nat, m \in P
      PROVE  m + 1 \in P
  <2> SUFFICES ASSUME NEW S \in SUBSET (1 .. m + 1), S # {}
               PROVE  \E x \in S : \A y \in S : x >= y
    OBVIOUS
  <2>1. CASE m + 1 \in S
    BY <2>1
  <2>2. CASE m + 1 \notin S
    <3>1. S \in SUBSET (1 .. m)
      BY <2>2
    <3> QED
      BY <1>2, <3>1
  <2> QED
    BY <2>1, <2>2
<1> HIDE DEF P
<1>3. n \in P
  BY <1>1, <1>2, SetInduction
<1> QED
  BY ZenonT(30), <1>3 DEF P, Max

-----------------------------------------------------------------------------
(* Folds. *)

Events == [do : {"merge", "insert", "applied", "role"}, s : Surfaces, from : {"pending", "cached"}]

IsFold(iter, x, seq, n) ==
  iter = [S \in SUBSET (1 .. n) |->
            IF S = {} THEN x ELSE Do(iter[S \ {Max(S)}], seq[Max(S)])]

LEMMA FoldExists ==
  ASSUME NEW x, NEW seq
  PROVE  \A n \in Nat : \E iter : IsFold(iter, x, seq, n)
<1> DEFINE P == {n \in Nat : \E iter : IsFold(iter, x, seq, n)}
<1>1. 0 \in P
  <2> DEFINE iter == [S \in SUBSET (1 .. 0) |-> x]
  <2>1. \A S \in SUBSET (1 .. 0) : S = {}
    OBVIOUS
  <2>2. IsFold(iter, x, seq, 0)
    BY <2>1 DEF IsFold
  <2> QED
    BY <2>2
<1>2. ASSUME NEW n \in Nat, n \in P
      PROVE  n + 1 \in P
  <2>1. PICK iter : IsFold(iter, x, seq, n)
    BY <1>2
  <2> DEFINE Body(S, g) == IF S = {} THEN x ELSE Do(g[S \ {Max(S)}], seq[Max(S)])
             longer == [S \in SUBSET (1 .. n + 1) |-> Body(S, iter)]
  <2>2. ASSUME NEW S \in SUBSET (1 .. n + 1), S # {}
        PROVE  S \ {Max(S)} \in SUBSET (1 .. n)
    <3>1. n + 1 \in Nat
      OBVIOUS
    <3>2. Max(S) \in S /\ \A y \in S : Max(S) >= y
      BY ZenonT(30), <2>2, <3>1, MaxInSet
    <3>3. ASSUME NEW y \in S \ {Max(S)}
          PROVE  y \in 1 .. n
      <4>1. Max(S) \in 1 .. n + 1 /\ y \in 1 .. n + 1 /\ y # Max(S) /\ Max(S) >= y
        BY ZenonT(30), <3>2, <3>3
      <4> HIDE DEF Max
      <4> DEFINE m == Max(S)
      <4> HIDE DEF m
      <4>2. m \in 1 .. n + 1 /\ y # m /\ m >= y
        BY <4>1 DEF m
      <4> QED
        BY <4>1, <4>2
    <3> QED
      BY ZenonT(30), <3>3
  <2>3. ASSUME NEW S \in SUBSET (1 .. n)
        PROVE  longer[S] = iter[S]
    <3>1. S \in SUBSET (1 .. n + 1)
      OBVIOUS
    <3> QED
      BY ZenonT(30), <2>1, <3>1 DEF IsFold
  <2>4. ASSUME NEW S \in SUBSET (1 .. n + 1)
        PROVE  longer[S] = Body(S, longer)
    BY ZenonT(30), <2>2, <2>3
  <2>5. longer = [S \in SUBSET (1 .. n + 1) |-> Body(S, longer)]
    BY ZenonT(30), <2>4
  <2>6. IsFold(longer, x, seq, n + 1)
    BY ZenonT(30), <2>5 DEF IsFold
  <2> QED
    BY <2>6
<1> HIDE DEF P
<1>3. \A n \in Nat : n \in P
  BY <1>1, <1>2, SetInduction
<1> QED
  BY <1>3 DEF P

\* What a fold over a sequence of events goes through.
Stages(y, x, seq) ==
  /\ y[0] = x /\ y[Len(seq)] = FoldLeft(Do, x, seq)
  /\ \A k \in 1 .. Len(seq) : y[k] = Do(y[k - 1], seq[k])

LEMMA FoldSteps ==
  ASSUME NEW x, NEW seq \in Seq(Events)
  PROVE  \E y : Stages(y, x, seq)
<1> DEFINE n == Len(seq)
           it == CHOOSE iter : IsFold(iter, x, seq, n)
           y == [k \in 0 .. n |-> it[1 .. k]]
<1>1. IsFold(it, x, seq, n)
  BY FoldExists
<1>2. DOMAIN seq = 1 .. n
  OBVIOUS
<1>3. FoldLeft(Do, x, seq) = it[1 .. n]
  BY <1>2 DEF FoldLeft, MapThenFoldSet, IsFold
<1> HIDE DEF it
<1>4. y[0] = x
  BY <1>1 DEF IsFold
<1>5. ASSUME NEW k \in 1 .. n
      PROVE  y[k] = Do(y[k - 1], seq[k])
  <2>1. k \in Nat /\ k \in 1 .. k /\ 1 .. k \in SUBSET (1 .. k) /\ 1 .. k \in SUBSET (1 .. n)
    OBVIOUS
  <2>2. Max(1 .. k) = k
    <3> DEFINE m == Max(1 .. k)
    <3>1. m \in 1 .. k /\ \A z \in 1 .. k : m >= z
      BY ZenonT(30), <2>1, MaxInSet
    <3> HIDE DEF m
    <3>2. m = k
      BY <2>1, <3>1
    <3> QED
      BY <3>2 DEF m
  <2>3. (1 .. k) \ {k} = 1 .. k - 1
    OBVIOUS
  <2>4. it[1 .. k] = Do(it[(1 .. k) \ {Max(1 .. k)}], seq[Max(1 .. k)])
    BY ZenonT(30), <1>1, <2>1 DEF IsFold
  <2>5. it[1 .. k] = Do(it[1 .. k - 1], seq[k])
    BY ZenonT(30), <2>2, <2>3, <2>4
  <2> QED
    BY <2>5
<1>6. y[n] = it[1 .. n]
  OBVIOUS
<1> HIDE DEF y
<1>7. Stages(y, x, seq)
  BY <1>3, <1>4, <1>5, <1>6 DEF Stages
<1> QED
  BY <1>7

-----------------------------------------------------------------------------
(* Sequences that are put together. *)

Flat(flatten, seqs, n) ==
  flatten = [i \in 1 .. n |-> IF i = 1 THEN seqs[i] ELSE flatten[i - 1] \o seqs[i]]

LEMMA FlatExists ==
  ASSUME NEW seqs
  PROVE  \A n \in Nat : \E flatten : Flat(flatten, seqs, n)
<1> DEFINE P == {n \in Nat : \E flatten : Flat(flatten, seqs, n)}
<1>1. 0 \in P
  <2> DEFINE flatten == [i \in 1 .. 0 |-> i]
  <2>1. 1 .. 0 = {}
    OBVIOUS
  <2>2. Flat(flatten, seqs, 0)
    BY <2>1 DEF Flat
  <2> QED
    BY <2>2
<1>2. ASSUME NEW n \in Nat, n \in P
      PROVE  n + 1 \in P
  <2>1. PICK flatten : Flat(flatten, seqs, n)
    BY <1>2
  <2> DEFINE Body(f, i) == IF i = 1 THEN seqs[i] ELSE f[i - 1] \o seqs[i]
             longer == [i \in 1 .. n + 1 |-> Body(flatten, i)]
  <2>2. ASSUME NEW i \in 1 .. n
        PROVE  longer[i] = flatten[i]
    <3>1. i \in 1 .. n + 1
      OBVIOUS
    <3>2. flatten[i] = Body(flatten, i)
      BY ZenonT(30), <2>1 DEF Flat
    <3> QED
      BY <3>1, <3>2
  <2>3. ASSUME NEW i \in 1 .. n + 1
        PROVE  Body(flatten, i) = Body(longer, i)
    <3>1. i # 1 => longer[i - 1] = flatten[i - 1]
      <4>1. i # 1 => i - 1 \in 1 .. n
        OBVIOUS
      <4> HIDE DEF longer
      <4> QED
        BY <2>2, <4>1
    <3> HIDE DEF longer
    <3> QED
      BY <3>1
  <2>4. Flat(longer, seqs, n + 1)
    <3>1. longer = [i \in 1 .. n + 1 |-> Body(flatten, i)]
      OBVIOUS
    <3> HIDE DEF longer
    <3> QED
      BY ZenonT(30), <2>3, <3>1 DEF Flat
  <2> QED
    BY <2>4
<1> HIDE DEF P
<1>3. \A n \in Nat : n \in P
  BY <1>1, <1>2, SetInduction
<1> QED
  BY <1>3 DEF P

\* FlattenSeq puts one sequence after the other.
LEMMA FlattenSteps ==
  ASSUME NEW S, NEW seqs \in Seq(Seq(S))
  PROVE  \E f : /\ f[0] = <<>> /\ f[Len(seqs)] = FlattenSeq(seqs)
                /\ \A k \in 1 .. Len(seqs) : f[k] = f[k - 1] \o seqs[k]
<1> DEFINE n == Len(seqs)
           it == CHOOSE flatten : Flat(flatten, seqs, n)
           f == [k \in 0 .. n |-> IF k = 0 THEN <<>> ELSE it[k]]
<1>1. Flat(it, seqs, n)
  <2>1. n \in Nat
    OBVIOUS
  <2> QED
    BY ZenonT(30), <2>1, FlatExists
<1>2. n # 0 => FlattenSeq(seqs) = it[n]
  BY DEF FlattenSeq, Flat
<1>3. n = 0 => FlattenSeq(seqs) = <<>>
  BY DEF FlattenSeq
<1> HIDE DEF it
<1>4. ASSUME NEW k \in 1 .. n
      PROVE  f[k] = f[k - 1] \o seqs[k]
  <2>1. seqs[k] \in Seq(S)
    OBVIOUS
  <2>2. CASE k = 1
    <3>1. f[1] = it[1] /\ f[0] = <<>> /\ it[1] = seqs[1]
      BY <1>1, <2>2 DEF Flat
    <3>2. <<>> \o seqs[1] = seqs[1]
      BY <2>1, <2>2
    <3>3. f[k] = f[1] /\ f[k - 1] = f[0] /\ seqs[k] = seqs[1]
      BY <2>2
    <3> HIDE DEF f
    <3> QED
      BY <3>1, <3>2, <3>3
  <2>3. CASE k # 1
    <3>1. f[k] = it[k] /\ f[k - 1] = it[k - 1]
      BY <2>3
    <3>2. it[k] = it[k - 1] \o seqs[k]
      BY ZenonT(30), <1>1, <2>3 DEF Flat
    <3> QED
      BY ZenonT(30), <3>1, <3>2
  <2> QED
    BY ZenonT(30), <2>2, <2>3
<1>5. f[n] = FlattenSeq(seqs) /\ f[0] = <<>>
  BY <1>2, <1>3
<1> HIDE DEF f
<1> QED
  BY ZenonT(30), <1>4, <1>5

\* Every merge of a surface comes before its role and before the parent is
\* done with it.
Ordered(o) ==
  \A j, k \in DOMAIN o :
    o[j].do = "merge" /\ o[k].do \in {"role", "applied"} /\ o[j].s = o[k].s => j < k

LEMMA Concat ==
  ASSUME NEW S, NEW a \in Seq(S), NEW b \in Seq(S)
  PROVE  /\ a \o b \in Seq(S)
         /\ ToSet(a \o b) = ToSet(a) \cup ToSet(b)
         /\ Len(a \o b) = Len(a) + Len(b)
         /\ \A i \in 1 .. Len(a) : (a \o b)[i] = a[i]
         /\ \A i \in 1 .. Len(b) : (a \o b)[Len(a) + i] = b[i]
         /\ \A i \in DOMAIN (a \o b) : i \in DOMAIN a \/ (i - Len(a) \in DOMAIN b /\ i > Len(a))
<1>1. a \o b \in Seq(S) /\ Len(a \o b) = Len(a) + Len(b)
  OBVIOUS
<1>2. \A i \in 1 .. Len(a) : (a \o b)[i] = a[i]
  OBVIOUS
<1>3. \A i \in 1 .. Len(b) : (a \o b)[Len(a) + i] = b[i]
  OBVIOUS
<1>4. /\ DOMAIN a = 1 .. Len(a) /\ DOMAIN b = 1 .. Len(b)
      /\ DOMAIN (a \o b) = 1 .. Len(a) + Len(b) /\ Len(a) \in Nat /\ Len(b) \in Nat
  OBVIOUS
<1>5. \A i \in DOMAIN (a \o b) : i \in DOMAIN a \/ (i - Len(a) \in DOMAIN b /\ i > Len(a))
  BY <1>4
<1>6. ToSet(a \o b) = ToSet(a) \cup ToSet(b)
  <2>1. ASSUME NEW i \in DOMAIN (a \o b)
        PROVE  (a \o b)[i] \in ToSet(a) \cup ToSet(b)
    <3>1. CASE i \in DOMAIN a
      BY <1>2, <1>4, <3>1 DEF ToSet
    <3>2. CASE i - Len(a) \in DOMAIN b
      <4>1. Len(a) + (i - Len(a)) = i
        BY <1>4
      <4>2. (a \o b)[i] = b[i - Len(a)]
        BY <1>3, <1>4, <3>2, <4>1
      <4> QED
        BY <3>2, <4>2 DEF ToSet
    <3> QED
      BY <1>5, <3>1, <3>2
  <2>2. ASSUME NEW i \in DOMAIN a
        PROVE  a[i] \in ToSet(a \o b)
    <3>1. i \in DOMAIN (a \o b) /\ (a \o b)[i] = a[i]
      BY <1>2, <1>4
    <3> QED
      BY <3>1 DEF ToSet
  <2>3. ASSUME NEW i \in DOMAIN b
        PROVE  b[i] \in ToSet(a \o b)
    <3>1. Len(a) + i \in DOMAIN (a \o b) /\ (a \o b)[Len(a) + i] = b[i]
      BY <1>3, <1>4
    <3> QED
      BY <3>1 DEF ToSet
  <2> QED
    BY ZenonT(30), <2>1, <2>2, <2>3 DEF ToSet
<1> QED
  BY <1>1, <1>2, <1>3, <1>5, <1>6

\* Sequences of events without duplicates, merges first.
Proper(o) == o \in Seq(Events) /\ IsInjective(o) /\ Ordered(o)

LEMMA ProperJoin ==
  ASSUME NEW a, NEW b, Proper(a), Proper(b),
         \A e \in ToSet(a), f \in ToSet(b) :
           e # f /\ ~(f.do = "merge" /\ e.do \in {"role", "applied"} /\ e.s = f.s)
  PROVE  Proper(a \o b) /\ ToSet(a \o b) = ToSet(a) \cup ToSet(b)
<1> DEFINE o == a \o b
<1>1. a \in Seq(Events) /\ b \in Seq(Events)
  BY DEF Proper
<1>2. /\ o \in Seq(Events) /\ ToSet(o) = ToSet(a) \cup ToSet(b)
      /\ \A i \in 1 .. Len(a) : o[i] = a[i]
      /\ \A i \in 1 .. Len(b) : o[Len(a) + i] = b[i]
      /\ \A i \in DOMAIN o : i \in DOMAIN a \/ (i - Len(a) \in DOMAIN b /\ i > Len(a))
  BY <1>1, Concat
<1>3. DOMAIN a = 1 .. Len(a) /\ DOMAIN b = 1 .. Len(b) /\ Len(a) \in Nat /\ Len(b) \in Nat
  BY <1>1
<1>4. \A i \in DOMAIN o : i \in Nat
  BY <1>2
<1> HIDE DEF o
<1>5. ASSUME NEW i \in DOMAIN o
      PROVE  \/ i \in DOMAIN a /\ o[i] = a[i] /\ o[i] \in ToSet(a) /\ i <= Len(a)
             \/ i - Len(a) \in DOMAIN b /\ o[i] = b[i - Len(a)] /\ o[i] \in ToSet(b) /\ i > Len(a)
  <2>1. CASE i \in DOMAIN a
    BY <1>2, <1>3, <2>1 DEF ToSet
  <2>2. CASE i - Len(a) \in DOMAIN b /\ i > Len(a)
    <3>1. Len(a) + (i - Len(a)) = i
      BY <1>3, <1>4
    <3>2. o[i] = b[i - Len(a)]
      BY <1>2, <1>3, <2>2, <3>1
    <3> QED
      BY <2>2, <3>2 DEF ToSet
  <2> QED
    BY <1>2, <2>1, <2>2
<1>6. ASSUME NEW i \in DOMAIN o, NEW j \in DOMAIN o, o[i] = o[j]
      PROVE  i = j
  <2>1. CASE i <= Len(a) /\ j <= Len(a)
    BY <1>3, <1>5, <1>6, <2>1 DEF Proper, IsInjective
  <2>2. CASE i > Len(a) /\ j > Len(a)
    <3>1. i - Len(a) = j - Len(a)
      BY <1>3, <1>4, <1>5, <1>6, <2>2 DEF Proper, IsInjective
    <3> QED
      BY <1>3, <1>4, <3>1
  <2>3. CASE i <= Len(a) /\ j > Len(a)
    BY <1>3, <1>4, <1>5, <1>6, <2>3
  <2>4. CASE i > Len(a) /\ j <= Len(a)
    BY <1>3, <1>4, <1>5, <1>6, <2>4
  <2> QED
    BY <1>3, <1>4, <2>1, <2>2, <2>3, <2>4
<1>7. ASSUME NEW i \in DOMAIN o, NEW j \in DOMAIN o,
             o[i].do = "merge", o[j].do \in {"role", "applied"}, o[i].s = o[j].s
      PROVE  i < j
  <2>1. CASE i <= Len(a) /\ j <= Len(a)
    BY <1>3, <1>4, <1>5, <1>7, <2>1 DEF Proper, Ordered
  <2>2. CASE i > Len(a) /\ j > Len(a)
    <3>1. i - Len(a) < j - Len(a)
      BY <1>3, <1>4, <1>5, <1>7, <2>2 DEF Proper, Ordered
    <3> QED
      BY <1>3, <1>4, <3>1
  <2>3. CASE i <= Len(a) /\ j > Len(a)
    BY <1>3, <1>4, <2>3
  <2>4. CASE i > Len(a) /\ j <= Len(a)
    BY <1>3, <1>4, <1>5, <1>7, <2>4
  <2> QED
    BY <1>3, <1>4, <2>1, <2>2, <2>3, <2>4
<1> QED
  BY <1>2, <1>6, <1>7 DEF Proper, IsInjective, Ordered, o

LEMMA ProperOne ==
  ASSUME NEW e \in Events
  PROVE  Proper(<<e>>) /\ ToSet(<<e>>) = {e}
BY DEF Proper, IsInjective, Ordered, ToSet, Events

LEMMA ProperEmpty == Proper(<<>>) /\ ToSet(<<>>) = {}
BY DEF Proper, IsInjective, Ordered, ToSet

-----------------------------------------------------------------------------
(* What is reached from a surface. *)

LEMMA ReachLeast ==
  ASSUME NEW next \in [Surfaces -> SUBSET Surfaces], NEW s \in Surfaces
  PROVE  /\ s \in Reach(next, s) /\ Reach(next, s) \subseteq Surfaces
         /\ \A t \in Reach(next, s) : next[t] \subseteq Reach(next, s)
         /\ \A S : s \in S /\ (\A t \in S \cap Surfaces : next[t] \subseteq S) => Reach(next, s) \subseteq S
<1> DEFINE Linked == {s} \cup UNION {next[t] : t \in Surfaces}
<1>1. s \in Linked /\ Linked \subseteq Surfaces /\ \A t \in Surfaces : next[t] \subseteq Linked
  OBVIOUS
<1>2. Reach(next, s) =
        {t \in Linked : \A S \in {S \in SUBSET Linked : s \in S /\ \A v \in S : next[v] \subseteq S} : t \in S}
  BY DEF Reach
<1> HIDE DEF Linked
<1>3. s \in Reach(next, s) /\ Reach(next, s) \subseteq Surfaces
  BY <1>1, <1>2
<1>4. ASSUME NEW t \in Reach(next, s), NEW u \in next[t]
      PROVE  u \in Reach(next, s)
  <2>1. t \in Surfaces /\ u \in Linked
    BY <1>1, <1>2
  <2>2. ASSUME NEW S \in SUBSET Linked, s \in S, \A v \in S : next[v] \subseteq S
        PROVE  u \in S
    BY <1>2, <2>2
  <2> QED
    BY <1>2, <2>1, <2>2
<1>5. ASSUME NEW S, s \in S, \A t \in S \cap Surfaces : next[t] \subseteq S
      PROVE  Reach(next, s) \subseteq S
  <2> DEFINE T == S \cap Linked
  <2>1. T \in SUBSET Linked /\ s \in T /\ \A t \in T : next[t] \subseteq T
    BY <1>1, <1>5
  <2>2. \A t \in Reach(next, s) : t \in T
    BY <1>2, <2>1, ZenonT(30)
  <2> QED
    BY <2>2
<1> QED
  BY <1>3, <1>4, <1>5

\* All but s is next to something reached.
LEMMA ReachFrom ==
  ASSUME NEW next \in [Surfaces -> SUBSET Surfaces], NEW s \in Surfaces, NEW t \in Reach(next, s), t # s
  PROVE  \E u \in Reach(next, s) : t \in next[u]
<1> DEFINE R == Reach(next, s)
           S == {v \in R : v = s \/ \E u \in R : v \in next[u]}
<1>1. s \in S
  BY ReachLeast
<1>2. ASSUME NEW v \in S
      PROVE  next[v] \subseteq S
  BY ReachLeast
<1>3. R \subseteq S
  <2>1. \A v \in S \cap Surfaces : next[v] \subseteq S
    BY <1>2
  <2> HIDE DEF S
  <2> QED
    BY <1>1, <2>1, ReachLeast
<1> QED
  BY <1>3

\* What is reached from something reached.
LEMMA ReachTransitive ==
  ASSUME NEW next \in [Surfaces -> SUBSET Surfaces], NEW s \in Surfaces, NEW t \in Reach(next, s)
  PROVE  Reach(next, t) \subseteq Reach(next, s)
<1>1. t \in Surfaces
  BY ReachLeast
<1> QED
  BY <1>1, ReachLeast

LEMMA ReachSplit ==
  ASSUME NEW next \in [Surfaces -> SUBSET Surfaces], NEW s \in Surfaces
  PROVE  Reach(next, s) = {s} \cup UNION {Reach(next, c) : c \in next[s]}
<1> DEFINE U == {s} \cup UNION {Reach(next, c) : c \in next[s]}
<1>1. U \subseteq Reach(next, s)
  <2>1. \A c \in next[s] : Reach(next, c) \subseteq Reach(next, s)
    BY ReachLeast, ReachTransitive
  <2> QED
    BY <2>1, ReachLeast
<1>2. ASSUME NEW t \in U
      PROVE  next[t] \subseteq U
  <2>1. CASE t = s
    <3>1. \A c \in next[s] : c \in Reach(next, c)
      BY ReachLeast
    <3> QED
      BY <2>1, <3>1
  <2>2. CASE t # s
    <3>1. PICK c \in next[s] : t \in Reach(next, c)
      BY <2>2
    <3>2. next[t] \subseteq Reach(next, c)
      BY <3>1, ReachLeast
    <3> QED
      BY <3>2
  <2> QED
    BY <2>1, <2>2
<1>3. Reach(next, s) \subseteq U
  <2>1. s \in U /\ \A t \in U \cap Surfaces : next[t] \subseteq U
    BY <1>2
  <2> HIDE DEF U
  <2> QED
    BY <2>1, ReachLeast
<1> QED
  BY <1>1, <1>3

-----------------------------------------------------------------------------
(* The order of a commit. *)

\* The body of the recursion in CommitOrder.
Segment(order, x, c) ==
  <<[do |-> "insert", s |-> c, from |-> "cached"]>>
  \o (IF x.surface[c].pending_commit THEN order[c] ELSE <<>>)
  \o <<[do |-> "applied", s |-> c, from |-> "cached"]>>

Segments(order, x, s) ==
  [i \in 1 .. Len(x.surface[s].children) |-> Segment(order, x, x.surface[s].children[i])]

Order(order, x, top, from, s) ==
  <<[do |-> "merge", s |-> s, from |-> IF s = top THEN from ELSE "cached"]>>
  \o FlattenSeq(Segments(order, x, s))
  \o <<[do |-> "role", s |-> s, from |-> IF s = top THEN from ELSE "cached"]>>

IsOrder(order, x, top, from, S) ==
  order = [s \in S |-> Order(order, x, top, from, s)]

LEMMA ChildRank ==
  ASSUME NEW sf \in [Surfaces -> SurfaceState], Listed(sf), NEW rank, Ranked(sf, rank),
         NEW s \in Surfaces, NEW i \in 1 .. Len(sf[s].children)
  PROVE  /\ sf[s].children[i] \in Surfaces
         /\ sf[sf[s].children[i]].parent = s
         /\ rank[sf[s].children[i]] < rank[s]
<1>1. sf[s].children \in Seq(Surfaces)
  BY DEF SurfaceState
<1>2. sf[s].children[i] \in ToSet(sf[s].children) /\ sf[s].children[i] \in Surfaces
  BY <1>1 DEF ToSet
<1>3. sf[sf[s].children[i]].parent = s
  BY <1>2 DEF Listed
<1> QED
  BY <1>2, <1>3, SurfacesAssumption DEF Ranked

LEMMA OrderExists ==
  ASSUME NEW x, x.surface \in [Surfaces -> SurfaceState], Listed(x.surface), Forest(x.surface),
         NEW top, NEW from
  PROVE  \E order : IsOrder(order, x, top, from, Surfaces)
<1>0. PICK n \in Nat : \E rank \in [Surfaces -> 0 .. n] : Ranked(x.surface, rank)
  BY DEF Forest
<1>1. PICK rank \in [Surfaces -> 0 .. n] : Ranked(x.surface, rank)
  BY <1>0
<1> DEFINE Low(m) == {s \in Surfaces : rank[s] < m}
           P == {m \in Nat : \E order : IsOrder(order, x, top, from, Low(m))}
<1>2. 0 \in P
  <2> DEFINE order == [s \in {} |-> s]
  <2>1. Low(0) = {}
    BY <1>1
  <2>2. IsOrder(order, x, top, from, Low(0))
    BY <2>1 DEF IsOrder
  <2> QED
    BY ZenonT(30), <2>2
<1>3. ASSUME NEW m \in Nat, m \in P
      PROVE  m + 1 \in P
  <2>1. PICK order : IsOrder(order, x, top, from, Low(m))
    BY <1>3
  <2> DEFINE longer == [s \in Low(m + 1) |-> Order(order, x, top, from, s)]
  <2>2. \A s \in Low(m) : s \in Low(m + 1)
    BY <1>1
  <2>3. ASSUME NEW s \in Low(m)
        PROVE  longer[s] = order[s]
    BY <2>1, <2>2 DEF IsOrder
  <2>4. ASSUME NEW s \in Low(m + 1)
        PROVE  Order(order, x, top, from, s) = Order(longer, x, top, from, s)
    <3>1. ASSUME NEW i \in 1 .. Len(x.surface[s].children)
          PROVE  Segment(order, x, x.surface[s].children[i])
                   = Segment(longer, x, x.surface[s].children[i])
      <4>1. x.surface[s].children[i] \in Low(m)
        <5>1. /\ x.surface[s].children[i] \in Surfaces
              /\ rank[x.surface[s].children[i]] < rank[s]
          BY <1>1, <3>1, ChildRank
        <5> QED
          BY <1>1, <5>1
      <4>2. longer[x.surface[s].children[i]] = order[x.surface[s].children[i]]
        BY ZenonT(30), <2>3, <4>1
      <4> HIDE DEF longer
      <4> QED
        BY <4>2 DEF Segment
    <3> HIDE DEF longer
    <3>2. Segments(order, x, s) = Segments(longer, x, s)
      BY <3>1 DEF Segments
    <3> QED
      BY <3>2 DEF Order
  <2>5. longer = [s \in Low(m + 1) |-> Order(longer, x, top, from, s)]
    <3>1. longer = [s \in Low(m + 1) |-> Order(order, x, top, from, s)]
      OBVIOUS
    <3> HIDE DEF longer
    <3> QED
      BY <2>4, <3>1
  <2>6. IsOrder(longer, x, top, from, Low(m + 1))
    BY <2>5 DEF IsOrder
  <2> QED
    BY <2>6
<1> HIDE DEF P
<1>4. n + 1 \in P
  BY <1>2, <1>3, SetInduction
<1>5. Low(n + 1) = Surfaces
  BY <1>1
<1> QED
  BY <1>4, <1>5 DEF P

LEMMA CommitOrderIs ==
  ASSUME NEW x, x.surface \in [Surfaces -> SurfaceState], Listed(x.surface), Forest(x.surface),
         NEW top, NEW from
  PROVE  \E order : IsOrder(order, x, top, from, Surfaces) /\ CommitOrder(x, top, from) = order[top]
<1> DEFINE it == CHOOSE order : IsOrder(order, x, top, from, Surfaces)
<1>1. IsOrder(it, x, top, from, Surfaces)
  BY OrderExists
<1>2. CommitOrder(x, top, from) = it[top]
  BY DEF CommitOrder, IsOrder, Order, Segments, Segment
<1> QED
  BY ZenonT(30), <1>1, <1>2

\* What a commit of s applies: below it, what waits, without a break.
Waiting(x) == [s \in Surfaces |-> {c \in Children(x, s) : x.surface[c].pending_commit}]
Applied(x, s) == Reach(Waiting(x), s)

\* The events of a commit that applies the surfaces of A.
Event(do, s, from) == [do |-> do, s |-> s, from |-> from]
From(s, top, from) == IF s = top THEN from ELSE "cached"

EventsOf(x, A, top, from) ==
  {Event(do, s, From(s, top, from)) : do \in {"merge", "role"}, s \in A}
  \cup {Event(do, s, "cached") : do \in {"insert", "applied"}, s \in {t \in Surfaces : x.surface[t].parent \in A}}

LEMMA ChildrenAre ==
  ASSUME NEW x, x.surface \in [Surfaces -> SurfaceState], Listed(x.surface)
  PROVE  /\ \A s \in Surfaces : Children(x, s) = {t \in Surfaces : x.surface[t].parent = s}
         /\ [s \in Surfaces |-> Children(x, s)] \in [Surfaces -> SUBSET Surfaces]
         /\ Waiting(x) \in [Surfaces -> SUBSET Surfaces]
BY DEF Children, Listed, Waiting

LEMMA BelowRank ==
  ASSUME NEW x, x.surface \in [Surfaces -> SurfaceState], Listed(x.surface),
         NEW n \in Nat, NEW rank \in [Surfaces -> 0 .. n], Ranked(x.surface, rank),
         NEW s \in Surfaces, NEW t \in Below(x, s)
  PROVE  t \in Surfaces /\ (t = s \/ rank[t] < rank[s])
<1> DEFINE S == {u \in Surfaces : u = s \/ rank[u] < rank[s]}
           next == [u \in Surfaces |-> Children(x, u)]
<1>1. next \in [Surfaces -> SUBSET Surfaces]
  BY ChildrenAre
<1>2. ASSUME NEW u \in S, NEW c \in next[u]
      PROVE  c \in S
  <2>1. c \in Surfaces /\ x.surface[c].parent = u
    BY ChildrenAre
  <2>2. rank[c] < rank[u]
    BY <2>1, SurfacesAssumption DEF Ranked
  <2>3. rank[c] \in 0 .. n /\ rank[u] \in 0 .. n /\ rank[s] \in 0 .. n
    BY <2>1
  <2> QED
    BY <2>1, <2>2, <2>3
<1>3. Reach(next, s) \subseteq S
  <2>1. s \in S /\ \A u \in S \cap Surfaces : next[u] \subseteq S
    BY <1>2
  <2> HIDE DEF S, next
  <2> QED
    BY <1>1, <2>1, ReachLeast
<1>4. t \in S
  BY <1>3 DEF Below
<1> QED
  BY <1>4

\* The trees below two subsurfaces of one surface have nothing in common.
LEMMA BelowDisjoint ==
  ASSUME NEW x, x.surface \in [Surfaces -> SurfaceState], Listed(x.surface), Forest(x.surface),
         NEW s \in Surfaces, NEW c \in Children(x, s), NEW d \in Children(x, s), c # d
  PROVE  Below(x, c) \cap Below(x, d) = {}
<1>1. PICK n \in Nat : \E rank \in [Surfaces -> 0 .. n] : Ranked(x.surface, rank)
  BY DEF Forest
<1>2. PICK rank \in [Surfaces -> 0 .. n] : Ranked(x.surface, rank)
  BY <1>1
<1>3. /\ c \in Surfaces /\ d \in Surfaces
      /\ x.surface[c].parent = s /\ x.surface[d].parent = s
  BY ChildrenAre
<1>4. rank[c] < rank[s] /\ rank[d] < rank[s] /\ rank[c] \in Nat /\ rank[d] \in Nat /\ rank[s] \in Nat
  BY <1>2, <1>3, SurfacesAssumption DEF Ranked
<1>5. s \notin Below(x, c) /\ s \notin Below(x, d)
  <2>1. s \in Below(x, c) => s = c \/ rank[s] < rank[c]
    BY <1>2, <1>3, BelowRank
  <2>2. s \in Below(x, d) => s = d \/ rank[s] < rank[d]
    BY <1>2, <1>3, BelowRank
  <2> QED
    BY <1>4, <2>1, <2>2
<1> DEFINE next == [u \in Surfaces |-> Children(x, u)]
           T == {u \in Below(x, c) : u \notin Below(x, d)}
<1>6. next \in [Surfaces -> SUBSET Surfaces] /\ Below(x, c) = Reach(next, c) /\ Below(x, d) = Reach(next, d)
  BY ChildrenAre DEF Below
<1>7. \A u \in Below(x, d) : u # d => x.surface[u].parent \in Below(x, d)
  <2> SUFFICES ASSUME NEW u \in Below(x, d), u # d
               PROVE  x.surface[u].parent \in Below(x, d)
    OBVIOUS
  <2>1. PICK v \in Reach(next, d) : u \in next[v]
    BY <1>3, <1>6, ReachFrom
  <2>2. v \in Surfaces
    BY <1>3, <1>6, ReachLeast
  <2>3. x.surface[u].parent = v
    BY <2>1, <2>2, ChildrenAre
  <2> QED
    BY <1>6, <2>1, <2>3
<1>8. c \in T
  BY <1>3, <1>5, <1>6, <1>7, ReachLeast
<1>9. ASSUME NEW u \in T, NEW v \in next[u]
      PROVE  v \in T
  <2>1. u \in Surfaces /\ v \in Below(x, c)
    BY <1>3, <1>6, ReachLeast
  <2>2. x.surface[v].parent = u
    BY <2>1, ChildrenAre
  <2>3. u # s
    BY <1>5
  <2>4. v # d
    BY <1>3, <2>2, <2>3
  <2> QED
    BY <1>7, <2>1, <2>2, <2>4
<1>10. Reach(next, c) \subseteq T
  <2>1. \A u \in T \cap Surfaces : next[u] \subseteq T
    BY ZenonT(30), <1>9
  <2> HIDE DEF T, next
  <2> QED
    BY <1>3, <1>6, <1>8, <2>1, ReachLeast
<1> QED
  BY <1>6, <1>10

AppliedEvents(x, s, top, from) == EventsOf(x, Applied(x, s), top, from)

SegmentEvents(x, c, top, from) ==
  {Event("insert", c, "cached"), Event("applied", c, "cached")}
  \cup IF x.surface[c].pending_commit THEN AppliedEvents(x, c, top, from) ELSE {}

SegmentsEvents(x, s, top, from) ==
  UNION {SegmentEvents(x, c, top, from) : c \in Children(x, s)}

LEMMA AppliedBelow ==
  ASSUME NEW x, x.surface \in [Surfaces -> SurfaceState], Listed(x.surface), NEW s \in Surfaces
  PROVE  /\ s \in Applied(x, s) /\ Applied(x, s) \subseteq Below(x, s)
         /\ Below(x, s) \subseteq Surfaces
         /\ \A t \in Surfaces : x.surface[t].parent \in Below(x, s) => t \in Below(x, s)
<1> DEFINE next == [u \in Surfaces |-> Children(x, u)]
<1>1. next \in [Surfaces -> SUBSET Surfaces] /\ Waiting(x) \in [Surfaces -> SUBSET Surfaces]
  BY ChildrenAre
<1>2. \A u \in Surfaces : Waiting(x)[u] \subseteq next[u]
  BY DEF Waiting
<1> HIDE DEF next
<1>3. /\ s \in Reach(next, s) /\ Reach(next, s) \subseteq Surfaces
      /\ \A t \in Reach(next, s) : next[t] \subseteq Reach(next, s)
  BY <1>1, ReachLeast
<1>4. \A t \in Reach(next, s) \cap Surfaces : Waiting(x)[t] \subseteq Reach(next, s)
  BY <1>2, <1>3
<1>5. Reach(Waiting(x), s) \subseteq Reach(next, s) /\ s \in Reach(Waiting(x), s)
  BY <1>1, <1>3, <1>4, ReachLeast
<1>6. \A t \in Surfaces : x.surface[t].parent \in Surfaces => t \in next[x.surface[t].parent]
  BY ChildrenAre DEF next
<1>7. Below(x, s) = Reach(next, s)
  BY DEF Below, next
<1>8. \A t \in Surfaces : x.surface[t].parent \in Reach(next, s) => t \in Reach(next, s)
  BY <1>3, <1>6
<1> QED
  BY <1>3, <1>5, <1>7, <1>8 DEF Applied

LEMMA EventsAre ==
  ASSUME NEW x, x.surface \in [Surfaces -> SurfaceState], NEW A \in SUBSET Surfaces,
         NEW top, NEW from \in {"pending", "cached"}
  PROVE  EventsOf(x, A, top, from) \subseteq Events
BY DEF EventsOf, Event, Events, From

LEMMA AppliedEventsBelow ==
  ASSUME NEW x, x.surface \in [Surfaces -> SurfaceState], Listed(x.surface), NEW s \in Surfaces,
         NEW top, NEW from, NEW e \in AppliedEvents(x, s, top, from)
  PROVE  e.s \in Below(x, s)
<1>1. e.s \in Applied(x, s) \/ (e.s \in Surfaces /\ x.surface[e.s].parent \in Applied(x, s))
  BY DEF AppliedEvents, EventsOf, Event
<1> QED
  BY <1>1, AppliedBelow

LEMMA SegmentEventsBelow ==
  ASSUME NEW x, x.surface \in [Surfaces -> SurfaceState], Listed(x.surface), NEW s \in Surfaces,
         NEW top, NEW from, NEW e \in SegmentEvents(x, s, top, from)
  PROVE  e.s \in Below(x, s)
<1>1. e.s = s \/ e \in AppliedEvents(x, s, top, from)
  BY DEF SegmentEvents, Event
<1>2. s \in Below(x, s)
  BY AppliedBelow
<1> QED
  BY <1>1, <1>2, AppliedEventsBelow

\* What a surface is applied with: itself, and its waiting subsurfaces with theirs.
LEMMA AppliedEventsSplit ==
  ASSUME NEW x, x.surface \in [Surfaces -> SurfaceState], Listed(x.surface), NEW s \in Surfaces,
         NEW top, NEW from
  PROVE  AppliedEvents(x, s, top, from) =
           {Event("merge", s, From(s, top, from)), Event("role", s, From(s, top, from))}
           \cup SegmentsEvents(x, s, top, from)
<1> DEFINE C == Children(x, s)
           W == {c \in C : x.surface[c].pending_commit}
<1>1. Applied(x, s) = {s} \cup UNION {Applied(x, c) : c \in W}
  <2>1. Waiting(x) \in [Surfaces -> SUBSET Surfaces] /\ Waiting(x)[s] = W
    BY ChildrenAre DEF Waiting
  <2> HIDE DEF W
  <2> QED
    BY <2>1, ReachSplit DEF Applied
<1>2. C = {t \in Surfaces : x.surface[t].parent = s}
  BY ChildrenAre
<1> HIDE DEF C
<1> DEFINE U == {Event("merge", s, From(s, top, from)), Event("role", s, From(s, top, from))}
                \cup UNION {SegmentEvents(x, c, top, from) : c \in C}
<1>3. ASSUME NEW e \in AppliedEvents(x, s, top, from)
      PROVE  e \in U
  <2>1. CASE \E do \in {"merge", "role"}, t \in Applied(x, s) : e = Event(do, t, From(t, top, from))
    <3>1. PICK do \in {"merge", "role"}, t \in Applied(x, s) : e = Event(do, t, From(t, top, from))
      BY <2>1
    <3>2. CASE t = s
      BY <3>1, <3>2
    <3>3. CASE t # s
      <4>1. PICK c \in W : t \in Applied(x, c)
        BY <1>1, <3>3
      <4>2. e \in AppliedEvents(x, c, top, from)
        BY <3>1, <4>1 DEF AppliedEvents, EventsOf
      <4>3. c \in C /\ e \in SegmentEvents(x, c, top, from)
        BY <4>1, <4>2 DEF SegmentEvents
      <4> QED
        BY <4>3
    <3> QED
      BY <3>2, <3>3
  <2>2. CASE \E do \in {"insert", "applied"}, t \in Surfaces :
               x.surface[t].parent \in Applied(x, s) /\ e = Event(do, t, "cached")
    <3>1. PICK do \in {"insert", "applied"}, t \in Surfaces :
            x.surface[t].parent \in Applied(x, s) /\ e = Event(do, t, "cached")
      BY <2>2
    <3>2. CASE x.surface[t].parent = s
      <4>1. t \in C /\ e \in SegmentEvents(x, t, top, from)
        BY <1>2, <3>1, <3>2 DEF SegmentEvents
      <4> QED
        BY <4>1
    <3>3. CASE x.surface[t].parent # s
      <4>1. PICK c \in W : x.surface[t].parent \in Applied(x, c)
        BY <1>1, <3>1, <3>3
      <4>2. e \in AppliedEvents(x, c, top, from)
        BY <3>1, <4>1 DEF AppliedEvents, EventsOf
      <4>3. c \in C /\ e \in SegmentEvents(x, c, top, from)
        BY <4>1, <4>2 DEF SegmentEvents
      <4> QED
        BY <4>3
    <3> QED
      BY <3>2, <3>3
  <2> QED
    BY <2>1, <2>2 DEF AppliedEvents, EventsOf
<1>4. ASSUME NEW e \in U
      PROVE  e \in AppliedEvents(x, s, top, from)
  <2>1. CASE e \in {Event("merge", s, From(s, top, from)), Event("role", s, From(s, top, from))}
    BY <1>1, <2>1 DEF AppliedEvents, EventsOf
  <2>2. CASE e \in UNION {SegmentEvents(x, c, top, from) : c \in C}
    <3>1. PICK c \in C : e \in SegmentEvents(x, c, top, from)
      BY <2>2
    <3>2. c \in Surfaces /\ x.surface[c].parent \in Applied(x, s)
      BY <1>1, <1>2
    <3>3. CASE e \in {Event("insert", c, "cached"), Event("applied", c, "cached")}
      BY <3>2, <3>3 DEF AppliedEvents, EventsOf
    <3>4. CASE x.surface[c].pending_commit /\ e \in AppliedEvents(x, c, top, from)
      <4>1. Applied(x, c) \subseteq Applied(x, s)
        BY <1>1, <3>4
      <4> QED
        BY <3>4, <4>1 DEF AppliedEvents, EventsOf
    <3> QED
      BY <3>1, <3>3, <3>4 DEF SegmentEvents
  <2> QED
    BY <2>1, <2>2
<1> QED
  BY <1>3, <1>4 DEF C, SegmentsEvents

\* The order of the commit of s is proper, has these events, and ends with the
\* role of s.
GoodOrder(o, x, s, top, from) ==
  /\ Proper(o) /\ ToSet(o) = AppliedEvents(x, s, top, from)
  /\ Len(o) > 0 /\ o[Len(o)] = Event("role", s, From(s, top, from))

LEMMA SegmentProper ==
  ASSUME NEW x, x.surface \in [Surfaces -> SurfaceState], Listed(x.surface), Forest(x.surface),
         NEW top, NEW from \in {"pending", "cached"}, NEW order, NEW c \in Surfaces,
         x.surface[c].parent \in Surfaces,
         x.surface[c].pending_commit => GoodOrder(order[c], x, c, top, from)
  PROVE  Proper(Segment(order, x, c)) /\ ToSet(Segment(order, x, c)) = SegmentEvents(x, c, top, from)
<1> DEFINE first == Event("insert", c, "cached")
           last == Event("applied", c, "cached")
           middle == IF x.surface[c].pending_commit THEN order[c] ELSE <<>>
           Middle == IF x.surface[c].pending_commit THEN AppliedEvents(x, c, top, from) ELSE {}
<1>1. first \in Events /\ last \in Events /\ first # last
  BY DEF Event, Events
<1>2. Proper(middle) /\ ToSet(middle) = Middle
  BY ProperEmpty DEF GoodOrder
<1>3. first \notin Middle /\ last \notin Middle
  <2>1. PICK n \in Nat : \E rank \in [Surfaces -> 0 .. n] : Ranked(x.surface, rank)
    BY DEF Forest
  <2>2. PICK rank \in [Surfaces -> 0 .. n] : Ranked(x.surface, rank)
    BY <2>1
  <2>3. rank[c] < rank[x.surface[c].parent] /\ rank[c] \in Nat /\ rank[x.surface[c].parent] \in Nat
    BY <2>2, SurfacesAssumption DEF Ranked
  <2>4. x.surface[c].parent \notin Below(x, c)
    <3>1. x.surface[c].parent \in Below(x, c) =>
            x.surface[c].parent = c \/ rank[x.surface[c].parent] < rank[c]
      BY <2>2, BelowRank
    <3> QED
      BY <2>3, <3>1
  <2>5. x.surface[c].parent \notin Applied(x, c)
    BY <2>4, AppliedBelow
  <2> QED
    BY <2>5 DEF AppliedEvents, EventsOf, Event
<1>4. Segment(order, x, c) = <<first>> \o middle \o <<last>>
  BY DEF Segment, Event
<1>5. Proper(<<first>>) /\ ToSet(<<first>>) = {first} /\ Proper(<<last>>) /\ ToSet(<<last>>) = {last}
  BY <1>1, ProperOne
<1>6. first.do = "insert" /\ last.do = "applied"
  BY DEF Event
<1> HIDE DEF first, last, middle, Middle
<1>7. Proper(<<first>> \o middle) /\ ToSet(<<first>> \o middle) = {first} \cup Middle
  <2>1. \A e \in ToSet(<<first>>), f \in ToSet(middle) :
          e # f /\ ~(f.do = "merge" /\ e.do \in {"role", "applied"} /\ e.s = f.s)
    BY <1>2, <1>3, <1>5, <1>6
  <2> QED
    BY <1>2, <1>5, <2>1, ProperJoin
<1>8. /\ Proper(<<first>> \o middle \o <<last>>)
      /\ ToSet(<<first>> \o middle \o <<last>>) = {first} \cup Middle \cup {last}
  <2>1. \A e \in ToSet(<<first>> \o middle), f \in ToSet(<<last>>) :
          e # f /\ ~(f.do = "merge" /\ e.do \in {"role", "applied"} /\ e.s = f.s)
    BY <1>1, <1>3, <1>5, <1>6, <1>7
  <2> QED
    BY ZenonT(30), <1>5, <1>7, <2>1, ProperJoin
<1>9. SegmentEvents(x, c, top, from) = {first} \cup Middle \cup {last}
  BY DEF SegmentEvents, first, last, Middle
<1> QED
  BY ZenonT(30), <1>4, <1>8, <1>9

LEMMA SegmentsProper ==
  ASSUME NEW x, x.surface \in [Surfaces -> SurfaceState], Listed(x.surface), Forest(x.surface),
         NEW top, NEW from \in {"pending", "cached"}, NEW order, NEW s \in Surfaces,
         \A c \in Children(x, s) : x.surface[c].pending_commit => GoodOrder(order[c], x, c, top, from)
  PROVE  /\ Proper(FlattenSeq(Segments(order, x, s)))
         /\ ToSet(FlattenSeq(Segments(order, x, s))) = SegmentsEvents(x, s, top, from)
<1> DEFINE list == x.surface[s].children
           n == Len(list)
           seqs == Segments(order, x, s)
           Events1(i) == SegmentEvents(x, list[i], top, from)
<1>1. list \in Seq(Surfaces) /\ n \in Nat /\ DOMAIN list = 1 .. n
  BY DEF SurfaceState
<1>2. \A i \in 1 .. n : list[i] \in Children(x, s) /\ list[i] \in Surfaces /\ x.surface[list[i]].parent = s
  <2>1. \A i \in 1 .. n : list[i] \in Children(x, s)
    BY <1>1 DEF Children, ToSet
  <2> QED
    BY <2>1, ChildrenAre
<1>3. \A i, j \in 1 .. n : list[i] = list[j] => i = j
  BY <1>1 DEF Listed, IsInjective
<1>4. Children(x, s) = {list[i] : i \in 1 .. n}
  BY <1>1 DEF Children, ToSet
<1>5. \A i \in 1 .. n : seqs[i] = Segment(order, x, list[i])
  BY DEF Segments
<1>6. Len(seqs) = n /\ DOMAIN seqs = 1 .. n
  BY <1>1 DEF Segments
<1> HIDE DEF list, n, seqs
<1>7. \A i \in 1 .. n : Proper(seqs[i]) /\ ToSet(seqs[i]) = Events1(i)
  <2> SUFFICES ASSUME NEW i \in 1 .. n
               PROVE  Proper(seqs[i]) /\ ToSet(seqs[i]) = Events1(i)
    OBVIOUS
  <2>1. x.surface[list[i]].pending_commit => GoodOrder(order[list[i]], x, list[i], top, from)
    BY <1>2
  <2>2. list[i] \in Surfaces /\ x.surface[list[i]].parent \in Surfaces
    BY <1>2
  <2>3. /\ Proper(Segment(order, x, list[i]))
        /\ ToSet(Segment(order, x, list[i])) = SegmentEvents(x, list[i], top, from)
    BY <2>1, <2>2, SegmentProper
  <2> QED
    BY <1>5, <2>3
<1>8. seqs \in Seq(Seq(Events))
  <2>1. \A i \in 1 .. n : seqs[i] \in Seq(Events)
    BY <1>7 DEF Proper
  <2>2. seqs = [i \in 1 .. n |-> seqs[i]]
    BY <1>5 DEF Segments, seqs, list, n
  <2> QED
    BY <1>1, <1>6, <2>1, <2>2
<1>9. PICK f : /\ f[0] = <<>> /\ f[Len(seqs)] = FlattenSeq(seqs)
               /\ \A k \in 1 .. Len(seqs) : f[k] = f[k - 1] \o seqs[k]
  BY ZenonT(30), <1>8, FlattenSteps
<1> HIDE DEF Events1
<1> DEFINE P == {k \in Nat : k <= n => Proper(f[k]) /\ ToSet(f[k]) = UNION {Events1(i) : i \in 1 .. k}}
<1>10. 0 \in P
  <2>1. UNION {Events1(i) : i \in 1 .. 0} = {}
    OBVIOUS
  <2> QED
    BY <1>9, <2>1, ProperEmpty
<1>11. ASSUME NEW k \in Nat, k \in P
       PROVE  k + 1 \in P
  <2> SUFFICES ASSUME k + 1 <= n
               PROVE  Proper(f[k + 1]) /\ ToSet(f[k + 1]) = UNION {Events1(i) : i \in 1 .. k + 1}
    OBVIOUS
  <2>1. Proper(f[k]) /\ ToSet(f[k]) = UNION {Events1(i) : i \in 1 .. k}
    BY <1>1, <1>11
  <2>2. k + 1 \in 1 .. n /\ (k + 1) - 1 = k
    BY <1>1
  <2>3. f[k + 1] = f[k] \o seqs[k + 1]
    BY ZenonT(30), <1>6, <1>9, <2>2
  <2>4. ASSUME NEW e \in ToSet(f[k]), NEW g \in ToSet(seqs[k + 1])
        PROVE  e.s # g.s
    <3>1. PICK i \in 1 .. k : e \in Events1(i)
      BY <2>1
    <3>2. i \in 1 .. n /\ i # k + 1
      BY <1>1, <2>2
    <3>3. list[i] # list[k + 1]
      BY <1>3, <2>2, <3>2
    <3>4. Below(x, list[i]) \cap Below(x, list[k + 1]) = {}
      BY <1>2, <2>2, <3>2, <3>3, BelowDisjoint
    <3>5. e.s \in Below(x, list[i])
      BY <1>2, <3>1, <3>2, SegmentEventsBelow DEF Events1
    <3>6. g.s \in Below(x, list[k + 1])
      BY <1>2, <1>7, <2>2, SegmentEventsBelow DEF Events1
    <3> QED
      BY <3>4, <3>5, <3>6
  <2>5. \A e \in ToSet(f[k]), g \in ToSet(seqs[k + 1]) :
          e # g /\ ~(g.do = "merge" /\ e.do \in {"role", "applied"} /\ e.s = g.s)
    BY <2>4
  <2>6. Proper(f[k] \o seqs[k + 1]) /\ ToSet(f[k] \o seqs[k + 1]) = ToSet(f[k]) \cup ToSet(seqs[k + 1])
    BY <1>7, <2>1, <2>2, <2>5, ProperJoin
  <2>7. UNION {Events1(i) : i \in 1 .. k + 1} = (UNION {Events1(i) : i \in 1 .. k}) \cup Events1(k + 1)
    <3>1. 1 .. k + 1 = (1 .. k) \cup {k + 1}
      OBVIOUS
    <3> QED
      BY <3>1
  <2> QED
    BY <1>7, <2>1, <2>2, <2>3, <2>6, <2>7
<1> HIDE DEF P
<1>12. n \in P
  BY <1>1, <1>10, <1>11, SetInduction
<1>13. Proper(f[n]) /\ ToSet(f[n]) = UNION {Events1(i) : i \in 1 .. n}
  BY <1>1, <1>12 DEF P
<1>14. UNION {Events1(i) : i \in 1 .. n} = SegmentsEvents(x, s, top, from)
  BY <1>4 DEF Events1, SegmentsEvents
<1> QED
  BY ZenonT(30), <1>6, <1>9, <1>13, <1>14 DEF seqs

LEMMA OrderProper ==
  ASSUME NEW x, x.surface \in [Surfaces -> SurfaceState], Listed(x.surface), Forest(x.surface),
         NEW top, NEW from \in {"pending", "cached"}, NEW order, NEW s \in Surfaces,
         \A c \in Children(x, s) : x.surface[c].pending_commit => GoodOrder(order[c], x, c, top, from)
  PROVE  GoodOrder(Order(order, x, top, from, s), x, s, top, from)
<1> DEFINE first == Event("merge", s, From(s, top, from))
           last == Event("role", s, From(s, top, from))
           middle == FlattenSeq(Segments(order, x, s))
           Middle == SegmentsEvents(x, s, top, from)
           o == <<first>> \o middle \o <<last>>
<1>1. first \in Events /\ last \in Events /\ first # last
  BY DEF Event, Events, From
<1>2. Proper(middle) /\ ToSet(middle) = Middle
  BY SegmentsProper
<1>3. \A e \in Middle : e.s # s
  <2> SUFFICES ASSUME NEW c \in Children(x, s), NEW e \in SegmentEvents(x, c, top, from)
               PROVE  e.s # s
    BY DEF SegmentsEvents
  <2>1. PICK n \in Nat : \E rank \in [Surfaces -> 0 .. n] : Ranked(x.surface, rank)
    BY DEF Forest
  <2>2. PICK rank \in [Surfaces -> 0 .. n] : Ranked(x.surface, rank)
    BY <2>1
  <2>3. c \in Surfaces /\ x.surface[c].parent = s
    BY ChildrenAre
  <2>4. rank[c] < rank[s] /\ rank[c] \in Nat /\ rank[s] \in Nat
    BY <2>2, <2>3, SurfacesAssumption DEF Ranked
  <2>5. e.s = c \/ rank[e.s] < rank[c]
    BY <2>2, <2>3, SegmentEventsBelow, BelowRank
  <2> QED
    BY <2>4, <2>5
<1>4. Order(order, x, top, from, s) = o
  BY DEF Order, Event, From
<1>5. Proper(<<first>>) /\ ToSet(<<first>>) = {first} /\ Proper(<<last>>) /\ ToSet(<<last>>) = {last}
  BY <1>1, ProperOne
<1>6. first.do = "merge" /\ last.do = "role" /\ first.s = s /\ last.s = s
  BY DEF Event
<1>7. AppliedEvents(x, s, top, from) = {first, last} \cup Middle
  BY AppliedEventsSplit
<1> HIDE DEF first, last, middle, Middle
<1>8. Proper(<<first>> \o middle) /\ ToSet(<<first>> \o middle) = {first} \cup Middle
  <2>1. \A e \in ToSet(<<first>>), f \in ToSet(middle) :
          e # f /\ ~(f.do = "merge" /\ e.do \in {"role", "applied"} /\ e.s = f.s)
    BY <1>2, <1>3, <1>5, <1>6
  <2> QED
    BY <1>2, <1>5, <2>1, ProperJoin
<1>9. Proper(o) /\ ToSet(o) = {first} \cup Middle \cup {last}
  <2>1. \A e \in ToSet(<<first>> \o middle), f \in ToSet(<<last>>) :
          e # f /\ ~(f.do = "merge" /\ e.do \in {"role", "applied"} /\ e.s = f.s)
    BY <1>1, <1>3, <1>5, <1>6, <1>8
  <2> QED
    BY ZenonT(30), <1>5, <1>8, <2>1, ProperJoin
<1>10. Len(o) > 0 /\ o[Len(o)] = last
  <2>1. <<first>> \o middle \in Seq(Events) /\ <<last>> \in Seq(Events)
    BY <1>1, <1>8 DEF Proper
  <2> DEFINE a == <<first>> \o middle
  <2> HIDE DEF a
  <2>2. a \in Seq(Events) /\ o = a \o <<last>>
    BY <2>1 DEF a
  <2> HIDE DEF o
  <2> QED
    BY <2>1, <2>2
<1> HIDE DEF o
<1>11. GoodOrder(o, x, s, top, from)
  BY <1>7, <1>9, <1>10 DEF GoodOrder, last
<1> QED
  BY <1>4, <1>11

\* What CommitOrder is.
LEMMA CommitOrderGood ==
  ASSUME NEW x, x.surface \in [Surfaces -> SurfaceState], Listed(x.surface), Forest(x.surface),
         NEW top \in Surfaces, NEW from \in {"pending", "cached"}
  PROVE  GoodOrder(CommitOrder(x, top, from), x, top, top, from)
<1>1. PICK order : IsOrder(order, x, top, from, Surfaces) /\ CommitOrder(x, top, from) = order[top]
  BY CommitOrderIs
<1>2. PICK n \in Nat : \E rank \in [Surfaces -> 0 .. n] : Ranked(x.surface, rank)
  BY DEF Forest
<1>3. PICK rank \in [Surfaces -> 0 .. n] : Ranked(x.surface, rank)
  BY <1>2
<1> DEFINE P == {m \in Nat : \A s \in Surfaces : rank[s] < m => GoodOrder(order[s], x, s, top, from)}
<1>4. 0 \in P
  BY <1>3
<1>5. ASSUME NEW m \in Nat, m \in P
      PROVE  m + 1 \in P
  <2> SUFFICES ASSUME NEW s \in Surfaces, rank[s] < m + 1
               PROVE  GoodOrder(order[s], x, s, top, from)
    OBVIOUS
  <2>1. ASSUME NEW c \in Children(x, s)
        PROVE  GoodOrder(order[c], x, c, top, from)
    <3>1. c \in Surfaces /\ x.surface[c].parent = s
      BY ChildrenAre
    <3>2. rank[c] < rank[s] /\ rank[c] \in Nat /\ rank[s] \in Nat
      BY <1>3, <3>1, SurfacesAssumption DEF Ranked
    <3>3. rank[c] < m
      BY <3>2
    <3> QED
      BY <1>5, <3>1, <3>3
  <2>2. GoodOrder(Order(order, x, top, from, s), x, s, top, from)
    BY <2>1, OrderProper
  <2>3. order[s] = Order(order, x, top, from, s)
    BY <1>1 DEF IsOrder
  <2> QED
    BY <2>2, <2>3
<1> HIDE DEF P
<1>6. n + 1 \in P
  BY <1>4, <1>5, SetInduction
<1>7. GoodOrder(order[top], x, top, top, from)
  <2>1. rank[top] < n + 1
    BY <1>3
  <2> QED
    BY <1>6, <2>1 DEF P
<1> QED
  BY <1>1, <1>7

-----------------------------------------------------------------------------
(* The events. *)

\* b is given back to the client, or waits for the server.
Released(x, y, b) ==
  \/ y.waiting = x.waiting \cup {b} /\ y.busy = x.busy /\ b \in x.reading
  \/ y.waiting = x.waiting /\ y.busy = x.busy \ {b}

LEMMA DoReleaseFields ==
  ASSUME NEW x \in Working, NEW s \in Surfaces, NEW b \in Buffers, NEW y, y = DoRelease(x, s, b)
  PROVE  /\ y \in Working /\ Released(x, y, b)
         /\ y.surface = x.surface /\ y.reading = x.reading /\ y.frame = x.frame /\ y.draw = x.draw
<1>1. CASE Rooted(x, s) /\ b \in x.reading
  <2> DEFINE e == [x EXCEPT !.waiting = @ \cup {b}]
  <2>1. y = e
    BY <1>1 DEF DoRelease
  <2>2. /\ e \in Working /\ e.waiting = x.waiting \cup {b} /\ e.busy = x.busy
        /\ e.surface = x.surface /\ e.reading = x.reading /\ e.frame = x.frame /\ e.draw = x.draw
    BY DEF Working
  <2> HIDE DEF e
  <2> QED
    BY <1>1, <2>1, <2>2 DEF Released
<1>2. CASE ~(Rooted(x, s) /\ b \in x.reading)
  <2> DEFINE e == [x EXCEPT !.busy = @ \ {b}]
  <2>1. y = e
    BY <1>2 DEF DoRelease
  <2>2. /\ e \in Working /\ e.waiting = x.waiting /\ e.busy = x.busy \ {b}
        /\ e.surface = x.surface /\ e.reading = x.reading /\ e.frame = x.frame /\ e.draw = x.draw
    BY DEF Working
  <2> HIDE DEF e
  <2> QED
    BY <2>1, <2>2 DEF Released
<1> QED
  BY <1>1, <1>2

LEMMA ShownFrame ==
  ASSUME NEW sf \in [Surfaces -> SurfaceState]
  PROVE  Shown(sf) \in [Surfaces -> Buffers \cup {none}]
<1> DEFINE visible == CHOOSE v : v = [t \in Surfaces |->
                        /\ sf[t].current # none
                        /\ t = Root \/ (/\ sf[t].role
                                        /\ ~sf[t].uninserted
                                        /\ sf[t].parent # none
                                        /\ v[sf[t].parent])]
<1>1. Shown(sf) = [t \in Surfaces |-> IF visible[t] THEN sf[t].current ELSE none]
  BY DEF Shown
<1> HIDE DEF visible
<1> QED
  BY <1>1 DEF SurfaceState

LEMMA DrawFields ==
  ASSUME NEW x \in Working, NEW y, y = Draw(x)
  PROVE  /\ y \in Working
         /\ y.surface = x.surface /\ y.busy = x.busy /\ y.waiting = x.waiting
         /\ x.reading \subseteq y.reading /\ y.frame = Shown(x.surface) /\ ~y.draw
<1>1. x.surface \in [Surfaces -> SurfaceState]
  BY DEF Working
<1>2. Shown(x.surface) \in [Surfaces -> Buffers \cup {none}]
  BY <1>1, ShownFrame
<1> DEFINE f == Shown(x.surface)
           r == x.reading \cup ({f[t] : t \in Surfaces} \ {none})
           e == [x EXCEPT !.draw = FALSE, !.frame = f, !.reading = r]
<1>3. y = e
  BY DEF Draw
<1>4. f \in Frames /\ r \in SUBSET Buffers /\ x.reading \subseteq r
  BY <1>2 DEF Frames, Working
<1> HIDE DEF f, r
<1>5. e \in Working /\ e.surface = x.surface /\ e.busy = x.busy /\ e.waiting = x.waiting
      /\ e.reading = r /\ e.frame = f /\ ~e.draw
  BY ZenonT(30), <1>4 DEF Working
<1> HIDE DEF e
<1> QED
  BY <1>3, <1>4, <1>5 DEF f

LEMMA UpdateFields ==
  ASSUME NEW x \in Working, NEW s, NEW y, y = SubsurfaceUpdate(x, s)
  PROVE  /\ y \in Working
         /\ y.surface = x.surface /\ y.busy = x.busy /\ y.waiting = x.waiting
         /\ x.reading \subseteq y.reading
         /\ y = x \/ (y.frame = Shown(x.surface) /\ ~y.draw)
<1>1. CASE x.draw /\ Rooted(x, s)
  BY <1>1, DrawFields DEF SubsurfaceUpdate
<1>2. CASE ~(x.draw /\ Rooted(x, s))
  BY <1>2 DEF SubsurfaceUpdate
<1> QED
  BY <1>1, <1>2

\* All of two surfaces but their contents.
SameNode(p, q) ==
  /\ q.alive = p.alive /\ q.role = p.role /\ q.typed = p.typed
  /\ q.parent = p.parent /\ q.children = p.children
  /\ q.synchronous = p.synchronous /\ q.should_be_desync = p.should_be_desync

\* All of two steps' working states but the surface s.
Others(x, y, s) == \A t \in Surfaces : t # s => y.surface[t] = x.surface[t]

\* What Merge, RoleCommit and the two other events make of a surface.
Merged(p, q, from) ==
  /\ SameNode(p, q) /\ q.pending_commit = p.pending_commit /\ q.uninserted = p.uninserted
  /\ q.pending.attached = p.pending.attached /\ q.cached.attached = p.cached.attached
  /\ q.current = IF p[from].attached THEN p[from].buffer ELSE p.current
  /\ q.pending.buffer = IF p[from].attached /\ from = "pending" THEN none ELSE p.pending.buffer
  /\ q.cached.buffer = IF p[from].attached /\ from = "cached" THEN none ELSE p.cached.buffer

RoleCommitted(p, q, from) ==
  /\ SameNode(p, q) /\ q.pending_commit = p.pending_commit /\ q.uninserted = p.uninserted
  /\ q.current = p.current /\ q.pending.buffer = p.pending.buffer /\ q.cached.buffer = p.cached.buffer
  /\ q.pending.attached <=> p.pending.attached /\ from # "pending"
  /\ q.cached.attached <=> p.cached.attached /\ from # "cached"

Flagged(p, q, do) ==
  /\ SameNode(p, q)
  /\ q.pending_commit <=> p.pending_commit /\ do # "applied"
  /\ q.uninserted <=> p.uninserted /\ do # "insert"
  /\ q.current = p.current /\ q.pending = p.pending /\ q.cached = p.cached

LEMMA MergeFields ==
  ASSUME NEW x \in Working, NEW s \in Surfaces, NEW from \in {"pending", "cached"},
         NEW y, y = Merge(x, s, from)
  PROVE  /\ y \in Working /\ Others(x, y, s) /\ Merged(x.surface[s], y.surface[s], from)
         /\ y.reading = x.reading /\ y.frame = x.frame /\ y.draw = x.draw
         /\ \/ /\ y.busy = x.busy /\ y.waiting = x.waiting
               /\ x.surface[s].current \in {none, y.surface[s].current}
            \/ /\ Released(x, y, x.surface[s].current)
               /\ x.surface[s].current \notin {none, y.surface[s].current}
<1> DEFINE p == x.surface[s]
           old == p.current
<1>1. p \in SurfaceState /\ x.surface \in [Surfaces -> SurfaceState]
  BY DEF Working
<1>2. CASE ~p[from].attached
  <2>1. y = x
    BY <1>2 DEF Merge
  <2> QED
    BY SMTT(30), <1>2, <2>1 DEF Others, SameNode, Merged
<1>3. CASE p[from].attached
  <2> DEFINE r == IF old \notin {none, p[from].buffer} THEN DoRelease(x, s, old) ELSE x
  <2>1. /\ r \in Working /\ r.surface = x.surface
        /\ r.reading = x.reading /\ r.frame = x.frame /\ r.draw = x.draw
        /\ \/ r.busy = x.busy /\ r.waiting = x.waiting /\ old \in {none, p[from].buffer}
           \/ Released(x, r, old) /\ old \notin {none, p[from].buffer}
    <3>1. CASE old \notin {none, p[from].buffer}
      <4>1. old \in Buffers
        BY <1>1, <3>1 DEF SurfaceState
      <4> QED
        BY <3>1, <4>1, DoReleaseFields
    <3>2. CASE old \in {none, p[from].buffer}
      BY SMTT(30), <3>2
    <3> QED
      BY <3>1, <3>2
  <2>2. y = [r EXCEPT !.surface[s].current = p[from].buffer, !.surface[s][from].buffer = none]
    BY <1>3 DEF Merge
  <2> HIDE DEF r
  <2> DEFINE q == IF from = "pending"
                  THEN [p EXCEPT !.current = p.pending.buffer, !.pending.buffer = none]
                  ELSE [p EXCEPT !.current = p.cached.buffer, !.cached.buffer = none]
  <2>3. q \in SurfaceState
    BY ZenonT(30), <1>1 DEF SurfaceState, State
  <2>4. /\ SameNode(p, q)
        /\ q.pending_commit = p.pending_commit /\ q.uninserted = p.uninserted
        /\ q.pending.attached = p.pending.attached /\ q.cached.attached = p.cached.attached
        /\ q.current = p[from].buffer
        /\ q.pending.buffer = IF from = "pending" THEN none ELSE p.pending.buffer
        /\ q.cached.buffer = IF from = "cached" THEN none ELSE p.cached.buffer
    BY <1>1 DEF SurfaceState, State, SameNode
  <2>5. y = [r EXCEPT !.surface = [x.surface EXCEPT ![s] = q]]
    <3> DEFINE half == [r EXCEPT !.surface = [x.surface EXCEPT ![s] = [p EXCEPT !.current = p[from].buffer]]]
               halfNode == [p EXCEPT !.current = p[from].buffer]
    <3>1. halfNode \in SurfaceState /\ halfNode[from] = p[from]
      BY SMTT(30), <1>1 DEF SurfaceState, State
    <3>2. half = [r EXCEPT !.surface[s].current = p[from].buffer]
      BY SMTT(30), <2>1 DEF Working
    <3>3. y = [half EXCEPT !.surface[s][from].buffer = none]
      BY ZenonT(30), <2>2, <3>2
    <3>4. half.surface = [x.surface EXCEPT ![s] = halfNode] /\ half.surface[s] = halfNode
      BY <1>1, <2>1 DEF Working
    <3>5. y = [half EXCEPT !.surface = [half.surface EXCEPT ![s] = [halfNode EXCEPT ![from].buffer = none]]]
      BY ZenonT(30), <3>3, <3>4
    <3>6. [halfNode EXCEPT ![from].buffer = none] = q
      <4>1. CASE from = "pending"
        <5>1. q = [p EXCEPT !.current = p.pending.buffer, !.pending.buffer = none]
          BY <4>1
        <5>2. p["pending"].buffer = p.pending.buffer
          OBVIOUS
        <5> QED
          BY ZenonT(30), <1>1, <4>1, <5>1, <5>2 DEF SurfaceState
      <4>2. CASE from = "cached"
        <5>1. q = [p EXCEPT !.current = p.cached.buffer, !.cached.buffer = none]
          BY <4>2
        <5> QED
          BY ZenonT(30), <1>1, <4>2, <5>1 DEF SurfaceState
      <4> QED
        BY <4>1, <4>2
    <3>7. [half.surface EXCEPT ![s] = q] = [x.surface EXCEPT ![s] = q]
      BY <1>1, <3>4
    <3> HIDE DEF q, halfNode
    <3>8. [half EXCEPT !.surface = [x.surface EXCEPT ![s] = q]] = [r EXCEPT !.surface = [x.surface EXCEPT ![s] = q]]
      BY ZenonT(30), <2>1 DEF Working
    <3> QED
      BY ZenonT(30), <3>5, <3>6, <3>7, <3>8
  <2> HIDE DEF q
  <2>6. /\ y \in Working /\ Others(x, y, s) /\ y.surface[s] = q
        /\ y.busy = r.busy /\ y.waiting = r.waiting
        /\ y.reading = x.reading /\ y.frame = x.frame /\ y.draw = x.draw
    BY <1>1, <2>1, <2>3, <2>5 DEF Working, Others
  <2>7. \/ y.busy = x.busy /\ y.waiting = x.waiting /\ p.current \in {none, q.current}
        \/ Released(x, y, p.current) /\ p.current \notin {none, q.current}
    BY <2>1, <2>4, <2>6 DEF Released
  <2>8. Merged(p, q, from)
    BY <1>3, <2>4 DEF Merged
  <2> QED
    BY SMTT(30), <2>6, <2>7, <2>8
<1> QED
  BY <1>2, <1>3

\* Nothing is released.
SameAccounts(x, y) == y.busy = x.busy /\ y.waiting = x.waiting /\ x.reading \subseteq y.reading

LEMMA RoleCommitFields ==
  ASSUME NEW x \in Working, NEW s \in Surfaces, NEW from \in {"pending", "cached"},
         NEW y, y = RoleCommit(x, s, from)
  PROVE  /\ y \in Working /\ Others(x, y, s) /\ RoleCommitted(x.surface[s], y.surface[s], from)
         /\ SameAccounts(x, y) /\ (y.frame = x.frame \/ y.frame = Shown(x.surface))
<1> DEFINE p == x.surface[s]
           update == s = Root \/ (Inserted(x, s) /\ ~x.surface[s].synchronous)
           r == IF update THEN SubsurfaceUpdate(x, s) ELSE x
           q == IF from = "pending" THEN [p EXCEPT !.pending.attached = FALSE]
                ELSE [p EXCEPT !.cached.attached = FALSE]
<1>1. p \in SurfaceState /\ x.surface \in [Surfaces -> SurfaceState]
  BY DEF Working
<1>2. /\ r \in Working /\ r.surface = x.surface /\ r.busy = x.busy /\ r.waiting = x.waiting
      /\ x.reading \subseteq r.reading /\ (r.frame = x.frame \/ r.frame = Shown(x.surface))
  <2>1. CASE update
    BY <2>1, UpdateFields
  <2>2. CASE ~update
    BY <2>2
  <2> QED
    BY <2>1, <2>2
<1>3. y = [r EXCEPT !.surface[s][from].attached = FALSE]
  BY DEF RoleCommit
<1>4. [p EXCEPT ![from].attached = FALSE] = q
  BY ZenonT(30), <1>1 DEF SurfaceState
<1>5. q \in SurfaceState
  BY ZenonT(30), <1>1 DEF SurfaceState, State
<1>6. RoleCommitted(p, q, from)
  BY <1>1 DEF SurfaceState, State, SameNode, RoleCommitted
<1> HIDE DEF r
<1>7. y = [r EXCEPT !.surface = [x.surface EXCEPT ![s] = q]]
  <2>1. y = [r EXCEPT !.surface = [r.surface EXCEPT ![s] = [p EXCEPT ![from].attached = FALSE]]]
    BY <1>2, <1>3
  <2> HIDE DEF q
  <2> QED
    BY <1>2, <1>4, <2>1
<1> HIDE DEF q
<1>8. /\ y \in Working /\ Others(x, y, s) /\ y.surface[s] = q
      /\ y.busy = r.busy /\ y.waiting = r.waiting /\ y.reading = r.reading /\ y.frame = r.frame
  BY <1>1, <1>2, <1>5, <1>7 DEF Working, Others
<1> QED
  BY <1>2, <1>6, <1>8 DEF SameAccounts

\* What is left of a surface p after some of the events about it: the merge of
\* the state f, the role, the parent's being done with it, its insertion.
Progressed(p, q, f, merged, role, applied, inserted) ==
  /\ SameNode(p, q)
  /\ q.current = IF merged /\ p[f].attached THEN p[f].buffer ELSE p.current
  /\ q.pending.buffer = IF merged /\ p[f].attached /\ f = "pending" THEN none ELSE p.pending.buffer
  /\ q.cached.buffer = IF merged /\ p[f].attached /\ f = "cached" THEN none ELSE p.cached.buffer
  /\ q.pending.attached <=> p.pending.attached /\ ~(role /\ f = "pending")
  /\ q.cached.attached <=> p.cached.attached /\ ~(role /\ f = "cached")
  /\ q.pending_commit <=> p.pending_commit /\ ~applied
  /\ q.uninserted <=> p.uninserted /\ ~inserted

Reached(o, k, e) == \E j \in 1 .. k : o[j] = e

Progress(x, z, o, k, top, from) ==
  \A s \in Surfaces :
    LET f == From(s, top, from)
    IN Progressed(x.surface[s], z.surface[s], f,
                  Reached(o, k, Event("merge", s, f)), Reached(o, k, Event("role", s, f)),
                  Reached(o, k, Event("applied", s, "cached")), Reached(o, k, Event("insert", s, "cached")))

LEMMA FlagFields ==
  ASSUME NEW x \in Working, NEW s \in Surfaces, NEW do \in {"insert", "applied"},
         NEW y, y = Do(x, Event(do, s, "cached"))
  PROVE  /\ y \in Working /\ Others(x, y, s) /\ Flagged(x.surface[s], y.surface[s], do)
         /\ SameAccounts(x, y) /\ y.reading = x.reading /\ y.frame = x.frame
<1> DEFINE p == x.surface[s]
           q == IF do = "insert" THEN [p EXCEPT !.uninserted = FALSE] ELSE [p EXCEPT !.pending_commit = FALSE]
<1>1. p \in SurfaceState /\ x.surface \in [Surfaces -> SurfaceState]
  BY DEF Working
<1>2. q \in SurfaceState
  BY ZenonT(30), <1>1 DEF SurfaceState
<1>3. Flagged(p, q, do)
  BY <1>1 DEF SurfaceState, SameNode, Flagged
<1>4. y = [x EXCEPT !.surface = [x.surface EXCEPT ![s] = q]]
  BY ZenonT(30) DEF Do, Event
<1> HIDE DEF q
<1>5. /\ y \in Working /\ Others(x, y, s) /\ y.surface[s] = q
      /\ y.busy = x.busy /\ y.waiting = x.waiting /\ y.reading = x.reading /\ y.frame = x.frame
  BY <1>1, <1>2, <1>4 DEF Working, Others
<1> QED
  BY <1>3, <1>5 DEF SameAccounts

LEMMA ReachedNext ==
  ASSUME NEW o, NEW k \in Nat \ {0}, NEW e
  PROVE  Reached(o, k, e) <=> Reached(o, k - 1, e) \/ o[k] = e
<1>1. \A j : j \in 1 .. k <=> j \in 1 .. k - 1 \/ j = k
  OBVIOUS
<1> QED
  BY <1>1 DEF Reached

\* The surface and the kind of an event.
LEMMA EventCases ==
  ASSUME NEW x, x.surface \in [Surfaces -> SurfaceState], Listed(x.surface),
         NEW top \in Surfaces, NEW from \in {"pending", "cached"},
         NEW o, GoodOrder(o, x, top, top, from), NEW k \in 1 .. Len(o)
  PROVE  \E s \in Surfaces :
           \/ o[k] = Event("merge", s, From(s, top, from)) /\ s \in Applied(x, top)
           \/ o[k] = Event("role", s, From(s, top, from)) /\ s \in Applied(x, top)
           \/ o[k] = Event("insert", s, "cached") /\ x.surface[s].parent \in Applied(x, top)
           \/ o[k] = Event("applied", s, "cached") /\ x.surface[s].parent \in Applied(x, top)
<1>1. o \in Seq(Events) /\ ToSet(o) = AppliedEvents(x, top, top, from)
  BY DEF GoodOrder, Proper
<1>2. o[k] \in AppliedEvents(x, top, top, from)
  BY <1>1 DEF ToSet
<1>3. Applied(x, top) \subseteq Surfaces
  BY AppliedBelow
<1> QED
  BY <1>2, <1>3 DEF AppliedEvents, EventsOf

LEMMA MergeNode ==
  ASSUME NEW x \in Working, NEW s \in Surfaces, NEW from \in {"pending", "cached"},
         NEW y, y = Merge(x, s, from)
  PROVE  y \in Working /\ Others(x, y, s) /\ Merged(x.surface[s], y.surface[s], from)
BY MergeFields

LEMMA ProgressStep ==
  ASSUME NEW x \in Working, Listed(x.surface),
         NEW top \in Surfaces, NEW from \in {"pending", "cached"},
         NEW o, GoodOrder(o, x, top, top, from), NEW k \in 1 .. Len(o),
         NEW y \in Working, Progress(x, y, o, k - 1, top, from), NEW z, z = Do(y, o[k])
  PROVE  z \in Working /\ Progress(x, z, o, k, top, from)
<1>0. x.surface \in [Surfaces -> SurfaceState]
  BY DEF Working
<1>1. PICK s \in Surfaces :
           \/ o[k] = Event("merge", s, From(s, top, from)) /\ s \in Applied(x, top)
           \/ o[k] = Event("role", s, From(s, top, from)) /\ s \in Applied(x, top)
           \/ o[k] = Event("insert", s, "cached") /\ x.surface[s].parent \in Applied(x, top)
           \/ o[k] = Event("applied", s, "cached") /\ x.surface[s].parent \in Applied(x, top)
  BY <1>0, EventCases
<1>2. k \in Nat \ {0}
  BY DEF GoodOrder, Proper
<1>3. \A e : Reached(o, k, e) <=> Reached(o, k - 1, e) \/ o[k] = e
  BY <1>2, ReachedNext
<1> DEFINE f == From(s, top, from)
           p == x.surface[s]
           q == y.surface[s]
           r == z.surface[s]
           merge(j) == Reached(o, j, Event("merge", s, f))
           role(j) == Reached(o, j, Event("role", s, f))
           applied(j) == Reached(o, j, Event("applied", s, "cached"))
           insert(j) == Reached(o, j, Event("insert", s, "cached"))
<1>4. f \in {"pending", "cached"}
  BY DEF From
<1>5. Progressed(p, q, f, merge(k - 1), role(k - 1), applied(k - 1), insert(k - 1))
  BY DEF Progress
<1>6. /\ \A do, g : do # "merge" => Event("merge", s, g) # Event(do, s, f) /\ Event("merge", s, g) # Event(do, s, "cached")
      /\ \A do, g : do # "role" => Event("role", s, g) # Event(do, s, f) /\ Event("role", s, g) # Event(do, s, "cached")
      /\ \A do, g : do # "applied" => Event("applied", s, g) # Event(do, s, f) /\ Event("applied", s, g) # Event(do, s, "cached")
      /\ \A do, g : do # "insert" => Event("insert", s, g) # Event(do, s, f) /\ Event("insert", s, g) # Event(do, s, "cached")
  BY DEF Event
<1> DEFINE Goal == z \in Working /\ Others(y, z, s)
                   /\ Progressed(p, r, f, merge(k), role(k), applied(k), insert(k))
<1>7. ASSUME o[k] = Event("merge", s, f)
      PROVE  Goal
  <2>1. ~merge(k - 1) /\ ~role(k - 1)
    <3>1. ASSUME NEW j \in 1 .. k - 1
          PROVE  o[j] # Event("merge", s, f) /\ o[j] # Event("role", s, f)
      <4>1. j \in DOMAIN o /\ k \in DOMAIN o /\ j < k /\ j # k /\ ~(k < j)
        BY <1>2 DEF GoodOrder, Proper
      <4>2. o[j] # o[k]
        BY <4>1 DEF GoodOrder, Proper, IsInjective
      <4>3. o[j] # Event("role", s, f)
        BY <1>7, <4>1 DEF GoodOrder, Proper, Ordered, Event
      <4> QED
        BY <1>7, <4>2, <4>3
    <3> QED
      BY <3>1 DEF Reached
  <2>2. /\ merge(k) /\ (role(k) <=> role(k - 1))
        /\ (applied(k) <=> applied(k - 1)) /\ (insert(k) <=> insert(k - 1))
    BY <1>3, <1>6, <1>7
  <2>3. z = Merge(y, s, f)
    BY <1>7 DEF Do, Event
  <2>4. z \in Working /\ Others(y, z, s) /\ Merged(q, r, f)
    BY ZenonT(30), <1>4, <2>3, MergeNode
  <2> HIDE DEF merge, role, applied, insert, p, q, r, f
  <2>5. CASE f = "pending"
    BY <1>5, <2>1, <2>2, <2>4, <2>5 DEF Progressed, Merged, SameNode
  <2>6. CASE f = "cached"
    BY <1>5, <2>1, <2>2, <2>4, <2>6 DEF Progressed, Merged, SameNode
  <2> QED
    BY <1>4, <2>5, <2>6
<1>8. ASSUME o[k] = Event("role", s, f)
      PROVE  Goal
  <2>1. /\ role(k) /\ (merge(k) <=> merge(k - 1))
        /\ (applied(k) <=> applied(k - 1)) /\ (insert(k) <=> insert(k - 1))
    BY ZenonT(30), <1>3, <1>6, <1>8
  <2>2. z = RoleCommit(y, s, f)
    BY <1>8 DEF Do, Event
  <2>3. z \in Working /\ Others(y, z, s) /\ RoleCommitted(q, r, f)
    BY ZenonT(30), <1>4, <2>2, RoleCommitFields
  <2> HIDE DEF merge, role, applied, insert, p, q, r, f
  <2>4. Progressed(p, r, f, merge(k), role(k), applied(k), insert(k))
    BY <1>4, <1>5, <2>1, <2>3 DEF Progressed, SameNode, RoleCommitted
  <2> QED
    BY <2>3, <2>4
<1>9. ASSUME o[k] = Event("insert", s, "cached") \/ o[k] = Event("applied", s, "cached")
      PROVE  Goal
  <2>1. PICK do \in {"insert", "applied"} : o[k] = Event(do, s, "cached")
    BY <1>9
  <2>2. /\ (merge(k) <=> merge(k - 1)) /\ (role(k) <=> role(k - 1))
        /\ (applied(k) <=> applied(k - 1) \/ do = "applied") /\ (insert(k) <=> insert(k - 1) \/ do = "insert")
    BY <1>3, <1>6, <2>1
  <2>3. z = Do(y, Event(do, s, "cached"))
    BY <2>1
  <2>4. z \in Working /\ Others(y, z, s) /\ Flagged(q, r, do)
    BY ZenonT(30), <2>3, FlagFields
  <2> HIDE DEF merge, role, applied, insert, p, q, r, f
  <2>5. Progressed(p, r, f, merge(k), role(k), applied(k), insert(k))
    BY <1>4, <1>5, <2>2, <2>4 DEF Progressed, SameNode, Flagged
  <2> QED
    BY <2>4, <2>5
<1>10. Goal
  BY <1>1, <1>7, <1>8, <1>9
<1>11. ASSUME NEW t \in Surfaces, t # s
       PROVE  LET g == From(t, top, from)
              IN Progressed(x.surface[t], z.surface[t], g,
                            Reached(o, k, Event("merge", t, g)), Reached(o, k, Event("role", t, g)),
                            Reached(o, k, Event("applied", t, "cached")), Reached(o, k, Event("insert", t, "cached")))
  <2> DEFINE g == From(t, top, from)
  <2>1. \A do, h : Reached(o, k, Event(do, t, h)) <=> Reached(o, k - 1, Event(do, t, h))
    <3>1. \A do, h : o[k] # Event(do, t, h)
      BY <1>1, <1>11 DEF Event
    <3> QED
      BY <1>3, <3>1
  <2>2. z.surface[t] = y.surface[t]
    BY <1>10, <1>11 DEF Others
  <2>3. Progressed(x.surface[t], y.surface[t], g,
                   Reached(o, k - 1, Event("merge", t, g)), Reached(o, k - 1, Event("role", t, g)),
                   Reached(o, k - 1, Event("applied", t, "cached")), Reached(o, k - 1, Event("insert", t, "cached")))
    BY SMTT(30) DEF Progress
  <2> HIDE DEF g
  <2>4. Progressed(x.surface[t], z.surface[t], g,
                   Reached(o, k, Event("merge", t, g)), Reached(o, k, Event("role", t, g)),
                   Reached(o, k, Event("applied", t, "cached")), Reached(o, k, Event("insert", t, "cached")))
    BY <2>1, <2>2, <2>3 DEF Progressed
  <2> QED
    BY <2>4 DEF g
<1> QED
  BY <1>10, <1>11 DEF Progress

-----------------------------------------------------------------------------
(* The buffers during a commit. *)

\* A release of a buffer b of s that nothing holds any more.
LEMMA ReleaseKept ==
  ASSUME NEW x, NEW y, NEW h, Kept(x, h), NEW s \in Surfaces,
         NEW b \in BuffersOf[s], b \in x.busy \ x.waiting, Released(x, y, b),
         y.reading = x.reading, \A t \in Surfaces : y.surface[t].alive = x.surface[t].alive,
         \A t \in Surfaces : t # s => Held(y, t, h) = Held(x, t, h),
         b \notin Held(y, s, h), Held(y, s, h) \subseteq Held(x, s, h) \cup {none},
         Held(x, s, h) \subseteq Held(y, s, h) \cup {b, none}
  PROVE  Kept(y, h)
<1>1. b # none
  BY SurfacesAssumption
<1>2. \A t \in Surfaces : t # s => b \notin Held(x, t, h)
  BY <1>1, SurfacesAssumption DEF Kept
<1>3. CASE y.waiting = x.waiting \cup {b} /\ y.busy = x.busy /\ b \in x.reading
  <2>1. y.waiting \subseteq y.busy /\ y.waiting \subseteq y.reading
    BY <1>3 DEF Kept
  <2>2. ASSUME NEW t \in Surfaces
        PROVE  Held(y, t, h) \subseteq ((y.busy \ y.waiting) \cap BuffersOf[t]) \cup {none}
    <3>1. Held(y, t, h) \subseteq Held(x, t, h) \cup {none} /\ b \notin Held(y, t, h)
      BY <1>2
    <3>2. Held(x, t, h) \subseteq ((x.busy \ x.waiting) \cap BuffersOf[t]) \cup {none}
      BY DEF Kept
    <3> QED
      BY <1>3, <3>1, <3>2
  <2>3. ASSUME NEW t \in Surfaces, y.surface[t].alive
        PROVE  BuffersOf[t] \cap y.busy \subseteq y.waiting \cup Held(y, t, h)
    <3>1. Held(x, t, h) \subseteq Held(y, t, h) \cup {b, none}
      OBVIOUS
    <3>2. BuffersOf[t] \cap x.busy \subseteq x.waiting \cup Held(x, t, h)
      BY <2>3 DEF Kept
    <3>3. none \notin BuffersOf[t]
      BY SurfacesAssumption
    <3> QED
      BY <1>3, <3>1, <3>2, <3>3
  <2> QED
    BY <2>1, <2>2, <2>3 DEF Kept
<1>4. CASE y.waiting = x.waiting /\ y.busy = x.busy \ {b}
  <2>1. y.waiting \subseteq y.busy /\ y.waiting \subseteq y.reading
    BY SMTT(30), <1>4 DEF Kept
  <2>2. ASSUME NEW t \in Surfaces
        PROVE  Held(y, t, h) \subseteq ((y.busy \ y.waiting) \cap BuffersOf[t]) \cup {none}
    <3>1. Held(y, t, h) \subseteq Held(x, t, h) \cup {none} /\ b \notin Held(y, t, h)
      BY <1>2
    <3>2. Held(x, t, h) \subseteq ((x.busy \ x.waiting) \cap BuffersOf[t]) \cup {none}
      BY DEF Kept
    <3> QED
      BY <1>4, <3>1, <3>2
  <2>3. ASSUME NEW t \in Surfaces, y.surface[t].alive
        PROVE  BuffersOf[t] \cap y.busy \subseteq y.waiting \cup Held(y, t, h)
    <3>1. Held(x, t, h) \subseteq Held(y, t, h) \cup {b, none}
      OBVIOUS
    <3>2. BuffersOf[t] \cap x.busy \subseteq x.waiting \cup Held(x, t, h)
      BY <2>3 DEF Kept
    <3>3. none \notin BuffersOf[t]
      BY SurfacesAssumption
    <3> QED
      BY <1>4, <3>1, <3>2, <3>3
  <2> QED
    BY <2>1, <2>2, <2>3 DEF Kept
<1> QED
  BY <1>3, <1>4 DEF Released

\* Nothing is released.
LEMMA SameKept ==
  ASSUME NEW x, NEW y, NEW h, NEW g, Kept(x, h),
         y.busy = x.busy, y.waiting = x.waiting, x.reading \subseteq y.reading,
         \A t \in Surfaces : /\ y.surface[t].alive => x.surface[t].alive
                             /\ Held(y, t, g) \cup {none} = Held(x, t, h) \cup {none}
  PROVE  Kept(y, g)
<1>1. y.waiting \subseteq y.busy /\ y.waiting \subseteq y.reading
  BY DEF Kept
<1>2. ASSUME NEW t \in Surfaces
      PROVE  /\ Held(y, t, g) \subseteq ((y.busy \ y.waiting) \cap BuffersOf[t]) \cup {none}
             /\ y.surface[t].alive => BuffersOf[t] \cap y.busy \subseteq y.waiting \cup Held(y, t, g)
  <2>1. none \notin BuffersOf[t]
    BY SurfacesAssumption
  <2> QED
    BY <2>1 DEF Kept
<1> QED
  BY <1>1, <1>2 DEF Kept

LEMMA MergeKept ==
  ASSUME NEW x \in Working, NEW h, Kept(x, h), NEW s \in Surfaces, NEW from \in {"pending", "cached"},
         from = "pending" => s = h /\ x.surface[s].cached.buffer = none,
         /\ from = "cached" /\ s = h /\ x.surface[s].cached.attached
         /\ x.surface[s].current # x.surface[s].cached.buffer
         => x.surface[s].pending.buffer = none \/ x.surface[s].pending.buffer # x.surface[s].current,
         NEW y, y = Merge(x, s, from)
  PROVE  Kept(y, h) /\ y.busy \subseteq x.busy
<1> DEFINE p == x.surface[s]
           q == y.surface[s]
<1>1. Others(x, y, s) /\ Merged(p, q, from) /\ y.reading = x.reading
  BY SMTT(30), MergeFields
<1>2. \/ y.busy = x.busy /\ y.waiting = x.waiting /\ p.current \in {none, q.current}
      \/ Released(x, y, p.current) /\ p.current \notin {none, q.current}
  BY MergeFields
<1>3. \A t \in Surfaces : y.surface[t].alive = x.surface[t].alive
  BY <1>1 DEF Others, Merged, SameNode
<1>4. \A t \in Surfaces : t # s => Held(y, t, h) = Held(x, t, h)
  BY <1>1 DEF Others, Held
<1>5. CASE ~p[from].attached
  <2>1. y = x
    BY <1>5 DEF Merge
  <2> QED
    BY SMTT(30), <2>1
<1>6. CASE p[from].attached /\ p.current \in {none, q.current}
  <2>1. q.current = p[from].buffer
    BY <1>1, <1>6 DEF Merged
  <2>2. Held(y, s, h) \cup {none} = Held(x, s, h) \cup {none}
    <3>1. CASE from = "pending"
      BY SMTT(30), <1>1, <1>6, <2>1, <3>1 DEF Merged, Held
    <3>2. CASE from = "cached"
      BY SMTT(30), <1>1, <1>6, <2>1, <3>2 DEF Merged, Held
    <3> QED
      BY SMTT(30), <3>1, <3>2
  <2>3. y.busy = x.busy /\ y.waiting = x.waiting
    BY <1>2, <1>6
  <2>4. Kept(y, h)
    BY <1>1, <1>3, <1>4, <2>2, <2>3, SameKept
  <2> QED
    BY <2>3, <2>4
<1>7. CASE p[from].attached /\ p.current \notin {none, q.current}
  <2>1. q.current = p[from].buffer
    BY <1>1, <1>7 DEF Merged
  <2>2. /\ p.current \notin Held(y, s, h)
        /\ Held(y, s, h) \subseteq Held(x, s, h) \cup {none}
        /\ Held(x, s, h) \subseteq Held(y, s, h) \cup {p.current, none}
    <3>1. CASE from = "pending"
      BY SMTT(30), <1>1, <1>7, <2>1, <3>1 DEF Merged, Held
    <3>2. CASE from = "cached"
      BY <1>1, <1>7, <2>1, <3>2 DEF Merged, Held
    <3> QED
      BY SMTT(30), <3>1, <3>2
  <2>3. p.current \in BuffersOf[s] /\ p.current \in x.busy \ x.waiting
    BY <1>7 DEF Kept, Held
  <2>4. Released(x, y, p.current)
    BY <1>2, <1>7
  <2>5. Kept(y, h)
    BY <1>1, <1>3, <1>4, <2>2, <2>3, <2>4, ReleaseKept
  <2> QED
    BY <2>4, <2>5 DEF Released
<1> QED
  BY SMTT(30), <1>5, <1>6, <1>7

-----------------------------------------------------------------------------
(* What a commit leaves. *)

\* The surface whose pending state is committed, if it is not a cached one.
Committing(top, from) == IF from = "pending" THEN top ELSE none

LEMMA ProgressKept ==
  ASSUME NEW x \in Working, Listed(x.surface), Forest(x.surface),
         NEW top \in Surfaces, NEW from \in {"pending", "cached"},
         from = "pending" => x.surface[top].cached.buffer = none,
         NEW o, GoodOrder(o, x, top, top, from), NEW k \in 1 .. Len(o),
         NEW y \in Working, Progress(x, y, o, k - 1, top, from),
         Kept(y, Committing(top, from)), NEW z, z = Do(y, o[k])
  PROVE  Kept(z, Committing(top, from)) /\ z.busy \subseteq y.busy
<1>0. x.surface \in [Surfaces -> SurfaceState]
  BY DEF Working
<1>1. PICK s \in Surfaces :
           \/ o[k] = Event("merge", s, From(s, top, from)) /\ s \in Applied(x, top)
           \/ o[k] = Event("role", s, From(s, top, from)) /\ s \in Applied(x, top)
           \/ o[k] = Event("insert", s, "cached") /\ x.surface[s].parent \in Applied(x, top)
           \/ o[k] = Event("applied", s, "cached") /\ x.surface[s].parent \in Applied(x, top)
  BY <1>0, EventCases
<1> DEFINE f == From(s, top, from)
           h == Committing(top, from)
<1>2. f \in {"pending", "cached"}
  BY DEF From
<1>3. ASSUME o[k] = Event("merge", s, f)
      PROVE  Kept(z, h) /\ z.busy \subseteq y.busy
  <2>1. z = Merge(y, s, f)
    BY <1>3 DEF Do, Event
  <2>2. f = "pending" => s = h /\ from = "pending" /\ s = top
    BY DEF From, Committing
  <2>3. f = "cached" => s # h
    BY SurfacesAssumption DEF From, Committing
  <2>4. f = "pending" => y.surface[s].cached.buffer = none
    <3> HIDE DEF f
    <3>1. Progressed(x.surface[s], y.surface[s], f,
                     Reached(o, k - 1, Event("merge", s, f)), Reached(o, k - 1, Event("role", s, f)),
                     Reached(o, k - 1, Event("applied", s, "cached")), Reached(o, k - 1, Event("insert", s, "cached")))
      BY DEF Progress, f
    <3>2. ASSUME f = "pending"
          PROVE  y.surface[s].cached.buffer = x.surface[s].cached.buffer
      BY <3>1, <3>2 DEF Progressed
    <3> QED
      BY <2>2, <3>2
  <2> HIDE DEF f, h
  <2> QED
    BY <1>2, <2>1, <2>2, <2>3, <2>4, MergeKept DEF h
<1>4. ASSUME NEW g, Others(y, z, s), SameNode(y.surface[s], z.surface[s]),
             z.surface[s].current = y.surface[s].current,
             z.surface[s].pending.buffer = y.surface[s].pending.buffer,
             z.surface[s].cached.buffer = y.surface[s].cached.buffer,
             z.busy = y.busy, z.waiting = y.waiting, y.reading \subseteq z.reading
      PROVE  Kept(z, h) /\ z.busy \subseteq y.busy
  <2>1. \A t \in Surfaces : z.surface[t].alive = y.surface[t].alive /\ Held(z, t, h) = Held(y, t, h)
    <3> HIDE DEF h
    <3> QED
      BY ZenonT(30), <1>4 DEF Others, Held, SameNode
  <2> QED
    BY SMTT(30), <1>4, <2>1, SameKept
<1>5. ASSUME o[k] = Event("role", s, f)
      PROVE  Kept(z, h) /\ z.busy \subseteq y.busy
  <2>1. z = RoleCommit(y, s, f)
    BY <1>5 DEF Do, Event
  <2>2. Others(y, z, s) /\ RoleCommitted(y.surface[s], z.surface[s], f)
    BY ZenonT(30), <1>2, <2>1, RoleCommitFields
  <2>3. SameAccounts(y, z)
    BY ZenonT(30), <1>2, <2>1, RoleCommitFields
  <2> QED
    BY <1>4, <2>2, <2>3 DEF RoleCommitted, SameAccounts
<1>6. ASSUME o[k] = Event("insert", s, "cached") \/ o[k] = Event("applied", s, "cached")
      PROVE  Kept(z, h) /\ z.busy \subseteq y.busy
  <2>1. PICK do \in {"insert", "applied"} : z = Do(y, Event(do, s, "cached"))
    BY <1>6
  <2>2. Others(y, z, s) /\ Flagged(y.surface[s], z.surface[s], do)
    BY ZenonT(30), <2>1, FlagFields
  <2>3. SameAccounts(y, z)
    BY ZenonT(30), <2>1, FlagFields
  <2> QED
    BY <1>4, <2>2, <2>3 DEF Flagged, SameAccounts
<1> QED
  BY <1>1, <1>3, <1>5, <1>6

LEMMA DoReading ==
  ASSUME NEW x \in Working, x.waiting \subseteq x.reading, NEW e \in Events, NEW y, y = Do(x, e)
  PROVE  y.waiting \subseteq y.reading
<1>1. e.s \in Surfaces /\ e.from \in {"pending", "cached"} /\ e.do \in {"merge", "insert", "applied", "role"}
  BY DEF Events
<1>2. CASE e.do = "merge"
  <2>1. y = Merge(x, e.s, e.from)
    BY <1>2 DEF Do
  <2>2. \/ y.waiting = x.waiting
        \/ Released(x, y, x.surface[e.s].current)
    BY SMTT(30), <1>1, <2>1, MergeFields
  <2>3. y.reading = x.reading
    BY <1>1, <2>1, MergeFields
  <2> QED
    BY <2>2, <2>3 DEF Released
<1>3. CASE e.do = "role"
  <2>1. y = RoleCommit(x, e.s, e.from)
    BY <1>3 DEF Do
  <2>2. SameAccounts(x, y)
    BY <1>1, <2>1, RoleCommitFields
  <2> QED
    BY <2>2 DEF SameAccounts
<1>4. CASE e.do \in {"insert", "applied"}
  <2>1. y.waiting = x.waiting /\ y.reading = x.reading
    BY <1>4 DEF Do, Working
  <2> QED
    BY <2>1
<1> QED
  BY <1>1, <1>2, <1>3, <1>4

\* What a commit goes through.
Stage(x, z, o, k, top, from) ==
  /\ z \in Working /\ Progress(x, z, o, k, top, from)
  /\ x.waiting \subseteq x.reading => z.waiting \subseteq z.reading

CommitStages(x, top, from, o, y) ==
  /\ GoodOrder(o, x, top, top, from) /\ Stages(y, x, o) /\ y[Len(o)] = InternalCommit(x, top, from)
  /\ \A k \in 0 .. Len(o) : Stage(x, y[k], o, k, top, from)

LEMMA CommitHasStages ==
  ASSUME NEW x \in Working, Listed(x.surface), Forest(x.surface),
         NEW top \in Surfaces, NEW from \in {"pending", "cached"}
  PROVE  \E o, y : CommitStages(x, top, from, o, y)
<1> DEFINE o == CommitOrder(x, top, from)
           n == Len(o)
<1>1. x.surface \in [Surfaces -> SurfaceState]
  BY DEF Working
<1>2. GoodOrder(o, x, top, top, from)
  BY <1>1, CommitOrderGood
<1>3. o \in Seq(Events)
  BY <1>2 DEF GoodOrder, Proper
<1> HIDE DEF o
<1>4. PICK y : Stages(y, x, o)
  BY ZenonT(30), <1>3, FoldSteps
<1>5. y[n] = InternalCommit(x, top, from)
  BY <1>4 DEF InternalCommit, o, Stages
<1>6. n \in Nat
  BY <1>3
<1> DEFINE Good(k) == Stage(x, y[k], o, k, top, from)
           P == {k \in Nat : k <= n => Good(k)}
<1>7. 0 \in P
  <2>1. \A e : ~Reached(o, 0, e)
    BY DEF Reached
  <2>2. Progress(x, x, o, 0, top, from)
    BY <2>1, Zenon DEF Progress, Progressed, SameNode
  <2>3. y[0] = x
    BY <1>4 DEF Stages
  <2> QED
    BY <2>2, <2>3 DEF Stage
<1>8. ASSUME NEW k \in Nat, k \in P
      PROVE  k + 1 \in P
  <2> SUFFICES ASSUME k + 1 <= n
               PROVE  Good(k + 1)
    OBVIOUS
  <2> DEFINE j == k + 1
  <2>1. j \in 1 .. n /\ j - 1 = k /\ k <= n
    BY <1>6
  <2>2. Good(j - 1) /\ y[j] = Do(y[j - 1], o[j])
    BY <1>4, <1>8, <2>1 DEF Stages
  <2>3. o[j] \in Events
    BY <1>3, <2>1
  <2> HIDE DEF j
  <2>4. y[j] \in Working /\ Progress(x, y[j], o, j, top, from)
    BY <1>2, <2>1, <2>2, ProgressStep DEF Stage
  <2>5. x.waiting \subseteq x.reading => y[j].waiting \subseteq y[j].reading
    BY <2>2, <2>3, DoReading DEF Stage
  <2> QED
    BY <2>4, <2>5 DEF j, Stage
<1> HIDE DEF P
<1>9. \A k \in 0 .. n : Good(k)
  <2>1. \A k \in Nat : k \in P
    BY <1>7, <1>8, SetInduction
  <2>2. \A k \in 0 .. n : k \in Nat /\ k <= n
    BY <1>6
  <2> QED
    BY <2>1, <2>2 DEF P
<1>10. CommitStages(x, top, from, o, y)
  BY <1>2, <1>4, <1>5, <1>9 DEF CommitStages
<1> QED
  BY <1>10

\* What a commit makes of a surface p: applied if the state f was, freed if its
\* parent's was.
Outcome(p, q, f, applied, freed) ==
  Progressed(p, q, f, applied, applied, freed, freed)

LEMMA CommitOutcome ==
  ASSUME NEW x \in Working, Listed(x.surface), Forest(x.surface),
         NEW top \in Surfaces, NEW from \in {"pending", "cached"},
         NEW z, z = InternalCommit(x, top, from)
  PROVE  /\ z \in Working
         /\ x.waiting \subseteq x.reading => z.waiting \subseteq z.reading
         /\ \A s \in Surfaces :
              Outcome(x.surface[s], z.surface[s], From(s, top, from),
                      s \in Applied(x, top), x.surface[s].parent \in Applied(x, top))
<1>1. PICK o, y : CommitStages(x, top, from, o, y)
  BY CommitHasStages
<1> DEFINE n == Len(o)
<1>2. o \in Seq(Events) /\ n \in Nat /\ n \in 0 .. n
  BY <1>1 DEF CommitStages, GoodOrder, Proper
<1>3. /\ z \in Working /\ Progress(x, z, o, n, top, from)
      /\ x.waiting \subseteq x.reading => z.waiting \subseteq z.reading
  <2>1. Stage(x, z, o, n, top, from)
    BY <1>1, <1>2 DEF CommitStages
  <2> QED
    BY <2>1 DEF Stage
<1>4. \A e : Reached(o, n, e) <=> e \in ToSet(o)
  BY <1>2 DEF Reached, ToSet
<1>5. \A e : Reached(o, n, e) <=> e \in EventsOf(x, Applied(x, top), top, from)
  BY SMTT(30), <1>1, <1>4 DEF CommitStages, GoodOrder, AppliedEvents
<1>6. ASSUME NEW s \in Surfaces
      PROVE  Outcome(x.surface[s], z.surface[s], From(s, top, from),
                     s \in Applied(x, top), x.surface[s].parent \in Applied(x, top))
  <2> DEFINE f == From(s, top, from)
  <2>1. /\ Reached(o, n, Event("merge", s, f)) <=> s \in Applied(x, top)
        /\ Reached(o, n, Event("role", s, f)) <=> s \in Applied(x, top)
        /\ Reached(o, n, Event("applied", s, "cached")) <=> x.surface[s].parent \in Applied(x, top)
        /\ Reached(o, n, Event("insert", s, "cached")) <=> x.surface[s].parent \in Applied(x, top)
    BY <1>5 DEF EventsOf, Event
  <2>2. Progressed(x.surface[s], z.surface[s], f,
                   Reached(o, n, Event("merge", s, f)), Reached(o, n, Event("role", s, f)),
                   Reached(o, n, Event("applied", s, "cached")), Reached(o, n, Event("insert", s, "cached")))
    BY <1>3 DEF Progress
  <2> HIDE DEF f
  <2> QED
    BY <2>1, <2>2 DEF Outcome, Progressed, f
<1> QED
  BY <1>3, <1>6

LEMMA CommitKept ==
  ASSUME NEW x \in Working, Listed(x.surface), Forest(x.surface),
         NEW top \in Surfaces, NEW from \in {"pending", "cached"},
         from = "pending" => x.surface[top].cached.buffer = none,
         Kept(x, Committing(top, from)), NEW z, z = InternalCommit(x, top, from)
  PROVE  Kept(z, Committing(top, from)) /\ z.busy \subseteq x.busy
<1> DEFINE h == Committing(top, from)
<1>1. PICK o, y : CommitStages(x, top, from, o, y)
  BY CommitHasStages
<1> DEFINE n == Len(o)
           Good(k) == Kept(y[k], h) /\ y[k].busy \subseteq x.busy
           P == {k \in Nat : k <= n => Good(k)}
<1>2. n \in Nat /\ GoodOrder(o, x, top, top, from)
  BY <1>1 DEF CommitStages, GoodOrder, Proper
<1>3. 0 \in P
  <2>1. y[0] = x
    BY <1>1 DEF CommitStages, Stages
  <2> QED
    BY <2>1
<1>4. ASSUME NEW k \in Nat, k \in P
      PROVE  k + 1 \in P
  <2> SUFFICES ASSUME k + 1 <= n
               PROVE  Good(k + 1)
    OBVIOUS
  <2> DEFINE j == k + 1
  <2>1. j \in 1 .. n /\ j - 1 = k /\ j - 1 \in 0 .. n
    BY <1>2
  <2>2. Good(j - 1) /\ y[j] = Do(y[j - 1], o[j])
    BY <1>1, <1>4, <2>1 DEF CommitStages, Stages
  <2> HIDE DEF j
  <2>3. y[j - 1] \in Working /\ Progress(x, y[j - 1], o, j - 1, top, from)
    <3>1. Stage(x, y[j - 1], o, j - 1, top, from)
      BY <1>1, <2>1 DEF CommitStages
    <3> QED
      BY <3>1 DEF Stage
  <2>4. Kept(y[j], h) /\ y[j].busy \subseteq y[j - 1].busy
    BY <1>2, <2>1, <2>2, <2>3, ProgressKept
  <2> QED
    BY <2>2, <2>4 DEF j
<1> HIDE DEF P
<1>5. n \in P
  BY <1>2, <1>3, <1>4, SetInduction
<1>6. Good(n) /\ z = y[n]
  BY <1>1, <1>5, <1>2 DEF P, CommitStages
<1> QED
  BY <1>6

\* What is applied with top: what waited for a parent that is.
LEMMA AppliedAre ==
  ASSUME NEW x, x.surface \in [Surfaces -> SurfaceState], Listed(x.surface), Forest(x.surface),
         NEW top \in Surfaces
  PROVE  /\ x.surface[top].parent \notin Applied(x, top)
         /\ \A s \in Surfaces :
              s # top => (s \in Applied(x, top) <=>
                            x.surface[s].parent \in Applied(x, top) /\ x.surface[s].pending_commit)
<1> DEFINE next == Waiting(x)
<1>1. next \in [Surfaces -> SUBSET Surfaces]
  BY ChildrenAre
<1>2. \A u \in Surfaces : next[u] = {c \in Surfaces : x.surface[c].parent = u /\ x.surface[c].pending_commit}
  BY ChildrenAre DEF Waiting
<1> HIDE DEF next
<1>3. ASSUME NEW s \in Reach(next, top), s # top
      PROVE  x.surface[s].parent \in Reach(next, top) /\ x.surface[s].pending_commit
  <2>1. PICK u \in Reach(next, top) : s \in next[u]
    BY <1>1, <1>3, ReachFrom
  <2>2. u \in Surfaces
    BY <1>1, ReachLeast
  <2> QED
    BY <1>2, <2>1, <2>2
<1>4. ASSUME NEW s \in Surfaces, x.surface[s].parent \in Reach(next, top), x.surface[s].pending_commit
      PROVE  s \in Reach(next, top)
  <2>1. x.surface[s].parent \in Surfaces
    BY <1>1, <1>4, ReachLeast
  <2>2. s \in next[x.surface[s].parent]
    BY <1>2, <1>4, <2>1
  <2> QED
    BY <1>1, <1>4, <2>2, ReachLeast
<1>5. x.surface[top].parent \notin Reach(next, top)
  <2> SUFFICES ASSUME x.surface[top].parent \in Reach(next, top)
               PROVE  FALSE
    OBVIOUS
  <2>1. PICK n \in Nat : \E rank \in [Surfaces -> 0 .. n] : Ranked(x.surface, rank)
    BY DEF Forest
  <2>2. PICK rank \in [Surfaces -> 0 .. n] : Ranked(x.surface, rank)
    BY <2>1
  <2> DEFINE u == x.surface[top].parent
  <2>3. u \in Below(x, top)
    BY AppliedBelow DEF Applied, next
  <2>4. u \in Surfaces /\ (u = top \/ rank[u] < rank[top])
    BY <2>2, <2>3, BelowRank
  <2>5. rank[top] < rank[u]
    BY <2>2, <2>4, SurfacesAssumption DEF Ranked
  <2>6. rank[top] \in Nat /\ rank[u] \in Nat
    BY <2>4
  <2> QED
    BY <2>4, <2>5, <2>6
<1>6. \A s \in Reach(next, top) : s \in Surfaces
  BY <1>1, ReachLeast
<1> QED
  BY <1>3, <1>4, <1>5 DEF Applied, next

LEMMA SameTree ==
  ASSUME NEW sf \in [Surfaces -> SurfaceState], NEW tf, \A s \in Surfaces : SameNode(sf[s], tf[s])
  PROVE  /\ Listed(sf) => Listed(tf)
         /\ Forest(sf) => Forest(tf)
         /\ Synchronized(sf) => Synchronized(tf)
<1>1. Listed(sf) => Listed(tf)
  BY DEF Listed, SameNode
<1>2. Forest(sf) => Forest(tf)
  <2>1. \A rank : Ranked(sf, rank) => Ranked(tf, rank)
    BY DEF Ranked, SameNode
  <2>2. ASSUME NEW s \in Surfaces, Forest(sf), tf[s].parent # none
        PROVE  s # Root /\ tf[s].role
    BY <2>2 DEF Forest, SameNode
  <2> QED
    BY <2>1, <2>2 DEF Forest
<1>3. Synchronized(sf) => Synchronized(tf)
  <2> SUFFICES ASSUME Synchronized(sf), NEW s \in Surfaces
               PROVE  SyncAt(tf, s) /\ (tf[s].should_be_desync => tf[s].role)
    BY DEF Synchronized
  <2>1. sf[s].parent \in Surfaces \cup {none}
    BY DEF SurfaceState
  <2>2. sf[s].parent # none => tf[sf[s].parent].synchronous = sf[sf[s].parent].synchronous
    BY SMTT(30), <2>1 DEF SameNode
  <2> QED
    BY <2>2 DEF Synchronized, SyncAt, SameNode
<1> QED
  BY SMTT(30), <1>1, <1>2, <1>3

\* What a commit leaves, of the surface h in particular.
Leaves(x, z, h) ==
  /\ z \in Working /\ Kept(z, none) /\ z.busy \subseteq x.busy /\ States(z.surface)
  /\ \A s \in Surfaces :
       /\ SameNode(x.surface[s], z.surface[s])
       /\ s # h => /\ z.surface[s].pending = x.surface[s].pending
                   /\ LastCommit(z.surface, s) = LastCommit(x.surface, s)
       /\ s = h => z.surface[s].pending.buffer = none

LEMMA AfterCommit ==
  ASSUME NEW x \in Working, Listed(x.surface), Forest(x.surface), States(x.surface),
         NEW top \in Surfaces, NEW from \in {"pending", "cached"},
         from = "pending" => x.surface[top].cached.buffer = none /\ ~x.surface[top].pending_commit,
         from = "cached" => x.surface[top].pending_commit,
         Kept(x, Committing(top, from)), NEW z, z = InternalCommit(x, top, from)
  PROVE  Leaves(x, z, Committing(top, from))
<1> DEFINE A == Applied(x, top)
           h == Committing(top, from)
<1>1. x.surface \in [Surfaces -> SurfaceState]
  BY DEF Working
<1>2. /\ z \in Working /\ (x.waiting \subseteq x.reading => z.waiting \subseteq z.reading)
      /\ \A s \in Surfaces :
           Outcome(x.surface[s], z.surface[s], From(s, top, from), s \in A, x.surface[s].parent \in A)
  BY CommitOutcome
<1>0. Kept(z, h) /\ z.busy \subseteq x.busy
  BY CommitKept
<1>3. z.surface \in [Surfaces -> SurfaceState]
  BY <1>2 DEF Working
<1>4. /\ top \in A /\ x.surface[top].parent \notin A
      /\ \A s \in Surfaces : s # top => (s \in A <=> x.surface[s].parent \in A /\ x.surface[s].pending_commit)
  BY SMTT(30), <1>1, AppliedBelow, AppliedAre
<1> HIDE DEF A
<1>5. ASSUME NEW s \in Surfaces
      PROVE  /\ SameNode(x.surface[s], z.surface[s])
             /\ {z.surface[s].pending.buffer, z.surface[s].cached.buffer, z.surface[s].current}
                  \subseteq BuffersOf[s] \cup {none}
             /\ z.surface[s].pending.buffer # none => z.surface[s].pending.attached
             /\ z.surface[s].cached.buffer # none => z.surface[s].cached.attached /\ z.surface[s].pending_commit
             /\ z.surface[s].pending_commit => z.surface[s].role /\ s # Root
             /\ s # h => /\ z.surface[s].pending = x.surface[s].pending
                         /\ LastCommit(z.surface, s) = LastCommit(x.surface, s)
             /\ s = h => z.surface[s].pending.buffer = none
  <2> DEFINE p == x.surface[s]
             q == z.surface[s]
             f == From(s, top, from)
             applied == s \in A
             freed == p.parent \in A
  <2>1. p \in SurfaceState /\ q \in SurfaceState
    BY <1>1, <1>3
  <2>2. Outcome(p, q, f, applied, freed)
    BY <1>2
  <2>3. /\ {p.pending.buffer, p.cached.buffer, p.current} \subseteq BuffersOf[s] \cup {none}
        /\ p.pending.buffer # none => p.pending.attached
        /\ p.cached.buffer # none => p.cached.attached /\ p.pending_commit
        /\ p.pending_commit => p.role /\ s # Root
    BY SMTT(30) DEF States
  <2>4. /\ p.pending \in State /\ q.pending \in State
        /\ p.pending = [buffer |-> p.pending.buffer, attached |-> p.pending.attached]
        /\ q.pending = [buffer |-> q.pending.buffer, attached |-> q.pending.attached]
    BY <2>1 DEF SurfaceState, State
  <2>5. s # top => (applied <=> freed /\ p.pending_commit)
    BY <1>4
  <2>6. s = top => applied /\ ~freed
    BY <1>4
  <2>7. f = "pending" <=> s = top /\ from = "pending"
    BY DEF From
  <2>8. f = "cached" <=> ~(s = top /\ from = "pending")
    BY DEF From
  <2>9. s = h <=> s = top /\ from = "pending"
    BY SurfacesAssumption DEF Committing
  <2>10. /\ f = "pending" => p.cached.buffer = none /\ ~p.pending_commit
         /\ s = top /\ f = "cached" => p.pending_commit
    BY <2>7, <2>8
  <2>11. /\ LastCommit(x.surface, s) = IF p.role /\ p.pending_commit /\ p.cached.attached
                                       THEN p.cached.buffer ELSE p.current
         /\ LastCommit(z.surface, s) = IF q.role /\ q.pending_commit /\ q.cached.attached
                                       THEN q.cached.buffer ELSE q.current
    BY SMTT(30) DEF LastCommit, Waits
  <2> HIDE DEF p, q, f, applied, freed, h
  <2>12. CASE f = "pending"
    <3>1. s = h /\ s = top
      BY <2>7, <2>9, <2>12
    <3>2. applied /\ ~freed
      BY SMTT(30), <2>6, <3>1
    <3> QED
      BY <2>2, <2>3, <2>10, <2>12, <3>1, <3>2 DEF Outcome, Progressed, SameNode, p, q
  <2>13. CASE f = "cached"
    <3>1. s # h
      BY <2>8, <2>9, <2>13
    <3>2. applied => p.pending_commit
      BY <2>5, <2>10, <2>13
    <3>3. p.pending_commit /\ freed => applied
      BY <2>5, <2>6
    <3>4. /\ SameNode(p, q) /\ q.pending.buffer = p.pending.buffer
          /\ (q.pending.attached <=> p.pending.attached)
          /\ (q.pending_commit <=> p.pending_commit /\ ~freed)
      BY <2>2, <2>13 DEF Outcome, Progressed
    <3>5. q.pending = p.pending
      BY SMTT(30), <2>1, <2>4, <3>4 DEF State
    <3>6. CASE applied
      <4>1. /\ q.current = IF p.cached.attached THEN p.cached.buffer ELSE p.current
            /\ q.cached.buffer = IF p.cached.attached THEN none ELSE p.cached.buffer
            /\ ~q.cached.attached
        BY <2>2, <2>13, <3>6 DEF Outcome, Progressed
      <4>2. q.cached.buffer = none
        BY <2>3, <4>1
      <4>3. p.role
        BY <2>3, <3>2, <3>6
      <4>4. IF q.role /\ q.pending_commit /\ q.cached.attached THEN q.cached.buffer = q.current ELSE TRUE
        BY <4>1
      <4>5. LastCommit(z.surface, s) = LastCommit(x.surface, s)
        BY <2>11, <3>2, <3>6, <4>1, <4>3
      <4> QED
        BY <2>3, <3>1, <3>4, <3>5, <4>1, <4>2, <4>5 DEF SameNode, p, q
    <3>7. CASE ~applied
      <4>1. /\ q.current = p.current /\ q.cached.buffer = p.cached.buffer
            /\ (q.cached.attached <=> p.cached.attached)
        BY <2>2, <2>13, <3>7 DEF Outcome, Progressed
      <4>2. q.pending_commit <=> p.pending_commit
        BY <3>3, <3>4, <3>7
      <4>3. q.role = p.role
        BY <3>4 DEF SameNode
      <4>4. LastCommit(z.surface, s) = LastCommit(x.surface, s)
        BY <2>11, <4>1, <4>2, <4>3
      <4> QED
        BY <2>3, <3>1, <3>4, <3>5, <4>1, <4>2, <4>3, <4>4 DEF p, q
    <3> QED
      BY <3>6, <3>7
  <2>14. f \in {"pending", "cached"}
    BY DEF f, From
  <2> QED
    BY <2>12, <2>13, <2>14
<1>6. States(z.surface)
  BY <1>5 DEF States
<1>7. Kept(z, none)
  <2>1. \A t \in Surfaces : Held(z, t, none) \cup {none} = Held(z, t, h) \cup {none}
    <3> SUFFICES ASSUME NEW t \in Surfaces
                 PROVE  Held(z, t, none) \cup {none} = Held(z, t, h) \cup {none}
      OBVIOUS
    <3>1. t # none
      BY SurfacesAssumption
    <3>2. t = h => z.surface[t].pending.buffer = none
      BY SMTT(30), <1>5
    <3> HIDE DEF h
    <3> QED
      BY <3>1, <3>2 DEF Held
  <2> QED
    BY <1>0, <2>1, SameKept
<1> QED
  BY <1>0, <1>2, <1>5, <1>6, <1>7 DEF Leaves

-----------------------------------------------------------------------------
(* The commit of a client. *)

\* What holds once the pending buffer of s is busy.
Started(x, s) ==
  /\ x \in Working
  /\ Listed(x.surface) /\ Forest(x.surface) /\ Synchronized(x.surface) /\ States(x.surface)
  /\ Kept(x, s) /\ \A t \in Surfaces : t # s => OfferedAt(x, t)

LEMMA CommitStarted ==
  ASSUME NEW w, Sound(w), NEW s \in Surfaces, NEW x,
         x = [w EXCEPT !.busy = @ \cup ({w.surface[s].pending.buffer} \ {none})]
  PROVE  /\ Started(x, s) /\ x.surface = w.surface
         /\ x.surface[s].pending.buffer = LastCommit(x.surface, s)
            \/ x.surface[s].pending.buffer \notin {x.surface[s].current, x.surface[s].cached.buffer} \ {none}
<1> DEFINE b == w.surface[s].pending.buffer
           held == {w.surface[s].current, w.surface[s].cached.buffer}
<1>1. w \in Working /\ w.surface \in [Surfaces -> SurfaceState] /\ b \in Buffers \cup {none}
  BY DEF Sound, Tree, Contents, Working, SurfaceState, State
<1>2. /\ x \in Working /\ x.surface = w.surface /\ x.busy = w.busy \cup ({b} \ {none})
      /\ x.waiting = w.waiting /\ x.reading = w.reading
  BY <1>1 DEF Working
<1>3. b \in BuffersOf[s] \cup {none} /\ (b \in {none, LastCommit(w.surface, s)} \/ b \notin w.busy)
  BY DEF Sound, Tree, Contents, States, OfferedAt
<1>4. LastCommit(w.surface, s) \in held
  BY DEF LastCommit, Waits
<1>5. held \subseteq ((w.busy \ w.waiting) \cap BuffersOf[s]) \cup {none}
  <2>1. held \subseteq Held(w, s, none)
    BY DEF Held
  <2> QED
    BY <2>1 DEF Sound, Tree, Contents, Kept
<1> HIDE DEF b, held
<1>6. b \notin w.waiting \/ b = none
  BY SMTT(30), <1>3, <1>4, <1>5 DEF Sound, Tree, Contents, Kept
<1>7. Kept(x, s)
  <2>1. x.waiting \subseteq x.busy /\ x.waiting \subseteq x.reading
    BY <1>2 DEF Sound, Tree, Contents, Kept
  <2>2. ASSUME NEW t \in Surfaces
        PROVE  /\ Held(x, t, s) \subseteq ((x.busy \ x.waiting) \cap BuffersOf[t]) \cup {none}
               /\ x.surface[t].alive => BuffersOf[t] \cap x.busy \subseteq x.waiting \cup Held(x, t, s)
    <3>1. /\ Held(w, t, none) \subseteq ((w.busy \ w.waiting) \cap BuffersOf[t]) \cup {none}
          /\ w.surface[t].alive => BuffersOf[t] \cap w.busy \subseteq w.waiting \cup Held(w, t, none)
      BY DEF Sound, Tree, Contents, Kept
    <3>2. t # none
      BY SMTT(30), SurfacesAssumption
    <3>3. CASE t = s
      <4>1. Held(x, t, s) = Held(w, t, none) \cup {b}
        BY <1>2, <3>2, <3>3 DEF Held, b
      <4> QED
        BY SMTT(30), <1>2, <1>3, <1>6, <3>1, <3>3, <4>1
    <3>4. CASE t # s
      <4>1. Held(x, t, s) = Held(w, t, none)
        BY <1>2, <3>2, <3>4 DEF Held
      <4>2. b \notin BuffersOf[t]
        BY SMTT(30), <1>3, <3>4, SurfacesAssumption
      <4> QED
        BY <1>2, <3>1, <4>1, <4>2
    <3> QED
      BY SMTT(30), <3>3, <3>4
  <2> QED
    BY ZenonT(30), <2>1, <2>2 DEF Kept
<1>8. ASSUME NEW t \in Surfaces, t # s
      PROVE  OfferedAt(x, t)
  <2>1. b \notin BuffersOf[t]
    BY <1>3, <1>8, SurfacesAssumption
  <2> QED
    BY <1>2, <2>1 DEF Sound, Tree, Contents, OfferedAt
<1>9. b = LastCommit(x.surface, s) \/ b \notin held \ {none}
  BY <1>2, <1>3, <1>5
<1> QED
  BY <1>2, <1>7, <1>8, <1>9 DEF Sound, Tree, Contents, Started, b, held

LEMMA LastCommitSame ==
  ASSUME NEW sf, NEW tf, NEW s, tf[s] = sf[s]
  PROVE  LastCommit(tf, s) = LastCommit(sf, s)
BY DEF LastCommit, Waits

\* The commit of a synchronous subsurface.
Saved(x, s) == [SavePendingState(x, s) EXCEPT !.surface[s].pending_commit = TRUE]

\* All that a commit of a synchronous subsurface does to it.
Save(x, y, p, q) ==
  LET replaced == p.pending.attached /\ p.cached.buffer \notin {none, p.pending.buffer, p.current}
  IN /\ SameNode(p, q) /\ q.current = p.current /\ q.pending = InitState /\ q.pending_commit
     /\ q.cached = IF p.pending.attached THEN p.pending ELSE p.cached
     /\ replaced => Released(x, y, p.cached.buffer)
     /\ ~replaced => y.busy = x.busy /\ y.waiting = x.waiting

LEMMA SavedFields ==
  ASSUME NEW x \in Working, NEW s \in Surfaces, NEW y, y = Saved(x, s)
  PROVE  /\ y \in Working /\ Others(x, y, s) /\ y.reading = x.reading /\ y.frame = x.frame
         /\ Save(x, y, x.surface[s], y.surface[s])
<1> DEFINE p == x.surface[s]
           pending == p.pending
           cached == p.cached
           replaced == pending.attached /\ cached.buffer \notin {none, pending.buffer, p.current}
           r == IF replaced THEN DoRelease(x, s, cached.buffer) ELSE x
           new == IF pending.attached THEN pending ELSE cached
           q == [p EXCEPT !.cached = new, !.pending = InitState, !.pending_commit = TRUE]
<1>1. x \in Working /\ p \in SurfaceState /\ x.surface \in [Surfaces -> SurfaceState]
  BY SMTT(30) DEF Working
<1>2. /\ r \in Working /\ r.surface = x.surface /\ r.reading = x.reading /\ r.frame = x.frame /\ r.draw = x.draw
      /\ IF replaced THEN Released(x, r, cached.buffer) ELSE r.busy = x.busy /\ r.waiting = x.waiting
  <2>1. CASE replaced
    <3>1. cached.buffer \in Buffers
      BY SMTT(30), <1>1, <2>1 DEF SurfaceState, State
    <3> QED
      BY SMTT(30), <1>1, <2>1, <3>1, DoReleaseFields
  <2>2. CASE ~replaced
    BY <1>1, <2>2
  <2> QED
    BY ZenonT(30), <2>1, <2>2
<1>3. InitState \in State /\ InitState.buffer = none /\ ~InitState.attached
  BY DEF InitState, State
<1>4. new \in State /\ pending \in State /\ cached \in State
  BY <1>1 DEF SurfaceState
<1>5. SavePendingState(x, s) = [r EXCEPT !.surface[s].cached = new, !.surface[s].pending = InitState]
  BY DEF SavePendingState
<1> HIDE DEF r, new
<1>6. /\ q \in SurfaceState /\ SameNode(p, q) /\ q.current = p.current
      /\ q.cached = new /\ q.pending = InitState /\ q.pending_commit
  <2> HIDE DEF p
  <2> QED
    BY ZenonT(30), <1>1, <1>3, <1>4 DEF SurfaceState, SameNode
<1>7. y = [r EXCEPT !.surface = [x.surface EXCEPT ![s] = q]]
  <2> DEFINE half == [p EXCEPT !.cached = new, !.pending = InitState]
             saved == [r EXCEPT !.surface = [x.surface EXCEPT ![s] = half]]
  <2>1. SavePendingState(x, s) = saved
    BY ZenonT(30), <1>1, <1>2, <1>5
  <2>2. saved.surface = [x.surface EXCEPT ![s] = half] /\ saved.surface[s] = half
    BY ZenonT(30), <1>1, <1>2 DEF Working
  <2>3. y = [saved EXCEPT !.surface = [saved.surface EXCEPT ![s] = [half EXCEPT !.pending_commit = TRUE]]]
    BY ZenonT(30), <2>1, <2>2 DEF Saved
  <2>4. [half EXCEPT !.pending_commit = TRUE] = q
    OBVIOUS
  <2>5. [saved.surface EXCEPT ![s] = q] = [x.surface EXCEPT ![s] = q]
    BY <1>1, <2>2
  <2> HIDE DEF q, half
  <2>6. [saved EXCEPT !.surface = [x.surface EXCEPT ![s] = q]] = [r EXCEPT !.surface = [x.surface EXCEPT ![s] = q]]
    BY ZenonT(30), <1>2 DEF Working
  <2> QED
    BY ZenonT(30), <2>3, <2>4, <2>5, <2>6
<1> HIDE DEF q
<1>8. /\ y \in Working /\ Others(x, y, s) /\ y.surface[s] = q
      /\ y.busy = r.busy /\ y.waiting = r.waiting /\ y.reading = x.reading /\ y.frame = x.frame
  BY <1>1, <1>2, <1>6, <1>7 DEF Working, Others
<1>9. /\ replaced => Released(x, y, cached.buffer)
      /\ ~replaced => y.busy = x.busy /\ y.waiting = x.waiting
  BY <1>2, <1>8 DEF Released
<1>10. Save(x, y, p, y.surface[s])
  <2>1. SameNode(p, q) /\ q.current = p.current /\ q.pending = InitState /\ q.pending_commit /\ q.cached = new
    BY <1>6
  <2>2. new = IF p.pending.attached THEN p.pending ELSE p.cached
    BY DEF new
  <2> QED
    BY <1>8, <1>9, <2>1, <2>2 DEF Save
<1> QED
  BY SMTT(30), <1>8, <1>10

LEMMA InitStateIs ==
  InitState \in State /\ InitState.buffer = none /\ ~InitState.attached
BY DEF InitState, State

LEMMA SavedSound ==
  ASSUME NEW x, NEW s \in Surfaces, Started(x, s), x.surface[s].role, x.surface[s].synchronous,
         NEW y, y = Saved(x, s)
  PROVE  Sound(y)
<1> DEFINE p == x.surface[s]
           q == y.surface[s]
           pending == p.pending
           cached == p.cached
           replaced == pending.attached /\ cached.buffer \notin {none, pending.buffer, p.current}
<1>1. x \in Working /\ p \in SurfaceState /\ x.surface \in [Surfaces -> SurfaceState]
  BY DEF Started, Working
<1>2. y \in Working /\ Others(x, y, s) /\ y.reading = x.reading /\ Save(x, y, p, q)
  BY SMTT(30), <1>1, SavedFields
<1>3. /\ SameNode(p, q) /\ q.current = p.current /\ q.pending = InitState /\ q.pending_commit
      /\ q.cached = IF pending.attached THEN pending ELSE cached
  BY SMTT(30), <1>2 DEF Save
<1>4. /\ replaced => Released(x, y, cached.buffer)
      /\ ~replaced => y.busy = x.busy /\ y.waiting = x.waiting
  BY <1>2 DEF Save
<1>9. \A t \in Surfaces : SameNode(x.surface[t], y.surface[t])
  BY ZenonT(30), <1>2, <1>3 DEF Others, SameNode
<1>10. Listed(y.surface) /\ Forest(y.surface) /\ Synchronized(y.surface)
  BY <1>1, <1>9, SameTree DEF Started
<1>11. s # Root /\ p.role
  BY DEF Started, Synchronized, SyncAt
<1>12. /\ {pending.buffer, cached.buffer, p.current} \subseteq BuffersOf[s] \cup {none}
       /\ pending.buffer # none => pending.attached
       /\ cached.buffer # none => cached.attached
  BY DEF Started, States
<1>13. States(y.surface)
  <2>1. ASSUME NEW t \in Surfaces, t # s
        PROVE  y.surface[t] = x.surface[t]
    BY SMTT(30), <1>2, <2>1 DEF Others
  <2>2. /\ {q.pending.buffer, q.cached.buffer, q.current} \subseteq BuffersOf[s] \cup {none}
        /\ q.pending.buffer # none => q.pending.attached
        /\ q.cached.buffer # none => q.cached.attached /\ q.pending_commit
        /\ q.pending_commit => q.role /\ s # Root
    BY <1>3, <1>11, <1>12, InitStateIs DEF SameNode
  <2>3. States(x.surface)
    BY DEF Started
  <2> QED
    BY <2>1, <2>2, <2>3 DEF States
<1>14. q.cached.buffer = IF pending.attached THEN pending.buffer ELSE cached.buffer
  BY <1>3
<1>15. \A t \in Surfaces : y.surface[t].alive = x.surface[t].alive
  BY <1>9 DEF SameNode
<1>16. \A t \in Surfaces : t # s => Held(y, t, s) = Held(x, t, s)
  BY <1>2 DEF Others, Held
<1>17. /\ Held(x, s, s) = {p.current, cached.buffer, pending.buffer}
       /\ Held(y, s, s) = {p.current, q.cached.buffer, none}
  BY <1>3, InitStateIs DEF Held
<1>18. Kept(y, s) /\ y.busy \subseteq x.busy
  <2>0. Kept(x, s)
    BY DEF Started
  <2> HIDE DEF p, q, pending, cached
  <2>1. CASE replaced
    <3>1. Released(x, y, cached.buffer)
      BY <1>4, <2>1
    <3>2. cached.buffer \in BuffersOf[s] /\ cached.buffer \in x.busy \ x.waiting
      BY <1>17, <2>1 DEF Started, Kept
    <3>3. /\ cached.buffer \notin Held(y, s, s) /\ Held(y, s, s) \subseteq Held(x, s, s) \cup {none}
          /\ Held(x, s, s) \subseteq Held(y, s, s) \cup {cached.buffer, none}
      BY <1>14, <1>17, <2>1
    <3>4. Kept(y, s)
      BY <1>2, <1>15, <1>16, <2>0, <3>1, <3>2, <3>3, ReleaseKept
    <3> QED
      BY <3>1, <3>4 DEF Released
  <2>2. CASE ~replaced
    <3>1. y.busy = x.busy /\ y.waiting = x.waiting
      BY <1>4, <2>2
    <3>2. Held(y, s, s) \cup {none} = Held(x, s, s) \cup {none}
      BY <1>12, <1>14, <1>17, <2>2
    <3>3. Kept(y, s)
      <4>1. \A t \in Surfaces : Held(y, t, s) \cup {none} = Held(x, t, s) \cup {none}
        BY <1>16, <3>2
      <4> QED
        BY <1>2, <1>15, <2>0, <3>1, <4>1, SameKept
    <3> QED
      BY <3>1, <3>3
  <2> QED
    BY <2>1, <2>2
<1>19. Kept(y, none)
  <2>1. \A t \in Surfaces : t # none
    BY SurfacesAssumption
  <2>2. \A t \in Surfaces : Held(y, t, none) \cup {none} = Held(y, t, s) \cup {none}
    BY <1>3, <2>1, InitStateIs DEF Held
  <2> QED
    BY <1>18, <2>2, SameKept
<1>20. ASSUME NEW t \in Surfaces
       PROVE  OfferedAt(y, t)
  <2>1. CASE t = s
    BY <1>3, <2>1, InitStateIs DEF OfferedAt
  <2>2. CASE t # s
    <3>1. y.surface[t] = x.surface[t]
      BY <1>2, <2>2 DEF Others
    <3>2. LastCommit(y.surface, t) = LastCommit(x.surface, t)
      BY <3>1, LastCommitSame
    <3>3. OfferedAt(x, t)
      BY <2>2 DEF Started
    <3> QED
      BY <1>18, <3>1, <3>2, <3>3 DEF OfferedAt
  <2> QED
    BY <2>1, <2>2
<1> QED
  BY <1>2, <1>10, <1>13, <1>19, <1>20 DEF Sound, Tree, Contents, Kept

\* The cached state goes first.
LEMMA MergeCachedSound ==
  ASSUME NEW x, NEW s \in Surfaces, Started(x, s),
         x.surface[s].pending.buffer = LastCommit(x.surface, s)
         \/ x.surface[s].pending.buffer \notin {x.surface[s].current, x.surface[s].cached.buffer} \ {none},
         NEW y, y = MergeCachedState(x, s)
  PROVE  /\ Started(y, s) /\ y.surface[s].cached.buffer = none /\ ~y.surface[s].pending_commit
         /\ \A t \in Surfaces : SameNode(x.surface[t], y.surface[t])
<1> DEFINE p == x.surface[s]
           q == y.surface[s]
<1>1. x \in Working /\ p \in SurfaceState /\ x.surface \in [Surfaces -> SurfaceState]
  BY SMTT(30) DEF Started, Working
<1>2. /\ {p.pending.buffer, p.cached.buffer, p.current} \subseteq BuffersOf[s] \cup {none}
      /\ p.pending.buffer # none => p.pending.attached
      /\ p.cached.buffer # none => p.cached.attached /\ p.pending_commit
      /\ p.pending_commit => p.role /\ s # Root
  BY DEF Started, States
<1>3. CASE ~(p.role /\ p.pending_commit)
  <2>1. y = x
    BY SMTT(30), <1>3 DEF MergeCachedState
  <2>2. ~p.pending_commit /\ p.cached.buffer = none
    BY SMTT(30), <1>2, <1>3
  <2> QED
    BY SMTT(30), <2>1, <2>2 DEF SameNode
<1>4. CASE p.role /\ p.pending_commit
  <2> DEFINE m == Merge(x, s, "cached")
             o == m.surface[s]
             e == [m EXCEPT !.surface = [m.surface EXCEPT ![s] = [o EXCEPT !.pending_commit = FALSE]]]
  <2>1. y = e
    BY <1>4 DEF MergeCachedState
  <2>2. m \in Working /\ Others(x, m, s) /\ Merged(p, o, "cached")
    BY <1>1, MergeNode
  <2>3. /\ p.cached.attached /\ p.current # p.cached.buffer
        => p.pending.buffer = none \/ p.pending.buffer # p.current
    <3>1. p.cached.attached => LastCommit(x.surface, s) = p.cached.buffer
      BY SMTT(30), <1>4 DEF LastCommit, Waits
    <3> QED
      BY <3>1
  <2>4. Kept(m, s) /\ m.busy \subseteq x.busy
    BY <1>1, <2>3, MergeKept DEF Started
  <2> HIDE DEF m
  <2>5. o \in SurfaceState /\ m.surface \in [Surfaces -> SurfaceState]
    BY <2>2 DEF Working
  <2>6. /\ [o EXCEPT !.pending_commit = FALSE] \in SurfaceState
        /\ Flagged(o, [o EXCEPT !.pending_commit = FALSE], "applied")
    BY ZenonT(30), <2>5 DEF SurfaceState, Flagged, SameNode
  <2>7. /\ e \in Working /\ Others(m, e, s) /\ e.surface[s] = [o EXCEPT !.pending_commit = FALSE]
        /\ e.busy = m.busy /\ e.waiting = m.waiting /\ e.reading = m.reading
    BY ZenonT(30), <2>2, <2>5, <2>6 DEF Working, Others
  <2> HIDE DEF e
  <2>8. Flagged(o, q, "applied") /\ Others(m, y, s) /\ y \in Working
    BY <2>1, <2>6, <2>7
  <2>9. /\ SameNode(p, q) /\ ~q.pending_commit
        /\ q.pending.buffer = p.pending.buffer /\ q.pending.attached = p.pending.attached
        /\ q.cached.buffer = (IF p.cached.attached THEN none ELSE p.cached.buffer)
        /\ q.current = IF p.cached.attached THEN p.cached.buffer ELSE p.current
    <3> HIDE DEF p, q, o
    <3> QED
      BY SMTT(30), <2>2, <2>8 DEF Flagged, Merged, SameNode
  <2>10. q.cached.buffer = none
    BY <1>2, <2>9
  <2>11. \A t \in Surfaces : t # s => y.surface[t] = x.surface[t]
    BY <2>2, <2>8 DEF Others
  <2>12. \A t \in Surfaces : SameNode(x.surface[t], y.surface[t])
    BY <2>9, <2>11 DEF SameNode
  <2>13. Listed(y.surface) /\ Forest(y.surface) /\ Synchronized(y.surface)
    BY SMTT(30), <1>1, <2>12, SameTree DEF Started
  <2>14. States(y.surface)
    <3>1. States(x.surface)
      BY DEF Started
    <3>2. /\ {q.pending.buffer, q.cached.buffer, q.current} \subseteq BuffersOf[s] \cup {none}
          /\ q.pending.buffer # none => q.pending.attached
      BY <1>2, <2>9
    <3>3. q.cached.buffer = none /\ ~q.pending_commit
      BY <2>9, <2>10
    <3>4. q = y.surface[s]
      OBVIOUS
    <3> HIDE DEF p, q, o
    <3> SUFFICES ASSUME NEW t \in Surfaces
                 PROVE  /\ {y.surface[t].pending.buffer, y.surface[t].cached.buffer, y.surface[t].current}
                             \subseteq BuffersOf[t] \cup {none}
                        /\ y.surface[t].pending.buffer # none => y.surface[t].pending.attached
                        /\ y.surface[t].cached.buffer # none
                             => y.surface[t].cached.attached /\ y.surface[t].pending_commit
                        /\ y.surface[t].pending_commit => y.surface[t].role /\ t # Root
      BY Zenon DEF States
    <3>5. CASE t = s
      <4>1. y.surface[t] = q
        BY <3>4, <3>5
      <4> QED
        BY SMTT(30), <3>2, <3>3, <3>5, <4>1
    <3>6. CASE t # s
      <4>1. y.surface[t] = x.surface[t]
        BY <2>11, <3>6
      <4> QED
        BY <3>1, <4>1 DEF States
    <3> QED
      BY <3>5, <3>6
  <2>15. Kept(y, s)
    <3>1. o.alive = q.alive /\ o.current = q.current /\ o.cached = q.cached /\ o.pending = q.pending
      BY <2>8 DEF Flagged, SameNode
    <3>2. \A t \in Surfaces : y.surface[t].alive = m.surface[t].alive /\ Held(y, t, s) = Held(m, t, s)
      BY <2>8, <3>1 DEF Others, Held
    <3>3. y.busy = m.busy /\ y.waiting = m.waiting /\ y.reading = m.reading
      BY <2>1, <2>7
    <3> QED
      BY <2>4, <3>2, <3>3, SameKept
  <2>16. ASSUME NEW t \in Surfaces, t # s
         PROVE  OfferedAt(y, t)
    <3>1. y.surface[t] = x.surface[t] /\ y.busy \subseteq x.busy
      BY <2>1, <2>4, <2>7, <2>11, <2>16
    <3>2. LastCommit(y.surface, t) = LastCommit(x.surface, t)
      BY <3>1, LastCommitSame
    <3>3. OfferedAt(x, t)
      BY <2>16 DEF Started
    <3> QED
      BY <3>1, <3>2, <3>3 DEF OfferedAt
  <2> QED
    BY <2>8, <2>9, <2>10, <2>12, <2>13, <2>14, <2>15, <2>16 DEF Started
<1> QED
  BY <1>3, <1>4

LEMMA CommitSound ==
  ASSUME NEW w, Sound(w), NEW s \in Surfaces, NEW y,
         y = Commit([w EXCEPT !.busy = @ \cup ({w.surface[s].pending.buffer} \ {none})], s)
  PROVE  Sound(y)
<1> DEFINE x == [w EXCEPT !.busy = @ \cup ({w.surface[s].pending.buffer} \ {none})]
<1>1. /\ Started(x, s)
      /\ x.surface[s].pending.buffer = LastCommit(x.surface, s)
         \/ x.surface[s].pending.buffer \notin {x.surface[s].current, x.surface[s].cached.buffer} \ {none}
  BY CommitStarted
<1>2. y = Commit(x, s)
  BY SMTT(30)
<1> HIDE DEF x
<1>3. CASE x.surface[s].role /\ x.surface[s].synchronous
  <2>1. y = Saved(x, s)
    BY ZenonT(30), <1>2, <1>3 DEF Commit, Saved
  <2> QED
    BY SMTT(30), <1>1, <1>3, <2>1, SavedSound
<1>4. CASE ~(x.surface[s].role /\ x.surface[s].synchronous)
  <2> DEFINE m == MergeCachedState(x, s)
  <2>1. y = InternalCommit(m, s, "pending")
    BY ZenonT(30), <1>2, <1>4 DEF Commit
  <2>2. Started(m, s) /\ m.surface[s].cached.buffer = none /\ ~m.surface[s].pending_commit
    BY <1>1, MergeCachedSound
  <2> HIDE DEF m
  <2>3. Committing(s, "pending") = s
    BY DEF Committing
  <2>4. /\ m \in Working /\ Listed(m.surface) /\ Forest(m.surface) /\ Synchronized(m.surface)
        /\ States(m.surface) /\ Kept(m, s) /\ m.surface \in [Surfaces -> SurfaceState]
    BY <2>2 DEF Started, Working
  <2>5. Leaves(m, y, s)
    BY <2>1, <2>2, <2>3, <2>4, AfterCommit
  <2>6. Listed(y.surface) /\ Forest(y.surface) /\ Synchronized(y.surface)
    BY ZenonT(30), <2>4, <2>5, SameTree DEF Leaves
  <2>7. ASSUME NEW t \in Surfaces
        PROVE  OfferedAt(y, t)
    <3>1. CASE t = s
      BY ZenonT(30), <2>5, <3>1 DEF OfferedAt, Leaves
    <3>2. CASE t # s
      <4>1. OfferedAt(m, t)
        BY <2>2, <3>2 DEF Started
      <4> QED
        BY ZenonT(30), <2>5, <3>2, <4>1 DEF OfferedAt, Leaves
    <3> QED
      BY SMTT(30), <3>1, <3>2
  <2> QED
    BY ZenonT(30), <2>5, <2>6, <2>7 DEF Sound, Tree, Contents, Leaves, Kept
<1> QED
  BY SMTT(30), <1>3, <1>4

-----------------------------------------------------------------------------
(* The tree of surfaces, whatever happens to their buffers. *)

LEMMA TreeKept ==
  ASSUME NEW x, Tree(x), NEW y \in Working, y.waiting \subseteq y.reading,
         \A s \in Surfaces : SameNode(x.surface[s], y.surface[s])
  PROVE  Tree(y)
<1>1. x.surface \in [Surfaces -> SurfaceState]
  BY DEF Tree, Working
<1> QED
  BY <1>1, SameTree DEF Tree

LEMMA SavedTree ==
  ASSUME NEW x, Tree(x), NEW s \in Surfaces, NEW y, y = Saved(x, s)
  PROVE  Tree(y)
<1>1. y \in Working /\ Others(x, y, s) /\ y.reading = x.reading /\ Save(x, y, x.surface[s], y.surface[s])
  BY SavedFields DEF Tree
<1>2. \A t \in Surfaces : SameNode(x.surface[t], y.surface[t])
  BY SMTT(30), <1>1 DEF Others, SameNode, Save
<1>3. y.waiting \subseteq y.reading
  BY <1>1 DEF Save, Released, Tree
<1> QED
  BY <1>1, <1>2, <1>3, TreeKept

LEMMA MergeCachedTree ==
  ASSUME NEW x, Tree(x), NEW s \in Surfaces, NEW y, y = MergeCachedState(x, s)
  PROVE  Tree(y)
<1>1. CASE ~(x.surface[s].role /\ x.surface[s].pending_commit)
  BY <1>1 DEF MergeCachedState
<1>2. CASE x.surface[s].role /\ x.surface[s].pending_commit
  <2> DEFINE m == Merge(x, s, "cached")
             o == m.surface[s]
             q == [o EXCEPT !.pending_commit = FALSE]
  <2>1. m \in Working /\ Others(x, m, s) /\ Merged(x.surface[s], o, "cached")
    BY MergeNode DEF Tree
  <2>2. m.waiting \subseteq m.reading
    <3>1. Event("merge", s, "cached") \in Events
      BY DEF Event, Events
    <3>2. m = Do(x, Event("merge", s, "cached"))
      BY DEF Do, Event
    <3> HIDE DEF m
    <3> QED
      BY <3>1, <3>2, DoReading DEF Tree
  <2>3. y = [m EXCEPT !.surface = [m.surface EXCEPT ![s] = q]]
    BY <1>2 DEF MergeCachedState
  <2> HIDE DEF m
  <2>4. o \in SurfaceState /\ m.surface \in [Surfaces -> SurfaceState]
    BY <2>1 DEF Working
  <2>5. q \in SurfaceState /\ SameNode(o, q)
    BY ZenonT(30), <2>4 DEF SurfaceState, SameNode
  <2> HIDE DEF q
  <2>6. y \in Working /\ Others(m, y, s) /\ y.surface[s] = q /\ y.waiting = m.waiting /\ y.reading = m.reading
    BY <2>1, <2>3, <2>4, <2>5 DEF Working, Others
  <2>7. \A t \in Surfaces : SameNode(x.surface[t], y.surface[t])
    BY <2>1, <2>5, <2>6 DEF Others, SameNode, Merged
  <2> QED
    BY <2>2, <2>6, <2>7, TreeKept
<1> QED
  BY <1>1, <1>2

LEMMA InternalCommitTree ==
  ASSUME NEW x, Tree(x), NEW s \in Surfaces, NEW from \in {"pending", "cached"},
         NEW y, y = InternalCommit(x, s, from)
  PROVE  Tree(y)
<1>1. x \in Working /\ x.waiting \subseteq x.reading /\ Listed(x.surface) /\ Forest(x.surface)
  BY DEF Tree
<1>2. /\ y \in Working /\ y.waiting \subseteq y.reading
      /\ \A t \in Surfaces :
           Outcome(x.surface[t], y.surface[t], From(t, s, from), t \in Applied(x, s), x.surface[t].parent \in Applied(x, s))
  BY <1>1, CommitOutcome
<1>3. \A t \in Surfaces : SameNode(x.surface[t], y.surface[t])
  BY <1>2 DEF Outcome, Progressed
<1> QED
  BY <1>2, <1>3, TreeKept

LEMMA CommitTree ==
  ASSUME NEW x, Tree(x), NEW s \in Surfaces, NEW y, y = Commit(x, s)
  PROVE  Tree(y)
<1>1. CASE x.surface[s].role /\ x.surface[s].synchronous
  BY <1>1, SavedTree DEF Commit, Saved
<1>2. CASE ~(x.surface[s].role /\ x.surface[s].synchronous)
  <2> DEFINE m == MergeCachedState(x, s)
  <2>1. y = InternalCommit(m, s, "pending")
    BY <1>2 DEF Commit
  <2>2. Tree(m)
    BY MergeCachedTree
  <2> HIDE DEF m
  <2> QED
    BY <2>1, <2>2, InternalCommitTree
<1> QED
  BY <1>1, <1>2

=============================================================================
