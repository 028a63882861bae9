--------------------------- MODULE PruningProofs ----------------------------
(* What the path templates and the pruning of queries promise for every       *)
(* template, record and tree.                                                 *)
EXTENDS Pruning, SequenceTheorems, WellFoundedInduction, TLAPS

-----------------------------------------------------------------------------
(* Numbers, and folds over sequences                                        *)

LEMMA Induction ==
  ASSUME NEW n \in Nat, NEW S, 0 \in S, \A i \in 0 .. n - 1 : i \in S => i + 1 \in S
  PROVE  0 .. n \subseteq S
<1> DEFINE T == (0 .. n) \ S
           Less == OpToRel(<, Nat)
<1> SUFFICES ASSUME T # {} PROVE FALSE
  OBVIOUS
<1>1. T \subseteq Nat
  OBVIOUS
<1>2. PICK k \in T : \A i \in T : <<i, k>> \notin Less
  <2> HIDE DEF T, Less
  <2>1. IsWellFoundedOn(Less, Nat)
    BY NatLessThanWellFounded DEF Less
  <2> QED BY <1>1, <2>1, WFMin, Zenon
<1>3. \A i \in T : ~(i < k)
  BY <1>1, <1>2 DEF OpToRel
<1>4. k # 0 /\ k - 1 \in 0 .. n - 1
  OBVIOUS
<1> QED BY <1>3, <1>4

LEMMA MaxIs ==
  ASSUME NEW S \in SUBSET Nat, NEW m \in S, \A x \in S : m >= x
  PROVE  Max(S) = m
<1>1. \A x \in S : (\A y \in S : x >= y) => x = m
  OBVIOUS
<1> QED BY <1>1 DEF Max

LEMMA MaxIsIn ==
  ASSUME NEW n \in Nat, NEW S \in SUBSET (0 .. n), S # {}
  PROVE  Max(S) \in S /\ \A x \in S : x <= Max(S)
<1> DEFINE Gap == {n - x : x \in S}
           Less == OpToRel(<, Nat)
<1>1. Gap \subseteq Nat /\ Gap # {}
  <2>1. \A x \in S : n - x \in Nat
    OBVIOUS
  <2> QED BY <2>1
<1>2. PICK g \in Gap : \A h \in Gap : <<h, g>> \notin Less
  <2> HIDE DEF Gap, Less
  <2>1. IsWellFoundedOn(Less, Nat)
    BY NatLessThanWellFounded DEF Less
  <2> QED BY <1>1, <2>1, WFMin, Zenon
<1>3. \A h \in Gap : ~(h < g)
  BY <1>1, <1>2 DEF OpToRel
<1>4. PICK x \in S : g = n - x
  BY <1>2
<1>5. \A y \in S : x >= y
  BY <1>3, <1>4
<1> QED BY <1>5 DEF Max

\* The function that FoldLeft iterates, up to the m-th item
Iterate(f, m, S, g, a, s) ==
  /\ f \in [SUBSET (1 .. m) -> S]
  /\ \A u \in SUBSET (1 .. m) : f[u] = IF u = {} THEN a ELSE g[<<f[u \ {Max(u)}], s[Max(u)]>>]

LEMMA FoldExists ==
  ASSUME NEW S, NEW T, NEW g \in [S \X T -> S], NEW a \in S, NEW s \in Seq(T)
  PROVE  \E f : Iterate(f, Len(s), S, g, a, s)
<1> DEFINE n == Len(s)
           Iterates(f, m) == Iterate(f, m, S, g, a, s)
           Done == {m \in 0 .. n : \E f : Iterates(f, m)}
<1> USE DEF Iterate
<1>1. n \in Nat
  BY LenProperties
<1>2. \A i \in 1 .. n : s[i] \in T
  BY ElementOfSeq
<1> HIDE DEF n
<1>3. 0 \in Done
  <2> DEFINE f == [u \in SUBSET (1 .. 0) |-> a]
  <2>1. Iterates(f, 0)
    OBVIOUS
  <2> HIDE DEF f, Iterates, Iterate
  <2>2. \E h : Iterates(h, 0)
    BY <2>1
  <2> QED BY <1>1, <2>2
<1>4. ASSUME NEW i \in 0 .. n - 1, i \in Done PROVE i + 1 \in Done
  <2> DEFINE m == i + 1
  <2>1. m \in 1 .. n /\ i \in Nat
    BY <1>1
  <2>2. PICK f : Iterates(f, i)
    BY <1>4
  <2> DEFINE h == [u \in SUBSET (1 .. m) |-> IF m \in u THEN g[<<f[u \ {m}], s[m]>>] ELSE f[u]]
  <2>3. ASSUME NEW u \in SUBSET (1 .. m), m \in u
        PROVE  /\ Max(u) = m /\ u \ {m} \in SUBSET (1 .. i) /\ u \ {m} \in SUBSET (1 .. m)
               /\ m \notin u \ {m}
    <3>1. m \in u /\ \A x \in u : m >= x
      BY <2>1, <2>3
    <3>2. Max(u) = m
      BY <2>1, <3>1, MaxIs
    <3> QED BY <2>1, <3>2
  <2>4. ASSUME NEW u \in SUBSET (1 .. m), m \notin u
        PROVE  u \in SUBSET (1 .. i)
    BY <2>1, <2>4
  <2> HIDE DEF m
  <2>5. h \in [SUBSET (1 .. m) -> S]
    <3>1. ASSUME NEW u \in SUBSET (1 .. m), m \in u PROVE g[<<f[u \ {m}], s[m]>>] \in S
      <4>1. f[u \ {m}] \in S /\ s[m] \in T
        BY <1>2, <2>1, <2>2, <2>3, <3>1
      <4> QED BY <4>1
    <3>2. ASSUME NEW u \in SUBSET (1 .. m), m \notin u PROVE f[u] \in S
      BY <2>2, <2>4, <3>2
    <3> QED BY <3>1, <3>2
  <2>6. ASSUME NEW u \in SUBSET (1 .. m)
        PROVE  h[u] = IF u = {} THEN a ELSE g[<<h[u \ {Max(u)}], s[Max(u)]>>]
    <3>1. CASE m \in u
      <4>1. h[u \ {m}] = f[u \ {m}]
        BY <2>3, <3>1
      <4>2. h[u] = g[<<f[u \ {m}], s[m]>>]
        BY <3>1
      <4> HIDE DEF h
      <4> QED BY <2>3, <3>1, <4>1, <4>2
    <3>2. CASE m \notin u
      <4>1. u \in SUBSET (1 .. i) /\ h[u] = f[u]
        BY <2>4, <3>2
      <4>2. u \ {Max(u)} \in SUBSET (1 .. i) /\ u \ {Max(u)} \in SUBSET (1 .. m)
        BY <4>1
      <4>3. h[u \ {Max(u)}] = f[u \ {Max(u)}]
        BY <3>2, <4>2
      <4> HIDE DEF h
      <4> QED BY <2>2, <4>1, <4>3
    <3> QED BY <3>1, <3>2
  <2>7. Iterates(h, m)
    BY <2>5, <2>6
  <2>8. m \in 0 .. n
    BY <1>1, <2>1
  <2> QED BY <2>7, <2>8 DEF m
<1>5. n \in Done
  <2> HIDE DEF Done
  <2>1. 0 .. n \subseteq Done
    BY <1>1, <1>3, <1>4, Induction
  <2> QED BY <1>1, <2>1
<1> QED BY <1>5 DEF n

LEMMA Beginnings ==
  ASSUME NEW k \in Nat \ {0}
  PROVE  Max(1 .. k) = k /\ (1 .. k) \ {k} = 1 .. k - 1 /\ 1 .. k # {}
<1>1. 1 .. k \in SUBSET Nat /\ k \in 1 .. k /\ \A x \in 1 .. k : k >= x
  OBVIOUS
<1>2. Max(1 .. k) = k
  BY <1>1, MaxIs
<1> QED BY <1>1, <1>2

-----------------------------------------------------------------------------
(* Fields                                                                   *)

\* What a fold over the names of a field of a field builds, up to the m-th
Reading(f, m, v, names) ==
  f = [u \in SUBSET (1 .. m) |-> IF u = {} THEN v ELSE Field(f[u \ {Max(u)}], names[Max(u)])]

LEMMA ReadingExists ==
  ASSUME NEW v, NEW n \in Nat, NEW names
  PROVE  \E f : Reading(f, n, v, names)
<1> DEFINE Done == {m \in 0 .. n : \E f : Reading(f, m, v, names)}
<1>1. 0 \in Done
  <2> DEFINE f == [u \in SUBSET (1 .. 0) |-> v]
  <2>1. f = [u \in SUBSET (1 .. 0) |->
                IF u = {} THEN v ELSE Field(f[u \ {Max(u)}], names[Max(u)])]
    <3>1. \A u \in SUBSET (1 .. 0) : u = {}
      OBVIOUS
    <3> QED BY <3>1
  <2> HIDE DEF f
  <2>2. Reading(f, 0, v, names)
    BY <2>1, Zenon DEF Reading
  <2>3. 0 \in 0 .. n
    OBVIOUS
  <2> QED BY <2>2, <2>3, Zenon
<1>2. ASSUME NEW i \in 0 .. n - 1, i \in Done PROVE i + 1 \in Done
  <2> DEFINE m == i + 1
  <2>1. m \in 1 .. n /\ m \in 0 .. n /\ i \in Nat
    OBVIOUS
  <2>2. PICK f : Reading(f, i, v, names)
    BY <1>2
  <2> DEFINE h == [u \in SUBSET (1 .. m) |-> IF m \in u THEN Field(f[u \ {m}], names[m]) ELSE f[u]]
  <2>3. ASSUME NEW u \in SUBSET (1 .. m), m \in u
        PROVE  /\ Max(u) = m /\ u \ {m} \in SUBSET (1 .. i) /\ u \ {m} \in SUBSET (1 .. m)
               /\ m \notin u \ {m}
    <3>1. m \in u /\ \A x \in u : m >= x
      BY <2>1, <2>3
    <3>2. Max(u) = m
      BY <2>1, <3>1, MaxIs
    <3> QED BY <2>1, <3>2
  <2>4. ASSUME NEW u \in SUBSET (1 .. m), m \notin u
        PROVE  u \in SUBSET (1 .. i)
    BY <2>1, <2>4
  <2>5. ASSUME NEW u \in SUBSET (1 .. i)
        PROVE  f[u] = IF u = {} THEN v ELSE Field(f[u \ {Max(u)}], names[Max(u)])
    BY <2>2 DEF Reading
  <2> HIDE DEF m
  <2>6. ASSUME NEW u \in SUBSET (1 .. m)
        PROVE  h[u] = IF u = {} THEN v ELSE Field(h[u \ {Max(u)}], names[Max(u)])
    <3>1. CASE m \in u
      <4>1. h[u \ {m}] = f[u \ {m}]
        BY <2>3, <3>1
      <4>2. h[u] = Field(f[u \ {m}], names[m])
        BY <3>1
      <4> HIDE DEF h
      <4> QED BY <2>3, <3>1, <4>1, <4>2
    <3>2. CASE m \notin u
      <4>1. u \in SUBSET (1 .. i) /\ h[u] = f[u]
        BY <2>4, <3>2
      <4>2. u \ {Max(u)} \in SUBSET (1 .. i) /\ u \ {Max(u)} \in SUBSET (1 .. m)
        BY <4>1
      <4>3. h[u \ {Max(u)}] = f[u \ {Max(u)}]
        BY <3>2, <4>2
      <4> HIDE DEF h
      <4> QED BY <2>5, <4>1, <4>3
    <3> QED BY <3>1, <3>2
  <2>7. h = [u \in DOMAIN h |-> h[u]] /\ DOMAIN h = SUBSET (1 .. m)
    OBVIOUS
  <2> HIDE DEF h
  <2>8. Reading(h, m, v, names)
    BY <2>6, <2>7 DEF Reading
  <2> QED BY <2>1, <2>8, Zenon DEF m
<1>3. n \in Done
  <2> HIDE DEF Done
  <2>1. 0 .. n \subseteq Done
    BY <1>1, <1>2, Induction
  <2> QED BY <2>1
<1> QED BY <1>3

\* A field of a field is read name by name.
LEMMA DottedSteps ==
  ASSUME NEW v, NEW T, NEW names \in Seq(T)
  PROVE  \E h : /\ h[0] = v
                /\ \A i \in 1 .. Len(names) : h[i] = Field(h[i - 1], names[i])
                /\ Dotted(v, names) = h[Len(names)]
<1> DEFINE n == Len(names)
           Step(f) == [u \in SUBSET (1 .. n) |->
                         IF u = {} THEN v ELSE Field(f[u \ {Max(u)}], names[Max(u)])]
<1>1. n \in Nat /\ DOMAIN names = 1 .. n
  BY LenProperties
<1>2. \E f : f = Step(f)
  <2>1. \E f : Reading(f, n, v, names)
    BY <1>1, ReadingExists
  <2> QED BY <2>1, Zenon DEF Reading
<1> DEFINE iter == CHOOSE f : f = Step(f)
<1>3. iter = Step(iter)
  <2> HIDE DEF Step
  <2> QED BY <1>2
<1>4. Dotted(v, names) = iter[1 .. n]
  BY <1>1 DEF Dotted, FoldLeft, MapThenFoldSet
<1> HIDE DEF iter
<1>5. iter[1 .. 0] = v
  BY <1>3
<1>6. ASSUME NEW i \in 1 .. n
      PROVE  iter[1 .. i] = Field(iter[1 .. i - 1], names[i])
  <2>1. Max(1 .. i) = i /\ (1 .. i) \ {i} = 1 .. i - 1 /\ 1 .. i # {} /\ 1 .. i \in SUBSET (1 .. n)
    BY <1>1, Beginnings, SMTT(30)
  <2> QED BY <1>3, <2>1
<1> DEFINE h == [i \in 0 .. n |-> iter[1 .. i]]
<1>7. /\ h[0] = v /\ h[n] = iter[1 .. n]
      /\ \A i \in 1 .. n : h[i] = Field(h[i - 1], names[i])
  BY <1>1, <1>5, <1>6
<1> QED BY <1>4, <1>7

\* What a partial record says of a record: of each field nothing or the truth
Agrees(q, v) == \A k : Field(q, k) \in {Absent, Field(v, k)}

LEMMA FieldOfAbsent == \A k : Field(Absent, k) = Absent
BY DEF Field, IsTable, Absent

LEMMA DottedAgrees ==
  ASSUME NEW v, NEW q, Agrees(q, v),
         NEW T, NEW names \in Seq(T), names # <<>>
  PROVE  Dotted(q, names) \in {Absent, Dotted(v, names)}
<1> DEFINE n == Len(names)
<1>2. n \in Nat /\ n # 0
  BY LenProperties, EmptySeq
<1>3. PICK a : /\ a[0] = v
               /\ \A i \in 1 .. n : a[i] = Field(a[i - 1], names[i])
               /\ Dotted(v, names) = a[n]
  BY DottedSteps
<1>4. PICK b : /\ b[0] = q
               /\ \A i \in 1 .. n : b[i] = Field(b[i - 1], names[i])
               /\ Dotted(q, names) = b[n]
  BY DottedSteps
<1> HIDE DEF n
<1> DEFINE S == {i \in 0 .. n : i = 0 \/ b[i] \in {Absent, a[i]}}
<1>5. ASSUME NEW i \in 0 .. n - 1, i \in S PROVE i + 1 \in S
  <2>1. i + 1 \in 1 .. n /\ (i + 1) - 1 = i
    BY <1>2
  <2>2. a[i + 1] = Field(a[i], names[i + 1]) /\ b[i + 1] = Field(b[i], names[i + 1])
    BY <1>3, <1>4, <2>1
  <2>3. b[i + 1] \in {Absent, a[i + 1]}
    <3>1. CASE i = 0
      BY <1>3, <1>4, <2>2, <3>1 DEF Agrees
    <3>2. CASE i # 0
      <4>1. b[i] \in {Absent, a[i]}
        BY <1>5, <3>2
      <4> QED BY <2>2, <4>1, FieldOfAbsent
    <3> QED BY <3>1, <3>2
  <2> QED BY <2>1, <2>3
<1>6. n \in S
  <2>1. 0 \in S
    BY <1>2
  <2> HIDE DEF S
  <2>2. 0 .. n \subseteq S
    BY <1>2, <1>5, <2>1, Induction
  <2> QED BY <1>2, <2>2
<1> QED BY <1>2, <1>3, <1>4, <1>6

\* The first field decides a field of a field.
LEMMA DottedDepends ==
  ASSUME NEW v, NEW w,
         NEW T, NEW names \in Seq(T), names # <<>>, Field(v, names[1]) = Field(w, names[1])
  PROVE  Dotted(v, names) = Dotted(w, names)
<1> DEFINE n == Len(names)
<1>2. n \in Nat /\ n # 0
  BY LenProperties, EmptySeq
<1>3. PICK a : /\ a[0] = v
               /\ \A i \in 1 .. n : a[i] = Field(a[i - 1], names[i])
               /\ Dotted(v, names) = a[n]
  BY DottedSteps
<1>4. PICK b : /\ b[0] = w
               /\ \A i \in 1 .. n : b[i] = Field(b[i - 1], names[i])
               /\ Dotted(w, names) = b[n]
  BY DottedSteps
<1> HIDE DEF n
<1> DEFINE S == {i \in 0 .. n : i = 0 \/ b[i] = a[i]}
<1>5. ASSUME NEW i \in 0 .. n - 1, i \in S PROVE i + 1 \in S
  <2>1. i + 1 \in 1 .. n /\ (i + 1) - 1 = i
    BY <1>2
  <2>2. a[i + 1] = Field(a[i], names[i + 1]) /\ b[i + 1] = Field(b[i], names[i + 1])
    BY <1>3, <1>4, <2>1
  <2>3. b[i + 1] = a[i + 1]
    <3>1. CASE i = 0
      BY <1>3, <1>4, <2>2, <3>1
    <3>2. CASE i # 0
      BY <1>5, <2>2, <3>2
    <3> QED BY <3>1, <3>2
  <2> QED BY <2>1, <2>3
<1>6. n \in S
  <2>1. 0 \in S
    BY <1>2
  <2> HIDE DEF S
  <2>2. 0 .. n \subseteq S
    BY <1>2, <1>5, <2>1, Induction
  <2> QED BY <1>2, <2>2
<1> QED BY <1>2, <1>3, <1>4, <1>6

-----------------------------------------------------------------------------
(* Rendering                                                                *)

IsSeq(s) == \E S : s \in Seq(S)

\* A part as the parser makes it
Part(p) ==
  /\ p[1] \in {"lit", "field", "bucket", "expr"}
  /\ p[1] = "lit" => IsSeq(p[2])
  /\ p[1] = "bucket" => IsSeq(p[2]) /\ p[2] # <<>>

Renders(r) == r # Absent /\ ~Failed(r)

\* A part that renders under a record renders the same under what is known of
\* the record, or not at all.
LEMMA PartAgrees ==
  ASSUME NEW v, NEW q, Agrees(q, v), NEW p, Part(p),
         Renders(RenderPart(v, p, TRUE))
  PROVE  RenderPart(q, p, FALSE) \in {Absent, RenderPart(v, p, TRUE)}
<1>1. CASE p[1] = "lit"
  BY <1>1 DEF RenderPart
<1>2. CASE p[1] = "field"
  <2>1. RenderPart(v, p, TRUE) = PathText(Field(v, p[2])) /\ RenderPart(q, p, FALSE) = PathText(Field(q, p[2]))
    BY <1>2 DEF RenderPart
  <2>2. PathText(Absent) = Absent
    BY DEF PathText, Absent
  <2> QED BY <2>1, <2>2 DEF Agrees
<1>3. CASE p[1] = "bucket"
  <2> DEFINE dv == Dotted(v, p[2])
             dq == Dotted(q, p[2])
  <2>1. dq \in {Absent, dv}
    BY <1>3, DottedAgrees DEF Part, IsSeq
  <2>2. /\ RenderPart(v, p, TRUE) = UnitOf(BucketDate(dv), p[3], TRUE)
        /\ RenderPart(q, p, FALSE) = UnitOf(BucketDate(dq), p[3], FALSE)
    BY <1>3 DEF RenderPart, RenderBucket
  <2> HIDE DEF dv, dq
  <2>3. BucketDate(Absent) = Absent /\ UnitOf(Absent, p[3], FALSE) = Absent
    BY DEF BucketDate, UnitOf, Failed, Absent
  <2>4. CASE dq = dv
    <3> DEFINE d == BucketDate(dv)
    <3>1. Renders(UnitOf(d, p[3], TRUE))
      BY <2>2
    <3> HIDE DEF d
    <3>2. UnitOf(d, p[3], FALSE) = UnitOf(d, p[3], TRUE)
      BY <3>1 DEF UnitOf, Renders, Failed
    <3> QED BY <2>2, <2>4, <3>2 DEF d
  <2> QED BY <2>1, <2>2, <2>3, <2>4
<1>4. CASE p[1] = "expr"
  <2>1. RenderPart(v, p, TRUE) = RenderExpression(v, p) /\ RenderPart(q, p, FALSE) = RenderExpression(q, p)
    BY <1>4 DEF RenderPart
  <2>2. CASE Field(q, p[2]) = Absent
    <3>1. RenderExpression(q, p) = Absent
      <4>1. Absent[1] = "absent" /\ PathText(Absent) = Absent
        BY DEF PathText, Absent
      <4> QED BY <2>2, <4>1, ZenonT(30) DEF RenderExpression
    <3> QED BY <2>1, <3>1
  <2>3. CASE Field(q, p[2]) = Field(v, p[2])
    <3>1. RenderExpression(q, p) = RenderExpression(v, p)
      BY <2>3 DEF RenderExpression
    <3> QED BY <2>1, <3>1
  <2> QED BY <2>2, <2>3 DEF Agrees
<1> QED BY <1>1, <1>2, <1>3, <1>4 DEF Part

LEMMA MakesSequence ==
  ASSUME NEW n \in Nat, NEW S, NEW f, DOMAIN f = 1 .. n, f = [i \in DOMAIN f |-> f[i]],
         \A i \in 1 .. n : f[i] \in S
  PROVE  f \in Seq(S) /\ Len(f) = n
<1>1. f \in [1 .. n -> S]
  OBVIOUS
<1> QED BY <1>1

LEMMA MinIsIn ==
  ASSUME NEW S \in SUBSET Nat, S # {}
  PROVE  Min(S) \in S /\ \A x \in S : Min(S) <= x
<1> DEFINE Less == OpToRel(<, Nat)
<1>1. PICK m \in S : \A x \in S : <<x, m>> \notin Less
  <2>1. IsWellFoundedOn(Less, Nat)
    BY NatLessThanWellFounded
  <2> HIDE DEF Less
  <2> QED BY <2>1, WFMin, Zenon
<1>2. \A x \in S : ~(x < m)
  BY <1>1 DEF OpToRel
<1>3. \A x \in S : m <= x
  BY <1>2
<1> QED BY <1>3 DEF Min

\* What stops a joining: an item that is open or failed
Stops(r) == r = Absent \/ Failed(r)

LEMMA JoinedIs ==
  ASSUME NEW T, NEW parts \in Seq(T)
  PROVE  \/ \E i \in 1 .. Len(parts) : Stops(parts[i]) /\ Joined(parts) = parts[i]
         \/ /\ \A i \in 1 .. Len(parts) : ~Stops(parts[i])
            /\ Joined(parts) = <<"text", FlattenSeq([i \in 1 .. Len(parts) |-> parts[i][2]])>>
<1> DEFINE n == Len(parts)
           I == {i \in 1 .. n : parts[i] = Absent \/ Failed(parts[i])}
           stop == SelectInSeq(parts, LAMBDA r : r = Absent \/ Failed(r))
<1>1. n \in Nat /\ DOMAIN parts = 1 .. n
  BY LenProperties
<1>2. stop = IF I # {} THEN Min(I) ELSE 0
  BY DEF SelectInSeq
<1>3. Joined(parts) = IF stop # 0 THEN parts[stop]
                      ELSE <<"text", FlattenSeq([i \in 1 .. n |-> parts[i][2]])>>
  BY <1>1 DEF Joined
<1> HIDE DEF stop, n
<1>4. CASE I = {}
  <2>1. stop = 0
    BY <1>2, <1>4
  <2>2. \A i \in 1 .. n : ~Stops(parts[i])
    BY <1>4 DEF Stops
  <2> QED BY <1>3, <2>1, <2>2 DEF n
<1>5. CASE I # {}
  <2>1. I \in SUBSET Nat /\ 0 \notin I
    BY <1>1
  <2>2. stop \in I
    <3> HIDE DEF I
    <3>1. Min(I) \in I
      BY <1>5, <2>1, MinIsIn
    <3> QED BY <1>2, <1>5, <3>1
  <2>3. stop \in 1 .. n /\ stop # 0 /\ Stops(parts[stop])
    BY <1>1, <2>2 DEF Stops
  <2> QED BY <1>3, <2>3 DEF n
<1> QED BY <1>4, <1>5

LEMMA ComponentRenders ==
  ASSUME NEW T, NEW component \in Seq(T), NEW v, NEW strict,
         Renders(RenderComponent(v, component, strict))
  PROVE  /\ \A i \in 1 .. Len(component) : Renders(RenderPart(v, component[i], strict))
         /\ RenderComponent(v, component, strict) =
              <<"text", FlattenSeq([i \in 1 .. Len(component) |->
                                      RenderPart(v, component[i], strict)[2]])>>
<1> DEFINE n == Len(component)
           parts == [i \in 1 .. n |-> RenderPart(v, component[i], strict)]
           U == {RenderPart(v, component[i], strict) : i \in 1 .. n}
<1>1. n \in Nat /\ DOMAIN component = 1 .. n
  BY LenProperties
<1>2. parts \in Seq(U) /\ Len(parts) = n
  <2>1. \A i \in 1 .. n : parts[i] \in U
    OBVIOUS
  <2>2. DOMAIN parts = 1 .. n /\ parts = [i \in DOMAIN parts |-> parts[i]]
    OBVIOUS
  <2> HIDE DEF U, parts
  <2> QED BY <1>1, <2>1, <2>2, MakesSequence
<1>3. RenderComponent(v, component, strict) = Joined(parts)
  BY <1>1 DEF RenderComponent, RenderParts
<1>4. [i \in 1 .. n |-> parts[i][2]] = [i \in 1 .. n |-> RenderPart(v, component[i], strict)[2]]
  OBVIOUS
<1>5. \A i \in 1 .. n : parts[i] = RenderPart(v, component[i], strict)
  OBVIOUS
<1> HIDE DEF parts, U, n
<1>6. CASE \E i \in 1 .. n : Stops(parts[i]) /\ Joined(parts) = parts[i]
  BY <1>3, <1>6 DEF Renders, Stops
<1>7. CASE /\ \A i \in 1 .. n : ~Stops(parts[i])
           /\ Joined(parts) = <<"text", FlattenSeq([i \in 1 .. n |-> parts[i][2]])>>
  <2>1. \A i \in 1 .. n : Renders(RenderPart(v, component[i], strict))
    BY <1>5, <1>7 DEF Renders, Stops
  <2> QED BY <1>3, <1>4, <1>7, <2>1 DEF n
<1> QED BY <1>2, <1>6, <1>7, JoinedIs

\* A component that renders under a record renders the same under what is
\* known of the record, or not at all.
LEMMA ComponentAgrees ==
  ASSUME NEW v, NEW q, Agrees(q, v),
         NEW T, NEW component \in Seq(T), \A i \in 1 .. Len(component) : Part(component[i]),
         Renders(RenderComponent(v, component, TRUE))
  PROVE  RenderComponent(q, component, FALSE) \in {Absent, RenderComponent(v, component, TRUE)}
<1> DEFINE n == Len(component)
           parts == [i \in 1 .. n |-> RenderPart(q, component[i], FALSE)]
           U == {RenderPart(q, component[i], FALSE) : i \in 1 .. n}
<1>1. n \in Nat /\ DOMAIN component = 1 .. n
  BY LenProperties
<1>2. parts \in Seq(U) /\ Len(parts) = n
  <2>1. \A i \in 1 .. n : parts[i] \in U
    OBVIOUS
  <2>2. DOMAIN parts = 1 .. n /\ parts = [i \in DOMAIN parts |-> parts[i]]
    OBVIOUS
  <2> HIDE DEF U, parts
  <2> QED BY <1>1, <2>1, <2>2, MakesSequence
<1>3. RenderComponent(q, component, FALSE) = Joined(parts)
  BY <1>1 DEF RenderComponent, RenderParts
<1>4. /\ \A i \in 1 .. n : Renders(RenderPart(v, component[i], TRUE))
      /\ RenderComponent(v, component, TRUE) =
           <<"text", FlattenSeq([i \in 1 .. n |-> RenderPart(v, component[i], TRUE)[2]])>>
  BY ComponentRenders
<1>5. \A i \in 1 .. n : parts[i] \in {Absent, RenderPart(v, component[i], TRUE)}
  BY <1>4, PartAgrees
<1> HIDE DEF parts, U, n
<1>6. CASE \E i \in 1 .. n : Stops(parts[i]) /\ Joined(parts) = parts[i]
  <2>1. PICK i \in 1 .. n : Stops(parts[i]) /\ Joined(parts) = parts[i]
    BY <1>6
  <2>2. parts[i] = Absent
    BY <1>4, <1>5, <2>1 DEF Stops, Renders
  <2> QED BY <1>3, <2>1, <2>2
<1>7. CASE /\ \A i \in 1 .. n : ~Stops(parts[i])
           /\ Joined(parts) = <<"text", FlattenSeq([i \in 1 .. n |-> parts[i][2]])>>
  <2>1. \A i \in 1 .. n : parts[i] = RenderPart(v, component[i], TRUE)
    BY <1>5, <1>7 DEF Stops
  <2>2. [i \in 1 .. n |-> parts[i][2]] = [i \in 1 .. n |-> RenderPart(v, component[i], TRUE)[2]]
    BY <2>1
  <2> QED BY <1>3, <1>4, <1>7, <2>2
<1> QED BY <1>2, <1>6, <1>7, JoinedIs

-----------------------------------------------------------------------------
(* Texts and their names                                                    *)

\* What FlattenSeq builds, sequence by sequence
LEMMA FlattenSteps ==
  ASSUME NEW C, NEW seqs \in Seq(Seq(C))
  PROVE  \E h \in [0 .. Len(seqs) -> Seq(C)] :
            /\ h[0] = <<>>
            /\ \A i \in 1 .. Len(seqs) : h[i] = h[i - 1] \o seqs[i]
            /\ FlattenSeq(seqs) = h[Len(seqs)]
<1> DEFINE n == Len(seqs)
           g == [p \in Seq(C) \X Seq(C) |-> p[1] \o p[2]]
<1>1. n \in Nat /\ \A i \in 1 .. n : seqs[i] \in Seq(C)
  BY LenProperties, ElementOfSeq
<1>2. PICK f : Iterate(f, n, Seq(C), g, <<>>, seqs)
  <2>1. g \in [Seq(C) \X Seq(C) -> Seq(C)] /\ <<>> \in Seq(C)
    BY ConcatProperties
  <2> HIDE DEF g
  <2> QED BY <2>1, FoldExists
<1>3. \A s, t \in Seq(C) : g[<<s, t>>] = s \o t
  OBVIOUS
<1> HIDE DEF n, g
<1> DEFINE h == [i \in 0 .. n |-> f[1 .. i]]
<1>4. h \in [0 .. n -> Seq(C)] /\ h[0] = <<>> /\ \A i \in 1 .. n : h[i] = h[i - 1] \o seqs[i]
  <2>1. ASSUME NEW i \in 0 .. n PROVE f[1 .. i] \in Seq(C) /\ 1 .. i \in SUBSET (1 .. n)
    BY <1>1, <1>2 DEF Iterate
  <2>2. f[1 .. 0] = <<>>
    <3>1. 1 .. 0 = {} /\ {} \in SUBSET (1 .. n)
      OBVIOUS
    <3>2. f[{}] = <<>>
      BY <1>2, <3>1, Zenon DEF Iterate
    <3> QED BY <3>1, <3>2, Zenon
  <2>3. ASSUME NEW i \in 1 .. n PROVE f[1 .. i] = f[1 .. i - 1] \o seqs[i]
    <3>1. /\ Max(1 .. i) = i /\ (1 .. i) \ {i} = 1 .. i - 1 /\ 1 .. i # {}
          /\ 1 .. i \in SUBSET (1 .. n)
      BY <1>1, Beginnings, SMTT(30)
    <3>2. f[1 .. i] = g[<<f[1 .. i - 1], seqs[i]>>]
      BY <1>2, <3>1 DEF Iterate
    <3>3. i - 1 \in 0 .. n
      BY <1>1
    <3>4. f[1 .. i - 1] \in Seq(C) /\ seqs[i] \in Seq(C)
      BY <1>1, <2>1, <3>3
    <3> QED BY <1>3, <3>2, <3>4
  <2>4. \A i \in 0 .. n : h[i] = f[1 .. i]
    OBVIOUS
  <2>5. \A i \in 1 .. n : i \in 0 .. n /\ i - 1 \in 0 .. n
    BY <1>1
  <2>6. 0 \in 0 .. n
    BY <1>1
  <2>7. h \in [0 .. n -> Seq(C)]
    BY <2>1
  <2> HIDE DEF h
  <2>8. h[0] = <<>>
    BY <2>2, <2>4, <2>6, Zenon
  <2>9. \A i \in 1 .. n : h[i] = h[i - 1] \o seqs[i]
    BY <2>3, <2>4, <2>5, Zenon
  <2> QED BY <2>7, <2>8, <2>9
<1> HIDE DEF h
<1>5. CASE n = 0
  <2>1. FlattenSeq(seqs) = <<>>
    BY <1>5, EmptySeq DEF n, FlattenSeq
  <2> QED BY <1>4, <1>5, <2>1 DEF n
<1>6. CASE n # 0
  <2> DEFINE Flatten(k) == [i \in 1 .. n |-> IF i = 1 THEN seqs[i] ELSE k[i - 1] \o seqs[i]]
             flatten == CHOOSE k : k = Flatten(k)
  <2>1. \E k : k = Flatten(k)
    <3> DEFINE k == [i \in 1 .. n |-> h[i]]
    <3>1. ASSUME NEW i \in 1 .. n PROVE h[i] = IF i = 1 THEN seqs[i] ELSE k[i - 1] \o seqs[i]
      <4>1. CASE i = 1
        <5>1. h[1] = <<>> \o seqs[1]
          <6>1. 1 \in 1 .. n /\ 1 - 1 = 0
            BY <4>1
          <6> QED BY <1>4, <6>1, Zenon
        <5>2. <<>> \o seqs[1] = seqs[1]
          BY <1>1, <4>1, ConcatEmptySeq
        <5> QED BY <4>1, <5>1, <5>2
      <4>2. CASE i # 1
        <5>1. i - 1 \in 1 .. n
          BY <1>1, <4>2
        <5> QED BY <1>4, <4>2, <5>1
      <4> QED BY <4>1, <4>2
    <3>2. k = Flatten(k)
      BY <3>1
    <3> QED BY <3>2
  <2>2. flatten = Flatten(flatten)
    <3> HIDE DEF Flatten
    <3> QED BY <2>1
  <2>3. FlattenSeq(seqs) = flatten[n]
    BY <1>6 DEF FlattenSeq, n
  <2> HIDE DEF flatten
  <2> DEFINE S == {i \in 0 .. n : i = 0 \/ flatten[i] = h[i]}
  <2>4. ASSUME NEW i \in 0 .. n - 1, i \in S PROVE i + 1 \in S
    <3>1. i + 1 \in 1 .. n /\ (i + 1) - 1 = i
      BY <1>1
    <3>2. h[i + 1] = h[i] \o seqs[i + 1]
      BY <1>4, <3>1
    <3>3. CASE i = 0
      <4>1. flatten[1] = seqs[1]
        BY <2>2, <3>1, <3>3
      <4>2. h[1] = seqs[1]
        <5>1. 0 + 1 = 1 /\ 1 \in 1 .. n
          BY <3>1, <3>3
        <5>2. h[1] = <<>> \o seqs[1]
          BY <1>4, <3>2, <3>3, <5>1, Zenon
        <5> QED BY <1>1, <5>1, <5>2, ConcatEmptySeq, Zenon
      <4> QED BY <3>1, <3>3, <4>1, <4>2
    <3>4. CASE i # 0
      <4>1. flatten[i + 1] = flatten[i] \o seqs[i + 1]
        <5> DEFINE m == i + 1
        <5>1. m \in 1 .. n /\ m # 1 /\ m - 1 = i
          BY <1>1, <3>1, <3>4
        <5> HIDE DEF m
        <5>2. flatten[m] = flatten[m - 1] \o seqs[m]
          BY <2>2, <5>1, Zenon
        <5> QED BY <5>1, <5>2, Zenon DEF m
      <4>2. flatten[i] = h[i]
        BY <2>4, <3>4
      <4>3. flatten[i + 1] = h[i + 1]
        BY <3>2, <4>1, <4>2, Zenon
      <4> HIDE DEF flatten
      <4> QED BY <3>1, <4>3
    <3> QED BY <3>3, <3>4
  <2>5. n \in S
    <3>1. 0 \in S
      BY <1>1
    <3> HIDE DEF S
    <3>2. 0 .. n \subseteq S
      BY <1>1, <2>4, <3>1, Induction
    <3> QED BY <1>1, <3>2
  <2> QED BY <1>4, <1>6, <2>3, <2>5 DEF n
<1> QED BY <1>5, <1>6

LEMMA SymbolAdded ==
  ASSUME NEW C, NEW names \in Seq(Seq(C)), names # <<>>, NEW c \in C \cup {"/"}
  PROVE  /\ AddSymbol(names, c) \in Seq(Seq(C)) /\ AddSymbol(names, c) # <<>>
         /\ \A x \in Seq(C) : names = <<x>> /\ c # "/" => AddSymbol(names, c) = <<Append(x, c)>>
<1>1. Len(names) \in Nat /\ Len(names) # 0
  BY LenProperties, EmptySeq
<1>2. Last(names) \in Seq(C) /\ Front(names) \in Seq(Seq(C))
  BY <1>1 DEF Last, Front
<1>3. <<>> \in Seq(C) /\ (c # "/" => Append(Last(names), c) \in Seq(C))
  BY <1>2
<1>4. \A s \in Seq(Seq(C)), x \in Seq(C) : Append(s, x) \in Seq(Seq(C)) /\ Append(s, x) # <<>>
  <2> DEFINE Q == Seq(C)
  <2> HIDE DEF Q
  <2>1. ASSUME NEW s \in Seq(Q), NEW x \in Q PROVE Append(s, x) \in Seq(Q) /\ Append(s, x) # <<>>
    BY AppendProperties
  <2> QED BY <2>1 DEF Q
<1>5. AddSymbol(names, c) \in Seq(Seq(C)) /\ AddSymbol(names, c) # <<>>
  BY <1>2, <1>3, <1>4 DEF AddSymbol
<1>6. ASSUME NEW x \in Seq(C), names = <<x>>, c # "/"
      PROVE  AddSymbol(names, c) = <<Append(x, c)>>
  <2>1. Front(names) = <<>> /\ Last(names) = x
    BY <1>6 DEF Front, Last
  <2>2. AddSymbol(names, c) = Append(<<>>, Append(x, c))
    BY <1>6, <2>1, Zenon DEF AddSymbol
  <2> DEFINE y == Append(x, c)
  <2> HIDE DEF y
  <2>3. Append(<<>>, y) = <<y>>
    OBVIOUS
  <2> QED BY <2>2, <2>3 DEF y
<1> QED BY <1>5, <1>6

\* The names of a text, symbol by symbol
LEMMA NamesSteps ==
  ASSUME NEW C, NEW text \in Seq(C \cup {"/"})
  PROVE  \E h \in [0 .. Len(text) -> Seq(Seq(C)) \ {<<>>}] :
            /\ h[0] = << <<>> >>
            /\ \A i \in 1 .. Len(text) : h[i] = AddSymbol(h[i - 1], text[i])
            /\ Names(text) = h[Len(text)]
<1> DEFINE n == Len(text)
           S == Seq(Seq(C)) \ {<<>>}
           D == C \cup {"/"}
           Step(f) == [u \in SUBSET (1 .. n) |->
                         IF u = {} THEN << <<>> >> ELSE AddSymbol(f[u \ {Max(u)}], text[Max(u)])]
<1>1. n \in Nat /\ DOMAIN text = 1 .. n /\ (\A i \in 1 .. n : text[i] \in D) /\ text \in Seq(D)
  BY LenProperties, ElementOfSeq
<1>2. << <<>> >> \in S
  OBVIOUS
<1>3. \A names \in S, c \in D : AddSymbol(names, c) \in S
  BY SymbolAdded
<1>4. \E f : f = Step(f)
  <2> DEFINE g == [p \in S \X D |-> AddSymbol(p[1], p[2])]
  <2> HIDE DEF S, D, Step
  <2>1. g \in [S \X D -> S]
    BY <1>3
  <2>2. \A names \in S, c \in D : g[<<names, c>>] = AddSymbol(names, c)
    OBVIOUS
  <2> HIDE DEF g
  <2>3. PICK f : Iterate(f, n, S, g, << <<>> >>, text)
    BY <1>1, <1>2, <2>1, FoldExists
  <2>4. ASSUME NEW u \in SUBSET (1 .. n), u # {}
        PROVE  g[<<f[u \ {Max(u)}], text[Max(u)]>>] = AddSymbol(f[u \ {Max(u)}], text[Max(u)])
    <3>1. Max(u) \in u
      <4>1. u \in SUBSET (0 .. n)
        OBVIOUS
      <4> QED BY <1>1, <2>4, <4>1, MaxIsIn, Zenon
    <3>2. Max(u) \in 1 .. n
      BY <3>1
    <3>3. text[Max(u)] \in D
      BY <1>1, <3>2
    <3>4. f[u \ {Max(u)}] \in S
      BY <2>3 DEF Iterate
    <3> QED BY <2>2, <3>3, <3>4
  <2>5. f = Step(f)
    BY <2>3, <2>4 DEF Step, Iterate
  <2> QED BY <2>5
<1> DEFINE iter == CHOOSE f : f = Step(f)
<1>5. iter = Step(iter)
  <2> HIDE DEF Step
  <2> QED BY <1>4
<1>6. Names(text) = iter[1 .. n]
  BY <1>1 DEF Names, FoldLeft, MapThenFoldSet
<1> HIDE DEF iter
<1>7. iter[1 .. 0] = << <<>> >>
  BY <1>5
<1>8. ASSUME NEW i \in 1 .. n
      PROVE  iter[1 .. i] = AddSymbol(iter[1 .. i - 1], text[i])
  <2>1. Max(1 .. i) = i /\ (1 .. i) \ {i} = 1 .. i - 1 /\ 1 .. i # {} /\ 1 .. i \in SUBSET (1 .. n)
    BY <1>1, Beginnings, SMTT(30)
  <2> QED BY <1>5, <2>1
<1> DEFINE h == [i \in 0 .. n |-> iter[1 .. i]]
           Good == {i \in 0 .. n : h[i] \in S}
<1>9. /\ h[0] = << <<>> >> /\ h[n] = iter[1 .. n]
      /\ \A i \in 1 .. n : h[i] = AddSymbol(h[i - 1], text[i])
  BY <1>1, <1>7, <1>8
<1>10. DOMAIN h = 0 .. n /\ h = [i \in 0 .. n |-> h[i]]
  OBVIOUS
<1> HIDE DEF h, S, D
<1>11. \A i \in 0 .. n : h[i] \in S
  <2>1. 0 \in Good
    BY <1>1, <1>2, <1>9
  <2>2. ASSUME NEW i \in 0 .. n - 1, i \in Good PROVE i + 1 \in Good
    <3>1. i + 1 \in 1 .. n /\ (i + 1) - 1 = i
      BY <1>1
    <3>2. h[i + 1] = AddSymbol(h[i], text[i + 1])
      BY <1>9, <3>1
    <3>3. h[i] \in S /\ text[i + 1] \in D
      BY <1>1, <2>2, <3>1
    <3> QED BY <1>3, <3>1, <3>2, <3>3
  <2> HIDE DEF Good
  <2>3. 0 .. n \subseteq Good
    BY <1>1, <2>1, <2>2, Induction
  <2> QED BY <2>3 DEF Good
<1>12. h \in [0 .. n -> S]
  BY <1>10, <1>11
<1> QED BY <1>6, <1>9, <1>12 DEF S

LEMMA NamesAre ==
  ASSUME NEW C, NEW text \in Seq(C \cup {"/"})
  PROVE  Names(text) \in Seq(Seq(C)) /\ Names(text) # <<>>
<1>1. Len(text) \in Nat
  BY LenProperties
<1>2. Len(text) \in 0 .. Len(text)
  BY <1>1
<1>3. PICK h \in [0 .. Len(text) -> Seq(Seq(C)) \ {<<>>}] : Names(text) = h[Len(text)]
  BY NamesSteps, Zenon
<1> DEFINE S == Seq(Seq(C)) \ {<<>>}
<1>4. Names(text) \in S
  <2> HIDE DEF S
  <2>1. h \in [0 .. Len(text) -> S]
    BY DEF S
  <2> QED BY <1>2, <1>3, <2>1
<1> QED BY <1>4

\* A text without slashes is one name.
LEMMA NamesOfOne ==
  ASSUME NEW C, NEW text \in Seq(C), \A i \in 1 .. Len(text) : text[i] # "/"
  PROVE  Names(text) = <<text>>
<1> DEFINE n == Len(text)
<1>1. n \in Nat /\ \A i \in 1 .. n : text[i] \in C /\ text[i] # "/"
  BY LenProperties, ElementOfSeq
<1>2. PICK h \in [0 .. n -> Seq(Seq(C)) \ {<<>>}] :
            /\ h[0] = << <<>> >>
            /\ \A i \in 1 .. n : h[i] = AddSymbol(h[i - 1], text[i])
            /\ Names(text) = h[n]
  <2>1. text \in Seq(C \cup {"/"})
    BY SeqMonotonic
  <2> QED BY <2>1, NamesSteps
<1> HIDE DEF n
<1> DEFINE S == {i \in 0 .. n : h[i] = <<SubSeq(text, 1, i)>>}
<1>3. ASSUME NEW i \in 0 .. n - 1, i \in S PROVE i + 1 \in S
  <2> DEFINE m == i + 1
             x == SubSeq(text, 1, i)
  <2>1. m \in 1 .. n /\ m - 1 = i
    BY <1>1
  <2>2. h[m] = AddSymbol(h[i], text[m]) /\ h[i] = <<x>>
    BY <1>2, <1>3, <2>1
  <2>3. x \in Seq(C) /\ text[m] \in C
    BY <1>1, <2>1 DEF n
  <2>4. SubSeq(text, 1, m) = Append(x, text[m])
    BY <1>1, <2>1 DEF n
  <2> HIDE DEF x, m
  <2>5. h[m] = <<Append(x, text[m])>>
    <3>1. <<x>> \in Seq(Seq(C)) /\ <<x>> # <<>>
      BY <2>3
    <3>2. text[m] # "/"
      BY <1>1, <2>1
    <3>3. AddSymbol(<<x>>, text[m]) = <<Append(x, text[m])>>
      BY <2>3, <3>1, <3>2, SymbolAdded, ZenonT(60)
    <3> QED BY <2>2, <3>3, Zenon
  <2>6. m \in 0 .. n /\ h[m] = <<SubSeq(text, 1, m)>>
    <3>1. h[m] = <<SubSeq(text, 1, m)>>
      BY <2>4, <2>5, Zenon
    <3> QED BY <1>1, <2>1, <3>1
  <2> QED BY <2>6, Zenon DEF m
<1>4. n \in S
  <2>1. 0 \in S
    <3>1. SubSeq(text, 1, 0) = <<>>
      BY SubSeqEmpty
    <3>2. h[0] = <<SubSeq(text, 1, 0)>> /\ 0 \in 0 .. n
      BY <1>1, <1>2, <3>1
    <3> QED BY <3>2, Zenon
  <2> HIDE DEF S
  <2>2. 0 .. n \subseteq S
    BY <1>1, <1>3, <2>1, Induction
  <2> QED BY <1>1, <2>2
<1>5. SubSeq(text, 1, n) = text
  BY DEF n
<1> QED BY <1>2, <1>4, <1>5

-----------------------------------------------------------------------------
(* The path of a record                                                     *)

\* A record whose strings are sequences of symbols
Value(v) == \A k : Field(v, k)[1] = "string" => IsSeq(Field(v, k)[2])

LEMMA OneSymbol == \A x, y : IsSeq(<<x>>) /\ IsSeq(<<x, y>>)
<1> TAKE x, y
<1>1. <<x>> \in Seq({x}) /\ <<x, y>> \in Seq({x, y})
  OBVIOUS
<1> QED BY <1>1 DEF IsSeq

LEMMA PathTextIsText ==
  ASSUME NEW w, w[1] = "string" => IsSeq(w[2]), PathText(w) # Absent
  PROVE  IsSeq(PathText(w)[2])
<1>1. CASE w[1] = "string"
  <2>1. PathText(w) = w
    BY <1>1, Zenon DEF PathText
  <2> QED BY <1>1, <2>1
<1>2. CASE w[1] # "string"
  <2>1. \/ PathText(w) = <<"text", <<ToString(w[2])>> >>
        \/ PathText(w) = <<"text", <<ToString(w[2] \div 2)>> >>
        \/ PathText(w) = <<"text", <<ToString(w[2] \div 2), ".5">> >>
    <3>1. CASE w[1] = "integer"
      BY <3>1 DEF PathText
    <3>2. CASE w[1] = "float"
      BY <3>2 DEF PathText
    <3>3. CASE w[1] = "boolean"
      BY <3>3 DEF PathText
    <3>4. CASE w[1] \notin {"string", "integer", "float", "boolean"}
      <4>1. PathText(w) = Absent
        BY <3>4 DEF PathText
      <4> QED BY <4>1
    <3> QED BY <1>2, <3>1, <3>2, <3>3, <3>4
  <2>2. \A x : <<"text", x>>[2] = x
    OBVIOUS
  <2> QED BY <2>1, <2>2, OneSymbol, Zenon
<1> QED BY <1>1, <1>2

LEMMA UnitIsText == \A date, unit : IsSeq(RenderUnit(date, unit))
BY OneSymbol, Zenon DEF RenderUnit

LEMMA PartIsText ==
  ASSUME NEW v, Value(v), NEW strict, NEW p, Part(p), Renders(RenderPart(v, p, strict))
  PROVE  IsSeq(RenderPart(v, p, strict)[2])
<1>1. CASE p[1] = "lit"
  BY <1>1 DEF RenderPart, Part
<1>2. CASE p[1] = "field"
  <2>1. RenderPart(v, p, strict) = PathText(Field(v, p[2]))
    BY <1>2 DEF RenderPart
  <2> QED BY <2>1, PathTextIsText DEF Renders, Value
<1>3. CASE p[1] = "bucket"
  <2> DEFINE date == BucketDate(Dotted(v, p[2]))
  <2>1. RenderPart(v, p, strict) = UnitOf(date, p[3], strict)
    BY <1>3 DEF RenderPart, RenderBucket
  <2>2. date = Absent \/ date[1] = "date" \/ Failed(date)
    <3> DEFINE d == Dotted(v, p[2])
    <3> HIDE DEF d
    <3>1. CASE d = Absent
      <4>1. BucketDate(d) = Absent
        BY <3>1 DEF BucketDate, Absent
      <4> QED BY <4>1 DEF d
    <3>2. CASE d # Absent /\ d[1] = "datetime" /\ Kind(d) # "time"
      <4>1. BucketDate(d) = <<"date", DatePart(d)>>
        BY <3>2 DEF BucketDate
      <4> QED BY <4>1 DEF d
    <3>3. CASE d # Absent /\ d[1] = "string" /\ d[2] \in DOMAIN IsoDates
      <4>1. BucketDate(d) = <<"date", DatePart(IsoDates[d[2]])>>
        BY <3>3 DEF BucketDate
      <4> QED BY <4>1 DEF d
    <3>4. CASE /\ d # Absent
               /\ ~(d[1] = "datetime" /\ Kind(d) # "time")
               /\ ~(d[1] = "string" /\ d[2] \in DOMAIN IsoDates)
      <4>1. BucketDate(d) = Error("path_render_failed")
        BY <3>4 DEF BucketDate
      <4> QED BY <4>1 DEF d, Failed, Error
    <3> QED BY <3>1, <3>2, <3>3, <3>4
  <2> HIDE DEF date
  <2>3. CASE date[1] = "date"
    <3>1. UnitOf(date, p[3], strict) = <<"text", RenderUnit(date[2], p[3])>>
      <4>1. ~Failed(date)
        BY <2>3 DEF Failed
      <4> QED BY <2>3, <4>1, Zenon DEF UnitOf
    <3>2. \A x : <<"text", x>>[2] = x
      OBVIOUS
    <3> QED BY <2>1, <3>1, <3>2, UnitIsText, Zenon
  <2>4. CASE date[1] # "date"
    <3>1. UnitOf(date, p[3], strict) \in {date, Absent}
      <4>1. CASE Failed(date) /\ ~strict
        <5>1. UnitOf(date, p[3], strict) = Absent
          BY <2>4, <4>1, Zenon DEF UnitOf
        <5> QED BY <5>1
      <4>2. CASE ~(Failed(date) /\ ~strict)
        <5>1. UnitOf(date, p[3], strict) = date
          BY <2>4, <4>2, Zenon DEF UnitOf
        <5> QED BY <5>1
      <4> QED BY <4>1, <4>2
    <3> QED BY <2>1, <2>2, <2>4, <3>1 DEF Renders
  <2> QED BY <2>3, <2>4
<1>4. CASE p[1] = "expr"
  <2> DEFINE w == Field(v, p[2])
  <2>1. RenderPart(v, p, strict) = RenderExpression(v, p)
    BY <1>4 DEF RenderPart
  <2>2. w[1] = "string" => IsSeq(w[2])
    BY DEF Value
  <2>3. \/ RenderExpression(v, p) = Absent
        \/ RenderExpression(v, p) = <<"text", RenderUnit(DatePart(w), "year")>>
        \/ RenderExpression(v, p) = PathText(w)
        \/ RenderExpression(v, p) = Error("path_render_failed")
    <3>1. CASE w = Absent
      <4>1. Absent[1] = "absent" /\ PathText(Absent) = Absent
        BY DEF PathText, Absent
      <4> QED BY <3>1, <4>1, ZenonT(30) DEF RenderExpression
    <3>2. CASE w # Absent /\ w[1] = "datetime" /\ p[3] = "datetime"
      BY <3>2, Zenon DEF RenderExpression
    <3>3. CASE w # Absent /\ w[1] # "datetime" /\ w[1] = p[3]
      BY <3>3, Zenon DEF RenderExpression
    <3>4. CASE /\ w # Absent
               /\ ~(w[1] = "datetime" /\ p[3] = "datetime")
               /\ ~(w[1] # "datetime" /\ w[1] = p[3])
      BY <3>4, Zenon DEF RenderExpression
    <3> QED BY <3>1, <3>2, <3>3, <3>4
  <2> HIDE DEF w
  <2>4. Failed(Error("path_render_failed"))
    BY DEF Failed, Error
  <2>5. \/ RenderExpression(v, p) = <<"text", RenderUnit(DatePart(w), "year")>>
        \/ RenderExpression(v, p) = PathText(w) /\ PathText(w) # Absent
    BY <2>1, <2>3, <2>4 DEF Renders
  <2>6. \A x : <<"text", x>>[2] = x
    OBVIOUS
  <2>7. CASE RenderExpression(v, p) = <<"text", RenderUnit(DatePart(w), "year")>>
    BY <2>1, <2>6, <2>7, UnitIsText, Zenon
  <2>8. CASE RenderExpression(v, p) = PathText(w) /\ PathText(w) # Absent
    BY <2>1, <2>2, <2>8, PathTextIsText
  <2> QED BY <2>5, <2>7, <2>8
<1> QED BY <1>1, <1>2, <1>3, <1>4 DEF Part

LEMMA ComponentIsText ==
  ASSUME NEW v, Value(v), NEW strict,
         NEW T, NEW component \in Seq(T), \A i \in 1 .. Len(component) : Part(component[i]),
         Renders(RenderComponent(v, component, strict))
  PROVE  /\ IsSeq(RenderComponent(v, component, strict)[2])
         /\ RenderComponent(v, component, strict) = <<"text", RenderComponent(v, component, strict)[2]>>
<1> DEFINE n == Len(component)
           texts == [i \in 1 .. n |-> RenderPart(v, component[i], strict)[2]]
           C == UNION {Range(texts[i]) : i \in 1 .. n}
<1>1. n \in Nat
  BY LenProperties
<1>2. /\ \A i \in 1 .. n : Renders(RenderPart(v, component[i], strict))
      /\ RenderComponent(v, component, strict) = <<"text", FlattenSeq(texts)>>
  BY ComponentRenders
<1>3. \A i \in 1 .. n : IsSeq(texts[i])
  BY <1>2, PartIsText
<1>4. DOMAIN texts = 1 .. n /\ texts = [i \in DOMAIN texts |-> texts[i]]
  OBVIOUS
<1> HIDE DEF texts, n
<1>5. ASSUME NEW i \in 1 .. n PROVE texts[i] \in Seq(C)
  <2>1. PICK S : texts[i] \in Seq(S)
    BY <1>3 DEF IsSeq
  <2>2. texts[i] \in Seq(Range(texts[i]))
    BY <2>1, SeqOfRange
  <2>3. Range(texts[i]) \subseteq C
    OBVIOUS
  <2> HIDE DEF C
  <2> QED BY <2>2, <2>3, SeqMonotonic
<1> HIDE DEF C
<1>6. texts \in Seq(Seq(C)) /\ Len(texts) = n
  BY <1>1, <1>4, <1>5, MakesSequence
<1>7. FlattenSeq(texts) \in Seq(C)
  <2>1. PICK h \in [0 .. n -> Seq(C)] : FlattenSeq(texts) = h[n]
    BY <1>6, FlattenSteps
  <2> QED BY <1>1, <2>1
<1>8. \A x : <<"text", x>>[2] = x
  OBVIOUS
<1>9. IsSeq(FlattenSeq(texts))
  BY <1>7, Zenon DEF IsSeq
<1> QED BY <1>2, <1>8, <1>9, Zenon

LEMMA BatchIs ==
  ASSUME NEW T, NEW items \in Seq(T)
  PROVE  \/ \E i \in 1 .. Len(items) : Failed(items[i]) /\ Batch(items) = items[i]
         \/ (\A i \in 1 .. Len(items) : ~Failed(items[i])) /\ Batch(items) = <<"batch", items>>
<1> DEFINE n == Len(items)
           I == {i \in 1 .. n : Failed(items[i])}
           stop == FirstFailure(items)
<1>1. n \in Nat
  BY LenProperties
<1>2. stop = IF I # {} THEN Min(I) ELSE 0
  BY DEF FirstFailure, SelectInSeq
<1>3. Batch(items) = IF stop = 0 THEN <<"batch", items>> ELSE items[stop]
  BY DEF Batch, All
<1> HIDE DEF stop, n
<1>4. CASE I = {}
  <2>1. stop = 0
    BY <1>2, <1>4
  <2> QED BY <1>3, <1>4, <2>1 DEF n
<1>5. CASE I # {}
  <2>1. I \in SUBSET Nat /\ 0 \notin I
    BY <1>1
  <2>2. stop \in I
    <3> HIDE DEF I
    <3>1. Min(I) \in I
      BY <1>5, <2>1, MinIsIn
    <3> QED BY <1>2, <1>5, <3>1
  <2>3. stop \in 1 .. n /\ stop # 0 /\ Failed(items[stop])
    BY <1>1, <2>2
  <2> QED BY <1>3, <2>3 DEF n
<1> QED BY <1>4, <1>5

\* A template as the parser makes it
Compiled(template) ==
  /\ \E T : template \in Seq(Seq(T))
  /\ template # <<>>
  /\ \A i \in 1 .. Len(template) :
        template[i] # <<>> /\ \A j \in 1 .. Len(template[i]) : Part(template[i][j])
  /\ \A i \in 1 .. Len(template) - 1 : ~Recursive(template[i])

\* The text of each of a record's components
Texts(template, v) ==
  [i \in 1 .. Len(template) |-> RenderComponent(v, template[i], TRUE)[2]]

LEMMA ParsedIs ==
  ASSUME NEW template, Compiled(template)
  PROVE  /\ Len(template) \in Nat \ {0} /\ DOMAIN template = 1 .. Len(template)
         /\ \E T : \A i \in 1 .. Len(template) : template[i] \in Seq(T)
         /\ \A i \in 1 .. Len(template) : \A j \in 1 .. Len(template[i]) : Part(template[i][j])
<1>1. PICK T : template \in Seq(Seq(T))
  BY DEF Compiled
<1> DEFINE Q == Seq(T)
<1>2. Len(template) \in Nat \ {0} /\ DOMAIN template = 1 .. Len(template)
  <2> HIDE DEF Q
  <2>1. template \in Seq(Q) /\ template # <<>>
    BY <1>1 DEF Q, Compiled
  <2> QED BY <2>1, LenProperties, EmptySeq
<1>3. \A i \in 1 .. Len(template) : template[i] \in Seq(T)
  <2> HIDE DEF Q
  <2>1. template \in Seq(Q)
    BY <1>1 DEF Q
  <2>2. \A i \in 1 .. Len(template) : template[i] \in Q
    BY <2>1, ElementOfSeq
  <2> QED BY <2>2 DEF Q
<1> QED BY <1>2, <1>3 DEF Compiled

LEMMA RenderedTexts ==
  ASSUME NEW v, Value(v), NEW template, Compiled(template),
         ~Failed(Render(template, v))
  PROVE  /\ \A i \in 1 .. Len(template) :
               /\ Renders(RenderComponent(v, template[i], TRUE))
               /\ RenderComponent(v, template[i], TRUE) = <<"text", Texts(template, v)[i]>>
               /\ ~InvalidChars(Texts(template, v)[i], Recursive(template[i]))
               /\ IsSeq(Texts(template, v)[i])
         /\ Render(template, v) =
              <<"path", FlattenSeq([i \in 1 .. Len(template) |-> Names(Texts(template, v)[i])])>>
<1> DEFINE n == Len(template)
           rendered == [i \in 1 .. n |-> RenderComponent(v, template[i], TRUE)]
           items == [i \in 1 .. n |-> Checked(rendered[i], template[i])]
           U == {items[i] : i \in 1 .. n}
<1>1. n \in Nat /\ DOMAIN template = 1 .. n
  BY ParsedIs
<1>2. PICK T : \A i \in 1 .. n : template[i] \in Seq(T)
  BY ParsedIs
<1>3. \A i \in 1 .. n : \A j \in 1 .. Len(template[i]) : Part(template[i][j])
  BY ParsedIs
<1>4. items \in Seq(U) /\ Len(items) = n
  <2>1. DOMAIN items = 1 .. n /\ items = [i \in DOMAIN items |-> items[i]]
    OBVIOUS
  <2>2. \A i \in 1 .. n : items[i] \in U
    OBVIOUS
  <2> HIDE DEF items, U
  <2> QED BY <1>1, <2>1, <2>2, MakesSequence
<1>5. Render(template, v) =
        IF Failed(Batch(items)) THEN Batch(items)
        ELSE <<"path", FlattenSeq([i \in DOMAIN Batch(items)[2] |-> Names(Batch(items)[2][i][2])])>>
  BY <1>1 DEF Render, Then
<1>6. (\A i \in 1 .. n : ~Failed(items[i])) /\ Batch(items) = <<"batch", items>>
  <2> HIDE DEF items, U
  <2>1. ~Failed(Batch(items))
    BY <1>5
  <2> QED BY <1>4, <2>1, BatchIs
<1>7. ASSUME NEW i \in 1 .. n
      PROVE  /\ Renders(rendered[i]) /\ items[i] = rendered[i]
             /\ ~InvalidChars(rendered[i][2], Recursive(template[i]))
  <2> DEFINE x == rendered[i]
             y == template[i]
  <2>1. items[i] = Checked(x, y) /\ ~Failed(items[i])
    BY <1>6
  <2> HIDE DEF x, y, items, rendered
  <2>2. x # Absent
    <3> SUFFICES ASSUME x = Absent PROVE FALSE
      OBVIOUS
    <3>1. Checked(x, y) = Error("path_render_failed")
      BY Zenon DEF Checked
    <3> QED BY <2>1, <3>1 DEF Failed, Error
  <2>3. ~Failed(x)
    <3> SUFFICES ASSUME Failed(x) PROVE FALSE
      OBVIOUS
    <3>1. Checked(x, y) = x
      BY <2>2, Zenon DEF Checked
    <3> QED BY <2>1, <3>1
  <2>4. ~InvalidChars(x[2], Recursive(y))
    <3> SUFFICES ASSUME InvalidChars(x[2], Recursive(y)) PROVE FALSE
      OBVIOUS
    <3>1. Checked(x, y) = Error("path_invalid_chars")
      BY <2>2, <2>3, Zenon DEF Checked
    <3> QED BY <2>1, <3>1 DEF Failed, Error
  <2>5. Checked(x, y) = x
    BY <2>2, <2>3, <2>4, Zenon DEF Checked
  <2> QED BY <2>1, <2>2, <2>3, <2>4, <2>5 DEF Renders, x, y
<1>8. \A i \in 1 .. n : /\ rendered[i] = RenderComponent(v, template[i], TRUE)
                        /\ Texts(template, v)[i] = rendered[i][2]
  BY DEF Texts
<1>9. ASSUME NEW i \in 1 .. n
      PROVE  IsSeq(rendered[i][2]) /\ rendered[i] = <<"text", rendered[i][2]>>
  <2>1. rendered[i] = RenderComponent(v, template[i], TRUE) /\ Renders(rendered[i])
    BY <1>7, <1>8
  <2> HIDE DEF rendered
  <2>2. template[i] \in Seq(T) /\ \A j \in 1 .. Len(template[i]) : Part(template[i][j])
    BY <1>2, <1>3
  <2> QED BY <2>1, <2>2, ComponentIsText
<1>10. Render(template, v) = <<"path", FlattenSeq([i \in 1 .. n |-> Names(Texts(template, v)[i])])>>
  <2>1. DOMAIN items = 1 .. n
    OBVIOUS
  <2> HIDE DEF items, rendered
  <2>2. ~Failed(Batch(items))
    BY <1>5
  <2>3. Batch(items)[2] = items
    BY <1>6
  <2>4. Render(template, v) = <<"path", FlattenSeq([i \in 1 .. n |-> Names(items[i][2])])>>
    BY <1>5, <2>1, <2>2, <2>3, Zenon
  <2>5. \A i \in 1 .. n : items[i][2] = Texts(template, v)[i]
    BY <1>7, <1>8
  <2>6. [i \in 1 .. n |-> Names(items[i][2])] = [i \in 1 .. n |-> Names(Texts(template, v)[i])]
    BY <2>5
  <2> QED BY <2>4, <2>6, Zenon
<1> HIDE DEF items, rendered
<1> QED BY <1>7, <1>8, <1>9, <1>10

\* The path of texts: each but the last is one name of it, and the last one is
\* the names it stands for.
PathOf(texts, r) ==
  /\ IsSeq(r) /\ Len(texts) <= Len(r)
  /\ \A i \in 1 .. Len(texts) - 1 : Names(texts[i]) = <<texts[i]>> /\ r[i] = texts[i]
  /\ r = [i \in 1 .. Len(texts) - 1 |-> texts[i]] \o Names(texts[Len(texts)])
  /\ Names(texts[Len(texts)]) = <<texts[Len(texts)]>>
        => Len(r) = Len(texts) /\ r[Len(r)] = texts[Len(texts)]

LEMMA FlattenIsPath ==
  ASSUME NEW C, NEW n \in Nat \ {0}, NEW texts, DOMAIN texts = 1 .. n,
         texts = [i \in DOMAIN texts |-> texts[i]],
         \A i \in 1 .. n : texts[i] \in Seq(C),
         \A i \in 1 .. n - 1 : Names(texts[i]) = <<texts[i]>>
  PROVE  PathOf(texts, FlattenSeq([i \in 1 .. n |-> Names(texts[i])]))
<1> DEFINE N == Seq(C)
           named == [i \in 1 .. n |-> Names(texts[i])]
           r == FlattenSeq(named)
           x == [i \in 1 .. n - 1 |-> texts[i]]
           last == Names(texts[n])
<1>1. /\ \A i \in 1 .. n : Names(texts[i]) \in Seq(N) /\ Names(texts[i]) # <<>> /\ texts[i] \in N
      /\ texts \in Seq(N) /\ Len(texts) = n
  <2>1. \A i \in 1 .. n : Names(texts[i]) \in Seq(N) /\ Names(texts[i]) # <<>>
    <3>1. \A i \in 1 .. n : texts[i] \in Seq(C \cup {"/"})
      BY SeqMonotonic
    <3> QED BY <3>1, NamesAre, Zenon
  <2>2. \A i \in 1 .. n : texts[i] \in N
    OBVIOUS
  <2> HIDE DEF N
  <2>3. texts \in Seq(N) /\ Len(texts) = n
    BY <2>2, MakesSequence
  <2> QED BY <2>1, <2>2, <2>3
<1> HIDE DEF N
<1>2. named \in Seq(Seq(N)) /\ Len(named) = n
  <2> DEFINE Q == Seq(N)
  <2>1. DOMAIN named = 1 .. n /\ named = [i \in DOMAIN named |-> named[i]]
    OBVIOUS
  <2>2. \A i \in 1 .. n : named[i] \in Q
    BY <1>1
  <2> HIDE DEF Q, named
  <2>3. named \in Seq(Q) /\ Len(named) = n
    BY <2>1, <2>2, MakesSequence
  <2> QED BY <2>3 DEF Q
<1>3. \A i \in 1 .. n : named[i] = Names(texts[i])
  OBVIOUS
<1> HIDE DEF named
<1>4. PICK h \in [0 .. n -> Seq(N)] :
            /\ h[0] = <<>>
            /\ \A i \in 1 .. n : h[i] = h[i - 1] \o named[i]
            /\ r = h[n]
  BY <1>2, FlattenSteps
<1> HIDE DEF r
<1> DEFINE S == {i \in 0 .. n - 1 : h[i] = [j \in 1 .. i |-> texts[j]]}
<1>5. ASSUME NEW i \in 0 .. (n - 1) - 1, i \in S PROVE i + 1 \in S
  <2> DEFINE m == i + 1
             hi == h[i]
             t == texts[m]
  <2>1. m \in 1 .. n - 1 /\ m \in 1 .. n /\ m - 1 = i /\ i \in Nat
    OBVIOUS
  <2>2. h[m] = h[m - 1] \o named[m]
    BY <1>4, <2>1, Zenon
  <2>3. named[m] = <<t>>
    BY <1>3, <2>1
  <2>4. h[m] = hi \o <<t>>
    BY <2>1, <2>2, <2>3, Zenon
  <2>5. hi = [j \in 1 .. i |-> texts[j]]
    BY <1>5
  <2>6. t \in N /\ \A j \in 1 .. i : texts[j] \in N
    BY <1>1, <2>1
  <2>7. hi \in Seq(N) /\ Len(hi) = i
    BY <2>1, <2>5, <2>6
  <2>8. hi \o <<t>> = [j \in 1 .. m |-> IF j <= i THEN hi[j] ELSE t]
    <3> HIDE DEF hi, t, m
    <3>1. /\ hi \o <<t>> \in Seq(N) /\ Len(hi \o <<t>>) = i + 1
          /\ \A j \in 1 .. i + 1 : (hi \o <<t>>)[j] = IF j <= i THEN hi[j] ELSE t
      <4>1. <<t>> \in Seq(N) /\ Len(<<t>>) = 1 /\ <<t>>[1] = t
        BY <2>6
      <4> QED BY <2>1, <2>7, <4>1, ConcatProperties
    <3> QED BY <3>1, LenProperties DEF m
  <2>9. [j \in 1 .. m |-> IF j <= i THEN hi[j] ELSE t] = [j \in 1 .. m |-> texts[j]]
    <3>1. \A j \in 1 .. m : (IF j <= i THEN hi[j] ELSE t) = texts[j]
      BY <2>1, <2>5
    <3> HIDE DEF m, hi, t
    <3> QED BY <3>1, Zenon
  <2>10. m \in 0 .. n - 1 /\ h[m] = [j \in 1 .. m |-> texts[j]]
    <3>1. h[m] = [j \in 1 .. m |-> texts[j]]
      BY <2>4, <2>8, <2>9, Zenon
    <3> QED BY <2>1, <3>1
  <2> HIDE DEF hi, t
  <2> QED BY <2>10
<1>6. h[n - 1] = x
  <2>1. n - 1 \in Nat /\ 0 \in 0 .. n - 1
    OBVIOUS
  <2>2. 0 \in S
    <3>1. [j \in 1 .. 0 |-> texts[j]] = <<>>
      OBVIOUS
    <3> QED BY <1>4, <2>1, <3>1
  <2> HIDE DEF S
  <2>3. 0 .. n - 1 \subseteq S
    BY <1>5, <2>1, <2>2, Induction
  <2>4. n - 1 \in S
    BY <2>1, <2>3
  <2> QED BY <2>4 DEF S
<1>7. r = x \o last
  <2>1. n \in 1 .. n
    OBVIOUS
  <2> QED BY <1>3, <1>4, <1>6, <2>1, Zenon
<1>8. x \in Seq(N) /\ Len(x) = n - 1 /\ \A i \in 1 .. n - 1 : x[i] = texts[i]
  <2>1. n - 1 \in Nat /\ \A i \in 1 .. n - 1 : x[i] \in N
    BY <1>1
  <2>2. DOMAIN x = 1 .. n - 1 /\ x = [i \in DOMAIN x |-> x[i]] /\ \A i \in 1 .. n - 1 : x[i] = texts[i]
    OBVIOUS
  <2> HIDE DEF x
  <2> QED BY <2>1, <2>2, MakesSequence
<1>9. last \in Seq(N) /\ last # <<>> /\ Len(last) \in Nat \ {0}
  <2>1. last \in Seq(N) /\ last # <<>>
    BY <1>1
  <2> HIDE DEF last
  <2> QED BY <2>1, EmptySeq
<1> HIDE DEF x, last
<1>10. /\ r \in Seq(N) /\ Len(r) = (n - 1) + Len(last)
       /\ \A i \in 1 .. (n - 1) + Len(last) :
             r[i] = IF i <= n - 1 THEN x[i] ELSE last[i - (n - 1)]
  <2>1. /\ x \o last \in Seq(N) /\ Len(x \o last) = Len(x) + Len(last)
        /\ \A i \in 1 .. Len(x) + Len(last) :
              (x \o last)[i] = IF i <= Len(x) THEN x[i] ELSE last[i - Len(x)]
    BY <1>8, <1>9, ConcatProperties, Zenon
  <2> QED BY <1>7, <1>8, <2>1, Zenon
<1>11. IsSeq(r) /\ n <= Len(r) /\ \A i \in 1 .. n - 1 : r[i] = texts[i]
  BY <1>8, <1>9, <1>10 DEF IsSeq
<1>12. ASSUME last = <<texts[n]>>
       PROVE  Len(r) = n /\ r[n] = texts[n]
  <2>1. Len(last) = 1 /\ last[1] = texts[n]
    BY <1>12
  <2> HIDE DEF last
  <2> QED BY <1>10, <2>1
<1> QED BY <1>1, <1>7, <1>11, <1>12, Zenon DEF PathOf, x, last, r, named

-----------------------------------------------------------------------------
(* The plan                                                                 *)

\* What a template's plan says, each component what is known of the record's
\* text
Planned(template, q) ==
  [i \in 1 .. Len(template) |->
      [rendered |-> RenderComponent(q, template[i], FALSE), recursive |-> Recursive(template[i])]]

LEMMA PlanAgrees ==
  ASSUME NEW v, Value(v), NEW q, Agrees(q, v), NEW template, Compiled(template),
         ~Failed(Render(template, v))
  PROVE  /\ PlanQuery(template, q) = <<"plan", Planned(template, q)>>
         /\ \A i \in 1 .. Len(template) :
               Planned(template, q)[i].rendered \in {Absent, <<"text", Texts(template, v)[i]>>}
<1> DEFINE n == Len(template)
           items == [i \in 1 .. n |-> RenderComponent(q, template[i], FALSE)]
           U == {items[i] : i \in 1 .. n}
<1>1. n \in Nat /\ DOMAIN template = 1 .. n
  BY ParsedIs
<1>2. PICK T : \A i \in 1 .. n : template[i] \in Seq(T)
  BY ParsedIs
<1>3. \A i \in 1 .. n : \A j \in 1 .. Len(template[i]) : Part(template[i][j])
  BY ParsedIs
<1>4. items \in Seq(U) /\ Len(items) = n
  <2>1. DOMAIN items = 1 .. n /\ items = [i \in DOMAIN items |-> items[i]]
    OBVIOUS
  <2>2. \A i \in 1 .. n : items[i] \in U
    OBVIOUS
  <2> HIDE DEF items, U
  <2> QED BY <1>1, <2>1, <2>2, MakesSequence
<1>5. \A i \in 1 .. n : items[i] = RenderComponent(q, template[i], FALSE)
  OBVIOUS
<1> HIDE DEF items, U
<1>6. ASSUME NEW i \in 1 .. n PROVE items[i] \in {Absent, <<"text", Texts(template, v)[i]>>}
  <2>1. /\ Renders(RenderComponent(v, template[i], TRUE))
        /\ RenderComponent(v, template[i], TRUE) = <<"text", Texts(template, v)[i]>>
    BY RenderedTexts
  <2>2. template[i] \in Seq(T) /\ \A j \in 1 .. Len(template[i]) : Part(template[i][j])
    BY <1>2, <1>3
  <2>4. RenderComponent(q, template[i], FALSE) \in {Absent, RenderComponent(v, template[i], TRUE)}
    BY <2>1, <2>2, ComponentAgrees, Zenon
  <2> QED BY <1>5, <2>1, <2>4
<1>7. Batch(items) = <<"batch", items>>
  <2>1. \A i \in 1 .. n : ~Failed(items[i])
    <3>1. \A x : ~Failed(<<"text", x>>) /\ ~Failed(Absent)
      BY DEF Failed, Absent
    <3> QED BY <1>6, <3>1
  <2> QED BY <1>4, <2>1, BatchIs
<1>8. PlanQuery(template, q) =
        IF Failed(Batch(items)) THEN Batch(items)
        ELSE <<"plan", [i \in 1 .. n |-> [rendered |-> Batch(items)[2][i],
                                          recursive |-> Recursive(template[i])]]>>
  BY <1>1, Zenon DEF PlanQuery, Then, items
<1>9. PlanQuery(template, q) =
        <<"plan", [i \in 1 .. n |-> [rendered |-> items[i], recursive |-> Recursive(template[i])]]>>
  <2>1. ~Failed(<<"batch", items>>) /\ <<"batch", items>>[2] = items
    BY DEF Failed
  <2> QED BY <1>7, <1>8, <2>1, Zenon
<1>10. [i \in 1 .. n |-> [rendered |-> items[i], recursive |-> Recursive(template[i])]]
         = Planned(template, q)
  BY <1>5, Zenon DEF Planned
<1>11. \A i \in 1 .. n : Planned(template, q)[i].rendered = items[i]
  BY <1>5 DEF Planned
<1> QED BY <1>6, <1>9, <1>10, <1>11, Zenon

-----------------------------------------------------------------------------
(* The walk                                                                 *)

LEMMA FileIs ==
  ASSUME NEW r, IsSeq(r), Len(r) # 0, NEW ext
  PROVE  /\ Len(FileOf(r, ext)) = Len(r) /\ Len(r) \in Nat /\ IsSeq(FileOf(r, ext))
         /\ \A i \in 1 .. Len(r) - 1 : FileOf(r, ext)[i] = <<r[i], "">>
         /\ FileOf(r, ext)[Len(r)] = <<r[Len(r)], ext>>
         /\ IsRecordFile(FileOf(r, ext), ext)
         /\ StemsOf(FileOf(r, ext)) = r
<1> DEFINE n == Len(r)
           f == FileOf(r, ext)
           e == Exact(r)
           P == {<<r[i], "">> : i \in 1 .. n} \cup {<<r[n], ext>>}
<1>1. PICK N : r \in Seq(N)
  BY DEF IsSeq
<1>2. n \in Nat /\ n # 0 /\ DOMAIN r = 1 .. n /\ r = [i \in 1 .. n |-> r[i]]
  BY <1>1, LenProperties
<1>3. e \in Seq(P) /\ Len(e) = n /\ \A i \in 1 .. n : e[i] = <<r[i], "">>
  <2>1. DOMAIN e = 1 .. n /\ e = [i \in DOMAIN e |-> e[i]]
    BY <1>2 DEF Exact
  <2>2. \A i \in 1 .. n : e[i] = <<r[i], "">> /\ e[i] \in P
    BY <1>2 DEF Exact
  <2> HIDE DEF e, P
  <2> QED BY <1>2, <2>1, <2>2, MakesSequence
<1>4. f = Append(SubSeq(e, 1, n - 1), <<r[n], ext>>)
  BY <1>3 DEF FileOf, Front, Last
<1> DEFINE last == <<r[n], ext>>
<1>5. last \in P
  OBVIOUS
<1> HIDE DEF e, P, f, last, n
<1>6. SubSeq(e, 1, n - 1) \in Seq(P) /\ Len(SubSeq(e, 1, n - 1)) = n - 1
      /\ \A i \in 1 .. n - 1 : SubSeq(e, 1, n - 1)[i] = e[i]
  <2> DEFINE m == n - 1
  <2>1. m \in Nat /\ 1 \in Int /\ m \in Int /\ \A i \in 1 .. m : i \in 1 .. n /\ 1 + i - 1 = i
    BY <1>2
  <2>2. \A i \in 1 .. m : e[i] \in P
    BY <1>3, <2>1, ElementOfSeq
  <2>3. (IF 1 <= m THEN m - 1 + 1 ELSE 0) = m /\ m - 1 + 1 = m
    BY <2>1
  <2> HIDE DEF m
  <2>4. /\ SubSeq(e, 1, m) \in Seq(P)
        /\ Len(SubSeq(e, 1, m)) = IF 1 <= m THEN m - 1 + 1 ELSE 0
        /\ \A i \in 1 .. m - 1 + 1 : SubSeq(e, 1, m)[i] = e[1 + i - 1]
    BY <2>1, <2>2, SubSeqProperties
  <2> QED BY <2>1, <2>3, <2>4, Zenon DEF m
<1>7. /\ f \in Seq(P) /\ Len(f) = n /\ f[n] = last
      /\ \A i \in 1 .. n - 1 : f[i] = e[i]
  <2> DEFINE s == SubSeq(e, 1, n - 1)
  <2>1. f = Append(s, last)
    BY <1>4 DEF last
  <2> HIDE DEF s
  <2>2. s \in Seq(P) /\ Len(s) = n - 1 /\ \A i \in 1 .. n - 1 : s[i] = e[i]
    BY <1>6 DEF s
  <2>3. /\ f \in Seq(P) /\ Len(f) = Len(s) + 1 /\ f[Len(s) + 1] = last
        /\ \A i \in 1 .. Len(s) : f[i] = s[i]
    <3>1. s \in Seq(P)
      BY <2>2
    <3>2. /\ Append(s, last) \in Seq(P) /\ Len(Append(s, last)) = Len(s) + 1
          /\ Append(s, last)[Len(s) + 1] = last
          /\ \A i \in 1 .. Len(s) : Append(s, last)[i] = s[i]
      BY <1>5, <3>1, AppendProperties
    <3> QED BY <2>1, <3>2, Zenon
  <2>4. Len(s) + 1 = n
    BY <1>2, <2>2
  <2> QED BY <2>2, <2>3, <2>4, Zenon
<1>8. \A i \in 1 .. n - 1 : f[i] = <<r[i], "">>
  <2>1. \A i \in 1 .. n - 1 : i \in 1 .. n
    BY <1>2
  <2> QED BY <1>3, <1>7, <2>1, Zenon
<1>9. StemsOf(f) = r
  <2>1. \A i \in 1 .. n : f[i][1] = r[i]
    <3>1. f[n][1] = r[n]
      BY <1>7 DEF last
    <3>2. \A i \in 1 .. n - 1 : f[i][1] = r[i]
      <4>1. \A x : <<x, "">>[1] = x
        OBVIOUS
      <4> QED BY <1>8, <4>1, Zenon
    <3>3. \A i \in 1 .. n : i = n \/ i \in 1 .. n - 1
      BY <1>2
    <3> QED BY <3>1, <3>2, <3>3, Zenon
  <2>2. DOMAIN f = 1 .. n
    BY <1>7, LenProperties
  <2>3. StemsOf(f) = [i \in 1 .. n |-> f[i][1]]
    BY <2>2 DEF StemsOf
  <2>4. [i \in 1 .. n |-> f[i][1]] = [i \in 1 .. n |-> r[i]]
    BY <2>1
  <2> QED BY <1>2, <2>3, <2>4, Zenon
<1>10. IsRecordFile(f, ext)
  <2>1. f[n][2] = ext
    BY <1>7 DEF last
  <2> QED BY <1>7, <2>1 DEF IsRecordFile, Last
<1>11. IsSeq(f)
  BY <1>7 DEF IsSeq
<1> QED BY <1>2, <1>7, <1>8, <1>9, <1>10, <1>11, Zenon DEF f, n, last

\* The first names of a path, as a directory above the file
Start(r, k) == [i \in 1 .. k |-> r[i]]

LEMMA FileIsBelow ==
  ASSUME NEW files, NEW ext, NEW r, IsSeq(r), FileOf(r, ext) \in DOMAIN files,
         NEW k \in Nat, k < Len(r)
  PROVE  FileOf(r, ext) \in Below(files, Start(r, k))
<1> DEFINE n == Len(r)
           f == FileOf(r, ext)
           e == Exact(Start(r, k))
<1>1. n \in Nat
  BY LenProperties DEF IsSeq
<1>2. Len(f) = n /\ IsSeq(f) /\ \A i \in 1 .. n - 1 : f[i] = <<r[i], "">>
  <2>1. Len(r) # 0
    BY <1>1
  <2> QED BY <2>1, FileIs, Zenon
<1>3. DOMAIN e = 1 .. k /\ e = [i \in DOMAIN e |-> e[i]] /\ \A i \in 1 .. k : e[i] = <<r[i], "">>
  BY DEF Exact, Start
<1>10. k < n /\ \A i \in 1 .. k : i \in 1 .. n - 1
  BY <1>1
<1> DEFINE U == {e[i] : i \in 1 .. k}
<1> HIDE DEF e, f, n
<1>4. e \in Seq(U) /\ Len(e) = k
  <2>1. \A i \in 1 .. k : e[i] \in U
    OBVIOUS
  <2> HIDE DEF U
  <2> QED BY <1>3, <2>1, MakesSequence
<1>5. \A i \in 1 .. k : e[i] = f[i]
  BY <1>2, <1>3, <1>10, Zenon
<1> HIDE DEF U
<1>6. SubSeq(e, 1, k) = SubSeq(f, 1, k)
  BY <1>4, <1>5, Z3
<1>7. Len(e) # Len(f)
  <2>1. Len(e) = k /\ Len(f) = n
    BY <1>2, <1>4
  <2>2. k # n
    BY <1>1, <1>10
  <2> QED BY <2>1, <2>2, Zenon
<1>8. IsPrefix(e, f)
  <2>1. Len(e) = k /\ Len(f) = n
    BY <1>2, <1>4
  <2>2. k <= n
    BY <1>1, <1>10
  <2> QED BY <1>6, <2>1, <2>2, Zenon DEF IsPrefix
<1>9. IsStrictPrefix(e, f)
  BY <1>7, <1>8 DEF IsStrictPrefix
<1> QED BY <1>9 DEF Below, e, f

LEMMA ReachedSteps ==
  ASSUME NEW files, NEW plan, Len(plan) \in Nat \ {0}
  PROVE  \E a : /\ a[0] = {<<>>}
                /\ \A i \in 1 .. Len(plan) - 1 : a[i] = UNION {Onward(files, plan[i], d) : d \in a[i - 1]}
                /\ Reached(files, plan) = a[Len(plan) - 1]
<1> DEFINE m == Len(plan) - 1
           On(i, D) == UNION {Onward(files, plan[i], d) : d \in D}
           After(k, a) == [i \in 0 .. k |-> IF i = 0 THEN {<<>>} ELSE On(i, a[i - 1])]
           Done == {k \in 0 .. m : \E a : a = After(k, a)}
<1>1. m \in Nat
  OBVIOUS
<1>2. m \in Done
  <2> HIDE DEF m
  <2> HIDE DEF On
  <2>1. 0 \in Done
    <3> DEFINE a == [i \in 0 .. 0 |-> {<<>>}]
    <3>1. \A i \in 0 .. 0 : i = 0
      OBVIOUS
    <3>2. a = After(0, a)
      BY <3>1
    <3>3. 0 \in 0 .. m
      BY <1>1
    <3> HIDE DEF a, After
    <3> QED BY <3>2, <3>3
  <2>2. ASSUME NEW k \in 0 .. m - 1, k \in Done PROVE k + 1 \in Done
    <3>1. PICK a : a = After(k, a)
      BY <2>2
    <3> DEFINE b == [i \in 0 .. k + 1 |-> IF i \in 0 .. k THEN a[i] ELSE On(i, a[k])]
    <3>2. ASSUME NEW i \in 0 .. k + 1
          PROVE  b[i] = IF i = 0 THEN {<<>>} ELSE On(i, b[i - 1])
      <4>1. CASE i = 0
        <5>1. 0 \in 0 .. k
          BY <1>1
        <5> QED BY <3>1, <4>1, <5>1
      <4>2. CASE i # 0 /\ i \in 0 .. k
        <5>1. i - 1 \in 0 .. k /\ i - 1 \in 0 .. k + 1
          BY <1>1, <4>2
        <5>2. b[i] = a[i] /\ b[i - 1] = a[i - 1]
          BY <4>2, <5>1
        <5>3. a[i] = On(i, a[i - 1])
          BY <3>1, <4>2
        <5> HIDE DEF b
        <5> QED BY <4>2, <5>2, <5>3, Zenon
      <4>3. CASE i = k + 1
        <5>1. i # 0 /\ i \notin 0 .. k /\ i - 1 = k /\ k \in 0 .. k /\ k \in 0 .. k + 1
          BY <1>1, <4>3
        <5>2. b[i] = On(i, a[k]) /\ b[k] = a[k]
          BY <5>1
        <5> HIDE DEF b
        <5> QED BY <5>1, <5>2, Zenon
      <4>4. i = 0 \/ i \in 0 .. k \/ i = k + 1
        BY <1>1
      <4> QED BY <4>1, <4>2, <4>3, <4>4
    <3>3. b = After(k + 1, b)
      BY <3>2
    <3>4. k + 1 \in 0 .. m
      BY <1>1
    <3> HIDE DEF b, After
    <3> QED BY <3>3, <3>4
  <2> HIDE DEF Done
  <2>3. 0 .. m \subseteq Done
    BY <1>1, <2>1, <2>2, Induction
  <2> QED BY <1>1, <2>3
<1> DEFINE after == CHOOSE a : a = After(m, a)
<1>3. after = After(m, after)
  <2> HIDE DEF After
  <2> QED BY <1>2
<1>4. Reached(files, plan) = after[m]
  BY Zenon DEF Reached
<1> HIDE DEF after
<1>5. after[0] = {<<>>} /\ \A i \in 1 .. m : after[i] = On(i, after[i - 1])
  <2>1. 0 \in 0 .. m /\ \A i \in 1 .. m : i \in 0 .. m /\ i # 0
    BY <1>1
  <2> HIDE DEF m, On
  <2> QED BY <1>3, <2>1, Zenon
<1> QED BY <1>4, <1>5

LEMMA StartGrows ==
  ASSUME NEW r, IsSeq(r), NEW m \in 1 .. Len(r)
  PROVE  /\ Append(Start(r, m - 1), r[m]) = Start(r, m)
         /\ Start(r, m - 1) \o <<r[m]>> = Start(r, m)
         /\ Len(Start(r, m - 1)) = m - 1 /\ IsSeq(Start(r, m - 1))
<1>1. PICK N : r \in Seq(N)
  BY DEF IsSeq
<1> DEFINE k == m - 1
           s == Start(r, k)
           t == Start(r, m)
           x == r[m]
<1>2. Len(r) \in Nat /\ k \in Nat /\ m \in Nat /\ k + 1 = m
      /\ (\A i \in 1 .. k : i \in 1 .. Len(r)) /\ (\A i \in 1 .. m : i \in 1 .. Len(r))
  BY <1>1, LenProperties
<1>3. x \in N /\ \A i \in 1 .. Len(r) : r[i] \in N
  BY <1>1, ElementOfSeq
<1>4. s \in Seq(N) /\ Len(s) = k /\ \A i \in 1 .. k : s[i] = r[i]
  <2>1. DOMAIN s = 1 .. k /\ s = [i \in DOMAIN s |-> s[i]] /\ \A i \in 1 .. k : s[i] = r[i]
    BY DEF Start
  <2> HIDE DEF s, k
  <2> QED BY <1>2, <1>3, <2>1, MakesSequence
<1>5. t \in Seq(N) /\ Len(t) = m /\ \A i \in 1 .. m : t[i] = r[i]
  <2>1. DOMAIN t = 1 .. m /\ t = [i \in DOMAIN t |-> t[i]] /\ \A i \in 1 .. m : t[i] = r[i]
    BY DEF Start
  <2> HIDE DEF t
  <2> QED BY <1>2, <1>3, <2>1, MakesSequence
<1> HIDE DEF s, t, x
<1>6. Append(s, x) = t
  <2>1. /\ Append(s, x) \in Seq(N) /\ Len(Append(s, x)) = k + 1
        /\ \A i \in 1 .. k : Append(s, x)[i] = s[i]
        /\ Append(s, x)[k + 1] = x
    BY <1>3, <1>4, AppendProperties
  <2> DEFINE u == Append(s, x)
  <2> HIDE DEF u, k
  <2>2. \A i \in 1 .. m : u[i] = t[i]
    <3>1. \A i \in 1 .. m : i \in 1 .. k \/ i = k + 1
      BY <1>2
    <3>2. u[k + 1] = t[m]
      BY <1>2, <1>5, <2>1 DEF u, x
    <3> QED BY <1>2, <1>4, <1>5, <2>1, <3>1, <3>2 DEF u
  <2>3. u \in Seq(N) /\ Len(u) = m
    BY <1>2, <2>1 DEF u
  <2>4. u = t
    BY <1>5, <2>2, <2>3, SeqEqual
  <2> QED BY <2>4 DEF u
<1>7. s \o <<x>> = Append(s, x)
  BY <1>3, <1>4, AppendIsConcat
<1>8. IsSeq(s)
  BY <1>4 DEF IsSeq
<1> QED BY <1>4, <1>6, <1>7, <1>8, Zenon DEF s, t, x, k

\* What the walk needs to know of a plan
PlanOf(plan, texts) ==
  /\ Len(plan) = Len(texts) /\ Len(texts) \in Nat \ {0}
  /\ \A i \in 1 .. Len(texts) : plan[i].rendered \in {Absent, <<"text", texts[i]>>}

LEMMA OnwardFinds ==
  ASSUME NEW files, NEW ext, NEW texts, NEW r, PathOf(texts, r), FileOf(r, ext) \in DOMAIN files,
         NEW plan, PlanOf(plan, texts), NEW m \in 1 .. Len(texts) - 1
  PROVE  Start(r, m) \in Onward(files, plan[m], Start(r, m - 1))
<1> DEFINE d == Start(r, m - 1)
           f == FileOf(r, ext)
           comp == plan[m]
<1>1. IsSeq(r) /\ Len(texts) <= Len(r) /\ Len(r) \in Nat /\ Len(texts) \in Nat
  BY LenProperties DEF PathOf, IsSeq, PlanOf
<1>2. m \in 1 .. Len(r) /\ m - 1 \in Nat /\ m - 1 < Len(r) /\ m \in 1 .. Len(texts)
      /\ m \in 1 .. Len(r) - 1 /\ m - 1 + 1 = m /\ Len(r) > m /\ Len(r) # 0
  BY <1>1
<1>3. Names(texts[m]) = <<texts[m]>> /\ r[m] = texts[m]
  BY DEF PathOf
<1>4. comp.rendered \in {Absent, <<"text", texts[m]>>}
  BY <1>2 DEF PlanOf
<1>5. /\ Append(d, r[m]) = Start(r, m) /\ d \o <<r[m]>> = Start(r, m)
      /\ Len(d) = m - 1
  BY <1>1, <1>2, StartGrows
<1>6. f \in Below(files, d) /\ Len(f) = Len(r) /\ f[m] = <<r[m], "">>
  BY <1>1, <1>2, FileIsBelow, FileIs
<1> HIDE DEF d, f, comp
<1>7. CASE comp.rendered # Absent
  <2>1. comp.rendered = <<"text", texts[m]>>
    BY <1>4, <1>7
  <2>2. <<"text", texts[m]>>[2] = texts[m]
    OBVIOUS
  <2>3. d \o Names(comp.rendered[2]) = Start(r, m)
    BY <1>3, <1>5, <2>1, <2>2, Zenon
  <2> QED BY <1>7, <2>3, Zenon DEF Onward, d, comp
<1>8. CASE comp.rendered = Absent
  <2>1. f[Len(d) + 1][1] = r[m]
    <3>1. \A x : <<x, "">>[1] = x
      OBVIOUS
    <3> QED BY <1>2, <1>5, <1>6, <3>1, Zenon
  <2>2. Len(f) > Len(d) + 1
    BY <1>1, <1>2, <1>5, <1>6
  <2>3. r[m] \in Subtrees(files, d)
    BY <1>6, <2>1, <2>2, Zenon DEF Subtrees
  <2> QED BY <1>5, <1>8, <2>3, Zenon DEF Onward, d, comp
<1> QED BY <1>7, <1>8

LEMMA LeavesFind ==
  ASSUME NEW files, NEW ext, NEW texts, NEW r, PathOf(texts, r), FileOf(r, ext) \in DOMAIN files,
         NEW plan, PlanOf(plan, texts), NEW n, n = Len(texts),
         ~plan[n].recursive => Names(texts[n]) = <<texts[n]>>,
         plan[n].recursive =>
            \A g \in DOMAIN files : IsRecordFile(g, ext) => ~IsStrictPrefix(StemsOf(g), r)
  PROVE  r \in Leaves(files, plan[n], Start(r, n - 1), ext)
<1> DEFINE d == Start(r, n - 1)
           f == FileOf(r, ext)
           comp == plan[n]
<1>1. IsSeq(r) /\ n <= Len(r) /\ Len(r) \in Nat /\ n \in Nat \ {0}
  BY LenProperties DEF PathOf, IsSeq, PlanOf
<1>2. n \in 1 .. Len(r) /\ n - 1 \in Nat /\ n - 1 < Len(r) /\ n \in 1 .. n /\ n - 1 + 1 = n
      /\ Len(r) # 0
  BY <1>1
<1>3. comp.rendered \in {Absent, <<"text", texts[n]>>}
  BY <1>2 DEF PlanOf
<1>4. Len(d) = n - 1
  BY <1>1, <1>2, StartGrows
<1>5. /\ f \in Below(files, d) /\ Len(f) = Len(r) /\ IsRecordFile(f, ext) /\ StemsOf(f) = r
  BY <1>1, <1>2, FileIsBelow, FileIs
<1>6. r = d \o Names(texts[n])
  <2>1. \A i \in 1 .. n - 1 : r[i] = texts[i]
    BY DEF PathOf
  <2>2. d = [i \in 1 .. n - 1 |-> texts[i]]
    BY <2>1 DEF Start
  <2> QED BY <2>2, Zenon DEF PathOf
<1> HIDE DEF d, f, comp
<1>7. CASE comp.rendered # Absent
  <2>1. comp.rendered = <<"text", texts[n]>>
    BY <1>3, <1>7
  <2>2. <<"text", texts[n]>>[2] = texts[n]
    OBVIOUS
  <2>3. r = d \o Names(comp.rendered[2])
    BY <1>6, <2>1, <2>2, Zenon
  <2>4. Leaves(files, comp, d, ext) = NamedLeaf(files, d, comp.rendered[2], ext)
    BY <1>7, Zenon DEF Leaves
  <2>5. r \in NamedLeaf(files, d, comp.rendered[2], ext)
    BY <2>3 DEF NamedLeaf
  <2> QED BY <2>4, <2>5 DEF d, comp
<1>8. CASE comp.rendered = Absent /\ comp.recursive
  <2>1. Leaves(files, comp, d, ext) = RecordsBelow(files, d, ext)
    BY <1>8, Zenon DEF Leaves
  <2>2. \A g \in Below(files, d) : g \in DOMAIN files
    BY DEF Below
  <2>3. \A g \in DOMAIN files : IsRecordFile(g, ext) => ~IsStrictPrefix(StemsOf(g), r)
    BY <1>8 DEF comp
  <2>4. r \in RecordsBelow(files, d, ext)
    BY <1>5, <2>2, <2>3, Zenon DEF RecordsBelow
  <2> QED BY <2>1, <2>4 DEF d, comp
<1>9. CASE comp.rendered = Absent /\ ~comp.recursive
  <2>1. Leaves(files, comp, d, ext) = RecordsIn(files, d, ext)
    BY <1>9, Zenon DEF Leaves
  <2>2. Names(texts[n]) = <<texts[n]>>
    BY <1>9 DEF comp
  <2>3. Len(r) = n
    BY <2>2 DEF PathOf
  <2>4. Len(f) = Len(d) + 1
    BY <1>2, <1>4, <1>5, <2>3
  <2>5. r \in RecordsIn(files, d, ext)
    BY <1>5, <2>4, Zenon DEF RecordsIn
  <2> QED BY <2>1, <2>5 DEF d, comp
<1> QED BY <1>7, <1>8, <1>9

LEMMA WalkFinds ==
  ASSUME NEW files, NEW ext, NEW texts, NEW r, PathOf(texts, r), FileOf(r, ext) \in DOMAIN files,
         NEW plan, PlanOf(plan, texts), NEW n, n = Len(texts),
         ~plan[n].recursive => Names(texts[n]) = <<texts[n]>>,
         plan[n].recursive =>
            \A g \in DOMAIN files : IsRecordFile(g, ext) => ~IsStrictPrefix(StemsOf(g), r)
  PROVE  r \in Walk(files, plan, ext)
<1>1. Len(plan) = n /\ n \in Nat \ {0}
  BY DEF PlanOf
<1>2. PICK a : /\ a[0] = {<<>>}
               /\ \A i \in 1 .. n - 1 : a[i] = UNION {Onward(files, plan[i], d) : d \in a[i - 1]}
               /\ Reached(files, plan) = a[n - 1]
  <2>1. Len(plan) - 1 = n - 1 /\ Len(plan) \in Nat \ {0}
    BY <1>1
  <2>2. PICK a : /\ a[0] = {<<>>}
                 /\ \A i \in 1 .. Len(plan) - 1 :
                       a[i] = UNION {Onward(files, plan[i], d) : d \in a[i - 1]}
                 /\ Reached(files, plan) = a[Len(plan) - 1]
    BY <2>1, ReachedSteps
  <2> QED BY <2>1, <2>2, Zenon
<1> DEFINE S == {i \in 0 .. n - 1 : Start(r, i) \in a[i]}
<1>3. 0 \in S
  <2>1. Start(r, 0) = <<>>
    BY DEF Start
  <2> QED BY <1>1, <1>2, <2>1
<1>4. ASSUME NEW i \in 0 .. (n - 1) - 1, i \in S PROVE i + 1 \in S
  <2> DEFINE m == i + 1
  <2>1. m \in 1 .. Len(texts) - 1 /\ m \in 1 .. n - 1 /\ m - 1 = i /\ m \in 0 .. n - 1
    BY <1>1
  <2> HIDE DEF m
  <2>2. Start(r, m - 1) \in a[m - 1]
    BY <1>4, <2>1
  <2>3. Start(r, m) \in Onward(files, plan[m], Start(r, m - 1))
    BY <2>1, OnwardFinds
  <2>4. a[m] = UNION {Onward(files, plan[m], d) : d \in a[m - 1]}
    BY <1>2, <2>1
  <2>5. Start(r, m) \in a[m]
    BY <2>2, <2>3, <2>4, Zenon
  <2> QED BY <2>1, <2>5 DEF m
<1>5. Start(r, n - 1) \in Reached(files, plan)
  <2> HIDE DEF S
  <2>1. n - 1 \in Nat
    BY <1>1
  <2>2. 0 .. n - 1 \subseteq S
    BY <1>3, <1>4, <2>1, Induction
  <2> QED BY <1>2, <2>1, <2>2 DEF S
<1>6. r \in Leaves(files, Last(plan), Start(r, n - 1), ext)
  <2>1. Last(plan) = plan[n]
    BY <1>1 DEF Last
  <2> QED BY <2>1, LeavesFind
<1> QED BY <1>5, <1>6, Zenon DEF Walk

-----------------------------------------------------------------------------
(* What a filter leaves unknown                                             *)



\* A record that a filter holds of has what the filter knows of it.
LEMMA MatchingAgrees ==
  ASSUME NEW filter, NEW v, IsTable(v),
         Matches(filter, v) = <<"holds", TRUE>>
  PROVE  Agrees(PruneRecord(filter), v)
<1> DEFINE says(k) == ClauseHolds(filter[2][k], Field(v, k))
           unmet == {k \in DOMAIN filter[2] : says(k) # <<"holds", TRUE>>}
           scalars == {"string", "integer", "float", "boolean", "datetime"}
           known == {k \in DOMAIN filter[2] :
                       filter[2][k][1] = "equals" /\ filter[2][k][2][1] \in scalars}
<1>1. unmet = {}
  <2> SUFFICES ASSUME unmet # {} PROVE FALSE
    OBVIOUS
  <2>1. Matches(filter, v) \in {<<"holds", FALSE>>, Error("config_invalid")}
    BY Zenon DEF Matches
  <2>2. <<"holds", FALSE>> # <<"holds", TRUE>> /\ Error("config_invalid") # <<"holds", TRUE>>
    BY DEF Error
  <2> QED BY <2>1, <2>2, Zenon
<1>2. ASSUME NEW k \in known PROVE Field(v, k) = filter[2][k][2]
  <2> DEFINE w == Field(v, k)
             c == filter[2][k]
  <2>1. c[1] = "equals"
    OBVIOUS
  <2>2. ClauseHolds(c, w) = <<"holds", w[1] = c[2][1] /\ w = c[2]>>
    BY <2>1, Zenon DEF ClauseHolds
  <2>3. ClauseHolds(c, w) = <<"holds", TRUE>>
    BY <1>1
  <2> HIDE DEF w, c
  <2>4. w = c[2]
    <3> SUFFICES ASSUME w # c[2] PROVE FALSE
      OBVIOUS
    <3>1. (w[1] = c[2][1] /\ w = c[2]) = FALSE
      OBVIOUS
    <3>2. <<"holds", FALSE>> # <<"holds", TRUE>>
      OBVIOUS
    <3> QED BY <2>2, <2>3, <3>1, <3>2, Zenon
  <2> QED BY <2>4 DEF w, c
<1>3. PruneRecord(filter) = <<"table", [k \in known |-> filter[2][k][2]]>>
  BY Zenon DEF PruneRecord, Table
<1> HIDE DEF known
<1>4. ASSUME NEW k PROVE Field(PruneRecord(filter), k) \in {Absent, Field(v, k)}
  <2>1. Field(PruneRecord(filter), k) = IF k \in known THEN filter[2][k][2] ELSE Absent
    BY <1>3 DEF Field, IsTable
  <2> QED BY <1>2, <2>1
<1> QED BY <1>4, Zenon DEF Agrees

-----------------------------------------------------------------------------
(* The path and the walk together                                           *)

LEMMA OneName ==
  ASSUME NEW text, IsSeq(text), ~InvalidChars(text, FALSE)
  PROVE  Names(text) = <<text>>
<1>1. PICK C : text \in Seq(C)
  BY DEF IsSeq
<1>2. \A i \in 1 .. Len(text) : text[i] \in Range(text)
  BY <1>1, LenProperties, RangeEquality
<1>3. \A i \in 1 .. Len(text) : text[i] # "/"
  BY <1>2, Zenon DEF InvalidChars
<1> QED BY <1>1, <1>3, NamesOfOne

LEMMA TextsShare ==
  ASSUME NEW n \in Nat, NEW texts, \A i \in 1 .. n : IsSeq(texts[i])
  PROVE  \A i \in 1 .. n : texts[i] \in Seq(UNION {Range(texts[j]) : j \in 1 .. n})
<1> TAKE i \in 1 .. n
<1> DEFINE C == UNION {Range(texts[j]) : j \in 1 .. n}
<1>1. PICK S : texts[i] \in Seq(S)
  BY DEF IsSeq
<1>2. texts[i] \in Seq(Range(texts[i]))
  BY <1>1, SeqOfRange
<1>3. Range(texts[i]) \subseteq C
  OBVIOUS
<1> HIDE DEF C
<1>4. texts[i] \in Seq(C)
  BY <1>2, <1>3, SeqMonotonic
<1> QED BY <1>4 DEF C

LEMMA RecordPath ==
  ASSUME NEW v, Value(v), NEW template, Compiled(template),
         NEW r, Render(template, v) = <<"path", r>>
  PROVE  /\ ~Failed(Render(template, v)) /\ PathOf(Texts(template, v), r)
         /\ Len(Texts(template, v)) = Len(template)
         /\ ~Recursive(template[Len(template)])
              => Names(Texts(template, v)[Len(template)]) = <<Texts(template, v)[Len(template)]>>
<1> DEFINE n == Len(template)
           texts == Texts(template, v)
           C == UNION {Range(texts[j]) : j \in 1 .. n}
<1>1. ~Failed(Render(template, v))
  BY DEF Failed
<1>2. n \in Nat \ {0}
  BY ParsedIs
<1>3. \A i \in 1 .. n : IsSeq(texts[i]) /\ ~InvalidChars(texts[i], Recursive(template[i]))
  BY <1>1, RenderedTexts, Zenon
<1>4. r = FlattenSeq([i \in 1 .. n |-> Names(texts[i])])
  <2> DEFINE x == FlattenSeq([i \in 1 .. n |-> Names(texts[i])])
  <2>1. <<"path", r>> = <<"path", x>>
    BY <1>1, RenderedTexts, Zenon
  <2> HIDE DEF x
  <2>2. r = x
    BY <2>1
  <2> QED BY <2>2 DEF x
<1>5. DOMAIN texts = 1 .. n /\ texts = [i \in DOMAIN texts |-> texts[i]]
  BY DEF Texts
<1>6. \A i \in 1 .. n : ~Recursive(template[i]) => Names(texts[i]) = <<texts[i]>>
  <2> HIDE DEF texts
  <2> TAKE i \in 1 .. n
  <2> HAVE ~Recursive(template[i])
  <2>1. Recursive(template[i]) = FALSE
    BY Zenon DEF Recursive, IsRecursive
  <2>2. ~InvalidChars(texts[i], FALSE)
    BY <1>3, <2>1, Zenon
  <2> QED BY <1>3, <2>2, OneName
<1> HIDE DEF texts
<1>7. \A i \in 1 .. n - 1 : Names(texts[i]) = <<texts[i]>>
  <2>1. \A i \in 1 .. n - 1 : ~Recursive(template[i]) /\ i \in 1 .. n
    BY <1>2 DEF Compiled
  <2> QED BY <1>6, <2>1
<1>8. \A i \in 1 .. n : texts[i] \in Seq(C)
  BY <1>2, <1>3, TextsShare
<1> HIDE DEF C
<1>9. PathOf(texts, r)
  <2>1. PathOf(texts, FlattenSeq([i \in 1 .. n |-> Names(texts[i])]))
    BY <1>2, <1>5, <1>7, <1>8, FlattenIsPath
  <2> QED BY <1>4, <2>1, Zenon
<1>10. Len(texts) = n
  <2>1. \A i \in 1 .. n : texts[i] \in {texts[j] : j \in 1 .. n}
    OBVIOUS
  <2> QED BY <1>2, <1>5, <2>1, MakesSequence
<1>11. ~Recursive(template[n]) => Names(texts[n]) = <<texts[n]>>
  BY <1>2, <1>6
<1> QED BY <1>1, <1>9, <1>10, <1>11, Zenon DEF texts, n

\* What the walk does not pass over: a record's file, unless the template ends
\* in a recursive field and the file lies beneath another record's
LEMMA WalkHidesNothing ==
  ASSUME NEW v, Value(v), NEW q, Agrees(q, v),
         NEW template, Compiled(template), NEW r, Render(template, v) = <<"path", r>>,
         NEW files, NEW ext, FileOf(r, ext) \in DOMAIN files,
         Recursive(template[Len(template)]) =>
            \A g \in DOMAIN files : IsRecordFile(g, ext) => ~IsStrictPrefix(StemsOf(g), r)
  PROVE  /\ CandidatePaths(files, template, q, ext)[1] = "paths"
         /\ r \in CandidatePaths(files, template, q, ext)[2]
<1> DEFINE n == Len(template)
           texts == Texts(template, v)
           plan == Planned(template, q)
<1>1. n \in Nat \ {0} /\ n \in 1 .. n
  BY ParsedIs
<1>2. /\ ~Failed(Render(template, v)) /\ PathOf(texts, r) /\ Len(texts) = n
      /\ ~Recursive(template[n]) => Names(texts[n]) = <<texts[n]>>
  BY RecordPath, Zenon
<1>3. /\ PlanQuery(template, q) = <<"plan", plan>>
      /\ \A i \in 1 .. n : plan[i].rendered \in {Absent, <<"text", texts[i]>>}
  BY <1>2, PlanAgrees, Zenon
<1>4. plan[n].recursive = Recursive(template[n])
  BY <1>1 DEF Planned
<1>5. Len(plan) = n
  <2>1. DOMAIN plan = 1 .. n /\ plan = [i \in DOMAIN plan |-> plan[i]]
    BY DEF Planned
  <2> HIDE DEF plan
  <2>2. \A i \in 1 .. n : plan[i] \in {plan[j] : j \in 1 .. n}
    OBVIOUS
  <2> QED BY <1>1, <2>1, <2>2, MakesSequence
<1> HIDE DEF plan, texts
<1>6. PlanOf(plan, texts)
  <2> HIDE DEF n
  <2> QED BY <1>1, <1>2, <1>3, <1>5, Zenon DEF PlanOf
<1>7. r \in Walk(files, plan, ext)
  <2> HIDE DEF n
  <2>1. /\ ~plan[n].recursive => Names(texts[n]) = <<texts[n]>>
        /\ plan[n].recursive =>
              \A g \in DOMAIN files : IsRecordFile(g, ext) => ~IsStrictPrefix(StemsOf(g), r)
    BY <1>2, <1>4, Zenon DEF n
  <2> QED BY <1>2, <1>6, <2>1, WalkFinds
<1>8. CandidatePaths(files, template, q, ext) = <<"paths", Walk(files, plan, ext)>>
  <2>1. ~Failed(<<"plan", plan>>) /\ <<"plan", plan>>[2] = plan
    BY DEF Failed
  <2>2. CandidatePaths(files, template, q, ext) =
          IF Failed(<<"plan", plan>>) THEN <<"plan", plan>>
          ELSE <<"paths", Walk(files, <<"plan", plan>>[2], ext)>>
    BY <1>3, Zenon DEF CandidatePaths, Then
  <2> QED BY <2>1, <2>2, Zenon
<1> QED BY <1>7, <1>8

-----------------------------------------------------------------------------
(* Compiling                                                                *)

\* A token as the parser reads it
Token(t) ==
  /\ t[1] \in {"/", "lit", "field", "bucket", "expr", "broken"}
  /\ t[1] = "/" => t = <<"/">>
  /\ t[1] = "broken" => t = <<"broken">>
  /\ t[1] = "lit" => IsSeq(t[2])
  /\ t[1] = "bucket" => IsSeq(t[2]) /\ t[2] # <<>>

\* A token that adds to the components
Adds(t) == Token(t) /\ t # <<"broken">> /\ (t[1] = "bucket" => Units(t[3]) # <<>>)

LEMMA UnitsAre == \A format : IsSeq(Units(format))
<1> TAKE format
<1> DEFINE U == {"year", "month", "day", "isoYear", "isoWeek"}
<1>1. CASE format = "YYYY"
  <2>1. Units(format) = <<"year">> /\ <<"year">> \in Seq(U)
    BY <1>1 DEF Units
  <2> QED BY <2>1, Zenon DEF IsSeq
<1>2. CASE format = "YYYY/MM"
  <2>1. Units(format) = <<"year", "month">> /\ <<"year", "month">> \in Seq(U)
    BY <1>2 DEF Units
  <2> QED BY <2>1, Zenon DEF IsSeq
<1>3. CASE format = "YYYY/MM/DD"
  <2>1. Units(format) = <<"year", "month", "day">> /\ <<"year", "month", "day">> \in Seq(U)
    BY <1>3 DEF Units
  <2> QED BY <2>1, Zenon DEF IsSeq
<1>4. CASE format = "YYYY/WW"
  <2>1. Units(format) = <<"isoYear", "isoWeek">> /\ <<"isoYear", "isoWeek">> \in Seq(U)
    BY <1>4 DEF Units
  <2> QED BY <2>1, Zenon DEF IsSeq
<1>5. CASE format \notin {"YYYY", "YYYY/MM", "YYYY/MM/DD", "YYYY/WW"}
  <2>1. Units(format) = <<>> /\ <<>> \in Seq(U)
    BY <1>5 DEF Units
  <2> QED BY <2>1, Zenon DEF IsSeq
<1> QED BY <1>1, <1>2, <1>3, <1>4, <1>5

\* The parts that tokens make
PartsOf(T) ==
  T \cup UNION {{<<"bucket", t[2], Units(t[3])[u]>> : u \in 1 .. Len(Units(t[3]))} : t \in T}

LEMMA TokenAdded ==
  ASSUME NEW T, \A t \in T : Adds(t),
         NEW P, P = {p \in PartsOf(T) : Part(p)},
         NEW components \in Seq(Seq(P)), components # <<>>, NEW t \in T
  PROVE  AddToken(components, t) \in Seq(Seq(P)) /\ AddToken(components, t) # <<>>
<1> DEFINE Q == Seq(P)
           front == Front(components)
           last == Last(components)
<1>1. front \in Seq(Q) /\ last \in Q
  <2> HIDE DEF Q
  <2>1. components \in Seq(Q) /\ components # <<>>
    BY DEF Q
  <2>2. Len(components) \in Nat \ {0}
    BY <2>1, EmptySeq
  <2> QED BY <2>1, <2>2 DEF Front, Last
<1> HIDE DEF front, last
<1>2. \A s \in Seq(Q), x \in Q : Append(s, x) \in Seq(Q) /\ Append(s, x) # <<>>
  <2> HIDE DEF Q
  <2> QED BY AppendProperties
<1>3. CASE t = <<"/">>
  <2>1. AddToken(components, t) = Append(components, <<>>)
    <3>1. <<"/">>[1] # "bucket"
      OBVIOUS
    <3> QED BY <1>3, <3>1, Zenon DEF AddToken
  <2>2. <<>> \in Q
    BY EmptySeq
  <2> HIDE DEF Q
  <2> QED BY <1>2, <2>1, <2>2 DEF Q
<1>4. CASE t # <<"/">> /\ t[1] = "bucket"
  <2> DEFINE units == Units(t[3])
             n == Len(units)
             bs == BucketComponents(t)
  <2>1. IsSeq(units) /\ units # <<>> /\ t \in PartsOf(T)
    BY <1>4, UnitsAre DEF Adds, PartsOf
  <2>2. n \in Nat \ {0} /\ DOMAIN units = 1 .. n
    BY <2>1, LenProperties, EmptySeq DEF IsSeq
  <2>3. ASSUME NEW u \in 1 .. n PROVE bs[u] \in Q
    <3> DEFINE p == <<"bucket", t[2], Units(t[3])[u]>>
    <3>1. bs[u] = <<p>>
      BY <2>2 DEF BucketComponents
    <3>2. p \in PartsOf(T)
      <4>1. p \in {<<"bucket", t[2], Units(t[3])[w]>> : w \in 1 .. Len(Units(t[3]))}
        OBVIOUS
      <4> HIDE DEF p
      <4> QED BY <4>1, Zenon DEF PartsOf
    <3>3. IsSeq(t[2]) /\ t[2] # <<>>
      BY <1>4 DEF Adds, Token
    <3>4. Part(p)
      BY <3>3 DEF Part
    <3>5. p \in P
      BY <3>2, <3>4
    <3> HIDE DEF p
    <3> QED BY <3>1, <3>5
  <2>4. DOMAIN bs = 1 .. n /\ bs = [u \in DOMAIN bs |-> bs[u]]
    BY <2>2 DEF BucketComponents
  <2> HIDE DEF Q, bs, n
  <2>5. bs \in Seq(Q) /\ Len(bs) = n
    BY <2>2, <2>3, <2>4, MakesSequence
  <2>6. AddToken(components, t) = front \o bs
    BY <1>4, Zenon DEF AddToken, front, bs
  <2>7. front \o bs \in Seq(Q) /\ front \o bs # <<>>
    <3>1. bs # <<>>
      BY <2>2, <2>5
    <3> QED BY <1>1, <2>5, <3>1, ConcatProperties, ConcatEqualIffEmpty
  <2> QED BY <2>6, <2>7 DEF Q
<1>5. CASE t # <<"/">> /\ t[1] # "bucket"
  <2>1. AddToken(components, t) = Append(front, Append(last, t))
    BY <1>5, Zenon DEF AddToken, front, last
  <2>2. t \in P
    <3>1. t \in PartsOf(T)
      BY DEF PartsOf
    <3>2. Part(t)
      BY <1>5 DEF Part, Adds, Token
    <3> QED BY <3>1, <3>2
  <2>3. Append(last, t) \in Q
    BY <1>1, <2>2, AppendProperties
  <2> HIDE DEF Q
  <2> QED BY <1>1, <1>2, <2>1, <2>3 DEF Q
<1> QED BY <1>3, <1>4, <1>5

LEMMA TokensAdded ==
  ASSUME NEW T, \A t \in T : Adds(t),
         NEW P, P = {p \in PartsOf(T) : Part(p)}, NEW tokens \in Seq(T)
  PROVE  /\ FoldLeft(AddToken, << <<>> >>, tokens) \in Seq(Seq(P))
         /\ FoldLeft(AddToken, << <<>> >>, tokens) # <<>>
<1> DEFINE n == Len(tokens)
           S == Seq(Seq(P)) \ {<<>>}
           result == FoldLeft(AddToken, << <<>> >>, tokens)
           Step(f) == [u \in SUBSET (1 .. n) |->
                         IF u = {} THEN << <<>> >> ELSE AddToken(f[u \ {Max(u)}], tokens[Max(u)])]
<1>1. n \in Nat /\ DOMAIN tokens = 1 .. n /\ \A i \in 1 .. n : tokens[i] \in T
  BY LenProperties, ElementOfSeq
<1>2. << <<>> >> \in S
  OBVIOUS
<1>3. \A components \in S, t \in T : AddToken(components, t) \in S
  BY TokenAdded
<1>4. \E f : f = Step(f)
  <2> DEFINE g == [p \in S \X T |-> AddToken(p[1], p[2])]
  <2> HIDE DEF S, Step
  <2>1. g \in [S \X T -> S]
    BY <1>3
  <2>2. \A components \in S, t \in T : g[<<components, t>>] = AddToken(components, t)
    OBVIOUS
  <2> HIDE DEF g
  <2>3. PICK f : Iterate(f, n, S, g, << <<>> >>, tokens)
    BY <1>2, <2>1, FoldExists
  <2>4. ASSUME NEW u \in SUBSET (1 .. n), u # {}
        PROVE  g[<<f[u \ {Max(u)}], tokens[Max(u)]>>] = AddToken(f[u \ {Max(u)}], tokens[Max(u)])
    <3>1. Max(u) \in u
      <4>1. u \in SUBSET (0 .. n)
        OBVIOUS
      <4> QED BY <1>1, <2>4, <4>1, MaxIsIn, Zenon
    <3>2. Max(u) \in 1 .. n
      BY <3>1
    <3>3. tokens[Max(u)] \in T
      BY <1>1, <3>2
    <3>4. f[u \ {Max(u)}] \in S
      BY <2>3 DEF Iterate
    <3> QED BY <2>2, <3>3, <3>4
  <2>5. f = Step(f)
    BY <2>3, <2>4 DEF Step, Iterate
  <2> QED BY <2>5
<1> DEFINE iter == CHOOSE f : f = Step(f)
<1>5. iter = Step(iter)
  <2> HIDE DEF Step
  <2> QED BY <1>4
<1>6. result = iter[1 .. n]
  BY <1>1 DEF FoldLeft, MapThenFoldSet
<1> HIDE DEF iter, result
<1>7. iter[1 .. 0] = << <<>> >>
  BY <1>5
<1>8. ASSUME NEW i \in 1 .. n
      PROVE  iter[1 .. i] = AddToken(iter[1 .. i - 1], tokens[i])
  <2>1. Max(1 .. i) = i /\ (1 .. i) \ {i} = 1 .. i - 1 /\ 1 .. i # {} /\ 1 .. i \in SUBSET (1 .. n)
    BY <1>1, Beginnings, SMTT(30)
  <2> QED BY <1>5, <2>1
<1> DEFINE Good == {i \in 0 .. n : iter[1 .. i] \in S}
<1> HIDE DEF S
<1>9. 0 \in Good
  BY <1>1, <1>2, <1>7
<1>10. ASSUME NEW i \in 0 .. n - 1, i \in Good PROVE i + 1 \in Good
  <2>1. i + 1 \in 1 .. n /\ (i + 1) - 1 = i
    BY <1>1
  <2>2. iter[1 .. i + 1] = AddToken(iter[1 .. i], tokens[i + 1])
    BY <1>8, <2>1
  <2>3. iter[1 .. i] \in S /\ tokens[i + 1] \in T
    BY <1>1, <1>10, <2>1
  <2> QED BY <1>3, <2>1, <2>2, <2>3
<1>11. n \in Good
  <2> HIDE DEF Good
  <2>1. 0 .. n \subseteq Good
    BY <1>1, <1>9, <1>10, Induction
  <2> QED BY <1>1, <2>1
<1>12. result \in S
  BY <1>6, <1>11
<1> QED BY <1>12 DEF S, result

LEMMA TrimmedIs ==
  ASSUME NEW T, NEW source \in Seq(T)
  PROVE  Trimmed(source) \in Seq(T)
<1> DEFINE n == Len(source)
           I == {i \in 1 .. n : source[i] # <<"/">>}
           first == Trim(source)
           last == SelectLastInSeq(source, LAMBDA t : t # <<"/">>)
<1>1. n \in Nat
  BY LenProperties
<1>2. first = IF I # {} THEN Min(I) ELSE 0
  BY DEF Trim, SelectInSeq
<1>3. last = IF I # {} THEN Max(I) ELSE 0
  BY DEF SelectLastInSeq
<1>4. Trimmed(source) = IF first = 0 THEN <<>> ELSE SubSeq(source, first, last)
  BY Zenon DEF Trimmed
<1> HIDE DEF first, last
<1>5. CASE I = {}
  <2>1. Trimmed(source) = <<>>
    BY <1>2, <1>4, <1>5
  <2> QED BY <2>1, EmptySeq
<1>6. CASE I # {}
  <2>1. I \in SUBSET Nat /\ I \in SUBSET (0 .. n)
    BY <1>1
  <2>2. I \subseteq 1 .. n
    OBVIOUS
  <2>3. first \in I /\ last \in I
    <3> HIDE DEF I
    <3>1. Min(I) \in I
      BY <1>6, <2>1, MinIsIn
    <3>2. Max(I) \in I
      BY <1>1, <1>6, <2>1, MaxIsIn, Zenon
    <3> QED BY <1>2, <1>3, <1>6, <3>1, <3>2
  <2>4. first \in 1 .. n /\ last \in 1 .. n
    BY <2>2, <2>3
  <2>5. \A i \in first .. last : source[i] \in T
    <3>1. \A i \in first .. last : i \in 1 .. n
      BY <1>1, <2>4
    <3> QED BY <3>1, ElementOfSeq
  <2>6. SubSeq(source, first, last) \in Seq(T)
    BY <2>4, <2>5, SubSeqProperties
  <2> HIDE DEF I
  <2>7. first # 0
    BY <2>4
  <2> QED BY <1>4, <2>6, <2>7
<1> QED BY <1>5, <1>6

LEMMA CompiledIsParsed ==
  ASSUME NEW T, \A t \in T : Token(t), NEW source \in Seq(T),
         NEW template, Compile(source) = <<"template", template>>
  PROVE  Compiled(template)
<1> DEFINE tokens == Trimmed(source)
           read == Readable(tokens)
           U == {t \in T : Adds(t)}
           P == {p \in PartsOf(U) : Part(p)}
           made == FoldLeft(AddToken, << <<>> >>, tokens)
           bad == {i \in DOMAIN tokens : tokens[i] = <<"broken">> \/ BadBucket(tokens, i)}
<1>1. tokens \in Seq(T)
  BY TrimmedIs
<1> HIDE DEF tokens
<1>2. ~Failed(read)
  <2> SUFFICES ASSUME Failed(read) PROVE FALSE
    OBVIOUS
  <2>1. Compile(source) = read
    BY Zenon DEF Compile, Then, tokens
  <2>2. <<"template", template>>[1] = "template"
    OBVIOUS
  <2> HIDE DEF read
  <2>3. read[1] = "template"
    BY <2>1, <2>2, Zenon
  <2> QED BY <2>3 DEF Failed
<1>3. read = <<"tokens", tokens>> /\ bad = {}
  <2>1. Failed(Error("path_render_failed")) /\ Failed(Error("config_invalid"))
    BY DEF Failed, Error
  <2>2. tokens # <<>>
    <3> SUFFICES ASSUME tokens = <<>> PROVE FALSE
      OBVIOUS
    <3>1. DOMAIN tokens = {}
      OBVIOUS
    <3>2. bad = {}
      BY <3>1
    <3>3. read = Error("path_render_failed")
      BY <3>2, Zenon DEF Readable
    <3> QED BY <1>2, <2>1, <3>3
  <2>3. bad = {}
    <3> SUFFICES ASSUME bad # {} PROVE FALSE
      OBVIOUS
    <3>1. CASE tokens[Min(bad)] = <<"broken">>
      <4>1. read = Error("path_render_failed")
        BY <2>2, <3>1, Zenon DEF Readable
      <4> QED BY <1>2, <2>1, <4>1
    <3>2. CASE tokens[Min(bad)] # <<"broken">>
      <4>1. read = Error("config_invalid")
        BY <2>2, <3>2, Zenon DEF Readable
      <4> QED BY <1>2, <2>1, <4>1
    <3> QED BY <3>1, <3>2
  <2>4. read = <<"tokens", tokens>>
    BY <2>2, <2>3, Zenon DEF Readable
  <2> QED BY <2>3, <2>4
<1>4. tokens \in Seq(U)
  <2>1. Len(tokens) \in Nat /\ DOMAIN tokens = 1 .. Len(tokens) /\ tokens = [i \in DOMAIN tokens |-> tokens[i]]
    BY <1>1, LenProperties
  <2>2. ASSUME NEW i \in 1 .. Len(tokens) PROVE tokens[i] \in U
    <3>1. tokens[i] \in T /\ Token(tokens[i])
      BY <1>1, <2>2, ElementOfSeq
    <3>2. tokens[i] # <<"broken">> /\ ~BadBucket(tokens, i)
      BY <1>3, <2>1
    <3>3. Adds(tokens[i])
      BY <3>1, <3>2, Zenon DEF Adds, BadBucket
    <3> QED BY <3>1, <3>3
  <2> HIDE DEF U
  <2> QED BY <2>1, <2>2, MakesSequence
<1>5. made \in Seq(Seq(P)) /\ made # <<>>
  <2>1. \A t \in U : Adds(t)
    OBVIOUS
  <2> HIDE DEF U
  <2> QED BY <1>4, <2>1, TokensAdded
<1>6. Compile(source) = WellFormed(made)
  <2>1. Compile(source) = IF Failed(read) THEN read ELSE WellFormed(FoldLeft(AddToken, << <<>> >>, read[2]))
    BY Zenon DEF Compile, Then, tokens
  <2>2. read[2] = tokens
    BY <1>3
  <2> HIDE DEF read
  <2> QED BY <1>2, <2>1, <2>2, Zenon
<1> HIDE DEF made, P, read, bad, U
<1>7. /\ \A i \in DOMAIN made : ~BadComponent(made, i)
      /\ template = made
  <2>1. <<"template", template>> # Error("path_render_failed")
    BY DEF Error
  <2>2. \A i \in DOMAIN made : ~BadComponent(made, i)
    BY <1>6, <2>1, Zenon DEF WellFormed
  <2>3. <<"template", template>> = <<"template", made>>
    BY <1>6, <2>2, Zenon DEF WellFormed
  <2> QED BY <2>2, <2>3
<1> DEFINE n == Len(made)
           Q == Seq(P)
<1>8. n \in Nat \ {0} /\ DOMAIN made = 1 .. n /\ \A i \in 1 .. n : made[i] \in Q
  <2> HIDE DEF Q
  <2>1. made \in Seq(Q) /\ made # <<>>
    BY <1>5 DEF Q
  <2> QED BY <2>1, LenProperties, EmptySeq, ElementOfSeq
<1>9. ASSUME NEW i \in 1 .. n
      PROVE  made[i] # <<>> /\ \A j \in 1 .. Len(made[i]) : Part(made[i][j])
  <2>1. made[i] # <<>>
    BY <1>7, <1>8 DEF BadComponent
  <2>2. \A j \in 1 .. Len(made[i]) : made[i][j] \in P
    BY <1>8, ElementOfSeq
  <2> QED BY <2>1, <2>2 DEF P
<1>10. ASSUME NEW i \in 1 .. n - 1
       PROVE  ~Recursive(made[i])
  <2>1. i \in 1 .. n /\ i < n
    BY <1>8
  <2>2. ~BadComponent(made, i)
    BY <1>7, <1>8, <2>1
  <2> QED BY <2>1, <2>2, Zenon DEF BadComponent
<1>11. \E S : made \in Seq(Seq(S))
  BY <1>5
<1> QED BY <1>5, <1>7, <1>9, <1>10, <1>11, Zenon DEF Compiled

-----------------------------------------------------------------------------
(* The theorems                                                             *)

\* The walk that a query plans with the scalars of its filter passes over no
\* record that the filter holds of (path_template.rs plan_query, query.rs
\* walk_query): a record that lies at the path its template gives it is among
\* the candidates, and planning does not fail. Only where the template ends in
\* a recursive field a file beneath another record's is not looked at: it is an
\* attachment.
THEOREM PruningHidesNothing ==
  ASSUME NEW T, \A t \in T : Token(t), NEW source \in Seq(T),
         NEW template, Compile(source) = <<"template", template>>,
         NEW v, Value(v), IsTable(v),
         NEW filter, Matches(filter, v) = <<"holds", TRUE>>,
         NEW r, Render(template, v) = <<"path", r>>,
         NEW files, NEW ext, FileOf(r, ext) \in DOMAIN files,
         Recursive(template[Len(template)]) =>
            \A g \in DOMAIN files : IsRecordFile(g, ext) => ~IsStrictPrefix(StemsOf(g), r)
  PROVE  /\ CandidatePaths(files, template, PruneRecord(filter), ext)[1] = "paths"
         /\ r \in CandidatePaths(files, template, PruneRecord(filter), ext)[2]
<1> DEFINE q == PruneRecord(filter)
<1>1. Compiled(template)
  BY CompiledIsParsed, Zenon
<1>2. Agrees(q, v)
  BY MatchingAgrees
<1> HIDE DEF q
<1>3. /\ CandidatePaths(files, template, q, ext)[1] = "paths"
      /\ r \in CandidatePaths(files, template, q, ext)[2]
  BY <1>1, <1>2, WalkHidesNothing
<1> QED BY <1>3 DEF q

\* Where a record lies depends on nothing but the fields that get_field_names
\* names: two records that agree on them have the same path, or fail alike.
LEMMA PartDepends ==
  ASSUME NEW v, NEW w, NEW p, Part(p),
         p[1] \in {"field", "expr"} => Field(v, p[2]) = Field(w, p[2]),
         p[1] = "bucket" => Field(v, p[2][1]) = Field(w, p[2][1])
  PROVE  RenderPart(v, p, TRUE) = RenderPart(w, p, TRUE)
<1>1. CASE p[1] = "lit"
  BY <1>1, Zenon DEF RenderPart
<1>2. CASE p[1] = "field"
  <2>1. RenderPart(v, p, TRUE) = PathText(Field(v, p[2])) /\ RenderPart(w, p, TRUE) = PathText(Field(w, p[2]))
    BY <1>2 DEF RenderPart
  <2> QED BY <1>2, <2>1
<1>3. CASE p[1] = "bucket"
  <2>1. Dotted(v, p[2]) = Dotted(w, p[2])
    <3>2. PICK S : p[2] \in Seq(S)
      BY <1>3 DEF Part, IsSeq
    <3>3. p[2] # <<>> /\ Field(v, p[2][1]) = Field(w, p[2][1])
      BY <1>3 DEF Part
    <3> QED BY <3>2, <3>3, DottedDepends
  <2>2. /\ RenderPart(v, p, TRUE) = RenderBucket(v, p, TRUE)
        /\ RenderPart(w, p, TRUE) = RenderBucket(w, p, TRUE)
    BY <1>3, Zenon DEF RenderPart
  <2> QED BY <2>1, <2>2, Zenon DEF RenderBucket
<1>4. CASE p[1] = "expr"
  <2>1. RenderPart(v, p, TRUE) = RenderExpression(v, p) /\ RenderPart(w, p, TRUE) = RenderExpression(w, p)
    BY <1>4 DEF RenderPart
  <2>2. Field(v, p[2]) = Field(w, p[2])
    BY <1>4
  <2>3. RenderExpression(v, p) = RenderExpression(w, p)
    BY <2>2, Zenon DEF RenderExpression
  <2> QED BY <2>1, <2>3, Zenon
<1> QED BY <1>1, <1>2, <1>3, <1>4 DEF Part

THEOREM PathDependsOnFieldNames ==
  ASSUME NEW template, Compiled(template), NEW v, NEW w,
         \A k \in FieldNames(template) : Field(v, k) = Field(w, k)
  PROVE  Render(template, v) = Render(template, w)
<1> DEFINE n == Len(template)
           parts == UNION {ToSet(c) : c \in ToSet(template)}
           named(p) == CASE p[1] = "field"  -> {p[2]}
                         [] p[1] = "bucket" -> {p[2][1]}
                         [] p[1] = "expr"   -> {p[2]}
                         [] OTHER -> {}
<1>1. n \in Nat /\ DOMAIN template = 1 .. n
  BY ParsedIs
<1>2. PICK T : \A i \in 1 .. n : template[i] \in Seq(T)
  BY ParsedIs
<1>3. \A i \in 1 .. n : \A j \in 1 .. Len(template[i]) : Part(template[i][j])
  BY ParsedIs
<1>4. FieldNames(template) = UNION {named(p) : p \in parts}
  BY Zenon DEF FieldNames
<1>5. ASSUME NEW i \in 1 .. n, NEW j \in DOMAIN template[i]
      PROVE  RenderPart(v, template[i][j], TRUE) = RenderPart(w, template[i][j], TRUE)
  <2> DEFINE p == template[i][j]
  <2>1. template[i] \in ToSet(template) /\ p \in ToSet(template[i])
    BY <1>1, Zenon DEF ToSet
  <2>2. p \in parts
    BY <2>1, Zenon
  <2>3. Part(p)
    BY <1>2, <1>3, LenProperties
  <2> HIDE DEF p, parts
  <2>4. named(p) \subseteq FieldNames(template)
    <3> HIDE DEF named
    <3> QED BY <1>4, <2>2
  <2>5. p[1] \in {"field", "expr"} => Field(v, p[2]) = Field(w, p[2])
    <3>1. CASE p[1] = "field"
      <4>1. named(p) = {p[2]}
        BY <3>1
      <4> QED BY <2>4, <4>1, Zenon
    <3>2. CASE p[1] = "expr"
      <4>1. named(p) = {p[2]}
        BY <3>2
      <4> QED BY <2>4, <4>1, Zenon
    <3> QED BY <3>1, <3>2
  <2>6. p[1] = "bucket" => Field(v, p[2][1]) = Field(w, p[2][1])
    <3> HAVE p[1] = "bucket"
    <3>1. named(p) = {p[2][1]}
      OBVIOUS
    <3> QED BY <2>4, <3>1, Zenon
  <2>7. RenderPart(v, p, TRUE) = RenderPart(w, p, TRUE)
    BY <2>3, <2>5, <2>6, PartDepends
  <2> QED BY <2>7 DEF p
<1>6. ASSUME NEW i \in 1 .. n
      PROVE  RenderComponent(v, template[i], TRUE) = RenderComponent(w, template[i], TRUE)
  <2>1. RenderParts(v, template[i], TRUE) = RenderParts(w, template[i], TRUE)
    BY <1>5 DEF RenderParts
  <2> QED BY <2>1, Zenon DEF RenderComponent
<1>7. [i \in DOMAIN template |-> Checked(RenderComponent(v, template[i], TRUE), template[i])]
      = [i \in DOMAIN template |-> Checked(RenderComponent(w, template[i], TRUE), template[i])]
  BY <1>1, <1>6
<1> QED BY <1>7, Zenon DEF Render

\* No record lies beneath another one of its sheet, where an attachment would,
\* unless the template ends in a recursive field: all lie equally deep.
THEOREM RecordsLieApart ==
  ASSUME NEW template, Compiled(template), ~Recursive(template[Len(template)]),
         NEW v, Value(v), NEW w, Value(w),
         NEW r, Render(template, v) = <<"path", r>>, NEW s, Render(template, w) = <<"path", s>>
  PROVE  Len(r) = Len(template) /\ Len(s) = Len(template) /\ ~IsStrictPrefix(r, s)
<1> DEFINE n == Len(template)
           x == Texts(template, v)
           y == Texts(template, w)
<1>6. PathOf(x, r) /\ Len(x) = n /\ Names(x[n]) = <<x[n]>>
  BY RecordPath, Zenon
<1>7. PathOf(y, s) /\ Len(y) = n /\ Names(y[n]) = <<y[n]>>
  BY RecordPath, Zenon
<1> HIDE DEF n, x, y
<1>1. Len(r) = n /\ Len(s) = n
  BY <1>6, <1>7, Zenon DEF PathOf
<1>2. IsSeq(r) /\ IsSeq(s)
  BY <1>6, <1>7, Zenon DEF PathOf
<1>3. PICK N, M : r \in Seq(N) /\ s \in Seq(M)
  BY <1>2, Zenon DEF IsSeq
<1>4. r \in Seq(N \cup M) /\ s \in Seq(N \cup M)
  BY <1>3, SeqMonotonic
<1>5. SubSeq(r, 1, Len(r)) = r /\ SubSeq(s, 1, Len(s)) = s
  BY <1>4, SubSeqFull
<1> QED BY <1>1, <1>5, Zenon DEF IsStrictPrefix, IsPrefix, n

\* A path can be written down: no name of it has a slash or another symbol that
\* a file's name cannot have, also where a recursive field brings directories.
THEOREM PathNamesAreLegal ==
  ASSUME NEW template, Compiled(template), NEW v, Value(v),
         NEW r, Render(template, v) = <<"path", r>>
  PROVE  \A i \in 1 .. Len(r) : \A j \in 1 .. Len(r[i]) :
            r[i][j] # "/" /\ r[i][j] \notin IllegalSymbols
<1> DEFINE n == Len(template)
           texts == Texts(template, v)
           C == UNION {Range(texts[i]) : i \in 1 .. n}
           L == {c \in C : c # "/" /\ c \notin IllegalSymbols}
           named == [i \in 1 .. n |-> Names(texts[i])]
<1>1. n \in Nat \ {0} /\ ~Failed(Render(template, v))
  BY ParsedIs DEF Failed
<1>2. \A i \in 1 .. n : IsSeq(texts[i]) /\ ~InvalidChars(texts[i], Recursive(template[i]))
  BY <1>1, RenderedTexts, Zenon
<1>3. r = FlattenSeq(named)
  <2> DEFINE x == FlattenSeq(named)
  <2>1. <<"path", r>> = <<"path", x>>
    BY <1>1, RenderedTexts, Zenon
  <2> HIDE DEF x
  <2>2. r = x
    BY <2>1
  <2> QED BY <2>2 DEF x
<1> HIDE DEF texts
<1>4. \A i \in 1 .. n : texts[i] \in Seq(C)
  BY <1>1, <1>2, TextsShare
<1>5. ASSUME NEW i \in 1 .. n PROVE Names(texts[i]) \in Seq(Seq(L))
  <2>1. texts[i] \in Seq(Range(texts[i]))
    BY <1>4, SeqOfRange
  <2>2. Range(texts[i]) \subseteq L \cup {"/"}
    <3>1. \A c \in Range(texts[i]) : c \notin IllegalSymbols
      BY <1>2, Zenon DEF InvalidChars
    <3> HIDE DEF n
    <3> QED BY <3>1
  <2> HIDE DEF L
  <2>3. texts[i] \in Seq(L \cup {"/"})
    BY <2>1, <2>2, SeqMonotonic
  <2> QED BY <2>3, NamesAre, Zenon
<1> DEFINE Q == Seq(L)
<1>6. named \in Seq(Seq(Q)) /\ Len(named) = n
  <2> DEFINE R == Seq(Q)
  <2>1. DOMAIN named = 1 .. n /\ named = [i \in DOMAIN named |-> named[i]]
    OBVIOUS
  <2>2. \A i \in 1 .. n : named[i] \in R
    BY <1>5
  <2> HIDE DEF R, named
  <2>3. named \in Seq(R) /\ Len(named) = n
    BY <1>1, <2>1, <2>2, MakesSequence
  <2> QED BY <2>3 DEF R
<1> HIDE DEF named, Q
<1>7. r \in Seq(Q)
  <2>1. PICK h \in [0 .. Len(named) -> Seq(Q)] :
                /\ h[0] = <<>>
                /\ \A i \in 1 .. Len(named) : h[i] = h[i - 1] \o named[i]
                /\ FlattenSeq(named) = h[Len(named)]
    BY <1>6, FlattenSteps
  <2>2. n \in 0 .. n
    BY <1>1
  <2>3. h[n] \in Seq(Q)
    BY <1>6, <2>1, <2>2
  <2> QED BY <1>3, <1>6, <2>1, <2>3, Zenon
<1>8. ASSUME NEW i \in 1 .. Len(r), NEW j \in 1 .. Len(r[i])
      PROVE  r[i][j] # "/" /\ r[i][j] \notin IllegalSymbols
  <2>1. r[i] \in Q
    BY <1>7, ElementOfSeq
  <2>2. r[i] \in Seq(L)
    BY <2>1 DEF Q
  <2> HIDE DEF L
  <2>3. r[i][j] \in L
    BY <2>2, ElementOfSeq
  <2> QED BY <2>3 DEF L
<1> QED BY <1>8

-----------------------------------------------------------------------------
(* What the walk finds                                                      *)

\* The files of a sheet: only the last name of a path has an extension
Tree(files) ==
  \A f \in DOMAIN files :
    /\ IsSeq(f) /\ f # <<>>
    /\ \A i \in 1 .. Len(f) - 1 : f[i] = <<f[i][1], "">>
    /\ f[Len(f)] = <<f[Len(f)][1], f[Len(f)][2]>>

LEMMA StemsAreOfAFile ==
  ASSUME NEW files, Tree(files), NEW f \in DOMAIN files, NEW ext, IsRecordFile(f, ext)
  PROVE  FileOf(StemsOf(f), ext) = f
<1> DEFINE r == StemsOf(f)
           n == Len(f)
           g == FileOf(r, ext)
<1>1. PICK S : f \in Seq(S)
  BY DEF Tree, IsSeq
<1>2. n \in Nat \ {0} /\ DOMAIN f = 1 .. n
  BY <1>1, LenProperties, EmptySeq DEF Tree
<1>3. DOMAIN r = 1 .. n /\ r = [i \in DOMAIN r |-> r[i]] /\ \A i \in 1 .. n : r[i] = f[i][1]
  BY <1>2 DEF StemsOf
<1> HIDE DEF r, n, g
<1>4. IsSeq(r) /\ Len(r) = n
  <2> DEFINE U == {r[i] : i \in 1 .. n}
  <2>1. \A i \in 1 .. n : r[i] \in U
    OBVIOUS
  <2> HIDE DEF U
  <2>2. r \in Seq(U) /\ Len(r) = n
    BY <1>2, <1>3, <2>1, MakesSequence
  <2> QED BY <2>2, Zenon DEF IsSeq
<1>5. /\ Len(g) = n /\ IsSeq(g)
      /\ \A i \in 1 .. n - 1 : g[i] = <<r[i], "">>
      /\ g[n] = <<r[n], ext>>
  <2>1. Len(r) # 0
    BY <1>2, <1>4
  <2>2. /\ Len(g) = Len(r) /\ IsSeq(g)
        /\ \A i \in 1 .. Len(r) - 1 : g[i] = <<r[i], "">>
        /\ g[Len(r)] = <<r[Len(r)], ext>>
    BY <1>4, <2>1, FileIs, Zenon DEF g
  <2> QED BY <1>4, <2>2, Zenon
<1>6. \A i \in 1 .. n : g[i] = f[i]
  <2>1. n \in 1 .. n /\ \A i \in 1 .. n : i = n \/ i \in 1 .. n - 1
    BY <1>2
  <2>2. g[n] = f[n]
    <3>1. f[n] = <<f[n][1], f[n][2]>>
      BY DEF Tree, n
    <3>2. f[n][2] = ext
      BY DEF IsRecordFile, Last, n
    <3> QED BY <1>3, <1>5, <2>1, <3>1, <3>2, Zenon
  <2>3. ASSUME NEW i \in 1 .. n - 1 PROVE g[i] = f[i]
    <3>1. f[i] = <<f[i][1], "">>
      BY DEF Tree, n
    <3>2. i \in 1 .. n
      BY <1>2
    <3> QED BY <1>3, <1>5, <3>1, <3>2, Zenon
  <2> QED BY <2>1, <2>2, <2>3, Zenon
<1>7. PICK M : g \in Seq(M)
  BY <1>5, Zenon DEF IsSeq
<1>8. f \in Seq(S \cup M) /\ g \in Seq(S \cup M)
  BY <1>1, <1>7, SeqMonotonic
<1>9. g = f
  BY <1>5, <1>6, <1>8, SeqEqual DEF n
<1> QED BY <1>9 DEF g, r

\* Every candidate is a record's file that there is (query.rs walk_query): a
\* query never reads one that is missing.
THEOREM CandidatesAreFiles ==
  ASSUME NEW files, Tree(files), NEW template, NEW q, NEW ext,
         CandidatePaths(files, template, q, ext)[1] = "paths",
         NEW r \in CandidatePaths(files, template, q, ext)[2]
  PROVE  FileOf(r, ext) \in DOMAIN files
<1> DEFINE planned == PlanQuery(template, q)
           plan == planned[2]
<1>1. CandidatePaths(files, template, q, ext) =
        IF Failed(planned) THEN planned ELSE <<"paths", Walk(files, plan, ext)>>
  BY Zenon DEF CandidatePaths, Then
<1> HIDE DEF planned
<1>2. ~Failed(planned)
  <2> SUFFICES ASSUME Failed(planned) PROVE FALSE
    OBVIOUS
  <2>1. planned[1] = "paths"
    BY <1>1, Zenon
  <2> QED BY <2>1 DEF Failed
<1> HIDE DEF plan
<1>3. r \in Walk(files, plan, ext)
  BY <1>1, <1>2
<1>4. PICK d \in Reached(files, plan) : r \in Leaves(files, Last(plan), d, ext)
  BY <1>3, Zenon DEF Walk
<1> DEFINE comp == Last(plan)
<1>5. ASSUME NEW f \in Below(files, d), IsRecordFile(f, ext), r = StemsOf(f)
      PROVE  FileOf(r, ext) \in DOMAIN files
  <2>1. f \in DOMAIN files
    BY DEF Below
  <2> QED BY <1>5, <2>1, StemsAreOfAFile
<1> HIDE DEF comp
<1>6. r \in Leaves(files, comp, d, ext)
  BY <1>4 DEF comp
<1>7. CASE comp.rendered # Absent
  <2>1. r \in NamedLeaf(files, d, comp.rendered[2], ext)
    BY <1>6, <1>7, Zenon DEF Leaves
  <2> QED BY <2>1, Zenon DEF NamedLeaf
<1>8. CASE comp.rendered = Absent /\ comp.recursive
  <2>1. r \in RecordsBelow(files, d, ext)
    BY <1>6, <1>8, Zenon DEF Leaves
  <2>2. PICK f \in Below(files, d) : IsRecordFile(f, ext) /\ r = StemsOf(f)
    BY <2>1, Zenon DEF RecordsBelow
  <2> QED BY <1>5, <2>2
<1>9. CASE comp.rendered = Absent /\ ~comp.recursive
  <2>1. r \in RecordsIn(files, d, ext)
    BY <1>6, <1>9, Zenon DEF Leaves
  <2>2. PICK f \in Below(files, d) : IsRecordFile(f, ext) /\ r = StemsOf(f)
    BY <2>1, Zenon DEF RecordsIn
  <2> QED BY <1>5, <2>2
<1> QED BY <1>7, <1>8, <1>9

LEMMA ConcatIsSeq ==
  ASSUME NEW s, NEW t, IsSeq(s), IsSeq(t)
  PROVE  IsSeq(s \o t) /\ Len(s \o t) = Len(s) + Len(t) /\ Len(s) \in Nat /\ Len(t) \in Nat
<1>1. PICK S, T : s \in Seq(S) /\ t \in Seq(T)
  BY DEF IsSeq
<1>2. s \in Seq(S \cup T) /\ t \in Seq(S \cup T)
  BY <1>1, SeqMonotonic
<1>3. s \o t \in Seq(S \cup T) /\ Len(s \o t) = Len(s) + Len(t)
  BY <1>2, ConcatProperties
<1> QED BY <1>2, <1>3, LenProperties, Zenon DEF IsSeq

LEMMA NamesAreSeq ==
  ASSUME NEW text, IsSeq(text)
  PROVE  IsSeq(Names(text)) /\ Len(Names(text)) \in Nat \ {0}
<1>1. PICK C : text \in Seq(C)
  BY DEF IsSeq
<1>2. text \in Seq(C \cup {"/"})
  BY <1>1, SeqMonotonic
<1> DEFINE Q == Seq(C)
<1>3. Names(text) \in Seq(Q) /\ Names(text) # <<>>
  BY <1>2, NamesAre
<1> HIDE DEF Q
<1> QED BY <1>3, LenProperties, EmptySeq, Zenon DEF IsSeq

LEMMA StemsAreSeq ==
  ASSUME NEW f, IsSeq(f), f # <<>>
  PROVE  IsSeq(StemsOf(f)) /\ Len(StemsOf(f)) \in Nat \ {0} /\ Len(StemsOf(f)) = Len(f)
<1> DEFINE r == StemsOf(f)
           n == Len(f)
           U == {r[i] : i \in 1 .. n}
<1>1. PICK S : f \in Seq(S)
  BY DEF IsSeq
<1>2. n \in Nat \ {0} /\ DOMAIN f = 1 .. n
  BY <1>1, LenProperties, EmptySeq
<1>3. DOMAIN r = 1 .. n /\ r = [i \in DOMAIN r |-> r[i]]
  BY <1>2 DEF StemsOf
<1>4. \A i \in 1 .. n : r[i] \in U
  OBVIOUS
<1> HIDE DEF r, U, n
<1>5. r \in Seq(U) /\ Len(r) = n
  BY <1>2, <1>3, <1>4, MakesSequence
<1> QED BY <1>2, <1>5, Zenon DEF IsSeq, r, n

\* What is known of a record makes a plan, if it makes one, of texts.
LEMMA PlanIs ==
  ASSUME NEW template, Compiled(template), NEW q, Value(q), ~Failed(PlanQuery(template, q))
  PROVE  /\ PlanQuery(template, q) = <<"plan", Planned(template, q)>>
         /\ \A i \in 1 .. Len(template) :
               LET text == Planned(template, q)[i].rendered IN text # Absent => IsSeq(text[2])
<1> DEFINE n == Len(template)
           items == [i \in 1 .. n |-> RenderComponent(q, template[i], FALSE)]
           U == {items[i] : i \in 1 .. n}
<1>1. n \in Nat /\ DOMAIN template = 1 .. n
  BY ParsedIs
<1>2. PICK T : \A i \in 1 .. n : template[i] \in Seq(T)
  BY ParsedIs
<1>3. \A i \in 1 .. n : \A j \in 1 .. Len(template[i]) : Part(template[i][j])
  BY ParsedIs
<1>4. items \in Seq(U) /\ Len(items) = n
  <2>1. DOMAIN items = 1 .. n /\ items = [i \in DOMAIN items |-> items[i]]
    OBVIOUS
  <2>2. \A i \in 1 .. n : items[i] \in U
    OBVIOUS
  <2> HIDE DEF items, U
  <2> QED BY <1>1, <2>1, <2>2, MakesSequence
<1>5. \A i \in 1 .. n : items[i] = RenderComponent(q, template[i], FALSE)
  OBVIOUS
<1>6. PlanQuery(template, q) =
        IF Failed(Batch(items)) THEN Batch(items)
        ELSE <<"plan", [i \in 1 .. n |-> [rendered |-> Batch(items)[2][i],
                                          recursive |-> Recursive(template[i])]]>>
  BY <1>1, Zenon DEF PlanQuery, Then
<1> HIDE DEF items, U
<1>7. (\A i \in 1 .. n : ~Failed(items[i])) /\ Batch(items) = <<"batch", items>>
  <2>1. ~Failed(Batch(items))
    BY <1>6, Zenon
  <2> QED BY <1>4, <2>1, BatchIs
<1>8. PlanQuery(template, q) =
        <<"plan", [i \in 1 .. n |-> [rendered |-> items[i], recursive |-> Recursive(template[i])]]>>
  <2>1. ~Failed(<<"batch", items>>) /\ <<"batch", items>>[2] = items
    BY DEF Failed
  <2> QED BY <1>6, <1>7, <2>1, Zenon
<1>9. [i \in 1 .. n |-> [rendered |-> items[i], recursive |-> Recursive(template[i])]]
      = Planned(template, q)
  BY <1>5 DEF Planned
<1>10. ASSUME NEW i \in 1 .. n, items[i] # Absent PROVE IsSeq(items[i][2])
  <2>1. Renders(RenderComponent(q, template[i], FALSE))
    BY <1>5, <1>7, <1>10 DEF Renders
  <2>2. template[i] \in Seq(T) /\ \A j \in 1 .. Len(template[i]) : Part(template[i][j])
    BY <1>2, <1>3
  <2> QED BY <1>5, <2>1, <2>2, ComponentIsText
<1>11. \A i \in 1 .. n : Planned(template, q)[i].rendered = items[i]
  BY <1>5 DEF Planned
<1> QED BY <1>8, <1>9, <1>10, <1>11, Zenon

LEMMA OnwardIsSeq ==
  ASSUME NEW files, NEW comp, comp.rendered # Absent => IsSeq(comp.rendered[2]),
         NEW d, IsSeq(d), NEW e \in Onward(files, comp, d)
  PROVE  IsSeq(e)
<1>1. CASE comp.rendered # Absent
  <2>1. e = d \o Names(comp.rendered[2])
    BY <1>1 DEF Onward
  <2> QED BY <1>1, <2>1, NamesAreSeq, ConcatIsSeq
<1>2. CASE comp.rendered = Absent
  <2>1. PICK x : e = Append(d, x)
    BY <1>2 DEF Onward
  <2>2. PICK S : d \in Seq(S)
    BY DEF IsSeq
  <2>3. d \in Seq(S \cup {x})
    BY <2>2, SeqMonotonic
  <2>4. e \in Seq(S \cup {x})
    BY <2>1, <2>3, AppendProperties
  <2> QED BY <2>4, Zenon DEF IsSeq
<1> QED BY <1>1, <1>2

LEMMA LeafIsSeq ==
  ASSUME NEW files, Tree(files), NEW comp, comp.rendered # Absent => IsSeq(comp.rendered[2]),
         NEW d, IsSeq(d), NEW ext, NEW r \in Leaves(files, comp, d, ext)
  PROVE  IsSeq(r) /\ Len(r) \in Nat \ {0}
<1>1. CASE comp.rendered # Absent
  <2>1. r = d \o Names(comp.rendered[2])
    BY <1>1, Zenon DEF Leaves, NamedLeaf
  <2>2. IsSeq(Names(comp.rendered[2])) /\ Len(Names(comp.rendered[2])) \in Nat \ {0}
    BY <1>1, NamesAreSeq
  <2> QED BY <2>1, <2>2, ConcatIsSeq
<1>2. ASSUME NEW f \in Below(files, d), r = StemsOf(f) PROVE IsSeq(r) /\ Len(r) \in Nat \ {0}
  <2>1. f \in DOMAIN files
    BY DEF Below
  <2>2. IsSeq(f) /\ f # <<>>
    BY <2>1, Zenon DEF Tree
  <2> QED BY <1>2, <2>2, StemsAreSeq
<1>3. CASE comp.rendered = Absent /\ comp.recursive
  <2>1. r \in RecordsBelow(files, d, ext)
    BY <1>3, Zenon DEF Leaves
  <2>2. PICK f \in Below(files, d) : r = StemsOf(f)
    BY <2>1, Zenon DEF RecordsBelow
  <2> QED BY <1>2, <2>2
<1>4. CASE comp.rendered = Absent /\ ~comp.recursive
  <2>1. r \in RecordsIn(files, d, ext)
    BY <1>4, Zenon DEF Leaves
  <2>2. PICK f \in Below(files, d) : r = StemsOf(f)
    BY <2>1, Zenon DEF RecordsIn
  <2> QED BY <1>2, <2>2
<1> QED BY <1>1, <1>3, <1>4

\* Every candidate is one of the records that the sheet lists: also one that the
\* template names outright, without looking.
THEOREM CandidatesAreRecords ==
  ASSUME NEW files, Tree(files), NEW template, Compiled(template), NEW q, Value(q), NEW ext,
         CandidatePaths(files, template, q, ext)[1] = "paths",
         NEW r \in CandidatePaths(files, template, q, ext)[2]
  PROVE  /\ FileOf(r, ext) \in DOMAIN files
         /\ IsRecordFile(FileOf(r, ext), ext)
         /\ r = StemsOf(FileOf(r, ext))
<1> DEFINE planned == PlanQuery(template, q)
           plan == Planned(template, q)
           n == Len(template)
<1>1. n \in Nat \ {0}
  BY ParsedIs
<1>2. CandidatePaths(files, template, q, ext) =
        IF Failed(planned) THEN planned ELSE <<"paths", Walk(files, planned[2], ext)>>
  BY Zenon DEF CandidatePaths, Then
<1> HIDE DEF planned
<1>3. ~Failed(planned)
  <2> SUFFICES ASSUME Failed(planned) PROVE FALSE
    OBVIOUS
  <2>1. planned[1] = "paths"
    BY <1>2, Zenon
  <2> QED BY <2>1 DEF Failed
<1>4. /\ planned = <<"plan", plan>>
      /\ \A i \in 1 .. n : plan[i].rendered # Absent => IsSeq(plan[i].rendered[2])
  BY <1>3, PlanIs DEF planned
<1>5. Len(plan) = n
  <2> DEFINE U == {plan[i] : i \in 1 .. n}
  <2>1. DOMAIN plan = 1 .. n /\ plan = [i \in DOMAIN plan |-> plan[i]]
    BY DEF Planned
  <2>2. \A i \in 1 .. n : plan[i] \in U
    OBVIOUS
  <2> HIDE DEF U, plan
  <2> QED BY <1>1, <2>1, <2>2, MakesSequence
<1> HIDE DEF plan
<1>6. r \in Walk(files, plan, ext)
  <2>1. planned[2] = plan
    BY <1>4
  <2> QED BY <1>2, <1>3, <2>1
<1>7. PICK a : /\ a[0] = {<<>>}
               /\ \A i \in 1 .. n - 1 : a[i] = UNION {Onward(files, plan[i], d) : d \in a[i - 1]}
               /\ Reached(files, plan) = a[n - 1]
  <2>1. Len(plan) - 1 = n - 1 /\ Len(plan) \in Nat \ {0}
    BY <1>1, <1>5
  <2>2. PICK a : /\ a[0] = {<<>>}
                 /\ \A i \in 1 .. Len(plan) - 1 :
                       a[i] = UNION {Onward(files, plan[i], d) : d \in a[i - 1]}
                 /\ Reached(files, plan) = a[Len(plan) - 1]
    BY <2>1, ReachedSteps
  <2> QED BY <2>1, <2>2, Zenon
<1> DEFINE S == {i \in 0 .. n - 1 : \A d \in a[i] : IsSeq(d)}
<1>8. 0 \in S
  <2>1. IsSeq(<<>>)
    <3>1. <<>> \in Seq({})
      OBVIOUS
    <3> QED BY <3>1, Zenon DEF IsSeq
  <2> QED BY <1>1, <1>7, <2>1
<1>9. ASSUME NEW i \in 0 .. (n - 1) - 1, i \in S PROVE i + 1 \in S
  <2> DEFINE m == i + 1
  <2>1. m \in 1 .. n - 1 /\ m \in 1 .. n /\ m \in 0 .. n - 1 /\ m - 1 = i
    BY <1>1
  <2> HIDE DEF m
  <2>2. ASSUME NEW e \in a[m] PROVE IsSeq(e)
    <3>1. a[m] = UNION {Onward(files, plan[m], d) : d \in a[m - 1]}
      BY <1>7, <2>1
    <3>2. PICK d \in a[m - 1] : e \in Onward(files, plan[m], d)
      BY <2>2, <3>1, Zenon
    <3>3. IsSeq(d)
      BY <1>9, <2>1, <3>2
    <3>4. plan[m].rendered # Absent => IsSeq(plan[m].rendered[2])
      BY <1>4, <2>1
    <3> QED BY <3>2, <3>3, <3>4, OnwardIsSeq
  <2> QED BY <2>1, <2>2 DEF m
<1>10. \A d \in Reached(files, plan) : IsSeq(d)
  <2> HIDE DEF S
  <2>1. n - 1 \in Nat
    BY <1>1
  <2>2. 0 .. n - 1 \subseteq S
    BY <1>8, <1>9, <2>1, Induction
  <2> QED BY <1>7, <2>1, <2>2 DEF S
<1>11. PICK d \in Reached(files, plan) : r \in Leaves(files, Last(plan), d, ext)
  BY <1>6, Zenon DEF Walk
<1>12. Last(plan) = plan[n] /\ n \in 1 .. n
  BY <1>1, <1>5 DEF Last
<1>13. IsSeq(r) /\ Len(r) \in Nat \ {0}
  <2>1. plan[n].rendered # Absent => IsSeq(plan[n].rendered[2])
    BY <1>4, <1>12
  <2>2. r \in Leaves(files, plan[n], d, ext) /\ IsSeq(d)
    BY <1>10, <1>11, <1>12
  <2> QED BY <2>1, <2>2, LeafIsSeq
<1>14. FileOf(r, ext) \in DOMAIN files
  BY CandidatesAreFiles
<1>15. Len(r) # 0
  BY <1>13
<1> QED BY <1>13, <1>14, <1>15, FileIs, Zenon
=============================================================================
