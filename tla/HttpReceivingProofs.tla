------------------------- MODULE HttpReceivingProofs -------------------------
(***************************************************************************)
(* What holds of HttpReceiving for every text and every way to cut it.     *)
(*                                                                         *)
(* The operators on streams are recursive functions; what each computes is *)
(* proved by the induction of SequenceProofs.                              *)
(***************************************************************************)
EXTENDS HttpReceiving, SequenceProofs

-----------------------------------------------------------------------------
(* Sizes. *)

\* f[i] is the length of the first i sequences of s.
Counts(f, s) == f[0] = 0 /\ \A i \in 1..Len(s) : f[i] = f[i - 1] + Len(s[i])

LEMMA CountsExists ==
  ASSUME NEW B, NEW s \in Seq(Seq(B))
  PROVE  \E f \in [0..Len(s) -> Nat] : Counts(f, s)
<1>. DEFINE F == [p \in (1..Len(s)) \X Nat |-> p[2] + Len(s[p[1]])]
<1>1. F \in [(1..Len(s)) \X Nat -> Nat]
  <2>1. ASSUME NEW p \in (1..Len(s)) \X Nat PROVE p[2] + Len(s[p[1]]) \in Nat
    <3>1. p[2] \in Nat /\ s[p[1]] \in Seq(B) BY ElementOfSeq
    <3>2. Len(s[p[1]]) \in Nat BY <3>1
    <3>. QED BY <3>1, <3>2
  <2>. QED BY <2>1
<1>2. 0 \in Nat /\ Len(s) \in Nat
  OBVIOUS
<1>3. \A i \in 1..Len(s), x \in Nat : F[<<i, x>>] = x + Len(s[i])
  OBVIOUS
<1>. HIDE DEF F
<1>4. PICK f \in [0..Len(s) -> Nat] : Steps(f, Len(s), 0, F)
  BY <1>1, <1>2, StepsExist
<1>5. ASSUME NEW i \in 1..Len(s) PROVE f[i - 1] \in Nat
  <2>1. i - 1 \in 0..Len(s) BY <1>2
  <2>. QED BY <2>1
<1>6. Counts(f, s)
  BY <1>3, <1>4, <1>5 DEF Steps, Counts
<1>. QED BY <1>6

BeforeEquation(f, s) ==
  f = [j \in 1..Len(s) + 1 |-> IF j = 1 THEN 0 ELSE f[j - 1] + Len(s[j - 1])]

LEMMA LengthBeforeIs ==
  ASSUME NEW s, NEW i
  PROVE  LengthBefore(s, i) = (CHOOSE f : BeforeEquation(f, s))[i]
BY DEF LengthBefore, BeforeEquation

LEMMA LengthBeforeStep ==
  ASSUME NEW B, NEW s \in Seq(Seq(B))
  PROVE  /\ LengthBefore(s, 1) = 0
         /\ \A i \in 1..Len(s) + 1 : LengthBefore(s, i) \in Nat
         /\ \A i \in 1..Len(s) : LengthBefore(s, i + 1) = LengthBefore(s, i) + Len(s[i])
<1>. PICK n : n = Len(s)
  OBVIOUS
<1>0. n \in Nat OBVIOUS
<1>1. PICK h \in [0..n -> Nat] : Counts(h, s)
  BY CountsExists
<1>2. PICK g : g = [j \in 1..n + 1 |-> h[j - 1]]
  OBVIOUS
<1>3. ASSUME NEW j \in 1..n + 1
      PROVE  g[j] = IF j = 1 THEN 0 ELSE g[j - 1] + Len(s[j - 1])
  <2>1. CASE j = 1 BY <1>0, <1>1, <1>2, <2>1 DEF Counts
  <2>2. CASE j # 1
    <3>1. j - 1 \in 1..n /\ j - 1 \in 1..n + 1 BY <1>0, <2>2
    <3>2. h[j - 1] = h[(j - 1) - 1] + Len(s[j - 1]) BY <1>1, <3>1 DEF Counts
    <3>. QED BY <1>2, <2>2, <3>1, <3>2
  <2>. QED BY <2>1, <2>2
<1>4. BeforeEquation(g, s) BY <1>2, <1>3 DEF BeforeEquation
<1>5. PICK b : b = CHOOSE f : BeforeEquation(f, s)
  OBVIOUS
<1>6. BeforeEquation(b, s) BY <1>4, <1>5
<1>7. \A i : LengthBefore(s, i) = b[i] BY <1>5, LengthBeforeIs
<1>8. b[1] = 0 BY <1>0, <1>6 DEF BeforeEquation
<1>9. ASSUME NEW i \in 1..n PROVE b[i + 1] = b[i] + Len(s[i])
  <2>1. i + 1 \in 1..n + 1 /\ i + 1 # 1 /\ (i + 1) - 1 = i BY <1>0
  <2>. QED BY <1>6, <2>1 DEF BeforeEquation
<1>10. \A i \in 0..n : b[i + 1] \in Nat
  <2>. DEFINE T == {i \in 0..n : b[i + 1] \in Nat}
  <2>1. 0 \in T BY <1>0, <1>8
  <2>2. ASSUME NEW i \in 1..n, i - 1 \in T PROVE i \in T
    <3>1. b[i] \in Nat BY <2>2
    <3>2. s[i] \in Seq(B) BY ElementOfSeq
    <3>3. Len(s[i]) \in Nat BY <3>2
    <3>. QED BY <1>0, <1>9, <3>1, <3>3
  <2>. HIDE DEF T
  <2>3. 0..n \subseteq T BY <1>0, <2>1, <2>2, UpTo
  <2>. QED BY <2>3 DEF T
<1>11. ASSUME NEW i \in 1..n + 1 PROVE b[i] \in Nat
  <2>1. i - 1 \in 0..n /\ (i - 1) + 1 = i BY <1>0
  <2>. QED BY <1>10, <2>1
<1>. QED BY <1>7, <1>8, <1>9, <1>11

LEMMA LengthBeforeGrows ==
  ASSUME NEW B, NEW s \in Seq(Seq(B)),
         NEW i \in 1..Len(s) + 1, NEW k \in 1..Len(s) + 1, i <= k
  PROVE  LengthBefore(s, i) <= LengthBefore(s, k)
<1>. PICK n : n = Len(s)
  OBVIOUS
<1>0. n \in Nat OBVIOUS
<1>. DEFINE T == {m \in 0..n : i <= m + 1 => LengthBefore(s, i) <= LengthBefore(s, m + 1)}
<1>1. 0 \in T
  <2>1. i <= 1 => i = 1 OBVIOUS
  <2>2. LengthBefore(s, i) \in Nat BY LengthBeforeStep
  <2>. QED BY <1>0, <2>1, <2>2
<1>2. ASSUME NEW m \in 1..n, m - 1 \in T PROVE m \in T
  <2>1. LengthBefore(s, m + 1) = LengthBefore(s, m) + Len(s[m])
    BY LengthBeforeStep
  <2>2. LengthBefore(s, m) \in Nat /\ LengthBefore(s, m + 1) \in Nat
        /\ LengthBefore(s, i) \in Nat
    BY <1>0, LengthBeforeStep
  <2>3. s[m] \in Seq(B) BY ElementOfSeq
  <2>4. Len(s[m]) \in Nat BY <2>3
  <2>5. i <= m => LengthBefore(s, i) <= LengthBefore(s, m)
    <3>1. (m - 1) + 1 = m OBVIOUS
    <3>. QED BY <1>2, <3>1
  <2>6. CASE i <= m BY SMTT(60), <2>1, <2>2, <2>4, <2>5, <2>6
  <2>7. CASE ~ (i <= m)
    <3>1. i <= m + 1 => i = m + 1 BY <2>7
    <3>. QED BY <2>2, <3>1
  <2>. QED BY <2>6, <2>7
<1>. HIDE DEF T
<1>3. 0..n \subseteq T BY <1>0, <1>1, <1>2, UpTo
<1>4. k - 1 \in T /\ (k - 1) + 1 = k BY SMTT(60), <1>0, <1>3
<1>. QED BY <1>4 DEF T

\* Where the bytes of the sequences of s are in c.
IsSpread(c, s) ==
  /\ Len(c) = Size(s)
  /\ \A i \in 1..Len(s) : \A j \in 1..Len(s[i]) : c[LengthBefore(s, i) + j] = s[i][j]

LEMMA FlatIsSpread ==
  ASSUME NEW B, NEW s \in Seq(Seq(B))
  PROVE  IsSpread(FlattenSeq(s), s)
<1>. PICK n : n = Len(s)
  OBVIOUS
<1>0. n \in Nat OBVIOUS
<1>1. PICK f \in [0..n -> Seq(B)] : Flattens(f, s)
  BY FlattensExists
<1>. DEFINE Done(m) == \A i \in 1..m : \A j \in 1..Len(s[i]) :
                         f[m][LengthBefore(s, i) + j] = s[i][j]
            T == {m \in 0..n : Len(f[m]) = LengthBefore(s, m + 1) /\ Done(m)}
<1>2. 0 \in T
  <2>1. f[0] = <<>> BY <1>1 DEF Flattens
  <2>2. LengthBefore(s, 1) = 0 BY LengthBeforeStep
  <2>3. Done(0) OBVIOUS
  <2>. QED BY <1>0, <2>1, <2>2, <2>3
<1>3. ASSUME NEW m \in 1..n, m - 1 \in T PROVE m \in T
  <2>0. m \in 0..n /\ m - 1 \in 0..n /\ (m - 1) + 1 = m BY <1>0
  <2>1. f[m] = Cat(f[m - 1], s[m]) BY <1>1 DEF Flattens
  <2>2. f[m - 1] \in Seq(B) /\ s[m] \in Seq(B) BY <1>1, <2>0, ElementOfSeq
  <2>3. Places(f[m], f[m - 1], s[m]) BY <2>1, <2>2, CatPlaces
  <2>4. Len(f[m - 1]) = LengthBefore(s, m)
    BY <1>3, <2>0
  <2>5. LengthBefore(s, m + 1) = LengthBefore(s, m) + Len(s[m])
    BY LengthBeforeStep
  <2>6. Len(f[m]) = LengthBefore(s, m + 1)
    BY <2>3, <2>4, <2>5 DEF Places
  <2>7. ASSUME NEW i \in 1..m, NEW j \in 1..Len(s[i])
        PROVE  f[m][LengthBefore(s, i) + j] = s[i][j]
    <3>1. CASE i = m
      BY <2>3, <2>4, <3>1 DEF Places
    <3>2. CASE i # m
      <4>1. i \in 1..m - 1 BY <3>2
      <4>2. f[m - 1][LengthBefore(s, i) + j] = s[i][j]
        <5>1. Done(m - 1) BY <1>3
        <5>. QED BY <4>1, <5>1
      <4>3. LengthBefore(s, i + 1) = LengthBefore(s, i) + Len(s[i])
        BY LengthBeforeStep
      <4>4. LengthBefore(s, i) \in Nat /\ LengthBefore(s, i + 1) \in Nat
            /\ LengthBefore(s, m) \in Nat
        BY SMTT(60), <1>0, LengthBeforeStep
      <4>5. LengthBefore(s, i + 1) <= LengthBefore(s, m)
        <5>1. i + 1 \in 1..Len(s) + 1 /\ m \in 1..Len(s) + 1 /\ i + 1 <= m
          BY <1>0, <4>1
        <5>. QED BY <5>1, LengthBeforeGrows
      <4>6. s[i] \in Seq(B) BY ElementOfSeq
      <4>7. Len(s[i]) \in Nat BY <4>6
      <4>8. LengthBefore(s, i) + j \in 1..Len(f[m - 1])
        <5>1. j \in Nat /\ 1 <= j /\ j <= Len(s[i]) BY <4>7
        <5>2. LengthBefore(s, i) + Len(s[i]) <= Len(f[m - 1])
          BY <2>4, <4>3, <4>5
        <5>3. \A x, y, z, l \in Nat : 1 <= y /\ y <= l /\ x + l <= z => x + y \in 1..z
          OBVIOUS
        <5>4. Len(f[m - 1]) \in Nat BY <2>2
        <5>. QED BY ONLY <4>4, <4>7, <5>1, <5>2, <5>3, <5>4
      <4>. QED BY <2>3, <4>2, <4>8 DEF Places
    <3>. QED BY <3>1, <3>2
  <2>. QED BY <2>0, <2>6, <2>7
<1>. HIDE DEF T
<1>4. 0..n \subseteq T BY <1>0, <1>2, <1>3, UpTo
<1>5. n \in T BY <1>0, <1>4
<1>6. Len(f[n]) = LengthBefore(s, n + 1) /\ Done(n) BY <1>5 DEF T
<1>7. FlattenSeq(s) = f[n] BY <1>1, FlattenSeqIs
<1>. QED BY <1>6, <1>7 DEF IsSpread, Size

LEMMA SizeIs ==
  ASSUME NEW B, NEW s \in Seq(Seq(B))
  PROVE  Size(s) = Len(FlattenSeq(s)) /\ Size(s) \in Nat
<1>1. Size(s) = Len(FlattenSeq(s)) BY FlatIsSpread DEF IsSpread
<1>2. FlattenSeq(s) \in Seq(B) BY FlattenType
<1>. QED BY <1>1, <1>2

LEMMA SizeAppend ==
  ASSUME NEW B, NEW s \in Seq(Seq(B)), NEW x \in Seq(B)
  PROVE  Size(Append(s, x)) = Size(s) + Len(x)
<1>1. Append(s, x) \in Seq(Seq(B)) BY AppendProperties
<1>2. FlattenSeq(Append(s, x)) = Cat(FlattenSeq(s), x) BY FlattenAppend
<1>3. Places(Cat(FlattenSeq(s), x), FlattenSeq(s), x) BY FlattenType, CatPlaces
<1>4. Size(s) = Len(FlattenSeq(s)) BY SizeIs
<1>5. Size(Append(s, x)) = Len(FlattenSeq(Append(s, x))) BY <1>1, SizeIs
<1>. QED BY <1>2, <1>3, <1>4, <1>5 DEF Places

\* The buffer a byte is in.
LEMMA BufferExists ==
  ASSUME NEW B, NEW s \in Seq(Seq(B)), NEW k \in Nat, k < Size(s)
  PROVE  \E i \in 1..Len(s) : LengthBefore(s, i) <= k /\ k < LengthBefore(s, i + 1)
<1>. PICK n : n = Len(s)
  OBVIOUS
<1>0. n \in Nat OBVIOUS
<1>1. PICK T : T = {i \in 1..n : k < LengthBefore(s, i + 1)}
  OBVIOUS
<1>2. n # 0
  BY LengthBeforeStep DEF Size
<1>3. n \in T BY <1>0, <1>1, <1>2 DEF Size
<1>4. PICK i \in T : \A j \in T : i <= j
  <2>1. T \subseteq Nat /\ T # {} BY <1>1, <1>3
  <2>. QED BY <2>1, LeastNat
<1>5. LengthBefore(s, i) \in Nat BY <1>0, <1>1, LengthBeforeStep
<1>6. LengthBefore(s, i) <= k
  <2>1. CASE i = 1 BY <2>1, LengthBeforeStep
  <2>2. CASE i # 1
    <3>1. i - 1 \in 1..n /\ (i - 1) + 1 = i /\ i - 1 < i BY <1>0, <1>1, <2>2
    <3>2. i - 1 \notin T BY <1>4, <3>1
    <3>. QED BY <1>1, <1>5, <3>1, <3>2
  <2>. QED BY <2>1, <2>2
<1>. QED BY <1>1, <1>6

LEMMA PlaceExists ==
  ASSUME NEW B, NEW s \in Seq(Seq(B)), NEW p \in Nat \ {0}, p <= Size(s)
  PROVE  \E i \in 1..Len(s) : \E j \in 1..Len(s[i]) : LengthBefore(s, i) + j = p
<1>1. p - 1 \in Nat /\ p - 1 < Size(s) BY SizeIs
<1>2. PICK i \in 1..Len(s) : LengthBefore(s, i) <= p - 1 /\ p - 1 < LengthBefore(s, i + 1)
  BY <1>1, BufferExists
<1>3. LengthBefore(s, i) \in Nat
      /\ LengthBefore(s, i + 1) = LengthBefore(s, i) + Len(s[i])
  BY LengthBeforeStep
<1>4. s[i] \in Seq(B) BY ElementOfSeq
<1>5. Len(s[i]) \in Nat BY <1>4
<1>6. p - LengthBefore(s, i) \in 1..Len(s[i])
      /\ LengthBefore(s, i) + (p - LengthBefore(s, i)) = p
  BY SMTT(60), <1>2, <1>3, <1>5
<1>. QED BY <1>6

\* The one sequence whose bytes are where those of s are.
LEMMA SpreadIsFlat ==
  ASSUME NEW B, NEW s \in Seq(Seq(B)), NEW c \in Seq(B), IsSpread(c, s)
  PROVE  c = FlattenSeq(s)
<1>. PICK d : d = FlattenSeq(s)
  OBVIOUS
<1>1. d \in Seq(B) /\ IsSpread(d, s)
  BY FlattenType, FlatIsSpread
<1>2. Len(c) = Len(d) BY <1>1 DEF IsSpread
<1>3. ASSUME NEW p \in 1..Len(c) PROVE c[p] = d[p]
  <2>1. p \in Nat \ {0} /\ p <= Size(s)
    BY <1>1, <1>2 DEF IsSpread
  <2>2. PICK i \in 1..Len(s) : \E j \in 1..Len(s[i]) : LengthBefore(s, i) + j = p
    BY <2>1, PlaceExists
  <2>. QED BY SMTT(60), <1>1, <2>2 DEF IsSpread
<1>. QED BY <1>1, <1>2, <1>3, SeqEqual

-----------------------------------------------------------------------------
(* Streams: sequences of buffers, none of which is empty. *)

Streams(B) == Seq(Seq(B) \ {<<>>})

LEMMA StreamType ==
  ASSUME NEW B, NEW s \in Streams(B)
  PROVE  /\ s \in Seq(Seq(B))
         /\ \A i \in 1..Len(s) : s[i] \in Seq(B) /\ s[i] # <<>> /\ Len(s[i]) \in Nat \ {0}
<1>1. s \in Seq(Seq(B)) BY SeqMonotonic DEF Streams
<1>2. ASSUME NEW i \in 1..Len(s)
      PROVE s[i] \in Seq(B) /\ s[i] # <<>> /\ Len(s[i]) \in Nat \ {0}
  <2>1. s[i] \in Seq(B) \ {<<>>} BY ElementOfSeq DEF Streams
  <2>. QED BY <2>1, EmptySeq
<1>. QED BY <1>1, <1>2

LEMMA FindIndexIs ==
  ASSUME NEW B, NEW s \in Seq(Seq(B)), NEW k \in Nat, k < Size(s)
  PROVE  /\ FindIndex(s, k).buffer \in 1..Len(s)
         /\ FindIndex(s, k).offset \in Nat
         /\ FindIndex(s, k).offset < Len(s[FindIndex(s, k).buffer])
         /\ LengthBefore(s, FindIndex(s, k).buffer) + FindIndex(s, k).offset = k
<1>1. PICK i \in 1..Len(s) : LengthBefore(s, i) <= k /\ k < LengthBefore(s, i + 1)
  BY BufferExists
<1>2. LengthBefore(s, i + 1) = LengthBefore(s, i) + Len(s[i]) /\ LengthBefore(s, i) \in Nat
  BY <1>1, LengthBeforeStep
<1>o. PICK o : o = k - LengthBefore(s, i)
  OBVIOUS
<1>a. PICK a : a = [buffer |-> i, offset |-> o]
  OBVIOUS
<1>3. o \in 0..k /\ LengthBefore(s, i) + o = k /\ o < Len(s[i])
  <2>1. s[i] \in Seq(B) /\ Len(s[i]) \in Nat BY ElementOfSeq
  <2>. QED BY SMTT(60), <1>1, <1>2, <1>o, <2>1
<1>4. /\ a \in [buffer : DOMAIN s, offset : 0..k]
      /\ LengthBefore(s, a.buffer) + a.offset = k /\ a.offset < Len(s[a.buffer])
  BY <1>3, <1>a
<1>f. PICK f : f = FindIndex(s, k)
  OBVIOUS
<1>5. /\ f \in [buffer : DOMAIN s, offset : 0..k]
      /\ LengthBefore(s, f.buffer) + f.offset = k /\ f.offset < Len(s[f.buffer])
  BY <1>4, <1>f DEF FindIndex
<1>6. f.buffer \in 1..Len(s) /\ f.offset \in Nat BY <1>5
<1>. QED BY <1>5, <1>6, <1>f

LEMMA ByteAtIs ==
  ASSUME NEW B, NEW s \in Seq(Seq(B)), NEW k \in Nat, k < Size(s)
  PROVE  ByteAt(s, k) = FlattenSeq(s)[k + 1]
<1>. PICK at : at = FindIndex(s, k)
  OBVIOUS
<1>1. at.buffer \in 1..Len(s) /\ at.offset + 1 \in 1..Len(s[at.buffer])
      /\ LengthBefore(s, at.buffer) + at.offset = k
  <2>1. s[at.buffer] \in Seq(B) BY FindIndexIs, ElementOfSeq
  <2>2. Len(s[at.buffer]) \in Nat BY <2>1
  <2>. QED BY SMTT(60), <2>2, FindIndexIs
<1>2. LengthBefore(s, at.buffer) \in Nat BY <1>1, LengthBeforeStep
<1>3. at.offset \in Nat BY FindIndexIs
<1>4. LengthBefore(s, at.buffer) + (at.offset + 1) = k + 1
  <2>1. \A x, y \in Nat : x + y = k => x + (y + 1) = k + 1 OBVIOUS
  <2>. QED BY <1>1, <1>2, <1>3, <2>1
<1>. QED BY SMTT(60), <1>1, <1>4, FlatIsSpread DEF IsSpread, ByteAt

\* c is what b has from one offset up to another.
CutAt(c, b, from, to) ==
  Len(c) = to - from /\ \A j \in 1..to - from : c[j] = b[from + j]

LEMMA CutIs ==
  ASSUME NEW B, NEW b \in Seq(B), NEW from \in Nat, NEW to \in Nat,
         from <= to, to <= Len(b)
  PROVE  SubSeq(b, from + 1, to) \in Seq(B) /\ CutAt(SubSeq(b, from + 1, to), b, from, to)
<1>. PICK m : m = from + 1
  OBVIOUS
<1>1. m \in Int /\ to \in Int /\ \A i \in m..to : b[i] \in B
  <2>1. \A i \in m..to : i \in 1..Len(b) OBVIOUS
  <2>. QED BY <2>1, ElementOfSeq
<1>2. /\ SubSeq(b, m, to) \in Seq(B)
      /\ Len(SubSeq(b, m, to)) = IF m <= to THEN to - m + 1 ELSE 0
      /\ \A i \in 1..to - m + 1 : SubSeq(b, m, to)[i] = b[m + i - 1]
  BY <1>1, SubSeqProperties
<1>3. (IF m <= to THEN to - m + 1 ELSE 0) = to - from /\ to - m + 1 = to - from
  OBVIOUS
<1>4. \A i \in 1..to - from : m + i - 1 = from + i
  OBVIOUS
<1>. QED BY <1>2, <1>3, <1>4 DEF CutAt

LEMMA SliceIs ==
  ASSUME NEW B, NEW b \in Seq(B), NEW from \in Nat, NEW to \in Nat,
         from < to, to <= Len(b)
  PROVE  /\ Slice(b, from, to - from) \in Seq(B) \ {<<>>}
         /\ CutAt(Slice(b, from, to - from), b, from, to)
<1>1. Len(b) \in Nat OBVIOUS
<1>2. Less(to - from, Len(b) - from) = to - from BY <1>1 DEF Less
<1>3. ~ (from >= Len(b)) /\ from + (to - from) = to BY <1>1
<1>. PICK c : c = SubSeq(b, from + 1, to)
  OBVIOUS
<1>4. Slice(b, from, to - from) = c
  BY <1>2, <1>3 DEF Slice
<1>5. CutAt(c, b, from, to) /\ c \in Seq(B)
  BY CutIs
<1>6. Len(c) # 0
  BY <1>5 DEF CutAt
<1>7. c # <<>>
  BY <1>6
<1>. QED BY <1>4, <1>5, <1>7

\* v is the m slices of s from offset a up to e: the n-th is of the buffer i[n].
AreSlices(v, s, a, e, m, i, from, to) ==
  /\ v = [n \in 1..m |-> Slice(s[i[n]], from[n], to[n] - from[n])]
  /\ \A n \in 1..m : from[n] \in Nat /\ to[n] \in Nat
  /\ \A n \in 1..m : i[n] \in 1..Len(s) /\ from[n] < to[n] /\ to[n] <= Len(s[i[n]])
  /\ \A n \in 1..m - 1 : i[n + 1] = i[n] + 1 /\ to[n] = Len(s[i[n]]) /\ from[n + 1] = 0
  /\ LengthBefore(s, i[1]) + from[1] = a
  /\ LengthBefore(s, i[m]) + to[m] = e

LEMMA SlicesBetweenAre ==
  ASSUME NEW B, NEW s \in Streams(B), NEW a \in Nat, NEW e \in Nat, a < e, e <= Size(s)
  PROVE  \E m \in Nat \ {0} : \E i, from, to :
           AreSlices(SlicesBetween(s, FindIndex(s, a), FindIndex(s, e - 1)),
                     s, a, e, m, i, from, to)
<1>. PICK f : f = FindIndex(s, a)
  OBVIOUS
<1>. PICK l : l = FindIndex(s, e - 1)
  OBVIOUS
<1>. PICK fb : fb = f.buffer
  OBVIOUS
<1>. PICK fo : fo = f.offset
  OBVIOUS
<1>. PICK lb : lb = l.buffer
  OBVIOUS
<1>. PICK lo : lo = l.offset
  OBVIOUS
<1>0. s \in Seq(Seq(B)) /\ Size(s) \in Nat /\ Len(s) \in Nat
  BY StreamType, SizeIs
<1>1. /\ fb \in 1..Len(s) /\ fb \in Nat /\ fo \in Nat /\ fo < Len(s[fb])
      /\ LengthBefore(s, fb) + fo = a
  BY <1>0, FindIndexIs
<1>2. /\ lb \in 1..Len(s) /\ lb \in Nat /\ lo \in Nat /\ lo < Len(s[lb])
      /\ LengthBefore(s, lb) + lo = e - 1
  <2>1. e - 1 \in Nat /\ e - 1 < Size(s) BY <1>0
  <2>. QED BY <1>0, <2>1, FindIndexIs
<1>n. PICK z : z = Len(s)
  OBVIOUS
<1>b. z \in Nat /\ fb \in Nat /\ lb \in Nat /\ 1 <= fb /\ fb <= z /\ 1 <= lb /\ lb <= z
  BY <1>0, <1>1, <1>2, <1>n
<1>3. /\ LengthBefore(s, fb) \in Nat /\ LengthBefore(s, lb) \in Nat
      /\ LengthBefore(s, lb + 1) = LengthBefore(s, lb) + Len(s[lb])
      /\ Len(s[lb]) \in Nat
  <2>1. fb \in 1..Len(s) + 1 /\ lb \in 1..Len(s) + 1 BY SMTT(60), <1>0, <1>1, <1>2
  <2>. QED BY <1>0, <1>1, <1>2, <2>1, LengthBeforeStep, StreamType
<1>4. fb <= lb
  <2>1. SUFFICES ASSUME lb < fb PROVE FALSE
    BY <1>b
  <2>a. lb + 1 \in 1..z + 1 /\ fb \in 1..z + 1 /\ lb + 1 <= fb
    BY <1>b, <2>1
  <2>2. lb + 1 \in 1..Len(s) + 1 /\ fb \in 1..Len(s) + 1 /\ lb + 1 <= fb
    BY <1>n, <2>a
  <2>3. LengthBefore(s, lb + 1) <= LengthBefore(s, fb)
    BY <1>0, <2>2, LengthBeforeGrows
  <2>. QED BY ONLY SMTT(60), <1>1, <1>2, <1>3, <2>3, a \in Nat, e \in Nat, a < e
<1>5. fb = lb => fo <= lo
  BY ONLY <1>1, <1>2, <1>3, a \in Nat, e \in Nat, a < e
<1>m. PICK m : m = lb - fb + 1
  OBVIOUS
<1>6. m \in Nat \ {0} /\ fb + m - 1 = lb BY ONLY <1>b, <1>4, <1>m
<1>i. PICK i : i = [n \in Nat |-> fb + n - 1]
  OBVIOUS
<1>f. PICK from : from = [n \in Nat |-> IF n = 1 THEN fo ELSE 0]
  OBVIOUS
<1>t. PICK to : to = [n \in Nat |-> IF n = m THEN lo + 1
                                   ELSE IF i[n] \in 1..Len(s) THEN Len(s[i[n]]) ELSE 0]
  OBVIOUS
<1>7. i \in [Nat -> Nat] /\ from \in [Nat -> Nat]
  <2>1. \A n \in Nat : fb + n - 1 \in Nat BY <1>1
  <2>. QED BY <1>1, <2>1, <1>i, <1>f
<1>8. to \in [Nat -> Nat]
  <2>1. ASSUME NEW n \in Nat
        PROVE  (IF n = m THEN lo + 1
                ELSE IF i[n] \in 1..Len(s) THEN Len(s[i[n]]) ELSE 0) \in Nat
    <3>1. i[n] \in 1..Len(s) => Len(s[i[n]]) \in Nat BY StreamType
    <3>. QED BY <1>2, <3>1
  <2>. QED BY <2>1, <1>t
<1>9. ASSUME NEW n \in 1..m
      PROVE  /\ n \in Nat /\ i[n] = fb + n - 1 /\ i[n] \in 1..Len(s)
             /\ from[n] = IF i[n] = fb THEN fo ELSE 0
             /\ to[n] = IF i[n] = lb THEN lo + 1 ELSE Len(s[i[n]])
             /\ from[n] < to[n] /\ to[n] <= Len(s[i[n]])
  <2>0. n \in Nat BY <1>6
  <2>a. n <= m /\ 1 <= n OBVIOUS
  <2>b. fb + n - 1 \in 1..z /\ (fb + n - 1 = fb <=> n = 1) /\ (fb + n - 1 = lb <=> n = m)
    BY <1>b, <1>6, <2>0, <2>a
  <2>1. i[n] = fb + n - 1 /\ i[n] \in 1..Len(s)
    BY <1>i, <1>n, <2>0, <2>b
  <2>2. (i[n] = fb <=> n = 1) /\ (i[n] = lb <=> n = m)
    BY <2>1, <2>b
  <2>3. from[n] = IF i[n] = fb THEN fo ELSE 0 BY <2>0, <2>2, <1>f
  <2>4. to[n] = IF i[n] = lb THEN lo + 1 ELSE Len(s[i[n]]) BY <2>0, <2>1, <2>2, <1>t
  <2>. PICK k : k = i[n]
    OBVIOUS
  <2>5. Len(s[k]) \in Nat \ {0} BY <2>1, StreamType
  <2>6. to[n] <= Len(s[k])
    <3>1. CASE k = lb BY <1>2, <2>4, <2>5, <3>1
    <3>2. CASE k # lb BY <2>4, <2>5, <3>2
    <3>. QED BY <3>1, <3>2
  <2>7. from[n] < to[n]
    <3>1. CASE k = fb /\ k = lb BY <1>1, <1>2, <1>5, <2>3, <2>4, <3>1
    <3>2. CASE k = fb /\ k # lb BY <1>1, <2>3, <2>4, <3>2
    <3>3. CASE k # fb /\ k = lb BY <1>2, <2>3, <2>4, <3>3
    <3>4. CASE k # fb /\ k # lb BY <2>3, <2>4, <2>5, <3>4
    <3>. QED BY <3>1, <3>2, <3>3, <3>4
  <2>. QED BY <2>0, <2>1, <2>3, <2>4, <2>6, <2>7
<1>. PICK v : v = SlicesBetween(s, f, l)
  OBVIOUS
<1>10. v = [n \in 1..m |-> Slice(s[i[n]], from[n], to[n] - from[n])]
  <2>. DEFINE g(n) ==
                Slice(s[fb + n - 1], IF fb + n - 1 = fb THEN fo ELSE 0,
                      (IF fb + n - 1 = lb THEN lo + 1 ELSE Len(s[fb + n - 1]))
                      - (IF fb + n - 1 = fb THEN fo ELSE 0))
              h(n) == Slice(s[i[n]], from[n], to[n] - from[n])
  <2>1. v = [n \in 1..lb - fb + 1 |-> g(n)]
    BY DEF SlicesBetween
  <2>2. \A n \in 1..m : g(n) = h(n)
    BY <1>9
  <2>. HIDE DEF g, h
  <2>3. lb - fb + 1 = m BY ONLY <1>m
  <2>4. v = [n \in 1..m |-> h(n)] BY ONLY <2>1, <2>2, <2>3
  <2>. QED BY ONLY <2>4 DEF h
<1>11. ASSUME NEW n \in 1..m - 1
       PROVE  i[n + 1] = i[n] + 1 /\ to[n] = Len(s[i[n]]) /\ from[n + 1] = 0
  <2>1. n \in 1..m /\ n + 1 \in 1..m BY ONLY <1>6, n \in 1..m - 1
  <2>2. i[n] = fb + n - 1 /\ i[n + 1] = fb + (n + 1) - 1
    BY <2>1, <1>9
  <2>3. i[n] # lb /\ i[n + 1] # fb /\ i[n + 1] = i[n] + 1
    BY ONLY <1>b, <1>6, <2>2, n \in 1..m - 1
  <2>4. to[n] = IF i[n] = lb THEN lo + 1 ELSE Len(s[i[n]])
    BY <2>1, <1>9
  <2>5. from[n + 1] = IF i[n + 1] = fb THEN fo ELSE 0
    BY <2>1, <1>9
  <2>. QED BY <2>3, <2>4, <2>5
<1>12. LengthBefore(s, i[1]) + from[1] = a
  <2>1. fb + 1 - 1 = fb /\ 1 \in Nat BY <1>1
  <2>2. i[1] = fb /\ from[1] = fo BY <2>1, <1>i, <1>f
  <2>. QED BY <1>1, <2>2
<1>13. LengthBefore(s, i[m]) + to[m] = e
  <2>1. i[m] = lb /\ to[m] = lo + 1 BY <1>6, <1>i, <1>t
  <2>2. LengthBefore(s, lb) + lo = e - 1 /\ lo \in Nat BY <1>2
  <2>3. LengthBefore(s, lb) + (lo + 1) = e BY SMTT(60), <2>2, <1>3
  <2>. QED BY <2>1, <2>3
<1>14. AreSlices(v, s, a, e, m, i, from, to)
  BY ZenonT(60), <1>6, <1>7, <1>8, <1>9, <1>10, <1>11, <1>12, <1>13 DEF AreSlices
<1>. QED BY <1>6, <1>14

LEMMA SumsAgree ==
  \A a, x, y, f, j \in Int : x + a = y + f => a + (x + j) = y + (f + j)
OBVIOUS

LEMMA SlicesSpread ==
  ASSUME NEW B, NEW s \in Streams(B), NEW a \in Nat, NEW e \in Nat, a < e, e <= Size(s),
         NEW v, NEW m \in Nat \ {0}, NEW i, NEW from, NEW to,
         AreSlices(v, s, a, e, m, i, from, to)
  PROVE  v \in Streams(B) /\ FlattenSeq(v) = SubSeq(FlattenSeq(s), a + 1, e)
<1>c. PICK c : c = FlattenSeq(s)
  OBVIOUS
<1>d. PICK d : d = SubSeq(c, a + 1, e)
  OBVIOUS
<1>0. s \in Seq(Seq(B)) /\ Size(s) \in Nat /\ Len(s) \in Nat
  BY StreamType, SizeIs
<1>1. c \in Seq(B) /\ IsSpread(c, s) /\ Len(c) = Size(s)
  BY <1>0, <1>c, FlattenType, FlatIsSpread, SizeIs
<1>2. d \in Seq(B) /\ CutAt(d, c, a, e)
  BY SMTT(60), <1>1, <1>d, CutIs
<1>3. ASSUME NEW n \in 1..m
      PROVE  /\ n \in Nat /\ i[n] \in 1..Len(s) /\ from[n] \in Nat /\ to[n] \in Nat
             /\ from[n] < to[n] /\ to[n] <= Len(s[i[n]])
             /\ v[n] \in Seq(B) \ {<<>>} /\ CutAt(v[n], s[i[n]], from[n], to[n])
             /\ Len(v[n]) = to[n] - from[n]
  <2>0. n \in Nat OBVIOUS
  <2>1. i[n] \in 1..Len(s) /\ from[n] < to[n] /\ to[n] <= Len(s[i[n]])
        /\ v[n] = Slice(s[i[n]], from[n], to[n] - from[n])
    BY DEF AreSlices
  <2>2. s[i[n]] \in Seq(B) /\ from[n] \in Nat /\ to[n] \in Nat
    BY <1>0, <2>0, <2>1, ElementOfSeq DEF AreSlices
  <2>3. v[n] \in Seq(B) \ {<<>>} /\ CutAt(v[n], s[i[n]], from[n], to[n])
    BY SMTT(60), <2>1, <2>2, SliceIs
  <2>. QED BY <2>0, <2>1, <2>2, <2>3 DEF CutAt
<1>4. v \in Streams(B) /\ Len(v) = m
  <2>1. v = [n \in 1..m |-> v[n]] BY DEF AreSlices
  <2>2. v \in [1..m -> Seq(B) \ {<<>>}] BY <1>3, <2>1
  <2>. QED BY <2>2, SeqDef DEF Streams
<1>5. v \in Seq(Seq(B)) BY <1>4, StreamType
<1>6. ASSUME NEW n \in 1..m
      PROVE  /\ LengthBefore(v, n) \in Nat /\ LengthBefore(v, n + 1) \in Nat
             /\ LengthBefore(s, i[n]) \in Nat
             /\ LengthBefore(v, n + 1) = LengthBefore(v, n) + (to[n] - from[n])
             /\ LengthBefore(s, i[n] + 1) = LengthBefore(s, i[n]) + Len(s[i[n]])
  <2>1. n \in 1..m + 1 /\ n + 1 \in 1..m + 1 OBVIOUS
  <2>2. i[n] \in 1..Len(s) + 1
    <3>1. \A x \in Nat : \A y \in 1..x : y \in 1..x + 1 OBVIOUS
    <3>. QED BY <1>0, <1>3, <3>1
  <2>. QED BY <1>0, <1>3, <1>4, <1>5, <2>1, <2>2, LengthBeforeStep
<1>7. ASSUME NEW n \in 1..m
      PROVE  LengthBefore(v, n) + a = LengthBefore(s, i[n]) + from[n]
  <2>. DEFINE T == {k \in 0..m - 1 :
                      LengthBefore(v, k + 1) + a = LengthBefore(s, i[k + 1]) + from[k + 1]}
  <2>1. 0 \in T
    <3>1. LengthBefore(v, 1) = 0 BY <1>5, LengthBeforeStep
    <3>2. LengthBefore(s, i[1]) + from[1] = a BY DEF AreSlices
    <3>. QED BY <3>1, <3>2
  <2>2. ASSUME NEW k \in 1..m - 1, k - 1 \in T PROVE k \in T
    <3>0. (k - 1) + 1 = k /\ k \in 1..m /\ k + 1 \in 1..m OBVIOUS
    <3>1. LengthBefore(v, k) + a = LengthBefore(s, i[k]) + from[k]
      BY <2>2, <3>0
    <3>2. i[k + 1] = i[k] + 1 /\ to[k] = Len(s[i[k]]) /\ from[k + 1] = 0
      BY DEF AreSlices
    <3>3. /\ LengthBefore(v, k) \in Nat /\ LengthBefore(s, i[k]) \in Nat
          /\ LengthBefore(v, k + 1) = LengthBefore(v, k) + (to[k] - from[k])
          /\ LengthBefore(s, i[k] + 1) = LengthBefore(s, i[k]) + to[k]
      BY <1>6, <3>0, <3>2
    <3>4. from[k] \in Nat /\ to[k] \in Nat BY <1>3, <3>0
    <3>5. LengthBefore(v, k + 1) + a = LengthBefore(s, i[k] + 1) + 0
      <4>1. \A x, y, f, t \in Nat : x + a = y + f => (x + (t - f)) + a = (y + t) + 0
        OBVIOUS
      <4>. QED BY <3>1, <3>3, <3>4, <4>1
    <3>. QED BY <3>0, <3>2, <3>5
  <2>. HIDE DEF T
  <2>3. 0..m - 1 \subseteq T
    <3>1. m - 1 \in Nat OBVIOUS
    <3>. QED BY <2>1, <2>2, <3>1, UpTo
  <2>4. n - 1 \in T /\ (n - 1) + 1 = n BY <2>3
  <2>. QED BY <2>4 DEF T
<1>8. LengthBefore(v, m + 1) + a = e
  <2>0. m \in 1..m OBVIOUS
  <2>1. LengthBefore(s, i[m]) + to[m] = e BY DEF AreSlices
  <2>2. LengthBefore(v, m) + a = LengthBefore(s, i[m]) + from[m] BY <1>7, <2>0
  <2>3. /\ LengthBefore(v, m + 1) = LengthBefore(v, m) + (to[m] - from[m])
        /\ LengthBefore(v, m) \in Nat /\ LengthBefore(s, i[m]) \in Nat
    BY <1>6, <2>0
  <2>4. from[m] \in Nat /\ to[m] \in Nat BY <1>3, <2>0
  <2>5. \A x, y, f, t \in Nat : x + a = y + f /\ y + t = e => (x + (t - f)) + a = e
    OBVIOUS
  <2>. QED BY <2>1, <2>2, <2>3, <2>4, <2>5
<1>9. Len(d) = Size(v)
  <2>1. Len(d) = e - a BY <1>2 DEF CutAt
  <2>2. Size(v) \in Nat /\ Size(v) = LengthBefore(v, m + 1)
    BY <1>4, <1>5, SizeIs DEF Size
  <2>3. \A x \in Nat : x + a = e => e - a = x OBVIOUS
  <2>. QED BY <1>8, <2>1, <2>2, <2>3
<1>10. ASSUME NEW n \in 1..m, NEW j \in 1..Len(v[n])
       PROVE  d[LengthBefore(v, n) + j] = v[n][j]
  <2>1. /\ from[n] \in Nat /\ to[n] \in Nat /\ Len(v[n]) = to[n] - from[n]
        /\ to[n] <= Len(s[i[n]]) /\ i[n] \in 1..Len(s)
    BY <1>3
  <2>2. v[n][j] = s[i[n]][from[n] + j]
    BY <1>3, <2>1 DEF CutAt
  <2>3. Len(s[i[n]]) \in Nat BY <2>1, StreamType
  <2>4. from[n] + j \in 1..Len(s[i[n]])
    <3>1. \A f, t, l \in Nat : \A k \in 1..t - f : t <= l => f + k \in 1..l OBVIOUS
    <3>. QED BY <2>1, <2>3, <3>1
  <2>5. s[i[n]][from[n] + j] = c[LengthBefore(s, i[n]) + (from[n] + j)]
    BY <1>1, <2>1, <2>4 DEF IsSpread
  <2>6. /\ LengthBefore(v, n) \in Nat /\ LengthBefore(v, n + 1) \in Nat
        /\ LengthBefore(s, i[n]) \in Nat
        /\ LengthBefore(v, n + 1) = LengthBefore(v, n) + (to[n] - from[n])
    BY <1>6
  <2>7. LengthBefore(v, n + 1) <= LengthBefore(v, m + 1)
    <3>1. n + 1 \in 1..m + 1 /\ m + 1 \in 1..m + 1 /\ n + 1 <= m + 1 OBVIOUS
    <3>. QED BY <1>4, <1>5, <3>1, LengthBeforeGrows
  <2>8. LengthBefore(v, m + 1) \in Nat
    <3>1. m + 1 \in 1..m + 1 OBVIOUS
    <3>. QED BY <1>4, <1>5, <3>1, LengthBeforeStep
  <2>9. LengthBefore(v, n) + j \in 1..e - a
    <3>1. \A x, y, z, f, t \in Nat : \A k \in 1..t - f :
            y = x + (t - f) /\ y <= z /\ z + a = e => x + k \in 1..e - a
      OBVIOUS
    <3>. QED BY <1>8, <2>1, <2>6, <2>7, <2>8, <3>1
  <2>10. d[LengthBefore(v, n) + j] = c[a + (LengthBefore(v, n) + j)]
    BY <1>2, <2>9 DEF CutAt
  <2>11. LengthBefore(v, n) + a = LengthBefore(s, i[n]) + from[n] BY <1>7
  <2>12. a + (LengthBefore(v, n) + j) = LengthBefore(s, i[n]) + (from[n] + j)
    <3>1. /\ j \in Int /\ LengthBefore(v, n) \in Int /\ LengthBefore(s, i[n]) \in Int
          /\ from[n] \in Int /\ a \in Int
      BY SMTT(60), <2>1, <2>6
    <3>. QED BY SMTT(60), <2>11, <3>1, SumsAgree
  <2>. QED BY <2>2, <2>5, <2>10, <2>12
<1>11. IsSpread(d, v) BY <1>4, <1>9, <1>10 DEF IsSpread
<1>12. d = FlattenSeq(v) BY <1>2, <1>5, <1>11, SpreadIsFlat
<1>. QED BY <1>4, <1>12, <1>c, <1>d

\* Part() for any end, and nothing past it.
LEMMA PartIs ==
  ASSUME NEW B, NEW c \in Seq(B), NEW a \in Nat, NEW b \in Nat
  PROVE  /\ Part(c, a, b) \in Seq(B)
         /\ a >= Less(b, Len(c)) => Part(c, a, b) = <<>>
         /\ a <= Less(b, Len(c)) => CutAt(Part(c, a, b), c, a, Less(b, Len(c)))
<1>. PICK e : e = Less(b, Len(c))
  OBVIOUS
<1>0. Len(c) \in Nat /\ e \in Nat /\ e <= Len(c)
  BY DEF Less
<1>1. Part(c, a, b) = SubSeq(c, a + 1, e)
  BY DEF Part
<1>2. ASSUME a >= e PROVE Part(c, a, b) = <<>>
  <2>1. a + 1 \in Int /\ e \in Int /\ e < a + 1 BY <1>0, <1>2
  <2>. QED BY <1>1, <2>1, SubSeqEmpty
<1>3. ASSUME a <= e PROVE Part(c, a, b) \in Seq(B) /\ CutAt(Part(c, a, b), c, a, e)
  BY <1>0, <1>1, <1>3, CutIs
<1>4. <<>> \in Seq(B) OBVIOUS
<1>5. a >= e \/ a <= e BY <1>0
<1>. QED BY <1>2, <1>3, <1>4, <1>5

LEMMA VisitBuffersIs ==
  ASSUME NEW B, NEW s \in Streams(B), NEW a \in Nat, NEW b \in Nat
  PROVE  /\ VisitBuffers(s, a, b) \in Streams(B)
         /\ FlattenSeq(VisitBuffers(s, a, b)) = Part(FlattenSeq(s), a, b)
<1>. PICK e : e = Less(b, Size(s))
  OBVIOUS
<1>0. s \in Seq(Seq(B)) /\ Size(s) \in Nat /\ Size(s) = Len(FlattenSeq(s))
      /\ FlattenSeq(s) \in Seq(B)
  BY StreamType, SizeIs, FlattenType
<1>1. e \in Nat /\ e <= Size(s) BY <1>0 DEF Less
<1>2. CASE a >= e
  <2>1. VisitBuffers(s, a, b) = <<>> BY <1>2 DEF VisitBuffers
  <2>2. Part(FlattenSeq(s), a, b) = <<>> BY <1>0, <1>2, PartIs
  <2>3. <<>> \in Streams(B) BY DEF Streams
  <2>. QED BY <2>1, <2>2, <2>3, FlattenEmpty
<1>3. CASE ~ (a >= e)
  <2>. PICK v : v = SlicesBetween(s, FindIndex(s, a), FindIndex(s, e - 1))
    OBVIOUS
  <2>1. VisitBuffers(s, a, b) = v BY <1>3 DEF VisitBuffers
  <2>2. a < e BY <1>1, <1>3
  <2>3. PICK m \in Nat \ {0} : \E i, from, to : AreSlices(v, s, a, e, m, i, from, to)
    BY <1>1, <2>2, SlicesBetweenAre
  <2>a. PICK i, from, to : AreSlices(v, s, a, e, m, i, from, to)
    BY <2>3
  <2>4. v \in Streams(B) /\ FlattenSeq(v) = SubSeq(FlattenSeq(s), a + 1, e)
    BY <1>1, <2>2, <2>a, SlicesSpread
  <2>5. Part(FlattenSeq(s), a, b) = SubSeq(FlattenSeq(s), a + 1, e)
    BY <1>0 DEF Part
  <2>. QED BY <2>1, <2>4, <2>5
<1>. QED BY <1>2, <1>3

\* The slices appended one by one are the slices.
AppendingEquation(f, v) ==
  f = [i \in 0..Len(v) |-> IF i = 0 THEN <<>> ELSE AppendBuffer(f[i - 1], v[i])]

LEMMA AppendingExpanded ==
  ASSUME NEW v
  PROVE  Appending(v) = (CHOOSE f : AppendingEquation(f, v))[Len(v)]
BY DEF Appending, AppendingEquation

LEMMA AppendingIs ==
  ASSUME NEW B, NEW v \in Streams(B)
  PROVE  Appending(v) = v
<1>. PICK n : n = Len(v)
  OBVIOUS
<1>0. n \in Nat BY DEF Streams
<1>s. PICK S : S = Seq(B) \ {<<>>}
  OBVIOUS
<1>v. v \in Seq(S) BY <1>s DEF Streams
<1>g. PICK g : g = [i \in 0..n |-> SubSeq(v, 1, i)]
  OBVIOUS
<1>1. ASSUME NEW i \in 1..n PROVE SubSeq(v, 1, i) = AppendBuffer(SubSeq(v, 1, i - 1), v[i])
  <2>1. v[i] \in S /\ v[i] # <<>> BY <1>v, <1>s, ElementOfSeq
  <2>2. 1 \in 1..Len(v) /\ i \in 1..Len(v) BY <1>0
  <2>3. SubSeq(v, 1, i) = SubSeq(v, 1, i - 1) \o <<v[i]>>
    BY <1>v, <2>2, SubSeqRecursiveSecond
  <2>4. SubSeq(v, 1, i - 1) \in Seq(S)
    <3>1. 1 \in Int /\ i - 1 \in Int /\ \A k \in 1..i - 1 : k \in 1..Len(v) BY <1>0
    <3>2. \A k \in 1..i - 1 : v[k] \in S BY <3>1, <1>v, ElementOfSeq
    <3>. QED BY <3>1, <3>2, SubSeqProperties
  <2>5. Append(SubSeq(v, 1, i - 1), v[i]) = SubSeq(v, 1, i - 1) \o <<v[i]>>
    BY <2>1, <2>4, AppendIsConcat
  <2>. QED BY <2>1, <2>3, <2>5 DEF AppendBuffer
<1>2. SubSeq(v, 1, 0) = <<>>
  <2>1. 0 \in Int /\ 1 \in Int /\ 0 < 1 OBVIOUS
  <2>. QED BY <2>1, SubSeqEmpty
<1>3. AppendingEquation(g, v)
  <2>1. ASSUME NEW i \in 0..n
        PROVE  SubSeq(v, 1, i) = IF i = 0 THEN <<>> ELSE AppendBuffer(g[i - 1], v[i])
    <3>1. CASE i = 0 BY <1>2, <3>1
    <3>2. CASE i # 0
      <4>1. i \in 1..n /\ i - 1 \in 0..n BY <1>0, <3>2
      <4>2. g[i - 1] = SubSeq(v, 1, i - 1) BY <1>g, <4>1
      <4>. QED BY <1>1, <3>2, <4>1, <4>2
    <3>. QED BY <3>1, <3>2
  <2>. QED BY <1>g, <2>1 DEF AppendingEquation
<1>4. PICK f : f = CHOOSE x : AppendingEquation(x, v)
  OBVIOUS
<1>5. AppendingEquation(f, v) BY <1>3, <1>4
<1>6. n \in {i \in 0..n : f[i] = g[i]}
  <2>. DEFINE T == {i \in 0..n : f[i] = g[i]}
  <2>1. 0 \in T BY <1>0, <1>3, <1>5 DEF AppendingEquation
  <2>2. ASSUME NEW i \in 1..n, i - 1 \in T PROVE i \in T
    <3>1. i \in 0..n /\ i # 0 BY <1>0
    <3>2. f[i] = AppendBuffer(f[i - 1], v[i]) BY <1>5, <3>1 DEF AppendingEquation
    <3>3. g[i] = AppendBuffer(g[i - 1], v[i]) BY <1>3, <3>1 DEF AppendingEquation
    <3>4. f[i - 1] = g[i - 1] BY <2>2
    <3>. QED BY <3>1, <3>2, <3>3, <3>4
  <2>. HIDE DEF T
  <2>3. 0..n \subseteq T BY <1>0, <2>1, <2>2, UpTo
  <2>4. n \in T BY <1>0, <2>3
  <2>. QED BY <2>4 DEF T
<1>7. g[n] = SubSeq(v, 1, n) BY <1>0, <1>g
<1>8. SubSeq(v, 1, n) = v BY <1>v, SubSeqFull
<1>9. Appending(v) = f[n] BY <1>4, AppendingExpanded
<1>. QED BY <1>6, <1>7, <1>8, <1>9

LEMMA SubStreamIs ==
  ASSUME NEW B, NEW s \in Streams(B), NEW a \in Nat, NEW b \in Nat
  PROVE  /\ SubStream(s, a, b) \in Streams(B)
         /\ FlattenSeq(SubStream(s, a, b)) = Part(FlattenSeq(s), a, b)
<1>1. VisitBuffers(s, a, b) \in Streams(B)
      /\ FlattenSeq(VisitBuffers(s, a, b)) = Part(FlattenSeq(s), a, b)
  BY VisitBuffersIs
<1>2. Appending(VisitBuffers(s, a, b)) = VisitBuffers(s, a, b) BY <1>1, AppendingIs
<1>. QED BY <1>1, <1>2 DEF SubStream

-----------------------------------------------------------------------------
(* Searches. *)

\* The first place in d, from offset a up to e, with the byte b.
IsFirstByte(r, b, d, a, e) ==
  \/ r = NotFound /\ \A k \in a..e - 1 : d[k + 1] # b
  \/ r \in a..e - 1 /\ d[r + 1] = b /\ \A k \in a..r - 1 : d[k + 1] # b

\* The first index SelectInSeq() gives.
IsFirstIndex(i, I) ==
  \/ i = 0 /\ I = {}
  \/ i \in I /\ \A j \in I : i <= j

LEMMA FirstIndexExists ==
  ASSUME NEW I, I \subseteq Nat
  PROVE  IsFirstIndex(IF I # {} THEN CHOOSE x \in I : \A y \in I : x <= y ELSE 0, I)
<1>1. CASE I = {} BY <1>1 DEF IsFirstIndex
<1>2. CASE I # {}
  <2>1. \E x \in I : \A y \in I : x <= y BY <1>2, LeastNat
  <2>. QED BY <1>2, <2>1 DEF IsFirstIndex
<1>. QED BY <1>1, <1>2

LEMMA FirstWithIs ==
  ASSUME NEW B, NEW v \in Seq(Seq(B)), NEW b
  PROVE  IsFirstIndex(FirstWith(b, v),
                      {i \in 1..Len(v) : \E j \in 1..Len(v[i]) : v[i][j] = b})
<1>. PICK I : I = {i \in 1..Len(v) : b \in ToSet(v[i])}
  OBVIOUS
<1>1. FirstWith(b, v) = IF I # {} THEN CHOOSE x \in I : \A y \in I : x <= y ELSE 0
  BY DEF FirstWith, SelectInSeq, Min
<1>2. ASSUME NEW i \in 1..Len(v)
      PROVE  b \in ToSet(v[i]) <=> \E j \in 1..Len(v[i]) : v[i][j] = b
  <2>1. v[i] \in Seq(B) BY ElementOfSeq
  <2>2. DOMAIN v[i] = 1..Len(v[i]) BY <2>1
  <2>. QED BY <2>2 DEF ToSet
<1>3. I = {i \in 1..Len(v) : \E j \in 1..Len(v[i]) : v[i][j] = b} BY <1>2
<1>4. I \subseteq Nat OBVIOUS
<1>. QED BY <1>1, <1>3, <1>4, FirstIndexExists

LEMMA FirstInIs ==
  ASSUME NEW B, NEW c \in Seq(B), NEW b
  PROVE  FirstIn(b, c) \in Int /\ IsFirstIndex(FirstIn(b, c) + 1, {j \in 1..Len(c) : c[j] = b})
<1>. PICK I : I = {j \in 1..Len(c) : c[j] = b}
  OBVIOUS
<1>. PICK x : x = IF I # {} THEN CHOOSE k \in I : \A y \in I : k <= y ELSE 0
  OBVIOUS
<1>1. FirstIn(b, c) = x - 1
  BY DEF FirstIn, SelectInSeq, Min
<1>2. I \subseteq Nat OBVIOUS
<1>3. IsFirstIndex(x, I) BY <1>2, FirstIndexExists
<1>4. x \in Nat BY <1>2, <1>3 DEF IsFirstIndex
<1>5. FirstIn(b, c) \in Int /\ FirstIn(b, c) + 1 = x BY <1>1, <1>4
<1>. QED BY <1>3, <1>5

LEMMA PastPlace ==
  \A x, y, x1, z, j, l, q, p \in Nat :
    x1 = x + z /\ j <= z /\ x1 <= y /\ y + l = q /\ p = x + j /\ q < p => FALSE
OBVIOUS

\* The first byte b in v, and where it is.
IsFirstPlace(p, d, b) ==
  p \in 1..Len(d) /\ d[p] = b /\ \A q \in 1..p - 1 : d[q] # b

LEMMA FirstPlaceIs ==
  ASSUME NEW B, NEW v \in Seq(Seq(B)), NEW b,
         NEW i \in 1..Len(v), NEW j \in 1..Len(v[i]), IsFirstPlace(j, v[i], b),
         \A m \in 1..Len(v) : (\E l \in 1..Len(v[m]) : v[m][l] = b) => i <= m
  PROVE  IsFirstPlace(LengthBefore(v, i) + j, FlattenSeq(v), b)
<1>d. PICK d : d = FlattenSeq(v)
  OBVIOUS
<1>p. PICK p : p = LengthBefore(v, i) + j
  OBVIOUS
<1>1. d \in Seq(B) /\ IsSpread(d, v) /\ Len(d) = Size(v) /\ Size(v) \in Nat
  BY <1>d, FlattenType, FlatIsSpread, SizeIs
<1>2. d[p] = b BY <1>1, <1>p DEF IsSpread, IsFirstPlace
<1>3. /\ i \in 1..Len(v) + 1 /\ i + 1 \in 1..Len(v) + 1 /\ Len(v) + 1 \in 1..Len(v) + 1
      /\ i + 1 <= Len(v) + 1
  <2>1. Len(v) \in Nat OBVIOUS
  <2>. QED BY <2>1
<1>4. /\ LengthBefore(v, i) \in Nat /\ LengthBefore(v, i + 1) \in Nat
      /\ LengthBefore(v, i + 1) = LengthBefore(v, i) + Len(v[i])
  BY <1>3, LengthBeforeStep
<1>5. v[i] \in Seq(B) BY ElementOfSeq
<1>6. Len(v[i]) \in Nat /\ j \in Nat /\ 1 <= j /\ j <= Len(v[i]) BY <1>5
<1>7. LengthBefore(v, i + 1) <= Size(v)
  BY <1>3, LengthBeforeGrows DEF Size
<1>8. p \in 1..Len(d) BY SMTT(60), <1>1, <1>4, <1>6, <1>7, <1>p
<1>9. ASSUME NEW q \in 1..p - 1 PROVE d[q] # b
  <2>1. SUFFICES ASSUME d[q] = b PROVE FALSE OBVIOUS
  <2>2. p \in Nat /\ q \in Nat \ {0} /\ q <= Size(v) /\ q < p
    BY ONLY <1>1, <1>8, q \in 1..p - 1
  <2>3. PICK m \in 1..Len(v) : \E l \in 1..Len(v[m]) : LengthBefore(v, m) + l = q
    BY <2>2, PlaceExists
  <2>4. PICK l \in 1..Len(v[m]) : LengthBefore(v, m) + l = q BY <2>3
  <2>5. v[m][l] = b BY <1>1, <2>1, <2>4 DEF IsSpread
  <2>6. i <= m BY <2>5
  <2>7. m \in 1..Len(v) + 1
    <3>1. \A n \in Nat : \A x \in 1..n : x \in 1..n + 1 OBVIOUS
    <3>2. Len(v) \in Nat OBVIOUS
    <3>. QED BY <3>1, <3>2
  <2>8. LengthBefore(v, m) \in Nat BY <2>7, LengthBeforeStep
  <2>9. CASE m = i
    <3>1. j <= l
      <4>1. l < j => l \in 1..j - 1 BY <1>6, <2>9
      <4>. QED BY <1>6, <2>5, <2>9, <4>1 DEF IsFirstPlace
    <3>2. l \in Int BY <1>6, <2>9
    <3>3. LengthBefore(v, i) + l = q BY <2>4, <2>9
    <3>. QED BY <1>4, <1>6, <1>p, <2>2, <3>1, <3>2, <3>3
  <2>10. CASE m # i
    <3>1. i + 1 <= m BY <2>6, <2>10
    <3>2. LengthBefore(v, i + 1) <= LengthBefore(v, m)
      BY <1>3, <2>7, <3>1, LengthBeforeGrows
    <3>3. v[m] \in Seq(B) BY ElementOfSeq
    <3>4. Len(v[m]) \in Nat BY <3>3
    <3>5. l \in Nat BY <3>4
    <3>6. p = LengthBefore(v, i) + j /\ q < p BY <1>p, <2>2
    <3>. QED BY ZenonT(60), <1>4, <1>6, <2>2, <2>4, <2>8, <3>2, <3>5, <3>6, PastPlace
  <2>. QED BY <2>9, <2>10
<1>. QED BY <1>2, <1>8, <1>9, <1>d, <1>p DEF IsFirstPlace

LEMMA PlaceIs ==
  ASSUME NEW B, NEW v \in Seq(Seq(B)), NEW b
  PROVE  LET d == FlattenSeq(v)
             r == Place(b, v, FirstWith(b, v))
         IN  \/ FirstWith(b, v) = 0 /\ r = NotFound /\ \A q \in 1..Len(d) : d[q] # b
             \/ r + 1 \in 1..Len(d) /\ r \in Nat /\ d[r + 1] = b /\ \A q \in 1..r : d[q] # b
<1>d. PICK d : d = FlattenSeq(v)
  OBVIOUS
<1>i. PICK i : i = FirstWith(b, v)
  OBVIOUS
<1>I. PICK I : I = {m \in 1..Len(v) : \E l \in 1..Len(v[m]) : v[m][l] = b}
  OBVIOUS
<1>1. IsFirstIndex(i, I) BY <1>i, <1>I, FirstWithIs
<1>2. d \in Seq(B) /\ IsSpread(d, v) /\ Len(d) = Size(v) /\ Size(v) \in Nat
  BY <1>d, FlattenType, FlatIsSpread, SizeIs
<1>3. CASE i = 0
  <2>1. I = {} BY <1>1, <1>3, <1>I DEF IsFirstIndex
  <2>2. ASSUME NEW q \in 1..Len(d) PROVE d[q] # b
    <3>1. q \in Nat \ {0} /\ q <= Size(v) BY <1>2
    <3>2. PICK m \in 1..Len(v) : \E l \in 1..Len(v[m]) : LengthBefore(v, m) + l = q
      BY <3>1, PlaceExists
    <3>. QED BY SMTT(60), <1>2, <1>I, <2>1, <3>2 DEF IsSpread
  <2>3. Place(b, v, i) = NotFound BY <1>3 DEF Place
  <2>. QED BY <1>3, <1>d, <1>i, <2>2, <2>3
<1>4. CASE i # 0
  <2>1. i \in 1..Len(v) /\ (\E l \in 1..Len(v[i]) : v[i][l] = b)
        /\ \A m \in 1..Len(v) : (\E l \in 1..Len(v[m]) : v[m][l] = b) => i <= m
    BY <1>1, <1>4, <1>I DEF IsFirstIndex
  <2>2. v[i] \in Seq(B) BY <2>1, ElementOfSeq
  <2>j. PICK j : j = FirstIn(b, v[i])
    OBVIOUS
  <2>3. IsFirstIndex(j + 1, {l \in 1..Len(v[i]) : v[i][l] = b})
    BY <2>2, <2>j, FirstInIs
  <2>4. j + 1 \in 1..Len(v[i]) /\ v[i][j + 1] = b
        /\ \A l \in 1..Len(v[i]) : v[i][l] = b => j + 1 <= l
    BY <2>1, <2>3 DEF IsFirstIndex
  <2>p. PICK p : p = LengthBefore(v, i) + (j + 1)
    OBVIOUS
  <2>k. PICK k : k = j + 1
    OBVIOUS
  <2>a. k \in 1..Len(v[i]) /\ IsFirstPlace(k, v[i], b)
    <3>1. k \in 1..Len(v[i]) /\ v[i][k] = b BY <2>4, <2>k
    <3>2. ASSUME NEW q \in 1..k - 1 PROVE v[i][q] # b
      <4>1. Len(v[i]) \in Nat BY <2>2
      <4>2. q \in 1..Len(v[i]) /\ ~ (k <= q) BY <3>1, <4>1
      <4>. QED BY <2>4, <2>k, <4>2
    <3>. QED BY <3>1, <3>2 DEF IsFirstPlace
  <2>c. p = LengthBefore(v, i) + k BY <2>p, <2>k
  <2>d. IsFirstPlace(LengthBefore(v, i) + k, FlattenSeq(v), b)
    BY <2>1, <2>a, FirstPlaceIs
  <2>5. p \in 1..Len(d) /\ d[p] = b /\ \A q \in 1..p - 1 : d[q] # b
    BY <1>d, <2>c, <2>d DEF IsFirstPlace
  <2>r. PICK r : r = Place(b, v, i)
    OBVIOUS
  <2>6. r = LengthBefore(v, i) + j BY <1>4, <2>j, <2>r DEF Place
  <2>7. LengthBefore(v, i) \in Nat
    <3>1. i \in 1..Len(v) + 1
      <4>1. \A n \in Nat : \A x \in 1..n : x \in 1..n + 1 OBVIOUS
      <4>2. Len(v) \in Nat OBVIOUS
      <4>. QED BY <2>1, <4>1, <4>2
    <3>. QED BY <3>1, LengthBeforeStep
  <2>8. j \in Int BY <2>2, <2>j, FirstInIs
  <2>9. p = r + 1 /\ p - 1 = r /\ r \in Nat
    <3>1. j + 1 >= 1 BY <2>4, <2>8
    <3>. QED BY <2>p, <2>6, <2>7, <2>8, <3>1
  <2>. QED BY <1>d, <1>i, <2>r, <2>5, <2>9
<1>. QED BY <1>3, <1>4

LEMMA FirstIndexOfByteIs ==
  ASSUME NEW B, NEW s \in Streams(B), NEW b, NEW a \in Nat, NEW end \in Nat,
         Size(s) < SizeMax
  PROVE  IsFirstByte(FirstIndexOfByte(s, b, a, end), b, FlattenSeq(s), a, Less(end, Size(s)))
<1>v. PICK v : v = VisitBuffers(s, a, end)
  OBVIOUS
<1>c. PICK c : c = FlattenSeq(s)
  OBVIOUS
<1>d. PICK d : d = FlattenSeq(v)
  OBVIOUS
<1>e. PICK e : e = Less(end, Size(s))
  OBVIOUS
<1>r. PICK r : r = Place(b, v, FirstWith(b, v))
  OBVIOUS
<1>x. PICK x : x = FirstIndexOfByte(s, b, a, end)
  OBVIOUS
<1>0. /\ s \in Seq(Seq(B)) /\ Size(s) \in Nat /\ Size(s) = Len(c) /\ c \in Seq(B)
      /\ SizeMax \in Nat
  BY <1>c, StreamType, SizeIs, FlattenType, SizeMaxAssumption
<1>1. e \in Nat /\ e <= Size(s) /\ e = Less(end, Len(c)) BY <1>0, <1>e DEF Less
<1>2. v \in Seq(Seq(B)) /\ d = Part(c, a, end)
  BY <1>c, <1>d, <1>v, VisitBuffersIs, StreamType
<1>3. x = IF r = NotFound THEN NotFound ELSE a + r
  BY <1>v, <1>r, <1>x DEF FirstIndexOfByte
<1>4. \/ r = NotFound /\ \A q \in 1..Len(d) : d[q] # b
      \/ r + 1 \in 1..Len(d) /\ r \in Nat /\ d[r + 1] = b /\ \A q \in 1..r : d[q] # b
  BY <1>2, <1>d, <1>r, PlaceIs
<1>5. CASE a >= e
  <2>1. d = <<>> BY <1>0, <1>1, <1>2, <1>5, PartIs
  <2>2. Len(d) = 0 BY <2>1
  <2>3. r = NotFound BY <1>4, <2>2
  <2>4. a..e - 1 = {} BY <1>1, <1>5
  <2>. QED BY <1>3, <1>c, <1>e, <1>x, <2>3, <2>4 DEF IsFirstByte
<1>6. CASE ~ (a >= e)
  <2>0. a < e BY <1>1, <1>6
  <2>1. CutAt(d, c, a, e)
    <3>1. a <= Less(end, Len(c)) BY <1>1, <2>0
    <3>2. CutAt(Part(c, a, end), c, a, Less(end, Len(c))) BY <1>0, <3>1, PartIs
    <3>. QED BY <1>1, <1>2, <3>2
  <2>2. Len(d) = e - a /\ \A q \in 1..e - a : d[q] = c[a + q] BY <2>1 DEF CutAt
  <2>3. ASSUME NEW k \in a..e - 1
        PROVE  k - a + 1 \in 1..e - a /\ d[k - a + 1] = c[k + 1]
    <3>1. k - a + 1 \in 1..e - a /\ a + (k - a + 1) = k + 1 BY <1>1
    <3>. QED BY <2>2, <3>1
  <2>4. CASE r = NotFound /\ \A q \in 1..Len(d) : d[q] # b
    <3>1. ASSUME NEW k \in a..e - 1 PROVE c[k + 1] # b
      BY <2>2, <2>3, <2>4
    <3>. QED BY <1>3, <1>c, <1>e, <1>x, <2>4, <3>1 DEF IsFirstByte
  <2>5. CASE r + 1 \in 1..Len(d) /\ r \in Nat /\ d[r + 1] = b /\ \A q \in 1..r : d[q] # b
    <3>1. r \in Nat /\ r + 1 <= e - a /\ r + 1 \in 1..e - a BY <2>2, <2>5
    <3>2. r # NotFound BY <1>0, <1>1, <3>1 DEF NotFound
    <3>3. x = a + r BY <1>3, <3>2
    <3>4. x \in a..e - 1 /\ a + (r + 1) = x + 1 BY <1>1, <3>1, <3>3
    <3>5. c[x + 1] = b BY <2>2, <2>5, <3>1, <3>4
    <3>6. ASSUME NEW k \in a..x - 1 PROVE c[k + 1] # b
      <4>1. k \in a..e - 1 /\ k - a + 1 \in 1..r BY <1>1, <3>1, <3>3
      <4>. QED BY <2>3, <2>5, <4>1
    <3>. QED BY <1>c, <1>e, <1>x, <3>4, <3>5, <3>6 DEF IsFirstByte
  <2>. QED BY <1>4, <2>4, <2>5
<1>. QED BY <1>5, <1>6

LEMMA EqualsIs ==
  ASSUME NEW B, NEW s \in Streams(B), NEW d \in Seq(B), NEW a \in Nat
  PROVE  Equals(s, d, a) <=>
           a + Len(d) <= Len(FlattenSeq(s)) /\ \A i \in 1..Len(d) : d[i] = FlattenSeq(s)[a + i]
<1>c. PICK c : c = FlattenSeq(s)
  OBVIOUS
<1>0. s \in Seq(Seq(B)) /\ Size(s) = Len(c) /\ c \in Seq(B)
  BY <1>c, StreamType, SizeIs, FlattenType
<1>1. Len(c) \in Nat /\ Len(d) \in Nat /\ DOMAIN d = 1..Len(d) BY <1>0
<1>2. ASSUME a + Len(d) <= Len(c), NEW i \in 1..Len(d)
      PROVE  ByteAt(s, a + i - 1) = c[a + i]
  <2>1. a + i - 1 \in Nat /\ a + i - 1 < Len(c) /\ (a + i - 1) + 1 = a + i
    BY <1>1, <1>2
  <2>2. ByteAt(s, a + i - 1) = FlattenSeq(s)[(a + i - 1) + 1]
    BY <1>0, <2>1, ByteAtIs
  <2>. QED BY <1>c, <2>1, <2>2
<1>. QED BY <1>c, <1>0, <1>1, <1>2 DEF Equals

\* Where p is in c, from offset a and starting before e.
Matches(p, c, a, e) ==
  {k \in Nat : /\ a <= k /\ k < e /\ k + Len(p) <= Len(c)
               /\ \A i \in 1..Len(p) : c[k + i] = p[i]}

\* r is the first of S, or there is none.
IsFirst(r, S) ==
  \/ r = NotFound /\ S = {}
  \/ r \in S /\ \A k \in S : r <= k

LEMMA IsFirstOnce ==
  ASSUME NEW S, S \subseteq Nat, NEW r, IsFirst(r, S)
  PROVE  r = FirstOffset(S) /\ r \in Nat
<1>1. CASE S = {}
  BY <1>1, SizeMaxAssumption DEF IsFirst, FirstOffset, NotFound
<1>2. CASE S # {}
  <2>1. r \in S /\ \A k \in S : r <= k BY <1>2 DEF IsFirst
  <2>2. PICK x : x = CHOOSE k \in S : \A j \in S : k <= j
    OBVIOUS
  <2>3. x \in S /\ \A j \in S : x <= j BY <2>1, <2>2
  <2>4. x = r BY <2>1, <2>3
  <2>. QED BY <1>2, <2>1, <2>2, <2>4 DEF FirstOffset
<1>. QED BY <1>1, <1>2

LEMMA FirstExists ==
  ASSUME NEW S, S \subseteq Nat
  PROVE  IsFirst(FirstOffset(S), S) /\ FirstOffset(S) \in Nat
<1>1. CASE S = {}
  BY <1>1, SizeMaxAssumption DEF IsFirst, FirstOffset, NotFound
<1>2. CASE S # {}
  <2>1. \E n \in S : \A m \in S : n <= m BY <1>2, LeastNat
  <2>. QED BY <1>2, <2>1 DEF IsFirst, FirstOffset
<1>. QED BY <1>1, <1>2

\* FirstIndexOf() goes from the first byte found to the next, from any offset.
SearchEquation(f, s, p, end) ==
  f = [k \in Nat |->
         IF FirstIndexOfByte(s, Head(p), k, end) = NotFound
            \/ Equals(s, Tail(p), FirstIndexOfByte(s, Head(p), k, end) + 1)
         THEN FirstIndexOfByte(s, Head(p), k, end)
         ELSE f[k + 1]]

LEMMA FirstIndexOfExpanded ==
  ASSUME NEW s, NEW p, p # <<>>, NEW a, NEW end
  PROVE  FirstIndexOf(s, p, a, end) = (CHOOSE f : SearchEquation(f, s, p, end))[a]
BY DEF FirstIndexOf, SearchEquation

\* One step of the search: the byte found is the first match, or the first
\* match is the first from one byte further on.
LEMMA SearchStep ==
  ASSUME NEW B, NEW s \in Streams(B), NEW p \in Seq(B), p # <<>>,
         NEW a \in Nat, NEW end \in Nat, Size(s) < SizeMax
  PROVE  LET b == FirstIndexOfByte(s, Head(p), a, end)
             F(k) == FirstOffset(Matches(p, FlattenSeq(s), k, Less(end, Size(s))))
         IN  /\ b = NotFound \/ Equals(s, Tail(p), b + 1) => F(a) = b
             /\ ~ (b = NotFound \/ Equals(s, Tail(p), b + 1)) =>
                  a < Less(end, Size(s)) /\ F(a) = F(a + 1)
<1>c. PICK c : c = FlattenSeq(s)
  OBVIOUS
<1>e. PICK e : e = Less(end, Size(s))
  OBVIOUS
<1>b. PICK b : b = FirstIndexOfByte(s, Head(p), a, end)
  OBVIOUS
<1>h. PICK h : h = Head(p)
  OBVIOUS
<1>t. PICK t : t = Tail(p)
  OBVIOUS
<1>0. /\ s \in Seq(Seq(B)) /\ Size(s) \in Nat /\ Size(s) = Len(c) /\ c \in Seq(B)
      /\ SizeMax \in Nat
  BY <1>c, StreamType, SizeIs, FlattenType, SizeMaxAssumption
<1>1. e \in Nat /\ e <= Len(c) BY <1>0, <1>e DEF Less
<1>2. /\ t \in Seq(B) /\ Len(p) \in Nat /\ Len(p) = Len(t) + 1 /\ h = p[1]
      /\ \A i \in 1..Len(t) : t[i] = p[i + 1]
  <2>1. t \in Seq(B) /\ Len(t) = Len(p) - 1 /\ \A i \in 1..Len(t) : t[i] = p[i + 1]
    BY <1>t, HeadTailProperties
  <2>2. h = p[1] /\ Len(p) \in Nat BY <1>h
  <2>. QED BY <2>1, <2>2
<1>3. IsFirstByte(b, h, c, a, e) BY <1>b, <1>c, <1>e, <1>h, FirstIndexOfByteIs
<1>4. ASSUME NEW m \in Nat, NEW k \in Matches(p, c, m, e)
      PROVE  k \in Nat /\ k \in m..e - 1 /\ c[k + 1] = h /\ k + Len(p) <= Len(c)
  <2>1. k \in Nat /\ m <= k /\ k < e /\ 1 \in 1..Len(p) /\ k + Len(p) <= Len(c)
    BY <1>2 DEF Matches
  <2>2. c[k + 1] = p[1] BY <2>1 DEF Matches
  <2>. QED BY <1>1, <1>2, <2>1, <2>2
<1>5. Matches(p, c, a, e) \subseteq Nat BY DEF Matches
<1>6. b \in Nat BY <1>0, <1>1, <1>3 DEF IsFirstByte, NotFound
<1>7. ASSUME NEW k \in Nat, c[k + 1] = h
      PROVE  Equals(s, t, k + 1) <=>
               k + Len(p) <= Len(c) /\ \A i \in 1..Len(p) : c[k + i] = p[i]
  <2>1. Equals(s, t, k + 1) <=>
          (k + 1) + Len(t) <= Len(c) /\ \A i \in 1..Len(t) : t[i] = c[(k + 1) + i]
    <3>k. PICK l : l = k + 1
      OBVIOUS
    <3>1. l \in Nat /\ t \in Seq(B) BY <1>2, <3>k
    <3>2. Equals(s, t, l) <=>
            l + Len(t) <= Len(FlattenSeq(s)) /\ \A i \in 1..Len(t) : t[i] = FlattenSeq(s)[l + i]
      BY <3>1, EqualsIs
    <3>. QED BY <1>c, <3>k, <3>2
  <2>2. (k + 1) + Len(t) = k + Len(p) BY <1>2
  <2>3. (\A i \in 1..Len(t) : t[i] = c[(k + 1) + i]) <=> \A i \in 1..Len(p) : c[k + i] = p[i]
    <3>1. ASSUME \A i \in 1..Len(t) : t[i] = c[(k + 1) + i], NEW i \in 1..Len(p)
          PROVE  c[k + i] = p[i]
      <4>1. CASE i = 1 BY <1>2, <1>7, <4>1
      <4>2. CASE i # 1
        <5>1. i - 1 \in 1..Len(t) /\ (i - 1) + 1 = i /\ (k + 1) + (i - 1) = k + i
          BY <1>2, <4>2
        <5>2. t[i - 1] = c[(k + 1) + (i - 1)] BY <3>1, <5>1
        <5>3. t[i - 1] = p[(i - 1) + 1] BY <1>2, <5>1
        <5>. QED BY <5>1, <5>2, <5>3
      <4>. QED BY <4>1, <4>2
    <3>2. ASSUME \A i \in 1..Len(p) : c[k + i] = p[i], NEW i \in 1..Len(t)
          PROVE  t[i] = c[(k + 1) + i]
      <4>1. i + 1 \in 1..Len(p) /\ k + (i + 1) = (k + 1) + i BY <1>2
      <4>2. c[k + (i + 1)] = p[i + 1] BY <3>2, <4>1
      <4>. QED BY <1>2, <4>1, <4>2
    <3>. QED BY <3>1, <3>2
  <2>. QED BY <2>1, <2>2, <2>3
<1>8. ASSUME b = NotFound \/ Equals(s, t, b + 1)
      PROVE  FirstOffset(Matches(p, c, a, e)) = b
  <2>1. CASE b = NotFound
    <3>1. \A k \in a..e - 1 : c[k + 1] # h
      BY <1>0, <1>1, <1>3, <2>1 DEF IsFirstByte, NotFound
    <3>2. Matches(p, c, a, e) = {} BY <1>4, <3>1
    <3>. QED BY <2>1, <3>2 DEF FirstOffset
  <2>2. CASE b # NotFound
    <3>1. b \in a..e - 1 /\ c[b + 1] = h /\ \A k \in a..b - 1 : c[k + 1] # h
      BY <1>3, <2>2 DEF IsFirstByte
    <3>2. Equals(s, t, b + 1) BY <1>8, <2>2
    <3>3. b \in Matches(p, c, a, e)
      BY <1>1, <1>6, <1>7, <3>1, <3>2 DEF Matches
    <3>4. ASSUME NEW k \in Matches(p, c, a, e) PROVE b <= k
      <4>1. k \in Nat /\ k \in a..e - 1 /\ c[k + 1] = h BY <1>4
      <4>2. k \notin a..b - 1 BY <3>1, <4>1
      <4>. QED BY <1>6, <4>1, <4>2
    <3>5. IsFirst(b, Matches(p, c, a, e)) BY <3>3, <3>4 DEF IsFirst
    <3>. QED BY <1>5, <3>5, IsFirstOnce
  <2>. QED BY <2>1, <2>2
<1>9. ASSUME ~ (b = NotFound \/ Equals(s, t, b + 1))
      PROVE  a < e /\ Matches(p, c, a, e) = Matches(p, c, a + 1, e)
  <2>1. b \in a..e - 1 /\ c[b + 1] = h /\ \A k \in a..b - 1 : c[k + 1] # h
    BY <1>3, <1>9 DEF IsFirstByte
  <2>2. a < e BY <1>1, <2>1
  <2>3. a \notin Matches(p, c, a, e)
    <3>1. CASE b = a
      <4>1. ~ (b + Len(p) <= Len(c) /\ \A i \in 1..Len(p) : c[b + i] = p[i])
        BY <1>6, <1>7, <1>9, <2>1
      <4>. QED BY <3>1, <4>1 DEF Matches
    <3>2. CASE b # a
      <4>1. a \in a..b - 1 BY <1>6, <2>1, <3>2
      <4>. QED BY <1>4, <2>1, <4>1
    <3>. QED BY <3>1, <3>2
  <2>4. ASSUME NEW k \in Nat PROVE k \in Matches(p, c, a, e) <=> k \in Matches(p, c, a + 1, e)
    <3>1. CASE k = a BY <2>3, <3>1 DEF Matches
    <3>2. CASE k # a
      <4>1. a <= k <=> a + 1 <= k BY <3>2
      <4>. QED BY <4>1 DEF Matches
    <3>. QED BY <3>1, <3>2
  <2>5. Matches(p, c, a + 1, e) \subseteq Nat BY DEF Matches
  <2>. QED BY <1>5, <2>2, <2>4, <2>5
<1>. QED BY <1>8, <1>9, <1>b, <1>c, <1>e, <1>t

LEMMA FirstIndexOfIs ==
  ASSUME NEW B, NEW s \in Streams(B), NEW p \in Seq(B), p # <<>>,
         NEW a \in Nat, NEW end \in Nat, Size(s) < SizeMax
  PROVE  FirstIndexOf(s, p, a, end)
           = FirstOffset(Matches(p, FlattenSeq(s), a, Less(end, Size(s))))
<1>c. PICK c : c = FlattenSeq(s)
  OBVIOUS
<1>e. PICK e : e = Less(end, Size(s))
  OBVIOUS
<1>g. PICK g : g = [k \in Nat |-> FirstOffset(Matches(p, c, k, e))]
  OBVIOUS
<1>0. s \in Seq(Seq(B)) /\ Size(s) \in Nat /\ e \in Nat
  BY <1>e, StreamType, SizeIs DEF Less
<1>1. ASSUME NEW k \in Nat
      PROVE  LET b == FirstIndexOfByte(s, Head(p), k, end)
             IN  /\ b = NotFound \/ Equals(s, Tail(p), b + 1) => g[k] = b
                 /\ ~ (b = NotFound \/ Equals(s, Tail(p), b + 1)) => k < e /\ g[k] = g[k + 1]
  <2>1. k + 1 \in Nat OBVIOUS
  <2>2. /\ g[k] = FirstOffset(Matches(p, FlattenSeq(s), k, Less(end, Size(s))))
        /\ g[k + 1] = FirstOffset(Matches(p, FlattenSeq(s), k + 1, Less(end, Size(s))))
    BY <1>c, <1>e, <1>g, <2>1
  <2>. QED BY <1>e, <2>2, SearchStep
<1>2. SearchEquation(g, s, p, end)
  <2>1. ASSUME NEW k \in Nat
        PROVE  g[k] = IF FirstIndexOfByte(s, Head(p), k, end) = NotFound
                         \/ Equals(s, Tail(p), FirstIndexOfByte(s, Head(p), k, end) + 1)
                      THEN FirstIndexOfByte(s, Head(p), k, end)
                      ELSE g[k + 1]
    BY <1>1
  <2>2. g = [k \in Nat |-> g[k]] BY <1>g
  <2>. QED BY <2>1, <2>2 DEF SearchEquation
<1>f. PICK f : f = CHOOSE x : SearchEquation(x, s, p, end)
  OBVIOUS
<1>3. SearchEquation(f, s, p, end) BY <1>2, <1>f
<1>4. ASSUME NEW k \in Nat
      PROVE  f[k] = g[k] \/ (k < e /\ f[k] = f[k + 1] /\ g[k] = g[k + 1])
  <2>1. f[k] = IF FirstIndexOfByte(s, Head(p), k, end) = NotFound
                  \/ Equals(s, Tail(p), FirstIndexOfByte(s, Head(p), k, end) + 1)
               THEN FirstIndexOfByte(s, Head(p), k, end)
               ELSE f[k + 1]
    BY <1>3 DEF SearchEquation
  <2>. QED BY <1>1, <2>1
<1>5. ASSUME NEW k \in Nat PROVE f[k] = g[k]
  <2>1. CASE ~ (k < e) BY <1>4, <2>1
  <2>2. CASE k < e
    <3>. DEFINE T == {j \in 0..e : f[e - j] = g[e - j]}
    <3>1. 0 \in T
      <4>1. e - 0 = e /\ ~ (e < e) BY <1>0
      <4>. QED BY <1>0, <1>4, <4>1
    <3>2. ASSUME NEW j \in 1..e, j - 1 \in T PROVE j \in T
      <4>1. e - j \in Nat /\ (e - j) + 1 = e - (j - 1) /\ j \in 0..e BY <1>0
      <4>2. f[(e - j) + 1] = g[(e - j) + 1] BY <3>2, <4>1
      <4>3. f[e - j] = g[e - j] BY <1>4, <4>1, <4>2
      <4>. QED BY <4>1, <4>3
    <3>. HIDE DEF T
    <3>3. 0..e \subseteq T BY <1>0, <3>1, <3>2, UpTo
    <3>4. e - k \in 0..e /\ e - (e - k) = k BY <1>0, <2>2
    <3>5. e - k \in T BY <3>3, <3>4
    <3>. QED BY <3>4, <3>5 DEF T
  <2>. QED BY <2>1, <2>2
<1>6. f[a] = g[a] BY <1>5
<1>7. FirstIndexOf(s, p, a, end) = f[a] BY <1>f, FirstIndexOfExpanded
<1>8. g[a] = FirstOffset(Matches(p, c, a, e)) BY <1>g
<1>. QED BY <1>6, <1>7, <1>8, <1>c, <1>e

LEMMA FirstIndexOfFirst ==
  ASSUME NEW B, NEW s \in Streams(B), NEW p \in Seq(B), p # <<>>,
         NEW a \in Nat, NEW end \in Nat, Size(s) < SizeMax
  PROVE  IsFirst(FirstIndexOf(s, p, a, end),
                 Matches(p, FlattenSeq(s), a, Less(end, Size(s))))
<1>1. Matches(p, FlattenSeq(s), a, Less(end, Size(s))) \subseteq Nat BY DEF Matches
<1>. QED BY <1>1, FirstExists, FirstIndexOfIs

-----------------------------------------------------------------------------
(* Split(). *)

SplitEnd(s, p, n, start, index) ==
  IF index = n - 1 THEN Size(s) ELSE Less(Size(s), FirstIndexOf(s, p, start, Size(s)))

\* What split() makes of what is left from a start on, the index-th part being next.
SplitFrom(s, p, n, f, start, index) ==
  Cat(<<SubStream(s, start, SplitEnd(s, p, n, start, index))>>,
      IF SplitEnd(s, p, n, start, index) = Size(s)
      THEN <<>>
      ELSE f[<<SplitEnd(s, p, n, start, index) + Len(p), index + 1>>])

SplitEquation(f, s, p, n) ==
  f = [at \in (0..Size(s)) \X Nat |-> SplitFrom(s, p, n, f, at[1], at[2])]

LEMMA SplitExpanded ==
  ASSUME NEW s, NEW p, NEW n
  PROVE  Split(s, p, n) = (CHOOSE f : SplitEquation(f, s, p, n))[<<0, 0>>]
BY DEF Split, SplitEquation, SplitFrom, SplitEnd, Cat

\* From every start: what is up to the next separator, and what follows it.
Splits(f, s, p, n) ==
  \A start \in 0..Size(s), index \in Nat :
    f[<<start, index>>] = SplitFrom(s, p, n, f, start, index)

LEMMA SplitEquationIs ==
  ASSUME NEW s, NEW p, NEW n, NEW f, SplitEquation(f, s, p, n)
  PROVE  Splits(f, s, p, n)
<1>1. ASSUME NEW start \in 0..Size(s), NEW index \in Nat
      PROVE  f[<<start, index>>] = SplitFrom(s, p, n, f, start, index)
  <2>1. <<start, index>> \in (0..Size(s)) \X Nat
        /\ <<start, index>>[1] = start /\ <<start, index>>[2] = index
    OBVIOUS
  <2>. QED BY <2>1 DEF SplitEquation
<1>. QED BY <1>1 DEF Splits

\* Where the part that starts somewhere ends.
LEMMA SplitEndIs ==
  ASSUME NEW B, NEW s \in Streams(B), NEW p \in Seq(B), p # <<>>, Size(s) < SizeMax, NEW n,
         NEW start \in 0..Size(s), NEW index
  PROVE  LET c == FlattenSeq(s)
             end == SplitEnd(s, p, n, start, index)
         IN  /\ end \in start..Size(s)
             /\ end = Size(s) => index = n - 1 \/ Matches(p, c, start, Size(s)) = {}
             /\ end # Size(s) =>
                  /\ index # n - 1 /\ end \in Matches(p, c, start, Size(s))
                  /\ \A k \in Matches(p, c, start, Size(s)) : end <= k
                  /\ end + Len(p) \in start + 1..Size(s)
<1>c. PICK c : c = FlattenSeq(s)
  OBVIOUS
<1>e. PICK end : end = SplitEnd(s, p, n, start, index)
  OBVIOUS
<1>r. PICK r : r = FirstIndexOf(s, p, start, Size(s))
  OBVIOUS
<1>m. PICK M : M = Matches(p, c, start, Size(s))
  OBVIOUS
<1>0. Size(s) \in Nat /\ Size(s) = Len(c) /\ SizeMax \in Nat /\ start \in Nat
      /\ Less(Size(s), Size(s)) = Size(s)
  BY <1>c, StreamType, SizeIs, SizeMaxAssumption DEF Less
<1>1. IsFirst(r, M) BY <1>0, <1>c, <1>m, <1>r, FirstIndexOfFirst
<1>2. Len(p) \in Nat /\ Len(p) >= 1 OBVIOUS
<1>3. ASSUME NEW k \in M
      PROVE  k \in Nat /\ start <= k /\ k < Size(s) /\ k + Len(p) <= Size(s)
  BY <1>0, <1>m DEF Matches
<1>4. CASE index = n - 1
  <2>1. end = Size(s) BY <1>4, <1>e DEF SplitEnd
  <2>. QED BY <1>0, <1>4, <1>e, <2>1
<1>5. CASE index # n - 1
  <2>1. end = Less(Size(s), r) BY <1>5, <1>e, <1>r DEF SplitEnd
  <2>2. CASE M = {}
    <3>1. r = NotFound BY <1>1, <2>2 DEF IsFirst
    <3>2. end = Size(s) BY <1>0, <2>1, <3>1 DEF Less, NotFound
    <3>. QED BY <1>0, <1>c, <1>e, <1>m, <2>2, <3>2
  <2>3. CASE M # {}
    <3>1. r \in M /\ \A k \in M : r <= k BY <1>1, <2>3 DEF IsFirst
    <3>2. end = r BY <1>0, <1>3, <2>1, <3>1 DEF Less
    <3>3. end \in start..Size(s) /\ end # Size(s) /\ end + Len(p) \in start + 1..Size(s)
      BY <1>0, <1>2, <1>3, <3>1, <3>2
    <3>. QED BY <1>5, <1>c, <1>e, <1>m, <3>1, <3>2, <3>3
  <2>. QED BY <2>2, <2>3
<1>. QED BY <1>4, <1>5

LEMMA SplitFromType ==
  ASSUME NEW B, NEW s \in Streams(B), NEW p \in Seq(B), p # <<>>, Size(s) < SizeMax, NEW n,
         NEW f \in [(0..Size(s)) \X Nat -> Seq(Streams(B))],
         NEW start \in 0..Size(s), NEW index \in Nat
  PROVE  SplitFrom(s, p, n, f, start, index) \in Seq(Streams(B))
<1>e. PICK end : end = SplitEnd(s, p, n, start, index)
  OBVIOUS
<1>S. PICK S : S = Streams(B)
  OBVIOUS
<1>1. /\ end \in start..Size(s)
      /\ end # Size(s) => end + Len(p) \in start + 1..Size(s)
  BY <1>e, SplitEndIs
<1>2. Size(s) \in Nat /\ start \in Nat /\ end \in Nat
  <2>1. Size(s) \in Nat BY StreamType, SizeIs
  <2>. QED BY <1>1, <2>1
<1>3. SubStream(s, start, end) \in S BY <1>2, <1>S, SubStreamIs
<1>4. <<SubStream(s, start, end)>> \in Seq(S) BY <1>3
<1>5. (IF end = Size(s) THEN <<>> ELSE f[<<end + Len(p), index + 1>>]) \in Seq(S)
  <2>1. CASE end = Size(s) BY <2>1
  <2>2. CASE end # Size(s)
    <3>1. end + Len(p) \in 0..Size(s) /\ index + 1 \in Nat BY <1>1, <1>2, <2>2
    <3>2. <<end + Len(p), index + 1>> \in (0..Size(s)) \X Nat BY <3>1
    <3>3. f[<<end + Len(p), index + 1>>] \in Seq(S) BY <1>S, <3>2
    <3>. QED BY <2>2, <3>3
  <2>. QED BY <2>1, <2>2
<1>6. Cat(<<SubStream(s, start, end)>>,
          IF end = Size(s) THEN <<>> ELSE f[<<end + Len(p), index + 1>>]) \in Seq(S)
  BY <1>4, <1>5, CatType
<1>. QED BY <1>6, <1>e, <1>S DEF SplitFrom

LEMMA SplitExists ==
  ASSUME NEW B, NEW s \in Streams(B), NEW p \in Seq(B), p # <<>>, Size(s) < SizeMax, NEW n
  PROVE  \E f \in [(0..Size(s)) \X Nat -> Seq(Streams(B))] : SplitEquation(f, s, p, n)
<1>z. PICK z : z = Size(s)
  OBVIOUS
<1>D. PICK D : D = (0..z) \X Nat
  OBVIOUS
<1>Q. PICK Q : Q = Seq(Streams(B))
  OBVIOUS
<1>S. PICK S : S = [D -> Q]
  OBVIOUS
<1>0. z \in Nat BY <1>z, StreamType, SizeIs
<1>F. PICK F : F = [y \in (1..z + 1) \X S |->
                      [at \in D |-> SplitFrom(s, p, n, y[2], at[1], at[2])]]
  OBVIOUS
<1>1. ASSUME NEW f \in S
      PROVE  [at \in D |-> SplitFrom(s, p, n, f, at[1], at[2])] \in S
  <2>1. ASSUME NEW at \in D PROVE SplitFrom(s, p, n, f, at[1], at[2]) \in Q
    <3>1. at[1] \in 0..Size(s) /\ at[2] \in Nat BY <1>D, <1>z
    <3>2. f \in [(0..Size(s)) \X Nat -> Seq(Streams(B))] BY <1>D, <1>Q, <1>S, <1>z
    <3>3. SplitFrom(s, p, n, f, at[1], at[2]) \in Seq(Streams(B))
      BY <3>1, <3>2, SplitFromType
    <3>. QED BY <1>Q, <3>3
  <2>. QED BY <1>S, <2>1
<1>2. F \in [(1..z + 1) \X S -> S]
  <2>1. ASSUME NEW y \in (1..z + 1) \X S
        PROVE  [at \in D |-> SplitFrom(s, p, n, y[2], at[1], at[2])] \in S
    <3>1. y[2] \in S OBVIOUS
    <3>. QED BY <1>1, <3>1
  <2>. QED BY <1>F, <2>1
<1>3. [at \in D |-> <<>>] \in S
  <2>1. <<>> \in Q BY <1>Q
  <2>. QED BY <1>S, <2>1
<1>4. z + 1 \in Nat BY <1>0
<1>5. PICK h \in [0..z + 1 -> S] : Steps(h, z + 1, [at \in D |-> <<>>], F)
  BY <1>2, <1>3, <1>4, StepsExist
<1>6. ASSUME NEW j \in 1..z + 1, NEW start \in 0..z, NEW index \in Nat
      PROVE  h[j][<<start, index>>] = SplitFrom(s, p, n, h[j - 1], start, index)
  <2>1. h[j] = F[<<j, h[j - 1]>>] BY <1>5 DEF Steps
  <2>2. j - 1 \in 0..z + 1 BY <1>0
  <2>3. h[j - 1] \in S BY <1>5, <2>2
  <2>4. h[j] = [at \in D |-> SplitFrom(s, p, n, h[j - 1], at[1], at[2])]
    BY <1>F, <2>1, <2>3
  <2>5. <<start, index>> \in D /\ <<start, index>>[1] = start /\ <<start, index>>[2] = index
    BY <1>D
  <2>. QED BY <2>4, <2>5
<1>7. ASSUME NEW f \in S, NEW g \in S, NEW start \in 0..z, NEW index \in Nat,
             \A k \in start + 1..z : f[<<k, index + 1>>] = g[<<k, index + 1>>]
      PROVE  SplitFrom(s, p, n, f, start, index) = SplitFrom(s, p, n, g, start, index)
  <2>e. PICK end : end = SplitEnd(s, p, n, start, index)
    OBVIOUS
  <2>1. end # Size(s) => end + Len(p) \in start + 1..Size(s)
    BY <1>z, <2>e, SplitEndIs
  <2>2. end # Size(s) =>
          f[<<end + Len(p), index + 1>>] = g[<<end + Len(p), index + 1>>]
    BY <1>7, <1>z, <2>1
  <2>. QED BY <2>2, <2>e DEF SplitFrom
\* The j-th no longer changes where fewer than j bytes are left.
<1>. DEFINE Settled(j) ==
       \A start \in 0..z, index \in Nat :
         z - start < j => SplitFrom(s, p, n, h[j], start, index) = h[j][<<start, index>>]
     T == {j \in 0..z + 1 : Settled(j)}
<1>8. 0 \in T
  <2>1. \A start \in 0..z : ~ (z - start < 0) BY <1>0
  <2>. QED BY <1>0, <2>1
<1>9. ASSUME NEW j \in 1..z + 1, j - 1 \in T PROVE j \in T
  <2>1. ASSUME NEW start \in 0..z, NEW index \in Nat, z - start < j
        PROVE  SplitFrom(s, p, n, h[j], start, index) = h[j][<<start, index>>]
    <3>1. h[j] \in S /\ h[j - 1] \in S
      <4>1. j \in 0..z + 1 /\ j - 1 \in 0..z + 1 BY <1>0
      <4>. QED BY <1>5, <4>1
    <3>2. ASSUME NEW k \in start + 1..z
          PROVE  h[j][<<k, index + 1>>] = h[j - 1][<<k, index + 1>>]
      <4>1. k \in 0..z /\ index + 1 \in Nat /\ z - k < j - 1 BY <1>0, <2>1
      <4>2. SplitFrom(s, p, n, h[j - 1], k, index + 1) = h[j - 1][<<k, index + 1>>]
        BY <1>9, <4>1
      <4>. QED BY <1>6, <4>1, <4>2
    <3>3. SplitFrom(s, p, n, h[j], start, index) = SplitFrom(s, p, n, h[j - 1], start, index)
      BY <1>7, <3>1, <3>2
    <3>. QED BY <1>6, <3>3
  <2>2. Settled(j) BY <2>1
  <2>3. j \in 0..z + 1 BY <1>0
  <2>. QED BY <2>2, <2>3
<1>10. z + 1 \in T
  <2>. HIDE DEF T
  <2>1. 0..z + 1 \subseteq T BY <1>4, <1>8, <1>9, UpTo
  <2>2. z + 1 \in 0..z + 1 BY <1>4
  <2>. QED BY <2>1, <2>2
<1>f. PICK f : f = h[z + 1]
  OBVIOUS
<1>11. f \in S
  <2>1. z + 1 \in 0..z + 1 BY <1>4
  <2>. QED BY <1>5, <1>f, <2>1
<1>12. ASSUME NEW at \in D PROVE f[at] = SplitFrom(s, p, n, f, at[1], at[2])
  <2>1. at[1] \in 0..z /\ at[2] \in Nat /\ at = <<at[1], at[2]>> BY <1>D
  <2>2. z - at[1] < z + 1 BY <1>0, <2>1
  <2>3. Settled(z + 1) BY <1>10
  <2>4. SplitFrom(s, p, n, h[z + 1], at[1], at[2]) = h[z + 1][<<at[1], at[2]>>]
    BY <2>1, <2>2, <2>3
  <2>. QED BY <1>f, <2>1, <2>4
<1>13. SplitEquation(f, s, p, n)
  <2>1. f = [at \in D |-> f[at]] BY <1>S, <1>11
  <2>2. f = [at \in D |-> SplitFrom(s, p, n, f, at[1], at[2])] BY <1>12, <2>1
  <2>. QED BY <1>D, <1>z, <2>2 DEF SplitEquation
<1>. QED BY <1>11, <1>13, <1>D, <1>Q, <1>S, <1>z

LEMMA SplitIs ==
  ASSUME NEW B, NEW s \in Streams(B), NEW p \in Seq(B), p # <<>>, Size(s) < SizeMax, NEW n
  PROVE  \E f : Splits(f, s, p, n) /\ Split(s, p, n) = f[<<0, 0>>]
<1>1. PICK f : f = CHOOSE x : SplitEquation(x, s, p, n)
  OBVIOUS
<1>2. SplitEquation(f, s, p, n) BY <1>1, SplitExists
<1>. QED BY <1>1, <1>2, SplitExpanded, SplitEquationIs

\* The parts of two streams that read the same read the same.
Alike(x, y, B, z) ==
  /\ x \in Seq(Streams(B)) /\ y \in Seq(Streams(B)) /\ Len(x) = Len(y) /\ Len(x) # 0
  /\ \A k \in 1..Len(x) :
       FlattenSeq(x[k]) = FlattenSeq(y[k]) /\ Len(FlattenSeq(x[k])) <= z

LEMMA AlikeOne ==
  ASSUME NEW B, NEW z, NEW v \in Streams(B), NEW w \in Streams(B),
         FlattenSeq(v) = FlattenSeq(w), Len(FlattenSeq(v)) <= z
  PROVE  Alike(Cat(<<v>>, <<>>), Cat(<<w>>, <<>>), B, z)
<1>S. PICK S : S = Streams(B)
  OBVIOUS
<1>1. <<v>> \in Seq(S) /\ <<w>> \in Seq(S) BY <1>S
<1>2. Cat(<<v>>, <<>>) = <<v>> /\ Cat(<<w>>, <<>>) = <<w>> BY <1>1, CatEmpty
<1>3. Alike(<<v>>, <<w>>, B, z) BY <1>1, <1>S DEF Alike
<1>. QED BY <1>2, <1>3

LEMMA AlikeCons ==
  ASSUME NEW B, NEW z, NEW v \in Streams(B), NEW w \in Streams(B), NEW x, NEW y,
         FlattenSeq(v) = FlattenSeq(w), Len(FlattenSeq(v)) <= z, Alike(x, y, B, z)
  PROVE  Alike(Cat(<<v>>, x), Cat(<<w>>, y), B, z)
<1>S. PICK S : S = Streams(B)
  OBVIOUS
<1>c. PICK c : c = Cat(<<v>>, x)
  OBVIOUS
<1>d. PICK d : d = Cat(<<w>>, y)
  OBVIOUS
<1>1. /\ x \in Seq(S) /\ y \in Seq(S) /\ v \in S /\ w \in S /\ Len(x) = Len(y)
      /\ Len(x) \in Nat
  BY <1>S DEF Alike
<1>2. c \in Seq(S) /\ ConsAt(c, v, x) /\ d \in Seq(S) /\ ConsAt(d, w, y)
  BY <1>1, <1>c, <1>d, ConsPlaces
<1>3. Len(c) = Len(x) + 1 /\ Len(d) = Len(x) + 1 /\ c[1] = v /\ d[1] = w
      /\ \A i \in 1..Len(x) : c[i + 1] = x[i] /\ d[i + 1] = y[i]
  BY <1>1, <1>2 DEF ConsAt
<1>4. ASSUME NEW k \in 1..Len(c)
      PROVE  FlattenSeq(c[k]) = FlattenSeq(d[k]) /\ Len(FlattenSeq(c[k])) <= z
  <2>1. CASE k = 1 BY <1>3, <2>1
  <2>2. CASE k # 1
    <3>1. k - 1 \in 1..Len(x) /\ (k - 1) + 1 = k BY <1>1, <1>3, <2>2
    <3>2. c[k] = x[k - 1] /\ d[k] = y[k - 1] BY <1>3, <3>1
    <3>. QED BY <3>1, <3>2 DEF Alike
  <2>. QED BY <2>1, <2>2
<1>5. Len(c) # 0 BY <1>1, <1>3
<1>. QED BY <1>2, <1>3, <1>4, <1>5, <1>S, <1>c, <1>d DEF Alike

LEMMA PartSize ==
  ASSUME NEW B, NEW c \in Seq(B), NEW a \in Nat, NEW b \in Nat
  PROVE  Len(Part(c, a, b)) <= Len(c)
<1>0. Len(c) \in Nat /\ Less(b, Len(c)) \in Nat /\ Less(b, Len(c)) <= Len(c) BY DEF Less
<1>1. CASE a >= Less(b, Len(c))
  <2>1. Part(c, a, b) = <<>> BY <1>1, PartIs
  <2>. QED BY <1>0, <2>1
<1>2. CASE a <= Less(b, Len(c))
  <2>1. Len(Part(c, a, b)) = Less(b, Len(c)) - a BY <1>2, PartIs DEF CutAt
  <2>. QED BY <1>0, <2>1
<1>. QED BY <1>0, <1>1, <1>2

LEMMA SplitsAlike ==
  ASSUME NEW B, NEW s \in Streams(B), NEW u \in Streams(B), FlattenSeq(s) = FlattenSeq(u),
         NEW p \in Seq(B), p # <<>>, Size(s) < SizeMax, NEW n,
         NEW f, NEW g, Splits(f, s, p, n), Splits(g, u, p, n)
  PROVE  \A start \in 0..Size(s), index \in Nat :
           Alike(f[<<start, index>>], g[<<start, index>>], B, Size(s))
<1>z. PICK z : z = Size(s)
  OBVIOUS
<1>c. PICK c : c = FlattenSeq(s)
  OBVIOUS
<1>0. /\ z \in Nat /\ Size(u) = z /\ Len(c) = z /\ c \in Seq(B) /\ FlattenSeq(u) = c
  BY <1>c, <1>z, StreamType, SizeIs, FlattenType
<1>1. ASSUME NEW start \in 0..z, NEW index \in Nat
      PROVE  SplitEnd(s, p, n, start, index) = SplitEnd(u, p, n, start, index)
  <2>1. start \in Nat /\ z \in Nat /\ Size(u) < SizeMax BY <1>0, <1>z
  <2>2. FirstIndexOf(s, p, start, z) = FirstOffset(Matches(p, c, start, Less(z, z)))
    BY <1>c, <1>z, <2>1, FirstIndexOfIs
  <2>3. FirstIndexOf(u, p, start, z) = FirstOffset(Matches(p, c, start, Less(z, z)))
    BY <1>0, <2>1, FirstIndexOfIs
  <2>. QED BY <1>0, <1>z, <2>2, <2>3 DEF SplitEnd
<1>. DEFINE T == {j \in 0..z + 1 : \A start \in 0..z, index \in Nat :
                    z - start < j => Alike(f[<<start, index>>], g[<<start, index>>], B, z)}
<1>2. 0 \in T
  <2>1. \A start \in 0..z : ~ (z - start < 0) BY <1>0
  <2>. QED BY <1>0, <2>1
<1>3. ASSUME NEW j \in 1..z + 1, j - 1 \in T PROVE j \in T
  <2>1. ASSUME NEW start \in 0..z, NEW index \in Nat, z - start < j
        PROVE  Alike(f[<<start, index>>], g[<<start, index>>], B, z)
    <3>e. PICK end : end = SplitEnd(s, p, n, start, index)
      OBVIOUS
    <3>1. end \in start..z /\ (end # z => end + Len(p) \in start + 1..z)
      BY <1>z, <3>e, SplitEndIs
    <3>2. start \in Nat /\ end \in Nat BY <1>0, <3>1
    <3>v. PICK v : v = SubStream(s, start, end)
      OBVIOUS
    <3>w. PICK w : w = SubStream(u, start, end)
      OBVIOUS
    <3>3. v \in Streams(B) /\ FlattenSeq(v) = Part(c, start, end)
      BY <1>c, <3>2, <3>v, SubStreamIs
    <3>4. w \in Streams(B) /\ FlattenSeq(w) = Part(c, start, end)
      BY <1>0, <3>2, <3>w, SubStreamIs
    <3>5. Len(FlattenSeq(v)) <= z BY <1>0, <3>2, <3>3, PartSize
    <3>a. g[<<start, index>>] = SplitFrom(u, p, n, g, start, index)
          /\ end = SplitEnd(u, p, n, start, index)
      BY <1>0, <1>1, <3>e DEF Splits
    <3>6. CASE end = z
      <4>1. f[<<start, index>>] = Cat(<<v>>, <<>>)
        BY <1>z, <3>e, <3>v, <3>6 DEF Splits, SplitFrom
      <4>2. g[<<start, index>>] = Cat(<<w>>, <<>>)
        BY <1>0, <3>a, <3>w, <3>6 DEF SplitFrom
      <4>. QED BY <3>3, <3>4, <3>5, <4>1, <4>2, AlikeOne
    <3>7. CASE end # z
      <4>k. PICK k : k = end + Len(p)
        OBVIOUS
      <4>1. f[<<start, index>>] = Cat(<<v>>, f[<<k, index + 1>>])
        BY <1>z, <3>e, <3>v, <3>7, <4>k DEF Splits, SplitFrom
      <4>2. g[<<start, index>>] = Cat(<<w>>, g[<<k, index + 1>>])
        BY <1>0, <3>a, <3>w, <3>7, <4>k DEF SplitFrom
      <4>3. k \in 0..z /\ z - k < j - 1 /\ index + 1 \in Nat
        BY <1>0, <2>1, <3>1, <3>7, <4>k
      <4>4. Alike(f[<<k, index + 1>>], g[<<k, index + 1>>], B, z)
        BY <1>3, <4>3
      <4>. QED BY <3>3, <3>4, <3>5, <4>1, <4>2, <4>4, AlikeCons
    <3>. QED BY <3>6, <3>7
  <2>2. j \in 0..z + 1 BY <1>0
  <2>. QED BY <2>1, <2>2
<1>4. z + 1 \in T
  <2>. HIDE DEF T
  <2>0. z + 1 \in Nat BY <1>0
  <2>1. 0..z + 1 \subseteq T BY <2>0, <1>2, <1>3, UpTo
  <2>2. z + 1 \in 0..z + 1 BY <1>0
  <2>. QED BY <2>1, <2>2
<1>5. \A start \in 0..z : z - start < z + 1 BY <1>0
<1>. QED BY <1>4, <1>5, <1>z

LEMMA SplitAlike ==
  ASSUME NEW B, NEW s \in Streams(B), NEW u \in Streams(B), FlattenSeq(s) = FlattenSeq(u),
         NEW p \in Seq(B), p # <<>>, Size(s) < SizeMax, NEW n
  PROVE  Alike(Split(s, p, n), Split(u, p, n), B, Size(s))
<1>0. Size(s) \in Nat /\ Size(u) = Size(s) BY StreamType, SizeIs
<1>1. PICK f : Splits(f, s, p, n) /\ Split(s, p, n) = f[<<0, 0>>] BY SplitIs
<1>2. PICK g : Splits(g, u, p, n) /\ Split(u, p, n) = g[<<0, 0>>] BY <1>0, SplitIs
<1>3. 0 \in 0..Size(s) /\ 0 \in Nat BY <1>0
<1>. QED BY <1>1, <1>2, <1>3, SplitsAlike

-----------------------------------------------------------------------------
(* Searches for bytes in a set, and Trim(). *)

Without(S, c, a, e) == {k \in a..e - 1 : c[k + 1] \notin S}

LEMMA OffsetsAre ==
  ASSUME NEW B, NEW s \in Streams(B), NEW S, NEW a \in Nat, NEW end \in Nat
  PROVE  LET c == FlattenSeq(s)
             e == Less(end, Size(s))
         IN  /\ FirstIndexOfAnyInSet(s, S, a, end) = FirstOffset(Among(S, c, a, e))
             /\ LastIndexOfAnyInSet(s, S, a, end) = LastOffset(Among(S, c, a, e))
             /\ FirstIndexNotOfAnyInSet(s, S, a, end) = FirstOffset(Without(S, c, a, e))
             /\ LastIndexNotOfAnyInSet(s, S, a, end) = LastOffset(Without(S, c, a, e))
<1>c. PICK c : c = FlattenSeq(s)
  OBVIOUS
<1>e. PICK e : e = Less(end, Size(s))
  OBVIOUS
<1>0. s \in Seq(Seq(B)) /\ Size(s) \in Nat BY StreamType, SizeIs
<1>1. e \in Nat /\ e <= Size(s) BY <1>0, <1>e DEF Less
<1>2. ASSUME NEW k \in a..Size(s), k < e
      PROVE  ByteAt(s, k) = c[k + 1]
  <2>1. k \in Nat /\ k < Size(s) BY <1>0, <1>1, <1>2
  <2>. QED BY <1>0, <1>c, <2>1, ByteAtIs
<1>3. \A k : k \in a..Size(s) /\ k < e <=> k \in a..e - 1 BY <1>0, <1>1
<1>4. {k \in a..Size(s) : k < e /\ ByteAt(s, k) \in S} = Among(S, c, a, e)
  BY <1>2, <1>3 DEF Among
<1>5. {k \in a..Size(s) : k < e /\ ByteAt(s, k) \notin S} = Without(S, c, a, e)
  BY <1>2, <1>3 DEF Without
<1>6. FirstIndexOfAnyInSet(s, S, a, end) = FirstOffset(Among(S, c, a, e))
  BY <1>4, <1>e DEF FirstIndexOfAnyInSet, OffsetsWhere
<1>7. LastIndexOfAnyInSet(s, S, a, end) = LastOffset(Among(S, c, a, e))
  BY <1>4, <1>e DEF LastIndexOfAnyInSet, OffsetsWhere
<1>8. FirstIndexNotOfAnyInSet(s, S, a, end) = FirstOffset(Without(S, c, a, e))
  BY <1>5, <1>e DEF FirstIndexNotOfAnyInSet, OffsetsWhere
<1>9. LastIndexNotOfAnyInSet(s, S, a, end) = LastOffset(Without(S, c, a, e))
  BY <1>5, <1>e DEF LastIndexNotOfAnyInSet, OffsetsWhere
<1>. QED BY <1>6, <1>7, <1>8, <1>9, <1>c, <1>e

LEMMA LastExists ==
  ASSUME NEW S, NEW n \in Nat, S \subseteq 0..n, S # {}
  PROVE  LastOffset(S) \in S /\ \A k \in S : LastOffset(S) >= k
<1>1. PICK T : T = {n - k : k \in S}
  OBVIOUS
<1>2. T \subseteq Nat /\ T # {}
  <2>1. \A k \in S : n - k \in Nat OBVIOUS
  <2>2. \E k \in S : TRUE OBVIOUS
  <2>. QED BY <1>1, <2>1, <2>2
<1>3. PICK m \in T : \A k \in T : m <= k BY <1>2, LeastNat
<1>4. PICK x \in S : m = n - x BY <1>1
<1>5. ASSUME NEW k \in S PROVE x >= k
  <2>1. n - k \in T BY <1>1
  <2>2. n - x <= n - k BY <1>3, <1>4, <2>1
  <2>. QED BY <2>2
<1>6. \E y \in S : \A k \in S : y >= k BY <1>5
<1>. QED BY <1>6 DEF LastOffset

LEMMA TrimIs ==
  ASSUME NEW B, NEW s \in Streams(B), Size(s) <= SizeMax
  PROVE  LET c == FlattenSeq(s)
             ink == Without(Whitespace, c, 0, Len(c))
         IN  /\ Trim(s) \in Streams(B)
             /\ FlattenSeq(Trim(s)) =
                  IF ink = {} THEN <<>> ELSE SubSeq(c, FirstOffset(ink) + 1, LastOffset(ink) + 1)
<1>c. PICK c : c = FlattenSeq(s)
  OBVIOUS
<1>i. PICK ink : ink = Without(Whitespace, c, 0, Len(c))
  OBVIOUS
<1>0. /\ s \in Seq(Seq(B)) /\ Size(s) = Len(c) /\ Len(c) \in Nat /\ SizeMax \in Nat
      /\ Less(SizeMax, Size(s)) = Len(c) /\ 0 \in Nat
  BY <1>c, StreamType, SizeIs, SizeMaxAssumption DEF Less
<1>f. PICK first : first = FirstOffset(ink)
  OBVIOUS
<1>l. PICK last : last = LastOffset(ink)
  OBVIOUS
<1>1. /\ FirstIndexNotOfAnyInSet(s, Whitespace, 0, SizeMax) = first
      /\ LastIndexNotOfAnyInSet(s, Whitespace, 0, SizeMax) = last
  <2>1. /\ FirstIndexNotOfAnyInSet(s, Whitespace, 0, SizeMax)
             = FirstOffset(Without(Whitespace, FlattenSeq(s), 0, Less(SizeMax, Size(s))))
        /\ LastIndexNotOfAnyInSet(s, Whitespace, 0, SizeMax)
             = LastOffset(Without(Whitespace, FlattenSeq(s), 0, Less(SizeMax, Size(s))))
    BY <1>0, OffsetsAre
  <2>. QED BY <1>0, <1>c, <1>f, <1>i, <1>l, <2>1
<1>2. Trim(s) = IF first = NotFound THEN <<>> ELSE SubStream(s, first, last + 1)
  BY <1>1 DEF Trim
<1>3. CASE ink = {}
  <2>1. first = NotFound BY <1>3, <1>f DEF FirstOffset
  <2>2. <<>> \in Streams(B) BY DEF Streams
  <2>. QED BY <1>2, <1>3, <1>c, <1>i, <2>1, <2>2, FlattenEmpty
<1>4. CASE ink # {}
  <2>1. ink \subseteq Nat /\ ink \subseteq 0..Len(c) /\ \A k \in ink : k < Len(c)
    BY <1>0, <1>i DEF Without
  <2>2. first \in ink BY <1>4, <1>f, <2>1, FirstExists DEF IsFirst
  <2>3. last \in ink BY <1>0, <1>4, <1>l, <2>1, LastExists
  <2>4. first \in Nat /\ last \in Nat /\ first < Len(c) /\ last + 1 <= Len(c)
    BY <1>0, <2>1, <2>2, <2>3
  <2>5. first # NotFound BY <1>0, <2>4 DEF NotFound
  <2>6. Trim(s) = SubStream(s, first, last + 1) BY <1>2, <2>5
  <2>7. Less(last + 1, Len(c)) = last + 1 BY <1>0, <2>4 DEF Less
  <2>8. last + 1 \in Nat BY <2>4
  <2>9. SubStream(s, first, last + 1) \in Streams(B)
        /\ FlattenSeq(SubStream(s, first, last + 1)) = Part(c, first, last + 1)
    BY <1>c, <2>4, <2>8, SubStreamIs
  <2>10. Part(c, first, last + 1) = SubSeq(c, first + 1, last + 1)
    BY <2>7 DEF Part
  <2>. QED BY <1>4, <1>c, <1>f, <1>i, <1>l, <2>6, <2>9, <2>10
<1>. QED BY <1>3, <1>4

\* A stream is empty when it reads as nothing.
LEMMA EmptyStream ==
  ASSUME NEW B, NEW s \in Streams(B)
  PROVE  s = <<>> <=> FlattenSeq(s) = <<>>
<1>1. s = <<>> => FlattenSeq(s) = <<>> BY FlattenEmpty
<1>2. ASSUME s # <<>> PROVE FlattenSeq(s) # <<>>
  <2>0. s \in Seq(Seq(B)) BY StreamType
  <2>1. 1 \in 1..Len(s) /\ 2 \in 1..Len(s) + 1 /\ Len(s) + 1 \in 1..Len(s) + 1
        /\ 2 <= Len(s) + 1 /\ 1 + 1 = 2
    BY <1>2, <2>0
  <2>2. Len(s[1]) \in Nat \ {0} BY <2>1, StreamType
  <2>3. LengthBefore(s, 1) = 0
        /\ LengthBefore(s, 2) = LengthBefore(s, 1) + Len(s[1])
    BY <2>0, <2>1, LengthBeforeStep
  <2>4. LengthBefore(s, 2) <= Size(s) BY <2>0, <2>1, LengthBeforeGrows DEF Size
  <2>5. Size(s) = Len(FlattenSeq(s)) /\ Size(s) \in Nat BY <2>0, SizeIs
  <2>6. Len(FlattenSeq(s)) # 0 BY <2>2, <2>3, <2>4, <2>5
  <2>7. Len(<<>>) = 0 OBVIOUS
  <2>. QED BY <2>6, <2>7
<1>. QED BY <1>1, <1>2

-----------------------------------------------------------------------------
(* The headers, which read the same in every stream that reads the same. *)

LEMMA SeparatorTypes ==
  /\ CrLf \in Seq(Byte) /\ Len(CrLf) = 2 /\ CrLf # <<>>
  /\ DoubleCrLf \in Seq(Byte) /\ Len(DoubleCrLf) = 4 /\ DoubleCrLf # <<>>
<1>1. "\r" \in Byte /\ "\n" \in Byte BY DEF Byte
<1>2. CrLf \in Seq(Byte) /\ Len(CrLf) = 2 BY <1>1 DEF CrLf
<1>3. DoubleCrLf = Cat(CrLf, CrLf) BY DEF DoubleCrLf, Cat
<1>4. DoubleCrLf \in Seq(Byte) BY <1>2, <1>3, CatType
<1>5. Len(DoubleCrLf) = Len(CrLf) + Len(CrLf)
  <2>1. Places(DoubleCrLf, CrLf, CrLf) BY <1>2, <1>3, CatPlaces
  <2>. QED BY <2>1 DEF Places
<1>6. CrLf # <<>> /\ DoubleCrLf # <<>>
  <2>1. Len(CrLf) # 0 /\ Len(DoubleCrLf) # 0 /\ Len(<<>>) = 0 BY <1>2, <1>5
  <2>. QED BY <2>1
<1>. QED BY <1>2, <1>4, <1>5, <1>6

LEMMA HeaderLineAlike ==
  ASSUME NEW s \in Streams(Byte), NEW u \in Streams(Byte), FlattenSeq(s) = FlattenSeq(u),
         Size(s) < SizeMax
  PROVE  /\ HeaderLine(s) \in Streams(Byte) /\ HeaderLine(u) \in Streams(Byte)
         /\ FlattenSeq(HeaderLine(s)) = FlattenSeq(HeaderLine(u))
         /\ Size(HeaderLine(s)) <= Size(s)
<1>x. PICK x : x = Split(s, CrLf, SizeMax)
  OBVIOUS
<1>y. PICK y : y = Split(u, CrLf, SizeMax)
  OBVIOUS
<1>0. Size(s) \in Nat BY StreamType, SizeIs
<1>1. Alike(x, y, Byte, Size(s)) BY <1>x, <1>y, SeparatorTypes, SplitAlike
<1>2. /\ x \in Seq(Streams(Byte)) /\ y \in Seq(Streams(Byte)) /\ Len(x) = Len(y)
      /\ Len(x) \in 1..Len(x)
  BY <1>1 DEF Alike
<1>3. HeaderLine(s) = LastLine(x) /\ HeaderLine(u) = LastLine(y)
  BY <1>x, <1>y DEF HeaderLine
<1>4. CASE Len(x) = 1
  <2>1. LastLine(x) = <<>> /\ LastLine(y) = <<>> BY <1>2, <1>4 DEF LastLine
  <2>2. <<>> \in Streams(Byte) BY DEF Streams
  <2>3. <<>> \in Seq(Seq(Byte)) /\ Len(<<>>) = 0 OBVIOUS
  <2>4. Size(<<>>) = 0 BY <2>3, FlattenEmpty, SizeIs
  <2>. QED BY <1>0, <1>3, <2>1, <2>2, <2>4
<1>5. CASE Len(x) # 1
  <2>1. LastLine(x) = x[Len(x)] /\ LastLine(y) = y[Len(x)]
    BY <1>2, <1>5 DEF LastLine, Last
  <2>2. x[Len(x)] \in Streams(Byte) /\ y[Len(x)] \in Streams(Byte)
    BY <1>2, ElementOfSeq
  <2>3. FlattenSeq(x[Len(x)]) = FlattenSeq(y[Len(x)])
        /\ Len(FlattenSeq(x[Len(x)])) <= Size(s)
    BY <1>1, <1>2 DEF Alike
  <2>4. Size(x[Len(x)]) = Len(FlattenSeq(x[Len(x)])) BY <2>2, StreamType, SizeIs
  <2>. QED BY <1>3, <2>1, <2>2, <2>3, <2>4
<1>. QED BY <1>4, <1>5

LEMMA HasContentLengthAlike ==
  ASSUME NEW s \in Streams(Byte), NEW u \in Streams(Byte), FlattenSeq(s) = FlattenSeq(u),
         Size(s) < SizeMax
  PROVE  HasContentLength(s) <=> HasContentLength(u)
<1>h. PICK h : h = HeaderLine(s)
  OBVIOUS
<1>i. PICK i : i = HeaderLine(u)
  OBVIOUS
<1>0. Size(s) \in Nat /\ SizeMax \in Nat BY StreamType, SizeIs, SizeMaxAssumption
<1>1. /\ h \in Streams(Byte) /\ i \in Streams(Byte) /\ FlattenSeq(h) = FlattenSeq(i)
      /\ Size(h) <= Size(s)
  BY <1>h, <1>i, HeaderLineAlike
<1>2. Size(h) <= SizeMax /\ Size(i) <= SizeMax
  <2>1. Size(h) \in Nat /\ Size(i) = Size(h) BY <1>1, StreamType, SizeIs
  <2>. QED BY <1>0, <1>1, <2>1
<1>t. PICK t : t = Trim(h)
  OBVIOUS
<1>w. PICK w : w = Trim(i)
  OBVIOUS
<1>3. t \in Streams(Byte) /\ w \in Streams(Byte) /\ FlattenSeq(t) = FlattenSeq(w)
  BY <1>1, <1>2, <1>t, <1>w, TrimIs
<1>4. t # <<>> <=> w # <<>> BY <1>3, EmptyStream
<1>5. ASSUME t # <<>> PROVE ByteAt(t, 0) = ByteAt(w, 0)
  <2>1. FlattenSeq(t) # <<>> BY <1>3, <1>5, EmptyStream
  <2>2. FlattenSeq(t) \in Seq(Byte) /\ t \in Seq(Seq(Byte)) /\ w \in Seq(Seq(Byte))
    BY <1>3, StreamType, FlattenType
  <2>3. Size(t) = Len(FlattenSeq(t)) /\ Size(w) = Len(FlattenSeq(t)) BY <1>3, <2>2, SizeIs
  <2>4. 0 < Len(FlattenSeq(t)) BY <2>1, <2>2
  <2>. QED BY <1>3, <2>2, <2>3, <2>4, ByteAtIs
<1>. QED BY <1>4, <1>5, <1>h, <1>i, <1>t, <1>w DEF HasContentLength, IsContentLength

-----------------------------------------------------------------------------
(* Where headers end. *)

\* What was received, and where the headers end in it, is the same in bytes and in streams.
LEMMA EndsAreMatches ==
  ASSUME NEW c \in Seq(Byte)
  PROVE  Ends(c) = Matches(DoubleCrLf, c, 0, Len(c))
<1>p. PICK p : p = DoubleCrLf
  OBVIOUS
<1>0. Len(c) \in Nat OBVIOUS
<1>1. p \in Seq(Byte) /\ Len(p) = 4 BY <1>p, SeparatorTypes
<1>2. ASSUME NEW k \in Nat, k + 4 <= Len(c)
      PROVE  SubSeq(c, k + 1, k + 4) = p <=> \A i \in 1..4 : c[k + i] = p[i]
  <2>d. PICK d : d = SubSeq(c, k + 1, k + 4)
    OBVIOUS
  <2>e. PICK e : e = k + 4
    OBVIOUS
  <2>1. e \in Nat /\ k <= e /\ e <= Len(c) /\ e - k = 4 BY <1>2, <2>e
  <2>2. d \in Seq(Byte) /\ CutAt(d, c, k, e) BY <2>1, <2>d, <2>e, CutIs
  <2>3. Len(d) = 4 /\ \A i \in 1..4 : d[i] = c[k + i] BY <2>1, <2>2 DEF CutAt
  <2>4. (\A i \in 1..4 : d[i] = p[i]) => d = p BY <1>1, <2>2, <2>3, SeqEqual
  <2>. QED BY <2>3, <2>4, <2>d
<1>3. ASSUME NEW k \in Nat
      PROVE  k \in 0..Len(c) - 4 <=> 0 <= k /\ k < Len(c) /\ k + 4 <= Len(c)
  BY <1>0
<1>4. \A k : k \in 0..Len(c) - 4 => k \in Nat OBVIOUS
<1>5. \A k : k \in Ends(c) <=>
        k \in Nat /\ k \in 0..Len(c) - 4 /\ SubSeq(c, k + 1, k + 4) = p
  BY <1>4, <1>p DEF Ends
<1>6. \A k : k \in Matches(p, c, 0, Len(c)) <=>
        k \in Nat /\ (0 <= k /\ k < Len(c) /\ k + 4 <= Len(c))
        /\ \A i \in 1..4 : c[k + i] = p[i]
  BY <1>1 DEF Matches
<1>7. ASSUME NEW k PROVE k \in Ends(c) <=> k \in Matches(p, c, 0, Len(c))
  BY <1>2, <1>3, <1>5, <1>6
<1>. QED BY <1>7, <1>p

\* What FirstIndexOf() finds in a stream.
LEMMA EndFound ==
  ASSUME NEW s \in Streams(Byte), Size(s) < SizeMax
  PROVE  IsFirst(FirstIndexOf(s, DoubleCrLf, 0, SizeMax), Ends(FlattenSeq(s)))
<1>c. PICK c : c = FlattenSeq(s)
  OBVIOUS
<1>0. /\ s \in Seq(Seq(Byte)) /\ c \in Seq(Byte) /\ Size(s) = Len(c) /\ Size(s) \in Nat
      /\ SizeMax \in Nat /\ Less(SizeMax, Size(s)) = Len(c)
  BY <1>c, StreamType, SizeIs, FlattenType, SizeMaxAssumption DEF Less
<1>1. Ends(c) = Matches(DoubleCrLf, c, 0, Len(c)) BY <1>0, EndsAreMatches
<1>2. IsFirst(FirstIndexOf(s, DoubleCrLf, 0, SizeMax),
              Matches(DoubleCrLf, FlattenSeq(s), 0, Less(SizeMax, Size(s))))
  BY <1>0, SeparatorTypes, FirstIndexOfFirst
<1>. QED BY <1>0, <1>1, <1>2, <1>c

\* What ends the headers of a text ends them when more is received.
LEMMA EndsGrow ==
  ASSUME NEW c \in Seq(Byte), NEW x \in Seq(Byte)
  PROVE  /\ Ends(c) \subseteq Ends(Cat(c, x))
         /\ \A k \in Ends(Cat(c, x)) : k + 4 <= Len(c) => k \in Ends(c)
<1>d. PICK d : d = Cat(c, x)
  OBVIOUS
<1>0. /\ d \in Seq(Byte) /\ Len(d) = Len(c) + Len(x) /\ Len(c) \in Nat /\ Len(x) \in Nat
      /\ \A i \in 1..Len(c) : d[i] = c[i]
  <2>1. d \in Seq(Byte) /\ Places(d, c, x) BY <1>d, CatType, CatPlaces
  <2>. QED BY <2>1 DEF Places
<1>1. Ends(c) = Matches(DoubleCrLf, c, 0, Len(c))
      /\ Ends(d) = Matches(DoubleCrLf, d, 0, Len(d))
  BY <1>0, EndsAreMatches
<1>2. Len(DoubleCrLf) = 4 BY SeparatorTypes
<1>3. ASSUME NEW k \in Nat, k + 4 <= Len(c)
      PROVE  \A i \in 1..4 : d[k + i] = c[k + i]
  <2>1. \A i \in 1..4 : k + i \in 1..Len(c) BY <1>0, <1>3
  <2>. QED BY <1>0, <2>1
<1>4. ASSUME NEW k \in Ends(c) PROVE k \in Ends(d)
  <2>1. /\ k \in Nat /\ 0 <= k /\ k < Len(c) /\ k + 4 <= Len(c)
        /\ \A i \in 1..4 : c[k + i] = DoubleCrLf[i]
    BY <1>1, <1>2 DEF Matches
  <2>2. k < Len(d) /\ k + 4 <= Len(d) BY <1>0, <2>1
  <2>3. \A i \in 1..4 : d[k + i] = DoubleCrLf[i] BY <1>3, <2>1
  <2>. QED BY <1>1, <1>2, <2>1, <2>2, <2>3 DEF Matches
<1>5. ASSUME NEW k \in Ends(d), k + 4 <= Len(c) PROVE k \in Ends(c)
  <2>1. /\ k \in Nat /\ 0 <= k /\ \A i \in 1..4 : d[k + i] = DoubleCrLf[i]
    BY <1>1, <1>2 DEF Matches
  <2>2. k < Len(c) BY <1>0, <1>5, <2>1
  <2>3. \A i \in 1..4 : c[k + i] = DoubleCrLf[i] BY <1>3, <1>5, <2>1
  <2>. QED BY <1>1, <1>2, <1>5, <2>1, <2>2, <2>3 DEF Matches
<1>. QED BY <1>4, <1>5, <1>d

\* The first end of headers of some bytes.
FirstEnd(c) == CHOOSE k \in Ends(c) : \A j \in Ends(c) : k <= j

LEMMA FirstEndIs ==
  ASSUME NEW c \in Seq(Byte), Ends(c) # {}
  PROVE  /\ FirstEnd(c) \in Nat /\ FirstEnd(c) + 4 <= Len(c)
         /\ FirstEnd(c) \in Ends(c) /\ \A j \in Ends(c) : FirstEnd(c) <= j
         /\ \A r : IsFirst(r, Ends(c)) => r = FirstEnd(c)
<1>1. Ends(c) \subseteq Nat /\ \A k \in Ends(c) : k + 4 <= Len(c)
  BY EndsAreMatches, SeparatorTypes DEF Matches
<1>2. \E k \in Ends(c) : \A j \in Ends(c) : k <= j BY <1>1, LeastNat
<1>3. FirstEnd(c) \in Ends(c) /\ \A j \in Ends(c) : FirstEnd(c) <= j BY <1>2 DEF FirstEnd
<1>4. ASSUME NEW r, IsFirst(r, Ends(c)) PROVE r = FirstEnd(c)
  <2>1. r \in Ends(c) /\ \A k \in Ends(c) : r <= k BY <1>4 DEF IsFirst
  <2>2. r <= FirstEnd(c) /\ FirstEnd(c) <= r BY <1>3, <2>1
  <2>. QED BY <1>1, <1>3, <2>1, <2>2
<1>. QED BY <1>1, <1>3, <1>4

LEMMA FirstEndGrows ==
  ASSUME NEW c \in Seq(Byte), NEW x \in Seq(Byte), Ends(c) # {}
  PROVE  Ends(Cat(c, x)) # {} /\ FirstEnd(Cat(c, x)) = FirstEnd(c)
<1>d. PICK d : d = Cat(c, x)
  OBVIOUS
<1>f. PICK f : f = FirstEnd(c)
  OBVIOUS
<1>g. PICK g : g = FirstEnd(d)
  OBVIOUS
<1>0. d \in Seq(Byte) /\ Len(c) \in Nat BY <1>d, CatType
<1>1. f \in Nat /\ f + 4 <= Len(c) /\ f \in Ends(c) /\ \A j \in Ends(c) : f <= j
  BY <1>f, FirstEndIs
<1>2. f \in Ends(d) BY <1>1, <1>d, EndsGrow
<1>3. g \in Nat /\ g \in Ends(d) /\ g <= f BY <1>0, <1>2, <1>g, FirstEndIs
<1>4. g + 4 <= Len(c) BY <1>0, <1>1, <1>3
<1>5. g \in Ends(c) BY <1>3, <1>4, <1>d, EndsGrow
<1>6. f = g BY <1>1, <1>3, <1>5
<1>. QED BY <1>2, <1>6, <1>d, <1>f, <1>g

\* The headers and the body of some bytes.
TextOf(c) == Stream(SubSeq(c, 1, FirstEnd(c)))
BodyOf(c) == SubSeq(c, FirstEnd(c) + 5, Len(c))
ReadableOf(c) == Ends(c) # {} /\ ~HasContentLength(TextOf(c))

LEMMA GotHas ==
  /\ HeaderText = TextOf(Got) /\ Body = BodyOf(Got) /\ (Readable <=> ReadableOf(Got))
BY DEF HeaderText, HeadersEnd, TextOf, FirstEnd, Body, BodyOf, Readable, Complete, ReadableOf

LEMMA BodyIs ==
  ASSUME NEW c \in Seq(Byte), Ends(c) # {}
  PROVE  BodyOf(c) \in Seq(Byte) /\ CutAt(BodyOf(c), c, FirstEnd(c) + 4, Len(c))
<1>f. PICK f : f = FirstEnd(c) + 4
  OBVIOUS
<1>1. f \in Nat /\ f <= Len(c) /\ Len(c) \in Nat /\ f + 1 = FirstEnd(c) + 5
  <2>1. FirstEnd(c) \in Nat /\ FirstEnd(c) + 4 <= Len(c) BY FirstEndIs
  <2>. QED BY <1>f, <2>1
<1>2. SubSeq(c, f + 1, Len(c)) \in Seq(Byte) /\ CutAt(SubSeq(c, f + 1, Len(c)), c, f, Len(c))
  BY <1>1, CutIs
<1>3. BodyOf(c) = SubSeq(c, f + 1, Len(c)) BY <1>1 DEF BodyOf
<1>. QED BY <1>2, <1>3, <1>f

LEMMA TextIs ==
  ASSUME NEW c \in Seq(Byte), Ends(c) # {}
  PROVE  /\ TextOf(c) \in Streams(Byte)
         /\ FlattenSeq(TextOf(c)) = SubSeq(c, 1, FirstEnd(c))
         /\ SubSeq(c, 1, FirstEnd(c)) \in Seq(Byte)
         /\ CutAt(SubSeq(c, 1, FirstEnd(c)), c, 0, FirstEnd(c))
<1>t. PICK t : t = SubSeq(c, 1, FirstEnd(c))
  OBVIOUS
<1>1. FirstEnd(c) \in Nat /\ FirstEnd(c) <= Len(c) /\ 0 <= FirstEnd(c) /\ 0 + 1 = 1
  <2>1. FirstEnd(c) \in Nat /\ FirstEnd(c) + 4 <= Len(c) BY FirstEndIs
  <2>2. Len(c) \in Nat OBVIOUS
  <2>. QED BY <2>1, <2>2
<1>2. SubSeq(c, 0 + 1, FirstEnd(c)) \in Seq(Byte)
      /\ CutAt(SubSeq(c, 0 + 1, FirstEnd(c)), c, 0, FirstEnd(c))
  <2>1. 0 \in Nat OBVIOUS
  <2>. QED BY <1>1, <2>1, CutIs
<1>3. t \in Seq(Byte) /\ CutAt(t, c, 0, FirstEnd(c)) BY <1>1, <1>2, <1>t
<1>4. TextOf(c) = IF t = <<>> THEN <<>> ELSE <<t>> BY <1>t DEF TextOf, Stream
<1>5. CASE t = <<>>
  <2>1. <<>> \in Streams(Byte) BY DEF Streams
  <2>. QED BY <1>3, <1>4, <1>5, <1>t, <2>1, FlattenEmpty
<1>6. CASE t # <<>>
  <2>1. <<t>> \in Streams(Byte) BY <1>3, <1>6 DEF Streams
  <2>2. FlattenSeq(<<t>>) = t BY <1>3, FlattenOne
  <2>. QED BY <1>3, <1>4, <1>6, <1>t, <2>1, <2>2
<1>. QED BY <1>5, <1>6

\* What comes after the headers is body.
LEMMA BodyGrows ==
  ASSUME NEW c \in Seq(Byte), NEW x \in Seq(Byte), Ends(c) # {}
  PROVE  /\ Ends(Cat(c, x)) # {}
         /\ TextOf(Cat(c, x)) = TextOf(c)
         /\ ReadableOf(Cat(c, x)) <=> ReadableOf(c)
         /\ BodyOf(Cat(c, x)) = Cat(BodyOf(c), x)
<1>d. PICK d : d = Cat(c, x)
  OBVIOUS
<1>f. PICK f : f = FirstEnd(c)
  OBVIOUS
<1>0. d \in Seq(Byte) /\ Places(d, c, x) BY <1>d, CatType, CatPlaces
<1>1. Ends(d) # {} /\ FirstEnd(d) = f BY <1>d, <1>f, FirstEndGrows
<1>2. f \in Nat /\ f + 4 <= Len(c) /\ Len(c) \in Nat /\ Len(x) \in Nat
  BY <1>f, FirstEndIs
<1>3. /\ Len(d) = Len(c) + Len(x) /\ (\A i \in 1..Len(c) : d[i] = c[i])
      /\ \A i \in 1..Len(x) : d[Len(c) + i] = x[i]
  BY <1>0 DEF Places
<1>4. SubSeq(d, 1, f) = SubSeq(c, 1, f)
  <2>1. SubSeq(c, 1, f) \in Seq(Byte) /\ CutAt(SubSeq(c, 1, f), c, 0, f) BY <1>f, TextIs
  <2>2. SubSeq(d, 1, f) \in Seq(Byte) /\ CutAt(SubSeq(d, 1, f), d, 0, f)
    BY <1>0, <1>1, TextIs
  <2>3. Len(SubSeq(c, 1, f)) = f - 0 /\ Len(SubSeq(d, 1, f)) = f - 0 /\ f - 0 = f
    BY <1>2, <2>1, <2>2 DEF CutAt
  <2>4. ASSUME NEW i \in 1..f PROVE SubSeq(d, 1, f)[i] = SubSeq(c, 1, f)[i]
    <3>1. i \in 1..f - 0 /\ 0 + i = i /\ i \in 1..Len(c) BY <1>2
    <3>2. SubSeq(d, 1, f)[i] = d[0 + i] BY <2>2, <3>1 DEF CutAt
    <3>3. SubSeq(c, 1, f)[i] = c[0 + i] BY <2>1, <3>1 DEF CutAt
    <3>. QED BY <1>3, <3>1, <3>2, <3>3
  <2>. QED BY <2>1, <2>2, <2>3, <2>4, SeqEqual
<1>5. TextOf(d) = TextOf(c) BY <1>1, <1>4, <1>f DEF TextOf
<1>6. BodyOf(d) = Cat(BodyOf(c), x)
  <2>b. PICK b : b = BodyOf(c)
    OBVIOUS
  <2>e. PICK e : e = BodyOf(d)
    OBVIOUS
  <2>g. PICK g : g = Cat(b, x)
    OBVIOUS
  <2>1. b \in Seq(Byte) /\ CutAt(b, c, f + 4, Len(c)) BY <1>f, <2>b, BodyIs
  <2>2. e \in Seq(Byte) /\ CutAt(e, d, f + 4, Len(d)) BY <1>0, <1>1, <2>e, BodyIs
  <2>3. g \in Seq(Byte) /\ Places(g, b, x) BY <2>1, <2>g, CatType, CatPlaces
  <2>4. Len(b) = Len(c) - (f + 4) /\ \A i \in 1..Len(b) : b[i] = c[(f + 4) + i]
    BY <2>1 DEF CutAt
  <2>5. Len(e) = Len(d) - (f + 4) /\ \A i \in 1..Len(e) : e[i] = d[(f + 4) + i]
    BY <2>2 DEF CutAt
  <2>6. /\ Len(g) = Len(b) + Len(x) /\ (\A i \in 1..Len(b) : g[i] = b[i])
        /\ \A i \in 1..Len(x) : g[Len(b) + i] = x[i]
    BY <2>3 DEF Places
  <2>7. Len(e) = Len(g) BY <1>2, <1>3, <2>4, <2>5, <2>6
  <2>8. ASSUME NEW i \in 1..Len(e) PROVE e[i] = g[i]
    <3>0. Len(b) \in Nat /\ Len(e) = Len(b) + Len(x) BY <2>1, <2>6, <2>7
    <3>1. CASE i <= Len(b)
      <4>1. i \in 1..Len(b) /\ (f + 4) + i \in 1..Len(c) BY <1>2, <2>4, <3>0, <3>1
      <4>. QED BY <1>3, <2>4, <2>5, <2>6, <4>1
    <3>2. CASE ~ (i <= Len(b))
      <4>k. PICK k : k = i - Len(b)
        OBVIOUS
      <4>1. k \in 1..Len(x) /\ Len(b) + k = i BY <1>2, <3>0, <3>2, <4>k
      <4>2. (f + 4) + i = Len(c) + k BY <1>2, <2>4, <3>0, <4>k
      <4>3. g[i] = x[k] BY <2>6, <4>1
      <4>4. e[i] = d[Len(c) + k] BY <2>5, <4>2
      <4>. QED BY <1>3, <4>1, <4>3, <4>4
    <3>. QED BY <3>1, <3>2
  <2>. QED BY <2>2, <2>3, <2>7, <2>8, <2>b, <2>e, <2>g, SeqEqual
<1>. QED BY <1>1, <1>5, <1>6, <1>d DEF ReadableOf

LEMMA Modulo ==
  \A x \in Int, m \in Int : 0 <= x /\ x < m => x % m = x /\ (x + m) % m = x
BY Z3

LEMMA Small ==
  ASSUME NEW m \in Nat \ {0}, NEW x \in 0..m - 1
  PROVE  x % m = x
BY Z3

\* The part of a piece that follows the headers: the body, or nothing when the
\* headers had ended before the piece.
LEMMA BodyInLastIs ==
  ASSUME NEW c \in Seq(Byte), NEW x \in Seq(Byte), headerData \in Streams(Byte),
         FlattenSeq(headerData) = c, Ends(Cat(c, x)) # {}, Len(Cat(c, x)) < SizeMax
  PROVE  LET d == Cat(c, x)
         IN  BodyInLast(x, FirstEnd(d))
               = IF FirstEnd(d) + 4 >= Len(c) THEN BodyOf(d) ELSE <<>>
<1>d. PICK d : d = Cat(c, x)
  OBVIOUS
<1>f. PICK f : f = FirstEnd(d)
  OBVIOUS
<1>m. PICK m : m = SizeMax + 1
  OBVIOUS
<1>0. d \in Seq(Byte) /\ Places(d, c, x) BY <1>d, CatType, CatPlaces
<1>1. /\ Len(d) = Len(c) + Len(x) /\ (\A i \in 1..Len(c) : d[i] = c[i])
      /\ \A i \in 1..Len(x) : d[Len(c) + i] = x[i]
  BY <1>0 DEF Places
<1>2. f \in Nat /\ f + 4 <= Len(d) BY <1>0, <1>d, <1>f, FirstEndIs
<1>3. Size(headerData) = Len(c) BY StreamType, SizeIs
<1>4. /\ Len(c) \in Nat /\ Len(x) \in Nat /\ SizeMax \in Nat /\ Len(c) + Len(x) < SizeMax
      /\ m \in Nat
  BY <1>1, <1>d, <1>m, SizeMaxAssumption
<1>5. BodyInLast(x, f) = Slice(x, (f + 4 + SizeMax + 1 - Len(c)) % m, SizeMax)
  BY <1>3, <1>m, SeparatorTypes DEF BodyInLast
<1>6. CASE f + 4 >= Len(c)
  <2>k. PICK k : k = f + 4 - Len(c)
    OBVIOUS
  <2>1. k \in Nat /\ k < m /\ f + 4 + SizeMax + 1 - Len(c) = k + m /\ k <= Len(x)
    BY <1>1, <1>2, <1>4, <1>6, <1>m, <2>k
  <2>2. (f + 4 + SizeMax + 1 - Len(c)) % m = k BY SMTT(60), <1>4, <2>1, Modulo
  <2>3. BodyInLast(x, f) = Slice(x, k, SizeMax) BY <1>5, <2>2
  <2>e. PICK e : e = BodyOf(d)
    OBVIOUS
  <2>4. e \in Seq(Byte) /\ CutAt(e, d, f + 4, Len(d)) BY <1>0, <1>d, <1>f, <2>e, BodyIs
  <2>5. Len(e) = Len(d) - (f + 4) /\ \A i \in 1..Len(e) : e[i] = d[(f + 4) + i]
    BY <2>4 DEF CutAt
  <2>6. CASE k >= Len(x)
    <3>1. Slice(x, k, SizeMax) = <<>> BY <2>6 DEF Slice
    <3>2. Len(e) = 0 BY <1>1, <1>2, <1>4, <2>1, <2>5, <2>6, <2>k
    <3>3. e = <<>> BY <2>4, <3>2
    <3>. QED BY <1>6, <1>d, <1>f, <2>3, <2>e, <3>1, <3>3
  <2>7. CASE ~ (k >= Len(x))
    <3>1. k + Less(SizeMax, Len(x) - k) = Len(x) BY <1>4, <2>1, <2>7 DEF Less
    <3>s. PICK s : s = SubSeq(x, k + 1, Len(x))
      OBVIOUS
    <3>2. Slice(x, k, SizeMax) = s BY <2>7, <3>1, <3>s DEF Slice
    <3>3. s \in Seq(Byte) /\ CutAt(s, x, k, Len(x)) BY <1>4, <2>1, <3>s, CutIs
    <3>4. Len(s) = Len(x) - k /\ \A i \in 1..Len(s) : s[i] = x[k + i] BY <3>3 DEF CutAt
    <3>5. Len(s) = Len(e) BY <1>1, <1>2, <1>4, <2>5, <2>k, <3>4
    <3>6. ASSUME NEW i \in 1..Len(s) PROVE s[i] = e[i]
      <4>1. k + i \in 1..Len(x) /\ Len(c) + (k + i) = (f + 4) + i
        BY <1>2, <1>4, <2>1, <2>k, <3>4
      <4>2. d[Len(c) + (k + i)] = x[k + i] BY <1>1, <4>1
      <4>3. e[i] = d[(f + 4) + i] BY <2>5, <3>5
      <4>. QED BY <3>4, <4>1, <4>2, <4>3
    <3>7. s = e BY <2>4, <3>3, <3>5, <3>6, SeqEqual
    <3>. QED BY <1>6, <1>d, <1>f, <2>3, <2>e, <3>2, <3>7
  <2>. QED BY <2>6, <2>7
<1>7. CASE ~ (f + 4 >= Len(c))
  <2>k. PICK k : k = f + 4 + SizeMax + 1 - Len(c)
    OBVIOUS
  <2>1. k \in Nat /\ 0 <= k /\ k < m /\ k >= Len(x) BY <1>2, <1>4, <1>7, <1>m, <2>k
  <2>m. m \in Nat \ {0} /\ k \in 0..m - 1 BY <1>m, <2>1, SizeMaxAssumption
  <2>2. k % m = k BY ONLY <2>m, Small
  <2>3. BodyInLast(x, f) = Slice(x, k, SizeMax) BY <1>5, <2>2, <2>k
  <2>4. Slice(x, k, SizeMax) = <<>> BY <2>1 DEF Slice
  <2>. QED BY <1>7, <1>d, <1>f, <2>3, <2>4
<1>. QED BY <1>6, <1>7

-----------------------------------------------------------------------------
(* Types. *)

Packets == [request : Nat, what : Channels, bytes : Seq(Byte)]

ExtractorTypes ==
  /\ request \in 1..MaxRequests + 1
  /\ text \in Texts \cup LaterTexts \cup {<<>>}
  /\ received \in 0..Len(text)
  /\ pieces \in 0..MaxPieces
  /\ headerData \in Streams(Byte)
  /\ Size(headerData) <= received
  /\ sentHeaders \in BOOLEAN
  /\ ~sentHeaders => FlattenSeq(headerData) = Got
  /\ throws \in 0..MaxThrows
  /\ told \in Seq(Packets)
  /\ \A i \in 1..Len(told) : told[i].request \in 1..request

LEMMA TextType ==
  ASSUME NEW t \in Texts \cup LaterTexts \cup {<<>>}
  PROVE  t \in Seq(Byte) /\ Len(t) \in Nat /\ (t # <<>> => Len(t) < SizeMax)
<1>1. CASE t = <<>> BY <1>1
<1>2. CASE t # <<>>
  <2>1. t \in Seq(Byte) /\ Len(t) < SizeMax BY <1>2, TextsAssumption
  <2>. QED BY <2>1
<1>. QED BY <1>1, <1>2

LEMMA GotIs ==
  ASSUME ExtractorTypes
  PROVE  /\ text \in Seq(Byte) /\ Len(text) \in Nat /\ received \in Nat
         /\ Got \in Seq(Byte) /\ Len(Got) = received
<1>0. text \in Seq(Byte) /\ Len(text) \in Nat BY TextType DEF ExtractorTypes
<1>1. received \in Nat /\ 0 <= received /\ received <= Len(text)
  BY <1>0 DEF ExtractorTypes
<1>2. SubSeq(text, 0 + 1, received) \in Seq(Byte)
      /\ CutAt(SubSeq(text, 0 + 1, received), text, 0, received)
  <2>1. 0 \in Nat OBVIOUS
  <2>. QED BY <1>0, <1>1, <2>1, CutIs
<1>3. 0 + 1 = 1 OBVIOUS
<1>4. Got \in Seq(Byte) /\ CutAt(Got, text, 0, received) BY <1>2, <1>3 DEF Got
<1>. QED BY <1>0, <1>1, <1>4 DEF CutAt

LEMMA AppendBufferIs ==
  ASSUME NEW B, NEW s \in Streams(B), NEW x \in Seq(B)
  PROVE  /\ AppendBuffer(s, x) \in Streams(B)
         /\ FlattenSeq(AppendBuffer(s, x)) = Cat(FlattenSeq(s), x)
         /\ Size(AppendBuffer(s, x)) = Size(s) + Len(x)
<1>0. s \in Seq(Seq(B)) BY StreamType
<1>1. CASE x = <<>>
  <2>1. AppendBuffer(s, x) = s BY <1>1 DEF AppendBuffer
  <2>2. Cat(FlattenSeq(s), <<>>) = FlattenSeq(s) BY <1>0, FlattenType, CatEmpty
  <2>3. Size(s) \in Nat BY <1>0, SizeIs
  <2>4. Len(x) = 0 BY <1>1
  <2>5. Size(s) + Len(x) = Size(s) BY <2>3, <2>4
  <2>. QED BY <1>1, <2>1, <2>2, <2>5
<1>2. CASE x # <<>>
  <2>1. AppendBuffer(s, x) = Append(s, x) BY <1>2 DEF AppendBuffer
  <2>2. Append(s, x) \in Streams(B) BY <1>2 DEF Streams
  <2>. QED BY <1>0, <2>1, <2>2, FlattenAppend, SizeAppend
<1>. QED BY <1>1, <1>2

\* What one push adds.
Says(what, bytes) == told' = Append(told, Packet(what, bytes))

LEMMA TellIs ==
  ASSUME ExtractorTypes, NEW p \in Packets, NEW q \in Packets
  PROVE  /\ Tell(<<p>>) <=> told' = Append(told, p)
         /\ Tell(<<p, q>>) <=> told' = Append(Append(told, p), q)
         /\ Tell(<<p>> \o <<>>) <=> told' = Append(told, p)
         /\ Tell(<<p>> \o <<q>>) <=> told' = Append(Append(told, p), q)
         /\ Tell(<<>>) <=> told' = told
<1>0. told \in Seq(Packets) BY DEF ExtractorTypes
<1>1. told \o <<p>> = Append(told, p) BY <1>0
<1>2. told \o <<p, q>> = Append(Append(told, p), q) BY <1>0
<1>3. told \o <<>> = told BY <1>0
<1>4. <<p>> \o <<>> = <<p>> OBVIOUS
<1>5. <<p>> \o <<q>> = <<p, q>>
  <2>1. <<p>> \in Seq(Packets) OBVIOUS
  <2>2. <<p>> \o <<q>> = Append(<<p>>, q) BY <2>1, AppendProperties
  <2>3. Append(<<p>>, q) = <<p, q>>
    <3>a. PICK a : a = Append(<<p>>, q)
      OBVIOUS
    <3>1. Len(<<p>>) = 1 /\ <<p>>[1] = p OBVIOUS
    <3>2. a \in Seq(Packets) /\ Len(a) = 2 /\ a[1] = p /\ a[2] = q
      BY <2>1, <3>1, <3>a, AppendProperties
    <3>b. PICK b : b = <<p, q>>
      OBVIOUS
    <3>3. b \in Seq(Packets) /\ Len(b) = 2 /\ b[1] = p /\ b[2] = q BY <3>b
    <3>4. \A i \in 1..Len(a) : a[i] = b[i]
      <4>1. \A i \in 1..2 : i = 1 \/ i = 2 OBVIOUS
      <4>. QED BY <3>2, <3>3, <4>1
    <3>5. a = b BY <3>2, <3>3, <3>4, SeqEqual
    <3>. QED BY <3>5, <3>a, <3>b
  <2>. QED BY <2>2, <2>3
<1>. QED BY <1>1, <1>2, <1>3, <1>4, <1>5 DEF Tell

-----------------------------------------------------------------------------
(* What the steps tell. *)

Rest(d, c) == IF FirstEnd(d) + 4 >= Len(c) THEN BodyOf(d) ELSE <<>>

\* Where the headers end in the header data with another piece, and how the
\* handler reads them.
LEMMA EndInStream ==
  ASSUME NEW s \in Streams(Byte), NEW d \in Seq(Byte), FlattenSeq(s) = d, Len(d) < SizeMax,
         NEW end, end = FirstIndexOf(s, DoubleCrLf, 0, SizeMax)
  PROVE  /\ Size(s) = Len(d)
         /\ end = NotFound <=> Ends(d) = {}
         /\ Ends(d) # {} =>
              /\ end = FirstEnd(d)
              /\ SubStream(s, 0, end) \in Streams(Byte)
              /\ FlattenSeq(SubStream(s, 0, end)) = SubSeq(d, 1, FirstEnd(d))
              /\ Size(s) > end + 4 <=> BodyOf(d) # <<>>
<1>0. s \in Seq(Seq(Byte)) /\ Size(s) = Len(d) /\ Len(d) \in Nat /\ SizeMax \in Nat
  BY StreamType, SizeIs, SizeMaxAssumption
<1>1. IsFirst(end, Ends(d)) BY <1>0, EndFound
<1>2. CASE Ends(d) = {}
  <2>1. end = NotFound BY <1>1, <1>2 DEF IsFirst
  <2>. QED BY <1>0, <1>2, <2>1
<1>3. CASE Ends(d) # {}
  <2>1. end = FirstEnd(d) /\ FirstEnd(d) \in Nat /\ FirstEnd(d) + 4 <= Len(d)
    BY <1>1, <1>3, FirstEndIs
  <2>2. end # NotFound BY <1>0, <2>1 DEF NotFound
  <2>3. /\ SubStream(s, 0, end) \in Streams(Byte)
        /\ FlattenSeq(SubStream(s, 0, end)) = Part(d, 0, end)
    <3>1. 0 \in Nat /\ end \in Nat BY <2>1
    <3>. QED BY <3>1, SubStreamIs
  <2>4. Part(d, 0, end) = SubSeq(d, 1, FirstEnd(d))
    <3>1. Less(end, Len(d)) = end BY <1>0, <2>1 DEF Less
    <3>2. 0 + 1 = 1 OBVIOUS
    <3>. QED BY <2>1, <3>1, <3>2 DEF Part
  <2>5. Size(s) > end + 4 <=> BodyOf(d) # <<>>
    <3>b. PICK b : b = BodyOf(d)
      OBVIOUS
    <3>1. b \in Seq(Byte) /\ CutAt(b, d, FirstEnd(d) + 4, Len(d)) BY <1>3, <3>b, BodyIs
    <3>2. Len(b) = Len(d) - (FirstEnd(d) + 4) BY <3>1 DEF CutAt
    <3>3. b = <<>> <=> Len(b) = 0 BY <3>1
    <3>. QED BY <1>0, <2>1, <3>2, <3>3, <3>b
  <2>. QED BY <1>0, <1>3, <2>1, <2>2, <2>3, <2>4, <2>5
<1>. QED BY <1>2, <1>3

LEMMA HeadersInStream ==
  ASSUME NEW s \in Streams(Byte), NEW d \in Seq(Byte), FlattenSeq(s) = d, Len(d) < SizeMax,
         NEW end, end = FirstIndexOf(s, DoubleCrLf, 0, SizeMax), Ends(d) # {}
  PROVE  /\ HasContentLength(SubStream(s, 0, end)) <=> ~ReadableOf(d)
         /\ FlattenSeq(HeaderLine(SubStream(s, 0, end))) = FlattenSeq(HeaderLine(TextOf(d)))
<1>h. PICK h : h = SubStream(s, 0, end)
  OBVIOUS
<1>1. h \in Streams(Byte) /\ FlattenSeq(h) = SubSeq(d, 1, FirstEnd(d))
  BY <1>h, EndInStream
<1>2. TextOf(d) \in Streams(Byte) /\ FlattenSeq(TextOf(d)) = SubSeq(d, 1, FirstEnd(d))
  BY TextIs
<1>3. Size(h) < SizeMax
  <2>1. SubSeq(d, 1, FirstEnd(d)) \in Seq(Byte)
        /\ CutAt(SubSeq(d, 1, FirstEnd(d)), d, 0, FirstEnd(d))
    BY TextIs
  <2>2. FirstEnd(d) \in Nat /\ FirstEnd(d) + 4 <= Len(d) BY FirstEndIs
  <2>3. Size(h) = Len(SubSeq(d, 1, FirstEnd(d))) BY <1>1, StreamType, SizeIs
  <2>4. Len(SubSeq(d, 1, FirstEnd(d))) = FirstEnd(d) BY <2>1, <2>2 DEF CutAt
  <2>5. SizeMax \in Nat /\ Len(d) \in Nat BY SizeMaxAssumption
  <2>. QED BY <2>2, <2>3, <2>4, <2>5
<1>4. FlattenSeq(HeaderLine(h)) = FlattenSeq(HeaderLine(TextOf(d)))
  BY <1>1, <1>2, <1>3, HeaderLineAlike
<1>5. HasContentLength(h) <=> HasContentLength(TextOf(d))
  BY <1>1, <1>2, <1>3, HasContentLengthAlike
<1>. QED BY <1>4, <1>5, <1>h DEF ReadableOf

\* The piece, the header data with it, and the end of the headers in it.
IsPiece(x) ==
  /\ x \in Seq(Byte)
  /\ received' = received + Len(x)
  /\ received' <= Len(text)
  /\ Got' = Cat(Got, x)
  /\ Len(Cat(Got, x)) = received + Len(x)
  /\ Len(Cat(Got, x)) < SizeMax
  /\ UNCHANGED <<request, text>>

PieceEnd(x) == FirstIndexOf(AppendBuffer(headerData, x), DoubleCrLf, 0, SizeMax)

LEMMA ReceivePiece ==
  ASSUME ExtractorTypes, Receive
  PROVE  \E x : /\ IsPiece(x)
                /\ \/ BodyPiece(x)
                   \/ /\ ~sentHeaders
                      /\ \/ HeaderPiece(AppendBuffer(headerData, x), PieceEnd(x))
                         \/ UnreadableHeaders(AppendBuffer(headerData, x), PieceEnd(x))
                         \/ HeadersComplete(x, AppendBuffer(headerData, x), PieceEnd(x))
<1>0. /\ text \in Seq(Byte) /\ Len(text) \in Nat /\ received \in Nat
      /\ Got \in Seq(Byte) /\ Len(Got) = received
  BY GotIs
<1>1. received <= Len(text) BY <1>0 DEF ExtractorTypes
<1>n. PICK n \in 1..(Len(text) - received) :
        /\ received' = received + n
        /\ UNCHANGED <<request, text>>
        /\ LET x == SubSeq(text, received + 1, received + n)
           IN  \/ BodyPiece(x)
               \/ /\ ~sentHeaders
                  /\ \/ HeaderPiece(AppendBuffer(headerData, x), PieceEnd(x))
                     \/ UnreadableHeaders(AppendBuffer(headerData, x), PieceEnd(x))
                     \/ HeadersComplete(x, AppendBuffer(headerData, x), PieceEnd(x))
  BY DEF Receive, PieceEnd
<1>x. PICK x : x = SubSeq(text, received + 1, received + n)
  OBVIOUS
<1>2. n \in Nat /\ received + n \in Nat /\ received + n <= Len(text)
      /\ received <= received + n /\ 1 <= n
  BY <1>0, <1>1
<1>3. x \in Seq(Byte) /\ CutAt(x, text, received, received + n) BY <1>0, <1>2, <1>x, CutIs
<1>4. Len(x) = n
  <2>1. Len(x) = (received + n) - received BY <1>3 DEF CutAt
  <2>. QED BY <1>0, <1>2, <2>1
<1>5. Got' = SubSeq(text, 1, received + n) BY <1>n DEF Got
<1>6. SubSeq(text, 1, received + n) = Cat(Got, x)
  <2>1. 1 \in 1..Len(text) + 1 /\ received \in 1 - 1..Len(text)
        /\ received + n \in received..Len(text)
    BY <1>0, <1>1, <1>2
  <2>2. SubSeq(text, 1, received) \o SubSeq(text, received + 1, received + n)
          = SubSeq(text, 1, received + n)
    BY <1>0, <2>1, ConcatAdjacentSubSeq
  <2>. QED BY <2>2, <1>x DEF Cat, Got
<1>7. Len(Cat(Got, x)) = received + Len(x)
  <2>1. Places(Cat(Got, x), Got, x) BY <1>0, <1>3, CatPlaces
  <2>. QED BY <1>0, <2>1 DEF Places
<1>8. Len(Cat(Got, x)) < SizeMax
  <2>1. text # <<>> BY <1>0, <1>2
  <2>2. Len(text) < SizeMax BY <2>1, TextType DEF ExtractorTypes
  <2>. QED BY <1>0, <1>2, <1>4, <1>7, <2>2, SizeMaxAssumption
<1>9. IsPiece(x) BY <1>2, <1>3, <1>4, <1>5, <1>6, <1>7, <1>8, <1>n DEF IsPiece
<1>. QED BY <1>9, <1>n, <1>x

LEMMA HandlesData ==
  ASSUME ExtractorTypes, NEW x, IsPiece(x), ~sentHeaders
  PROVE  LET data == AppendBuffer(headerData, x)
             d    == Cat(Got, x)
         IN  /\ data \in Streams(Byte) /\ d \in Seq(Byte)
             /\ FlattenSeq(data) = d
             /\ PieceEnd(x) = NotFound <=> Ends(d) = {}
             /\ Ends(d) # {} =>
                  /\ PieceEnd(x) = FirstEnd(d)
                  /\ HasContentLength(SubStream(data, 0, PieceEnd(x))) <=> ~ReadableOf(d)
                  /\ Flat(HeaderLine(SubStream(data, 0, PieceEnd(x))))
                       = Flat(HeaderLine(TextOf(d)))
                  /\ Size(data) > PieceEnd(x) + Len(DoubleCrLf) <=> BodyOf(d) # <<>>
                  /\ BodyInLast(x, PieceEnd(x)) = Rest(d, Got)
<1>s. PICK s : s = AppendBuffer(headerData, x)
  OBVIOUS
<1>d. PICK d : d = Cat(Got, x)
  OBVIOUS
<1>e. PICK e : e = PieceEnd(x)
  OBVIOUS
<1>0. /\ headerData \in Streams(Byte) /\ FlattenSeq(headerData) = Got
      /\ Got \in Seq(Byte) /\ x \in Seq(Byte) /\ Len(Cat(Got, x)) < SizeMax
  BY GotIs DEF ExtractorTypes, IsPiece
<1>1. s \in Streams(Byte) /\ FlattenSeq(s) = d BY <1>0, <1>d, <1>s, AppendBufferIs
<1>2. d \in Seq(Byte) /\ Len(d) < SizeMax BY <1>0, <1>d, CatType
<1>3. e = FirstIndexOf(s, DoubleCrLf, 0, SizeMax) BY <1>e, <1>s DEF PieceEnd
<1>4. e = NotFound <=> Ends(d) = {} BY <1>1, <1>2, <1>3, EndInStream
<1>5. ASSUME Ends(d) # {}
      PROVE  /\ e = FirstEnd(d)
             /\ HasContentLength(SubStream(s, 0, e)) <=> ~ReadableOf(d)
             /\ Flat(HeaderLine(SubStream(s, 0, e))) = Flat(HeaderLine(TextOf(d)))
             /\ Size(s) > e + Len(DoubleCrLf) <=> BodyOf(d) # <<>>
             /\ BodyInLast(x, e) = Rest(d, Got)
  <2>1. e = FirstEnd(d) /\ (Size(s) > e + 4 <=> BodyOf(d) # <<>>)
    BY <1>1, <1>2, <1>3, <1>5, EndInStream
  <2>2. /\ HasContentLength(SubStream(s, 0, e)) <=> ~ReadableOf(d)
        /\ FlattenSeq(HeaderLine(SubStream(s, 0, e))) = FlattenSeq(HeaderLine(TextOf(d)))
    BY <1>1, <1>2, <1>3, <1>5, HeadersInStream
  <2>3. BodyInLast(x, FirstEnd(d)) = Rest(d, Got)
    BY <1>0, <1>5, <1>d, BodyInLastIs DEF Rest
  <2>4. Len(DoubleCrLf) = 4 BY SeparatorTypes
  <2>. QED BY <2>1, <2>2, <2>3, <2>4 DEF Flat
<1>. QED BY <1>1, <1>2, <1>4, <1>5, <1>d, <1>e, <1>s

\* What a piece can lead to.
Passes(x) ==
  /\ sentHeaders
  /\ told' = Append(told, Packet("Body Data", x))
  /\ UNCHANGED <<sentHeaders, throws>>

Waits ==
  /\ ~sentHeaders
  /\ Ends(Got') = {}
  /\ UNCHANGED <<told, sentHeaders, throws>>

Fails ==
  /\ throws' = throws + 1
  /\ told' = Append(told, Packet("error", <<>>))
  /\ UNCHANGED sentHeaders

Rejects ==
  /\ ~sentHeaders
  /\ ~ReadableOf(Got')
  /\ told' = Append(told, Packet("error", <<>>))
  /\ UNCHANGED <<sentHeaders, throws>>

Announcement(d) == Packet("New Request", Flat(HeaderLine(TextOf(d))))

Announces ==
  /\ ~sentHeaders
  /\ ReadableOf(Got')
  /\ sentHeaders' = TRUE
  /\ \/ /\ BodyOf(Got') = <<>>
        /\ told' = Append(told, Announcement(Got'))
        /\ UNCHANGED throws
     \/ /\ told' = Append(Append(told, Announcement(Got')),
                          Packet("Body Data", Rest(Got', Got)))
        /\ UNCHANGED throws
     \/ /\ told' = Append(Append(told, Announcement(Got')), Packet("error", <<>>))
        /\ throws' = throws + 1

HeaderDataKept ==
  /\ headerData' \in Streams(Byte)
  /\ Size(headerData') <= received'
  /\ ~sentHeaders' => FlattenSeq(headerData') = Got'
  /\ sentHeaders' \in BOOLEAN
  /\ throws' \in 0..MaxThrows

LEMMA PacketType ==
  ASSUME ExtractorTypes, NEW what \in Channels, NEW bytes \in Seq(Byte)
  PROVE  Packet(what, bytes) \in Packets
BY BoundsAssumption DEF ExtractorTypes, Packet, Packets

LEMMA ThrowsAre ==
  ASSUME ExtractorTypes
  PROVE  throws \in Nat /\ throws \in 0..MaxThrows
         /\ (throws < MaxThrows => throws + 1 \in 0..MaxThrows)
BY BoundsAssumption DEF ExtractorTypes

LEMMA HeaderDataGrows ==
  ASSUME ExtractorTypes, NEW x, IsPiece(x)
  PROVE  /\ Size(headerData) <= received'
         /\ ~sentHeaders =>
              /\ Size(AppendBuffer(headerData, x)) <= received'
              /\ FlattenSeq(AppendBuffer(headerData, x)) = Got'
<1>1. received \in Nat /\ Len(x) \in Nat /\ received' = received + Len(x)
  BY GotIs DEF IsPiece
<1>2. Size(headerData) <= received /\ Size(headerData) \in Nat
  BY StreamType, SizeIs DEF ExtractorTypes
<1>3. Size(AppendBuffer(headerData, x)) = Size(headerData) + Len(x)
  BY AppendBufferIs DEF ExtractorTypes, IsPiece
<1>4. ~sentHeaders => FlattenSeq(AppendBuffer(headerData, x)) = Got'
  BY HandlesData DEF IsPiece
<1>. QED BY <1>1, <1>2, <1>3, <1>4

LEMMA BodyPieceIs ==
  ASSUME ExtractorTypes, NEW x, IsPiece(x), BodyPiece(x)
  PROVE  (Passes(x) \/ Fails) /\ HeaderDataKept
<1>1. /\ sentHeaders /\ headerData' = headerData /\ sentHeaders' = sentHeaders
      /\ \/ Tell(<<Packet("Body Data", x)>>) /\ throws' = throws
         \/ Throws
  BY DEF BodyPiece
<1>2. /\ Packet("Body Data", x) \in Packets /\ Packet("error", <<>>) \in Packets
  <2>1. x \in Seq(Byte) /\ <<>> \in Seq(Byte) BY DEF IsPiece
  <2>2. "Body Data" \in Channels /\ "error" \in Channels BY DEF Channels
  <2>. QED BY <2>1, <2>2, PacketType
<1>3. Passes(x) \/ Fails BY <1>1, <1>2, TellIs DEF Passes, Fails, Throws
<1>4. throws' \in 0..MaxThrows BY <1>1, ThrowsAre DEF Throws
<1>5. HeaderDataKept
  BY <1>1, <1>4, HeaderDataGrows DEF HeaderDataKept, ExtractorTypes
<1>. QED BY <1>3, <1>5

LEMMA HeaderPieceIs ==
  ASSUME ExtractorTypes, NEW x, IsPiece(x), ~sentHeaders,
         HeaderPiece(AppendBuffer(headerData, x), PieceEnd(x))
  PROVE  Waits /\ HeaderDataKept
<1>1. /\ PieceEnd(x) = NotFound /\ headerData' = AppendBuffer(headerData, x)
      /\ sentHeaders' = sentHeaders /\ throws' = throws /\ told' = told
  BY DEF HeaderPiece
<1>2. Ends(Got') = {} BY <1>1, HandlesData DEF IsPiece
<1>3. headerData' \in Streams(Byte) BY <1>1, HandlesData
<1>4. HeaderDataKept
  BY <1>1, <1>3, HeaderDataGrows, ThrowsAre DEF HeaderDataKept, ExtractorTypes
<1>. QED BY <1>1, <1>2, <1>4 DEF Waits

LEMMA UnreadableHeadersIs ==
  ASSUME ExtractorTypes, NEW x, IsPiece(x), ~sentHeaders,
         UnreadableHeaders(AppendBuffer(headerData, x), PieceEnd(x))
  PROVE  Rejects /\ HeaderDataKept
<1>1. /\ PieceEnd(x) # NotFound /\ headerData' = AppendBuffer(headerData, x)
      /\ HasContentLength(SubStream(AppendBuffer(headerData, x), 0, PieceEnd(x)))
      /\ sentHeaders' = sentHeaders /\ throws' = throws
      /\ Tell(<<Packet("error", <<>>)>>)
  BY DEF UnreadableHeaders
<1>2. ~ReadableOf(Got') BY <1>1, HandlesData DEF IsPiece
<1>3. headerData' \in Streams(Byte) BY <1>1, HandlesData
<1>4. HeaderDataKept
  BY <1>1, <1>3, HeaderDataGrows, ThrowsAre DEF HeaderDataKept, ExtractorTypes
<1>5. Packet("error", <<>>) \in Packets
  <2>1. <<>> \in Seq(Byte) OBVIOUS
  <2>2. "error" \in Channels BY DEF Channels
  <2>. QED BY <2>1, <2>2, PacketType
<1>6. told' = Append(told, Packet("error", <<>>)) BY <1>1, <1>5, TellIs
<1>. QED BY <1>1, <1>2, <1>4, <1>6 DEF Rejects

LEMMA RestType ==
  ASSUME NEW d \in Seq(Byte), NEW c, Ends(d) # {}
  PROVE  Rest(d, c) \in Seq(Byte)
<1>1. BodyOf(d) \in Seq(Byte) BY BodyIs
<1>2. <<>> \in Seq(Byte) OBVIOUS
<1>. QED BY <1>1, <1>2 DEF Rest

LEMMA AnnouncementType ==
  ASSUME ExtractorTypes, NEW d \in Seq(Byte), Ends(d) # {}, Len(d) < SizeMax
  PROVE  Announcement(d) \in Packets
<1>1. TextOf(d) \in Streams(Byte) /\ FlattenSeq(TextOf(d)) = SubSeq(d, 1, FirstEnd(d))
      /\ SubSeq(d, 1, FirstEnd(d)) \in Seq(Byte)
      /\ CutAt(SubSeq(d, 1, FirstEnd(d)), d, 0, FirstEnd(d))
  BY TextIs
<1>2. FirstEnd(d) \in Nat /\ FirstEnd(d) + 4 <= Len(d) /\ Len(d) \in Nat /\ SizeMax \in Nat
  BY FirstEndIs, SizeMaxAssumption
<1>3. Size(TextOf(d)) < SizeMax
  <2>1. Size(TextOf(d)) = Len(SubSeq(d, 1, FirstEnd(d))) BY <1>1, StreamType, SizeIs
  <2>2. Len(SubSeq(d, 1, FirstEnd(d))) = FirstEnd(d) BY <1>1, <1>2 DEF CutAt
  <2>. QED BY <1>2, <2>1, <2>2
<1>4. HeaderLine(TextOf(d)) \in Streams(Byte) BY <1>1, <1>3, HeaderLineAlike
<1>5. Flat(HeaderLine(TextOf(d))) \in Seq(Byte) BY <1>4, StreamType, FlattenType DEF Flat
<1>6. "New Request" \in Channels BY DEF Channels
<1>. QED BY <1>5, <1>6, PacketType DEF Announcement

LEMMA HeadersCompleteIs ==
  ASSUME ExtractorTypes, NEW x, IsPiece(x), ~sentHeaders,
         HeadersComplete(x, AppendBuffer(headerData, x), PieceEnd(x))
  PROVE  (Announces \/ Fails) /\ HeaderDataKept
<1>s. PICK s : s = AppendBuffer(headerData, x)
  OBVIOUS
<1>d. PICK d : d = Cat(Got, x)
  OBVIOUS
<1>e. PICK e : e = PieceEnd(x)
  OBVIOUS
<1>a. PICK a : a = Packet("New Request", Flat(HeaderLine(SubStream(s, 0, e))))
  OBVIOUS
<1>b. PICK b : b = IF Size(s) > e + Len(DoubleCrLf)
                   THEN <<Packet("Body Data", BodyInLast(x, e))>>
                   ELSE <<>>
  OBVIOUS
<1>1. /\ e # NotFound /\ ~HasContentLength(SubStream(s, 0, e))
      /\ \/ /\ Tell(<<a>> \o b) /\ headerData' = <<>> /\ sentHeaders' = TRUE
            /\ throws' = throws
         \/ Throws /\ headerData' = s /\ sentHeaders' = sentHeaders
         \/ /\ b # <<>> /\ throws < MaxThrows /\ throws' = throws + 1
            /\ Tell(<<a, Packet("error", <<>>)>>)
            /\ headerData' = s /\ sentHeaders' = TRUE
  BY <1>a, <1>b, <1>e, <1>s DEF HeadersComplete
<1>2. /\ s \in Streams(Byte) /\ d \in Seq(Byte) /\ Got' = d /\ Len(d) < SizeMax
      /\ Ends(d) # {} /\ ReadableOf(d)
      /\ Flat(HeaderLine(SubStream(s, 0, e))) = Flat(HeaderLine(TextOf(d)))
      /\ Size(s) > e + Len(DoubleCrLf) <=> BodyOf(d) # <<>>
      /\ BodyInLast(x, e) = Rest(d, Got)
  BY <1>1, <1>d, <1>e, <1>s, HandlesData DEF IsPiece
<1>3. a = Announcement(d) BY <1>2, <1>a DEF Announcement
<1>4. b = IF BodyOf(d) # <<>> THEN <<Packet("Body Data", Rest(d, Got))>> ELSE <<>>
  BY <1>2, <1>b
<1>p. PICK p : p = Packet("Body Data", Rest(d, Got))
  OBVIOUS
<1>q. PICK q : q = Packet("error", <<>>)
  OBVIOUS
<1>5. a \in Packets /\ p \in Packets /\ q \in Packets
  <2>1. Rest(d, Got) \in Seq(Byte) /\ <<>> \in Seq(Byte) BY <1>2, RestType
  <2>2. "Body Data" \in Channels /\ "error" \in Channels BY DEF Channels
  <2>3. p \in Packets BY <1>p, <2>1, <2>2, PacketType
  <2>4. q \in Packets BY <1>q, <2>1, <2>2, PacketType
  <2>5. a \in Packets BY <1>2, <1>3, AnnouncementType
  <2>. QED BY <2>3, <2>4, <2>5
<1>6. HeaderDataKept
  <2>1. headerData' \in {<<>>, s} BY <1>1
  <2>2. <<>> \in Streams(Byte) /\ Size(<<>>) = 0
    <3>1. <<>> \in Streams(Byte) BY DEF Streams
    <3>2. Size(<<>>) = Len(FlattenSeq(<<>>)) BY <3>1, StreamType, SizeIs
    <3>. QED BY <3>1, <3>2, FlattenEmpty
  <2>3. Size(s) <= received' /\ FlattenSeq(s) = Got' BY <1>s, HeaderDataGrows
  <2>4. 0 <= received' BY GotIs DEF IsPiece
  <2>5. headerData' \in Streams(Byte) /\ Size(headerData') <= received'
    BY <1>2, <2>1, <2>2, <2>3, <2>4
  <2>6. ~sentHeaders' => headerData' = s BY <1>1
  <2>7. throws' \in 0..MaxThrows BY <1>1, ThrowsAre DEF Throws
  <2>8. sentHeaders' \in BOOLEAN BY <1>1 DEF ExtractorTypes
  <2>. QED BY <2>3, <2>5, <2>6, <2>7, <2>8 DEF HeaderDataKept
<1>7. CASE Tell(<<a>> \o b) /\ headerData' = <<>> /\ sentHeaders' = TRUE /\ throws' = throws
  <2>1. CASE BodyOf(d) = <<>>
    <3>1. b = <<>> BY <1>4, <2>1
    <3>2. told' = Append(told, a) BY <1>5, <1>7, <3>1, TellIs
    <3>. QED BY <1>2, <1>3, <1>6, <1>7, <2>1, <3>2 DEF Announces
  <2>2. CASE BodyOf(d) # <<>>
    <3>1. b = <<p>> BY <1>4, <1>p, <2>2
    <3>2. told' = Append(Append(told, a), p) BY <1>5, <1>7, <3>1, TellIs
    <3>. QED BY <1>2, <1>3, <1>6, <1>7, <1>p, <3>2 DEF Announces
  <2>. QED BY <2>1, <2>2
<1>8. CASE Throws /\ headerData' = s /\ sentHeaders' = sentHeaders
  <2>1. told' = Append(told, q) BY <1>5, <1>8, <1>q, TellIs DEF Throws
  <2>. QED BY <1>6, <1>8, <1>q, <2>1 DEF Fails, Throws
<1>9. CASE /\ throws' = throws + 1 /\ Tell(<<a, q>>) /\ sentHeaders' = TRUE
  <2>1. told' = Append(Append(told, a), q) BY <1>5, <1>9, TellIs
  <2>. QED BY <1>2, <1>3, <1>6, <1>9, <1>q, <2>1 DEF Announces
<1>. QED BY <1>1, <1>7, <1>8, <1>9, <1>q

Handles(x) == Passes(x) \/ Waits \/ Fails \/ Rejects \/ Announces

LEMMA ReceiveIs ==
  ASSUME ExtractorTypes, Receive
  PROVE  \E x : IsPiece(x) /\ Handles(x) /\ HeaderDataKept
<1>1. PICK x : /\ IsPiece(x)
               /\ \/ BodyPiece(x)
                  \/ /\ ~sentHeaders
                     /\ \/ HeaderPiece(AppendBuffer(headerData, x), PieceEnd(x))
                        \/ UnreadableHeaders(AppendBuffer(headerData, x), PieceEnd(x))
                        \/ HeadersComplete(x, AppendBuffer(headerData, x), PieceEnd(x))
  BY ReceivePiece
<1>. QED
  BY <1>1, BodyPieceIs, HeaderPieceIs, UnreadableHeadersIs, HeadersCompleteIs DEF Handles

\* The packets of a step are of the current request.
LEMMA ToldStep ==
  ASSUME ExtractorTypes, NEW x, IsPiece(x), Handles(x)
  PROVE  \/ told' = told
         \/ \E p \in Packets : p.request = request /\ told' = Append(told, p)
         \/ \E p, q \in Packets : /\ p.request = request /\ q.request = request
                                  /\ told' = Append(Append(told, p), q)
<1>1. \A w \in Channels, y \in Seq(Byte) : Packet(w, y) \in Packets BY PacketType
<1>2. \A w, y : Packet(w, y).request = request BY DEF Packet
<1>3. Got' \in Seq(Byte) /\ Len(Got') < SizeMax /\ x \in Seq(Byte)
  BY GotIs, CatType DEF IsPiece
<1>4. "error" \in Channels /\ "Body Data" \in Channels /\ "New Request" \in Channels
  BY DEF Channels
<1>5. <<>> \in Seq(Byte) OBVIOUS
<1>6. CASE Passes(x) BY <1>1, <1>2, <1>3, <1>4, <1>6 DEF Passes
<1>7. CASE Waits BY <1>7 DEF Waits
<1>8. CASE Fails BY <1>1, <1>2, <1>4, <1>5, <1>8 DEF Fails
<1>9. CASE Rejects BY <1>1, <1>2, <1>4, <1>5, <1>9 DEF Rejects
<1>10. CASE Announces
  <2>a. PICK a : a = Announcement(Got')
    OBVIOUS
  <2>p. PICK p : p = Packet("Body Data", Rest(Got', Got))
    OBVIOUS
  <2>q. PICK q : q = Packet("error", <<>>)
    OBVIOUS
  <2>1. Ends(Got') # {} BY <1>10 DEF Announces, ReadableOf
  <2>2. a \in Packets BY <1>3, <2>1, <2>a, AnnouncementType
  <2>3. a.request = request BY <1>2, <2>a DEF Announcement
  <2>4. Rest(Got', Got) \in Seq(Byte) BY <1>3, <2>1, RestType
  <2>5. p \in Packets /\ q \in Packets /\ p.request = request /\ q.request = request
    BY <1>1, <1>2, <1>4, <1>5, <2>4, <2>p, <2>q
  <2>6. \/ told' = Append(told, a) \/ told' = Append(Append(told, a), p)
        \/ told' = Append(Append(told, a), q)
    BY <1>10, <2>a, <2>p, <2>q DEF Announces
  <2>. QED BY <2>2, <2>3, <2>5, <2>6
<1>. QED BY <1>6, <1>7, <1>8, <1>9, <1>10 DEF Handles

-----------------------------------------------------------------------------
(* The accumulator. *)

KeptBytes == Byte \cup {Junk}
KeptBuffers == [memory : Seq(KeptBytes), used : Nat]
Sendings == [request : Nat, buffers : Seq(Seq(KeptBytes))]

AccumulatorTypes ==
  /\ buffers \in Seq(KeptBuffers)
  /\ Len(buffers) <= 1
  /\ \A i \in 1..Len(buffers) : buffers[i].used <= Len(buffers[i].memory)
  /\ sent \in Seq(Sendings)

Used(kept) == SubSeq(kept.memory, 1, kept.used)
Content == IF buffers = <<>> THEN <<>> ELSE Used(buffers[1])

LEMMA UsedIs ==
  ASSUME NEW k \in KeptBuffers, k.used <= Len(k.memory)
  PROVE  Used(k) \in Seq(KeptBytes) /\ CutAt(Used(k), k.memory, 0, k.used)
<1>1. k.memory \in Seq(KeptBytes) /\ k.used \in Nat /\ 0 \in Nat /\ 0 <= k.used
  BY DEF KeptBuffers
<1>2. 0 + 1 = 1 OBVIOUS
<1>. QED BY <1>1, <1>2, CutIs DEF Used

LEMMA WrittenIs ==
  ASSUME NEW m \in Seq(KeptBytes), NEW at \in Nat, NEW y \in Seq(KeptBytes),
         at + Len(y) <= Len(m)
  PROVE  LET w == Written(m, at, y)
         IN  /\ w \in Seq(KeptBytes) /\ Len(w) = Len(m)
             /\ \A i \in 1..Len(y) : w[at + i] = y[i]
             /\ \A i \in 1..at : w[i] = m[i]
<1>1. DOMAIN m = 1..Len(m) /\ Len(m) \in Nat /\ Len(y) \in Nat OBVIOUS
<1>w. PICK w : w = Written(m, at, y)
  OBVIOUS
<1>2. w = [i \in 1..Len(m) |-> IF i \in at + 1..at + Len(y) THEN y[i - at] ELSE m[i]]
  BY <1>1, <1>w DEF Written
<1>3. \A i \in 1..Len(m) : w[i] \in KeptBytes
  <2>1. ASSUME NEW i \in 1..Len(m) PROVE w[i] \in KeptBytes
    <3>1. CASE i \in at + 1..at + Len(y)
      <4>1. i - at \in 1..Len(y) BY <1>1, <3>1
      <4>. QED BY <1>2, <3>1, <4>1
    <3>2. CASE ~ (i \in at + 1..at + Len(y)) BY <1>2, <3>2
    <3>. QED BY <3>1, <3>2
  <2>. QED BY <2>1
<1>4. w \in [1..Len(m) -> KeptBytes] BY <1>2, <1>3
<1>5. w \in Seq(KeptBytes) /\ Len(w) = Len(m) BY <1>1, <1>4
<1>6. \A i \in 1..Len(y) : w[at + i] = y[i]
  <2>1. ASSUME NEW i \in 1..Len(y) PROVE w[at + i] = y[i]
    <3>1. at + i \in at + 1..at + Len(y) /\ at + i \in 1..Len(m) /\ (at + i) - at = i
      BY <1>1
    <3>. QED BY <1>2, <3>1
  <2>. QED BY <2>1
<1>7. \A i \in 1..at : w[i] = m[i]
  <2>1. ASSUME NEW i \in 1..at PROVE w[i] = m[i]
    <3>1. ~ (i \in at + 1..at + Len(y)) /\ i \in 1..Len(m) BY <1>1
    <3>. QED BY <1>2, <3>1
  <2>. QED BY <2>1
<1>. QED BY <1>5, <1>6, <1>7, <1>w

LEMMA FreshIs ==
  ASSUME NEW n \in Nat
  PROVE  Fresh(n) \in Seq(KeptBytes) /\ Len(Fresh(n)) = n
BY DEF Fresh, KeptBytes

LEMMA AppendedIs ==
  ASSUME NEW k \in KeptBuffers, k.used <= Len(k.memory), NEW y \in Seq(Byte)
  PROVE  /\ Appended(k, y) \in KeptBuffers
         /\ Appended(k, y).used <= Len(Appended(k, y).memory)
         /\ Used(Appended(k, y)) = Cat(Used(k), y)
<1>n. PICK n : n = k.used + Len(y)
  OBVIOUS
<1>m. PICK m : m = IF Len(k.memory) < n THEN Written(Fresh(n), 0, k.memory) ELSE k.memory
  OBVIOUS
<1>0. /\ k.memory \in Seq(KeptBytes) /\ k.used \in Nat /\ y \in Seq(KeptBytes)
      /\ Len(y) \in Nat /\ n \in Nat /\ Len(k.memory) \in Nat
  BY <1>n, SeqMonotonic DEF KeptBuffers, KeptBytes
<1>1. m \in Seq(KeptBytes) /\ n <= Len(m) /\ \A i \in 1..k.used : m[i] = k.memory[i]
  <2>1. CASE Len(k.memory) < n
    <3>1. Fresh(n) \in Seq(KeptBytes) /\ Len(Fresh(n)) = n BY <1>0, FreshIs
    <3>2. 0 \in Nat /\ 0 + Len(k.memory) <= Len(Fresh(n)) BY <1>0, <2>1, <3>1
    <3>3. m = Written(Fresh(n), 0, k.memory) BY <1>m, <2>1
    <3>4. /\ m \in Seq(KeptBytes) /\ Len(m) = n
          /\ \A i \in 1..Len(k.memory) : m[0 + i] = k.memory[i]
      BY <1>0, <3>1, <3>2, <3>3, WrittenIs
    <3>5. ASSUME NEW i \in 1..k.used PROVE m[i] = k.memory[i]
      <4>1. i \in 1..Len(k.memory) /\ 0 + i = i BY <1>0
      <4>. QED BY <3>4, <4>1
    <3>. QED BY <1>0, <3>4, <3>5
  <2>2. CASE ~ (Len(k.memory) < n) BY <1>0, <1>m, <2>2
  <2>. QED BY <2>1, <2>2
<1>w. PICK w : w = Written(m, k.used, y)
  OBVIOUS
<1>2. /\ w \in Seq(KeptBytes) /\ Len(w) = Len(m)
      /\ \A i \in 1..Len(y) : w[k.used + i] = y[i]
      /\ \A i \in 1..k.used : w[i] = m[i]
  <2>1. k.used + Len(y) <= Len(m) BY <1>1, <1>n
  <2>. QED BY <1>0, <1>1, <1>w, <2>1, WrittenIs
<1>r. PICK r : r = Appended(k, y)
  OBVIOUS
<1>3. r = [memory |-> w, used |-> n] BY <1>m, <1>n, <1>r, <1>w DEF Appended
<1>4. r \in KeptBuffers /\ r.memory = w /\ r.used = n /\ r.used <= Len(r.memory)
  BY <1>0, <1>1, <1>2, <1>3 DEF KeptBuffers
<1>u. PICK u : u = Used(k)
  OBVIOUS
<1>v. PICK v : v = Used(r)
  OBVIOUS
<1>c. PICK c : c = Cat(u, y)
  OBVIOUS
<1>5. u \in Seq(KeptBytes) /\ Len(u) = k.used /\ \A i \in 1..k.used : u[i] = k.memory[i]
  <2>1. u \in Seq(KeptBytes) /\ CutAt(u, k.memory, 0, k.used) BY <1>u, UsedIs
  <2>2. \A z \in Int : z - 0 = z /\ 0 + z = z OBVIOUS
  <2>. QED BY <1>0, <2>1, <2>2 DEF CutAt
<1>6. v \in Seq(KeptBytes) /\ Len(v) = n /\ \A i \in 1..n : v[i] = w[i]
  <2>1. v \in Seq(KeptBytes) /\ CutAt(v, w, 0, n) BY <1>4, <1>v, UsedIs
  <2>2. \A z \in Int : z - 0 = z /\ 0 + z = z OBVIOUS
  <2>. QED BY <1>0, <2>1, <2>2 DEF CutAt
<1>7. /\ c \in Seq(KeptBytes) /\ Len(c) = n
      /\ \A i \in 1..k.used : c[i] = u[i]
      /\ \A i \in 1..Len(y) : c[k.used + i] = y[i]
  <2>1. c \in Seq(KeptBytes) /\ Places(c, u, y) BY <1>0, <1>5, <1>c, CatType, CatPlaces
  <2>. QED BY <1>5, <1>n, <2>1 DEF Places
<1>8. ASSUME NEW i \in 1..Len(v) PROVE v[i] = c[i]
  <2>1. CASE i <= k.used
    <3>1. i \in 1..k.used /\ i \in 1..n BY <1>0, <1>6, <2>1
    <3>. QED BY ZenonT(60), <1>1, <1>2, <1>5, <1>6, <1>7, <3>1
  <2>2. CASE ~ (i <= k.used)
    <3>1. PICK j \in 1..Len(y) : i = k.used + j
      <4>1. i - k.used \in 1..Len(y) /\ i = k.used + (i - k.used) BY <1>0, <1>6, <1>n, <2>2
      <4>. QED BY <4>1
    <3>2. k.used + j \in 1..n BY SMTT(60), <1>0, <1>n
    <3>. QED BY <1>2, <1>6, <1>7, <3>1, <3>2
  <2>. QED BY <2>1, <2>2
<1>9. v = c BY <1>6, <1>7, <1>8, SeqEqual
<1>. QED BY <1>4, <1>9, <1>c, <1>r, <1>u, <1>v

LEMMA AppendBuffersIs ==
  ASSUME AccumulatorTypes, NEW y \in Seq(Byte), AppendBuffers(<<y>>)
  PROVE  AccumulatorTypes' /\ Content' = Cat(Content, y)
<1>0. /\ buffers \in Seq(KeptBuffers) /\ Len(buffers) \in Nat /\ Len(buffers) <= 1
      /\ \A i \in 1..Len(buffers) : buffers[i].used <= Len(buffers[i].memory)
  BY DEF AccumulatorTypes
<1>1. Len(<<y>>) = 1 /\ <<y>>[1] = y OBVIOUS
<1>k. PICK k : k = IF buffers = <<>>
                   THEN [memory |-> Fresh(Len(y)), used |-> 0]
                   ELSE buffers[1]
  OBVIOUS
<1>2. k \in KeptBuffers /\ k.used <= Len(k.memory) /\ Content = Used(k)
  <2>1. CASE buffers = <<>>
    <3>1. Fresh(Len(y)) \in Seq(KeptBytes) /\ Len(Fresh(Len(y))) = Len(y) BY FreshIs
    <3>2. k = [memory |-> Fresh(Len(y)), used |-> 0] BY <1>k, <2>1
    <3>3. k \in KeptBuffers /\ k.used = 0 /\ k.used <= Len(k.memory)
      BY <3>1, <3>2 DEF KeptBuffers
    <3>4. Used(k) = <<>>
      <4>1. SubSeq(k.memory, 1, 0) = <<>> BY SubSeqEmpty
      <4>. QED BY <3>3, <4>1 DEF Used
    <3>. QED BY <2>1, <3>3, <3>4 DEF Content
  <2>2. CASE buffers # <<>>
    <3>1. 1 \in 1..Len(buffers) BY <1>0, <2>2
    <3>2. buffers[1] \in KeptBuffers BY <1>0, <3>1, ElementOfSeq
    <3>. QED BY <1>0, <1>k, <2>2, <3>1, <3>2 DEF Content
  <2>. QED BY <2>1, <2>2
<1>3. buffers' = <<Appended(k, y)>>
  <2>1. CASE buffers = <<>>
    <3>1. Len(buffers) = 0 BY <2>1
    <3>2. buffers' = [i \in 1..1 |->
            CASE i > 1 -> buffers[i]
              [] i > 0 -> Appended([memory |-> Fresh(Len(<<y>>[i])), used |-> 0], <<y>>[i])
              [] OTHER -> Appended(buffers[i], <<y>>[i])]
      BY <1>1, <3>1 DEF AppendBuffers
    <3>3. \A i \in 1..1 : i = 1 OBVIOUS
    <3>4. ~ (1 > 1) /\ 1 > 0 OBVIOUS
    <3>5. k = [memory |-> Fresh(Len(y)), used |-> 0] BY <1>k, <2>1
    <3>6. buffers' = [i \in 1..1 |-> Appended(k, y)] BY <1>1, <3>2, <3>3, <3>4, <3>5
    <3>. QED BY <3>6
  <2>2. CASE buffers # <<>>
    <3>1. Len(buffers) = 1 BY <1>0, <2>2
    <3>2. buffers' = [i \in 1..1 |->
            CASE i > 1 -> buffers[i]
              [] i > 1 -> Appended([memory |-> Fresh(Len(<<y>>[i])), used |-> 0], <<y>>[i])
              [] OTHER -> Appended(buffers[i], <<y>>[i])]
      BY <1>1, <3>1 DEF AppendBuffers
    <3>3. \A i \in 1..1 : i = 1 OBVIOUS
    <3>4. ~ (1 > 1) OBVIOUS
    <3>5. k = buffers[1] BY <1>k, <2>2
    <3>6. buffers' = [i \in 1..1 |-> Appended(k, y)] BY <1>1, <3>2, <3>3, <3>4, <3>5
    <3>. QED BY <3>6
  <2>. QED BY <2>1, <2>2
<1>a. PICK a : a = Appended(k, y)
  OBVIOUS
<1>4. a \in KeptBuffers /\ a.used <= Len(a.memory) /\ Used(a) = Cat(Used(k), y)
  BY <1>2, <1>a, AppendedIs
<1>5. /\ buffers' \in Seq(KeptBuffers) /\ Len(buffers') = 1 /\ buffers'[1] = a
      /\ buffers' # <<>>
  BY <1>3, <1>4, <1>a
<1>6. \A i \in 1..Len(buffers') : i = 1 BY <1>5
<1>7. sent' = sent BY DEF AppendBuffers
<1>8. AccumulatorTypes' BY <1>4, <1>5, <1>6, <1>7 DEF AccumulatorTypes
<1>9. Content' = Used(a) BY <1>5 DEF Content
<1>. QED BY <1>2, <1>4, <1>8, <1>9

LEMMA ClearBuffersIs ==
  ASSUME AccumulatorTypes, ClearBuffers
  PROVE  AccumulatorTypes' /\ Content' = <<>> /\ sent' = sent
<1>0. /\ buffers \in Seq(KeptBuffers) /\ Len(buffers) \in Nat /\ Len(buffers) <= 1
      /\ DOMAIN buffers = 1..Len(buffers)
  BY DEF AccumulatorTypes
<1>1. /\ buffers' = [i \in 1..Len(buffers) |-> [buffers[i] EXCEPT !.used = 0]]
      /\ sent' = sent
  BY <1>0 DEF ClearBuffers
<1>2. \A i \in 1..Len(buffers) : buffers[i] \in KeptBuffers BY <1>0, ElementOfSeq
<1>3. \A i \in 1..Len(buffers) :
        /\ buffers'[i] \in KeptBuffers /\ buffers'[i].used = 0
        /\ buffers'[i].used <= Len(buffers'[i].memory)
  BY <1>1, <1>2 DEF KeptBuffers
<1>4. buffers' \in [1..Len(buffers) -> KeptBuffers] BY <1>1, <1>3
<1>5. buffers' \in Seq(KeptBuffers) /\ Len(buffers') = Len(buffers) BY <1>0, <1>4
<1>6. AccumulatorTypes' BY <1>0, <1>1, <1>3, <1>5 DEF AccumulatorTypes
<1>7. Content' = <<>>
  <2>1. CASE buffers' = <<>> BY <2>1 DEF Content
  <2>2. CASE buffers' # <<>>
    <3>1. 1 \in 1..Len(buffers) BY <1>0, <1>5, <2>2
    <3>2. buffers'[1].used = 0 BY <1>3, <3>1
    <3>3. SubSeq(buffers'[1].memory, 1, 0) = <<>> BY SubSeqEmpty
    <3>. QED BY <2>2, <3>2, <3>3 DEF Content, Used
  <2>. QED BY <2>1, <2>2
<1>. QED BY <1>1, <1>6, <1>7

LEMMA SendIs ==
  ASSUME AccumulatorTypes, NEW n \in Nat, SendAccumulatedBuffers(n)
  PROVE  /\ AccumulatorTypes' /\ Content' = Content
         /\ \E v \in Seq(Seq(KeptBytes)) :
              /\ sent' = Append(sent, [request |-> n, buffers |-> v])
              /\ FlattenSeq(v) = Content
<1>0. /\ buffers \in Seq(KeptBuffers) /\ Len(buffers) \in Nat /\ Len(buffers) <= 1
      /\ DOMAIN buffers = 1..Len(buffers) /\ sent \in Seq(Sendings)
      /\ \A i \in 1..Len(buffers) : buffers[i].used <= Len(buffers[i].memory)
  BY DEF AccumulatorTypes
<1>v. PICK v : v = [i \in 1..Len(buffers) |-> Used(buffers[i])]
  OBVIOUS
<1>1. sent' = Append(sent, [request |-> n, buffers |-> v]) /\ buffers' = buffers
  BY <1>0, <1>v DEF SendAccumulatedBuffers, Used
<1>2. \A i \in 1..Len(buffers) : Used(buffers[i]) \in Seq(KeptBytes)
  <2>1. ASSUME NEW i \in 1..Len(buffers) PROVE Used(buffers[i]) \in Seq(KeptBytes)
    <3>1. buffers[i] \in KeptBuffers BY <1>0, ElementOfSeq
    <3>. QED BY <1>0, <3>1, UsedIs
  <2>. QED BY <2>1
<1>3. v \in Seq(Seq(KeptBytes)) /\ Len(v) = Len(buffers)
  <2>1. v \in [1..Len(buffers) -> Seq(KeptBytes)] BY <1>2, <1>v
  <2>. QED BY <1>0, <2>1
<1>4. FlattenSeq(v) = Content
  <2>1. CASE buffers = <<>>
    <3>1. v = <<>> BY <1>3, <2>1
    <3>. QED BY <2>1, <3>1, FlattenEmpty DEF Content
  <2>2. CASE buffers # <<>>
    <3>1. Len(buffers) = 1 BY <1>0, <2>2
    <3>u. PICK u : u = Used(buffers[1])
      OBVIOUS
    <3>2. u \in Seq(KeptBytes) BY <1>2, <3>1, <3>u
    <3>3. v = <<u>>
      <4>1. \A i \in 1..1 : i = 1 OBVIOUS
      <4>2. v = [i \in 1..1 |-> u] BY <1>v, <3>1, <3>u, <4>1
      <4>. QED BY <4>2
    <3>4. FlattenSeq(<<u>>) = u BY <3>2, FlattenOne
    <3>. QED BY <2>2, <3>3, <3>4, <3>u DEF Content
  <2>. QED BY <2>1, <2>2
<1>5. AccumulatorTypes'
  <2>1. [request |-> n, buffers |-> v] \in Sendings BY <1>3 DEF Sendings
  <2>2. sent' \in Seq(Sendings) BY <1>0, <1>1, <2>1
  <2>. QED BY <1>0, <1>1, <2>2 DEF AccumulatorTypes
<1>6. Content' = Content BY <1>1 DEF Content
<1>. QED BY <1>1, <1>3, <1>4, <1>5, <1>6

\* What handling a packet does to what is collected.
Collects(p) ==
  CASE p.what = "New Request"   -> Content' = <<>> /\ sent' = sent
    [] p.what = "Body Data"     -> Content' = Cat(Content, p.bytes) /\ sent' = sent
    [] p.what = "Request Ended" ->
         /\ Content' = Content
         /\ \E v \in Seq(Seq(KeptBytes)) :
              /\ sent' = Append(sent, [request |-> p.request, buffers |-> v])
              /\ FlattenSeq(v) = Content
    [] p.what = "error"         -> Content' = Content /\ sent' = sent

LEMMA HandleIs ==
  ASSUME AccumulatorTypes, NEW p \in Packets, Handle(p)
  PROVE  AccumulatorTypes' /\ Collects(p)
<1>0. p.request \in Nat /\ p.bytes \in Seq(Byte) /\ p.what \in Channels BY DEF Packets
<1>1. CASE p.what = "New Request"
  <2>1. ClearBuffers BY <1>1 DEF Handle
  <2>. QED BY <1>1, <2>1, ClearBuffersIs DEF Collects
<1>2. CASE p.what = "Body Data"
  <2>1. AppendBuffers(<<p.bytes>>) BY <1>2 DEF Handle
  <2>2. AccumulatorTypes' /\ Content' = Cat(Content, p.bytes) BY <1>0, <2>1, AppendBuffersIs
  <2>3. sent' = sent BY <2>1 DEF AppendBuffers
  <2>. QED BY <1>2, <2>2, <2>3 DEF Collects
<1>3. CASE p.what = "Request Ended"
  <2>1. SendAccumulatedBuffers(p.request) BY <1>3 DEF Handle
  <2>2. /\ AccumulatorTypes' /\ Content' = Content
        /\ \E v \in Seq(Seq(KeptBytes)) :
              /\ sent' = Append(sent, [request |-> p.request, buffers |-> v])
              /\ FlattenSeq(v) = Content
    BY <1>0, <2>1, SendIs
  <2>. QED BY <1>3, <2>2 DEF Collects
<1>4. CASE p.what = "error"
  <2>1. buffers' = buffers /\ sent' = sent BY <1>4 DEF Handle, accumulatorVars
  <2>2. AccumulatorTypes' /\ Content' = Content BY <2>1 DEF AccumulatorTypes, Content
  <2>. QED BY <1>4, <2>1, <2>2 DEF Collects
<1>. QED BY <1>0, <1>1, <1>2, <1>3, <1>4 DEF Channels

-----------------------------------------------------------------------------
(* Type correctness. *)

TypeInv == ExtractorTypes /\ AccumulatorTypes /\ delivered \in 0..Len(told)

\* The packets told grow by packets of the current request.
ToldGrows ==
  \/ told' = told
  \/ \E p \in Packets : p.request = request /\ told' = Append(told, p)
  \/ \E p, q \in Packets : /\ p.request = request /\ q.request = request
                           /\ told' = Append(Append(told, p), q)

LEMMA ToldGrowsIs ==
  ASSUME ExtractorTypes, ToldGrows
  PROVE  /\ told' \in Seq(Packets) /\ Len(told) \in Nat /\ Len(told') \in Nat
         /\ Len(told) <= Len(told')
         /\ \A i \in 1..Len(told) : told'[i] = told[i]
         /\ \A i \in Len(told) + 1..Len(told') : told'[i].request = request
<1>0. told \in Seq(Packets) /\ Len(told) \in Nat BY DEF ExtractorTypes
<1>1. CASE told' = told BY <1>0, <1>1
<1>2. ASSUME NEW p \in Packets, p.request = request, told' = Append(told, p)
      PROVE  /\ told' \in Seq(Packets) /\ Len(told') \in Nat /\ Len(told) <= Len(told')
             /\ \A i \in 1..Len(told) : told'[i] = told[i]
             /\ \A i \in Len(told) + 1..Len(told') : told'[i].request = request
  <2>1. /\ told' \in Seq(Packets) /\ Len(told') = Len(told) + 1
        /\ \A i \in 1..Len(told) : told'[i] = told[i]
        /\ told'[Len(told) + 1] = p
    BY <1>0, <1>2, AppendProperties
  <2>2. \A i \in Len(told) + 1..Len(told') : i = Len(told) + 1 BY <1>0, <2>1
  <2>. QED BY <1>0, <1>2, <2>1, <2>2
<1>3. ASSUME NEW p \in Packets, NEW q \in Packets, p.request = request, q.request = request,
             told' = Append(Append(told, p), q)
      PROVE  /\ told' \in Seq(Packets) /\ Len(told') \in Nat /\ Len(told) <= Len(told')
             /\ \A i \in 1..Len(told) : told'[i] = told[i]
             /\ \A i \in Len(told) + 1..Len(told') : told'[i].request = request
  <2>t. PICK t : t = Append(told, p)
    OBVIOUS
  <2>1. /\ t \in Seq(Packets) /\ Len(t) = Len(told) + 1
        /\ \A i \in 1..Len(told) : t[i] = told[i]
        /\ t[Len(told) + 1] = p
    BY <1>0, <2>t, AppendProperties
  <2>2. /\ told' \in Seq(Packets) /\ Len(told') = Len(t) + 1
        /\ \A i \in 1..Len(t) : told'[i] = t[i]
        /\ told'[Len(t) + 1] = q
    BY <1>3, <2>1, <2>t, AppendProperties
  <2>3. \A i \in Len(told) + 1..Len(told') : i = Len(told) + 1 \/ i = Len(t) + 1
    BY <1>0, <2>1, <2>2
  <2>4. Len(told) + 1 \in 1..Len(t) /\ \A i \in 1..Len(told) : i \in 1..Len(t)
    BY <1>0, <2>1
  <2>5. Len(told') \in Nat /\ Len(told) <= Len(told') BY <1>0, <2>1, <2>2
  <2>. QED BY <1>3, <2>1, <2>2, <2>3, <2>4, <2>5
<1>. QED BY <1>0, <1>1, <1>2, <1>3 DEF ToldGrows

LEMMA InitTypes == InitAll => TypeInv
<1>1. SUFFICES ASSUME InitAll PROVE TypeInv
  OBVIOUS
<1>2. /\ request = 1 /\ text \in Texts /\ received = 0 /\ pieces = 0 /\ headerData = <<>>
      /\ sentHeaders = FALSE /\ throws = 0 /\ told = <<>>
      /\ buffers = <<>> /\ sent = <<>> /\ delivered = 0
  BY <1>1 DEF InitAll, Init, AccumulatorInit
<1>3. headerData \in Streams(Byte) /\ Size(headerData) = 0 /\ FlattenSeq(headerData) = <<>>
  <2>1. headerData \in Streams(Byte) BY <1>2 DEF Streams
  <2>2. FlattenSeq(headerData) = <<>> BY <1>2, FlattenEmpty
  <2>3. Size(headerData) = Len(FlattenSeq(headerData)) BY <2>1, StreamType, SizeIs
  <2>. QED BY <2>1, <2>2, <2>3
<1>4. Got = <<>>
  <2>1. SubSeq(text, 1, 0) = <<>> BY SubSeqEmpty
  <2>. QED BY <1>2, <2>1 DEF Got
<1>5. text \in Seq(Byte) /\ Len(text) \in Nat BY <1>2, TextType
<1>6. ExtractorTypes
  <2>1. request \in 1..MaxRequests + 1 BY <1>2, BoundsAssumption
  <2>2. received \in 0..Len(text) BY <1>2, <1>5
  <2>3. pieces \in 0..MaxPieces /\ throws \in 0..MaxThrows BY <1>2, BoundsAssumption
  <2>4. Size(headerData) <= received BY <1>2, <1>3
  <2>5. told \in Seq(Packets) /\ \A i \in 1..Len(told) : told[i].request \in 1..request
    BY <1>2
  <2>. QED BY <1>2, <1>3, <1>4, <2>1, <2>2, <2>3, <2>4, <2>5 DEF ExtractorTypes
<1>7. AccumulatorTypes BY <1>2 DEF AccumulatorTypes
<1>8. delivered \in 0..Len(told) BY <1>2
<1>. QED BY <1>6, <1>7, <1>8 DEF TypeInv

LEMMA DestroyIs ==
  ASSUME ExtractorTypes, Destroy
  PROVE  /\ request \in Nat /\ request' = request + 1 /\ sentHeaders' = FALSE
         /\ Got' = <<>> /\ throws' = throws /\ headerData' = <<>>
         /\ sentHeaders => told' = Append(told, Packet("Request Ended", <<>>))
         /\ ~sentHeaders => told' = told
         /\ ToldGrows /\ ExtractorTypes'
<1>1. /\ request <= MaxRequests /\ request' = request + 1 /\ text' \in NextTexts
      /\ received' = 0 /\ pieces' = 0 /\ headerData' = <<>> /\ sentHeaders' = FALSE
      /\ throws' = throws
  BY DEF Destroy
<1>t. Tell(IF sentHeaders THEN <<Packet("Request Ended", <<>>)>> ELSE <<>>) BY DEF Destroy
<1>2. Packet("Request Ended", <<>>) \in Packets
  <2>1. "Request Ended" \in Channels BY DEF Channels
  <2>2. <<>> \in Seq(Byte) OBVIOUS
  <2>. QED BY <2>1, <2>2, PacketType
<1>3. /\ sentHeaders => told' = Append(told, Packet("Request Ended", <<>>))
      /\ ~sentHeaders => told' = told
  BY <1>t, <1>2, TellIs
<1>4. request \in Nat /\ request \in 1..MaxRequests + 1 /\ MaxRequests \in Nat
  BY BoundsAssumption DEF ExtractorTypes
<1>5. Packet("Request Ended", <<>>).request = request BY DEF Packet
<1>6. ToldGrows BY <1>2, <1>3, <1>5 DEF ToldGrows
<1>7. Got' = <<>>
  <2>1. SubSeq(text', 1, 0) = <<>> BY SubSeqEmpty
  <2>. QED BY <1>1, <2>1 DEF Got
<1>8. ExtractorTypes'
  <2>1. request' \in 1..MaxRequests + 1 BY <1>1, <1>4
  <2>2. text' \in Texts \cup LaterTexts \cup {<<>>} BY <1>1 DEF NextTexts
  <2>3. received' \in 0..Len(text') BY <1>1, <2>2, TextType
  <2>4. headerData' \in Streams(Byte) /\ FlattenSeq(headerData') = Got'
        /\ Size(headerData') = 0
    <3>1. <<>> \in Streams(Byte) BY DEF Streams
    <3>2. Size(<<>>) = Len(FlattenSeq(<<>>)) BY <3>1, StreamType, SizeIs
    <3>. QED BY <1>1, <1>7, <3>1, <3>2, FlattenEmpty
  <2>5. /\ told' \in Seq(Packets) /\ Len(told) \in Nat /\ Len(told') \in Nat
        /\ \A i \in 1..Len(told) : told'[i] = told[i]
        /\ \A i \in Len(told) + 1..Len(told') : told'[i].request = request
    BY <1>6, ToldGrowsIs
  <2>6. \A i \in 1..Len(told) : told[i].request \in 1..request BY DEF ExtractorTypes
  <2>7. ASSUME NEW i \in 1..Len(told') PROVE told'[i].request \in 1..request'
    <3>1. CASE i \in 1..Len(told)
      <4>1. told'[i].request \in 1..request BY <2>5, <2>6, <3>1
      <4>. QED BY <1>1, <1>4, <4>1
    <3>2. CASE ~ (i \in 1..Len(told))
      <4>1. i \in Len(told) + 1..Len(told') BY <2>5, <3>2
      <4>. QED BY <1>1, <1>4, <2>5, <4>1
    <3>. QED BY <3>1, <3>2
  <2>8. pieces' \in 0..MaxPieces /\ throws' \in 0..MaxThrows /\ sentHeaders' \in BOOLEAN
    <3>1. pieces' \in 0..MaxPieces BY <1>1, BoundsAssumption
    <3>2. throws' \in 0..MaxThrows BY <1>1, ThrowsAre
    <3>3. sentHeaders' \in BOOLEAN BY <1>1
    <3>. QED BY <3>1, <3>2, <3>3
  <2>9. Size(headerData') <= received' BY <1>1, <2>4
  <2>. QED BY <2>1, <2>2, <2>3, <2>4, <2>5, <2>7, <2>8, <2>9 DEF ExtractorTypes
<1>. QED BY <1>1, <1>3, <1>4, <1>6, <1>7, <1>8

LEMMA ReceiveTypes ==
  ASSUME ExtractorTypes, Receive
  PROVE  ToldGrows /\ ExtractorTypes'
<1>x. PICK x : IsPiece(x) /\ Handles(x) /\ HeaderDataKept BY ReceiveIs
<1>1. ToldGrows BY <1>x, ToldStep DEF ToldGrows
<1>2. /\ told' \in Seq(Packets) /\ Len(told) \in Nat /\ Len(told') \in Nat
      /\ \A i \in 1..Len(told) : told'[i] = told[i]
      /\ \A i \in Len(told) + 1..Len(told') : told'[i].request = request
  BY <1>1, ToldGrowsIs
<1>3. request' = request /\ text' = text BY <1>x DEF IsPiece
<1>4. received' \in 0..Len(text')
  <2>1. received \in Nat /\ Len(x) \in Nat /\ received' = received + Len(x)
        /\ received' <= Len(text) /\ Len(text) \in Nat
    BY <1>x, GotIs DEF IsPiece
  <2>. QED BY <1>3, <2>1
<1>5. pieces' \in 0..MaxPieces
  <2>1. pieces < MaxPieces /\ pieces' = pieces + 1 BY DEF Receive
  <2>. QED BY <2>1, BoundsAssumption DEF ExtractorTypes
<1>6. ASSUME NEW i \in 1..Len(told') PROVE told'[i].request \in 1..request'
  <2>1. CASE i \in 1..Len(told) BY <1>2, <1>3, <2>1 DEF ExtractorTypes
  <2>2. CASE ~ (i \in 1..Len(told))
    <3>1. i \in Len(told) + 1..Len(told') BY <1>2, <2>2
    <3>2. request \in 1..request BY BoundsAssumption DEF ExtractorTypes
    <3>. QED BY <1>2, <1>3, <3>1, <3>2
  <2>. QED BY <2>1, <2>2
<1>7. request' \in 1..MaxRequests + 1 /\ text' \in Texts \cup LaterTexts \cup {<<>>}
  BY <1>3 DEF ExtractorTypes
<1>8. ExtractorTypes'
  BY <1>2, <1>4, <1>5, <1>6, <1>7, <1>x DEF ExtractorTypes, HeaderDataKept
<1>. QED BY <1>1, <1>8

LEMMA ExtractorStep ==
  ASSUME ExtractorTypes, ExtractorNext
  PROVE  ToldGrows /\ ExtractorTypes'
BY DestroyIs, ReceiveTypes DEF ExtractorNext

LEMMA DeliverIs ==
  ASSUME TypeInv, Deliver
  PROVE  /\ delivered \in Nat /\ delivered' = delivered + 1 /\ delivered + 1 \in 1..Len(told)
         /\ told[delivered + 1] \in Packets
         /\ AccumulatorTypes' /\ Collects(told[delivered + 1])
         /\ UNCHANGED extractorVars
<1>1. /\ delivered < Len(told) /\ Handle(told[delivered + 1])
      /\ delivered' = delivered + 1 /\ UNCHANGED extractorVars
  BY DEF Deliver
<1>2. told \in Seq(Packets) /\ Len(told) \in Nat BY DEF TypeInv, ExtractorTypes
<1>3. delivered \in Nat /\ delivered + 1 \in 1..Len(told) BY <1>1, <1>2 DEF TypeInv
<1>4. told[delivered + 1] \in Packets BY <1>2, <1>3, ElementOfSeq
<1>5. AccumulatorTypes' /\ Collects(told[delivered + 1])
  BY <1>1, <1>4, HandleIs DEF TypeInv
<1>. QED BY <1>1, <1>3, <1>4, <1>5

LEMMA SameTypes ==
  ASSUME ExtractorTypes, UNCHANGED extractorVars
  PROVE  ExtractorTypes'
BY DEF ExtractorTypes, extractorVars, peer, Got

LEMMA NextTypes == TypeInv /\ [Next]_vars => TypeInv'
<1>1. SUFFICES ASSUME TypeInv, [Next]_vars PROVE TypeInv'
  OBVIOUS
<1>2. CASE ExtractorNext /\ UNCHANGED <<accumulatorVars, delivered>>
  <2>1. ToldGrows /\ ExtractorTypes' BY <1>1, <1>2, ExtractorStep DEF TypeInv
  <2>2. AccumulatorTypes' BY <1>1, <1>2 DEF TypeInv, AccumulatorTypes, accumulatorVars
  <2>3. Len(told) \in Nat /\ Len(told') \in Nat /\ Len(told) <= Len(told')
    BY <1>1, <2>1, ToldGrowsIs DEF TypeInv
  <2>4. delivered' \in 0..Len(told') BY <1>1, <1>2, <2>3 DEF TypeInv
  <2>. QED BY <2>1, <2>2, <2>4 DEF TypeInv
<1>3. CASE Deliver
  <2>1. /\ delivered \in Nat /\ delivered' = delivered + 1 /\ delivered + 1 \in 1..Len(told)
        /\ AccumulatorTypes' /\ UNCHANGED extractorVars
    BY <1>1, <1>3, DeliverIs
  <2>2. ExtractorTypes' BY <1>1, <2>1, SameTypes DEF TypeInv
  <2>3. told' = told BY <2>1 DEF extractorVars
  <2>4. delivered' \in 0..Len(told') BY <2>1, <2>3
  <2>. QED BY <2>1, <2>2, <2>4 DEF TypeInv
<1>4. CASE UNCHANGED vars
  <2>1. /\ UNCHANGED extractorVars /\ UNCHANGED accumulatorVars /\ delivered' = delivered
    BY <1>4 DEF vars
  <2>2. ExtractorTypes' BY <1>1, <2>1, SameTypes DEF TypeInv
  <2>3. told' = told BY <2>1 DEF extractorVars
  <2>4. AccumulatorTypes' BY <1>1, <2>1 DEF TypeInv, AccumulatorTypes, accumulatorVars
  <2>. QED BY <1>1, <2>1, <2>2, <2>3, <2>4 DEF TypeInv
<1>. QED BY <1>1, <1>2, <1>3, <1>4 DEF Next

LEMMA AlwaysTypeInv == Spec => []TypeInv
BY InitTypes, NextTypes, PTL DEF Spec

(***************************************************************************)
(* Type correctness: the header data is a stream of nonempty buffers that  *)
(* never holds more than was received, every packet is of a connection     *)
(* there was, only what was told is delivered, and no buffer kept by the   *)
(* accumulator is used beyond its end (mHeaderData, mBuffers).             *)
(***************************************************************************)
THEOREM TypeCorrect == Spec => []TypeOK
<1>1. ASSUME TypeInv PROVE TypeOK
  <2>1. ExtractorTypes /\ AccumulatorTypes /\ delivered \in 0..Len(told) BY <1>1 DEF TypeInv
  <2>2. \A i \in DOMAIN headerData : headerData[i] # <<>> /\ Size(headerData) <= received
    <3>1. DOMAIN headerData = 1..Len(headerData) BY <2>1, StreamType DEF ExtractorTypes
    <3>. QED BY <2>1, <3>1, StreamType DEF ExtractorTypes
  <2>3. \A i \in DOMAIN told : told[i].what \in Channels /\ told[i].request \in 1..request
    <3>1. told \in Seq(Packets) /\ DOMAIN told = 1..Len(told) BY <2>1 DEF ExtractorTypes
    <3>2. \A i \in 1..Len(told) : told[i] \in Packets BY <3>1, ElementOfSeq
    <3>. QED BY <2>1, <3>1, <3>2 DEF ExtractorTypes, Packets
  <2>4. \A i \in DOMAIN buffers : buffers[i].used \in 0..Len(buffers[i].memory)
    <3>1. buffers \in Seq(KeptBuffers) /\ DOMAIN buffers = 1..Len(buffers)
      BY <2>1 DEF AccumulatorTypes
    <3>2. ASSUME NEW i \in 1..Len(buffers)
          PROVE  buffers[i].used \in 0..Len(buffers[i].memory)
      <4>1. buffers[i] \in KeptBuffers BY <3>1, ElementOfSeq
      <4>2. buffers[i].used \in Nat /\ Len(buffers[i].memory) \in Nat
        BY <4>1 DEF KeptBuffers
      <4>. QED BY <2>1, <4>2 DEF AccumulatorTypes
    <3>. QED BY <3>1, <3>2
  <2>. QED BY <2>1, <2>2, <2>3, <2>4 DEF TypeOK, ExtractorTypes
<1>. QED BY <1>1, AlwaysTypeInv, PTL

-----------------------------------------------------------------------------
(* The order of what is told. *)

Same(s, i, j) == s[i].request = s[j].request

\* Packets s, the last of them of request r, which was announced or not.
Ordered(s, r, announced) ==
  /\ \A i \in 1..Len(s) : s[i].request <= r
  /\ \A i, j \in 1..Len(s) : i <= j => s[i].request <= s[j].request
  /\ \A i, j \in 1..Len(s) :
       s[i].what = "New Request" /\ s[j].what = "New Request" /\ Same(s, i, j) => i = j
  /\ \A i \in 1..Len(s) :
       s[i].what = "Body Data" =>
         \E j \in 1..Len(s) : s[j].what = "New Request" /\ Same(s, i, j) /\ j < i
  /\ \A i, j \in 1..Len(s) : s[i].what = "Request Ended" /\ Same(s, i, j) => j <= i
  /\ \A i \in 1..Len(s) :
       s[i].what = "Request Ended" =>
         s[i].request < r /\ \E j \in 1..Len(s) : s[j].what = "New Request" /\ Same(s, i, j)
  /\ \A i \in 1..Len(s) :
       s[i].what = "New Request" /\ s[i].request < r =>
         \E j \in 1..Len(s) : s[j].what = "Request Ended" /\ Same(s, i, j)
  /\ (\E i \in 1..Len(s) : s[i].what = "New Request" /\ s[i].request = r) <=> announced

OrderInv == Ordered(told, request, sentHeaders)

\* A packet other than the last, before and after which it was announced or not.
MayFollow(p, on, also) ==
  \/ p.what = "error" /\ (also <=> on)
  \/ p.what = "Body Data" /\ on /\ also
  \/ p.what = "New Request" /\ ~on /\ also

LEMMA AppendOrdered ==
  ASSUME NEW s \in Seq(Packets), NEW r \in Nat, NEW on \in BOOLEAN, Ordered(s, r, on),
         NEW p \in Packets, p.request = r, NEW also \in BOOLEAN,
         MayFollow(p, on, also)
  PROVE  Ordered(Append(s, p), r, also)
<1>t. PICK t : t = Append(s, p)
  OBVIOUS
<1>n. PICK n : n = Len(s)
  OBVIOUS
<1>0. /\ n \in Nat /\ t \in Seq(Packets) /\ Len(t) = n + 1
      /\ (\A i \in 1..n : t[i] = s[i]) /\ t[n + 1] = p
  BY <1>n, <1>t, AppendProperties
<1>1. \A i \in 1..n + 1 : i \in 1..n \/ i = n + 1 BY <1>0
<1>2. \A i \in 1..n : i \in 1..n + 1 /\ i < n + 1 /\ ~ (n + 1 <= i) BY <1>0
<1>3. n + 1 \in 1..n + 1 BY <1>0
<1>4. \A i \in 1..n : s[i].request <= r /\ s[i].request \in Nat
  <2>1. \A i \in 1..n : s[i] \in Packets BY <1>n, ElementOfSeq
  <2>. QED BY <1>n, <2>1 DEF Ordered, Packets
<1>5. \A i \in 1..n + 1 : t[i].request <= r BY <1>0, <1>1, <1>4
<1>6. \A i, j \in 1..n + 1 : i <= j => t[i].request <= t[j].request
  <2>1. \A i, j \in 1..n : i <= j => s[i].request <= s[j].request BY <1>n DEF Ordered
  <2>. QED BY SMTT(60), <1>0, <1>1, <1>2, <1>4, <2>1
<1>7. p.what # "Request Ended" BY DEF MayFollow
<1>8. \A i, j \in 1..n + 1 :
        t[i].what = "New Request" /\ t[j].what = "New Request" /\ Same(t, i, j) => i = j
  <2>1. \A i, j \in 1..n :
          s[i].what = "New Request" /\ s[j].what = "New Request" /\ Same(s, i, j) => i = j
    BY <1>n DEF Ordered
  <2>2. p.what = "New Request" =>
          \A i \in 1..n : ~ (s[i].what = "New Request" /\ s[i].request = r)
    BY <1>n DEF Ordered, MayFollow
  <2>. QED BY <1>0, <1>1, <2>1, <2>2 DEF Same
<1>9. \A i \in 1..n + 1 :
        t[i].what = "Body Data" =>
          \E j \in 1..n + 1 : t[j].what = "New Request" /\ Same(t, i, j) /\ j < i
  <2>1. \A i \in 1..n :
          s[i].what = "Body Data" =>
            \E j \in 1..n : s[j].what = "New Request" /\ Same(s, i, j) /\ j < i
    BY <1>n DEF Ordered
  <2>2. p.what = "Body Data" =>
          \E j \in 1..n : s[j].what = "New Request" /\ s[j].request = r
    BY <1>n DEF Ordered, MayFollow
  <2>3. ASSUME NEW i \in 1..n, t[i].what = "Body Data"
        PROVE  \E j \in 1..n + 1 : t[j].what = "New Request" /\ Same(t, i, j) /\ j < i
    <3>1. PICK j \in 1..n : s[j].what = "New Request" /\ Same(s, i, j) /\ j < i
      BY <1>0, <2>1, <2>3
    <3>. QED BY <1>0, <1>2, <3>1 DEF Same
  <2>4. ASSUME t[n + 1].what = "Body Data"
        PROVE  \E j \in 1..n + 1 : t[j].what = "New Request" /\ Same(t, n + 1, j) /\ j < n + 1
    <3>1. PICK j \in 1..n : s[j].what = "New Request" /\ s[j].request = r
      BY <1>0, <2>2, <2>4
    <3>. QED BY <1>0, <1>2, <3>1 DEF Same
  <2>. QED BY <1>1, <2>3, <2>4
<1>10. \A i, j \in 1..n + 1 : t[i].what = "Request Ended" /\ Same(t, i, j) => j <= i
  <2>1. \A i, j \in 1..n : s[i].what = "Request Ended" /\ Same(s, i, j) => j <= i
    BY <1>n DEF Ordered
  <2>2. \A i \in 1..n : s[i].what = "Request Ended" => s[i].request < r
    BY <1>n DEF Ordered
  <2>3. \A i \in 1..n : s[i].what = "Request Ended" => s[i].request # r
    <3>1. \A z \in Nat : z < r => z # r OBVIOUS
    <3>. QED BY <1>4, <2>2, <3>1
  <2>. QED BY <1>0, <1>1, <1>7, <2>1, <2>3 DEF Same
<1>11. \A i \in 1..n + 1 :
         t[i].what = "Request Ended" =>
           t[i].request < r /\ \E j \in 1..n + 1 : t[j].what = "New Request" /\ Same(t, i, j)
  <2>1. \A i \in 1..n :
          s[i].what = "Request Ended" =>
            s[i].request < r /\ \E j \in 1..n : s[j].what = "New Request" /\ Same(s, i, j)
    BY <1>n DEF Ordered
  <2>2. ASSUME NEW i \in 1..n + 1, t[i].what = "Request Ended"
        PROVE  t[i].request < r /\ \E j \in 1..n + 1 : t[j].what = "New Request" /\ Same(t, i, j)
    <3>1. i \in 1..n BY <1>0, <1>1, <1>7, <2>2
    <3>2. PICK j \in 1..n : s[i].request < r /\ s[j].what = "New Request" /\ Same(s, i, j)
      BY <1>0, <2>1, <2>2, <3>1
    <3>. QED BY <1>0, <1>2, <3>1, <3>2 DEF Same
  <2>. QED BY <2>2
<1>12. \A i \in 1..n + 1 :
         t[i].what = "New Request" /\ t[i].request < r =>
           \E j \in 1..n + 1 : t[j].what = "Request Ended" /\ Same(t, i, j)
  <2>1. \A i \in 1..n :
          s[i].what = "New Request" /\ s[i].request < r =>
            \E j \in 1..n : s[j].what = "Request Ended" /\ Same(s, i, j)
    BY <1>n DEF Ordered
  <2>2. ASSUME NEW i \in 1..n + 1, t[i].what = "New Request", t[i].request < r
        PROVE  \E j \in 1..n + 1 : t[j].what = "Request Ended" /\ Same(t, i, j)
    <3>r. ~ (r < r) OBVIOUS
    <3>1. i \in 1..n BY <1>0, <1>1, <2>2, <3>r
    <3>2. PICK j \in 1..n : s[j].what = "Request Ended" /\ Same(s, i, j)
      BY <1>0, <2>1, <2>2, <3>1
    <3>. QED BY <1>0, <1>2, <3>1, <3>2 DEF Same
  <2>. QED BY <2>2
<1>13. (\E i \in 1..n + 1 : t[i].what = "New Request" /\ t[i].request = r) <=> also
  <2>1. (\E i \in 1..n : s[i].what = "New Request" /\ s[i].request = r) <=> on
    BY <1>n DEF Ordered
  <2>2. (\E i \in 1..n + 1 : t[i].what = "New Request" /\ t[i].request = r)
          <=> (\E i \in 1..n : s[i].what = "New Request" /\ s[i].request = r)
              \/ p.what = "New Request"
    BY <1>0, <1>1, <1>2, <1>3
  <2>3. also <=> on \/ p.what = "New Request" BY DEF MayFollow
  <2>. QED BY <2>1, <2>2, <2>3
<1>14. Len(t) = n + 1 BY <1>0
<1>15. Ordered(t, r, also)
  BY ONLY <1>5, <1>6, <1>8, <1>9, <1>10, <1>11, <1>12, <1>13, <1>14 DEF Ordered
<1>. QED BY <1>15, <1>t

LEMMA SkipOrdered ==
  ASSUME NEW s \in Seq(Packets), NEW r \in Nat, Ordered(s, r, FALSE)
  PROVE  Ordered(s, r + 1, FALSE)
<1>1. \A i \in 1..Len(s) : s[i].request \in Nat /\ s[i].request <= r
  <2>1. \A i \in 1..Len(s) : s[i] \in Packets BY ElementOfSeq
  <2>. QED BY <2>1 DEF Ordered, Packets
<1>2. \A z \in Nat : z <= r => z <= r + 1 /\ z < r + 1 /\ z # r + 1 /\ (z # r => z < r)
  OBVIOUS
<1>3. \A i \in 1..Len(s) : ~ (s[i].what = "New Request" /\ s[i].request = r)
  BY DEF Ordered
<1>4. \A i \in 1..Len(s) :
        s[i].what = "New Request" /\ s[i].request < r + 1 =>
          \E j \in 1..Len(s) : s[j].what = "Request Ended" /\ Same(s, i, j)
  <2>1. \A i \in 1..Len(s) :
          s[i].what = "New Request" /\ s[i].request < r =>
            \E j \in 1..Len(s) : s[j].what = "Request Ended" /\ Same(s, i, j)
    BY DEF Ordered
  <2>. QED BY <1>1, <1>2, <1>3, <2>1
<1>5. \A i \in 1..Len(s) :
        s[i].what = "Request Ended" =>
          s[i].request < r + 1
          /\ \E j \in 1..Len(s) : s[j].what = "New Request" /\ Same(s, i, j)
  <2>1. \A i \in 1..Len(s) :
          s[i].what = "Request Ended" =>
            \E j \in 1..Len(s) : s[j].what = "New Request" /\ Same(s, i, j)
    BY DEF Ordered
  <2>. QED BY <1>1, <1>2, <2>1
<1>6. \A i \in 1..Len(s) : s[i].request <= r + 1 BY <1>1, <1>2
<1>7. ~ \E i \in 1..Len(s) : s[i].what = "New Request" /\ s[i].request = r + 1
  BY <1>1, <1>2
<1>. QED BY <1>4, <1>5, <1>6, <1>7 DEF Ordered

EndsRequest(p, r) == p.what = "Request Ended" /\ p.request = r

LEMMA EndOrdered ==
  ASSUME NEW s \in Seq(Packets), NEW r \in Nat, Ordered(s, r, TRUE),
         NEW p \in Packets, EndsRequest(p, r)
  PROVE  Ordered(Append(s, p), r + 1, FALSE)
<1>t. PICK t : t = Append(s, p)
  OBVIOUS
<1>n. PICK n : n = Len(s)
  OBVIOUS
<1>0. /\ n \in Nat /\ t \in Seq(Packets) /\ Len(t) = n + 1
      /\ (\A i \in 1..n : t[i] = s[i]) /\ t[n + 1] = p
  BY <1>n, <1>t, AppendProperties
<1>1. \A i \in 1..n + 1 : i \in 1..n \/ i = n + 1 BY <1>0
<1>2. \A i \in 1..n : i \in 1..n + 1 /\ i < n + 1 /\ i <= n + 1 /\ ~ (n + 1 <= i) BY <1>0
<1>3. n + 1 \in 1..n + 1 /\ n + 1 <= n + 1 BY <1>0
<1>4. \A i \in 1..n : s[i].request <= r /\ s[i].request \in Nat
  <2>1. \A i \in 1..n : s[i] \in Packets BY <1>n, ElementOfSeq
  <2>. QED BY <1>n, <2>1 DEF Ordered, Packets
<1>5. /\ \A z \in Nat : z <= r => z <= r + 1 /\ z < r + 1 /\ z # r + 1 /\ (z # r => z < r)
      /\ \A z \in Nat : z < r => z # r
      /\ r < r + 1 /\ r <= r + 1 /\ r # r + 1 /\ r <= r
  OBVIOUS
<1>e. p.what = "Request Ended" /\ p.request = r BY DEF EndsRequest
<1>6. \A i \in 1..n + 1 : t[i].request <= r + 1 BY <1>0, <1>e, <1>1, <1>4, <1>5
<1>7. \A i, j \in 1..n + 1 : i <= j => t[i].request <= t[j].request
  <2>1. \A i, j \in 1..n : i <= j => s[i].request <= s[j].request BY <1>n DEF Ordered
  <2>. QED BY <1>0, <1>e, <1>1, <1>2, <1>4, <1>5, <2>1
<1>8. \A i, j \in 1..n + 1 :
        t[i].what = "New Request" /\ t[j].what = "New Request" /\ Same(t, i, j) => i = j
  <2>1. \A i, j \in 1..n :
          s[i].what = "New Request" /\ s[j].what = "New Request" /\ Same(s, i, j) => i = j
    BY <1>n DEF Ordered
  <2>. QED BY <1>0, <1>e, <1>1, <2>1 DEF Same
<1>9. \A i \in 1..n + 1 :
        t[i].what = "Body Data" =>
          \E j \in 1..n + 1 : t[j].what = "New Request" /\ Same(t, i, j) /\ j < i
  <2>1. \A i \in 1..n :
          s[i].what = "Body Data" =>
            \E j \in 1..n : s[j].what = "New Request" /\ Same(s, i, j) /\ j < i
    BY <1>n DEF Ordered
  <2>2. ASSUME NEW i \in 1..n + 1, t[i].what = "Body Data"
        PROVE  \E j \in 1..n + 1 : t[j].what = "New Request" /\ Same(t, i, j) /\ j < i
    <3>1. i \in 1..n BY <1>0, <1>e, <1>1, <2>2
    <3>2. PICK j \in 1..n : s[j].what = "New Request" /\ Same(s, i, j) /\ j < i
      BY <1>0, <1>e, <2>1, <2>2, <3>1
    <3>. QED BY <1>0, <1>e, <1>2, <3>1, <3>2 DEF Same
  <2>. QED BY <2>2
<1>10. \A i, j \in 1..n + 1 : t[i].what = "Request Ended" /\ Same(t, i, j) => j <= i
  <2>1. \A i, j \in 1..n : s[i].what = "Request Ended" /\ Same(s, i, j) => j <= i
    BY <1>n DEF Ordered
  <2>2. \A i \in 1..n : s[i].what = "Request Ended" => s[i].request < r
    BY <1>n DEF Ordered
  <2>3. \A i \in 1..n : s[i].what = "Request Ended" => s[i].request # r
    BY <1>4, <1>5, <2>2
  <2>. QED BY <1>0, <1>e, <1>1, <1>2, <1>3, <2>1, <2>3 DEF Same
<1>11. \A i \in 1..n + 1 :
         t[i].what = "Request Ended" =>
           t[i].request < r + 1
           /\ \E j \in 1..n + 1 : t[j].what = "New Request" /\ Same(t, i, j)
  <2>1. \A i \in 1..n :
          s[i].what = "Request Ended" =>
            \E j \in 1..n : s[j].what = "New Request" /\ Same(s, i, j)
    BY <1>n DEF Ordered
  <2>2. ASSUME NEW i \in 1..n, t[i].what = "Request Ended"
        PROVE  \E j \in 1..n + 1 : t[j].what = "New Request" /\ Same(t, i, j)
    <3>1. PICK j \in 1..n : s[j].what = "New Request" /\ Same(s, i, j) BY <1>0, <1>e, <2>1, <2>2
    <3>. QED BY <1>0, <1>e, <1>2, <3>1 DEF Same
  <2>3. \E j \in 1..n + 1 : t[j].what = "New Request" /\ Same(t, n + 1, j)
    <3>1. PICK j \in 1..n : s[j].what = "New Request" /\ s[j].request = r
      BY <1>n DEF Ordered
    <3>. QED BY <1>0, <1>e, <1>2, <3>1 DEF Same
  <2>4. \A i \in 1..n + 1 : t[i].request < r + 1 BY <1>0, <1>e, <1>1, <1>4, <1>5
  <2>. QED BY <1>1, <2>2, <2>3, <2>4
<1>12. \A i \in 1..n + 1 :
         t[i].what = "New Request" /\ t[i].request < r + 1 =>
           \E j \in 1..n + 1 : t[j].what = "Request Ended" /\ Same(t, i, j)
  <2>1. \A i \in 1..n :
          s[i].what = "New Request" /\ s[i].request < r =>
            \E j \in 1..n : s[j].what = "Request Ended" /\ Same(s, i, j)
    BY <1>n DEF Ordered
  <2>2. ASSUME NEW i \in 1..n + 1, t[i].what = "New Request"
        PROVE  \E j \in 1..n + 1 : t[j].what = "Request Ended" /\ Same(t, i, j)
    <3>1. i \in 1..n BY <1>0, <1>e, <1>1, <2>2
    <3>2. CASE s[i].request = r BY <1>0, <1>e, <1>3, <3>1, <3>2 DEF Same
    <3>3. CASE s[i].request # r
      <4>1. s[i].request < r BY <1>4, <1>5, <3>1, <3>3
      <4>2. PICK j \in 1..n : s[j].what = "Request Ended" /\ Same(s, i, j)
        BY <1>0, <1>e, <2>1, <2>2, <3>1, <4>1
      <4>. QED BY <1>0, <1>e, <1>2, <3>1, <4>2 DEF Same
    <3>. QED BY <3>2, <3>3
  <2>. QED BY <2>2
<1>13. ~ \E i \in 1..n + 1 : t[i].what = "New Request" /\ t[i].request = r + 1
  BY <1>0, <1>e, <1>1, <1>4, <1>5
<1>14. Len(t) = n + 1 BY <1>0
<1>15. Ordered(t, r + 1, FALSE)
  BY ONLY <1>6, <1>7, <1>8, <1>9, <1>10, <1>11, <1>12, <1>13, <1>14 DEF Ordered
<1>. QED BY <1>15, <1>t

LEMMA PacketIs ==
  \A what, bytes : /\ Packet(what, bytes).what = what
                   /\ Packet(what, bytes).request = request
                   /\ Packet(what, bytes).bytes = bytes
BY DEF Packet

LEMMA ChannelsAre ==
  /\ "New Request" \in Channels /\ "Body Data" \in Channels
  /\ "Request Ended" \in Channels /\ "error" \in Channels
BY DEF Channels

LEMMA ToldTypes ==
  ASSUME ExtractorTypes
  PROVE  /\ told \in Seq(Packets) /\ request \in Nat /\ sentHeaders \in BOOLEAN
         /\ \A bytes \in Seq(Byte), what \in Channels : Packet(what, bytes) \in Packets
         /\ \A i \in 1..Len(told) : told[i] \in Packets
<1>1. told \in Seq(Packets) /\ sentHeaders \in BOOLEAN BY DEF ExtractorTypes
<1>2. request \in Nat BY BoundsAssumption DEF ExtractorTypes
<1>3. \A i \in 1..Len(told) : told[i] \in Packets BY <1>1, ElementOfSeq
<1>. QED BY <1>1, <1>2, <1>3, PacketType

LEMMA ReceiveOrder ==
  ASSUME ExtractorTypes, OrderInv, NEW x, IsPiece(x), Handles(x)
  PROVE  OrderInv'
<1>0. /\ told \in Seq(Packets) /\ request \in Nat /\ sentHeaders \in BOOLEAN
      /\ \A bytes \in Seq(Byte), what \in Channels : Packet(what, bytes) \in Packets
  BY ToldTypes
<1>1. /\ x \in Seq(Byte) /\ Got' \in Seq(Byte) /\ Len(Got') < SizeMax /\ request' = request
      /\ <<>> \in Seq(Byte)
  BY GotIs, CatType DEF IsPiece
<1>2. Ordered(told, request, sentHeaders) BY DEF OrderInv
<1>q. PICK q : q = Packet("error", <<>>)
  OBVIOUS
<1>3. q \in Packets /\ q.request = request /\ q.what = "error"
  BY <1>0, <1>1, <1>q, PacketIs, ChannelsAre
<1>4. ASSUME told' = Append(told, q), sentHeaders' = sentHeaders PROVE OrderInv'
  <2>1. MayFollow(q, sentHeaders, sentHeaders) BY <1>3 DEF MayFollow
  <2>2. Ordered(Append(told, q), request, sentHeaders)
    BY <1>0, <1>2, <1>3, <2>1, AppendOrdered
  <2>. QED BY <1>1, <1>4, <2>2 DEF OrderInv
<1>5. CASE Passes(x)
  <2>p. PICK p : p = Packet("Body Data", x)
    OBVIOUS
  <2>1. p \in Packets /\ p.request = request /\ p.what = "Body Data"
    BY <1>0, <1>1, <2>p, PacketIs, ChannelsAre
  <2>2. sentHeaders /\ told' = Append(told, p) /\ sentHeaders' = sentHeaders
    BY <1>5, <2>p DEF Passes
  <2>3. MayFollow(p, sentHeaders, sentHeaders) BY <2>1, <2>2 DEF MayFollow
  <2>4. Ordered(Append(told, p), request, sentHeaders)
    BY <1>0, <1>2, <2>1, <2>3, AppendOrdered
  <2>. QED BY <1>1, <2>2, <2>4 DEF OrderInv
<1>6. CASE Waits BY <1>1, <1>2, <1>6 DEF Waits, OrderInv
<1>7. CASE Fails BY <1>4, <1>7, <1>q DEF Fails
<1>8. CASE Rejects BY <1>4, <1>8, <1>q DEF Rejects
<1>9. CASE Announces
  <2>a. PICK a : a = Announcement(Got')
    OBVIOUS
  <2>p. PICK p : p = Packet("Body Data", Rest(Got', Got))
    OBVIOUS
  <2>1. Ends(Got') # {} BY <1>9 DEF Announces, ReadableOf
  <2>2. a \in Packets BY <1>1, <2>1, <2>a, AnnouncementType
  <2>3. a.request = request /\ a.what = "New Request" BY <2>a, PacketIs DEF Announcement
  <2>4. p \in Packets /\ p.request = request /\ p.what = "Body Data"
    <3>1. Rest(Got', Got) \in Seq(Byte) BY <1>1, <2>1, RestType
    <3>. QED BY <1>0, <2>p, <3>1, PacketIs, ChannelsAre
  <2>5. /\ ~sentHeaders /\ sentHeaders' = TRUE
        /\ \/ told' = Append(told, a) \/ told' = Append(Append(told, a), p)
           \/ told' = Append(Append(told, a), q)
    BY <1>9, <1>q, <2>a, <2>p DEF Announces
  <2>t. PICK t : t = Append(told, a)
    OBVIOUS
  <2>6. t \in Seq(Packets) BY <1>0, <2>2, <2>t, AppendProperties
  <2>7. Ordered(t, request, TRUE)
    <3>1. MayFollow(a, sentHeaders, TRUE) BY <2>3, <2>5 DEF MayFollow
    <3>. QED BY <1>0, <1>2, <2>2, <2>3, <2>t, <3>1, AppendOrdered
  <2>8. Ordered(Append(t, p), request, TRUE)
    <3>1. MayFollow(p, TRUE, TRUE) BY <2>4 DEF MayFollow
    <3>. QED BY <1>0, <2>4, <2>6, <2>7, <3>1, AppendOrdered
  <2>9. Ordered(Append(t, q), request, TRUE)
    <3>1. MayFollow(q, TRUE, TRUE) BY <1>3 DEF MayFollow
    <3>. QED BY <1>0, <1>3, <2>6, <2>7, <3>1, AppendOrdered
  <2>. QED BY <1>1, <2>5, <2>7, <2>8, <2>9, <2>t DEF OrderInv
<1>. QED BY <1>5, <1>6, <1>7, <1>8, <1>9 DEF Handles

LEMMA DestroyOrder ==
  ASSUME ExtractorTypes, OrderInv, Destroy
  PROVE  OrderInv'
<1>0. /\ told \in Seq(Packets) /\ request \in Nat /\ sentHeaders \in BOOLEAN
      /\ \A bytes \in Seq(Byte), what \in Channels : Packet(what, bytes) \in Packets
  BY ToldTypes
<1>1. /\ request' = request + 1 /\ sentHeaders' = FALSE
      /\ sentHeaders => told' = Append(told, Packet("Request Ended", <<>>))
      /\ ~sentHeaders => told' = told
  BY DestroyIs
<1>2. CASE sentHeaders
  <2>p. PICK p : p = Packet("Request Ended", <<>>)
    OBVIOUS
  <2>1. <<>> \in Seq(Byte) OBVIOUS
  <2>2. p \in Packets /\ EndsRequest(p, request)
    BY <1>0, <2>1, <2>p, PacketIs, ChannelsAre DEF EndsRequest
  <2>3. Ordered(told, request, TRUE) BY <1>0, <1>2 DEF OrderInv
  <2>4. Ordered(Append(told, p), request + 1, FALSE) BY <1>0, <2>2, <2>3, EndOrdered
  <2>. QED BY <1>1, <1>2, <2>4, <2>p DEF OrderInv
<1>3. CASE ~sentHeaders
  <2>1. Ordered(told, request, FALSE) BY <1>0, <1>3 DEF OrderInv
  <2>2. Ordered(told, request + 1, FALSE) BY <1>0, <2>1, SkipOrdered
  <2>. QED BY <1>1, <1>3, <2>2 DEF OrderInv
<1>. QED BY <1>2, <1>3

LEMMA InitOrder == InitAll => OrderInv
<1>1. SUFFICES ASSUME InitAll PROVE OrderInv
  OBVIOUS
<1>2. told = <<>> /\ request = 1 /\ sentHeaders = FALSE BY <1>1 DEF InitAll, Init
<1>3. \A i \in 1..Len(<<>>) : FALSE OBVIOUS
<1>4. Ordered(<<>>, 1, FALSE) BY ONLY <1>3 DEF Ordered
<1>. QED BY <1>2, <1>4 DEF OrderInv

LEMMA NextOrder == TypeInv /\ OrderInv /\ [Next]_vars => OrderInv'
<1>1. SUFFICES ASSUME TypeInv, OrderInv, [Next]_vars PROVE OrderInv'
  OBVIOUS
<1>0. ExtractorTypes BY <1>1 DEF TypeInv
<1>2. CASE Receive
  <2>1. PICK x : IsPiece(x) /\ Handles(x) BY <1>0, <1>2, ReceiveIs
  <2>. QED BY <1>0, <1>1, <2>1, ReceiveOrder
<1>3. CASE Destroy BY <1>0, <1>1, <1>3, DestroyOrder
<1>4. CASE UNCHANGED extractorVars BY <1>1, <1>4 DEF OrderInv, extractorVars, peer
<1>5. UNCHANGED vars => UNCHANGED extractorVars BY DEF vars
<1>6. Deliver => UNCHANGED extractorVars BY DEF Deliver
<1>. QED BY <1>1, <1>2, <1>3, <1>4, <1>5, <1>6 DEF Next, ExtractorNext

LEMMA AlwaysOrderInv == Spec => []OrderInv
BY InitTypes, NextTypes, InitOrder, NextOrder, PTL DEF Spec

LEMMA OrderInvImplies ==
  ASSUME ExtractorTypes, OrderInv
  PROVE  ToldInOrder
<1>0. told \in Seq(Packets) /\ DOMAIN told = 1..Len(told) /\ request \in Nat
  BY ToldTypes
<1>1. SUFFICES ASSUME NEW n \in 1..request
               PROVE  LET order == [i \in DOMAIN told |-> <<told[i].request, told[i].what>>]
                          At(what) == {i \in DOMAIN told : order[i] = <<n, what>>}
                      IN  /\ \A i, j \in At("New Request") : i = j
                          /\ \A i \in At("Body Data") : \E j \in At("New Request") : j < i
                          /\ \A i \in At("Request Ended") : \A j \in DOMAIN told :
                               told[j].request = n => j <= i
                          /\ At("Request Ended") # {} <=> n < request /\ At("New Request") # {}
  BY DEF ToldInOrder
<1>. DEFINE order == [i \in DOMAIN told |-> <<told[i].request, told[i].what>>]
            At(what) == {i \in DOMAIN told : order[i] = <<n, what>>}
            In(i, what) == told[i].request = n /\ told[i].what = what
<1>2. \A what : \A i : i \in At(what) <=> i \in 1..Len(told) /\ In(i, what)
  BY <1>0
<1>. HIDE DEF order, At
<1>3. Ordered(told, request, sentHeaders) BY DEF OrderInv
<1>4. \A i, j \in At("New Request") : i = j
  <2>1. \A i, j \in 1..Len(told) : In(i, "New Request") /\ In(j, "New Request") => i = j
    BY ZenonT(60), <1>3 DEF Ordered, Same
  <2>. QED BY ZenonT(60), <1>2, <2>1
<1>5. \A i \in At("Body Data") : \E j \in At("New Request") : j < i
  <2>1. ASSUME NEW i \in At("Body Data") PROVE \E j \in At("New Request") : j < i
    <3>1. i \in 1..Len(told) /\ In(i, "Body Data") BY <1>2
    <3>2. PICK j \in 1..Len(told) : told[j].what = "New Request" /\ Same(told, i, j) /\ j < i
      BY <1>3, <3>1 DEF Ordered
    <3>3. In(j, "New Request") BY <3>1, <3>2 DEF Same
    <3>. QED BY <1>2, <3>2, <3>3
  <2>. QED BY <2>1
<1>6. \A i \in At("Request Ended") : \A j \in DOMAIN told : told[j].request = n => j <= i
  <2>1. \A i, j \in 1..Len(told) :
          In(i, "Request Ended") /\ told[j].request = n => j <= i
    BY ZenonT(60), <1>3 DEF Ordered, Same
  <2>. QED BY <1>0, <1>2, <2>1
<1>7. At("Request Ended") # {} => n < request /\ At("New Request") # {}
  <2>1. ASSUME NEW i \in At("Request Ended") PROVE n < request /\ At("New Request") # {}
    <3>1. i \in 1..Len(told) /\ In(i, "Request Ended") BY <1>2
    <3>2. told[i].request < request BY <1>3, <3>1 DEF Ordered
    <3>3. PICK j \in 1..Len(told) : told[j].what = "New Request" /\ Same(told, i, j)
      BY <1>3, <3>1 DEF Ordered
    <3>4. j \in At("New Request") BY <1>2, <3>1, <3>3 DEF Same
    <3>. QED BY <3>1, <3>2, <3>4
  <2>. QED BY <2>1
<1>8. ASSUME n < request, At("New Request") # {} PROVE At("Request Ended") # {}
  <2>1. PICK i \in At("New Request") : TRUE BY <1>8
  <2>2. i \in 1..Len(told) /\ In(i, "New Request") BY <1>2, <2>1
  <2>3. told[i].request < request BY <1>8, <2>2
  <2>4. PICK j \in 1..Len(told) : told[j].what = "Request Ended" /\ Same(told, i, j)
    BY <1>3, <2>2, <2>3 DEF Ordered
  <2>5. j \in At("Request Ended") BY <1>2, <2>2, <2>4 DEF Same
  <2>. QED BY <2>5
<1>. QED BY <1>4, <1>5, <1>6, <1>7, <1>8 DEF order, At

(***************************************************************************)
(* Whatever throws and however the text was cut, a request is announced    *)
(* once, before its body, and ended once and last, if and only if it was   *)
(* announced and its connection is closed (mSentHeaders).                  *)
(***************************************************************************)
THEOREM InOrderOfRequest == Spec => []ToldInOrder
<1>1. TypeInv /\ OrderInv => ToldInOrder BY OrderInvImplies DEF TypeInv
<1>. QED BY <1>1, AlwaysTypeInv, AlwaysOrderInv, PTL

-----------------------------------------------------------------------------
(* What was told of a request on a channel. *)

IsPieceOf(p, n, what) == p.request = n /\ p.what = what

LEMMA PieceOfIs ==
  ASSUME NEW p \in Packets, NEW n, NEW what
  PROVE  /\ PieceOf(p, n, what) \in Seq(Seq(Byte)) /\ p.bytes \in Seq(Byte)
         /\ IsPieceOf(p, n, what) => PieceOf(p, n, what) = <<p.bytes>>
         /\ ~IsPieceOf(p, n, what) => PieceOf(p, n, what) = <<>>
BY DEF PieceOf, Packets, IsPieceOf

LEMMA PiecesType ==
  ASSUME NEW s \in Seq(Packets), NEW n, NEW what
  PROVE  /\ [i \in DOMAIN s |-> PieceOf(s[i], n, what)] \in Seq(Seq(Seq(Byte)))
         /\ Len([i \in DOMAIN s |-> PieceOf(s[i], n, what)]) = Len(s)
         /\ PiecesIn(s, n, what) \in Seq(Seq(Byte))
<1>f. PICK f : f = [i \in DOMAIN s |-> PieceOf(s[i], n, what)]
  OBVIOUS
<1>1. DOMAIN s = 1..Len(s) /\ Len(s) \in Nat OBVIOUS
<1>2. \A i \in 1..Len(s) : PieceOf(s[i], n, what) \in Seq(Seq(Byte))
  <2>1. \A i \in 1..Len(s) : s[i] \in Packets BY ElementOfSeq
  <2>. QED BY <2>1, PieceOfIs
<1>3. f \in [1..Len(s) -> Seq(Seq(Byte))] BY <1>1, <1>2, <1>f
<1>4. f \in Seq(Seq(Seq(Byte))) /\ Len(f) = Len(s) BY <1>1, <1>3
<1>5. FlattenSeq(f) \in Seq(Seq(Byte)) BY <1>4, FlattenType
<1>. QED BY <1>4, <1>5, <1>f DEF PiecesIn

LEMMA PiecesAppend ==
  ASSUME NEW s \in Seq(Packets), NEW p \in Packets, NEW n, NEW what
  PROVE  PiecesIn(Append(s, p), n, what) = Cat(PiecesIn(s, n, what), PieceOf(p, n, what))
<1>t. PICK t : t = Append(s, p)
  OBVIOUS
<1>f. PICK f : f = [i \in DOMAIN s |-> PieceOf(s[i], n, what)]
  OBVIOUS
<1>g. PICK g : g = [i \in DOMAIN t |-> PieceOf(t[i], n, what)]
  OBVIOUS
<1>y. PICK y : y = PieceOf(p, n, what)
  OBVIOUS
<1>0. /\ t \in Seq(Packets) /\ Len(t) = Len(s) + 1 /\ Len(s) \in Nat
      /\ (\A i \in 1..Len(s) : t[i] = s[i]) /\ t[Len(s) + 1] = p
  BY <1>t, AppendProperties
<1>1. f \in Seq(Seq(Seq(Byte))) /\ Len(f) = Len(s) BY <1>f, PiecesType
<1>2. g \in Seq(Seq(Seq(Byte))) /\ Len(g) = Len(t)
  <2>1. t \in Seq(Packets) BY <1>0
  <2>. QED BY <2>1, <1>g, PiecesType
<1>3. y \in Seq(Seq(Byte)) BY <1>y, PieceOfIs
<1>a. PICK a : a = Append(f, y)
  OBVIOUS
<1>4. /\ a \in Seq(Seq(Seq(Byte))) /\ Len(a) = Len(f) + 1
      /\ (\A i \in 1..Len(f) : a[i] = f[i]) /\ a[Len(f) + 1] = y
  BY <1>1, <1>3, <1>a, AppendProperties
<1>5. /\ \A i \in 1..Len(s) : f[i] = PieceOf(s[i], n, what)
      /\ \A i \in 1..Len(t) : g[i] = PieceOf(t[i], n, what)
  BY <1>0, <1>f, <1>g
<1>6. ASSUME NEW i \in 1..Len(g) PROVE g[i] = a[i]
  <2>1. i \in 1..Len(t) BY <1>2
  <2>2. CASE i \in 1..Len(s) BY <1>0, <1>1, <1>4, <1>5, <2>1, <2>2
  <2>3. CASE ~ (i \in 1..Len(s))
    <3>1. i = Len(s) + 1 BY <1>0, <2>1, <2>3
    <3>2. g[i] = y BY <1>0, <1>5, <1>y, <2>1, <3>1
    <3>. QED BY <1>1, <1>4, <3>1, <3>2
  <2>. QED BY <2>2, <2>3
<1>7. Len(g) = Len(a) BY <1>0, <1>1, <1>2, <1>4
<1>8. g = a BY <1>2, <1>4, <1>6, <1>7, SeqEqual
<1>9. FlattenSeq(a) = Cat(FlattenSeq(f), y) BY <1>1, <1>3, <1>a, FlattenAppend
<1>. QED BY <1>8, <1>9, <1>f, <1>g, <1>t, <1>y DEF PiecesIn

LEMMA PiecesStep ==
  ASSUME NEW s \in Seq(Packets), NEW p \in Packets, NEW n, NEW what
  PROVE  /\ ~IsPieceOf(p, n, what) => PiecesIn(Append(s, p), n, what) = PiecesIn(s, n, what)
         /\ IsPieceOf(p, n, what) =>
              /\ PiecesIn(Append(s, p), n, what) = Append(PiecesIn(s, n, what), p.bytes)
              /\ FlattenSeq(PiecesIn(Append(s, p), n, what))
                   = Cat(FlattenSeq(PiecesIn(s, n, what)), p.bytes)
<1>a. PICK a : a = PiecesIn(s, n, what)
  OBVIOUS
<1>1. PiecesIn(Append(s, p), n, what) = Cat(a, PieceOf(p, n, what)) BY <1>a, PiecesAppend
<1>2. a \in Seq(Seq(Byte)) BY <1>a, PiecesType
<1>3. CASE ~IsPieceOf(p, n, what)
  <2>1. Cat(a, <<>>) = a BY <1>2, CatEmpty
  <2>2. PieceOf(p, n, what) = <<>> BY <1>3, PieceOfIs
  <2>. QED BY <1>1, <1>3, <1>a, <2>1, <2>2
<1>4. CASE IsPieceOf(p, n, what)
  <2>1. PieceOf(p, n, what) = <<p.bytes>> /\ p.bytes \in Seq(Byte) BY <1>4, PieceOfIs
  <2>2. Cat(a, <<p.bytes>>) = Append(a, p.bytes) BY <1>2, <2>1, AppendIsConcat DEF Cat
  <2>3. FlattenSeq(Append(a, p.bytes)) = Cat(FlattenSeq(a), p.bytes)
    BY <1>2, <2>1, FlattenAppend
  <2>. QED BY <1>1, <1>4, <1>a, <2>1, <2>2, <2>3
<1>. QED BY <1>3, <1>4

LEMMA PrefixStep ==
  ASSUME NEW s \in Seq(Packets), NEW d \in Nat, d + 1 <= Len(s)
  PROVE  /\ SubSeq(s, 1, d) \in Seq(Packets)
         /\ SubSeq(s, 1, d + 1) = Append(SubSeq(s, 1, d), s[d + 1])
         /\ s[d + 1] \in Packets
<1>1. d + 1 \in 1..Len(s) /\ 1 \in 1..Len(s) /\ d + 1 \in 1..Len(s) /\ (d + 1) - 1 = d
      /\ Len(s) \in Nat /\ d <= Len(s)
  OBVIOUS
<1>2. s[d + 1] \in Packets BY <1>1, ElementOfSeq
<1>3. SubSeq(s, 1, d) \in Seq(Packets)
  <2>1. \A i \in 1..d : s[i] \in Packets
    <3>1. \A i \in 1..d : i \in 1..Len(s) BY <1>1
    <3>. QED BY <3>1, ElementOfSeq
  <2>. QED BY <2>1, SubSeqProperties
<1>4. SubSeq(s, 1, d + 1) = SubSeq(s, 1, d) \o <<s[d + 1]>>
  <2>1. d + 1 \in 1..Len(s) BY <1>1
  <2>2. SubSeq(s, 1, d + 1) = SubSeq(s, 1, (d + 1) - 1) \o <<s[d + 1]>>
    BY <1>1, <2>1, SubSeqRecursiveSecond
  <2>. QED BY <1>1, <2>2
<1>5. Append(SubSeq(s, 1, d), s[d + 1]) = SubSeq(s, 1, d) \o <<s[d + 1]>>
  BY <1>2, <1>3, AppendIsConcat
<1>. QED BY <1>2, <1>3, <1>4, <1>5

\* Packets after which there is none of a request on a channel.
LEMMA PiecesNoMore ==
  ASSUME NEW s \in Seq(Packets), NEW n, NEW what, NEW d \in 0..Len(s),
         \A i \in 1..Len(s) : d < i => ~IsPieceOf(s[i], n, what)
  PROVE  PiecesIn(s, n, what) = PiecesIn(SubSeq(s, 1, d), n, what)
<1>a. PICK a : a = PiecesIn(SubSeq(s, 1, d), n, what)
  OBVIOUS
<1>. DEFINE S == {k \in Nat : k <= Len(s) /\ d <= k =>
                     PiecesIn(SubSeq(s, 1, k), n, what) = a}
<1>0. Len(s) \in Nat /\ d \in Nat /\ d <= Len(s) OBVIOUS
<1>1. 0 \in S
  <2>1. d <= 0 => d = 0 BY <1>0
  <2>. QED BY <1>a, <2>1
<1>2. ASSUME NEW k \in Nat, k \in S PROVE k + 1 \in S
  <2>1. CASE k + 1 <= Len(s) /\ d <= k
    <3>1. /\ SubSeq(s, 1, k) \in Seq(Packets) /\ s[k + 1] \in Packets
          /\ SubSeq(s, 1, k + 1) = Append(SubSeq(s, 1, k), s[k + 1])
      BY <2>1, PrefixStep
    <3>2. ~IsPieceOf(s[k + 1], n, what)
      <4>1. k + 1 \in 1..Len(s) /\ d < k + 1 BY <1>0, <2>1
      <4>. QED BY <4>1
    <3>3. PiecesIn(SubSeq(s, 1, k), n, what) = a
      <4>1. k <= Len(s) /\ d <= k BY <1>0, <2>1
      <4>. QED BY <1>2, <4>1
    <3>4. PiecesIn(SubSeq(s, 1, k + 1), n, what) = a
      <4>b. PICK b : b = SubSeq(s, 1, k)
        OBVIOUS
      <4>p. PICK p : p = s[k + 1]
        OBVIOUS
      <4>1. b \in Seq(Packets) /\ p \in Packets /\ ~IsPieceOf(p, n, what)
        BY <3>1, <3>2, <4>b, <4>p
      <4>2. PiecesIn(Append(b, p), n, what) = PiecesIn(b, n, what) BY <4>1, PiecesStep
      <4>. QED BY <3>1, <3>3, <4>2, <4>b, <4>p
    <3>5. k + 1 \in Nat OBVIOUS
    <3>. QED BY <3>4, <3>5
  <2>2. CASE k + 1 <= Len(s) /\ d = k + 1
    <3>1. PiecesIn(SubSeq(s, 1, k + 1), n, what) = a BY <1>a, <2>2
    <3>2. k + 1 \in Nat OBVIOUS
    <3>. QED BY <3>1, <3>2
  <2>3. CASE ~ (k + 1 <= Len(s) /\ d <= k + 1)
    <3>1. k + 1 \in Nat OBVIOUS
    <3>. QED BY <2>3, <3>1
  <2>4. d <= k + 1 => d <= k \/ d = k + 1 BY <1>0
  <2>. QED BY <2>1, <2>2, <2>3, <2>4
<1>. HIDE DEF S
<1>3. Len(s) \in S BY <1>0, <1>1, <1>2, NatSetInduction
<1>4. PiecesIn(SubSeq(s, 1, Len(s)), n, what) = a
  <2>1. Len(s) <= Len(s) BY <1>0
  <2>. QED BY <1>0, <1>3, <2>1 DEF S
<1>5. SubSeq(s, 1, Len(s)) = s BY SubSeqFull
<1>. QED BY <1>4, <1>5, <1>a

LEMMA PiecesNone ==
  ASSUME NEW s \in Seq(Packets), NEW n, NEW what,
         \A i \in 1..Len(s) : ~IsPieceOf(s[i], n, what)
  PROVE  PiecesIn(s, n, what) = <<>>
<1>1. 0 \in 0..Len(s) OBVIOUS
<1>2. PiecesIn(s, n, what) = PiecesIn(SubSeq(s, 1, 0), n, what) BY <1>1, PiecesNoMore
<1>3. SubSeq(s, 1, 0) = <<>> BY SubSeqEmpty
<1>4. [i \in DOMAIN <<>> |-> PieceOf(<<>>[i], n, what)] = <<>>
  <2>1. DOMAIN <<>> = 1..0 OBVIOUS
  <2>2. \A f : f = [i \in 1..0 |-> PieceOf(<<>>[i], n, what)] => f = <<>> OBVIOUS
  <2>. QED BY <2>1, <2>2
<1>. QED BY <1>2, <1>3, <1>4, FlattenEmpty DEF PiecesIn

\* What is told of other requests stays.
LEMMA PiecesStay ==
  ASSUME ExtractorTypes, ToldGrows, NEW n, n # request, NEW what
  PROVE  PiecesIn(told', n, what) = PiecesIn(told, n, what)
<1>0. told \in Seq(Packets) BY ToldTypes
<1>1. CASE told' = told BY <1>1
<1>2. ASSUME NEW p \in Packets, p.request = request, told' = Append(told, p)
      PROVE  PiecesIn(told', n, what) = PiecesIn(told, n, what)
  <2>1. ~IsPieceOf(p, n, what) BY <1>2 DEF IsPieceOf
  <2>. QED BY <1>0, <1>2, <2>1, PiecesStep
<1>3. ASSUME NEW p \in Packets, NEW q \in Packets, p.request = request, q.request = request,
             told' = Append(Append(told, p), q)
      PROVE  PiecesIn(told', n, what) = PiecesIn(told, n, what)
  <2>1. ~IsPieceOf(p, n, what) /\ ~IsPieceOf(q, n, what) BY <1>3 DEF IsPieceOf
  <2>t. PICK t : t = Append(told, p)
    OBVIOUS
  <2>2. t \in Seq(Packets) BY <1>0, <2>t, AppendProperties
  <2>3. PiecesIn(t, n, what) = PiecesIn(told, n, what)
    BY <1>0, <2>1, <2>t, PiecesStep
  <2>4. PiecesIn(Append(t, q), n, what) = PiecesIn(t, n, what) BY <2>1, <2>2, PiecesStep
  <2>. QED BY <1>3, <2>3, <2>4, <2>t
<1>. QED BY <1>1, <1>2, <1>3 DEF ToldGrows

-----------------------------------------------------------------------------
(* What is told of the current request, and what was received. *)

LEMMA EmptySubsequence ==
  ASSUME NEW B, NEW b \in Seq(B)
  PROVE  IsSubsequence(<<>>, b)
<1>f. PICK f : f = [i \in 1..0 |-> 1]
  OBVIOUS
<1>1. DOMAIN <<>> = 1..0 /\ \A i \in 1..0 : FALSE OBVIOUS
<1>2. f \in [DOMAIN <<>> -> DOMAIN b] BY <1>1, <1>f
<1>. QED BY <1>1, <1>2 DEF IsSubsequence

LEMMA SubsequenceGrows ==
  ASSUME NEW B, NEW a \in Seq(B), NEW b \in Seq(B), NEW x \in Seq(B), IsSubsequence(a, b)
  PROVE  IsSubsequence(a, Cat(b, x))
<1>c. PICK c : c = Cat(b, x)
  OBVIOUS
<1>0. c \in Seq(B) /\ Places(c, b, x) BY <1>c, CatType, CatPlaces
<1>1. /\ DOMAIN b = 1..Len(b) /\ DOMAIN c = 1..Len(c) /\ Len(b) \in Nat /\ Len(x) \in Nat
      /\ Len(c) = Len(b) + Len(x) /\ \A i \in 1..Len(b) : c[i] = b[i]
  BY <1>0 DEF Places
<1>2. PICK at \in [DOMAIN a -> DOMAIN b] :
        /\ \A i \in DOMAIN a : a[i] = b[at[i]]
        /\ \A i, j \in DOMAIN a : i < j => at[i] < at[j]
  BY DEF IsSubsequence
<1>3. DOMAIN b \subseteq DOMAIN c BY <1>1
<1>4. at \in [DOMAIN a -> DOMAIN c] BY <1>3
<1>5. \A i \in DOMAIN a : a[i] = c[at[i]] BY <1>1, <1>2
<1>. QED BY <1>2, <1>4, <1>5, <1>c DEF IsSubsequence

LEMMA SubsequenceExtends ==
  ASSUME NEW B, NEW a \in Seq(B), NEW b \in Seq(B), NEW x \in Seq(B), IsSubsequence(a, b)
  PROVE  IsSubsequence(Cat(a, x), Cat(b, x))
<1>c. PICK c : c = Cat(a, x)
  OBVIOUS
<1>d. PICK d : d = Cat(b, x)
  OBVIOUS
<1>0. c \in Seq(B) /\ Places(c, a, x) /\ d \in Seq(B) /\ Places(d, b, x)
  BY <1>c, <1>d, CatType, CatPlaces
<1>m. PICK m : m = Len(a)
  OBVIOUS
<1>n. PICK n : n = Len(b)
  OBVIOUS
<1>l. PICK l : l = Len(x)
  OBVIOUS
<1>1. /\ DOMAIN a = 1..m /\ DOMAIN b = 1..n /\ DOMAIN c = 1..m + l /\ DOMAIN d = 1..n + l
      /\ m \in Nat /\ n \in Nat /\ l \in Nat
      /\ (\A i \in 1..m : c[i] = a[i]) /\ (\A i \in 1..l : c[m + i] = x[i])
      /\ (\A i \in 1..n : d[i] = b[i]) /\ (\A i \in 1..l : d[n + i] = x[i])
  BY <1>0, <1>l, <1>m, <1>n DEF Places
<1>2. PICK at \in [1..m -> 1..n] :
        /\ \A i \in 1..m : a[i] = b[at[i]]
        /\ \A i, j \in 1..m : i < j => at[i] < at[j]
  BY <1>1 DEF IsSubsequence
<1>f. PICK f : f = [i \in 1..m + l |-> IF i <= m THEN at[i] ELSE n + (i - m)]
  OBVIOUS
<1>3. \A i \in 1..m + l : i \in 1..m \/ (~ (i <= m) /\ i - m \in 1..l /\ i = m + (i - m))
  BY <1>1
<1>4. \A i \in 1..m : i <= m /\ i \in 1..m + l BY <1>1
<1>5. \A k \in 1..l : n + k \in 1..n + l /\ n < n + k BY <1>1
<1>6. \A k \in 1..n : k \in 1..n + l /\ k \in Nat /\ k <= n BY <1>1
<1>7. \A i \in 1..m : f[i] = at[i] /\ at[i] \in 1..n BY <1>4, <1>f
<1>8. \A i \in 1..m + l : ~ (i <= m) => f[i] = n + (i - m) BY <1>f
<1>9. f \in [1..m + l -> 1..n + l]
  <2>1. ASSUME NEW i \in 1..m + l PROVE f[i] \in 1..n + l
    <3>1. CASE i \in 1..m BY ONLY <1>6, <1>7, <3>1
    <3>2. CASE ~ (i \in 1..m)
      <4>1. ~ (i <= m) /\ i - m \in 1..l BY <1>3, <3>2
      <4>. QED BY ONLY <1>5, <1>8, <4>1, i \in 1..m + l
    <3>. QED BY ONLY <3>1, <3>2
  <2>. QED BY <1>f, <2>1
<1>10. \A i \in 1..m + l : c[i] = d[f[i]]
  <2>1. ASSUME NEW i \in 1..m + l PROVE c[i] = d[f[i]]
    <3>1. CASE i \in 1..m BY <1>1, <1>2, <1>7, <3>1
    <3>2. CASE ~ (i \in 1..m)
      <4>1. ~ (i <= m) /\ i - m \in 1..l /\ i = m + (i - m) BY <1>3, <3>2
      <4>k. PICK k : k = i - m
        OBVIOUS
      <4>2. f[i] = n + k BY <1>8, <4>1, <4>k
      <4>3. c[i] = x[k] /\ d[n + k] = x[k] BY <1>1, <4>1, <4>k
      <4>. QED BY <4>2, <4>3
    <3>. QED BY <3>1, <3>2
  <2>. QED BY <2>1
<1>11. \A i, j \in 1..m + l : i < j => f[i] < f[j]
  <2>1. ASSUME NEW i \in 1..m + l, NEW j \in 1..m + l, i < j PROVE f[i] < f[j]
    <3>1. CASE j <= m
      <4>1. i \in 1..m /\ j \in 1..m BY <1>1, <2>1, <3>1
      <4>. QED BY <1>2, <1>7, <2>1, <4>1
    <3>2. CASE i <= m /\ ~ (j <= m)
      <4>1. i \in 1..m BY <1>1, <3>2
      <4>2. f[i] \in Nat /\ f[i] <= n BY <1>6, <1>7, <4>1
      <4>k. PICK k : k = j - m
        OBVIOUS
      <4>3. k \in 1..l /\ f[j] = n + k BY <1>3, <1>8, <3>2, <4>k
      <4>. QED BY <1>1, <4>2, <4>3
    <3>3. CASE ~ (i <= m) /\ ~ (j <= m)
      <4>1. f[i] = n + (i - m) /\ f[j] = n + (j - m) BY <1>8, <3>3
      <4>. QED BY <1>1, <2>1, <4>1
    <3>4. i <= m \/ ~ (i <= m) OBVIOUS
    <3>. QED BY <3>1, <3>2, <3>3
  <2>. QED BY <2>1
<1>12. IsSubsequence(c, d) BY ZenonT(60), <1>1, <1>9, <1>10, <1>11 DEF IsSubsequence
<1>. QED BY <1>12, <1>c, <1>d

LEMMA SubsequenceOfItself ==
  ASSUME NEW B, NEW x \in Seq(B)
  PROVE  IsSubsequence(x, x)
<1>1. <<>> \in Seq(B) OBVIOUS
<1>2. IsSubsequence(<<>>, <<>>) BY <1>1, EmptySubsequence
<1>3. IsSubsequence(Cat(<<>>, x), Cat(<<>>, x)) BY <1>1, <1>2, SubsequenceExtends
<1>4. Cat(<<>>, x) = x BY CatEmpty
<1>. QED BY <1>3, <1>4

BodyTold(s, n) == FlattenSeq(PiecesIn(s, n, "Body Data"))

\* Packets s, when c was received of request n, and announced or not.
Passed(s, n, c, announced, clean) ==
  /\ ~announced =>
       /\ PiecesIn(s, n, "New Request") = <<>>
       /\ PiecesIn(s, n, "Body Data") = <<>>
       /\ clean => ~ReadableOf(c)
  /\ announced =>
       /\ ReadableOf(c)
       /\ PiecesIn(s, n, "New Request") = <<Flat(HeaderLine(TextOf(c)))>>
       /\ IsSubsequence(BodyTold(s, n), BodyOf(c))
       /\ clean => BodyTold(s, n) = BodyOf(c)

BodyInv == Passed(told, request, Got, sentHeaders, throws = 0)

LEMMA BodyToldType ==
  ASSUME NEW s \in Seq(Packets), NEW n
  PROVE  BodyTold(s, n) \in Seq(Byte)
BY PiecesType, FlattenType DEF BodyTold

\* Errors are neither announcements nor body data.
LEMMA ErrorTold ==
  ASSUME NEW s \in Seq(Packets), NEW q \in Packets, q.what = "error", NEW n
  PROVE  /\ PiecesIn(Append(s, q), n, "New Request") = PiecesIn(s, n, "New Request")
         /\ PiecesIn(Append(s, q), n, "Body Data") = PiecesIn(s, n, "Body Data")
         /\ BodyTold(Append(s, q), n) = BodyTold(s, n)
<1>1. ~IsPieceOf(q, n, "New Request") /\ ~IsPieceOf(q, n, "Body Data") BY DEF IsPieceOf
<1>p. ASSUME NEW w, ~IsPieceOf(q, n, w)
      PROVE  PiecesIn(Append(s, q), n, w) = PiecesIn(s, n, w)
  BY ONLY <1>p, PiecesStep, s \in Seq(Packets), q \in Packets
<1>2. PiecesIn(Append(s, q), n, "New Request") = PiecesIn(s, n, "New Request")
  BY ONLY <1>1, <1>p
<1>3. PiecesIn(Append(s, q), n, "Body Data") = PiecesIn(s, n, "Body Data")
  BY ONLY <1>1, <1>p
<1>. QED BY <1>2, <1>3 DEF BodyTold

LEMMA BodyDataTold ==
  ASSUME NEW s \in Seq(Packets), NEW p \in Packets, p.what = "Body Data", NEW n,
         p.request = n
  PROVE  /\ PiecesIn(Append(s, p), n, "New Request") = PiecesIn(s, n, "New Request")
         /\ BodyTold(Append(s, p), n) = Cat(BodyTold(s, n), p.bytes)
<1>1. ~IsPieceOf(p, n, "New Request") /\ IsPieceOf(p, n, "Body Data") BY DEF IsPieceOf
<1>p. ASSUME NEW w, ~IsPieceOf(p, n, w)
      PROVE  PiecesIn(Append(s, p), n, w) = PiecesIn(s, n, w)
  BY ONLY <1>p, PiecesStep, s \in Seq(Packets), p \in Packets
<1>q. ASSUME NEW w, IsPieceOf(p, n, w)
      PROVE  /\ PiecesIn(Append(s, p), n, w) = Append(PiecesIn(s, n, w), p.bytes)
             /\ FlattenSeq(PiecesIn(Append(s, p), n, w))
                  = Cat(FlattenSeq(PiecesIn(s, n, w)), p.bytes)
  BY ONLY <1>q, PiecesStep, s \in Seq(Packets), p \in Packets
<1>2. PiecesIn(Append(s, p), n, "New Request") = PiecesIn(s, n, "New Request")
  BY ONLY <1>1, <1>p
<1>3. FlattenSeq(PiecesIn(Append(s, p), n, "Body Data"))
        = Cat(FlattenSeq(PiecesIn(s, n, "Body Data")), p.bytes)
  BY ONLY <1>1, <1>q
<1>. QED BY <1>2, <1>3 DEF BodyTold

LEMMA NewRequestTold ==
  ASSUME NEW s \in Seq(Packets), NEW a \in Packets, a.what = "New Request", NEW n,
         a.request = n
  PROVE  /\ PiecesIn(Append(s, a), n, "New Request")
              = Append(PiecesIn(s, n, "New Request"), a.bytes)
         /\ PiecesIn(Append(s, a), n, "Body Data") = PiecesIn(s, n, "Body Data")
         /\ BodyTold(Append(s, a), n) = BodyTold(s, n)
<1>1. IsPieceOf(a, n, "New Request") /\ ~IsPieceOf(a, n, "Body Data") BY DEF IsPieceOf
<1>p. ASSUME NEW w, ~IsPieceOf(a, n, w)
      PROVE  PiecesIn(Append(s, a), n, w) = PiecesIn(s, n, w)
  BY ONLY <1>p, PiecesStep, s \in Seq(Packets), a \in Packets
<1>q. ASSUME NEW w, IsPieceOf(a, n, w)
      PROVE  /\ PiecesIn(Append(s, a), n, w) = Append(PiecesIn(s, n, w), a.bytes)
             /\ FlattenSeq(PiecesIn(Append(s, a), n, w))
                  = Cat(FlattenSeq(PiecesIn(s, n, w)), a.bytes)
  BY ONLY <1>q, PiecesStep, s \in Seq(Packets), a \in Packets
<1>2. PiecesIn(Append(s, a), n, "New Request")
        = Append(PiecesIn(s, n, "New Request"), a.bytes)
  BY ONLY <1>1, <1>q
<1>3. PiecesIn(Append(s, a), n, "Body Data") = PiecesIn(s, n, "Body Data")
  BY ONLY <1>1, <1>p
<1>. QED BY <1>2, <1>3 DEF BodyTold

\* Growth of what was received, when nothing is told of it.
LEMMA PassedGrows ==
  ASSUME NEW s \in Seq(Packets), NEW n, NEW c \in Seq(Byte), NEW x \in Seq(Byte),
         NEW clean \in BOOLEAN, Passed(s, n, c, TRUE, clean)
  PROVE  Passed(s, n, Cat(c, x), TRUE, FALSE)
<1>1. ReadableOf(c) /\ Ends(c) # {} BY DEF Passed, ReadableOf
<1>2. /\ TextOf(Cat(c, x)) = TextOf(c) /\ ReadableOf(Cat(c, x))
      /\ BodyOf(Cat(c, x)) = Cat(BodyOf(c), x)
  BY <1>1, BodyGrows
<1>3. BodyTold(s, n) \in Seq(Byte) /\ BodyOf(c) \in Seq(Byte) BY <1>1, BodyToldType, BodyIs
<1>4. IsSubsequence(BodyTold(s, n), BodyOf(c)) BY DEF Passed
<1>5. IsSubsequence(BodyTold(s, n), Cat(BodyOf(c), x)) BY <1>3, <1>4, SubsequenceGrows
<1>6. PiecesIn(s, n, "New Request") = <<Flat(HeaderLine(TextOf(c)))>> BY DEF Passed
<1>. QED BY <1>2, <1>5, <1>6 DEF Passed

\* A piece passed on.
LEMMA PassedPiece ==
  ASSUME NEW s \in Seq(Packets), NEW n, NEW c \in Seq(Byte), NEW x \in Seq(Byte),
         NEW clean \in BOOLEAN, Passed(s, n, c, TRUE, clean),
         NEW p \in Packets, p.what = "Body Data", p.request = n, p.bytes = x
  PROVE  Passed(Append(s, p), n, Cat(c, x), TRUE, clean)
<1>1. ReadableOf(c) /\ Ends(c) # {} BY DEF Passed, ReadableOf
<1>2. /\ TextOf(Cat(c, x)) = TextOf(c) /\ ReadableOf(Cat(c, x))
      /\ BodyOf(Cat(c, x)) = Cat(BodyOf(c), x)
  BY <1>1, BodyGrows
<1>3. BodyTold(s, n) \in Seq(Byte) /\ BodyOf(c) \in Seq(Byte) BY <1>1, BodyToldType, BodyIs
<1>4. /\ PiecesIn(Append(s, p), n, "New Request") = PiecesIn(s, n, "New Request")
      /\ BodyTold(Append(s, p), n) = Cat(BodyTold(s, n), x)
  BY BodyDataTold
<1>5. IsSubsequence(BodyTold(s, n), BodyOf(c)) BY DEF Passed
<1>6. IsSubsequence(Cat(BodyTold(s, n), x), Cat(BodyOf(c), x))
  BY <1>3, <1>5, SubsequenceExtends
<1>7. PiecesIn(s, n, "New Request") = <<Flat(HeaderLine(TextOf(c)))>> BY DEF Passed
<1>8. clean => BodyTold(s, n) = BodyOf(c) BY DEF Passed
<1>. QED BY <1>2, <1>4, <1>6, <1>7, <1>8 DEF Passed

\* An error.
LEMMA PassedError ==
  ASSUME NEW s \in Seq(Packets), NEW q \in Packets, q.what = "error", NEW n, NEW c,
         NEW on \in BOOLEAN, NEW clean \in BOOLEAN, Passed(s, n, c, on, clean)
  PROVE  Passed(Append(s, q), n, c, on, clean)
BY ErrorTold DEF Passed

LEMMA AppendToNone ==
  ASSUME NEW b
  PROVE  Append(<<>>, b) = <<b>>
<1>1. <<>> \in Seq({b}) /\ <<b>> \in Seq({b}) OBVIOUS
<1>2. Append(<<>>, b) = <<>> \o <<b>> BY <1>1, AppendIsConcat
<1>3. <<>> \o <<b>> = <<b>> BY <1>1, ConcatEmptySeq
<1>. QED BY <1>2, <1>3

\* The announcement, of headers that end in what was received last.
LEMMA PassedNew ==
  ASSUME NEW s \in Seq(Packets), NEW n, NEW c, NEW clean \in BOOLEAN,
         Passed(s, n, c, FALSE, clean), NEW d \in Seq(Byte), ReadableOf(d),
         NEW a \in Packets, a.what = "New Request", a.request = n,
         a.bytes = Flat(HeaderLine(TextOf(d)))
  PROVE  /\ BodyTold(Append(s, a), n) = <<>>
         /\ PiecesIn(Append(s, a), n, "New Request") = <<Flat(HeaderLine(TextOf(d)))>>
         /\ Passed(Append(s, a), n, d, TRUE, FALSE)
         /\ BodyOf(d) = <<>> => Passed(Append(s, a), n, d, TRUE, TRUE)
<1>b. PICK b : b = Flat(HeaderLine(TextOf(d)))
  OBVIOUS
<1>1. /\ PiecesIn(s, n, "New Request") = <<>> /\ PiecesIn(s, n, "Body Data") = <<>>
  BY DEF Passed
<1>2. /\ PiecesIn(Append(s, a), n, "New Request") = Append(<<>>, b)
      /\ BodyTold(Append(s, a), n) = BodyTold(s, n)
  BY <1>1, <1>b, NewRequestTold
<1>3. BodyTold(s, n) = <<>> BY <1>1, FlattenEmpty DEF BodyTold
<1>4. Append(<<>>, b) = <<b>> BY AppendToNone
<1>5. BodyOf(d) \in Seq(Byte) BY BodyIs DEF ReadableOf
<1>6. IsSubsequence(<<>>, BodyOf(d)) BY <1>5, EmptySubsequence
<1>. QED BY <1>2, <1>3, <1>4, <1>6, <1>b DEF Passed

\* What follows the headers in the piece that ends them.
LEMMA PassedRest ==
  ASSUME NEW s \in Seq(Packets), NEW n, NEW d \in Seq(Byte), NEW c \in Seq(Byte),
         ReadableOf(d), BodyTold(s, n) = <<>>,
         PiecesIn(s, n, "New Request") = <<Flat(HeaderLine(TextOf(d)))>>,
         NEW p \in Packets, p.what = "Body Data", p.request = n, p.bytes = Rest(d, c),
         NEW clean \in BOOLEAN, clean => Rest(d, c) = BodyOf(d)
  PROVE  Passed(Append(s, p), n, d, TRUE, clean)
<1>r. PICK r : r = Rest(d, c)
  OBVIOUS
<1>1. BodyOf(d) \in Seq(Byte) BY BodyIs DEF ReadableOf
<1>2. r \in Seq(Byte) BY <1>r, RestType DEF ReadableOf
<1>3. /\ PiecesIn(Append(s, p), n, "New Request") = PiecesIn(s, n, "New Request")
      /\ BodyTold(Append(s, p), n) = Cat(<<>>, r)
  BY <1>r, BodyDataTold
<1>4. Cat(<<>>, r) = r BY <1>2, CatEmpty
<1>5. IsSubsequence(r, BodyOf(d))
  <2>1. CASE r = BodyOf(d) BY <1>1, <2>1, SubsequenceOfItself
  <2>2. CASE r = <<>> BY <1>1, <2>2, EmptySubsequence
  <2>3. r = BodyOf(d) \/ r = <<>> BY <1>r DEF Rest
  <2>. QED BY <2>1, <2>2, <2>3
<1>. QED BY <1>3, <1>4, <1>5, <1>r DEF Passed

\* As long as no push has thrown, headers that are complete now were not before.
LEMMA RestIsBody ==
  ASSUME NEW c \in Seq(Byte), NEW x \in Seq(Byte), ~ReadableOf(c), ReadableOf(Cat(c, x))
  PROVE  Rest(Cat(c, x), c) = BodyOf(Cat(c, x))
<1>d. PICK d : d = Cat(c, x)
  OBVIOUS
<1>1. Ends(c) = {} BY BodyGrows
<1>2. d \in Seq(Byte) /\ Ends(d) # {} BY <1>d, CatType DEF ReadableOf
<1>3. FirstEnd(d) \in Ends(d) /\ FirstEnd(d) \in Nat BY <1>2, FirstEndIs
<1>4. \A k \in Ends(d) : k + 4 <= Len(c) => k \in Ends(c) BY <1>d, EndsGrow
<1>5. ~ (FirstEnd(d) + 4 <= Len(c)) BY <1>1, <1>3, <1>4
<1>6. FirstEnd(d) + 4 >= Len(c) BY <1>3, <1>5
<1>. QED BY <1>6, <1>d DEF Rest

LEMMA ReceiveBody ==
  ASSUME ExtractorTypes, BodyInv, NEW x, IsPiece(x), Handles(x)
  PROVE  BodyInv'
<1>0. /\ told \in Seq(Packets) /\ request \in Nat /\ sentHeaders \in BOOLEAN
      /\ \A bytes \in Seq(Byte), what \in Channels : Packet(what, bytes) \in Packets
  BY ToldTypes
<1>c. PICK c : c = Got
  OBVIOUS
<1>d. PICK d : d = Cat(c, x)
  OBVIOUS
<1>k. PICK k : k = (throws = 0)
  OBVIOUS
<1>1. /\ x \in Seq(Byte) /\ c \in Seq(Byte) /\ d \in Seq(Byte) /\ Got' = d
      /\ Len(d) < SizeMax /\ request' = request /\ <<>> \in Seq(Byte)
  BY <1>c, <1>d, GotIs, CatType DEF IsPiece
<1>2. Passed(told, request, c, sentHeaders, k) /\ k \in BOOLEAN BY <1>c, <1>k DEF BodyInv
<1>3. throws' = throws + 1 => ~ (throws' = 0) BY ThrowsAre
<1>q. PICK q : q = Packet("error", <<>>)
  OBVIOUS
<1>4. q \in Packets /\ q.what = "error" BY <1>0, <1>1, <1>q, PacketIs, ChannelsAre
<1>5. CASE Passes(x)
  <2>p. PICK p : p = Packet("Body Data", x)
    OBVIOUS
  <2>1. p \in Packets /\ p.request = request /\ p.what = "Body Data" /\ p.bytes = x
    BY <1>0, <1>1, <2>p, PacketIs, ChannelsAre
  <2>2. sentHeaders /\ told' = Append(told, p) /\ sentHeaders' = TRUE /\ throws' = throws
    BY <1>0, <1>5, <2>p DEF Passes
  <2>3. Passed(told, request, c, TRUE, k) BY <1>0, <1>2, <2>2
  <2>4. Passed(Append(told, p), request, d, TRUE, k)
    BY <1>0, <1>1, <1>2, <1>d, <2>1, <2>3, PassedPiece
  <2>. QED BY <1>1, <1>k, <2>2, <2>4 DEF BodyInv
<1>6. CASE Waits
  <2>1. ~sentHeaders /\ Ends(d) = {} /\ told' = told /\ sentHeaders' = FALSE
        /\ throws' = throws
    BY <1>0, <1>1, <1>6 DEF Waits
  <2>2. ~ReadableOf(d) BY <2>1 DEF ReadableOf
  <2>3. Passed(told, request, d, FALSE, k) BY <1>2, <2>1, <2>2 DEF Passed
  <2>. QED BY <1>1, <1>k, <2>1, <2>3 DEF BodyInv
<1>7. CASE Fails
  <2>1. /\ told' = Append(told, q) /\ sentHeaders' = sentHeaders
        /\ ~ (throws' = 0)
    BY <1>3, <1>7, <1>q DEF Fails
  <2>2. Passed(told, request, d, sentHeaders, FALSE)
    <3>1. CASE sentHeaders
      <4>1. Passed(told, request, c, TRUE, k) BY <1>0, <1>2, <3>1
      <4>2. Passed(told, request, d, TRUE, FALSE)
        BY <1>0, <1>1, <1>2, <1>d, <4>1, PassedGrows
      <4>. QED BY <1>0, <3>1, <4>2
    <3>2. CASE ~sentHeaders BY <1>2, <3>2 DEF Passed
    <3>. QED BY <3>1, <3>2
  <2>3. Passed(Append(told, q), request, d, sentHeaders, FALSE)
    BY <1>0, <1>4, <2>2, PassedError
  <2>4. (throws' = 0) = FALSE BY <2>1
  <2>. QED BY <1>1, <2>1, <2>3, <2>4 DEF BodyInv
<1>8. CASE Rejects
  <2>1. /\ ~sentHeaders /\ told' = Append(told, q) /\ sentHeaders' = FALSE
        /\ throws' = throws /\ ~ReadableOf(d)
    BY <1>0, <1>1, <1>8, <1>q DEF Rejects
  <2>2. Passed(told, request, d, FALSE, k) BY <1>2, <2>1 DEF Passed
  <2>3. Passed(Append(told, q), request, d, FALSE, k) BY <1>0, <1>2, <1>4, <2>2, PassedError
  <2>. QED BY <1>1, <1>k, <2>1, <2>3 DEF BodyInv
<1>9. CASE Announces
  <2>a. PICK a : a = Announcement(d)
    OBVIOUS
  <2>p. PICK p : p = Packet("Body Data", Rest(d, c))
    OBVIOUS
  <2>1. /\ ~sentHeaders /\ ReadableOf(d) /\ sentHeaders' = TRUE
        /\ \/ BodyOf(d) = <<>> /\ told' = Append(told, a) /\ throws' = throws
           \/ told' = Append(Append(told, a), p) /\ throws' = throws
           \/ told' = Append(Append(told, a), q) /\ throws' = throws + 1
    BY <1>1, <1>9, <1>c, <1>q, <2>a, <2>p DEF Announces
  <2>2. /\ a \in Packets /\ a.what = "New Request" /\ a.request = request
        /\ a.bytes = Flat(HeaderLine(TextOf(d)))
    <3>1. Ends(d) # {} BY <2>1 DEF ReadableOf
    <3>2. a \in Packets BY <1>1, <2>a, <3>1, AnnouncementType
    <3>. QED BY <2>a, <3>2, PacketIs DEF Announcement
  <2>3. /\ p \in Packets /\ p.what = "Body Data" /\ p.request = request
        /\ p.bytes = Rest(d, c)
    <3>1. Rest(d, c) \in Seq(Byte) BY <1>1, <2>1, RestType DEF ReadableOf
    <3>. QED BY <1>0, <2>p, <3>1, PacketIs, ChannelsAre
  <2>t. PICK t : t = Append(told, a)
    OBVIOUS
  <2>4. t \in Seq(Packets) BY <1>0, <2>2, <2>t, AppendProperties
  <2>5. Passed(told, request, c, FALSE, k) BY <1>0, <1>2, <2>1
  <2>6. /\ BodyTold(t, request) = <<>>
        /\ PiecesIn(t, request, "New Request") = <<Flat(HeaderLine(TextOf(d)))>>
        /\ Passed(t, request, d, TRUE, FALSE)
        /\ BodyOf(d) = <<>> => Passed(t, request, d, TRUE, TRUE)
    BY ZenonT(60), <1>0, <1>1, <1>2, <2>1, <2>2, <2>5, <2>t, PassedNew
  <2>7. k => Rest(d, c) = BodyOf(d)
    <3>1. k => ~ReadableOf(c) BY <2>5 DEF Passed
    <3>. QED BY <1>1, <1>d, <2>1, <3>1, RestIsBody
  <2>8. CASE BodyOf(d) = <<>> /\ told' = t /\ throws' = throws
    <3>1. Passed(t, request, d, TRUE, k)
      <4>1. CASE k = TRUE BY <2>6, <2>8, <4>1
      <4>2. CASE k = FALSE BY <2>6, <4>2
      <4>. QED BY <1>2, <4>1, <4>2
    <3>. QED BY <1>1, <1>k, <2>1, <2>8, <3>1 DEF BodyInv
  <2>9. CASE told' = Append(t, p) /\ throws' = throws
    <3>1. Passed(Append(t, p), request, d, TRUE, k)
      BY <1>1, <1>2, <2>1, <2>3, <2>4, <2>6, <2>7, PassedRest
    <3>. QED BY <1>1, <1>k, <2>1, <2>9, <3>1 DEF BodyInv
  <2>10. CASE told' = Append(t, q) /\ throws' = throws + 1
    <3>1. Passed(Append(t, q), request, d, TRUE, FALSE) BY <1>4, <2>4, <2>6, PassedError
    <3>2. (throws' = 0) = FALSE BY <1>3, <2>10
    <3>. QED BY <1>1, <2>1, <2>10, <3>1, <3>2 DEF BodyInv
  <2>. QED BY <2>1, <2>8, <2>9, <2>10, <2>t
<1>. QED BY <1>5, <1>6, <1>7, <1>8, <1>9 DEF Handles

LEMMA DestroyBody ==
  ASSUME ExtractorTypes, Destroy
  PROVE  BodyInv'
<1>0. /\ told \in Seq(Packets) /\ request \in Nat BY ToldTypes
<1>1. /\ request' = request + 1 /\ sentHeaders' = FALSE /\ Got' = <<>> /\ ToldGrows
  BY DestroyIs
<1>2. /\ told' \in Seq(Packets) /\ Len(told) \in Nat /\ Len(told') \in Nat
      /\ \A i \in 1..Len(told) : told'[i] = told[i]
      /\ \A i \in Len(told) + 1..Len(told') : told'[i].request = request
  BY <1>1, ToldGrowsIs
<1>3. \A what : \A i \in 1..Len(told') : ~IsPieceOf(told'[i], request + 1, what)
  <2>1. \A i \in 1..Len(told) : told[i].request \in 1..request BY DEF ExtractorTypes
  <2>2. \A z \in 1..request : z # request + 1 BY <1>0
  <2>3. request # request + 1 BY <1>0
  <2>4. \A i \in 1..Len(told') : i \in 1..Len(told) \/ i \in Len(told) + 1..Len(told')
    BY <1>2
  <2>5. \A i \in 1..Len(told') : told'[i].request # request + 1
    BY <1>2, <2>1, <2>2, <2>3, <2>4
  <2>. QED BY <2>5 DEF IsPieceOf
<1>4. \A what : PiecesIn(told', request + 1, what) = <<>> BY <1>2, <1>3, PiecesNone
<1>5. ~ReadableOf(<<>>)
  <2>1. \A z \in Int : ~ (z \in 0..0 - 4) OBVIOUS
  <2>2. Len(<<>>) = 0 OBVIOUS
  <2>3. Ends(<<>>) = {} BY <2>1, <2>2 DEF Ends
  <2>. QED BY <2>3 DEF ReadableOf
<1>. QED BY <1>1, <1>4, <1>5 DEF BodyInv, Passed

LEMMA InitBody == InitAll => BodyInv
<1>1. SUFFICES ASSUME InitAll PROVE BodyInv
  OBVIOUS
<1>2. told = <<>> /\ request = 1 /\ sentHeaders = FALSE /\ received = 0
  BY <1>1 DEF InitAll, Init
<1>3. Got = <<>>
  <2>1. SubSeq(text, 1, 0) = <<>> BY SubSeqEmpty
  <2>. QED BY <1>2, <2>1 DEF Got
<1>4. \A what : PiecesIn(<<>>, 1, what) = <<>>
  <2>1. <<>> \in Seq(Packets) /\ \A i \in 1..Len(<<>>) : FALSE OBVIOUS
  <2>. QED BY <2>1, PiecesNone
<1>5. ~ReadableOf(<<>>)
  <2>1. \A z \in Int : ~ (z \in 0..0 - 4) OBVIOUS
  <2>2. Len(<<>>) = 0 OBVIOUS
  <2>3. Ends(<<>>) = {} BY <2>1, <2>2 DEF Ends
  <2>. QED BY <2>3 DEF ReadableOf
<1>. QED BY <1>2, <1>3, <1>4, <1>5 DEF BodyInv, Passed

LEMMA NextBody == TypeInv /\ BodyInv /\ [Next]_vars => BodyInv'
<1>1. SUFFICES ASSUME TypeInv, BodyInv, [Next]_vars PROVE BodyInv'
  OBVIOUS
<1>0. ExtractorTypes BY <1>1 DEF TypeInv
<1>2. CASE Receive
  <2>1. PICK x : IsPiece(x) /\ Handles(x) BY <1>0, <1>2, ReceiveIs
  <2>. QED BY <1>0, <1>1, <2>1, ReceiveBody
<1>3. CASE Destroy BY <1>0, <1>3, DestroyBody
<1>4. CASE UNCHANGED extractorVars
  <2>1. /\ told' = told /\ request' = request /\ sentHeaders' = sentHeaders
        /\ throws' = throws /\ Got' = Got
    BY <1>4 DEF extractorVars, peer, Got
  <2>. QED BY <1>1, <2>1 DEF BodyInv
<1>5. UNCHANGED vars => UNCHANGED extractorVars BY DEF vars
<1>6. Deliver => UNCHANGED extractorVars BY DEF Deliver
<1>. QED BY <1>1, <1>2, <1>3, <1>4, <1>5, <1>6 DEF Next, ExtractorNext

LEMMA AlwaysBodyInv == Spec => []BodyInv
BY InitTypes, NextTypes, InitBody, NextBody, PTL DEF Spec

(***************************************************************************)
(* However TCP cut the text, and as long as no push has thrown, exactly    *)
(* what follows the headers was passed on, and the headers were announced  *)
(* as they would have been from one buffer (handlePacket()); a request     *)
(* with a content length as its last header is never announced.            *)
(***************************************************************************)
THEOREM TheCutDoesNotMatter == Spec => []CutDoesNotMatter
<1>1. ASSUME ExtractorTypes, BodyInv PROVE CutDoesNotMatter
  <2>1. SUFFICES ASSUME throws = 0
                 PROVE  /\ BodyTold(told, request) = IF Readable THEN Body ELSE <<>>
                        /\ Pieces(request, "New Request") =
                             IF Readable THEN <<Flat(HeaderLine(HeaderText))>> ELSE <<>>
    BY DEF CutDoesNotMatter, BodyTold, Pieces
  <2>2. HeaderText = TextOf(Got) /\ Body = BodyOf(Got) /\ (Readable <=> ReadableOf(Got))
    BY GotHas
  <2>3. CASE sentHeaders
    <3>1. /\ ReadableOf(Got)
          /\ PiecesIn(told, request, "New Request") = <<Flat(HeaderLine(TextOf(Got)))>>
          /\ BodyTold(told, request) = BodyOf(Got)
      BY <1>1, <2>1, <2>3 DEF BodyInv, Passed
    <3>. QED BY <2>2, <3>1 DEF Pieces
  <2>4. CASE ~sentHeaders
    <3>1. /\ ~ReadableOf(Got)
          /\ PiecesIn(told, request, "New Request") = <<>>
          /\ PiecesIn(told, request, "Body Data") = <<>>
      BY <1>1, <2>1, <2>4 DEF BodyInv, Passed
    <3>2. BodyTold(told, request) = <<>> BY <3>1, FlattenEmpty DEF BodyTold
    <3>. QED BY <2>2, <3>1, <3>2 DEF Pieces
  <2>. QED BY <2>3, <2>4
<1>2. TypeInv => ExtractorTypes BY DEF TypeInv
<1>. QED BY <1>1, <1>2, AlwaysTypeInv, AlwaysBodyInv, PTL

(***************************************************************************)
(* Whatever throws, what is passed on as body data is of the body, in its  *)
(* order: a byte may get lost, but none of the headers is passed on and    *)
(* none twice (bodyStart - bufferSizeBeforeAppending).                     *)
(***************************************************************************)
THEOREM TheBodyNeverStrays == Spec => []BodyNeverStrays
<1>1. ASSUME ExtractorTypes, BodyInv PROVE BodyNeverStrays
  <2>1. SUFFICES IsSubsequence(BodyTold(told, request), IF Readable THEN Body ELSE <<>>)
    BY DEF BodyNeverStrays, BodyTold, Pieces
  <2>2. Body = BodyOf(Got) /\ (Readable <=> ReadableOf(Got)) BY GotHas
  <2>3. CASE sentHeaders
    <3>1. ReadableOf(Got) /\ IsSubsequence(BodyTold(told, request), BodyOf(Got))
      BY <1>1, <2>3 DEF BodyInv, Passed
    <3>. QED BY <2>2, <3>1
  <2>4. CASE ~sentHeaders
    <3>1. PiecesIn(told, request, "Body Data") = <<>> BY <1>1, <2>4 DEF BodyInv, Passed
    <3>2. BodyTold(told, request) = <<>> BY <3>1, FlattenEmpty DEF BodyTold
    <3>b. PICK b : b = IF Readable THEN Body ELSE <<>>
      OBVIOUS
    <3>3. b \in Seq(Byte)
      <4>1. Got \in Seq(Byte) BY <1>1, GotIs
      <4>2. CASE Readable
        <5>1. BodyOf(Got) \in Seq(Byte) BY <2>2, <4>1, <4>2, BodyIs DEF ReadableOf
        <5>. QED BY <2>2, <3>b, <4>2, <5>1
      <4>3. CASE ~Readable BY <3>b, <4>3
      <4>. QED BY <4>2, <4>3
    <3>4. IsSubsequence(<<>>, b) BY <3>3, EmptySubsequence
    <3>. QED BY <3>2, <3>4, <3>b
  <2>. QED BY <2>3, <2>4
<1>2. TypeInv => ExtractorTypes BY DEF TypeInv
<1>. QED BY <1>1, <1>2, AlwaysTypeInv, AlwaysBodyInv, PTL

-----------------------------------------------------------------------------
(* What the accumulator has. *)

IsNew(i) == told[i].what = "New Request"

\* The last announcement among the first d packets.
Latest(i, d) ==
  /\ i \in 1..d
  /\ IsNew(i)
  /\ \A j \in i + 1..d : ~IsNew(j)

CollectedInv ==
  \A i \in 1..delivered :
    Latest(i, delivered) => Content = BodyTold(SubSeq(told, 1, delivered), told[i].request)

SentInv ==
  \A i \in 1..Len(sent) :
    /\ sent[i].request < request
    /\ FlattenSeq(sent[i].buffers) = BodyTold(told, sent[i].request)

\* An announcement is followed by what is told of its request, until the next.
LEMMA LatestIs ==
  ASSUME ExtractorTypes, OrderInv, NEW d \in Nat, d + 1 <= Len(told),
         NEW j \in 1..d, IsNew(j), Same(told, j, d + 1)
  PROVE  \E i : Latest(i, d) /\ Same(told, i, d + 1)
<1>0. told \in Seq(Packets) /\ Len(told) \in Nat /\ \A i \in 1..Len(told) : told[i] \in Packets
  BY ToldTypes
<1>. DEFINE S == {i \in 1..d : IsNew(i)}
<1>1. S \subseteq 0..d /\ S # {} OBVIOUS
<1>. HIDE DEF S
<1>i. PICK i : i = LastOffset(S)
  OBVIOUS
<1>2. i \in S /\ \A k \in S : i >= k BY <1>1, <1>i, LastExists
<1>3. i \in 1..d /\ IsNew(i) BY <1>2 DEF S
<1>4. \A k \in i + 1..d : ~IsNew(k)
  <2>1. \A k \in i + 1..d : k \in 1..d /\ ~ (i >= k) BY <1>3
  <2>. QED BY <1>2, <2>1 DEF S
<1>5. Latest(i, d) BY <1>3, <1>4 DEF Latest
<1>6. i >= j BY <1>2 DEF S
<1>7. told[j].request <= told[i].request /\ told[i].request <= told[d + 1].request
  <2>1. i \in 1..Len(told) /\ j \in 1..Len(told) /\ d + 1 \in 1..Len(told)
        /\ j <= i /\ i <= d + 1
    BY <1>0, <1>3, <1>6
  <2>2. \A k, l \in 1..Len(told) : k <= l => told[k].request <= told[l].request
    BY DEF OrderInv, Ordered
  <2>. QED BY <2>1, <2>2
<1>8. told[i].request = told[d + 1].request
  <2>1. told[i].request \in Nat /\ told[d + 1].request \in Nat
    <3>1. i \in 1..Len(told) /\ d + 1 \in 1..Len(told) BY <1>0, <1>3
    <3>. QED BY <1>0, <3>1 DEF Packets
  <2>2. told[d + 1].request <= told[i].request BY <1>7 DEF Same
  <2>. QED BY <1>7, <2>1, <2>2
<1>. QED BY <1>5, <1>8 DEF Same

LEMMA PrefixSame ==
  ASSUME ExtractorTypes, ToldGrows, NEW d \in 0..Len(told)
  PROVE  SubSeq(told', 1, d) = SubSeq(told, 1, d)
<1>0. /\ told \in Seq(Packets) /\ told' \in Seq(Packets) /\ Len(told) \in Nat
      /\ Len(told') \in Nat /\ Len(told) <= Len(told')
      /\ \A i \in 1..Len(told) : told'[i] = told[i]
  BY ToldTypes, ToldGrowsIs
<1>1. d \in Nat /\ 0 \in Nat /\ 0 <= d /\ d <= Len(told) /\ d <= Len(told') /\ d - 0 = d
      /\ 0 + 1 = 1
  BY <1>0
<1>a. PICK a : a = SubSeq(told, 0 + 1, d)
  OBVIOUS
<1>b. PICK b : b = SubSeq(told', 0 + 1, d)
  OBVIOUS
<1>2. a \in Seq(Packets) /\ CutAt(a, told, 0, d) BY <1>0, <1>1, <1>a, CutIs
<1>3. b \in Seq(Packets) /\ CutAt(b, told', 0, d) BY <1>0, <1>1, <1>b, CutIs
<1>4. Len(a) = d /\ Len(b) = d BY <1>1, <1>2, <1>3 DEF CutAt
<1>5. \A i \in 1..Len(b) : b[i] = a[i]
  <2>1. \A i \in 1..d : a[i] = told[0 + i] /\ b[i] = told'[0 + i]
    BY <1>1, <1>2, <1>3 DEF CutAt
  <2>2. \A i \in 1..d : 0 + i = i /\ i \in 1..Len(told) BY <1>0, <1>1
  <2>. QED BY <1>0, <1>4, <2>1, <2>2
<1>6. b = a BY <1>2, <1>3, <1>4, <1>5, SeqEqual
<1>. QED BY <1>1, <1>6, <1>a, <1>b

LEMMA ExtractorCollected ==
  ASSUME TypeInv, CollectedInv, SentInv, ToldGrows, request' \in Nat, request <= request',
         UNCHANGED <<accumulatorVars, delivered>>
  PROVE  CollectedInv' /\ SentInv'
<1>0. /\ ExtractorTypes /\ delivered \in 0..Len(told) /\ request \in Nat
      /\ sent \in Seq(Sendings)
  BY ToldTypes DEF TypeInv, AccumulatorTypes
<1>1. /\ Len(told) \in Nat /\ \A i \in 1..Len(told) : told'[i] = told[i]
  BY <1>0, ToldGrowsIs
<1>2. SubSeq(told', 1, delivered) = SubSeq(told, 1, delivered) BY <1>0, PrefixSame
<1>3. buffers' = buffers /\ sent' = sent /\ delivered' = delivered BY DEF accumulatorVars
<1>4. Content' = Content BY <1>3 DEF Content
<1>5. \A i \in 1..delivered : i \in 1..Len(told) BY <1>0, <1>1
<1>6. CollectedInv'
  <2>1. SUFFICES ASSUME NEW i \in 1..delivered, Latest(i, delivered)'
                 PROVE  Content = BodyTold(SubSeq(told, 1, delivered), told[i].request)
    BY <1>1, <1>2, <1>3, <1>4, <1>5 DEF CollectedInv
  <2>2. Latest(i, delivered)
    <3>1. \A j \in i + 1..delivered : j \in 1..delivered BY <1>0, <1>1
    <3>. QED BY <1>1, <1>3, <1>5, <2>1, <3>1 DEF Latest, IsNew
  <2>. QED BY <2>2 DEF CollectedInv
<1>7. SentInv'
  <2>1. ASSUME NEW i \in 1..Len(sent)
        PROVE  sent[i].request < request'
               /\ FlattenSeq(sent[i].buffers) = BodyTold(told', sent[i].request)
    <3>n. PICK n : n = sent[i].request
      OBVIOUS
    <3>1. n \in Nat
      <4>1. sent[i] \in Sendings BY <1>0, ElementOfSeq
      <4>. QED BY <3>n, <4>1 DEF Sendings
    <3>2. n < request /\ FlattenSeq(sent[i].buffers) = BodyTold(told, n) BY <3>n DEF SentInv
    <3>3. n < request' /\ n # request BY <1>0, <3>1, <3>2
    <3>4. PiecesIn(told', n, "Body Data") = PiecesIn(told, n, "Body Data")
      BY <1>0, <3>3, PiecesStay
    <3>. QED BY <3>2, <3>3, <3>4, <3>n DEF BodyTold
  <2>. QED BY <1>3, <2>1 DEF SentInv
<1>. QED BY <1>6, <1>7

LEMMA PrefixIs ==
  ASSUME ExtractorTypes, NEW d \in Nat, d <= Len(told)
  PROVE  LET pre == SubSeq(told, 1, d)
         IN  /\ pre \in Seq(Packets) /\ Len(pre) = d
             /\ \A k \in 1..d : pre[k] = told[k] /\ k \in 1..Len(told)
<1>0. told \in Seq(Packets) /\ Len(told) \in Nat BY ToldTypes
<1>a. PICK a : a = SubSeq(told, 0 + 1, d)
  OBVIOUS
<1>1. 0 \in Nat /\ 0 <= d /\ d - 0 = d /\ 0 + 1 = 1 OBVIOUS
<1>2. a \in Seq(Packets) /\ CutAt(a, told, 0, d) BY <1>0, <1>1, <1>a, CutIs
<1>3. Len(a) = d /\ \A k \in 1..d : a[k] = told[0 + k] BY <1>1, <1>2 DEF CutAt
<1>4. \A k \in 1..d : 0 + k = k /\ k \in 1..Len(told) BY <1>0
<1>. QED BY <1>1, <1>2, <1>3, <1>4, <1>a

LEMMA LatestOnce ==
  ASSUME NEW d \in Nat, NEW i, NEW j, Latest(i, d), Latest(j, d)
  PROVE  i = j
<1>1. i \in 1..d /\ j \in 1..d BY DEF Latest
<1>2. IsNew(i) /\ IsNew(j) BY DEF Latest
<1>3. ~ (j \in i + 1..d) BY <1>2 DEF Latest
<1>4. ~ (i \in j + 1..d) BY <1>2 DEF Latest
<1>. QED BY <1>1, <1>3, <1>4

LEMMA LatestBefore ==
  ASSUME NEW d \in Nat, NEW i, Latest(i, d + 1)
  PROVE  /\ ~IsNew(d + 1) => i \in 1..d /\ Latest(i, d)
         /\ IsNew(d + 1) => i = d + 1
<1>1. i \in 1..d + 1 /\ IsNew(i) /\ \A j \in i + 1..d + 1 : ~IsNew(j) BY DEF Latest
<1>2. CASE ~IsNew(d + 1)
  <2>1. i # d + 1 BY <1>1, <1>2
  <2>2. i \in 1..d BY <1>1, <2>1
  <2>3. \A j \in i + 1..d : j \in i + 1..d + 1 BY <2>2
  <2>4. Latest(i, d) BY <1>1, <2>2, <2>3 DEF Latest
  <2>. QED BY <1>2, <2>2, <2>4
<1>3. CASE IsNew(d + 1)
  <2>1. ~ (d + 1 \in i + 1..d + 1) BY <1>1, <1>3
  <2>2. i = d + 1 BY <1>1, <2>1
  <2>. QED BY <1>3, <2>2
<1>. QED BY <1>2, <1>3

LEMMA ToldOrder ==
  ASSUME OrderInv
  PROVE  /\ \A i, j \in 1..Len(told) : IsNew(i) /\ IsNew(j) /\ Same(told, i, j) => i = j
         /\ \A i \in 1..Len(told) :
              told[i].what = "Body Data" =>
                \E j \in 1..Len(told) : IsNew(j) /\ Same(told, i, j) /\ j < i
         /\ \A i \in 1..Len(told) :
              told[i].what = "Request Ended" =>
                /\ told[i].request < request
                /\ \A j \in 1..Len(told) : Same(told, i, j) => j <= i
                /\ \E j \in 1..Len(told) : IsNew(j) /\ Same(told, i, j)
BY DEF OrderInv, Ordered, IsNew

LEMMA CollectedNew ==
  ASSUME ExtractorTypes, OrderInv, NEW d \in Nat, d + 1 <= Len(told), IsNew(d + 1)
  PROVE  BodyTold(SubSeq(told, 1, d + 1), told[d + 1].request) = <<>>
<1>n. PICK n : n = told[d + 1].request
  OBVIOUS
<1>s. PICK s : s = SubSeq(told, 1, d)
  OBVIOUS
<1>p. PICK p : p = told[d + 1]
  OBVIOUS
<1>0. told \in Seq(Packets) /\ Len(told) \in Nat BY ToldTypes
<1>1. d <= Len(told) /\ d + 1 \in 1..Len(told) BY <1>0
<1>2. s \in Seq(Packets) /\ Len(s) = d /\ \A k \in 1..d : s[k] = told[k] /\ k \in 1..Len(told)
  BY <1>1, <1>s, PrefixIs
<1>3. p \in Packets /\ SubSeq(told, 1, d + 1) = Append(s, p)
  BY <1>0, <1>p, <1>s, PrefixStep
<1>4. ASSUME NEW k \in 1..d PROVE ~IsPieceOf(s[k], n, "Body Data")
  <2>1. SUFFICES ASSUME IsPieceOf(s[k], n, "Body Data") PROVE FALSE
    OBVIOUS
  <2>2. k \in 1..Len(told) /\ told[k].what = "Body Data" /\ told[k].request = n
    BY <1>2, <2>1 DEF IsPieceOf
  <2>3. PICK j \in 1..Len(told) : IsNew(j) /\ Same(told, k, j) /\ j < k
    BY <2>2, ToldOrder
  <2>4. Same(told, j, d + 1) BY <1>n, <2>2, <2>3 DEF Same
  <2>5. j = d + 1 BY <1>1, <2>3, <2>4, ToldOrder
  <2>6. k <= d /\ j < k BY <2>3
  <2>. QED BY <2>5, <2>6
<1>5. PiecesIn(s, n, "Body Data") = <<>> BY <1>2, <1>4, PiecesNone
<1>6. BodyTold(s, n) = <<>> BY <1>5, FlattenEmpty DEF BodyTold
<1>w. PICK w : w = "Body Data"
  OBVIOUS
<1>7. ~IsPieceOf(p, n, w) BY <1>p, <1>w DEF IsPieceOf, IsNew
<1>8. s \in Seq(Packets) /\ p \in Packets BY <1>2, <1>3
<1>9. PiecesIn(Append(s, p), n, w) = PiecesIn(s, n, w)
  BY ONLY <1>7, <1>8, PiecesStep
<1>. QED BY <1>3, <1>6, <1>9, <1>n, <1>w DEF BodyTold

\* The last announcement before a packet of an announced request.
OfAnnounced(i) == told[i].what \in {"Body Data", "Request Ended"}

LEMMA LatestOfBody ==
  ASSUME ExtractorTypes, OrderInv, NEW d \in Nat, d + 1 <= Len(told), OfAnnounced(d + 1)
  PROVE  \E i : Latest(i, d) /\ told[i].request = told[d + 1].request
<1>0. Len(told) \in Nat /\ d + 1 \in 1..Len(told) BY ToldTypes
<1>1. PICK j \in 1..Len(told) : IsNew(j) /\ Same(told, d + 1, j) /\ j <= d + 1
  <2>1. CASE told[d + 1].what = "Body Data"
    <3>1. PICK j \in 1..Len(told) : IsNew(j) /\ Same(told, d + 1, j) /\ j < d + 1
      BY <1>0, <2>1, ToldOrder
    <3>2. j <= d + 1 BY <3>1
    <3>. QED BY <3>1, <3>2
  <2>2. CASE told[d + 1].what = "Request Ended" BY <1>0, <2>2, ToldOrder
  <2>. QED BY <2>1, <2>2 DEF OfAnnounced
<1>2. ~IsNew(d + 1) BY DEF IsNew, OfAnnounced
<1>3. j # d + 1 BY <1>1, <1>2
<1>4. j \in 1..d BY ONLY <1>0, <1>1, <1>3, d \in Nat
<1>5. Same(told, j, d + 1) BY <1>1 DEF Same
<1>6. d \in Nat /\ d + 1 <= Len(told) BY ONLY <1>0, d \in Nat
<1>7. PICK i : Latest(i, d) /\ Same(told, i, d + 1) BY <1>1, <1>4, <1>5, <1>6, LatestIs
<1>. QED BY <1>7 DEF Same

OtherThanBody(i) == ~IsNew(i) /\ told[i].what # "Body Data"
IsBodyData(i) == told[i].what = "Body Data"
IsEnd(i) == told[i].what = "Request Ended"

\* A packet that is no announcement and no body data leaves what is collected.
LEMMA CollectedKept ==
  ASSUME ExtractorTypes, CollectedInv, NEW d \in Nat, d = delivered, d + 1 <= Len(told),
         OtherThanBody(d + 1), Content' = Content, delivered' = d + 1, told' = told
  PROVE  CollectedInv'
<1>s. PICK s : s = SubSeq(told, 1, d)
  OBVIOUS
<1>p. PICK p : p = told[d + 1]
  OBVIOUS
<1>0. told \in Seq(Packets) BY ToldTypes
<1>1. s \in Seq(Packets) /\ p \in Packets /\ SubSeq(told, 1, d + 1) = Append(s, p)
  BY <1>0, <1>p, <1>s, PrefixStep
<1>2. ~IsNew(d + 1) BY DEF OtherThanBody
<1>3. ASSUME NEW i, Latest(i, d + 1)
      PROVE  Content = BodyTold(SubSeq(told, 1, d + 1), told[i].request)
  <2>n. PICK n : n = told[i].request
    OBVIOUS
  <2>1. i \in 1..d /\ Latest(i, d) BY <1>2, <1>3, LatestBefore
  <2>2. Content = BodyTold(s, n) BY <1>s, <2>1, <2>n DEF CollectedInv
  <2>w. PICK w : w = "Body Data"
    OBVIOUS
  <2>3. ~IsPieceOf(p, n, w) BY <1>p, <2>w DEF IsPieceOf, OtherThanBody
  <2>4. s \in Seq(Packets) /\ p \in Packets BY <1>1
  <2>5. PiecesIn(Append(s, p), n, w) = PiecesIn(s, n, w) BY ONLY <2>3, <2>4, PiecesStep
  <2>. QED BY <1>1, <2>2, <2>5, <2>n, <2>w DEF BodyTold
<1>4. \A i \in 1..delivered' : Latest(i, d + 1)' => Latest(i, d + 1)
  BY DEF Latest, IsNew
<1>. QED BY <1>3, <1>4 DEF CollectedInv

LEMMA CollectedBody ==
  ASSUME ExtractorTypes, OrderInv, CollectedInv, NEW d \in Nat, d = delivered,
         d + 1 <= Len(told), IsBodyData(d + 1),
         Content' = Cat(Content, told[d + 1].bytes), delivered' = d + 1, told' = told
  PROVE  CollectedInv'
<1>s. PICK s : s = SubSeq(told, 1, d)
  OBVIOUS
<1>p. PICK p : p = told[d + 1]
  OBVIOUS
<1>0. told \in Seq(Packets) BY ToldTypes
<1>1. s \in Seq(Packets) /\ p \in Packets /\ SubSeq(told, 1, d + 1) = Append(s, p)
  BY <1>0, <1>p, <1>s, PrefixStep
<1>2. ~IsNew(d + 1) /\ OfAnnounced(d + 1) BY DEF IsBodyData, IsNew, OfAnnounced
<1>3. ASSUME NEW i, Latest(i, d + 1)
      PROVE  Content' = BodyTold(SubSeq(told, 1, d + 1), told[i].request)
  <2>n. PICK n : n = told[i].request
    OBVIOUS
  <2>1. i \in 1..d /\ Latest(i, d) BY <1>2, <1>3, LatestBefore
  <2>2. Content = BodyTold(s, n) BY <1>s, <2>1, <2>n DEF CollectedInv
  <2>3. PICK j : Latest(j, d) /\ told[j].request = told[d + 1].request
    BY <1>2, LatestOfBody
  <2>4. j = i BY <2>1, <2>3, LatestOnce
  <2>5. p.request = n BY <1>p, <2>3, <2>4, <2>n
  <2>6. p.what = "Body Data" BY <1>p DEF IsBodyData
  <2>7. BodyTold(Append(s, p), n) = Cat(BodyTold(s, n), p.bytes)
    BY <1>1, <2>5, <2>6, BodyDataTold
  <2>. QED BY <1>1, <1>p, <2>2, <2>7, <2>n
<1>4. \A i \in 1..delivered' : Latest(i, d + 1)' => Latest(i, d + 1)
  BY DEF Latest, IsNew
<1>. QED BY <1>3, <1>4 DEF CollectedInv

LEMMA CollectedCleared ==
  ASSUME ExtractorTypes, OrderInv, NEW d \in Nat, d = delivered, d + 1 <= Len(told),
         IsNew(d + 1), Content' = <<>>, delivered' = d + 1, told' = told
  PROVE  CollectedInv'
<1>1. BodyTold(SubSeq(told, 1, d + 1), told[d + 1].request) = <<>> BY CollectedNew
<1>2. \A i : Latest(i, d + 1) => i = d + 1 BY LatestBefore
<1>3. \A i \in 1..delivered' : Latest(i, d + 1)' => Latest(i, d + 1)
  BY DEF Latest, IsNew
<1>. QED BY <1>1, <1>2, <1>3 DEF CollectedInv

\* What is sent at the end of a request.
LEMMA SentAtEnd ==
  ASSUME ExtractorTypes, OrderInv, CollectedInv, NEW d \in Nat, d = delivered,
         d + 1 <= Len(told), IsEnd(d + 1)
  PROVE  /\ told[d + 1].request < request
         /\ Content = BodyTold(told, told[d + 1].request)
<1>n. PICK n : n = told[d + 1].request
  OBVIOUS
<1>w. PICK w : w = "Body Data"
  OBVIOUS
<1>0. told \in Seq(Packets) /\ Len(told) \in Nat BY ToldTypes
<1>1. d \in 0..Len(told) /\ d + 1 \in 1..Len(told) BY <1>0
<1>2. OfAnnounced(d + 1) BY DEF IsEnd, OfAnnounced
<1>3. PICK j : Latest(j, d) /\ told[j].request = n BY <1>2, <1>n, LatestOfBody
<1>4. j \in 1..d BY <1>3 DEF Latest
<1>5. Content = BodyTold(SubSeq(told, 1, d), n) BY <1>3, <1>4 DEF CollectedInv
<1>6. n < request /\ \A k \in 1..Len(told) : Same(told, d + 1, k) => k <= d + 1
  BY <1>1, <1>n, ToldOrder DEF IsEnd
<1>7. ASSUME NEW k \in 1..Len(told), d < k PROVE ~IsPieceOf(told[k], n, w)
  <2>1. SUFFICES ASSUME IsPieceOf(told[k], n, w) PROVE FALSE
    OBVIOUS
  <2>2. Same(told, d + 1, k) BY <1>n, <2>1 DEF IsPieceOf, Same
  <2>3. k <= d + 1 BY <1>6, <2>2
  <2>4. k = d + 1 BY ONLY <1>0, <1>7, <2>3, d \in Nat
  <2>5. told[k].what = w BY <2>1 DEF IsPieceOf
  <2>. QED BY <1>w, <2>4, <2>5 DEF IsEnd
<1>8. PiecesIn(told, n, w) = PiecesIn(SubSeq(told, 1, d), n, w)
  BY ONLY <1>0, <1>1, <1>7, PiecesNoMore
<1>. QED BY <1>5, <1>6, <1>8, <1>n, <1>w DEF BodyTold

LEMMA DeliverCollected ==
  ASSUME TypeInv, OrderInv, CollectedInv, SentInv, Deliver
  PROVE  CollectedInv' /\ SentInv'
<1>d. PICK d : d = delivered
  OBVIOUS
<1>p. PICK p : p = told[d + 1]
  OBVIOUS
<1>0. /\ ExtractorTypes /\ told \in Seq(Packets) /\ Len(told) \in Nat /\ request \in Nat
      /\ sent \in Seq(Sendings)
  BY ToldTypes DEF TypeInv, AccumulatorTypes
<1>1. /\ d \in Nat /\ delivered' = d + 1 /\ d + 1 \in 1..Len(told)
      /\ p \in Packets /\ Collects(p) /\ UNCHANGED extractorVars
  BY <1>d, <1>p, DeliverIs
<1>2. told' = told /\ request' = request BY <1>1 DEF extractorVars, peer
<1>3. d + 1 <= Len(told) BY <1>1
<1>4. sent' = sent => SentInv' BY <1>2 DEF SentInv
<1>5. CASE IsNew(d + 1)
  <2>1. Content' = <<>> /\ sent' = sent BY <1>1, <1>5, <1>p DEF Collects, IsNew
  <2>2. CollectedInv' BY <1>0, <1>1, <1>2, <1>3, <1>5, <1>d, <2>1, CollectedCleared
  <2>. QED BY <1>4, <2>1, <2>2
<1>6. CASE IsBodyData(d + 1)
  <2>1. Content' = Cat(Content, told[d + 1].bytes) /\ sent' = sent
    BY <1>1, <1>6, <1>p DEF Collects, IsBodyData
  <2>2. CollectedInv' BY <1>0, <1>1, <1>2, <1>3, <1>6, <1>d, <2>1, CollectedBody
  <2>. QED BY <1>4, <2>1, <2>2
<1>7. CASE told[d + 1].what = "error"
  <2>1. Content' = Content /\ sent' = sent BY <1>1, <1>7, <1>p DEF Collects
  <2>2. OtherThanBody(d + 1) BY <1>7 DEF OtherThanBody, IsNew
  <2>3. CollectedInv' BY <1>0, <1>1, <1>2, <1>3, <1>d, <2>1, <2>2, CollectedKept
  <2>. QED BY <1>4, <2>1, <2>3
<1>8. CASE IsEnd(d + 1)
  <2>1. OtherThanBody(d + 1) BY <1>8 DEF OtherThanBody, IsNew, IsEnd
  <2>2. Content' = Content BY <1>1, <1>8, <1>p DEF Collects, IsEnd
  <2>3. CollectedInv' BY <1>0, <1>1, <1>2, <1>3, <1>d, <2>1, <2>2, CollectedKept
  <2>n. PICK n : n = p.request
    OBVIOUS
  <2>4. PICK v \in Seq(Seq(KeptBytes)) :
          /\ sent' = Append(sent, [request |-> n, buffers |-> v])
          /\ FlattenSeq(v) = Content
    BY <1>1, <1>8, <1>p, <2>n DEF Collects, IsEnd
  <2>5. n < request /\ Content = BodyTold(told, n)
    BY <1>0, <1>1, <1>3, <1>8, <1>d, <1>p, <2>n, SentAtEnd
  <2>e. PICK e : e = [request |-> n, buffers |-> v]
    OBVIOUS
  <2>6. e \in Sendings /\ e.request = n /\ e.buffers = v
    BY <1>1, <2>4, <2>e, <2>n DEF Sendings, Packets
  <2>7. /\ Len(sent') = Len(sent) + 1 /\ Len(sent) \in Nat
        /\ \A i \in 1..Len(sent) : sent'[i] = sent[i]
        /\ sent'[Len(sent) + 1] = e
    BY <1>0, <2>4, <2>6, <2>e, AppendProperties
  <2>8. \A i \in 1..Len(sent') : i \in 1..Len(sent) \/ i = Len(sent) + 1 BY <2>7
  <2>9. /\ sent'[Len(sent) + 1].request < request
        /\ FlattenSeq(sent'[Len(sent) + 1].buffers) = BodyTold(told, sent'[Len(sent) + 1].request)
    BY <2>4, <2>5, <2>6, <2>7
  <2>10. SentInv' BY <1>2, <2>7, <2>8, <2>9 DEF SentInv
  <2>. QED BY <2>3, <2>10
<1>9. p.what \in Channels BY <1>1 DEF Packets
<1>. QED BY <1>5, <1>6, <1>7, <1>8, <1>9, <1>p DEF Channels, IsNew, IsBodyData, IsEnd

LEMMA InitCollected == InitAll => CollectedInv /\ SentInv
<1>1. SUFFICES ASSUME InitAll PROVE CollectedInv /\ SentInv
  OBVIOUS
<1>2. sent = <<>> /\ delivered = 0 BY <1>1 DEF InitAll, AccumulatorInit
<1>. QED BY <1>2 DEF CollectedInv, SentInv

LEMMA NextCollected ==
  ASSUME TypeInv, OrderInv, CollectedInv, SentInv, [Next]_vars
  PROVE  CollectedInv' /\ SentInv'
<1>0. ExtractorTypes /\ request \in Nat BY ToldTypes DEF TypeInv
<1>1. CASE ExtractorNext /\ UNCHANGED <<accumulatorVars, delivered>>
  <2>1. ToldGrows BY <1>0, <1>1, ExtractorStep
  <2>2. request' \in Nat /\ request <= request'
    <3>1. CASE Receive
      <4>1. request' = request BY <3>1 DEF Receive
      <4>. QED BY <1>0, <4>1
    <3>2. CASE Destroy
      <4>1. request' = request + 1 BY <3>2 DEF Destroy
      <4>. QED BY <1>0, <4>1
    <3>. QED BY <1>1, <3>1, <3>2 DEF ExtractorNext
  <2>. QED BY <1>1, <2>1, <2>2, ExtractorCollected
<1>2. CASE Deliver BY <1>2, DeliverCollected
<1>3. CASE UNCHANGED vars
  <2>1. /\ told' = told /\ request' = request /\ buffers' = buffers /\ sent' = sent
        /\ delivered' = delivered
    BY <1>3 DEF vars, extractorVars, accumulatorVars, peer
  <2>. QED BY <2>1 DEF CollectedInv, SentInv, Content, Latest, IsNew
<1>. QED BY <1>1, <1>2, <1>3 DEF Next

LEMMA AlwaysCollected == Spec => [](CollectedInv /\ SentInv)
<1>1. InitAll => CollectedInv /\ SentInv BY InitCollected
<1>2. TypeInv /\ OrderInv /\ (CollectedInv /\ SentInv) /\ [Next]_vars
        => (CollectedInv /\ SentInv)'
  BY NextCollected
<1>. QED BY <1>1, <1>2, AlwaysTypeInv, AlwaysOrderInv, PTL DEF Spec

(***************************************************************************)
(* What the accumulator sends for a request is the body told for it, for   *)
(* every text, cut anyhow, whatever throws, and however far behind the     *)
(* accumulator's thread group is (Append, Clear and Send on one vector).   *)
(***************************************************************************)
THEOREM TheBodyIsCollected == Spec => []AccumulatedIsBody
<1>1. ASSUME TypeInv, SentInv PROVE AccumulatedIsBody
  <2>1. DOMAIN sent = 1..Len(sent) BY <1>1 DEF TypeInv, AccumulatorTypes
  <2>. QED BY <1>1, <2>1 DEF AccumulatedIsBody, SentInv, BodyTold, Pieces
<1>. QED BY <1>1, AlwaysTypeInv, AlwaysCollected, PTL

-----------------------------------------------------------------------------
(* Streams read as the text they hold. *)

Letters == Byte \cup {"x"}

LEMMA LetterStreams ==
  ASSUME NEW s \in Streams(Byte)
  PROVE  s \in Streams(Letters)
<1>1. \A x \in Seq(Byte) : x \in Seq(Letters) BY DEF Letters
<1>2. s \in Seq(Seq(Byte)) /\ \A i \in 1..Len(s) : s[i] \in Seq(Byte) /\ s[i] # <<>>
  BY StreamType
<1>S. PICK S : S = Seq(Letters) \ {<<>>}
  OBVIOUS
<1>3. \A i \in 1..Len(s) : s[i] \in S BY <1>1, <1>2, <1>S
<1>4. s \in Seq(S)
  <2>1. s \in [1..Len(s) -> S] /\ Len(s) \in Nat BY <1>2, <1>3
  <2>. QED BY <2>1
<1>. QED BY <1>4, <1>S DEF Streams

\* A part of a part, with what is found there.
LEMMA FoundIs ==
  ASSUME NEW B, NEW c \in Seq(B), NEW p \in Seq(B), p # <<>>, NEW a \in Nat
  PROVE  Found(p, c, a) = Matches(p, c, a, Len(c))
<1>l. PICK l : l = Len(p)
  OBVIOUS
<1>0. Len(c) \in Nat /\ l \in Nat /\ l >= 1 BY <1>l
<1>1. ASSUME NEW k \in Nat, k <= Len(c)
      PROVE  Part(c, k, k + l) = p
               <=> k < Len(c) /\ k + l <= Len(c) /\ \A i \in 1..l : c[k + i] = p[i]
  <2>d. PICK d : d = Part(c, k, k + l)
    OBVIOUS
  <2>e. PICK e : e = Less(k + l, Len(c))
    OBVIOUS
  <2>0. k + l \in Nat BY <1>0
  <2>1. e \in Nat /\ k <= e BY <1>0, <1>1, <2>e DEF Less
  <2>2. d \in Seq(B) /\ CutAt(d, c, k, e) BY <2>0, <2>1, <2>d, <2>e, PartIs
  <2>3. Len(d) = e - k /\ \A i \in 1..e - k : d[i] = c[k + i] BY <2>2 DEF CutAt
  <2>4. CASE k + l <= Len(c)
    <3>1. e - k = l /\ k < Len(c) BY <1>0, <2>4, <2>e DEF Less
    <3>2. Len(d) = l /\ \A i \in 1..l : d[i] = c[k + i] BY <2>3, <3>1
    <3>3. (\A i \in 1..l : d[i] = p[i]) => d = p BY <1>l, <2>2, <3>2, SeqEqual
    <3>. QED BY <2>4, <2>d, <3>1, <3>2, <3>3
  <2>5. CASE ~ (k + l <= Len(c))
    <3>1. e - k # l BY <1>0, <1>1, <2>5, <2>e DEF Less
    <3>2. d # p BY <1>l, <2>3, <3>1
    <3>. QED BY <2>5, <2>d, <3>2
  <2>. QED BY <2>4, <2>5
<1>2. \A k : k \in Found(p, c, a) <=> k \in a..Len(c) /\ Part(c, k, k + l) = p
  BY <1>l DEF Found
<1>3. \A k : k \in Matches(p, c, a, Len(c)) <=>
        k \in Nat /\ a <= k /\ k < Len(c) /\ k + l <= Len(c)
        /\ \A i \in 1..l : c[k + i] = p[i]
  BY <1>l DEF Matches
<1>4. \A k : k \in a..Len(c) <=> k \in Nat /\ a <= k /\ k <= Len(c) BY <1>0
<1>5. \A k \in Nat : k < Len(c) => k <= Len(c) BY <1>0
<1>6. ASSUME NEW k PROVE k \in Found(p, c, a) <=> k \in Matches(p, c, a, Len(c))
  BY <1>1, <1>2, <1>3, <1>4, <1>5
<1>. QED BY <1>6

\* Reading as much as there is, from any offset.
LEMMA ReadIs ==
  ASSUME NEW B, NEW s \in Streams(B), Size(s) < SizeMax,
         NEW a \in 0..Size(s), NEW b \in a..Size(s) + 1
  PROVE  Read(s, a, b - a, 3) = Part(FlattenSeq(s), a, Less(b, a + 3))
<1>z. PICK z : z = Size(s)
  OBVIOUS
<1>c. PICK c : c = FlattenSeq(s)
  OBVIOUS
<1>m. PICK m : m = SizeMax + 1
  OBVIOUS
<1>0. /\ z \in Nat /\ Len(c) = z /\ SizeMax \in Nat /\ z < SizeMax /\ c \in Seq(B)
      /\ a \in Nat /\ a <= z /\ b \in Nat /\ a <= b /\ b <= z + 1
  BY <1>c, <1>z, StreamType, SizeIs, FlattenType, SizeMaxAssumption
<1>v. PICK v : v = IF a + (b - a) > z THEN (z + SizeMax + 1 - a) % m ELSE b - a
  OBVIOUS
<1>1. v = Less(b, z) - a
  <2>1. CASE b <= z
    <3>1. ~ (a + (b - a) > z) BY <1>0, <2>1
    <3>2. Less(b, z) = b BY <1>0, <2>1 DEF Less
    <3>. QED BY <1>v, <3>1, <3>2
  <2>2. CASE ~ (b <= z)
    <3>1. a + (b - a) > z BY <1>0, <2>2
    <3>2. Less(b, z) = z BY <1>0, <2>2 DEF Less
    <3>3. z - a \in Int /\ m \in Int /\ 0 <= z - a /\ z - a < m BY <1>0, <1>m
    <3>4. ((z - a) + m) % m = z - a BY <3>3, Modulo
    <3>5. z + SizeMax + 1 - a = (z - a) + m BY <1>0, <1>m
    <3>. QED BY <1>v, <3>1, <3>2, <3>4, <3>5
  <2>. QED BY <2>1, <2>2
<1>e. PICK e : e = a + Less(v, 3)
  OBVIOUS
<1>2. Read(s, a, b - a, 3) = FlattenSeq(VisitBuffers(s, a, e))
  BY <1>e, <1>m, <1>v, <1>z DEF Read, Flat
<1>3. e \in Nat BY <1>0, <1>1, <1>e DEF Less
<1>4. FlattenSeq(VisitBuffers(s, a, e)) = Part(c, a, e) BY <1>0, <1>3, <1>c, VisitBuffersIs
<1>5. Less(e, z) = Less(Less(b, a + 3), z) BY <1>0, <1>1, <1>e DEF Less
<1>6. Part(c, a, e) = Part(c, a, Less(b, a + 3)) BY <1>0, <1>5 DEF Part
<1>. QED BY <1>2, <1>4, <1>6, <1>c

LEMMA PartsAre ==
  ASSUME NEW B, NEW s \in Streams(B), Size(s) < SizeMax
  PROVE  PartsReadAs(s, FlattenSeq(s))
<1>c. PICK c : c = FlattenSeq(s)
  OBVIOUS
<1>0. s \in Seq(Seq(B)) /\ Size(s) = Len(c) /\ Len(c) \in Nat BY <1>c, StreamType, SizeIs
<1>1. ASSUME NEW k \in 0..Len(c) - 1 PROVE ByteAt(s, k) = c[k + 1]
  <2>1. k \in Nat /\ k < Size(s) BY <1>0
  <2>. QED BY <1>0, <1>c, <2>1, ByteAtIs
<1>2. ASSUME NEW a \in 0..Len(c), NEW b \in a..Len(c) + 1
      PROVE  /\ Flat(SubStream(s, a, b)) = Part(c, a, b)
             /\ Read(s, a, b - a, 3) = Part(c, a, Less(b, a + 3))
  <2>1. a \in Nat /\ b \in Nat BY <1>0
  <2>2. Flat(SubStream(s, a, b)) = Part(c, a, b) BY <1>c, <2>1, SubStreamIs DEF Flat
  <2>3. Read(s, a, b - a, 3) = Part(c, a, Less(b, a + 3)) BY <1>0, <1>c, ReadIs
  <2>. QED BY <2>2, <2>3
<1>. QED BY <1>1, <1>2, <1>c DEF PartsReadAs

LEMMA SearchesAre ==
  ASSUME NEW s \in Streams(Letters), Size(s) < SizeMax
  PROVE  SearchesReadAs(s, FlattenSeq(s))
<1>c. PICK c : c = FlattenSeq(s)
  OBVIOUS
<1>0. /\ c \in Seq(Letters) /\ Size(s) = Len(c) /\ Len(c) \in Nat /\ SizeMax \in Nat
      /\ Less(SizeMax, Len(c)) = Len(c)
  BY <1>c, StreamType, SizeIs, FlattenType, SizeMaxAssumption DEF Less
<1>1. ASSUME NEW p \in {<<"x">>, CrLf, DoubleCrLf}
      PROVE  p \in Seq(Letters) /\ p # <<>>
  <2>1. <<"x">> \in Seq(Letters) /\ <<"x">> # <<>> BY DEF Letters
  <2>2. \A x \in Seq(Byte) : x \in Seq(Letters) BY DEF Letters
  <2>. QED BY <2>1, <2>2, SeparatorTypes
<1>2. ASSUME NEW a \in 0..Len(c), NEW p \in {<<"x">>, CrLf, DoubleCrLf}
      PROVE  FirstIndexOf(s, p, a, SizeMax) = FirstOffset(Found(p, c, a))
  <2>1. a \in Nat BY <1>0
  <2>2. FirstIndexOf(s, p, a, SizeMax)
          = FirstOffset(Matches(p, FlattenSeq(s), a, Less(SizeMax, Size(s))))
    BY <1>0, <1>1, <2>1, FirstIndexOfIs
  <2>3. Found(p, c, a) = Matches(p, c, a, Len(c)) BY <1>0, <1>1, <2>1, FoundIs
  <2>. QED BY <1>0, <1>c, <2>2, <2>3
<1>3. ASSUME NEW a \in 0..Len(c)
      PROVE  /\ FirstIndexOfAnyInSet(s, ToSet(CrLf), a, SizeMax)
                  = FirstOffset(Among(ToSet(CrLf), c, a, Len(c)))
             /\ LastIndexOfAnyInSet(s, ToSet(CrLf), 0, a)
                  = LastOffset(Among(ToSet(CrLf), c, 0, a))
  <2>S. PICK S : S = ToSet(CrLf)
    OBVIOUS
  <2>1. a \in Nat /\ 0 \in Nat /\ Less(a, Len(c)) = a BY <1>0 DEF Less
  <2>2. FirstIndexOfAnyInSet(s, S, a, SizeMax)
          = FirstOffset(Among(S, FlattenSeq(s), a, Less(SizeMax, Size(s))))
    BY <1>0, <2>1, OffsetsAre
  <2>3. LastIndexOfAnyInSet(s, S, 0, a)
          = LastOffset(Among(S, FlattenSeq(s), 0, Less(a, Size(s))))
    BY <2>1, OffsetsAre
  <2>. QED BY <1>0, <1>c, <2>1, <2>2, <2>3, <2>S
<1>. QED BY <1>2, <1>3, <1>c DEF SearchesReadAs

LEMMA TrimmedIs ==
  ASSUME NEW B, NEW s \in Streams(B), Size(s) < SizeMax
  PROVE  TrimReadsAs(Flat(Trim(s)), FlattenSeq(s))
<1>c. PICK c : c = FlattenSeq(s)
  OBVIOUS
<1>0. /\ c \in Seq(B) /\ Size(s) = Len(c) /\ Len(c) \in Nat /\ DOMAIN c = 1..Len(c)
      /\ Size(s) <= SizeMax
  BY <1>c, StreamType, SizeIs, FlattenType, SizeMaxAssumption
<1>o. PICK O : O = Without(Whitespace, c, 0, Len(c))
  OBVIOUS
<1>i. PICK ink : ink = {k \in DOMAIN c : c[k] \notin Whitespace}
  OBVIOUS
<1>1. FlattenSeq(Trim(s))
        = IF O = {} THEN <<>> ELSE SubSeq(c, FirstOffset(O) + 1, LastOffset(O) + 1)
  BY <1>0, <1>c, <1>o, TrimIs
<1>2. /\ \A k \in O : k \in Nat /\ k < Len(c) /\ k + 1 \in ink
      /\ \A k \in ink : k \in Nat /\ k - 1 \in O
  <2>1. ASSUME NEW k \in O PROVE k \in Nat /\ k < Len(c) /\ k + 1 \in ink
    <3>1. k \in 0..Len(c) - 1 /\ c[k + 1] \notin Whitespace BY <1>o DEF Without
    <3>2. k \in Nat /\ k < Len(c) /\ k + 1 \in 1..Len(c) BY <1>0, <3>1
    <3>. QED BY <1>0, <1>i, <3>1, <3>2
  <2>2. ASSUME NEW k \in ink PROVE k \in Nat /\ k - 1 \in O
    <3>1. k \in 1..Len(c) /\ c[k] \notin Whitespace BY <1>0, <1>i
    <3>2. k \in Nat /\ k - 1 \in 0..Len(c) - 1 /\ (k - 1) + 1 = k BY <1>0, <3>1
    <3>. QED BY <1>o, <3>1, <3>2 DEF Without
  <2>. QED BY <2>1, <2>2
<1>3. CASE O = {}
  <2>1. ink = {} BY <1>2, <1>3
  <2>. QED BY <1>1, <1>3, <1>c, <1>i, <2>1 DEF TrimReadsAs, Flat
<1>4. CASE O # {}
  <2>1. ink # {} BY <1>2, <1>4
  <2>f. PICK f : f = FirstOffset(O)
    OBVIOUS
  <2>l. PICK l : l = LastOffset(O)
    OBVIOUS
  <2>2. f \in O /\ \A k \in O : f <= k
    <3>1. O \subseteq Nat BY <1>2
    <3>. QED BY <1>4, <2>f, <3>1, FirstExists DEF IsFirst
  <2>3. l \in O /\ \A k \in O : l >= k
    <3>1. O \subseteq 0..Len(c) BY <1>0, <1>2
    <3>. QED BY <1>0, <1>4, <2>l, <3>1, LastExists
  <2>4. f + 1 \in ink /\ \A k \in ink : f + 1 <= k BY <1>2, <2>2
  <2>5. l + 1 \in ink /\ \A k \in ink : l + 1 >= k BY <1>2, <2>3
  <2>6. FirstOffset(ink) = f + 1
    <3>1. ink \subseteq Nat BY <1>2
    <3>. QED BY <2>4, <3>1, IsFirstOnce DEF IsFirst
  <2>7. LastOffset(ink) = l + 1
    <3>0. ink \subseteq 0..Len(c) BY <1>0, <1>2, <1>i
    <3>m. PICK m : m = LastOffset(ink)
      OBVIOUS
    <3>1. m \in ink /\ \A k \in ink : m >= k BY <1>0, <2>1, <3>0, <3>m, LastExists
    <3>2. m >= l + 1 /\ l + 1 >= m BY <2>5, <3>1
    <3>3. m \in Nat /\ l + 1 \in Nat BY <1>2, <2>5, <3>1
    <3>. QED BY <3>2, <3>3, <3>m
  <2>. QED BY <1>1, <1>4, <1>c, <1>i, <2>1, <2>6, <2>7, <2>f, <2>l DEF TrimReadsAs, Flat
<1>. QED BY <1>3, <1>4

\* Fields, each with the separator that follows it.
Clean(v, p) == Matches(p, FlattenSeq(v), 0, Len(FlattenSeq(v))) = {}

Followed(x, p) ==
  [i \in DOMAIN x |-> Cat(FlattenSeq(x[i]), IF i < Len(x) THEN p ELSE <<>>)]

Reads(x, p, B, d) ==
  /\ x \in Seq(Streams(B)) /\ Len(x) # 0
  /\ FlattenSeq(Followed(x, p)) = d
  /\ \A k \in 1..Len(x) : Clean(x[k], p)

LEMMA ReadsOne ==
  ASSUME NEW B, NEW p, NEW v \in Streams(B), Clean(v, p)
  PROVE  Reads(Cat(<<v>>, <<>>), p, B, FlattenSeq(v))
<1>S. PICK S : S = Streams(B)
  OBVIOUS
<1>x. PICK x : x = <<v>>
  OBVIOUS
<1>1. x \in Seq(S) /\ Len(x) = 1 /\ x[1] = v /\ DOMAIN x = 1..1 BY <1>S, <1>x
<1>2. Cat(x, <<>>) = x BY <1>1, CatEmpty
<1>d. PICK d : d = FlattenSeq(v)
  OBVIOUS
<1>3. d \in Seq(B) BY <1>d, StreamType, FlattenType
<1>4. Cat(d, <<>>) = d BY <1>3, CatEmpty
<1>5. Followed(x, p) = <<d>>
  <2>1. \A i \in 1..1 : i = 1 /\ ~ (i < 1) OBVIOUS
  <2>2. Followed(x, p) = [i \in 1..1 |-> Cat(FlattenSeq(x[i]), IF i < 1 THEN p ELSE <<>>)]
    BY <1>1 DEF Followed
  <2>3. \A i \in 1..1 : Cat(FlattenSeq(x[i]), IF i < 1 THEN p ELSE <<>>) = d
    BY <1>1, <1>4, <1>d, <2>1
  <2>4. Followed(x, p) = [i \in 1..1 |-> d] BY <2>2, <2>3
  <2>. QED BY <2>4
<1>6. FlattenSeq(<<d>>) = d BY <1>3, FlattenOne
<1>7. \A k \in 1..Len(x) : Clean(x[k], p) BY <1>1
<1>8. Reads(x, p, B, d) BY <1>1, <1>5, <1>6, <1>7, <1>S DEF Reads
<1>. QED BY <1>2, <1>8, <1>d, <1>x

LEMMA ReadsCons ==
  ASSUME NEW B, NEW p \in Seq(B), NEW v \in Streams(B), Clean(v, p),
         NEW y, NEW d, Reads(y, p, B, d)
  PROVE  Reads(Cat(<<v>>, y), p, B, Cat(Cat(FlattenSeq(v), p), d))
<1>S. PICK S : S = Streams(B)
  OBVIOUS
<1>T. PICK T : T = Seq(B)
  OBVIOUS
<1>c. PICK c : c = Cat(<<v>>, y)
  OBVIOUS
<1>e. PICK e : e = Cat(FlattenSeq(v), p)
  OBVIOUS
<1>h. PICK h : h = Followed(y, p)
  OBVIOUS
<1>0. /\ y \in Seq(S) /\ v \in S /\ Len(y) \in Nat /\ Len(y) # 0 /\ DOMAIN y = 1..Len(y)
      /\ FlattenSeq(h) = d /\ \A k \in 1..Len(y) : Clean(y[k], p)
  BY <1>S, <1>h DEF Reads
<1>1. c \in Seq(S) /\ ConsAt(c, v, y) BY <1>0, <1>c, ConsPlaces
<1>2. /\ Len(c) = Len(y) + 1 /\ c[1] = v /\ DOMAIN c = 1..Len(c)
      /\ \A i \in 1..Len(y) : c[i + 1] = y[i]
  BY <1>1 DEF ConsAt
<1>3. ASSUME NEW w \in S PROVE FlattenSeq(w) \in T
  BY <1>3, <1>S, <1>T, StreamType, FlattenType
<1>4. p \in T /\ <<>> \in T BY <1>T
<1>5. ASSUME NEW w \in S, NEW q \in T PROVE Cat(FlattenSeq(w), q) \in T
  BY <1>3, <1>T, CatType
<1>6. e \in T BY <1>0, <1>4, <1>5, <1>e
<1>7. h \in Seq(T) /\ Len(h) = Len(y)
      /\ \A i \in 1..Len(y) : h[i] = Cat(FlattenSeq(y[i]), IF i < Len(y) THEN p ELSE <<>>)
  <2>1. h = [i \in 1..Len(y) |-> Cat(FlattenSeq(y[i]), IF i < Len(y) THEN p ELSE <<>>)]
    BY <1>0, <1>h DEF Followed
  <2>2. ASSUME NEW i \in 1..Len(y)
        PROVE  Cat(FlattenSeq(y[i]), IF i < Len(y) THEN p ELSE <<>>) \in T
    <3>1. y[i] \in S BY <1>0, ElementOfSeq
    <3>2. (IF i < Len(y) THEN p ELSE <<>>) \in T BY <1>4
    <3>. QED BY <1>5, <3>1, <3>2
  <2>3. h \in [1..Len(y) -> T] BY <2>1, <2>2
  <2>. QED BY <1>0, <2>1, <2>3
<1>G. PICK G : G = Followed(c, p)
  OBVIOUS
<1>8. G \in Seq(T) /\ Len(G) = Len(c)
      /\ \A i \in 1..Len(c) : G[i] = Cat(FlattenSeq(c[i]), IF i < Len(c) THEN p ELSE <<>>)
  <2>1. G = [i \in 1..Len(c) |-> Cat(FlattenSeq(c[i]), IF i < Len(c) THEN p ELSE <<>>)]
    BY <1>2, <1>G DEF Followed
  <2>2. ASSUME NEW i \in 1..Len(c)
        PROVE  Cat(FlattenSeq(c[i]), IF i < Len(c) THEN p ELSE <<>>) \in T
    <3>1. c[i] \in S BY <1>1, ElementOfSeq
    <3>2. (IF i < Len(c) THEN p ELSE <<>>) \in T BY <1>4
    <3>. QED BY <1>5, <3>1, <3>2
  <2>3. G \in [1..Len(c) -> T] /\ Len(c) \in Nat BY <1>0, <1>2, <2>1, <2>2
  <2>. QED BY <2>1, <2>3
<1>g. PICK g : g = Cat(<<e>>, h)
  OBVIOUS
<1>9. g \in Seq(T) /\ ConsAt(g, e, h) BY <1>6, <1>7, <1>g, ConsPlaces
<1>10. Len(g) = Len(y) + 1 /\ g[1] = e /\ \A i \in 1..Len(y) : g[i + 1] = h[i]
  BY <1>7, <1>9 DEF ConsAt
<1>11. ASSUME NEW k \in 1..Len(c) PROVE G[k] = g[k]
  <2>1. CASE k = 1
    <3>1. 1 < Len(c) BY <1>0, <1>2
    <3>. QED BY <1>2, <1>8, <1>10, <1>e, <2>1, <3>1
  <2>2. CASE k # 1
    <3>1. k - 1 \in 1..Len(y) /\ (k - 1) + 1 = k /\ (k < Len(c) <=> k - 1 < Len(y))
      BY <1>0, <1>2, <2>2
    <3>2. c[k] = y[k - 1] /\ g[k] = h[k - 1] BY <1>2, <1>10, <3>1
    <3>3. h[k - 1] = Cat(FlattenSeq(y[k - 1]), IF k - 1 < Len(y) THEN p ELSE <<>>)
      BY <1>7, <3>1
    <3>4. G[k] = Cat(FlattenSeq(c[k]), IF k < Len(c) THEN p ELSE <<>>) BY <1>8
    <3>. QED BY <3>1, <3>2, <3>3, <3>4
  <2>. QED BY <2>1, <2>2
<1>12. G = g BY <1>2, <1>8, <1>9, <1>10, <1>11, SeqEqual
<1>13. FlattenSeq(g) = Cat(e, FlattenSeq(h)) BY <1>6, <1>7, <1>T, <1>g, FlattenCons
<1>14. ASSUME NEW k \in 1..Len(c) PROVE Clean(c[k], p)
  <2>1. CASE k = 1 BY <1>2, <2>1
  <2>2. CASE k # 1
    <3>1. k - 1 \in 1..Len(y) /\ (k - 1) + 1 = k BY <1>0, <1>2, <2>2
    <3>. QED BY <1>0, <1>2, <3>1
  <2>. QED BY <2>1, <2>2
<1>15. Len(c) # 0 BY <1>0, <1>2
<1>16. FlattenSeq(Followed(c, p)) = Cat(e, d) BY <1>0, <1>12, <1>13, <1>G
<1>17. Reads(c, p, B, Cat(e, d)) BY <1>1, <1>14, <1>15, <1>16, <1>S DEF Reads
<1>. QED BY <1>17, <1>c, <1>e

LEMMA PartJoin ==
  ASSUME NEW B, NEW c \in Seq(B), NEW a \in Nat, NEW b \in Nat, NEW e \in Nat,
         a <= b, b <= e, e <= Len(c)
  PROVE  Cat(Part(c, a, b), Part(c, b, e)) = Part(c, a, e)
<1>x. PICK x : x = Part(c, a, b)
  OBVIOUS
<1>y. PICK y : y = Part(c, b, e)
  OBVIOUS
<1>z. PICK z : z = Part(c, a, e)
  OBVIOUS
<1>0. Len(c) \in Nat /\ Less(b, Len(c)) = b /\ Less(e, Len(c)) = e BY DEF Less
<1>1. /\ x \in Seq(B) /\ CutAt(x, c, a, b)
      /\ y \in Seq(B) /\ CutAt(y, c, b, e)
      /\ z \in Seq(B) /\ CutAt(z, c, a, e)
  <2>1. x \in Seq(B) /\ CutAt(x, c, a, b) BY <1>0, <1>x, PartIs
  <2>2. y \in Seq(B) /\ CutAt(y, c, b, e) BY <1>0, <1>y, PartIs
  <2>3. a <= e OBVIOUS
  <2>4. z \in Seq(B) /\ CutAt(z, c, a, e) BY <1>0, <1>z, <2>3, PartIs
  <2>. QED BY <2>1, <2>2, <2>4
<1>j. PICK j : j = Cat(x, y)
  OBVIOUS
<1>2. j \in Seq(B) /\ Places(j, x, y) BY <1>1, <1>j, CatType, CatPlaces
<1>3. /\ Len(x) = b - a /\ \A i \in 1..b - a : x[i] = c[a + i]
      /\ Len(y) = e - b /\ \A i \in 1..e - b : y[i] = c[b + i]
      /\ Len(z) = e - a /\ \A i \in 1..e - a : z[i] = c[a + i]
  BY <1>1 DEF CutAt
<1>4. /\ Len(j) = Len(x) + Len(y)
      /\ \A i \in 1..Len(x) : j[i] = x[i]
      /\ \A i \in 1..Len(y) : j[Len(x) + i] = y[i]
  BY <1>2 DEF Places
<1>5. Len(j) = e - a /\ Len(z) = e - a BY <1>3, <1>4
<1>6. ASSUME NEW k \in 1..e - a PROVE j[k] = z[k]
  <2>1. CASE k <= b - a
    <3>1. k \in 1..b - a BY <2>1
    <3>. QED BY <1>3, <1>4, <3>1
  <2>2. CASE ~ (k <= b - a)
    <3>m. PICK m : m = k - (b - a)
      OBVIOUS
    <3>1. m \in 1..e - b /\ (b - a) + m = k /\ b + m = a + k BY <2>2, <3>m
    <3>2. j[k] = y[m] BY <1>3, <1>4, <3>1
    <3>3. y[m] = c[a + k] BY <1>3, <3>1
    <3>. QED BY <1>3, <3>2, <3>3
  <2>. QED BY <2>1, <2>2
<1>7. j = z BY <1>1, <1>2, <1>5, <1>6, SeqEqual
<1>. QED BY <1>7, <1>j, <1>x, <1>y, <1>z

\* There is no separator in what is before the first one.
LEMMA CleanPart ==
  ASSUME NEW B, NEW c \in Seq(B), NEW p \in Seq(B), p # <<>>, NEW a \in Nat, NEW e \in Nat,
         a <= e, e <= Len(c), \A k \in Matches(p, c, a, Len(c)) : e <= k
  PROVE  Matches(p, Part(c, a, e), 0, Len(Part(c, a, e))) = {}
<1>d. PICK d : d = Part(c, a, e)
  OBVIOUS
<1>l. PICK l : l = Len(p)
  OBVIOUS
<1>0. Len(c) \in Nat /\ Less(e, Len(c)) = e /\ l \in Nat /\ l >= 1 BY <1>l DEF Less
<1>1. d \in Seq(B) /\ CutAt(d, c, a, e) BY <1>0, <1>d, PartIs
<1>2. Len(d) = e - a /\ \A i \in 1..e - a : d[i] = c[a + i] BY <1>1 DEF CutAt
<1>3. SUFFICES ASSUME NEW k \in Matches(p, d, 0, Len(d)) PROVE FALSE
  BY <1>d
<1>4. k \in Nat /\ k + l <= e - a /\ \A i \in 1..l : d[k + i] = p[i]
  BY <1>2, <1>l DEF Matches
<1>5. ASSUME NEW i \in 1..l PROVE c[(a + k) + i] = p[i]
  <2>1. k + i \in 1..e - a /\ a + (k + i) = (a + k) + i BY <1>0, <1>4
  <2>. QED BY <1>2, <1>4, <2>1
<1>6. a + k \in Nat /\ a <= a + k /\ a + k < Len(c) /\ (a + k) + l <= Len(c)
  BY <1>0, <1>4
<1>7. a + k \in Matches(p, c, a, Len(c)) BY <1>5, <1>6, <1>l DEF Matches
<1>8. e <= a + k BY <1>7
<1>. QED BY <1>0, <1>4, <1>8

LEMMA SplitsRead ==
  ASSUME NEW B, NEW s \in Streams(B), NEW p \in Seq(B), p # <<>>, Size(s) < SizeMax,
         NEW f, Splits(f, s, p, SizeMax)
  PROVE  \A start \in 0..Size(s), index \in Nat :
           index <= start =>
             Reads(f[<<start, index>>], p, B, Part(FlattenSeq(s), start, Size(s)))
<1>z. PICK z : z = Size(s)
  OBVIOUS
<1>c. PICK c : c = FlattenSeq(s)
  OBVIOUS
<1>0. z \in Nat /\ Len(c) = z /\ c \in Seq(B) /\ SizeMax \in Nat /\ z < SizeMax
  BY <1>c, <1>z, StreamType, SizeIs, FlattenType, SizeMaxAssumption
<1>. DEFINE T == {j \in 0..z + 1 : \A start \in 0..z, index \in Nat :
                    z - start < j /\ index <= start =>
                      Reads(f[<<start, index>>], p, B, Part(c, start, z))}
<1>1. 0 \in T
  <2>1. \A start \in 0..z : ~ (z - start < 0) BY <1>0
  <2>. QED BY <1>0, <2>1
<1>2. ASSUME NEW j \in 1..z + 1, j - 1 \in T PROVE j \in T
  <2>1. ASSUME NEW start \in 0..z, NEW index \in Nat, z - start < j, index <= start
        PROVE  Reads(f[<<start, index>>], p, B, Part(c, start, z))
    <3>e. PICK end : end = SplitEnd(s, p, SizeMax, start, index)
      OBVIOUS
    <3>M. PICK M : M = Matches(p, c, start, z)
      OBVIOUS
    <3>1. /\ end \in start..z
          /\ end = z => index = SizeMax - 1 \/ M = {}
          /\ end # z => end \in M /\ (\A k \in M : end <= k) /\ end + Len(p) \in start + 1..z
      BY <1>c, <1>z, <3>M, <3>e, SplitEndIs
    <3>2. start \in Nat /\ end \in Nat /\ start <= end /\ end <= z BY <1>0, <3>1
    <3>3. ASSUME NEW k \in M PROVE end <= k
      <4>1. CASE end # z BY <3>1, <4>1
      <4>2. CASE end = z
        <5>1. index = SizeMax - 1 BY <3>1, <3>3, <4>2
        <5>2. start <= k /\ k < z /\ k \in Nat BY <3>3, <3>M DEF Matches
        <5>. QED BY <1>0, <2>1, <5>1, <5>2
      <4>. QED BY <4>1, <4>2
    <3>v. PICK v : v = SubStream(s, start, end)
      OBVIOUS
    <3>4. v \in Streams(B) /\ FlattenSeq(v) = Part(c, start, end)
      BY <1>c, <3>2, <3>v, SubStreamIs
    <3>5. Clean(v, p)
      <4>1. Matches(p, Part(c, start, end), 0, Len(Part(c, start, end))) = {}
        BY <1>0, <3>2, <3>3, <3>M, CleanPart
      <4>. QED BY <3>4, <4>1 DEF Clean
    <3>6. CASE end = z
      <4>1. f[<<start, index>>] = Cat(<<v>>, <<>>)
        BY <1>z, <3>e, <3>v, <3>6 DEF Splits, SplitFrom
      <4>. QED BY <3>4, <3>5, <3>6, <4>1, ReadsOne
    <3>7. CASE end # z
      <4>k. PICK k : k = end + Len(p)
        OBVIOUS
      <4>1. f[<<start, index>>] = Cat(<<v>>, f[<<k, index + 1>>])
        BY <1>z, <3>e, <3>v, <3>7, <4>k DEF Splits, SplitFrom
      <4>2. /\ k \in 0..z /\ k \in Nat /\ z - k < j - 1 /\ index + 1 \in Nat
            /\ index + 1 <= k /\ end <= k /\ k <= z
        BY <1>0, <2>1, <3>1, <3>2, <3>7, <4>k
      <4>3. Reads(f[<<k, index + 1>>], p, B, Part(c, k, z)) BY <1>2, <4>2
      <4>4. Reads(Cat(<<v>>, f[<<k, index + 1>>]), p, B,
                  Cat(Cat(FlattenSeq(v), p), Part(c, k, z)))
        BY <3>4, <3>5, <4>3, ReadsCons
      <4>5. p = Part(c, end, k)
        <5>1. Found(p, c, start) = M BY <1>0, <3>2, <3>M, FoundIs
        <5>2. end \in Found(p, c, start) BY <3>1, <3>7, <5>1
        <5>. QED BY <4>k, <5>2 DEF Found
      <4>6. Cat(Part(c, start, end), Part(c, end, k)) = Part(c, start, k)
        BY <1>0, <3>2, <4>2, PartJoin
      <4>7. Cat(Part(c, start, k), Part(c, k, z)) = Part(c, start, z)
        <5>1. start <= k /\ z <= Len(c) BY <1>0, <3>2, <4>2
        <5>. QED BY <1>0, <3>2, <4>2, <5>1, PartJoin
      <4>. QED BY <3>4, <4>1, <4>4, <4>5, <4>6, <4>7
    <3>. QED BY <3>6, <3>7
  <2>2. j \in 0..z + 1 BY <1>0
  <2>. QED BY <2>1, <2>2
<1>3. z + 1 \in T
  <2>. HIDE DEF T
  <2>0. z + 1 \in Nat BY <1>0
  <2>1. 0..z + 1 \subseteq T BY <2>0, <1>1, <1>2, UpTo
  <2>2. z + 1 \in 0..z + 1 BY <1>0
  <2>. QED BY <2>1, <2>2
<1>4. \A start \in 0..z : z - start < z + 1 BY <1>0
<1>. QED BY <1>3, <1>4, <1>c, <1>z

LEMMA WholePart ==
  ASSUME NEW B, NEW c \in Seq(B)
  PROVE  Part(c, 0, Len(c)) = c
<1>0. Len(c) \in Nat /\ Less(Len(c), Len(c)) = Len(c) /\ 0 \in Nat /\ 0 <= Len(c) BY DEF Less
<1>d. PICK d : d = Part(c, 0, Len(c))
  OBVIOUS
<1>1. d \in Seq(B) /\ CutAt(d, c, 0, Len(c)) BY <1>0, <1>d, PartIs
<1>2. Len(c) - 0 = Len(c) BY <1>0
<1>3. Len(d) = Len(c) /\ \A i \in 1..Len(c) : d[i] = c[0 + i] BY <1>1, <1>2 DEF CutAt
<1>4. \A i \in 1..Len(c) : 0 + i = i OBVIOUS
<1>5. d = c BY <1>1, <1>3, <1>4, SeqEqual
<1>. QED BY <1>5, <1>d

LEMMA FieldsAre ==
  ASSUME NEW B, NEW s \in Streams(B), NEW p \in Seq(B), p # <<>>, Size(s) < SizeMax
  PROVE  FieldsReadAs(Split(s, p, SizeMax), p, FlattenSeq(s))
<1>c. PICK c : c = FlattenSeq(s)
  OBVIOUS
<1>x. PICK x : x = Split(s, p, SizeMax)
  OBVIOUS
<1>0. /\ Size(s) \in Nat /\ Len(c) = Size(s) /\ c \in Seq(B) /\ SizeMax \in Nat
      /\ 0 \in 0..Size(s) /\ 0 \in Nat /\ 0 <= 0
  BY <1>c, StreamType, SizeIs, FlattenType, SizeMaxAssumption
<1>1. PICK f : Splits(f, s, p, SizeMax) /\ x = f[<<0, 0>>] BY <1>x, SplitIs
<1>2. Reads(x, p, B, Part(c, 0, Size(s))) BY <1>0, <1>1, <1>c, SplitsRead
<1>3. Part(c, 0, Size(s)) = c BY <1>0, WholePart
<1>4. /\ x \in Seq(Streams(B)) /\ DOMAIN x = 1..Len(x)
      /\ FlattenSeq(Followed(x, p)) = c /\ \A k \in 1..Len(x) : Clean(x[k], p)
  BY <1>2, <1>3 DEF Reads
<1>5. \A k \in 1..Len(x) : Len(FlattenSeq(x[k])) <= Size(s)
  BY <1>x, SplitAlike DEF Alike
<1>6. ASSUME NEW k \in 1..Len(x) PROVE FirstIndexOf(x[k], p, 0, SizeMax) = NotFound
  <2>v. PICK v : v = x[k]
    OBVIOUS
  <2>1. v \in Streams(B) BY <1>4, <2>v, ElementOfSeq
  <2>2. Size(v) = Len(FlattenSeq(v)) /\ Size(v) \in Nat BY <2>1, StreamType, SizeIs
  <2>3. Size(v) < SizeMax /\ Less(SizeMax, Size(v)) = Size(v)
    BY <1>0, <1>5, <2>2, <2>v DEF Less
  <2>4. FirstIndexOf(v, p, 0, SizeMax)
          = FirstOffset(Matches(p, FlattenSeq(v), 0, Less(SizeMax, Size(v))))
    BY <1>0, <2>1, <2>3, FirstIndexOfIs
  <2>5. Matches(p, FlattenSeq(v), 0, Size(v)) = {} BY <1>4, <2>2, <2>v DEF Clean
  <2>6. FirstOffset({}) = NotFound BY DEF FirstOffset
  <2>. QED BY <2>3, <2>4, <2>5, <2>6, <2>v
<1>7. FlattenSeq([i \in DOMAIN x |->
                    Flat(x[i]) \o IF i < Len(x) THEN p ELSE <<>>]) = c
  BY <1>4 DEF Followed, Flat, Cat
<1>. QED BY <1>4, <1>6, <1>7, <1>c, <1>x DEF FieldsReadAs

LEMMA AtMostTwoAre ==
  ASSUME NEW B, NEW s \in Streams(B), NEW p \in Seq(B), p # <<>>, Size(s) < SizeMax
  PROVE  AtMostTwoReadAs(Split(s, p, 2), p, FlattenSeq(s))
<1>c. PICK c : c = FlattenSeq(s)
  OBVIOUS
<1>x. PICK x : x = Split(s, p, 2)
  OBVIOUS
<1>S. PICK S : S = Streams(B)
  OBVIOUS
<1>z. PICK z : z = Size(s)
  OBVIOUS
<1>0. /\ z \in Nat /\ Len(c) = z /\ c \in Seq(B)
      /\ 0 \in 0..z /\ 0 \in Nat /\ 1 \in Nat /\ 2 - 1 = 1 /\ 0 # 1 /\ 0 + 1 = 1
  BY <1>c, <1>z, StreamType, SizeIs, FlattenType
<1>n. PICK n : n = 2
  OBVIOUS
<1>1. PICK f : Splits(f, s, p, n) /\ x = f[<<0, 0>>] BY <1>n, <1>x, SplitIs
<1>e. PICK end : end = SplitEnd(s, p, n, 0, 0)
  OBVIOUS
<1>v. PICK v : v = SubStream(s, 0, end)
  OBVIOUS
<1>2. /\ end \in 0..z
      /\ end # z => end \in Matches(p, c, 0, z) /\ end + Len(p) \in 0 + 1..z
  BY <1>0, <1>c, <1>e, <1>z, SplitEndIs
<1>3. v \in S /\ FlattenSeq(v) = Part(c, 0, end) BY <1>0, <1>2, <1>S, <1>c, <1>v, SubStreamIs
<1>4. CASE end = z
  <2>1. x = Cat(<<v>>, <<>>) BY <1>0, <1>1, <1>4, <1>e, <1>v, <1>z DEF Splits, SplitFrom
  <2>2. <<v>> \in Seq(S) /\ Len(<<v>>) = 1 BY <1>3
  <2>3. x = <<v>> BY <2>1, <2>2, CatEmpty
  <2>4. Len(x) <= 2 /\ Len(x) # 2 BY <2>2, <2>3
  <2>5. AtMostTwoReadAs(x, p, c) BY <2>4 DEF AtMostTwoReadAs
  <2>. QED BY <1>c, <1>x, <2>5
<1>5. CASE end # z
  <2>k. PICK k : k = end + Len(p)
    OBVIOUS
  <2>w. PICK w : w = SubStream(s, k, z)
    OBVIOUS
  <2>1. k \in 0..z /\ k \in Nat /\ end \in Nat /\ end <= k /\ k <= z /\ 0 <= end /\ z <= Len(c)
    BY <1>0, <1>2, <1>5, <2>k
  <2>2. x = Cat(<<v>>, f[<<k, 0 + 1>>])
    BY <1>0, <1>1, <1>5, <1>e, <1>v, <1>z, <2>k DEF Splits, SplitFrom
  <2>3. SplitEnd(s, p, n, k, 1) = z BY <1>0, <1>n, <1>z DEF SplitEnd
  <2>4. f[<<k, 1>>] = Cat(<<w>>, <<>>)
    BY ZenonT(60), <1>0, <1>1, <1>z, <2>1, <2>3, <2>w DEF Splits, SplitFrom
  <2>5. w \in S /\ FlattenSeq(w) = Part(c, k, z) BY <1>0, <1>S, <1>c, <2>1, <2>w, SubStreamIs
  <2>6. Cat(<<w>>, <<>>) = <<w>>
    <3>1. <<w>> \in Seq(S) BY <2>5
    <3>. QED BY <3>1, CatEmpty
  <2>7. <<w>> \in Seq(S) /\ Len(<<w>>) = 1 /\ <<w>>[1] = w BY <2>5
  <2>8. Len(x) = 2 /\ x[1] = v /\ x[2] = w
    <3>1. x = Cat(<<v>>, <<w>>) BY <1>0, <2>2, <2>4, <2>6
    <3>2. ConsAt(x, v, <<w>>) BY <1>3, <2>7, <3>1, ConsPlaces
    <3>3. 1 \in 1..1 /\ 1 + 1 = 2 OBVIOUS
    <3>. QED BY <2>7, <3>2, <3>3 DEF ConsAt
  <2>9. p = Part(c, end, k)
    <3>1. Found(p, c, 0) = Matches(p, c, 0, z) BY <1>0, FoundIs
    <3>2. end \in Found(p, c, 0) BY <1>2, <1>5, <3>1
    <3>. QED BY <2>k, <3>2 DEF Found
  <2>10. Cat(Part(c, 0, end), Part(c, end, k)) = Part(c, 0, k) BY <1>0, <2>1, PartJoin
  <2>11. Cat(Part(c, 0, k), Part(c, k, z)) = Part(c, 0, z)
    <3>1. 0 <= k BY <2>1
    <3>. QED BY <1>0, <2>1, <3>1, PartJoin
  <2>12. Part(c, 0, z) = c BY <1>0, WholePart
  <2>13. Cat(Cat(FlattenSeq(v), p), FlattenSeq(w)) = c
    BY <1>3, <2>5, <2>9, <2>10, <2>11, <2>12
  <2>14. Flat(x[1]) \o p \o Flat(x[2]) = c BY <2>8, <2>13 DEF Cat, Flat
  <2>15. Len(x) <= 2 BY <2>8
  <2>16. AtMostTwoReadAs(x, p, c) BY <2>14, <2>15 DEF AtMostTwoReadAs
  <2>. QED BY <1>c, <1>x, <2>16
<1>. QED BY <1>4, <1>5

LEMMA StreamReads ==
  ASSUME NEW s \in Streams(Byte), Size(s) < SizeMax
  PROVE  ReadsAs(s, Flat(s))
<1>1. s \in Streams(Letters) BY LetterStreams
<1>2. CrLf \in Seq(Letters) /\ CrLf # <<>> /\ <<"x">> \in Seq(Letters) /\ <<"x">> # <<>>
  <2>1. \A x \in Seq(Byte) : x \in Seq(Letters) BY DEF Letters
  <2>2. <<"x">> \in Seq(Letters) /\ <<"x">> # <<>> BY DEF Letters
  <2>. QED BY <2>1, <2>2, SeparatorTypes
<1>3. PartsReadAs(s, FlattenSeq(s)) BY PartsAre
<1>4. SearchesReadAs(s, FlattenSeq(s)) BY <1>1, SearchesAre
<1>5. FieldsReadAs(Split(s, CrLf, SizeMax), CrLf, FlattenSeq(s)) BY <1>1, <1>2, FieldsAre
<1>6. AtMostTwoReadAs(Split(s, <<"x">>, 2), <<"x">>, FlattenSeq(s))
  BY <1>1, <1>2, AtMostTwoAre
<1>7. TrimReadsAs(Flat(Trim(s)), FlattenSeq(s)) BY TrimmedIs
<1>. QED BY <1>3, <1>4, <1>5, <1>6, <1>7 DEF ReadsAs, Flat

(***************************************************************************)
(* The header data reads as the bytes it is made of, however they are cut, *)
(* for every text shorter than the largest size: parts, searches, fields,  *)
(* trimming and copying (MemoryStream).                                    *)
(***************************************************************************)
THEOREM HeaderDataReads == Spec => []StreamsReadAsText
<1>1. ASSUME TypeInv, headerData # <<>> PROVE ReadsAs(headerData, Flat(headerData))
  <2>1. /\ headerData \in Streams(Byte) /\ Size(headerData) <= received
        /\ received \in 0..Len(text) /\ text \in Texts \cup LaterTexts \cup {<<>>}
    BY <1>1 DEF TypeInv, ExtractorTypes
  <2>2. Size(headerData) \in Nat /\ Size(headerData) = Len(FlattenSeq(headerData))
        /\ FlattenSeq(headerData) \in Seq(Byte)
    BY <2>1, StreamType, SizeIs, FlattenType
  <2>3. Len(FlattenSeq(headerData)) # 0
    <3>1. FlattenSeq(headerData) # <<>> BY <1>1, <2>1, EmptyStream
    <3>. QED BY <2>2, <3>1
  <2>4. Len(text) \in Nat /\ (text # <<>> => Len(text) < SizeMax) /\ Len(<<>>) = 0
    BY <2>1, TextType
  <2>5. text # <<>> BY <2>1, <2>2, <2>3, <2>4
  <2>6. Size(headerData) < SizeMax BY <2>1, <2>2, <2>4, <2>5, SizeMaxAssumption
  <2>. QED BY <2>1, <2>6, StreamReads
<1>2. TypeInv => StreamsReadAsText BY <1>1 DEF StreamsReadAsText
<1>. QED BY <1>2, AlwaysTypeInv, PTL

=============================================================================
