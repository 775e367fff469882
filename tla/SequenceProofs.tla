---------------------------- MODULE SequenceProofs ----------------------------
(***************************************************************************)
(* Sequences put together from others: what concatenation and FlattenSeq() *)
(* do, for the modules that read texts and streams.                        *)
(*                                                                         *)
(* FlattenSeq() is a recursive function.  What it computes is proved by    *)
(* induction, which is stated for a set here, not for a predicate, and     *)
(* follows from the least element every set of naturals has.               *)
(***************************************************************************)
EXTENDS Naturals, Sequences, SequencesExt, SequenceTheorems,
        WellFoundedInduction, TLAPS

-----------------------------------------------------------------------------
(* Induction. *)

Below == {p \in Nat \X Nat : p[1] < p[2]}

LEMMA BelowWellFounded == IsWellFoundedOn(Below, Nat)
BY NatLessThanWellFounded DEF OpToRel, Below

LEMMA LeastNat ==
  ASSUME NEW T, T \subseteq Nat, T # {}
  PROVE  \E n \in T : \A m \in T : n <= m
<1>1. PICK n \in T : \A m \in T : ~(<<m, n>> \in Below)
  BY WFMin, BelowWellFounded
<1>2. ASSUME NEW m \in T, m < n PROVE FALSE
  <2>1. <<m, n>> \in Below BY <1>2 DEF Below
  <2>. QED BY <2>1, <1>1
<1>. QED BY <1>2

LEMMA NatSetInduction ==
  ASSUME NEW S, 0 \in S, \A n \in Nat : n \in S => n + 1 \in S
  PROVE  Nat \subseteq S
<1>. DEFINE T == Nat \ S
<1>1. SUFFICES ASSUME T # {} PROVE FALSE
  OBVIOUS
<1>2. PICK n \in T : \A m \in T : n <= m
  BY <1>1, LeastNat
<1>3. n # 0 /\ n - 1 \in Nat /\ n - 1 < n
  BY <1>2
<1>4. n - 1 \in S BY <1>2, <1>3
<1>. QED BY <1>2, <1>3, <1>4

\* Up to a bound.
LEMMA UpTo ==
  ASSUME NEW n \in Nat, NEW S, 0 \in S,
         \A i \in 1..n : i - 1 \in S => i \in S
  PROVE  0..n \subseteq S
<1>. DEFINE T == {i \in Nat : i <= n => i \in S}
<1>1. 0 \in T OBVIOUS
<1>2. ASSUME NEW i \in Nat, i \in T PROVE i + 1 \in T
  <2>1. CASE i + 1 <= n
    <3>1. i + 1 \in 1..n /\ (i + 1) - 1 = i /\ i \in S
      BY <1>2, <2>1
    <3>. QED BY <3>1
  <2>2. CASE ~ (i + 1 <= n) BY <2>2
  <2>. QED BY <2>1, <2>2
<1>. HIDE DEF T
<1>3. Nat \subseteq T BY <1>1, <1>2, NatSetInduction
<1>. QED BY <1>3 DEF T

\* Of the numbers up to n in a set, one is the last.
LEMMA LastOne ==
  ASSUME NEW n \in Nat, NEW T, T \subseteq 1..n, T # {}
  PROVE  \E m \in T : \A k \in T : k <= m
<1>1. PICK U : U = {n - k : k \in T}
  OBVIOUS
<1>2. U \subseteq Nat /\ U # {}
  <2>1. \A k \in 1..n : n - k \in Nat OBVIOUS
  <2>2. \A k \in T : n - k \in Nat BY <2>1
  <2>. QED BY <1>1, <2>2
<1>3. PICK u \in U : \A v \in U : u <= v
  BY <1>2, LeastNat
<1>4. PICK m \in T : u = n - m
  BY <1>1, <1>3
<1>5. ASSUME NEW k \in T PROVE k <= m
  <2>1. n - k \in U BY <1>1
  <2>2. n - m <= n - k BY <1>3, <1>4, <2>1
  <2>3. k \in Nat /\ m \in Nat OBVIOUS
  <2>. QED BY <2>2, <2>3
<1>. QED BY <1>5

(* A function computed from one step to the next exists. *)
Steps(f, n, a, F) == f[0] = a /\ \A i \in 1..n : f[i] = F[<<i, f[i - 1]>>]

LEMMA StepsExist ==
  ASSUME NEW n \in Nat, NEW S, NEW a \in S, NEW F \in [(1..n) \X S -> S]
  PROVE  \E f \in [0..n -> S] : Steps(f, n, a, F)
<1>. DEFINE T == {m \in 0..n : \E f \in [0..m -> S] : Steps(f, m, a, F)}
<1>1. 0 \in T
  <2>1. [i \in 0..0 |-> a] \in [0..0 -> S] /\ Steps([i \in 0..0 |-> a], 0, a, F)
    BY DEF Steps
  <2>. QED BY <2>1
<1>2. ASSUME NEW m \in 1..n, m - 1 \in T PROVE m \in T
  <2>1. PICK f \in [0..m - 1 -> S] : Steps(f, m - 1, a, F)
    BY <1>2
  <2>2. PICK g : g = [i \in 0..m |-> IF i = m THEN F[<<m, f[m - 1]>>] ELSE f[i]]
    OBVIOUS
  <2>3. F[<<m, f[m - 1]>>] \in S
    BY <2>1
  <2>4. g \in [0..m -> S]
    BY <2>1, <2>2, <2>3
  <2>5. g[0] = a
    BY <2>1, <2>2 DEF Steps
  <2>6. ASSUME NEW i \in 1..m PROVE g[i] = F[<<i, g[i - 1]>>]
    <3>1. g[i - 1] = f[i - 1] /\ i \in 0..m BY <2>2
    <3>2. CASE i = m BY <2>2, <3>1, <3>2
    <3>3. CASE i # m
      <4>1. i \in 1..m - 1 BY <3>3
      <4>. QED BY <2>1, <2>2, <3>1, <3>3, <4>1 DEF Steps
    <3>. QED BY <3>2, <3>3
  <2>7. Steps(g, m, a, F) BY <2>5, <2>6 DEF Steps
  <2>. QED BY <2>4, <2>7
<1>. HIDE DEF T
<1>3. 0..n \subseteq T BY <1>1, <1>2, UpTo
<1>4. n \in T BY <1>3
<1>. QED BY <1>4 DEF T

-----------------------------------------------------------------------------
(* FlattenSeq(). *)

\* \o, to be expanded only where it matters what it does.
Cat(a, b) == a \o b

\* f[i] is the first i sequences of s, one after the other.
Flattens(f, s) == f[0] = <<>> /\ \A i \in 1..Len(s) : f[i] = Cat(f[i - 1], s[i])

FlattenEquation(f, s) ==
  f = [i \in 1..Len(s) |-> IF i = 1 THEN s[i] ELSE Cat(f[i - 1], s[i])]

LEMMA FlattenIs ==
  ASSUME NEW B, NEW s \in Seq(Seq(B)), s # <<>>
  PROVE  FlattenSeq(s) = (CHOOSE f : FlattenEquation(f, s))[Len(s)]
BY DEF FlattenSeq, FlattenEquation, Cat

LEMMA CatEmpty ==
  ASSUME NEW B, NEW x \in Seq(B)
  PROVE  Cat(<<>>, x) = x /\ Cat(x, <<>>) = x
BY ConcatEmptySeq DEF Cat

LEMMA CatType ==
  ASSUME NEW B, NEW x \in Seq(B), NEW y \in Seq(B)
  PROVE  Cat(x, y) \in Seq(B)
BY ConcatProperties DEF Cat

LEMMA CatAssociative ==
  ASSUME NEW B, NEW x \in Seq(B), NEW y \in Seq(B), NEW z \in Seq(B)
  PROVE  Cat(x, Cat(y, z)) = Cat(Cat(x, y), z)
BY SMTT(60), ConcatAssociative DEF Cat

\* What is where in c, the concatenation of x and y.
Places(c, x, y) ==
  /\ Len(c) = Len(x) + Len(y)
  /\ \A i \in 1..Len(x) : c[i] = x[i]
  /\ \A i \in 1..Len(y) : c[Len(x) + i] = y[i]

LEMMA CatPlaces ==
  ASSUME NEW B, NEW x \in Seq(B), NEW y \in Seq(B)
  PROVE  Places(Cat(x, y), x, y)
<1>1. /\ Len(Cat(x, y)) = Len(x) + Len(y)
      /\ \A i \in 1..Len(x) + Len(y) :
           Cat(x, y)[i] = IF i <= Len(x) THEN x[i] ELSE y[i - Len(x)]
  BY ConcatProperties DEF Cat
<1>2. Len(x) \in Nat /\ Len(y) \in Nat
  OBVIOUS
<1>3. ASSUME NEW i \in 1..Len(x) PROVE Cat(x, y)[i] = x[i]
  <2>1. i \in 1..Len(x) + Len(y) /\ i <= Len(x) BY <1>2
  <2>. QED BY <1>1, <2>1
<1>4. ASSUME NEW i \in 1..Len(y) PROVE Cat(x, y)[Len(x) + i] = y[i]
  <2>1. /\ Len(x) + i \in 1..Len(x) + Len(y)
        /\ ~ (Len(x) + i <= Len(x))
        /\ (Len(x) + i) - Len(x) = i
    BY <1>2
  <2>. QED BY <1>1, <2>1
<1>. QED BY <1>1, <1>3, <1>4 DEF Places

ConsAt(c, x, s) ==
  Len(c) = Len(s) + 1 /\ c[1] = x /\ \A i \in 1..Len(s) : c[i + 1] = s[i]

LEMMA ConsPlaces ==
  ASSUME NEW B, NEW x \in B, NEW s \in Seq(B)
  PROVE  Cat(<<x>>, s) \in Seq(B) /\ ConsAt(Cat(<<x>>, s), x, s)
<1>. PICK o : o = <<x>>
  OBVIOUS
<1>. PICK t : t = Cat(o, s)
  OBVIOUS
<1>1. o \in Seq(B) /\ Len(o) = 1 /\ o[1] = x
  OBVIOUS
<1>2. t \in Seq(B)
  BY <1>1, CatType
<1>3. Places(t, o, s)
  BY <1>1, CatPlaces
<1>4. Len(t) = Len(s) + 1 /\ t[1] = x
  BY <1>1, <1>3 DEF Places
<1>5. ASSUME NEW i \in 1..Len(s) PROVE t[i + 1] = s[i]
  <2>1. Len(o) + i = i + 1 BY <1>1
  <2>. QED BY <1>3, <2>1 DEF Places
<1>. QED BY <1>2, <1>4, <1>5 DEF ConsAt

LEMMA FlattensExists ==
  ASSUME NEW B, NEW s \in Seq(Seq(B))
  PROVE  \E f \in [0..Len(s) -> Seq(B)] : Flattens(f, s)
<1>. DEFINE F == [p \in (1..Len(s)) \X Seq(B) |-> Cat(p[2], s[p[1]])]
<1>1. F \in [(1..Len(s)) \X Seq(B) -> Seq(B)]
  <2>1. ASSUME NEW p \in (1..Len(s)) \X Seq(B) PROVE Cat(p[2], s[p[1]]) \in Seq(B)
    <3>1. p[2] \in Seq(B) /\ s[p[1]] \in Seq(B) BY ElementOfSeq
    <3>. QED BY <3>1, CatType
  <2>. QED BY <2>1
<1>2. <<>> \in Seq(B) /\ Len(s) \in Nat
  OBVIOUS
<1>3. \A i \in 1..Len(s), x \in Seq(B) : F[<<i, x>>] = Cat(x, s[i])
  OBVIOUS
<1>. HIDE DEF F
<1>4. PICK f \in [0..Len(s) -> Seq(B)] : Steps(f, Len(s), <<>>, F)
  BY <1>1, <1>2, StepsExist
<1>5. \A i \in 1..Len(s) : f[i - 1] \in Seq(B)
  BY SMTT(60), <1>2, <1>4
<1>6. Flattens(f, s)
  BY <1>3, <1>4, <1>5 DEF Steps, Flattens
<1>. QED BY <1>6

LEMMA FlattensOnce ==
  ASSUME NEW s, NEW f, NEW g, Len(s) \in Nat, Flattens(f, s), Flattens(g, s)
  PROVE  \A i \in 0..Len(s) : f[i] = g[i]
<1>. DEFINE T == {i \in 0..Len(s) : f[i] = g[i]}
<1>1. 0 \in T BY DEF Flattens
<1>2. ASSUME NEW i \in 1..Len(s), i - 1 \in T PROVE i \in T
  BY <1>2 DEF Flattens
<1>. HIDE DEF T
<1>3. 0..Len(s) \subseteq T BY <1>1, <1>2, UpTo
<1>. QED BY <1>3 DEF T

LEMMA FlattenSeqIs ==
  ASSUME NEW B, NEW s \in Seq(Seq(B)), NEW f, Flattens(f, s)
  PROVE  FlattenSeq(s) = f[Len(s)]
<1>. PICK n : n = Len(s)
  OBVIOUS
<1>1. CASE s = <<>>
  BY <1>1 DEF FlattenSeq, Flattens
<1>2. CASE s # <<>>
  <2>0. n \in Nat /\ n >= 1 BY <1>2
  <2>1. PICK g \in [0..n -> Seq(B)] : Flattens(g, s)
    BY FlattensExists
  <2>2. PICK h : h = [i \in 1..n |-> g[i]]
    OBVIOUS
  <2>3. \A i \in 1..n : s[i] \in Seq(B) BY ElementOfSeq
  <2>4. ASSUME NEW i \in 1..n
        PROVE  h[i] = IF i = 1 THEN s[i] ELSE Cat(h[i - 1], s[i])
    <3>1. CASE i = 1
      <4>1. g[1] = Cat(<<>>, s[1]) BY <2>0, <2>1, <3>1 DEF Flattens
      <4>2. Cat(<<>>, s[1]) = s[1] BY <2>0, <2>3, CatEmpty
      <4>. QED BY <2>2, <3>1, <4>1, <4>2
    <3>2. CASE i # 1
      <4>1. i - 1 \in 1..n BY <2>0, <3>2
      <4>2. g[i] = Cat(g[i - 1], s[i]) BY <2>1 DEF Flattens
      <4>. QED BY <2>2, <3>2, <4>1, <4>2
    <3>. QED BY <3>1, <3>2
  <2>5. FlattenEquation(h, s)
    BY <2>2, <2>4 DEF FlattenEquation
  <2>6. PICK e : e = CHOOSE x : FlattenEquation(x, s)
    OBVIOUS
  <2>7. FlattenEquation(e, s)
    BY <2>5, <2>6
  <2>8. PICK d : d = [i \in 0..n |-> IF i = 0 THEN <<>> ELSE e[i]]
    OBVIOUS
  <2>9. ASSUME NEW i \in 1..n PROVE d[i] = Cat(d[i - 1], s[i])
    <3>0. e[i] = IF i = 1 THEN s[i] ELSE Cat(e[i - 1], s[i])
      BY <2>7 DEF FlattenEquation
    <3>1. CASE i = 1
      <4>1. d[0] = <<>> /\ d[1] = e[1] BY <2>0, <2>8
      <4>2. Cat(<<>>, s[1]) = s[1] BY <2>0, <2>3, CatEmpty
      <4>. QED BY <3>0, <3>1, <4>1, <4>2
    <3>2. CASE i # 1
      <4>1. i - 1 \in 0..n /\ i - 1 # 0 /\ i \in 0..n /\ i # 0 BY <2>0, <3>2
      <4>2. d[i] = e[i] /\ d[i - 1] = e[i - 1] BY <2>8, <4>1
      <4>. QED BY <3>0, <3>2, <4>2
    <3>. QED BY <3>1, <3>2
  <2>10. d[0] = f[0] BY <2>0, <2>8 DEF Flattens
  <2>12. Flattens(d, s)
    BY <2>9, <2>10 DEF Flattens
  <2>13. d[n] = e[n] BY <2>0, <2>8
  <2>14. FlattenSeq(s) = e[n]
    BY <1>2, <2>6, FlattenIs
  <2>. QED BY <2>0, <2>12, <2>13, <2>14, FlattensOnce
<1>. QED BY <1>1, <1>2

LEMMA FlattenEmpty == FlattenSeq(<<>>) = <<>>
BY DEF FlattenSeq

LEMMA FlattenType ==
  ASSUME NEW B, NEW s \in Seq(Seq(B))
  PROVE  FlattenSeq(s) \in Seq(B)
<1>1. PICK f \in [0..Len(s) -> Seq(B)] : Flattens(f, s)
  BY FlattensExists
<1>2. FlattenSeq(s) = f[Len(s)] BY <1>1, FlattenSeqIs
<1>3. Len(s) \in 0..Len(s) OBVIOUS
<1>. QED BY <1>1, <1>2, <1>3

LEMMA FlattenAppend ==
  ASSUME NEW B, NEW s \in Seq(Seq(B)), NEW x \in Seq(B)
  PROVE  FlattenSeq(Append(s, x)) = Cat(FlattenSeq(s), x)
<1>. PICK n : n = Len(s)
  OBVIOUS
<1>. PICK t : t = Append(s, x)
  OBVIOUS
<1>0. n \in Nat OBVIOUS
<1>1. PICK f \in [0..n -> Seq(B)] : Flattens(f, s)
  BY FlattensExists
<1>2. PICK g : g = [i \in 0..n + 1 |-> IF i = n + 1 THEN Cat(f[n], x) ELSE f[i]]
  OBVIOUS
<1>3. /\ t \in Seq(Seq(B)) /\ Len(t) = n + 1 /\ t[n + 1] = x
      /\ \A i \in 1..n : t[i] = s[i]
  BY AppendProperties
<1>4. ASSUME NEW i \in 1..n + 1 PROVE g[i] = Cat(g[i - 1], t[i])
  <2>1. CASE i = n + 1
    <3>1. i - 1 = n /\ n \in 0..n + 1 /\ i \in 0..n + 1 /\ n # n + 1 BY <1>0, <2>1
    <3>2. g[i] = Cat(f[n], x) /\ g[i - 1] = f[n] BY <1>2, <2>1, <3>1
    <3>. QED BY <1>3, <2>1, <3>2
  <2>2. CASE i # n + 1
    <3>1. i \in 1..n /\ i \in 0..n + 1 /\ i - 1 \in 0..n + 1 /\ i - 1 # n + 1
      BY <1>0, <2>2
    <3>2. g[i] = f[i] /\ g[i - 1] = f[i - 1] BY <1>2, <2>2, <3>1
    <3>3. f[i] = Cat(f[i - 1], s[i]) BY <1>1, <3>1 DEF Flattens
    <3>. QED BY <1>3, <3>1, <3>2, <3>3
  <2>. QED BY <2>1, <2>2
<1>5. g[0] = <<>> BY <1>0, <1>1, <1>2 DEF Flattens
<1>6. Flattens(g, t) BY <1>3, <1>4, <1>5 DEF Flattens
<1>7. FlattenSeq(t) = g[n + 1] BY <1>3, <1>6, FlattenSeqIs
<1>8. FlattenSeq(s) = f[n] BY <1>1, FlattenSeqIs
<1>9. g[n + 1] = Cat(f[n], x) BY <1>0, <1>2
<1>. QED BY <1>7, <1>8, <1>9

LEMMA FlattenOne ==
  ASSUME NEW B, NEW x \in Seq(B)
  PROVE  FlattenSeq(<<x>>) = x
<1>1. <<>> \in Seq(Seq(B)) /\ Append(<<>>, x) = <<x>>
  OBVIOUS
<1>2. FlattenSeq(<<x>>) = Cat(<<>>, x)
  BY <1>1, FlattenAppend, FlattenEmpty
<1>. QED BY <1>2, CatEmpty

\* x comes first.
LEMMA FlattenCons ==
  ASSUME NEW B, NEW s \in Seq(Seq(B)), NEW x \in Seq(B)
  PROVE  FlattenSeq(Cat(<<x>>, s)) = Cat(x, FlattenSeq(s))
<1>. PICK n : n = Len(s)
  OBVIOUS
<1>. PICK t : t = Cat(<<x>>, s)
  OBVIOUS
<1>0. n \in Nat OBVIOUS
<1>1. PICK f \in [0..n -> Seq(B)] : Flattens(f, s)
  BY FlattensExists
<1>2. PICK g : g = [i \in 0..n + 1 |-> IF i = 0 THEN <<>> ELSE Cat(x, f[i - 1])]
  OBVIOUS
<1>3. /\ t \in Seq(Seq(B)) /\ Len(t) = n + 1 /\ t[1] = x
      /\ \A i \in 2..n + 1 : t[i] = s[i - 1]
  <2>1. t \in Seq(Seq(B)) /\ ConsAt(t, x, s)
    BY ConsPlaces
  <2>2. ASSUME NEW i \in 2..n + 1 PROVE t[i] = s[i - 1]
    <3>1. i - 1 \in 1..n /\ (i - 1) + 1 = i BY <1>0
    <3>. QED BY <2>1, <3>1 DEF ConsAt
  <2>. QED BY <2>1, <2>2 DEF ConsAt
<1>4. ASSUME NEW i \in 1..n + 1 PROVE g[i] = Cat(g[i - 1], t[i])
  <2>0. i \in 0..n + 1 /\ i # 0 /\ i - 1 \in 0..n + 1 /\ i - 1 \in 0..n
    BY <1>0
  <2>1. CASE i = 1
    <3>1. g[i] = Cat(x, f[0]) /\ g[i - 1] = <<>> BY <1>2, <2>0, <2>1
    <3>2. f[0] = <<>> BY <1>1 DEF Flattens
    <3>3. Cat(x, <<>>) = x /\ Cat(<<>>, x) = x BY CatEmpty
    <3>. QED BY <1>3, <2>1, <3>1, <3>2, <3>3
  <2>2. CASE i # 1
    <3>1. i - 1 \in 1..n /\ i \in 2..n + 1 /\ (i - 1) - 1 = i - 2 /\ i - 2 \in 0..n
      BY <1>0, <2>2
    <3>2. g[i] = Cat(x, f[i - 1]) /\ g[i - 1] = Cat(x, f[i - 2])
      BY SMTT(60), <1>2, <2>0, <3>1
    <3>3. f[i - 1] = Cat(f[i - 2], s[i - 1])
      BY <1>1, <3>1 DEF Flattens
    <3>4. f[i - 2] \in Seq(B) /\ s[i - 1] \in Seq(B)
      BY <1>1, <3>1, ElementOfSeq
    <3>5. Cat(x, Cat(f[i - 2], s[i - 1])) = Cat(Cat(x, f[i - 2]), s[i - 1])
      BY <3>4, CatAssociative
    <3>. QED BY <1>3, <3>1, <3>2, <3>3, <3>5
  <2>. QED BY <2>1, <2>2
<1>5. g[0] = <<>> BY <1>0, <1>2
<1>6. Flattens(g, t) BY <1>3, <1>4, <1>5 DEF Flattens
<1>7. FlattenSeq(t) = g[n + 1] BY <1>3, <1>6, FlattenSeqIs
<1>8. FlattenSeq(s) = f[n] BY <1>1, FlattenSeqIs
<1>9. g[n + 1] = Cat(x, f[n]) BY <1>0, <1>2
<1>. QED BY <1>7, <1>8, <1>9

-----------------------------------------------------------------------------
(* Where the parts of a sequence are. *)

\* All of the parts in order, the k-th behind the first start[k - 1] elements.
Chunks(all, parts, start) ==
  /\ start[0] = 0
  /\ start[Len(parts)] = Len(all)
  /\ \A j, k \in 0..Len(parts) : j <= k => start[j] <= start[k]
  /\ \A k \in 1..Len(parts) :
       /\ start[k] = start[k - 1] + Len(parts[k])
       /\ \A o \in 1..Len(parts[k]) : all[start[k - 1] + o] = parts[k][o]
  /\ \A q \in 1..Len(all) : \E k \in 1..Len(parts) :
       \E o \in 1..Len(parts[k]) : q = start[k - 1] + o

\* FlattenSeq() puts the parts one behind the other, and nothing else: MemoryStream
\* goes by buffer and offset, and what it returns is said of the text.
LEMMA FlattenChunks ==
  ASSUME NEW B, NEW s \in Seq(Seq(B))
  PROVE  \E start \in [0..Len(s) -> Nat] : Chunks(FlattenSeq(s), s, start)
<1>. PICK n : n = Len(s)
  OBVIOUS
<1>0. n \in Nat
  OBVIOUS
<1>1. PICK f \in [0..n -> Seq(B)] : Flattens(f, s)
  BY FlattensExists
<1>2. FlattenSeq(s) = f[n]
  BY <1>1, FlattenSeqIs
<1>3. PICK start : start = [i \in 0..n |-> Len(f[i])]
  OBVIOUS
<1>4. \A i \in 0..n : start[i] \in Nat /\ start[i] = Len(f[i])
  BY <1>1, <1>3
<1>5. start \in [0..n -> Nat]
  BY <1>3, <1>4
<1>6. ASSUME NEW k \in 1..n
      PROVE  /\ Places(f[k], f[k - 1], s[k])
             /\ k \in 0..n /\ k - 1 \in 0..n
             /\ Len(s[k]) \in Nat
             /\ start[k] = start[k - 1] + Len(s[k])
  <2>1. k \in 0..n /\ k - 1 \in 0..n
    BY <1>0
  <2>2. f[k - 1] \in Seq(B) /\ s[k] \in Seq(B) /\ f[k] = Cat(f[k - 1], s[k])
    BY <1>1, <2>1, ElementOfSeq DEF Flattens
  <2>3. Places(f[k], f[k - 1], s[k])
    BY <2>2, CatPlaces
  <2>4. start[k] = start[k - 1] + Len(s[k])
    BY <1>4, <2>1, <2>3 DEF Places
  <2>. QED BY <2>1, <2>2, <2>3, <2>4
<1>7. ASSUME NEW j \in 0..n, NEW k \in 0..n, j <= k
      PROVE  /\ start[j] <= start[k]
             /\ \A q \in 1..start[j] : f[k][q] = f[j][q]
  <2>. DEFINE T == {i \in 0..n : j <= i =>
                     /\ start[j] <= start[i]
                     /\ \A q \in 1..start[j] : f[i][q] = f[j][q]}
  <2>1. 0 \in T
    <3>1. j <= 0 => j = 0 /\ 0 \in 0..n BY <1>0
    <3>2. start[0] <= start[0] BY <1>0, <1>4
    <3>. QED BY <1>0, <3>1, <3>2
  <2>2. ASSUME NEW i \in 1..n, i - 1 \in T PROVE i \in T
    <3>1. i \in 0..n BY <1>0
    <3>2. CASE j <= i - 1
      <4>1. /\ start[j] <= start[i - 1]
            /\ \A q \in 1..start[j] : f[i - 1][q] = f[j][q]
        BY <2>2, <3>2
      <4>2. /\ start[j] \in Nat /\ start[i - 1] \in Nat /\ start[i] \in Nat
            /\ Len(s[i]) \in Nat /\ start[i] = start[i - 1] + Len(s[i])
            /\ start[i - 1] = Len(f[i - 1])
            /\ Places(f[i], f[i - 1], s[i])
        BY <1>4, <1>6
      <4>3. start[j] <= start[i]
        <5>1. \A a, b, c, d \in Nat : a <= b /\ d = b + c => a <= d OBVIOUS
        <5>. QED BY <4>1, <4>2, <5>1
      <4>4. ASSUME NEW q \in 1..start[j] PROVE f[i][q] = f[j][q]
        <5>1. q \in 1..Len(f[i - 1]) BY <4>1, <4>2
        <5>2. f[i][q] = f[i - 1][q] BY <4>2, <5>1 DEF Places
        <5>. QED BY <4>1, <5>2
      <4>. QED BY <3>1, <4>3, <4>4
    <3>3. CASE i = j
      <4>1. start[i] <= start[i] BY <1>4, <3>1
      <4>. QED BY <3>1, <3>3, <4>1
    <3>4. CASE ~ (j <= i)
      BY <3>1, <3>4
    <3>. QED BY <3>2, <3>3, <3>4
  <2>. HIDE DEF T
  <2>3. 0..n \subseteq T BY <1>0, <2>1, <2>2, UpTo
  <2>4. k \in T BY <2>3
  <2>. QED BY <1>7, <2>4 DEF T
<1>8. ASSUME NEW k \in 1..n, NEW o \in 1..Len(s[k])
      PROVE  f[n][start[k - 1] + o] = s[k][o]
  <2>1. /\ Places(f[k], f[k - 1], s[k]) /\ k \in 0..n /\ k <= n /\ n \in 0..n
        /\ Len(s[k]) \in Nat /\ start[k] = start[k - 1] + Len(s[k])
        /\ start[k - 1] \in Nat /\ start[k - 1] = Len(f[k - 1])
    BY <1>0, <1>4, <1>6
  <2>2. start[k - 1] + o \in 1..start[k]
    <3>1. \A a, b : a \in Nat /\ b \in Nat /\ o \in 1..b => a + o \in 1..a + b OBVIOUS
    <3>. QED BY <2>1, <3>1
  <2>3. f[n][start[k - 1] + o] = f[k][start[k - 1] + o] BY <1>7, <2>1, <2>2
  <2>. QED BY <2>1, <2>3 DEF Places
<1>9. \A q \in 1..start[n] : \E k \in 1..n : \E o \in 1..Len(s[k]) : q = start[k - 1] + o
  <2>. DEFINE Found(q) == \E k \in 1..n : \E o \in 1..Len(s[k]) : q = start[k - 1] + o
              T == {i \in 0..n : \A q \in 1..start[i] : Found(q)}
  <2>1. 0 \in T
    <3>1. start[0] = 0 BY <1>0, <1>1, <1>4 DEF Flattens
    <3>. QED BY <1>0, <3>1
  <2>2. ASSUME NEW i \in 1..n, i - 1 \in T PROVE i \in T
    <3>1. /\ i \in 0..n /\ Len(s[i]) \in Nat /\ start[i - 1] \in Nat
          /\ start[i] = start[i - 1] + Len(s[i])
      BY <1>4, <1>6
    <3>2. ASSUME NEW q \in 1..start[i] PROVE Found(q)
      <4>1. CASE q <= start[i - 1]
        <5>1. q \in 1..start[i - 1] BY <3>1, <4>1
        <5>. QED BY <2>2, <5>1
      <4>2. CASE ~ (q <= start[i - 1])
        <5>1. /\ q - start[i - 1] \in 1..Len(s[i])
              /\ q = start[i - 1] + (q - start[i - 1])
          BY <3>1, <4>2
        <5>. QED BY <5>1
      <4>. QED BY <4>1, <4>2
    <3>. QED BY <3>1, <3>2
  <2>. HIDE DEF T
  <2>3. 0..n \subseteq T BY <1>0, <2>1, <2>2, UpTo
  <2>4. n \in 0..n BY <1>0
  <2>5. n \in T BY <2>3, <2>4
  <2>. QED BY <2>5 DEF T
<1>10. start[0] = 0 /\ start[n] = Len(f[n])
  <2>1. f[0] = <<>> BY <1>1 DEF Flattens
  <2>. QED BY <1>0, <1>4, <2>1
<1>11. start[n] = Len(FlattenSeq(s))
  BY <1>2, <1>10
<1>12. Chunks(FlattenSeq(s), s, start)
  BY <1>2, <1>6, <1>7, <1>8, <1>9, <1>10, <1>11 DEF Chunks
<1>. QED BY <1>5, <1>12

=============================================================================
