------------------------- MODULE ManagedTextProofs -------------------------
(***************************************************************************)
(* What a mutation of a page writes is read back as what is recorded, and  *)
(* writing it again changes nothing; it keeps the lines of the user, and a *)
(* line the user adds changes nothing: for all texts, bodies and edits.    *)
(***************************************************************************)
EXTENDS ManagedText, SequenceTheorems, FiniteSetTheorems, WellFoundedInduction, TLAPS

-----------------------------------------------------------------------------
(* Sets of numbers *)

LEMMA NatLess == IsWellFoundedOn({ss \in Nat \X Nat : ss[1] < ss[2]}, Nat)
  BY NatLessThanWellFounded, Zenon DEF OpToRel

\* Min is the least element of a set of numbers that has one.
LEMMA LeastIs ==
  ASSUME NEW S \in SUBSET Nat, NEW e \in S
  PROVE  Min(S) \in S /\ \A k \in S : Min(S) <= k
<1>1. PICK n \in S : \A k \in S : ~ (<<k, n>> \in {ss \in Nat \X Nat : ss[1] < ss[2]})
  BY NatLess, WFMin, Zenon
<1>2. ASSUME NEW k \in S PROVE n <= k
  <2>1. ~ (<<k, n>> \in {ss \in Nat \X Nat : ss[1] < ss[2]})
    BY <1>1
  <2>2. k \in Nat /\ n \in Nat
    OBVIOUS
  <2>3. ~(k < n)
    BY <2>1, <2>2
  <2> QED BY <2>2, <2>3
<1> QED BY <1>2 DEF Min

\* Max is the greatest element of a bounded set of numbers that has one.
LEMMA GreatestIs ==
  ASSUME NEW n \in Nat, NEW S \in SUBSET (0 .. n), S # {}
  PROVE  Max(S) \in S /\ \A k \in S : k <= Max(S)
<1> DEFINE R == {n - k : k \in S}
<1>1. R \in SUBSET Nat /\ R # {}
  <2>1. ASSUME NEW k \in S PROVE n - k \in Nat
    <3>1. k \in 0 .. n
      OBVIOUS
    <3> QED BY <3>1
  <2> QED BY <2>1
<1> HIDE DEF R
<1>2. Min(R) \in R /\ \A k \in R : Min(R) <= k
  BY <1>1, LeastIs
<1>3. PICK m \in S : Min(R) = n - m
  BY <1>2 DEF R
<1>4. ASSUME NEW k \in S PROVE k <= m
  <2>1. n - k \in R /\ k \in 0 .. n /\ m \in 0 .. n
    BY <1>3 DEF R
  <2> QED BY <2>1, <1>2, <1>3
<1> QED BY <1>4 DEF Max

-----------------------------------------------------------------------------
(* Where a token stands *)

LEMMA Places ==
  ASSUME NEW T, NEW t \in Seq(T), NEW k
  PROVE  /\ IsFiniteSet({i \in DOMAIN t : t[i] = k})
         /\ Count(t, k) \in Nat
         /\ Count(t, k) = 0 <=> k \notin Range(t)
<1>1. DOMAIN t = 1 .. Len(t) /\ Len(t) \in Nat
  OBVIOUS
<1>2. IsFiniteSet(DOMAIN t)
  BY <1>1, FS_Interval
<1>3. \A S : S \subseteq DOMAIN t => IsFiniteSet(S)
  BY <1>2, FS_Subset
<1>4. IsFiniteSet({i \in DOMAIN t : t[i] = k})
  BY <1>3
<1>5. Count(t, k) \in Nat
  BY <1>4, FS_CardinalityType DEF Count
<1>6. Count(t, k) = 0 <=> {i \in DOMAIN t : t[i] = k} = {}
  BY <1>4, FS_EmptySet DEF Count
<1> QED BY <1>4, <1>5, <1>6 DEF Range

LEMMA Once ==
  ASSUME NEW T, NEW t \in Seq(T), NEW k, Count(t, k) = 1
  PROVE  /\ At(t, k) \in DOMAIN t /\ t[At(t, k)] = k
         /\ \A i \in DOMAIN t : t[i] = k => i = At(t, k)
<1>1. IsFiniteSet({i \in DOMAIN t : t[i] = k}) /\ Cardinality({i \in DOMAIN t : t[i] = k}) = 1
  BY Places DEF Count
<1>2. PICK n : {i \in DOMAIN t : t[i] = k} = {n}
  BY <1>1, FS_Singleton, Zenon
<1>3. n \in DOMAIN t /\ t[n] = k /\ \A i \in DOMAIN t : t[i] = k => i = n
  BY <1>2
<1> QED BY <1>3 DEF At

LEMMA OnceAt ==
  ASSUME NEW T, NEW t \in Seq(T), NEW k, NEW n \in DOMAIN t, t[n] = k,
         \A i \in DOMAIN t : t[i] = k => i = n
  PROVE  Count(t, k) = 1 /\ At(t, k) = n
<1>1. {i \in DOMAIN t : t[i] = k} = {n}
  OBVIOUS
<1>2. Count(t, k) = 1
  BY <1>1, FS_Singleton DEF Count
<1> QED BY <1>1, <1>2, Once

LEMMA Twice ==
  ASSUME NEW T, NEW t \in Seq(T), NEW k, NEW m \in DOMAIN t, NEW n \in DOMAIN t,
         m # n, t[m] = k, t[n] = k
  PROVE  Count(t, k) > 1
<1>1. Count(t, k) # 1
  BY Once
<1>2. Count(t, k) # 0
  BY Places DEF Range
<1>3. Count(t, k) \in Nat
  BY Places
<1> QED BY <1>1, <1>2, <1>3

-----------------------------------------------------------------------------
(* A region: what stands before it, its content, and what follows *)

One(k) == <<k>>

LEMMA OneIs ==
  ASSUME NEW T, NEW k \in T
  PROVE  One(k) \in Seq(T) /\ Range(One(k)) = {k} /\ Len(One(k)) = 1 /\ One(k)[1] = k
BY DEF One, Range

LEMMA Concat ==
  ASSUME NEW T, NEW s \in Seq(T), NEW t \in Seq(T)
  PROVE  s \o t \in Seq(T) /\ Range(s \o t) = Range(s) \cup Range(t)
<1>1. s \o t \in Seq(T)
  BY ConcatProperties
<1> QED BY <1>1, RangeConcatenation, ZenonT(60)

Around(a, start, c, end, z) == ((a \o One(start)) \o c) \o (One(end) \o z)

\* What stands where in it.
Laid(t, a, start, c, end, z) ==
  /\ Len(t) = Len(a) + Len(c) + Len(z) + 2
  /\ \A i \in 1 .. Len(a) : t[i] = a[i]
  /\ t[Len(a) + 1] = start
  /\ \A i \in 1 .. Len(c) : t[Len(a) + 1 + i] = c[i]
  /\ t[Len(a) + Len(c) + 2] = end
  /\ \A i \in 1 .. Len(z) : t[Len(a) + Len(c) + 2 + i] = z[i]

LEMMA AroundIs ==
  ASSUME NEW T, NEW a \in Seq(T), NEW c \in Seq(T), NEW z \in Seq(T),
         NEW start \in T, NEW end \in T
  PROVE  /\ Around(a, start, c, end, z) \in Seq(T)
         /\ Laid(Around(a, start, c, end, z), a, start, c, end, z)
<1> PICK t : t = Around(a, start, c, end, z)
  OBVIOUS
<1> DEFINE x == a \o One(start)   y == One(end) \o z   v == c \o y
<1>1. x \in Seq(T) /\ Len(x) = Len(a) + 1 /\ x[Len(a) + 1] = start
      /\ \A i \in 1 .. Len(a) : x[i] = a[i]
  BY DEF One
<1>2. y \in Seq(T) /\ Len(y) = Len(z) + 1 /\ y[1] = end
      /\ \A i \in 1 .. Len(z) : y[1 + i] = z[i]
  BY DEF One
<1> HIDE DEF x, y
<1>3. v \in Seq(T) /\ Len(v) = Len(c) + Len(z) + 1 /\ v[Len(c) + 1] = end
      /\ (\A i \in 1 .. Len(c) : v[i] = c[i])
      /\ \A i \in 1 .. Len(z) : v[Len(c) + 1 + i] = z[i]
  <2>1. \A i \in 1 .. Len(c) + Len(y) : v[i] = IF i <= Len(c) THEN c[i] ELSE y[i - Len(c)]
    BY <1>2, ConcatProperties
  <2>2. v \in Seq(T) /\ Len(v) = Len(c) + Len(y)
    BY <1>2, ConcatProperties
  <2>3. \A i \in 1 .. Len(z) : v[Len(c) + 1 + i] = y[1 + i]
    BY <1>2, <2>1
  <2> QED BY <1>2, <2>1, <2>2, <2>3
<1> HIDE DEF v
<1>4. t = x \o v
  <2>1. (x \o c) \o y = x \o (c \o y)
    BY <1>1, <1>2, SMTT(40)
  <2> QED BY <2>1 DEF Around, x, y, v
<1>5. x \o v \in Seq(T) /\ Len(x \o v) = Len(x) + Len(v)
      /\ \A i \in 1 .. Len(x) + Len(v) : (x \o v)[i] = IF i <= Len(x) THEN x[i] ELSE v[i - Len(x)]
  BY <1>1, <1>3, ConcatProperties
<1>6. t \in Seq(T) /\ Len(t) = Len(x) + Len(v)
      /\ \A i \in 1 .. Len(x) + Len(v) : t[i] = IF i <= Len(x) THEN x[i] ELSE v[i - Len(x)]
  BY <1>4, <1>5
<1>7. ASSUME NEW i \in 1 .. Len(v) PROVE t[Len(a) + 1 + i] = v[i]
  <2>1. Len(a) + 1 + i \in 1 .. Len(x) + Len(v) /\ ~(Len(a) + 1 + i <= Len(x))
        /\ Len(a) + 1 + i - Len(x) = i
    BY <1>1, <1>3
  <2> QED BY <1>6, <2>1
<1>8. ASSUME NEW i \in 1 .. Len(a) + 1 PROVE t[i] = x[i]
  <2>1. i \in 1 .. Len(x) + Len(v) /\ i <= Len(x)
    BY <1>1, <1>3
  <2> QED BY <1>6, <2>1
<1>9. \A i \in 1 .. Len(c) : t[Len(a) + 1 + i] = c[i]
  <2>1. \A i \in 1 .. Len(c) : i \in 1 .. Len(v)
    BY <1>3
  <2> QED BY <1>3, <1>7, <2>1
<1>10. t[Len(a) + Len(c) + 2] = end
  <2>1. Len(c) + 1 \in 1 .. Len(v) /\ Len(a) + Len(c) + 2 = Len(a) + 1 + (Len(c) + 1)
    BY <1>3
  <2> QED BY <1>3, <1>7, <2>1
<1>11. ASSUME NEW i \in 1 .. Len(z) PROVE t[Len(a) + Len(c) + 2 + i] = z[i]
  <2>1. Len(c) + 1 + i \in 1 .. Len(v)
        /\ Len(a) + Len(c) + 2 + i = Len(a) + 1 + (Len(c) + 1 + i)
    BY <1>3
  <2> QED BY <1>3, <1>7, <2>1
<1>12. (\A i \in 1 .. Len(a) : t[i] = a[i]) /\ t[Len(a) + 1] = start
  <2>1. Len(a) + 1 \in 1 .. Len(a) + 1 /\ \A i \in 1 .. Len(a) : i \in 1 .. Len(a) + 1
    OBVIOUS
  <2> QED BY <1>1, <1>8, <2>1
<1>13. Len(t) = Len(a) + Len(c) + Len(z) + 2
  BY <1>1, <1>3, <1>6
<1> QED BY <1>6, <1>9, <1>10, <1>11, <1>12, <1>13 DEF Laid

Free(t, start, end) == {start, end} \cap Range(t) = {}

Found(t, a, start, c, end, z) ==
  /\ Count(t, start) = 1 /\ Count(t, end) = 1
  /\ At(t, start) = Len(a) + 1 /\ At(t, end) = Len(a) + Len(c) + 2
  /\ SubSeq(t, 1, At(t, start)) = a \o One(start)
  /\ Content(t, start, end) = c
  /\ FromEndMarker(t, end) = One(end) \o z

\* Where a and z, and c, hold neither marker, the region is found.
LEMMA RegionFound ==
  ASSUME NEW T, NEW a \in Seq(T), NEW c \in Seq(T), NEW z \in Seq(T),
         NEW start \in T, NEW end \in T, start # end,
         Free(a, start, end), Free(c, start, end), Free(z, start, end)
  PROVE  Found(Around(a, start, c, end, z), a, start, c, end, z)
<1>0. PICK t : t = Around(a, start, c, end, z)
  OBVIOUS
<1> DEFINE n == Len(a) + 1   m == Len(a) + Len(c) + 2
<1>1. /\ t \in Seq(T) /\ Len(t) = Len(a) + Len(c) + Len(z) + 2
      /\ \A i \in 1 .. Len(a) : t[i] = a[i]
      /\ t[n] = start
      /\ \A i \in 1 .. Len(c) : t[n + i] = c[i]
      /\ t[m] = end
      /\ \A i \in 1 .. Len(z) : t[m + i] = z[i]
  <2>1. /\ t \in Seq(T) /\ Len(t) = Len(a) + Len(c) + Len(z) + 2
        /\ \A i \in 1 .. Len(a) : t[i] = a[i]
        /\ t[Len(a) + 1] = start
        /\ \A i \in 1 .. Len(c) : t[Len(a) + 1 + i] = c[i]
        /\ t[Len(a) + Len(c) + 2] = end
        /\ \A i \in 1 .. Len(z) : t[Len(a) + Len(c) + 2 + i] = z[i]
    <3>1. t \in Seq(T) /\ Laid(t, a, start, c, end, z)
      BY <1>0, AroundIs
    <3> QED BY <3>1 DEF Laid
  <2> QED BY <2>1
<1>2. /\ Len(a) \in Nat /\ Len(c) \in Nat /\ Len(z) \in Nat
      /\ n \in Nat /\ m \in Nat /\ n < m /\ m = n + Len(c) + 1
      /\ DOMAIN t = 1 .. Len(t) /\ Len(t) = m + Len(z) /\ n \in DOMAIN t /\ m \in DOMAIN t
  BY <1>1
<1>a. n = Len(a) + 1
  OBVIOUS
<1> HIDE DEF n, m
<1>3. (\A i \in 1 .. Len(a) : a[i] \notin {start, end})
      /\ (\A i \in 1 .. Len(c) : c[i] \notin {start, end})
      /\ \A i \in 1 .. Len(z) : z[i] \notin {start, end}
  <2>1. DOMAIN a = 1 .. Len(a) /\ DOMAIN c = 1 .. Len(c) /\ DOMAIN z = 1 .. Len(z)
    OBVIOUS
  <2> QED BY <2>1 DEF Free, Range
<1>4. ASSUME NEW i \in DOMAIN t, t[i] \in {start, end} PROVE i \in {n, m}
  <2>1. CASE i <= Len(a)
    <3>1. i \in 1 .. Len(a)
      BY <1>2, <2>1
    <3> QED BY <1>1, <1>3, <1>4, <3>1
  <2>2. CASE n < i /\ i < m
    <3>1. i - n \in 1 .. Len(c) /\ i = n + (i - n)
      BY <1>1, <1>2, <2>2
    <3> QED BY <1>1, <1>3, <1>4, <3>1
  <2>3. CASE m < i
    <3>1. i - m \in 1 .. Len(z) /\ i = m + (i - m)
      BY <1>1, <1>2, <2>3
    <3> QED BY <1>1, <1>3, <1>4, <3>1
  <2> QED BY <1>2, <1>a, <2>1, <2>2, <2>3
<1>5. Count(t, start) = 1 /\ At(t, start) = n
  <2>1. \A i \in DOMAIN t : t[i] = start => i = n
    BY <1>1, <1>4
  <2>2. t \in Seq(T) /\ n \in DOMAIN t /\ t[n] = start
    BY <1>1, <1>2
  <2> QED BY <2>1, <2>2, OnceAt, Zenon
<1>6. Count(t, end) = 1 /\ At(t, end) = m
  <2>1. \A i \in DOMAIN t : t[i] = end => i = m
    BY <1>1, <1>4
  <2>2. t \in Seq(T) /\ m \in DOMAIN t /\ t[m] = end
    BY <1>1, <1>2
  <2> QED BY <2>1, <2>2, OnceAt, Zenon
<1>7. SubSeq(t, 1, n) = a \o One(start)
  <2>1. PICK w : w = SubSeq(t, 1, n)
    OBVIOUS
  <2>2. w \in Seq(T) /\ Len(w) = n /\ \A i \in 1 .. n : w[i] = t[i]
    BY <1>1, <1>2, <2>1
  <2>3. PICK y : y = a \o One(start)
    OBVIOUS
  <2>4. y \in Seq(T) /\ Len(y) = n /\ y[n] = start /\ \A i \in 1 .. Len(a) : y[i] = a[i]
    BY <1>a, <2>3 DEF One
  <2>5. \A i \in 1 .. n : i \in 1 .. Len(a) \/ i = n
    BY <1>2, <1>a
  <2>6. \A i \in 1 .. n : w[i] = y[i]
    BY <1>1, <2>2, <2>4, <2>5
  <2> QED BY <2>1, <2>2, <2>3, <2>4, <2>6, SeqEqual
<1>8. SubSeq(t, n + 1, m - 1) = c
  <2>1. PICK w : w = SubSeq(t, n + 1, m - 1)
    OBVIOUS
  <2>2. w \in Seq(T) /\ Len(w) = Len(c) /\ \A i \in 1 .. Len(c) : w[i] = t[n + i]
    <3>1. t \in Seq(T) /\ n \in Nat /\ m \in Nat /\ m = n + Len(c) + 1 /\ m <= Len(t)
      BY <1>1, <1>2
    <3>2. \A i \in (n + 1) .. (m - 1) : t[i] \in T
      BY <3>1
    <3>3. w \in Seq(T)
      BY <2>1, <3>1, <3>2, SubSeqProperties
    <3>4. Len(w) = Len(c) /\ \A i \in 1 .. Len(c) : w[i] = t[n + i]
      BY <2>1, <3>1
    <3> QED BY <3>3, <3>4
  <2>3. \A i \in 1 .. Len(c) : w[i] = c[i]
    BY <1>1, <2>2
  <2> QED BY <2>1, <2>2, <2>3, SeqEqual
<1>9. SubSeq(t, m, Len(t)) = One(end) \o z
  <2> DEFINE y == One(end) \o z
  <2>1. y \in Seq(T) /\ Len(y) = Len(z) + 1 /\ y[1] = end
        /\ \A i \in 1 .. Len(z) : y[1 + i] = z[i]
    BY DEF One
  <2>2. PICK w : w = SubSeq(t, m, Len(t))
    OBVIOUS
  <2>5. /\ w \in Seq(T) /\ Len(w) = Len(z) + 1
        /\ \A i \in 1 .. Len(z) + 1 : w[i] = t[m + i - 1]
    <3>1. SubSeq(t, m, Len(t)) \in Seq(T)
      BY <1>1, <1>2
    <3>2. Len(w) = Len(z) + 1 /\ \A i \in 1 .. Len(z) + 1 : w[i] = t[m + i - 1]
      BY <1>1, <1>2, <2>2
    <3> QED BY <3>1, <3>2, <2>2
  <2> HIDE DEF y
  <2>3. ASSUME NEW i \in 1 .. Len(z) + 1 PROVE y[i] = t[m + i - 1]
    <3>1. CASE i = 1
      <4>1. m + i - 1 = m
        BY <1>2, <3>1
      <4> QED BY <2>1, <1>1, <3>1, <4>1
    <3>2. CASE i # 1
      <4>1. i - 1 \in 1 .. Len(z) /\ i = 1 + (i - 1) /\ m + i - 1 = m + (i - 1)
        BY <3>2
      <4> QED BY <2>1, <1>1, <4>1
    <3> QED BY <3>1, <3>2
  <2>4. Len(w) = Len(y) /\ \A i \in 1 .. Len(w) : w[i] = y[i]
    BY <1>2, <2>1, <2>5, <2>3
  <2>6. w = y
    BY <2>1, <2>5, <2>4, SeqEqual
  <2> QED BY <2>2, <2>6 DEF y
<1> QED BY <1>0, <1>5, <1>6, <1>7, <1>8, <1>9 DEF Content, FromEndMarker, n, m, Found

LEMMA LaidIs ==
  ASSUME NEW T, NEW a \in Seq(T), NEW c \in Seq(T), NEW z \in Seq(T),
         NEW start \in T, NEW end \in T,
         NEW t \in Seq(T), Laid(t, a, start, c, end, z)
  PROVE  t = Around(a, start, c, end, z)
<1> PICK r : r = Around(a, start, c, end, z)
  OBVIOUS
<1>1. r \in Seq(T) /\ Laid(r, a, start, c, end, z)
  BY AroundIs
<1>2. PICK n \in Nat : n = Len(a) + Len(c) + Len(z) + 2
  OBVIOUS
<1>3. Len(r) = n /\ Len(t) = n
  BY <1>1, <1>2 DEF Laid
<1>4. ASSUME NEW i \in 1 .. n PROVE r[i] = t[i]
  <2>1. CASE i <= Len(a)
    <3>1. i \in 1 .. Len(a)
      BY <2>1
    <3> QED BY <1>1, <3>1 DEF Laid
  <2>2. CASE i = Len(a) + 1
    BY <1>1, <2>2 DEF Laid
  <2>3. CASE Len(a) + 1 < i /\ i < Len(a) + Len(c) + 2
    <3>1. PICK j \in 1 .. Len(c) : i = Len(a) + 1 + j
      <4>1. Len(a) \in Nat /\ Len(c) \in Nat /\ i \in Nat
        OBVIOUS
      <4>2. i - (Len(a) + 1) \in 1 .. Len(c) /\ i = Len(a) + 1 + (i - (Len(a) + 1))
        BY <2>3, <4>1
      <4> QED BY <4>2
    <3> QED BY <1>1, <3>1 DEF Laid
  <2>4. CASE i = Len(a) + Len(c) + 2
    BY <1>1, <2>4 DEF Laid
  <2>5. CASE Len(a) + Len(c) + 2 < i
    <3>1. PICK j \in 1 .. Len(z) : i = Len(a) + Len(c) + 2 + j
      <4>1. i - (Len(a) + Len(c) + 2) \in 1 .. Len(z)
            /\ i = Len(a) + Len(c) + 2 + (i - (Len(a) + Len(c) + 2))
        BY <1>2, <2>5
      <4> QED BY <4>1
    <3> QED BY <1>1, <3>1 DEF Laid
  <2>6. Len(a) \in Int /\ Len(c) \in Int /\ i \in Int
    OBVIOUS
  <2>7. \A x, y \in Int : \/ i <= x \/ i = x + 1
                          \/ (x + 1 < i /\ i < x + y + 2) \/ i = x + y + 2 \/ x + y + 2 < i
    BY <2>6
  <2>8. \/ i <= Len(a) \/ i = Len(a) + 1 \/ (Len(a) + 1 < i /\ i < Len(a) + Len(c) + 2)
        \/ i = Len(a) + Len(c) + 2 \/ Len(a) + Len(c) + 2 < i
    BY <2>6, <2>7
  <2> QED BY <2>1, <2>2, <2>3, <2>4, <2>5, <2>8
<1> QED BY <1>1, <1>3, <1>4, SeqEqual

\* A text with one region is taken apart at its markers.
LEMMA RegionOf ==
  ASSUME NEW T, NEW t \in Seq(T), NEW start \in T, NEW end \in T, start # end,
         Count(t, start) = 1, Count(t, end) = 1, ~(At(t, end) < At(t, start))
  PROVE  \E a \in Seq(T), c \in Seq(T), z \in Seq(T) :
           /\ t = Around(a, start, c, end, z)
           /\ Free(a, start, end) /\ Free(c, start, end) /\ Free(z, start, end)
<1>1. PICK n : n = At(t, start)
  OBVIOUS
<1>2. PICK m : m = At(t, end)
  OBVIOUS
<1>3. DOMAIN t = 1 .. Len(t) /\ Len(t) \in Nat
  OBVIOUS
<1>4. n \in DOMAIN t /\ t[n] = start /\ \A i \in DOMAIN t : t[i] = start => i = n
  BY <1>1, Once
<1>5. m \in DOMAIN t /\ t[m] = end /\ \A i \in DOMAIN t : t[i] = end => i = m
  BY <1>2, Once
<1>6. n \in 1 .. Len(t) /\ m \in 1 .. Len(t) /\ n < m
  BY <1>1, <1>2, <1>3, <1>4, <1>5
<1>7. PICK a : a = SubSeq(t, 1, n - 1)
  OBVIOUS
<1>8. PICK c : c = SubSeq(t, n + 1, m - 1)
  OBVIOUS
<1>9. PICK z : z = SubSeq(t, m + 1, Len(t))
  OBVIOUS
<1>10. a \in Seq(T) /\ Len(a) = n - 1 /\ \A i \in 1 .. n - 1 : a[i] = t[i]
  <2>1. 1 \in Int /\ n - 1 \in Int /\ \A i \in 1 .. n - 1 : t[i] \in T
    BY <1>6
  <2> QED BY <1>6, <1>7, <2>1, SubSeqProperties
<1>11. c \in Seq(T) /\ Len(c) = m - 1 - n /\ \A i \in 1 .. m - 1 - n : c[i] = t[n + i]
  BY <1>6, <1>8
<1>12. z \in Seq(T) /\ Len(z) = Len(t) - m /\ \A i \in 1 .. Len(t) - m : z[i] = t[m + i]
  BY <1>6, <1>9
<1>13. Laid(t, a, start, c, end, z)
  <2>1. Len(a) + 1 = n /\ Len(a) + Len(c) + 2 = m
    BY <1>6, <1>10, <1>11
  <2>2. Len(t) = Len(a) + Len(c) + Len(z) + 2
    <3>1. Len(z) = Len(t) - m /\ Len(a) \in Int /\ Len(c) \in Int /\ Len(t) \in Int
      BY <1>3, <1>10, <1>11, <1>12
    <3> QED BY <2>1, <3>1
  <2>3. \A i \in 1 .. Len(a) : t[i] = a[i]
    BY <1>10
  <2>4. ASSUME NEW i \in 1 .. Len(c) PROVE t[Len(a) + 1 + i] = c[i]
    <3>1. i \in 1 .. m - 1 - n
      BY <1>11
    <3> QED BY <2>1, <3>1, <1>11
  <2>5. \A i \in 1 .. Len(z) : t[Len(a) + Len(c) + 2 + i] = z[i]
    BY <2>1, <1>12
  <2> QED BY <1>4, <1>5, <2>1, <2>2, <2>3, <2>4, <2>5 DEF Laid
<1>14. t = Around(a, start, c, end, z)
  BY <1>10, <1>11, <1>12, <1>13, LaidIs
<1>15. \A i \in 1 .. Len(t) : t[i] \in {start, end} => i \in {n, m}
  BY <1>3, <1>4, <1>5
<1>16. {start, end} \cap Range(a) = {}
  <2>1. \A i \in 1 .. n - 1 : i \in 1 .. Len(t) /\ i \notin {n, m}
    BY <1>6
  <2>2. \A i \in 1 .. n - 1 : a[i] \notin {start, end}
    BY <1>10, <1>15, <2>1
  <2>3. DOMAIN a = 1 .. n - 1
    BY <1>10
  <2> QED BY <2>2, <2>3 DEF Range
<1>17. {start, end} \cap Range(c) = {}
  <2>1. \A i \in 1 .. m - 1 - n : n + i \in 1 .. Len(t) /\ n + i \notin {n, m}
    BY <1>6
  <2>2. ASSUME NEW i \in 1 .. m - 1 - n PROVE c[i] \notin {start, end}
    BY <1>11, <1>15, <2>1
  <2>3. DOMAIN c = 1 .. m - 1 - n
    BY <1>11
  <2> QED BY <2>2, <2>3 DEF Range
<1>18. {start, end} \cap Range(z) = {}
  <2>1. \A i \in 1 .. Len(t) - m : m + i \in 1 .. Len(t) /\ m + i \notin {n, m}
    BY <1>6
  <2>2. \A i \in 1 .. Len(t) - m : z[i] \notin {start, end}
    BY <1>12, <1>15, <2>1
  <2>3. DOMAIN z = 1 .. Len(t) - m
    BY <1>12
  <2> QED BY <2>2, <2>3 DEF Range
<1>19. Free(a, start, end) /\ Free(c, start, end) /\ Free(z, start, end)
  BY <1>16, <1>17, <1>18 DEF Free
<1> QED BY <1>10, <1>11, <1>12, <1>14, <1>19

-----------------------------------------------------------------------------
(* Newlines *)

\* d is c without the newlines at its end.
Trimmed(d, c) ==
  /\ Len(d) <= Len(c)
  /\ \A i \in 1 .. Len(d) : d[i] = c[i]
  /\ Len(d) # 0 => d[Len(d)] \notin Newlines
  /\ \A i \in 1 .. Len(c) : i > Len(d) => c[i] \in Newlines

LEMMA TrimIs ==
  ASSUME NEW T, NEW c \in Seq(T)
  PROVE  TrimEnd(c) \in Seq(T) /\ Trimmed(TrimEnd(c), c)
<1> DEFINE S == {0} \cup {i \in DOMAIN c : c[i] \notin Newlines}
<1>1. DOMAIN c = 1 .. Len(c) /\ Len(c) \in Nat
  OBVIOUS
<1>2. S \in SUBSET (0 .. Len(c)) /\ 0 \in S
  BY <1>1
<1>3. PICK n : n = Max(S)
  OBVIOUS
<1>4. \A i \in DOMAIN c : c[i] \notin Newlines => i \in S
  OBVIOUS
<1>5. \A i \in S : i = 0 \/ c[i] \notin Newlines
  OBVIOUS
<1>6. TrimEnd(c) = SubSeq(c, 1, n)
  BY <1>3 DEF TrimEnd
<1> HIDE DEF S
<1>7. n \in S /\ \A k \in S : k <= n
  BY <1>1, <1>2, <1>3, GreatestIs
<1>8. n \in 0 .. Len(c)
  BY <1>2, <1>7
<1>9. PICK d : d = SubSeq(c, 1, n)
  OBVIOUS
<1>10. d \in Seq(T) /\ Len(d) = n /\ \A i \in 1 .. n : d[i] = c[i]
  <2>1. \A i \in 1 .. n : c[i] \in T
    BY <1>8
  <2> QED BY <1>8, <1>9, <2>1, SubSeqProperties
<1>11. \A i \in 1 .. Len(c) : i > n => c[i] \in Newlines
  <2>1. ASSUME NEW i \in 1 .. Len(c), i > n PROVE i \notin S
    BY <1>7, <1>8, <2>1
  <2> QED BY <1>1, <1>4, <2>1
<1>12. n # 0 => d[n] \notin Newlines
  <2>1. n # 0 => n \in 1 .. n
    BY <1>8
  <2> QED BY <1>5, <1>7, <1>10, <2>1
<1>13. Trimmed(d, c)
  BY <1>8, <1>10, <1>11, <1>12 DEF Trimmed
<1> QED BY <1>6, <1>9, <1>10, <1>13

\* Nothing else is.
LEMMA TrimOnly ==
  ASSUME NEW T, NEW c \in Seq(T), NEW d \in Seq(T), Trimmed(d, c)
  PROVE  TrimEnd(c) = d
<1> PICK e \in Seq(T) : e = TrimEnd(c) /\ Trimmed(e, c)
  BY TrimIs
<1> PICK k \in Nat, m \in Nat, n \in Nat : k = Len(c) /\ m = Len(d) /\ n = Len(e)
  OBVIOUS
<1>1. /\ m <= k /\ n <= k
      /\ \A i \in 1 .. m : d[i] = c[i]
      /\ \A i \in 1 .. n : e[i] = c[i]
      /\ m # 0 => d[m] \notin Newlines
      /\ n # 0 => e[n] \notin Newlines
      /\ \A i \in 1 .. k : i > m => c[i] \in Newlines
      /\ \A i \in 1 .. k : i > n => c[i] \in Newlines
  BY DEF Trimmed
<1>2. ~(m < n)
  <2>1. m < n => n \in 1 .. k /\ n \in 1 .. n /\ n # 0 /\ n > m
    BY <1>1
  <2> QED BY <1>1, <2>1
<1>3. ~(n < m)
  <2>1. n < m => m \in 1 .. k /\ m \in 1 .. m /\ m # 0 /\ m > n
    BY <1>1
  <2> QED BY <1>1, <2>1
<1>4. m = n
  BY <1>2, <1>3
<1>5. \A i \in 1 .. Len(d) : d[i] = e[i]
  BY <1>1, <1>4
<1> QED BY <1>4, <1>5, SeqEqual

\* What the newlines of a text are does not matter to where it ends.
LEMMA NormalIs ==
  ASSUME NEW T, NEW c \in Seq(T), NEW nl \in Newlines, Newlines \subseteq T
  PROVE  /\ normalize_content_newlines(c, nl) \in Seq(T)
         /\ Len(normalize_content_newlines(c, nl)) = Len(c)
         /\ \A i \in 1 .. Len(c) :
              normalize_content_newlines(c, nl)[i] = IF c[i] \in Newlines THEN nl ELSE c[i]
<1> PICK n : n = normalize_content_newlines(c, nl)
  OBVIOUS
<1>1. DOMAIN c = 1 .. Len(c) /\ Len(c) \in Nat /\ \A i \in 1 .. Len(c) : c[i] \in T
  OBVIOUS
<1>2. n = [i \in 1 .. Len(c) |-> IF c[i] \in Newlines THEN nl ELSE c[i]]
  BY <1>1 DEF normalize_content_newlines
<1>3. \A i \in 1 .. Len(c) : n[i] \in T
  BY <1>1, <1>2
<1>4. n \in [1 .. Len(c) -> T]
  BY <1>2, <1>3
<1>5. n \in Seq(T) /\ Len(n) = Len(c)
  BY <1>1, <1>4, <1>2
<1> QED BY <1>2, <1>5

LEMMA NormalTrimmed ==
  ASSUME NEW T, NEW c \in Seq(T), NEW d \in Seq(T), NEW nl \in Newlines, Newlines \subseteq T,
         Trimmed(d, c)
  PROVE  Trimmed(normalize_content_newlines(d, nl), normalize_content_newlines(c, nl))
<1> PICK x : x = normalize_content_newlines(c, nl)
  OBVIOUS
<1> PICK y : y = normalize_content_newlines(d, nl)
  OBVIOUS
<1>1. /\ x \in Seq(T) /\ Len(x) = Len(c)
      /\ \A i \in 1 .. Len(c) : x[i] = IF c[i] \in Newlines THEN nl ELSE c[i]
  BY NormalIs
<1>2. /\ y \in Seq(T) /\ Len(y) = Len(d)
      /\ \A i \in 1 .. Len(d) : y[i] = IF d[i] \in Newlines THEN nl ELSE d[i]
  BY NormalIs
<1> PICK k \in Nat, m \in Nat : k = Len(c) /\ m = Len(d)
  OBVIOUS
<1>3. /\ m <= k
      /\ \A i \in 1 .. m : d[i] = c[i]
      /\ m # 0 => d[m] \notin Newlines
      /\ \A i \in 1 .. k : i > m => c[i] \in Newlines
  BY DEF Trimmed
<1>4. ASSUME NEW i \in 1 .. m PROVE y[i] = x[i]
  <2>1. i \in 1 .. k
    BY <1>3
  <2> QED BY <1>1, <1>2, <1>3, <2>1
<1>5. m # 0 => y[m] \notin Newlines
  <2>1. m # 0 => m \in 1 .. m
    OBVIOUS
  <2> QED BY <1>2, <1>3, <2>1
<1>6. \A i \in 1 .. k : i > m => x[i] \in Newlines
  BY <1>1, <1>3
<1> QED BY <1>1, <1>2, <1>3, <1>4, <1>5, <1>6 DEF Trimmed

LEMMA TrimNormal ==
  ASSUME NEW T, NEW c \in Seq(T), NEW nl \in Newlines, Newlines \subseteq T
  PROVE  normalize_content_newlines(TrimEnd(c), nl) = TrimEnd(normalize_content_newlines(c, nl))
<1> PICK d \in Seq(T) : d = TrimEnd(c) /\ Trimmed(d, c)
  BY TrimIs
<1> PICK x \in Seq(T) : x = normalize_content_newlines(c, nl)
  BY NormalIs
<1> PICK y \in Seq(T) : y = normalize_content_newlines(d, nl)
  BY NormalIs
<1>1. Trimmed(y, x)
  BY NormalTrimmed
<1> QED BY <1>1, TrimOnly

LEMMA NormalTwice ==
  ASSUME NEW T, NEW c \in Seq(T), NEW nl \in Newlines, NEW other \in Newlines, Newlines \subseteq T
  PROVE  normalize_content_newlines(normalize_content_newlines(c, other), nl)
           = normalize_content_newlines(c, nl)
<1> PICK x \in Seq(T) : x = normalize_content_newlines(c, other)
  BY NormalIs
<1> PICK y \in Seq(T) : y = normalize_content_newlines(x, nl)
  BY NormalIs
<1> PICK z \in Seq(T) : z = normalize_content_newlines(c, nl)
  BY NormalIs
<1>1. Len(x) = Len(c) /\ \A i \in 1 .. Len(c) : x[i] = IF c[i] \in Newlines THEN other ELSE c[i]
  BY NormalIs
<1>2. Len(y) = Len(x) /\ \A i \in 1 .. Len(x) : y[i] = IF x[i] \in Newlines THEN nl ELSE x[i]
  BY NormalIs, SMTT(40)
<1>3. Len(z) = Len(c) /\ \A i \in 1 .. Len(c) : z[i] = IF c[i] \in Newlines THEN nl ELSE c[i]
  BY NormalIs
<1>4. Len(y) = Len(z) /\ \A i \in 1 .. Len(y) : y[i] = z[i]
  BY <1>1, <1>2, <1>3
<1> QED BY <1>4, SeqEqual

LEMMA TrimTwice ==
  ASSUME NEW T, NEW c \in Seq(T)
  PROVE  TrimEnd(TrimEnd(c)) = TrimEnd(c)
<1> PICK d \in Seq(T) : d = TrimEnd(c) /\ Trimmed(d, c)
  BY TrimIs
<1>1. Trimmed(d, d)
  BY DEF Trimmed
<1> QED BY <1>1, TrimOnly

\* A newline more at the end is trimmed as well.
LEMMA TrimAfter ==
  ASSUME NEW T, NEW c \in Seq(T), NEW nl \in Newlines, Newlines \subseteq T
  PROVE  TrimEnd(c \o One(nl)) = TrimEnd(c)
<1> PICK d \in Seq(T) : d = TrimEnd(c) /\ Trimmed(d, c)
  BY TrimIs
<1>0. c \o One(nl) \in Seq(T)
  <2>1. nl \in T
    OBVIOUS
  <2> QED BY <2>1 DEF One
<1> PICK x \in Seq(T) : x = c \o One(nl)
  BY <1>0
<1> PICK k \in Nat, m \in Nat : k = Len(c) /\ m = Len(d)
  OBVIOUS
<1>1. Len(x) = k + 1 /\ x[k + 1] = nl /\ \A i \in 1 .. k : x[i] = c[i]
  BY DEF One
<1>2. /\ m <= k
      /\ \A i \in 1 .. m : d[i] = c[i]
      /\ m # 0 => d[m] \notin Newlines
      /\ \A i \in 1 .. k : i > m => c[i] \in Newlines
  BY DEF Trimmed
<1>3. \A i \in 1 .. m : d[i] = x[i]
  BY <1>1, <1>2
<1>4. \A i \in 1 .. k + 1 : i > m => x[i] \in Newlines
  <2>1. \A i \in 1 .. k + 1 : i \in 1 .. k \/ i = k + 1
    OBVIOUS
  <2> QED BY <1>1, <1>2, <2>1
<1>5. Trimmed(d, x)
  BY <1>1, <1>2, <1>3, <1>4 DEF Trimmed
<1> QED BY <1>5, TrimOnly

\* What is written of a body, with a newline behind it, is read as the body.
LEMMA WrittenIsRead ==
  ASSUME NEW T, NEW c \in Seq(T), NEW nl \in Newlines, Newlines \subseteq T
  PROVE  canonical_managed_body(NewContent(c, nl) \o One(nl)) = canonical_managed_body(c)
<1> PICK lf \in Newlines : lf = "LF"
  BY DEF Newlines
<1> PICK x \in Seq(T) : x = normalize_content_newlines(c, nl)
  BY NormalIs
<1> PICK n \in Seq(T) : n = TrimEnd(x)
  BY TrimIs
<1>1. n = NewContent(c, nl)
  BY DEF NewContent
<1>0. n \o One(nl) \in Seq(T)
  <2>1. nl \in T
    OBVIOUS
  <2> QED BY <2>1 DEF One
<1> PICK y \in Seq(T) : y = n \o One(nl)
  BY <1>0
<1>2. TrimEnd(y) = TrimEnd(n)
  BY TrimAfter
<1>3. TrimEnd(n) = n
  BY TrimTwice
<1>4. TrimEnd(normalize_content_newlines(y, lf)) = normalize_content_newlines(TrimEnd(y), lf)
  BY TrimNormal
<1>5. normalize_content_newlines(n, lf) = TrimEnd(normalize_content_newlines(x, lf))
  BY TrimNormal
<1>6. normalize_content_newlines(x, lf) = normalize_content_newlines(c, lf)
  BY NormalTwice
<1>7. canonical_managed_body(c) = TrimEnd(normalize_content_newlines(c, lf))
  BY DEF canonical_managed_body
<1>8. canonical_managed_body(y) = TrimEnd(normalize_content_newlines(y, lf))
  BY DEF canonical_managed_body
<1>9. canonical_managed_body(y) = normalize_content_newlines(n, lf)
  BY <1>2, <1>3, <1>4, <1>8
<1> QED BY <1>1, <1>5, <1>6, <1>7, <1>9

LEMMA CanonicalTwice ==
  ASSUME NEW T, NEW c \in Seq(T), Newlines \subseteq T
  PROVE  /\ canonical_managed_body(c) \in Seq(T)
         /\ canonical_managed_body(canonical_managed_body(c)) = canonical_managed_body(c)
<1> PICK lf \in Newlines : lf = "LF"
  BY DEF Newlines
<1> PICK x \in Seq(T) : x = normalize_content_newlines(c, lf)
  BY NormalIs
<1> PICK d \in Seq(T) : d = TrimEnd(x)
  BY TrimIs
<1>1. normalize_content_newlines(d, lf) = TrimEnd(normalize_content_newlines(x, lf))
  BY TrimNormal
<1>2. normalize_content_newlines(x, lf) = x
  BY NormalTwice
<1>3. TrimEnd(d) = d
  BY TrimTwice
<1>4. canonical_managed_body(c) = d
  BY DEF canonical_managed_body
<1>5. canonical_managed_body(d) = TrimEnd(normalize_content_newlines(d, lf))
  BY DEF canonical_managed_body
<1> QED BY <1>1, <1>2, <1>3, <1>4, <1>5

\* The other tokens stay.
LEMMA NewContentIs ==
  ASSUME NEW T, NEW c \in Seq(T), NEW nl \in Newlines, Newlines \subseteq T
  PROVE  /\ NewContent(c, nl) \in Seq(T)
         /\ Range(NewContent(c, nl)) \subseteq (Range(c) \ Newlines) \cup {nl}
         /\ Range(c) \ Newlines \subseteq Range(NewContent(c, nl))
<1> PICK x \in Seq(T) : x = normalize_content_newlines(c, nl)
  BY NormalIs
<1>1. Len(x) = Len(c) /\ \A i \in 1 .. Len(c) : x[i] = IF c[i] \in Newlines THEN nl ELSE c[i]
  BY NormalIs
<1> PICK n \in Seq(T) : n = TrimEnd(x) /\ Trimmed(n, x)
  BY TrimIs
<1>2. n = NewContent(c, nl)
  BY DEF NewContent
<1>3. DOMAIN n = 1 .. Len(n) /\ DOMAIN c = 1 .. Len(c) /\ Len(n) \in Nat /\ Len(c) \in Nat
  OBVIOUS
<1>4. ASSUME NEW i \in 1 .. Len(n) PROVE n[i] \in (Range(c) \ Newlines) \cup {nl}
  <2>1. i \in 1 .. Len(c) /\ n[i] = x[i]
    BY <1>1, <1>3 DEF Trimmed
  <2> QED BY <1>1, <1>3, <2>1 DEF Range
<1>5. ASSUME NEW i \in 1 .. Len(c), c[i] \notin Newlines PROVE c[i] \in Range(n)
  <2>1. x[i] = c[i]
    BY <1>1, <1>5
  <2>2. i \in 1 .. Len(x) /\ ~(i > Len(n))
    BY <1>1, <1>5, <2>1 DEF Trimmed
  <2>3. i \in 1 .. Len(n) /\ n[i] = x[i]
    BY <1>3, <2>2 DEF Trimmed
  <2> QED BY <1>3, <2>1, <2>3 DEF Range
<1> QED BY <1>2, <1>3, <1>4, <1>5 DEF Range

-----------------------------------------------------------------------------
(* extract_single_region and replace_region *)

Lined(c, nl) == One(nl) \o NewContent(c, nl) \o One(nl)

\* The markers of a region, in a text over T.
MarkersOf(T, start, end) ==
  start \in T /\ end \in T /\ start # end /\ {start, end} \cap Newlines = {} /\ Newlines \subseteq T

LEMMA RangeAround ==
  ASSUME NEW T, NEW a \in Seq(T), NEW c \in Seq(T), NEW z \in Seq(T), NEW start \in T, NEW end \in T
  PROVE  Range(Around(a, start, c, end, z)) = Range(a) \cup Range(c) \cup Range(z) \cup {start, end}
<1>1. PICK s \in Seq(T) : s = One(start) /\ Range(s) = {start}
  BY OneIs
<1>2. PICK e \in Seq(T) : e = One(end) /\ Range(e) = {end}
  BY OneIs
<1>3. PICK x \in Seq(T) : x = a \o s /\ Range(x) = Range(a) \cup Range(s)
  <2>1. a \o s \in Seq(T)
    OBVIOUS
  <2>2. Range(a \o s) = Range(a) \cup Range(s)
    BY RangeConcatenation, ZenonT(60)
  <2> QED BY <2>1, <2>2, Zenon
<1>4. PICK y \in Seq(T) : y = e \o z /\ Range(y) = Range(e) \cup Range(z)
  <2>1. e \o z \in Seq(T)
    OBVIOUS
  <2>2. Range(e \o z) = Range(e) \cup Range(z)
    BY RangeConcatenation, ZenonT(60)
  <2> QED BY <2>1, <2>2, Zenon
<1>5. PICK v \in Seq(T) : v = x \o c /\ Range(v) = Range(x) \cup Range(c)
  <2>1. x \o c \in Seq(T)
    OBVIOUS
  <2>2. Range(x \o c) = Range(x) \cup Range(c)
    BY RangeConcatenation, ZenonT(60)
  <2> QED BY <2>1, <2>2, Zenon
<1>6. PICK t \in Seq(T) : t = v \o y /\ Range(t) = Range(v) \cup Range(y)
  <2>1. v \o y \in Seq(T)
    OBVIOUS
  <2>2. Range(v \o y) = Range(v) \cup Range(y)
    BY RangeConcatenation, ZenonT(60)
  <2> QED BY <2>1, <2>2, Zenon
<1>7. t = Around(a, start, c, end, z)
  <2>1. s = One(start) /\ e = One(end)
    BY <1>1, <1>2
  <2>2. x = a \o s /\ y = e \o z /\ v = x \o c /\ t = v \o y
    BY <1>3, <1>4, <1>5, <1>6
  <2> QED BY <2>1, <2>2 DEF Around
<1>8. Range(t) = Range(a) \cup Range(c) \cup Range(z) \cup {start, end}
  <2>1. Range(x) = Range(a) \cup {start}
    BY <1>1, <1>3, Zenon
  <2>2. Range(y) = {end} \cup Range(z)
    BY <1>2, <1>4, Zenon
  <2> QED BY <2>1, <2>2, <1>5, <1>6
<1> QED BY <1>7, <1>8

LEMMA LinedIs ==
  ASSUME NEW T, NEW c \in Seq(T), NEW nl \in Newlines, Newlines \subseteq T
  PROVE  /\ Lined(c, nl) \in Seq(T) /\ Lined(c, nl) # <<>> /\ Head(Lined(c, nl)) = nl
         /\ Tail(Lined(c, nl)) = NewContent(c, nl) \o One(nl)
         /\ Range(Lined(c, nl)) = Range(NewContent(c, nl)) \cup {nl}
<1>0. nl \in T
  OBVIOUS
<1>1. PICK l \in Seq(T) : l = One(nl) /\ Range(l) = {nl} /\ Len(l) = 1 /\ l[1] = nl
  BY <1>0, OneIs
<1>2. PICK n \in Seq(T) : n = NewContent(c, nl)
  BY NewContentIs
<1>3. PICK x \in Seq(T) : x = n \o l /\ Range(x) = Range(n) \cup Range(l)
  <2>1. n \o l \in Seq(T)
    OBVIOUS
  <2>2. Range(n \o l) = Range(n) \cup Range(l)
    BY RangeConcatenation, ZenonT(60)
  <2> QED BY <2>1, <2>2, Zenon
<1>4. PICK y \in Seq(T) : y = l \o x /\ Range(y) = Range(l) \cup Range(x)
  <2>1. l \o x \in Seq(T)
    OBVIOUS
  <2>2. Range(l \o x) = Range(l) \cup Range(x)
    BY RangeConcatenation, ZenonT(60)
  <2> QED BY <2>1, <2>2, Zenon
<1>5. Lined(c, nl) = y
  <2>1. (l \o n) \o l = l \o (n \o l)
    BY ConcatAssociative, SMTT(40)
  <2> QED BY <2>1, <1>1, <1>2, <1>3, <1>4, Zenon DEF Lined
<1>6. y[1] = nl /\ Len(y) = 1 + Len(x) /\ \A i \in 1 .. Len(x) : y[1 + i] = x[i]
  <2>1. y = l \o x /\ Len(l) = 1 /\ l[1] = nl
    BY <1>1, <1>4
  <2>2. \A i \in 1 .. Len(l) + Len(x) : (l \o x)[i] = IF i <= Len(l) THEN l[i] ELSE x[i - Len(l)]
    BY ConcatProperties, Zenon
  <2>3. Len(l \o x) = Len(l) + Len(x)
    BY ConcatProperties, Zenon
  <2> QED BY <2>1, <2>2, <2>3
<1>7. y # <<>> /\ Head(y) = nl
  BY <1>6
<1>8. Tail(y) = x
  <2>1. Tail(y) \in Seq(T) /\ Len(Tail(y)) = Len(y) - 1 /\ \A i \in 1 .. Len(Tail(y)) : Tail(y)[i] = y[i + 1]
    BY <1>7, HeadTailProperties
  <2>2. PICK w \in Seq(T) : w = Tail(y)
    BY <2>1
  <2>3. Len(w) = Len(x) /\ \A i \in 1 .. Len(x) : w[i] = y[i + 1]
    BY <1>6, <2>1, <2>2
  <2>4. \A i \in 1 .. Len(x) : w[i] = x[i]
    BY <1>6, <2>3
  <2> QED BY <2>2, <2>3, <2>4, SeqEqual
<1>9. Range(y) = Range(n) \cup {nl}
  BY <1>1, <1>3, <1>4
<1>10. x = NewContent(c, nl) \o One(nl)
  BY <1>1, <1>2, <1>3
<1> QED BY <1>2, <1>5, <1>7, <1>8, <1>9, <1>10

\* A body without markers is read from the region it was written to.
LEMMA RegionRead ==
  ASSUME NEW T, NEW a \in Seq(T), NEW c \in Seq(T), NEW z \in Seq(T), NEW nl \in Newlines,
         NEW start, NEW end, MarkersOf(T, start, end),
         Free(a, start, end), Free(c, start, end), Free(z, start, end)
  PROVE  extract_single_region(Around(a, start, Lined(c, nl), end, z), start, end)
           = canonical_managed_body(c)
<1> USE DEF MarkersOf, Free
<1> PICK n \in Seq(T) : n = Lined(c, nl)
  BY LinedIs
<1>1. {start, end} \cap Range(n) = {}
  <2>1. Range(n) = Range(NewContent(c, nl)) \cup {nl} /\ Newlines \subseteq T
    BY LinedIs
  <2>2. Range(NewContent(c, nl)) \subseteq (Range(c) \ Newlines) \cup {nl}
        /\ Range(c) \ Newlines \subseteq Range(NewContent(c, nl))
    BY <2>1, NewContentIs
  <2> QED BY <2>1, <2>2
<1>2. start \in T /\ end \in T /\ start # end /\ Free(n, start, end)
  BY <1>1
<1> HIDE DEF MarkersOf, Free
<1>0. PICK t : t = Around(a, start, n, end, z)
  OBVIOUS
<1>3. /\ Count(t, start) = 1 /\ Count(t, end) = 1
      /\ At(t, start) = Len(a) + 1 /\ At(t, end) = Len(a) + Len(n) + 2
      /\ Content(t, start, end) = n
  <2>1. Found(Around(a, start, n, end, z), a, start, n, end, z)
    BY <1>2, RegionFound
  <2> QED BY <1>0, <2>1 DEF Found
<1>4. ~(At(t, end) < At(t, start))
  BY <1>3
<1>5. n # <<>> /\ Head(n) \in Newlines /\ Tail(n) = NewContent(c, nl) \o One(nl)
  BY LinedIs DEF MarkersOf
<1>6. canonical_managed_body(Tail(n)) = canonical_managed_body(c)
  <2>1. Newlines \subseteq T
    BY DEF MarkersOf
  <2>2. canonical_managed_body(NewContent(c, nl) \o One(nl)) = canonical_managed_body(c)
    BY <2>1, WrittenIsRead
  <2> QED BY <1>5, <2>2
<1> QED BY <1>0, <1>3, <1>4, <1>5, <1>6 DEF extract_single_region

\* A body with a marker is not.
LEMMA RegionUnread ==
  ASSUME NEW T, NEW a \in Seq(T), NEW c \in Seq(T), NEW z \in Seq(T), NEW nl \in Newlines,
         NEW start, NEW end, MarkersOf(T, start, end), ~Free(c, start, end)
  PROVE  extract_single_region(Around(a, start, Lined(c, nl), end, z), start, end) = Conflict
<1> USE DEF MarkersOf, Free
<1> PICK n \in Seq(T) : n = Lined(c, nl)
  BY LinedIs
<1>1. PICK k \in {start, end} : k \in Range(n)
  <2>1. Range(n) = Range(NewContent(c, nl)) \cup {nl} /\ Newlines \subseteq T
    BY LinedIs
  <2>2. Range(NewContent(c, nl)) \subseteq (Range(c) \ Newlines) \cup {nl}
        /\ Range(c) \ Newlines \subseteq Range(NewContent(c, nl))
    BY <2>1, NewContentIs
  <2> QED BY <2>1, <2>2
<1>2. start \in T /\ end \in T
  OBVIOUS
<1> HIDE DEF MarkersOf, Free
<1> PICK t : t = Around(a, start, n, end, z)
  OBVIOUS
<1>3. t \in Seq(T) /\ Laid(t, a, start, n, end, z)
  BY <1>2, AroundIs
<1>4. PICK i \in 1 .. Len(n) : n[i] = k
  BY <1>1 DEF Range
<1>5. PICK j : j = Len(a) + 1 + i
  OBVIOUS
<1>6. PICK l \in {Len(a) + 1, Len(a) + Len(n) + 2} : t[l] = k
  BY <1>1, <1>3 DEF Laid
<1>7. DOMAIN t = 1 .. Len(a) + Len(n) + Len(z) + 2
  BY <1>3 DEF Laid
<1>8. j \in DOMAIN t /\ l \in DOMAIN t /\ j # l
  BY <1>5, <1>6, <1>7
<1>9. t[j] = k
  BY <1>3, <1>4, <1>5 DEF Laid
<1>10. Count(t, k) > 1
  BY <1>3, <1>6, <1>8, <1>9, Twice
<1>11. Count(t, k) # 1
  BY <1>10
<1> QED BY <1>1, <1>11 DEF extract_single_region

LEMMA NewlineIs ==
  ASSUME NEW t
  PROVE  detect_newline(t) \in Newlines /\ (detect_newline(t) = "CRLF" <=> "CRLF" \in Range(t))
BY DEF detect_newline, Newlines

LEMMA Joined ==
  ASSUME NEW T, NEW s \in Seq(T), NEW t \in Seq(T)
  PROVE  s \o t \in Seq(T)
OBVIOUS

Separator(t) ==
  IF t = <<>> \/ Last(t) = detect_newline(t) THEN <<>> ELSE One(detect_newline(t))

LEMMA ReplaceIs ==
  ASSUME NEW t, NEW c, NEW start, NEW end, NEW takeover
  PROVE  replace_region(t, c, start, end, takeover) =
           IF Count(t, start) # Count(t, end) \/ Count(t, start) > 1 THEN Conflict
           ELSE IF Count(t, start) = 1
           THEN IF At(t, end) < At(t, start) THEN Conflict
                ELSE SubSeq(t, 1, At(t, start)) \o Lined(c, detect_newline(t)) \o FromEndMarker(t, end)
           ELSE IF ~takeover THEN Conflict
           ELSE t \o Separator(t) \o One(start) \o Lined(c, detect_newline(t))
                  \o <<end, detect_newline(t)>>
BY DEF replace_region, Lined, One, Separator

\* The content of a region is replaced, what is around it stays.
LEMMA RegionAgain ==
  ASSUME NEW T, NEW a \in Seq(T), NEW old \in Seq(T), NEW z \in Seq(T), NEW c \in Seq(T),
         NEW start, NEW end, MarkersOf(T, start, end), NEW takeover,
         Free(a, start, end), Free(old, start, end), Free(z, start, end)
  PROVE  replace_region(Around(a, start, old, end, z), c, start, end, takeover)
           = Around(a, start, Lined(c, detect_newline(Around(a, start, old, end, z))), end, z)
<1>1. start \in T /\ end \in T /\ start # end /\ Newlines \subseteq T
  BY DEF MarkersOf
<1>2. PICK t : t = Around(a, start, old, end, z)
  OBVIOUS
<1>3. PICK nl \in Newlines : nl = detect_newline(t)
  BY NewlineIs
<1>4. PICK l \in Seq(T) : l = Lined(c, nl)
  BY <1>1, LinedIs
<1>5. Found(Around(a, start, old, end, z), a, start, old, end, z)
  BY <1>1, RegionFound
<1>6. /\ Count(t, start) = 1 /\ Count(t, end) = 1 /\ ~(At(t, end) < At(t, start))
      /\ SubSeq(t, 1, At(t, start)) = a \o One(start) /\ FromEndMarker(t, end) = One(end) \o z
  BY <1>2, <1>5 DEF Found
<1>7. replace_region(t, c, start, end, takeover) = ((a \o One(start)) \o l) \o (One(end) \o z)
  <2>1. replace_region(t, c, start, end, takeover)
          = SubSeq(t, 1, At(t, start)) \o Lined(c, detect_newline(t)) \o FromEndMarker(t, end)
    <3>1. ~(Count(t, start) # Count(t, end) \/ Count(t, start) > 1)
      BY <1>6
    <3> QED BY <1>6, <3>1, ReplaceIs
  <2> QED BY <1>3, <1>4, <1>6, <2>1
<1> QED BY <1>2, <1>3, <1>4, <1>7 DEF Around

\* Either the text has the region, or it has neither marker and gets one at its end.
LEMMA ReplacedIs ==
  ASSUME NEW T, NEW t \in Seq(T), NEW c \in Seq(T), NEW start, NEW end,
         MarkersOf(T, start, end), NEW takeover \in BOOLEAN,
         replace_region(t, c, start, end, takeover) # Conflict
  PROVE  \/ \E a \in Seq(T), old \in Seq(T), z \in Seq(T) :
              /\ t = Around(a, start, old, end, z)
              /\ Free(a, start, end) /\ Free(old, start, end) /\ Free(z, start, end)
         \/ /\ takeover /\ Free(t, start, end)
            /\ replace_region(t, c, start, end, takeover)
                 = Around(t \o Separator(t), start, Lined(c, detect_newline(t)), end,
                          One(detect_newline(t)))
<1>1. start \in T /\ end \in T /\ start # end /\ Newlines \subseteq T
  BY DEF MarkersOf
<1>2. Count(t, start) \in Nat /\ Count(t, end) = Count(t, start) /\ ~(Count(t, start) > 1)
  <2>1. Count(t, start) \in Nat
    BY Places
  <2>2. Count(t, end) = Count(t, start) /\ ~(Count(t, start) > 1)
    BY DEF replace_region
  <2> QED BY <2>1, <2>2
<1>3. CASE Count(t, start) = 1
  <2>1. ~(At(t, end) < At(t, start))
    BY <1>2, <1>3 DEF replace_region
  <2> QED BY <1>1, <1>2, <1>3, <2>1, RegionOf
<1>4. CASE Count(t, start) = 0
  <2>1. Free(t, start, end)
    <3>1. start \notin Range(t)
      BY <1>4, Places
    <3>2. end \notin Range(t)
      BY <1>2, <1>4, Places
    <3> QED BY <3>1, <3>2 DEF Free
  <2>2. takeover
    <3>1. ~(Count(t, start) # Count(t, end) \/ Count(t, start) > 1) /\ Count(t, start) # 1
      BY <1>2, <1>4
    <3> QED BY <3>1, ReplaceIs
  <2>3. PICK nl \in Newlines : nl = detect_newline(t)
    BY NewlineIs
  <2>4. PICK l \in Seq(T) : l = Lined(c, nl)
    BY <1>1, LinedIs
  <2>5. PICK s \in Seq(T) : s = Separator(t)
    <3>1. One(nl) \in Seq(T)
      BY <1>1, OneIs
    <3>2. <<>> \in Seq(T)
      OBVIOUS
    <3> QED BY <2>3, <3>1, <3>2, Zenon DEF Separator
  <2>6. replace_region(t, c, start, end, takeover)
          = (((t \o s) \o One(start)) \o l) \o <<end, nl>>
    <3>1. ~(Count(t, start) # Count(t, end) \/ Count(t, start) > 1) /\ Count(t, start) # 1
      BY <1>2, <1>4
    <3> QED BY <2>2, <2>3, <2>4, <2>5, <3>1, ReplaceIs
  <2>7. t \o s \in Seq(T) /\ One(nl) \in Seq(T)
    <3>1. One(nl) \in Seq(T)
      BY <1>1, OneIs
    <3> QED BY <3>1, Joined, Zenon
  <2>8. <<end, nl>> = One(end) \o One(nl)
    BY DEF One
  <2>9. Around(t \o s, start, l, end, One(nl)) = (((t \o s) \o One(start)) \o l) \o (One(end) \o One(nl))
    BY DEF Around
  <2> QED BY <2>1, <2>2, <2>3, <2>4, <2>5, <2>6, <2>8, <2>9
<1> QED BY <1>2, <1>3, <1>4

-----------------------------------------------------------------------------
(* The frontmatter v, with its last newline, and the text b below it *)

Fence(nl)        == <<"---", nl>>
Fenced(nl, v, b) == ((Fence(nl) \o v) \o Fence(nl)) \o b

\* No line of v closes it.
Open(v, nl) == \A i \in 1 .. Len(v) - 2 : ~(v[i] = nl /\ v[i + 1] = "---" /\ v[i + 2] = nl)

EndsIn(v, nl) == v # <<>> /\ v[Len(v)] = nl

LEMMA FenceIs ==
  ASSUME NEW T, NEW nl \in T, "---" \in T
  PROVE  /\ Fence(nl) \in Seq(T) /\ Len(Fence(nl)) = 2 /\ Fence(nl)[1] = "---" /\ Fence(nl)[2] = nl
         /\ Range(Fence(nl)) = {"---", nl}
<1>1. Fence(nl) \in Seq(T) /\ Len(Fence(nl)) = 2 /\ Fence(nl)[1] = "---" /\ Fence(nl)[2] = nl
  BY DEF Fence
<1> QED BY <1>1 DEF Range

\* What stands where in a sequence and another behind it.
LEMMA ConcatAt ==
  ASSUME NEW T, NEW s \in Seq(T), NEW t \in Seq(T)
  PROVE  /\ s \o t \in Seq(T) /\ Len(s \o t) = Len(s) + Len(t)
         /\ \A i \in 1 .. Len(s) : (s \o t)[i] = s[i]
         /\ \A i \in 1 .. Len(t) : (s \o t)[Len(s) + i] = t[i]
  OBVIOUS

FencedLaid(t, nl, v, b) ==
  /\ Len(t) = Len(v) + Len(b) + 4
  /\ t[1] = "---" /\ t[2] = nl
  /\ \A i \in 1 .. Len(v) : t[2 + i] = v[i]
  /\ t[Len(v) + 3] = "---" /\ t[Len(v) + 4] = nl
  /\ \A i \in 1 .. Len(b) : t[Len(v) + 4 + i] = b[i]

LEMMA FencedAt ==
  ASSUME NEW T, NEW nl \in T, "---" \in T, NEW v \in Seq(T), NEW b \in Seq(T)
  PROVE  /\ Fenced(nl, v, b) \in Seq(T)
         /\ FencedLaid(Fenced(nl, v, b), nl, v, b)
         /\ Range(Fenced(nl, v, b)) = Range(v) \cup Range(b) \cup {"---", nl}
<1>1. PICK f \in Seq(T) : f = Fence(nl) /\ Len(f) = 2 /\ f[1] = "---" /\ f[2] = nl /\ Range(f) = {"---", nl}
  BY FenceIs
<1>2. PICK x \in Seq(T) : x = f \o v
  BY Joined, Zenon
<1>3. Len(x) = Len(f) + Len(v) /\ (\A i \in 1 .. Len(f) : x[i] = f[i])
      /\ (\A i \in 1 .. Len(v) : x[Len(f) + i] = v[i])
  BY <1>2, ConcatAt
<1>4. Range(x) = Range(f) \cup Range(v)
  BY <1>2, RangeConcatenation
<1>5. PICK y \in Seq(T) : y = x \o f
  BY Joined, Zenon
<1>6. Len(y) = Len(x) + Len(f) /\ (\A i \in 1 .. Len(x) : y[i] = x[i])
      /\ (\A i \in 1 .. Len(f) : y[Len(x) + i] = f[i])
  BY <1>5, ConcatAt
<1>7. Range(y) = Range(x) \cup Range(f)
  BY <1>5, RangeConcatenation
<1>8. PICK t \in Seq(T) : t = y \o b
  BY Joined, Zenon
<1>9. Len(t) = Len(y) + Len(b) /\ (\A i \in 1 .. Len(y) : t[i] = y[i])
      /\ (\A i \in 1 .. Len(b) : t[Len(y) + i] = b[i])
  BY <1>8, ConcatAt
<1>10. Range(t) = Range(y) \cup Range(b)
  BY <1>8, RangeConcatenation
<1>11. t = Fenced(nl, v, b)
  BY <1>1, <1>2, <1>5, <1>8 DEF Fenced
<1>12. Len(v) \in Nat /\ Len(b) \in Nat /\ Len(x) = Len(v) + 2 /\ Len(y) = Len(v) + 4
  BY <1>1, <1>3, <1>6
<1>13. FencedLaid(t, nl, v, b)
  <2>1. t[1] = "---" /\ t[2] = nl
    <3>1. 1 \in 1 .. Len(f) /\ 2 \in 1 .. Len(f) /\ 1 \in 1 .. Len(x) /\ 2 \in 1 .. Len(x)
          /\ 1 \in 1 .. Len(y) /\ 2 \in 1 .. Len(y)
      BY <1>1, <1>12
    <3> QED BY <1>1, <1>3, <1>6, <1>9, <3>1
  <2>2. ASSUME NEW i \in 1 .. Len(v) PROVE t[2 + i] = v[i]
    <3>1. Len(f) + i = 2 + i /\ 2 + i \in 1 .. Len(x) /\ 2 + i \in 1 .. Len(y)
      BY <1>1, <1>12
    <3> QED BY <1>3, <1>6, <1>9, <3>1
  <2>3. t[Len(v) + 3] = "---" /\ t[Len(v) + 4] = nl
    <3>1. 1 \in 1 .. Len(f) /\ 2 \in 1 .. Len(f) /\ Len(x) + 1 = Len(v) + 3 /\ Len(x) + 2 = Len(v) + 4
          /\ Len(v) + 3 \in 1 .. Len(y) /\ Len(v) + 4 \in 1 .. Len(y)
      BY <1>1, <1>12
    <3> QED BY <1>1, <1>6, <1>9, <3>1
  <2>4. \A i \in 1 .. Len(b) : t[Len(v) + 4 + i] = b[i]
    BY <1>9, <1>12
  <2>5. Len(t) = Len(v) + Len(b) + 4
    BY <1>9, <1>12
  <2> QED BY <2>1, <2>2, <2>3, <2>4, <2>5 DEF FencedLaid
<1>14. Range(t) = Range(v) \cup Range(b) \cup {"---", nl}
  BY <1>1, <1>4, <1>7, <1>10
<1> QED BY <1>11, <1>13, <1>14

\* The m elements of t behind the first k.
Part(x, t, k, m) ==
  x = SubSeq(t, k + 1, k + m) /\ Len(x) = m /\ \A i \in 1 .. m : x[i] = t[k + i]

LEMMA PartIs ==
  ASSUME NEW T, NEW t \in Seq(T), NEW k \in Nat, NEW m \in Nat, k + m <= Len(t)
  PROVE  \E x \in Seq(T) : Part(x, t, k, m)
<1>1. \A i \in k + 1 .. k + m : i \in 1 .. Len(t)
  OBVIOUS
<1>2. \A i \in k + 1 .. k + m : t[i] \in T
  BY <1>1
<1>3. k + 1 \in Int /\ k + m \in Int
  OBVIOUS
<1>4. PICK w : w = SubSeq(t, k + 1, k + m)
  OBVIOUS
<1>5. /\ w \in Seq(T) /\ Len(w) = (IF k + 1 <= k + m THEN (k + m) - (k + 1) + 1 ELSE 0)
      /\ \A i \in 1 .. (k + m) - (k + 1) + 1 : w[i] = t[(k + 1) + i - 1]
  <2>1. SubSeq(t, k + 1, k + m) \in Seq(T)
    BY <1>2, <1>3, SubSeqProperties, SMTT(40)
  <2>2. Len(SubSeq(t, k + 1, k + m)) = (IF k + 1 <= k + m THEN (k + m) - (k + 1) + 1 ELSE 0)
    BY <1>2, <1>3, SMTT(40)
  <2>3. \A i \in 1 .. (k + m) - (k + 1) + 1 : SubSeq(t, k + 1, k + m)[i] = t[(k + 1) + i - 1]
    BY <1>2, <1>3, SMTT(40)
  <2> QED BY <1>4, <2>1, <2>2, <2>3
<1>6. (k + m) - (k + 1) + 1 = m /\ (k + 1 <= k + m <=> m # 0)
  OBVIOUS
<1>7. \A i \in 1 .. m : (k + 1) + i - 1 = k + i
  OBVIOUS
<1> QED BY <1>4, <1>5, <1>6, <1>7, ZenonT(60) DEF Part

LEMMA FencedIs ==
  ASSUME NEW T, NEW nl \in T, "---" \in T, NEW v \in Seq(T), NEW b \in Seq(T),
         NEW t \in Seq(T), FencedLaid(t, nl, v, b)
  PROVE  t = Fenced(nl, v, b)
<1> PICK r : r = Fenced(nl, v, b)
  OBVIOUS
<1>1. r \in Seq(T) /\ FencedLaid(r, nl, v, b)
  BY FencedAt
<1>2. PICK n \in Nat : n = Len(v) + Len(b) + 4
  OBVIOUS
<1>3. Len(r) = n /\ Len(t) = n /\ Len(v) \in Nat /\ Len(b) \in Nat
  BY <1>1, <1>2 DEF FencedLaid
<1>4. ASSUME NEW i \in 1 .. n PROVE r[i] = t[i]
  <2>1. CASE i = 1 \/ i = 2
    BY <1>1, <2>1 DEF FencedLaid
  <2>2. CASE 2 < i /\ i < Len(v) + 3
    <3>1. PICK j \in 1 .. Len(v) : i = 2 + j
      <4>1. i - 2 \in 1 .. Len(v) /\ i = 2 + (i - 2)
        BY <1>3, <2>2
      <4> QED BY <4>1
    <3> QED BY <1>1, <3>1 DEF FencedLaid
  <2>3. CASE i = Len(v) + 3 \/ i = Len(v) + 4
    BY <1>1, <2>3 DEF FencedLaid
  <2>4. CASE Len(v) + 4 < i
    <3>1. PICK j \in 1 .. Len(b) : i = Len(v) + 4 + j
      <4>1. i - (Len(v) + 4) \in 1 .. Len(b) /\ i = Len(v) + 4 + (i - (Len(v) + 4))
        BY <1>2, <1>3, <2>4
      <4> QED BY <4>1
    <3> QED BY <1>1, <3>1 DEF FencedLaid
  <2>5. \/ i = 1 \/ i = 2 \/ (2 < i /\ i < Len(v) + 3)
        \/ i = Len(v) + 3 \/ i = Len(v) + 4 \/ Len(v) + 4 < i
    BY <1>3
  <2> QED BY <2>1, <2>2, <2>3, <2>4, <2>5
<1> QED BY <1>1, <1>3, <1>4, SeqEqual

\* t has the frontmatter v, in the newlines that t is read with, and the text b below.
FrontBody(t, nl, v, b) ==
  nl = detect_newline(t) /\ t = Fenced(nl, v, b) /\ EndsIn(v, nl) /\ Open(v, nl)

LEMMA FrontIs ==
  ASSUME NEW T, Newlines \subseteq T, "---" \in T, NEW v \in Seq(T), NEW b \in Seq(T),
         NEW t, NEW nl, FrontBody(t, nl, v, b)
  PROVE  /\ HasFrontmatter(t) /\ AfterFrontmatter(t) = b
         /\ Frontmatter(t) = SubSeq(v, 1, Len(v) - 1)
<1>1. nl \in Newlines /\ nl \in T /\ nl # "---" /\ nl = detect_newline(t)
  BY NewlineIs DEF FrontBody, Newlines
<1>2. t \in Seq(T) /\ FencedLaid(t, nl, v, b)
  BY <1>1, FencedAt DEF FrontBody
<1>3. Len(v) \in Nat /\ Len(b) \in Nat /\ Len(v) >= 1 /\ v[Len(v)] = nl
      /\ Len(t) = Len(v) + Len(b) + 4
  <2>1. v # <<>> /\ v[Len(v)] = nl
    BY DEF FrontBody, EndsIn
  <2>2. Len(v) \in Nat /\ Len(b) \in Nat /\ Len(v) # 0
    BY <2>1
  <2> QED BY <1>2, <2>1, <2>2 DEF FencedLaid
<1>4. PICK C \in SUBSET Nat :
        /\ C = Closings(t)
        /\ C = {i \in 3 .. Len(t) - 2 : t[i] = nl /\ t[i + 1] = "---" /\ t[i + 2] = nl}
  <2>1. Closings(t) = {i \in 3 .. Len(t) - 2 : t[i] = nl /\ t[i + 1] = "---" /\ t[i + 2] = nl}
    BY <1>1 DEF Closings
  <2>2. 3 .. Len(t) - 2 \subseteq Nat
    BY <1>3
  <2> QED BY <2>1, <2>2
<1>5. PICK n \in Nat : n = Len(v) + 2
  BY <1>3
<1>6. n \in C
  <2>1. n \in 3 .. Len(t) - 2
    BY <1>3, <1>5
  <2>2. t[n] = nl
    <3>1. Len(v) \in 1 .. Len(v) /\ n = 2 + Len(v)
      BY <1>3, <1>5
    <3> QED BY <1>2, <1>3, <3>1 DEF FencedLaid
  <2>3. t[n + 1] = "---" /\ t[n + 2] = nl
    <3>1. n + 1 = Len(v) + 3 /\ n + 2 = Len(v) + 4
      BY <1>3, <1>5
    <3> QED BY <1>2, <3>1 DEF FencedLaid
  <2> QED BY <1>4, <2>1, <2>2, <2>3
<1>7. ASSUME NEW k \in C PROVE n <= k
  <2>1. k \in 3 .. Len(t) - 2 /\ t[k] = nl /\ t[k + 1] = "---" /\ t[k + 2] = nl
    BY <1>4
  <2>2. SUFFICES ASSUME k < n PROVE FALSE
    BY <1>4, <1>5
  <2>3. PICK i \in 1 .. Len(v) - 1 : k = 2 + i
    <3>1. k - 2 \in 1 .. Len(v) - 1 /\ k = 2 + (k - 2)
      BY <1>3, <1>5, <2>1, <2>2
    <3> QED BY <3>1
  <2>4. i \in 1 .. Len(v) /\ i + 1 \in 1 .. Len(v) /\ k + 1 = 2 + (i + 1)
    BY <1>3, <2>3
  <2>5. v[i] = nl /\ v[i + 1] = "---"
    BY <1>2, <2>1, <2>3, <2>4 DEF FencedLaid
  <2>6. CASE i + 1 = Len(v)
    BY <1>1, <1>3, <2>5, <2>6
  <2>7. CASE i + 1 # Len(v)
    <3>1. i \in 1 .. Len(v) - 2 /\ i + 2 \in 1 .. Len(v) /\ k + 2 = 2 + (i + 2)
      BY <1>3, <2>3, <2>7
    <3>2. v[i + 2] = nl
      BY <1>2, <2>1, <3>1 DEF FencedLaid
    <3> QED BY <2>5, <3>1, <3>2 DEF FrontBody, Open
  <2> QED BY <2>6, <2>7
<1>8. Min(C) = n
  <2>1. Min(C) \in C /\ \A k \in C : Min(C) <= k
    BY <1>6, LeastIs
  <2>2. n <= Min(C) /\ Min(C) <= n /\ Min(C) \in Nat
    BY <1>6, <1>7, <2>1
  <2> QED BY <2>2
<1>9. HasFrontmatter(t)
  <2>1. PICK f \in Seq(T) : f = <<"---", nl>> /\ Len(f) = 2 /\ f[1] = "---" /\ f[2] = nl
    BY <1>1, FenceIs DEF Fence
  <2>2. PICK x \in Seq(T) : Part(x, t, 0, 2)
    <3>1. 0 + 2 <= Len(t) /\ 0 \in Nat /\ 2 \in Nat
      BY <1>3
    <3> QED BY <1>2, <3>1, PartIs, Zenon
  <2>3. PICK y \in Seq(T) : Part(y, f, 0, 2)
    <3>1. 0 + 2 <= Len(f) /\ 0 \in Nat /\ 2 \in Nat
      BY <2>1
    <3> QED BY <2>1, <3>1, PartIs, Zenon
  <2>4. t[1] = "---" /\ t[2] = nl
    BY <1>2 DEF FencedLaid
  <2>5. x = y
    <3>1. \A i \in 1 .. 2 : i = 1 \/ i = 2
      OBVIOUS
    <3>2. \A i \in 1 .. Len(x) : x[i] = y[i]
      BY <2>1, <2>2, <2>3, <2>4, <3>1 DEF Part
    <3>3. Len(x) = Len(y)
      BY <2>2, <2>3 DEF Part
    <3> QED BY <3>2, <3>3, SeqEqual
  <2>6. IsPrefix(<<"---", nl>>, t)
    <3>1. Len(f) <= Len(t)
      BY <1>3, <2>1
    <3>2. x = SubSeq(t, 1, 2) /\ y = SubSeq(f, 1, 2)
      BY <2>2, <2>3 DEF Part
    <3> QED BY <2>1, <2>5, <3>1, <3>2 DEF IsPrefix
  <2> QED BY <1>1, <1>4, <1>6, <2>6 DEF HasFrontmatter
<1>10. Frontmatter(t) = SubSeq(v, 1, Len(v) - 1)
  <2>1. PICK m \in Nat : m = Len(v) - 1
    BY <1>3
  <2>2. Frontmatter(t) = SubSeq(t, 3, 2 + m)
    <3>1. n - 1 = 2 + m
      BY <1>3, <1>5, <2>1
    <3> QED BY <1>4, <1>8, <3>1 DEF Frontmatter
  <2>3. PICK x \in Seq(T) : Part(x, t, 2, m)
    <3>1. 2 + m <= Len(t) /\ 2 \in Nat
      BY <1>3, <2>1
    <3> QED BY <1>2, <3>1, PartIs, Zenon
  <2>4. PICK y \in Seq(T) : Part(y, v, 0, m)
    <3>1. 0 + m <= Len(v) /\ 0 \in Nat
      BY <1>3, <2>1
    <3> QED BY <3>1, PartIs, Zenon
  <2>5. /\ x = SubSeq(t, 3, 2 + m) /\ Len(x) = m /\ \A i \in 1 .. m : x[i] = t[2 + i]
        /\ y = SubSeq(v, 1, m) /\ Len(y) = m /\ \A i \in 1 .. m : y[i] = v[i]
    BY <2>3, <2>4 DEF Part
  <2>7. \A i \in 1 .. m : x[i] = y[i]
    <3>1. \A i \in 1 .. m : i \in 1 .. Len(v)
      BY <1>3, <2>1
    <3> QED BY <1>2, <2>5, <3>1 DEF FencedLaid
  <2>8. x = y
    BY <2>5, <2>7, SeqEqual
  <2> QED BY <2>1, <2>2, <2>5, <2>8
<1>11. AfterFrontmatter(t) = b
  <2>1. AfterFrontmatter(t) = SubSeq(t, n + 3, Len(t))
    BY <1>4, <1>8 DEF AfterFrontmatter
  <2>2. PICK o \in Nat : o = n + 2
    BY <1>5
  <2>3. PICK x \in Seq(T) : Part(x, t, o, Len(b))
    <3>1. o + Len(b) <= Len(t)
      BY <1>3, <1>5, <2>2
    <3> QED BY <1>2, <1>3, <3>1, PartIs, Zenon
  <2>4. x = SubSeq(t, n + 3, Len(t)) /\ Len(x) = Len(b) /\ \A i \in 1 .. Len(b) : x[i] = t[o + i]
    <3>1. o + 1 = n + 3 /\ o + Len(b) = Len(t)
      BY <1>3, <1>5, <2>2
    <3> QED BY <2>3, <3>1 DEF Part
  <2>5. \A i \in 1 .. Len(b) : o + i = Len(v) + 4 + i
    BY <1>3, <1>5, <2>2
  <2>6. \A i \in 1 .. Len(b) : x[i] = b[i]
    BY <1>2, <2>4, <2>5 DEF FencedLaid
  <2>7. x = b
    BY <2>4, <2>6, SeqEqual
  <2> QED BY <2>1, <2>4, <2>7
<1> QED BY <1>9, <1>10, <1>11

\* A text with a frontmatter is of that form.
LEMMA FrontOf ==
  ASSUME NEW T, Newlines \subseteq T, "---" \in T, NEW t \in Seq(T), HasFrontmatter(t)
  PROVE  \E v \in Seq(T), b \in Seq(T) :
           /\ FrontBody(t, detect_newline(t), v, b)
           /\ v = Append(Frontmatter(t), detect_newline(t)) /\ b = AfterFrontmatter(t)
           /\ Range(v) = Range(Frontmatter(t)) \cup {detect_newline(t)}
<1>1. PICK nl : nl = detect_newline(t) /\ nl \in Newlines /\ nl \in T
  BY NewlineIs
<1>2. PICK C \in SUBSET Nat :
        /\ C = Closings(t)
        /\ C = {i \in 3 .. Len(t) - 2 : t[i] = nl /\ t[i + 1] = "---" /\ t[i + 2] = nl}
  <2>1. Closings(t) = {i \in 3 .. Len(t) - 2 : t[i] = nl /\ t[i + 1] = "---" /\ t[i + 2] = nl}
    BY <1>1 DEF Closings
  <2>2. 3 .. Len(t) - 2 \subseteq Nat
    OBVIOUS
  <2> QED BY <2>1, <2>2
<1>3. PICK n \in C : n = Min(C) /\ \A k \in C : n <= k
  <2>1. C # {}
    BY <1>2 DEF HasFrontmatter
  <2> QED BY <2>1, LeastIs
<1>4. /\ n \in Nat /\ Len(t) \in Nat /\ 3 <= n /\ n + 2 <= Len(t)
      /\ t[n] = nl /\ t[n + 1] = "---" /\ t[n + 2] = nl
  <2>1. n \in 3 .. Len(t) - 2 /\ t[n] = nl /\ t[n + 1] = "---" /\ t[n + 2] = nl
    BY <1>2
  <2>2. Len(t) \in Nat
    OBVIOUS
  <2> QED BY <2>1, <2>2
<1>5. t[1] = "---" /\ t[2] = nl
  <2>1. PICK f \in Seq(T) : f = <<"---", nl>> /\ Len(f) = 2 /\ f[1] = "---" /\ f[2] = nl
    BY <1>1, FenceIs DEF Fence
  <2>2. SubSeq(f, 1, 2) = SubSeq(t, 1, 2)
    BY <1>1, <2>1 DEF HasFrontmatter, IsPrefix
  <2>3. PICK x \in Seq(T) : Part(x, t, 0, 2)
    <3>1. 0 + 2 <= Len(t) /\ 0 \in Nat /\ 2 \in Nat
      BY <1>4
    <3> QED BY <3>1, PartIs, Zenon
  <2>4. PICK y \in Seq(T) : Part(y, f, 0, 2)
    <3>1. 0 + 2 <= Len(f) /\ 0 \in Nat /\ 2 \in Nat
      BY <2>1
    <3> QED BY <2>1, <3>1, PartIs, Zenon
  <2>5. x = SubSeq(t, 1, 2) /\ x[1] = t[1] /\ x[2] = t[2]
    BY <2>3 DEF Part
  <2>6. y = SubSeq(f, 1, 2) /\ y[1] = f[1] /\ y[2] = f[2]
    BY <2>4 DEF Part
  <2> QED BY <2>1, <2>2, <2>5, <2>6
<1>6. PICK m \in Nat : m = n - 3
  BY <1>4
<1>7. PICK w \in Seq(T) : /\ w = Frontmatter(t)
                          /\ Len(w) = m /\ \A i \in 1 .. m : w[i] = t[2 + i]
  <2>1. PICK w \in Seq(T) : Part(w, t, 2, m)
    <3>1. 2 + m <= Len(t) /\ 2 \in Nat
      BY <1>4, <1>6
    <3> QED BY <3>1, PartIs, Zenon
  <2>2. 2 + 1 = 3 /\ 2 + m = n - 1
    BY <1>4, <1>6
  <2>3. Frontmatter(t) = SubSeq(t, 3, n - 1)
    BY <1>2, <1>3 DEF Frontmatter
  <2> QED BY <2>1, <2>2, <2>3 DEF Part
<1>8. PICK b \in Seq(T) : /\ b = AfterFrontmatter(t) /\ Len(b) = Len(t) - (n + 2)
                          /\ \A i \in 1 .. Len(b) : b[i] = t[n + 2 + i]
  <2>1. PICK o \in Nat : o = n + 2
    BY <1>4
  <2>2. PICK p \in Nat : p = Len(t) - (n + 2)
    <3>1. Len(t) - (n + 2) \in Nat
      BY <1>4
    <3> QED BY <3>1
  <2>3. PICK b \in Seq(T) : Part(b, t, o, p)
    <3>1. o + p <= Len(t)
      BY <1>4, <2>1, <2>2
    <3> QED BY <3>1, PartIs, Zenon
  <2>4. o + 1 = n + 3 /\ o + p = Len(t)
    BY <1>4, <2>1, <2>2
  <2>5. AfterFrontmatter(t) = SubSeq(t, n + 3, Len(t))
    BY <1>2, <1>3 DEF AfterFrontmatter
  <2> QED BY <2>1, <2>2, <2>3, <2>4, <2>5 DEF Part
<1>9. PICK v \in Seq(T) : /\ v = Append(w, nl) /\ Len(v) = m + 1
                          /\ v[m + 1] = nl /\ \A i \in 1 .. m : v[i] = w[i]
  <2>1. PICK v \in Seq(T) : v = Append(w, nl)
    BY <1>1, AppendProperties, Zenon
  <2>2. Len(v) = m + 1 /\ v[m + 1] = nl /\ \A i \in 1 .. m : v[i] = w[i]
    BY <1>1, <1>7, <2>1, AppendProperties
  <2> QED BY <2>1, <2>2
<1>10. \A i \in 1 .. m + 1 : t[2 + i] = v[i]
  <2>1. 2 + (m + 1) = n
    BY <1>4, <1>6
  <2>2. \A i \in 1 .. m + 1 : i \in 1 .. m \/ i = m + 1
    OBVIOUS
  <2> QED BY <1>4, <1>7, <1>9, <2>1, <2>2
<1>11. FencedLaid(t, nl, v, b)
  <2>1. Len(t) = Len(v) + Len(b) + 4 /\ Len(v) + 3 = n + 1 /\ Len(v) + 4 = n + 2
    BY <1>4, <1>6, <1>8, <1>9
  <2>2. \A i \in 1 .. Len(v) : t[2 + i] = v[i]
    BY <1>9, <1>10
  <2> QED BY <1>4, <1>5, <1>8, <2>1, <2>2 DEF FencedLaid
<1>12. t = Fenced(nl, v, b)
  BY <1>1, <1>11, FencedIs
<1>13. EndsIn(v, nl)
  <2>1. v # <<>>
    BY <1>9, SMTT(40)
  <2> QED BY <1>9, <2>1 DEF EndsIn
<1>14. Open(v, nl)
  <2>1. SUFFICES ASSUME NEW i \in 1 .. Len(v) - 2,
                        v[i] = nl, v[i + 1] = "---", v[i + 2] = nl
                 PROVE  FALSE
    BY DEF Open
  <2>2. i \in 1 .. m + 1 /\ i + 1 \in 1 .. m + 1 /\ i + 2 \in 1 .. m + 1
    BY <1>9
  <2>3. PICK k \in Nat : k = 2 + i
    BY <2>2
  <2>4. k + 1 = 2 + (i + 1) /\ k + 2 = 2 + (i + 2)
    BY <2>2, <2>3
  <2>5. t[k] = nl /\ t[k + 1] = "---" /\ t[k + 2] = nl
    BY <1>10, <2>1, <2>2, <2>3, <2>4
  <2>6. k \in 3 .. Len(t) - 2 /\ k < n
    BY <1>4, <1>6, <1>9, <2>2, <2>3
  <2>7. k \in C
    BY <1>2, <2>5, <2>6
  <2> QED BY <1>3, <1>4, <2>6, <2>7
<1>15. Range(v) = Range(w) \cup {nl}
  <2>1. \A i \in 1 .. m + 1 : i \in 1 .. m \/ i = m + 1
    OBVIOUS
  <2>2. DOMAIN v = 1 .. m + 1 /\ DOMAIN w = 1 .. m /\ m + 1 \in 1 .. m + 1 /\ 1 .. m \subseteq 1 .. m + 1
    BY <1>7, <1>9
  <2> QED BY <1>9, <2>1, <2>2 DEF Range
<1> QED BY <1>1, <1>7, <1>8, <1>9, <1>12, <1>13, <1>14, <1>15 DEF FrontBody

\* A line that closes the frontmatter is before, in or behind a region of it.
LEMMA OpenAround ==
  ASSUME NEW T, NEW a \in Seq(T), NEW c \in Seq(T), NEW z \in Seq(T),
         NEW start \in T, NEW end \in T, NEW nl, {start, end} \cap {nl, "---"} = {}
  PROVE  /\ Open(Around(a, start, c, end, z), nl) <=> Open(a, nl) /\ Open(c, nl) /\ Open(z, nl)
         /\ EndsIn(Around(a, start, c, end, z), nl) <=> EndsIn(z, nl)
<1>1. PICK t \in Seq(T) : t = Around(a, start, c, end, z) /\ Laid(t, a, start, c, end, z)
  BY AroundIs, Zenon
<1>2. PICK p \in Nat : p = Len(a) + 1
  OBVIOUS
<1>3. PICK q \in Nat : q = Len(a) + Len(c) + 2
  OBVIOUS
<1>4. /\ Len(t) = q + Len(z) /\ t[p] = start /\ t[q] = end
      /\ \A i \in 1 .. Len(a) : t[i] = a[i]
      /\ \A i \in 1 .. Len(c) : t[p + i] = c[i]
      /\ \A i \in 1 .. Len(z) : t[q + i] = z[i]
  BY <1>1, <1>2, <1>3 DEF Laid
<1>5. Len(a) \in Nat /\ Len(c) \in Nat /\ Len(z) \in Nat /\ q = p + Len(c) + 1
  BY <1>2, <1>3
<1>6. start # nl /\ start # "---" /\ end # nl /\ end # "---"
  OBVIOUS
<1>7. ASSUME Open(a, nl), Open(c, nl), Open(z, nl)
      PROVE  Open(t, nl)
  <2>1. SUFFICES ASSUME NEW i \in 1 .. Len(t) - 2, t[i] = nl, t[i + 1] = "---", t[i + 2] = nl
                 PROVE  FALSE
    BY DEF Open
  <2>2. i # p /\ i + 1 # p /\ i + 2 # p /\ i # q /\ i + 1 # q /\ i + 2 # q
    BY <1>4, <1>6, <2>1
  <2>3. CASE i + 2 < p
    <3>1. i \in 1 .. Len(a) - 2 /\ i \in 1 .. Len(a) /\ i + 1 \in 1 .. Len(a) /\ i + 2 \in 1 .. Len(a)
      BY <1>2, <1>5, <2>3
    <3>2. a[i] = nl /\ a[i + 1] = "---" /\ a[i + 2] = nl
      BY <1>4, <2>1, <3>1
    <3> QED BY <1>7, <3>1, <3>2 DEF Open
  <2>4. CASE p < i /\ i + 2 < q
    <3>1. PICK j \in Nat : i = p + j
      <4>1. i - p \in Nat /\ i = p + (i - p)
        BY <2>4
      <4> QED BY <4>1
    <3>2. /\ j \in 1 .. Len(c) - 2 /\ j \in 1 .. Len(c) /\ j + 1 \in 1 .. Len(c) /\ j + 2 \in 1 .. Len(c)
          /\ i + 1 = p + (j + 1) /\ i + 2 = p + (j + 2)
      BY <1>5, <2>4, <3>1
    <3>3. c[j] = nl /\ c[j + 1] = "---" /\ c[j + 2] = nl
      BY <1>4, <2>1, <3>1, <3>2
    <3> QED BY <1>7, <3>2, <3>3 DEF Open
  <2>5. CASE q < i
    <3>1. PICK j \in Nat : i = q + j
      <4>1. i - q \in Nat /\ i = q + (i - q)
        BY <2>5
      <4> QED BY <4>1
    <3>2. /\ j \in 1 .. Len(z) - 2 /\ j \in 1 .. Len(z) /\ j + 1 \in 1 .. Len(z) /\ j + 2 \in 1 .. Len(z)
          /\ i + 1 = q + (j + 1) /\ i + 2 = q + (j + 2)
      BY <1>4, <1>5, <2>5, <3>1
    <3>3. z[j] = nl /\ z[j + 1] = "---" /\ z[j + 2] = nl
      BY <1>4, <2>1, <3>1, <3>2
    <3> QED BY <1>7, <3>2, <3>3 DEF Open
  <2>6. i + 2 < p \/ (p < i /\ i + 2 < q) \/ q < i
    <3>1. i \in Int /\ p \in Int /\ q \in Int
      BY <1>5
    <3>2. (i + 2 < p \/ p < i) /\ (i + 2 < q \/ q < i)
      BY <2>2, <3>1
    <3>3. p < q
      BY <1>5
    <3> QED BY <3>1, <3>2, <3>3
  <2> QED BY <2>3, <2>4, <2>5, <2>6
<1>8. ASSUME Open(t, nl)
      PROVE  Open(a, nl) /\ Open(c, nl) /\ Open(z, nl)
  <2>1. ASSUME NEW i \in 1 .. Len(a) - 2, a[i] = nl, a[i + 1] = "---", a[i + 2] = nl
        PROVE  FALSE
    <3>1. i \in 1 .. Len(t) - 2 /\ i \in 1 .. Len(a) /\ i + 1 \in 1 .. Len(a) /\ i + 2 \in 1 .. Len(a)
      BY <1>2, <1>4, <1>5
    <3>2. t[i] = nl /\ t[i + 1] = "---" /\ t[i + 2] = nl
      BY <1>4, <2>1, <3>1
    <3> QED BY <1>8, <3>1, <3>2 DEF Open
  <2>2. ASSUME NEW j \in 1 .. Len(c) - 2, c[j] = nl, c[j + 1] = "---", c[j + 2] = nl
        PROVE  FALSE
    <3>1. PICK i \in Nat : i = p + j
      OBVIOUS
    <3>2. /\ i \in 1 .. Len(t) - 2 /\ j \in 1 .. Len(c) /\ j + 1 \in 1 .. Len(c) /\ j + 2 \in 1 .. Len(c)
          /\ i + 1 = p + (j + 1) /\ i + 2 = p + (j + 2)
      BY <1>4, <1>5, <3>1
    <3>3. t[i] = nl /\ t[i + 1] = "---" /\ t[i + 2] = nl
      BY <1>4, <2>2, <3>1, <3>2
    <3> QED BY <1>8, <3>2, <3>3 DEF Open
  <2>3. ASSUME NEW j \in 1 .. Len(z) - 2, z[j] = nl, z[j + 1] = "---", z[j + 2] = nl
        PROVE  FALSE
    <3>1. PICK i \in Nat : i = q + j
      OBVIOUS
    <3>2. /\ i \in 1 .. Len(t) - 2 /\ j \in 1 .. Len(z) /\ j + 1 \in 1 .. Len(z) /\ j + 2 \in 1 .. Len(z)
          /\ i + 1 = q + (j + 1) /\ i + 2 = q + (j + 2)
      BY <1>4, <1>5, <3>1
    <3>3. t[i] = nl /\ t[i + 1] = "---" /\ t[i + 2] = nl
      BY <1>4, <2>3, <3>1, <3>2
    <3> QED BY <1>8, <3>2, <3>3 DEF Open
  <2> QED BY <2>1, <2>2, <2>3 DEF Open
<1>9. EndsIn(t, nl) <=> EndsIn(z, nl)
  <2>1. t # <<>> /\ (Len(z) = 0 => t[Len(t)] = end) /\ (z # <<>> <=> Len(z) # 0)
    <3>1. Len(t) # 0
      BY <1>4, <1>5
    <3>2. t # <<>>
      BY <3>1
    <3>3. z # <<>> <=> Len(z) # 0
      OBVIOUS
    <3>4. Len(z) = 0 => Len(t) = q
      BY <1>4
    <3>5. t[q] = end
      BY <1>4
    <3> QED BY <3>2, <3>3, <3>4, <3>5
  <2>2. Len(z) # 0 => t[Len(t)] = z[Len(z)]
    <3>1. Len(z) # 0 => Len(z) \in 1 .. Len(z)
      BY <1>5
    <3> QED BY <1>4, <3>1
  <2> QED BY <1>6, <2>1, <2>2 DEF EndsIn
<1> QED BY <1>1, <1>7, <1>8, <1>9

LEMMA TokensAre ==
  /\ MarkersOf(Tokens, "frontmatter:start", "frontmatter:end")
  /\ MarkersOf(Tokens, "managed:start", "managed:end")
  /\ Newlines \subseteq Tokens /\ "---" \in Tokens
  /\ \A f \in Fields : f \in Tokens /\ f \notin Newlines \cup Markers \cup {"---", "conflict"}
  /\ Conflict \notin Seq(Tokens) /\ NoFile \notin Seq(Tokens)
<1>1. Newlines \subseteq Tokens /\ Markers \subseteq Tokens /\ Fields \subseteq Tokens /\ "---" \in Tokens
  BY DEF Tokens
<1>2. MarkersOf(Tokens, "frontmatter:start", "frontmatter:end")
      /\ MarkersOf(Tokens, "managed:start", "managed:end")
  BY <1>1 DEF MarkersOf, Markers, Newlines
<1>3. "conflict" \notin Tokens /\ "no file" \notin Tokens
  BY TokensAssumption
<1>4. ASSUME NEW s PROVE <<s>> \in Seq(Tokens) => s \in Tokens
  <2>1. SUFFICES ASSUME <<s>> \in Seq(Tokens) PROVE s \in Tokens
    OBVIOUS
  <2>2. Len(One(s)) = 1 /\ One(s)[1] = s
    BY OneIs
  <2>3. One(s) \in Seq(Tokens)
    BY <2>1 DEF One
  <2>4. \A x \in Seq(Tokens) : Len(x) = 1 => x[1] \in Tokens
    OBVIOUS
  <2> QED BY <2>2, <2>3, <2>4
<1>5. Conflict \notin Seq(Tokens) /\ NoFile \notin Seq(Tokens)
  BY <1>3, <1>4 DEF Conflict, NoFile
<1>6. \A f \in Fields : f \in Tokens /\ f \notin Newlines \cup Markers \cup {"---", "conflict"}
  BY <1>1, <1>3, TokensAssumption
<1> QED BY <1>1, <1>2, <1>5, <1>6

\* The last token of a text.
LEMMA EndIs ==
  ASSUME NEW T, NEW z \in Seq(T), NEW nl \in T
  PROVE  /\ EndsIn(z \o One(nl), nl)
         /\ SubSeq(z \o One(nl), 1, Len(z \o One(nl)) - 1) = z
<1>1. PICK e \in Seq(T) : e = One(nl) /\ Len(e) = 1 /\ e[1] = nl
  BY OneIs
<1>2. PICK m \in Nat : m = Len(z)
  OBVIOUS
<1>3. PICK x \in Seq(T) : x = z \o e
  BY Joined, Zenon
<1>4. Len(x) = m + 1 /\ x[m + 1] = nl /\ \A i \in 1 .. m : x[i] = z[i]
  <2>1. Len(x) = Len(z) + Len(e) /\ (\A i \in 1 .. Len(z) : x[i] = z[i])
        /\ (\A i \in 1 .. Len(e) : x[Len(z) + i] = e[i])
    BY <1>3, ConcatAt
  <2>2. 1 \in 1 .. Len(e)
    BY <1>1
  <2> QED BY <1>1, <1>2, <2>1, <2>2
<1>5. EndsIn(x, nl)
  <2>1. x # <<>>
    BY <1>4
  <2> QED BY <1>4, <2>1 DEF EndsIn
<1>6. SubSeq(x, 1, Len(x) - 1) = z
  <2>1. PICK y \in Seq(T) : Part(y, x, 0, m)
    <3>1. 0 + m <= Len(x) /\ 0 \in Nat
      BY <1>4
    <3> QED BY <3>1, PartIs, Zenon
  <2>2. y = SubSeq(x, 1, m) /\ Len(y) = m /\ \A i \in 1 .. m : y[i] = x[i]
    BY <2>1 DEF Part
  <2>3. y = z
    BY <1>2, <1>4, <2>2, SeqEqual
  <2> QED BY <1>4, <2>2, <2>3
<1> QED BY <1>1, <1>3, <1>5, <1>6

LEMMA EndOf ==
  ASSUME NEW T, NEW z \in Seq(T), NEW nl \in T, EndsIn(z, nl)
  PROVE  \E w \in Seq(T) : z = w \o One(nl)
<1>1. PICK e \in Seq(T) : e = One(nl) /\ Len(e) = 1 /\ e[1] = nl
  BY OneIs
<1>2. PICK m \in Nat : m = Len(z)
  OBVIOUS
<1>3. z # <<>> /\ z[m] = nl
  BY <1>2 DEF EndsIn
<1>4. m # 0
  BY <1>2, <1>3
<1>5. PICK k \in Nat : m = k + 1
  <2>1. m - 1 \in Nat /\ m = (m - 1) + 1
    BY <1>4
  <2> QED BY <2>1
<1>6. PICK w \in Seq(T) : Part(w, z, 0, k)
  <2>1. 0 + k <= Len(z) /\ 0 \in Nat
    BY <1>2, <1>5
  <2> QED BY <2>1, PartIs, Zenon
<1>7. Len(w) = k /\ \A i \in 1 .. k : w[i] = z[i]
  BY <1>6 DEF Part
<1>8. PICK y \in Seq(T) : y = w \o e
  BY Joined, Zenon
<1>9. Len(y) = k + 1 /\ y[k + 1] = nl /\ \A i \in 1 .. k : y[i] = w[i]
  <2>1. Len(y) = Len(w) + Len(e) /\ (\A i \in 1 .. Len(w) : y[i] = w[i])
        /\ (\A i \in 1 .. Len(e) : y[Len(w) + i] = e[i])
    BY <1>8, ConcatAt
  <2>2. 1 \in 1 .. Len(e)
    BY <1>1
  <2> QED BY <1>1, <1>7, <2>1, <2>2
<1>10. \A i \in 1 .. k + 1 : y[i] = z[i]
  <2>1. \A i \in 1 .. k + 1 : i \in 1 .. k \/ i = k + 1
    OBVIOUS
  <2> QED BY <1>3, <1>5, <1>7, <1>9, <2>1
<1>11. y = z
  BY <1>2, <1>5, <1>9, <1>10, SeqEqual
<1> QED BY <1>1, <1>8, <1>11, Zenon

Joins(x, y, z) == x \o (y \o z) = (x \o y) \o z

LEMMA Associative ==
  ASSUME NEW T, NEW x \in Seq(T), NEW y \in Seq(T), NEW z \in Seq(T)
  PROVE  Joins(x, y, z)
BY DEF Joins

\* A region without the end of what is behind it.
AroundJoin(a, start, c, end, y, z, e) ==
  Around(a, start, c, end, y) = Around(a, start, c, end, z) \o e

LEMMA AroundEnd ==
  ASSUME NEW T, NEW a \in Seq(T), NEW c \in Seq(T), NEW z \in Seq(T), NEW e \in Seq(T),
         NEW start \in T, NEW end \in T, NEW y, y = z \o e
  PROVE  AroundJoin(a, start, c, end, y, z, e)
<1>1. PICK s \in Seq(T) : s = One(start)
  BY OneIs
<1>2. PICK x \in Seq(T) : x = (a \o s) \o c
  BY Joined, Zenon
<1>3. PICK n \in Seq(T) : n = One(end)
  BY OneIs
<1>4. PICK w \in Seq(T) : w = n \o z
  BY Joined, Zenon
<1>5. n \o (z \o e) = (n \o z) \o e
  <2>1. Joins(n, z, e)
    BY Associative, Zenon
  <2> QED BY <2>1, Zenon DEF Joins
<1>6. x \o (w \o e) = (x \o w) \o e
  <2>1. Joins(x, w, e)
    BY Associative, Zenon
  <2> QED BY <2>1, Zenon DEF Joins
<1> QED BY <1>1, <1>2, <1>3, <1>4, <1>5, <1>6, Zenon DEF Around, AroundJoin

\* The content of the region of the fields.
LEMMA FieldsLined ==
  ASSUME NEW f \in Fields, NEW nl \in Newlines
  PROVE  /\ <<f, nl>> \in Seq(Tokens) /\ Free(<<f, nl>>, "frontmatter:start", "frontmatter:end")
         /\ Lined(<<f, nl>>, nl) \in Seq(Tokens) /\ Len(Lined(<<f, nl>>, nl)) = 3
         /\ Lined(<<f, nl>>, nl)[1] = nl /\ Lined(<<f, nl>>, nl)[2] = f /\ Lined(<<f, nl>>, nl)[3] = nl
         /\ canonical_managed_body(<<f, nl>>) = <<f>>
<1>1. f \in Tokens /\ nl \in Tokens /\ "LF" \in Tokens /\ f \notin Newlines /\ "LF" \in Newlines
  BY TokensAre DEF Newlines
<1>2. f \notin Markers /\ nl \notin Markers
  BY TokensAre DEF Newlines, Markers
<1>3. PICK c \in Seq(Tokens) : c = <<f, nl>> /\ Len(c) = 2 /\ c[1] = f /\ c[2] = nl
  <2>1. <<f, nl>> \in Seq(Tokens)
    BY <1>1
  <2>2. Len(<<f, nl>>) = 2 /\ <<f, nl>>[1] = f /\ <<f, nl>>[2] = nl
    OBVIOUS
  <2> QED BY <2>1, <2>2, Zenon
<1>4. Free(c, "frontmatter:start", "frontmatter:end")
  <2>1. \A i \in DOMAIN c : i = 1 \/ i = 2
    BY <1>3
  <2>2. Range(c) \subseteq {f, nl}
    BY <1>3, <2>1 DEF Range
  <2> QED BY <1>2, <2>2 DEF Free, Markers
<1>5. PICK d \in Seq(Tokens) : d = <<f>> /\ Len(d) = 1 /\ d[1] = f
  BY <1>1, OneIs, Zenon DEF One
<1>6. ASSUME NEW l \in Newlines PROVE TrimEnd(normalize_content_newlines(c, l)) = d
  <2>1. PICK n \in Seq(Tokens) :
          /\ n = normalize_content_newlines(c, l) /\ Len(n) = 2
          /\ \A i \in 1 .. 2 : n[i] = IF c[i] \in Newlines THEN l ELSE c[i]
    <3>1. PICK n : n = normalize_content_newlines(c, l)
      OBVIOUS
    <3>2. /\ n \in Seq(Tokens) /\ Len(n) = Len(c)
          /\ \A i \in 1 .. Len(c) : n[i] = IF c[i] \in Newlines THEN l ELSE c[i]
      BY <3>1, NormalIs, TokensAre
    <3> QED BY <1>3, <3>1, <3>2
  <2>2. 1 \in 1 .. 2 /\ 2 \in 1 .. 2
    OBVIOUS
  <2>3. n[1] = f /\ n[2] = l
    BY <1>1, <1>3, <2>1, <2>2
  <2>4. Trimmed(d, n)
    <3>1. \A i \in 1 .. Len(d) : i = 1
      BY <1>5
    <3>2. \A i \in 1 .. Len(n) : i > Len(d) => i = 2
      BY <1>5, <2>1
    <3>3. Len(d) <= Len(n)
      BY <1>5, <2>1
    <3> QED BY <1>1, <1>5, <1>6, <2>3, <3>1, <3>2, <3>3 DEF Trimmed
  <2>5. TrimEnd(n) = d
    BY <2>4, TrimOnly
  <2> QED BY <2>1, <2>5
<1>7. canonical_managed_body(c) = d /\ NewContent(c, nl) = d
  BY <1>1, <1>6 DEF canonical_managed_body, NewContent
<1>8. PICK l \in Seq(Tokens) : l = Lined(c, nl) /\ Len(l) = 3 /\ l[1] = nl /\ l[2] = f /\ l[3] = nl
  <2>1. PICK o \in Seq(Tokens) : o = One(nl) /\ Len(o) = 1 /\ o[1] = nl
    BY <1>1, OneIs
  <2>2. PICK x \in Seq(Tokens) : x = o \o d
    BY Joined, Zenon
  <2>3. Len(x) = Len(o) + Len(d) /\ (\A i \in 1 .. Len(o) : x[i] = o[i])
        /\ (\A i \in 1 .. Len(d) : x[Len(o) + i] = d[i])
    BY <2>2, ConcatAt
  <2>4. PICK l \in Seq(Tokens) : l = x \o o
    BY Joined, Zenon
  <2>5. Len(l) = Len(x) + Len(o) /\ (\A i \in 1 .. Len(x) : l[i] = x[i])
        /\ (\A i \in 1 .. Len(o) : l[Len(x) + i] = o[i])
    BY <2>4, ConcatAt
  <2>6. 1 \in 1 .. 1 /\ 1 + 1 = 2 /\ 2 + 1 = 3 /\ 1 \in 1 .. 2 /\ 2 \in 1 .. 2
    OBVIOUS
  <2>7. l = Lined(c, nl)
    BY <1>7, <2>1, <2>2, <2>4 DEF Lined
  <2> QED BY <1>5, <2>1, <2>3, <2>5, <2>6, <2>7
<1> QED BY <1>3, <1>4, <1>5, <1>7, <1>8

-----------------------------------------------------------------------------
(* The region of the fields *)

LEMMA FrontTokens ==
  ASSUME NEW v \in Seq(Tokens), NEW b \in Seq(Tokens), NEW t, NEW nl, FrontBody(t, nl, v, b)
  PROVE  /\ nl \in Newlines /\ nl \in Tokens /\ t \in Seq(Tokens)
         /\ Range(t) = Range(v) \cup Range(b) \cup {"---", nl}
         /\ detect_newline(v) = nl /\ Last(v) = nl /\ v # <<>>
<1>1. nl \in Newlines /\ nl \in Tokens /\ "---" \in Tokens /\ (nl = "CRLF" <=> "CRLF" \in Range(t))
  BY NewlineIs, TokensAre DEF FrontBody
<1>2. t \in Seq(Tokens) /\ Range(t) = Range(v) \cup Range(b) \cup {"---", nl}
  BY <1>1, FencedAt DEF FrontBody
<1>3. Last(v) = nl /\ v # <<>>
  BY DEF FrontBody, EndsIn, Last
<1>4. nl \in Range(v)
  <2>1. Len(v) \in DOMAIN v /\ v[Len(v)] = nl
    BY <1>3 DEF Last
  <2> QED BY <2>1 DEF Range
<1>5. detect_newline(v) = nl
  <2>1. nl = "CRLF" <=> "CRLF" \in Range(v)
    BY <1>1, <1>2, <1>4
  <2> QED BY <1>1, <2>1, NewlineIs DEF Newlines
<1> QED BY <1>1, <1>2, <1>3, <1>5

\* The frontmatter v holds the fields f, in a region between a and z.
HoldsFields(v, f, nl, a, z) ==
  /\ v = Around(a, "frontmatter:start", Lined(<<f, nl>>, nl), "frontmatter:end", z)
  /\ Free(a, "frontmatter:start", "frontmatter:end") /\ Free(z, "frontmatter:start", "frontmatter:end")

LEMMA FieldsRange ==
  ASSUME NEW f \in Fields, NEW nl \in Newlines, NEW a \in Seq(Tokens), NEW z \in Seq(Tokens),
         NEW v, HoldsFields(v, f, nl, a, z)
  PROVE  /\ v \in Seq(Tokens)
         /\ Range(v) = Range(a) \cup Range(z) \cup {"frontmatter:start", nl, f, "frontmatter:end"}
         /\ Open(v, nl) <=> Open(a, nl) /\ Open(z, nl)
         /\ EndsIn(v, nl) <=> EndsIn(z, nl)
<1>1. "frontmatter:start" \in Tokens /\ "frontmatter:end" \in Tokens
  BY TokensAre DEF MarkersOf
<1>2. PICK l \in Seq(Tokens) : l = Lined(<<f, nl>>, nl) /\ Len(l) = 3 /\ l[1] = nl /\ l[2] = f /\ l[3] = nl
  BY FieldsLined
<1>3. v = Around(a, "frontmatter:start", l, "frontmatter:end", z)
  BY <1>2 DEF HoldsFields
<1>4. Range(l) = {nl, f}
  <2>1. \A i \in DOMAIN l : i = 1 \/ i = 2 \/ i = 3
    BY <1>2
  <2>2. 1 \in DOMAIN l /\ 2 \in DOMAIN l
    BY <1>2
  <2> QED BY <1>2, <2>1, <2>2 DEF Range
<1>5. v \in Seq(Tokens)
  BY <1>1, <1>3, AroundIs
<1>6. Range(v) = Range(a) \cup Range(l) \cup Range(z) \cup {"frontmatter:start", "frontmatter:end"}
  BY <1>1, <1>3, RangeAround
<1>7. Open(l, nl)
  <2>1. f # "---"
    BY TokensAre
  <2>2. \A i \in 1 .. Len(l) - 2 : i + 1 = 2
    <3>1. Len(l) - 2 = 1
      BY <1>2
    <3>2. \A i \in 1 .. 1 : i + 1 = 2
      OBVIOUS
    <3> QED BY <3>1, <3>2, Zenon
  <2> QED BY <1>2, <2>1, <2>2 DEF Open
<1>8. {"frontmatter:start", "frontmatter:end"} \cap {nl, "---"} = {}
  BY DEF Newlines
<1>9. /\ Open(v, nl) <=> Open(a, nl) /\ Open(l, nl) /\ Open(z, nl)
      /\ EndsIn(v, nl) <=> EndsIn(z, nl)
  BY <1>1, <1>3, <1>8, OpenAround
<1> QED BY <1>4, <1>5, <1>6, <1>7, <1>9

\* What is between the fences is read as a frontmatter.
LEMMA FrontMade ==
  ASSUME NEW f \in Fields, NEW nl \in Newlines, NEW a \in Seq(Tokens), NEW z \in Seq(Tokens),
         NEW b \in Seq(Tokens), NEW v, HoldsFields(v, f, nl, a, z),
         Open(a, nl), Open(z, nl), EndsIn(z, nl),
         nl = "LF" => "CRLF" \notin Range(a) \cup Range(z) \cup Range(b)
  PROVE  FrontBody(Fenced(nl, v, b), nl, v, b)
<1>1. /\ v \in Seq(Tokens) /\ Open(v, nl) /\ EndsIn(v, nl)
      /\ Range(v) = Range(a) \cup Range(z) \cup {"frontmatter:start", nl, f, "frontmatter:end"}
  BY FieldsRange
<1>2. PICK t \in Seq(Tokens) : /\ t = Fenced(nl, v, b)
                               /\ Range(t) = Range(v) \cup Range(b) \cup {"---", nl}
  BY <1>1, FencedAt, TokensAre
<1>3. f \notin Newlines
  BY TokensAre
<1>4. nl = "CRLF" <=> "CRLF" \in Range(t)
  BY <1>1, <1>2, <1>3 DEF Newlines
<1>5. detect_newline(t) = nl
  BY <1>4, NewlineIs DEF Newlines
<1> QED BY <1>1, <1>2, <1>5 DEF FrontBody

\* The fields are read.
LEMMA FieldsRead ==
  ASSUME NEW f \in Fields, NEW nl, NEW a \in Seq(Tokens), NEW z \in Seq(Tokens),
         NEW v \in Seq(Tokens), NEW b \in Seq(Tokens), NEW t,
         FrontBody(t, nl, v, b), HoldsFields(v, f, nl, a, z)
  PROVE  extract_single_region(Frontmatter(t), "frontmatter:start", "frontmatter:end") = <<f>>
<1>1. nl \in Newlines /\ nl \in Tokens /\ "frontmatter:start" \in Tokens /\ "frontmatter:end" \in Tokens
  BY FrontTokens, TokensAre DEF MarkersOf
<1>2. Frontmatter(t) = SubSeq(v, 1, Len(v) - 1)
  BY FrontIs, TokensAre
<1>3. EndsIn(z, nl)
  BY <1>1, FieldsRange DEF FrontBody
<1>4. PICK w \in Seq(Tokens) : z = w \o One(nl)
  BY <1>1, <1>3, EndOf, Zenon
<1>5. PICK c \in Seq(Tokens) : c = <<f, nl>> /\ Free(c, "frontmatter:start", "frontmatter:end")
                               /\ canonical_managed_body(c) = <<f>>
  BY <1>1, FieldsLined
<1>6. PICK l \in Seq(Tokens) : l = Lined(c, nl)
  BY <1>1, LinedIs, TokensAre
<1>7. PICK u \in Seq(Tokens) : u = Around(a, "frontmatter:start", l, "frontmatter:end", w)
  BY <1>1, AroundIs
<1>8. v = u \o One(nl)
  <2>1. PICK e \in Seq(Tokens) : e = One(nl)
    BY <1>1, OneIs
  <2>2. z = w \o e
    BY <1>4, <2>1
  <2>3. AroundJoin(a, "frontmatter:start", l, "frontmatter:end", z, w, e)
    BY <1>1, <2>2, AroundEnd
  <2>4. v = Around(a, "frontmatter:start", l, "frontmatter:end", z)
    BY <1>5, <1>6 DEF HoldsFields
  <2> QED BY <1>7, <2>1, <2>3, <2>4, Zenon DEF AroundJoin
<1>9. Frontmatter(t) = u
  BY <1>1, <1>2, <1>8, EndIs
<1>10. Free(w, "frontmatter:start", "frontmatter:end") /\ Free(a, "frontmatter:start", "frontmatter:end")
  <2>1. Range(z) = Range(w) \cup Range(One(nl))
    <3>1. One(nl) \in Seq(Tokens)
      BY <1>1, OneIs
    <3> QED BY <1>4, <3>1, Concat
  <2>2. Free(z, "frontmatter:start", "frontmatter:end") /\ Free(a, "frontmatter:start", "frontmatter:end")
    BY DEF HoldsFields
  <2> QED BY <2>1, <2>2 DEF Free
<1>11. extract_single_region(u, "frontmatter:start", "frontmatter:end") = canonical_managed_body(c)
  <2>1. MarkersOf(Tokens, "frontmatter:start", "frontmatter:end")
    BY TokensAre
  <2>2. extract_single_region(Around(a, "frontmatter:start", Lined(c, nl), "frontmatter:end", w),
                              "frontmatter:start", "frontmatter:end") = canonical_managed_body(c)
    <3>1. Free(c, "frontmatter:start", "frontmatter:end")
      BY <1>5
    <3> QED BY <1>1, <1>10, <2>1, <3>1, RegionRead
  <2>3. u = Around(a, "frontmatter:start", Lined(c, nl), "frontmatter:end", w)
    BY <1>5, <1>6, <1>7
  <2> QED BY <2>2, <2>3, Zenon
<1> QED BY <1>5, <1>9, <1>11

\* The frontmatter with its last newline is what is searched for the region.
LEMMA FrontAppend ==
  ASSUME NEW v \in Seq(Tokens), NEW b \in Seq(Tokens), NEW t, NEW nl, FrontBody(t, nl, v, b)
  PROVE  Append(Frontmatter(t), nl) = v
<1>1. nl \in Tokens /\ EndsIn(v, nl)
  BY FrontTokens DEF FrontBody
<1>2. PICK w \in Seq(Tokens) : v = w \o One(nl)
  BY <1>1, EndOf, Zenon
<1>3. Frontmatter(t) = w
  <2>1. Frontmatter(t) = SubSeq(v, 1, Len(v) - 1)
    BY FrontIs, TokensAre
  <2> QED BY <1>1, <1>2, <2>1, EndIs
<1>4. Append(w, nl) = w \o <<nl>>
  BY <1>1, AppendIsConcat, Zenon
<1> QED BY <1>2, <1>3, <1>4, Zenon DEF One

LEMMA FieldsWritten ==
  ASSUME NEW v \in Seq(Tokens), NEW b \in Seq(Tokens), NEW t, NEW nl, FrontBody(t, nl, v, b),
         NEW f, NEW takeover, NEW u, NEW w,
         u = replace_region(v, <<f, nl>>, "frontmatter:start", "frontmatter:end", takeover),
         w = replace_frontmatter_region(t, f, takeover)
  PROVE  /\ u = Conflict => w = Conflict
         /\ u # Conflict /\ u \in Seq(Tokens) /\ Last(u) = nl => w = Fenced(nl, u, b)
<1>1. nl = detect_newline(t) /\ nl \in Tokens /\ "---" \in Tokens
  BY FrontTokens, TokensAre DEF FrontBody
<1>2. HasFrontmatter(t) /\ AfterFrontmatter(t) = b /\ Append(Frontmatter(t), nl) = v
  BY FrontIs, FrontAppend, TokensAre
<1>3. w = IF u = Conflict THEN Conflict
          ELSE <<"---", nl>> \o u \o (IF Last(u) = nl THEN <<>> ELSE <<nl>>) \o <<"---", nl>> \o b
  BY <1>1, <1>2, Zenon DEF replace_frontmatter_region
<1>4. ASSUME u # Conflict, u \in Seq(Tokens), Last(u) = nl
      PROVE  w = Fenced(nl, u, b)
  <2>1. PICK F \in Seq(Tokens) : F = <<"---", nl>> /\ F = Fence(nl)
    BY <1>1, FenceIs, Zenon DEF Fence
  <2>2. w = F \o u \o <<>> \o F \o b
    BY <1>3, <1>4, <2>1, Zenon
  <2>3. PICK x \in Seq(Tokens) : x = F \o u
    BY <1>4, Joined, Zenon
  <2>4. x \o <<>> = x
    OBVIOUS
  <2> QED BY <2>1, <2>2, <2>3, <2>4, Zenon DEF Fenced
<1> QED BY <1>3, <1>4

\* Written again, the fields change nothing.
LEMMA FieldsAgain ==
  ASSUME NEW f \in Fields, NEW nl, NEW a \in Seq(Tokens), NEW z \in Seq(Tokens),
         NEW v \in Seq(Tokens), NEW b \in Seq(Tokens), NEW t, NEW takeover,
         FrontBody(t, nl, v, b), HoldsFields(v, f, nl, a, z)
  PROVE  replace_frontmatter_region(t, f, takeover) = t
<1>1. nl \in Newlines /\ nl \in Tokens /\ detect_newline(v) = nl /\ Last(v) = nl
  BY FrontTokens
<1>2. PICK c \in Seq(Tokens) : c = <<f, nl>>
  BY <1>1, FieldsLined
<1>3. PICK l \in Seq(Tokens) : l = Lined(c, nl) /\ Free(l, "frontmatter:start", "frontmatter:end")
  <2>1. PICK l \in Seq(Tokens) : l = Lined(c, nl) /\ Len(l) = 3 /\ l[1] = nl /\ l[2] = f /\ l[3] = nl
    BY <1>1, <1>2, FieldsLined
  <2>2. \A i \in DOMAIN l : i = 1 \/ i = 2 \/ i = 3
    BY <2>1
  <2>3. Range(l) \subseteq {f, nl}
    BY <2>1, <2>2 DEF Range
  <2>4. f \notin {"frontmatter:start", "frontmatter:end"} /\ nl \notin {"frontmatter:start", "frontmatter:end"}
    BY <1>1, TokensAre DEF Markers, Newlines
  <2> QED BY <2>1, <2>3, <2>4 DEF Free
<1>4. v = Around(a, "frontmatter:start", l, "frontmatter:end", z)
      /\ Free(a, "frontmatter:start", "frontmatter:end") /\ Free(z, "frontmatter:start", "frontmatter:end")
  BY <1>2, <1>3 DEF HoldsFields
<1>5. PICK u : u = replace_region(v, c, "frontmatter:start", "frontmatter:end", takeover)
  OBVIOUS
<1>6. u = v
  <2>1. MarkersOf(Tokens, "frontmatter:start", "frontmatter:end")
    BY TokensAre
  <2>2. replace_region(Around(a, "frontmatter:start", l, "frontmatter:end", z), c,
                       "frontmatter:start", "frontmatter:end", takeover)
          = Around(a, "frontmatter:start",
                   Lined(c, detect_newline(Around(a, "frontmatter:start", l, "frontmatter:end", z))),
                   "frontmatter:end", z)
    BY <1>3, <1>4, <2>1, RegionAgain
  <2> QED BY <1>1, <1>3, <1>4, <1>5, <2>2, Zenon
<1>7. v # Conflict
  BY TokensAre
<1>8. PICK w : w = replace_frontmatter_region(t, f, takeover)
  OBVIOUS
<1>9. w = Fenced(nl, v, b)
  BY <1>1, <1>2, <1>5, <1>6, <1>7, <1>8, FieldsWritten
<1> QED BY <1>8, <1>9, Zenon DEF FrontBody

LEMMA OpenShort ==
  ASSUME NEW T, NEW v \in Seq(T), Len(v) = 0 \/ Len(v) = 1, NEW nl
  PROVE  Open(v, nl)
<1>1. PICK n \in Nat : n = Len(v)
  OBVIOUS
<1>2. n = 0 \/ n = 1
  BY <1>1
<1>3. \A i \in 1 .. n - 2 : FALSE
  BY <1>2
<1> QED BY <1>1, <1>3 DEF Open

LEMMA OneEnds ==
  ASSUME NEW T, NEW nl \in T
  PROVE  Open(One(nl), nl) /\ EndsIn(One(nl), nl)
<1>1. PICK o \in Seq(T) : o = One(nl) /\ Len(o) = 1 /\ o[1] = nl
  BY OneIs
<1>2. Open(o, nl)
  BY <1>1, OpenShort, Zenon
<1>3. EndsIn(o, nl)
  <2>1. ASSUME o = <<>> PROVE FALSE
    <3>1. Len(<<>>) = 0 /\ 0 # 1
      OBVIOUS
    <3> QED BY <1>1, <2>1, <3>1, Zenon
  <2>2. o[Len(o)] = nl
    BY <1>1, Zenon
  <2> QED BY <2>1, <2>2, Zenon DEF EndsIn
<1> QED BY <1>1, <1>2, <1>3, Zenon

\* The frontmatter of a text that had none.
LEMMA FieldsNew ==
  ASSUME NEW f \in Fields, NEW nl \in Newlines
  PROVE  \E v \in Seq(Tokens) :
           /\ HoldsFields(v, f, nl, <<>>, One(nl))
           /\ <<"---", nl, "frontmatter:start", nl, f, nl, "frontmatter:end", nl, "---", nl>>
                = (Fence(nl) \o v) \o Fence(nl)
<1>1. nl \in Tokens /\ f \in Tokens /\ "---" \in Tokens /\ "frontmatter:start" \in Tokens
      /\ "frontmatter:end" \in Tokens
  BY TokensAre DEF MarkersOf
<1>2. PICK l \in Seq(Tokens) : l = Lined(<<f, nl>>, nl) /\ Len(l) = 3 /\ l[1] = nl /\ l[2] = f /\ l[3] = nl
  BY FieldsLined
<1>3. PICK o \in Seq(Tokens) : o = One(nl) /\ Len(o) = 1 /\ o[1] = nl /\ Range(o) = {nl}
  BY <1>1, OneIs
<1>4. PICK n \in Seq(Tokens) : n = <<>> /\ Len(n) = 0 /\ Range(n) = {}
  <2>1. <<>> \in Seq(Tokens) /\ Len(<<>>) = 0
    OBVIOUS
  <2>2. Range(<<>>) = {}
    BY DEF Range
  <2> QED BY <2>1, <2>2, Zenon
<1>5. PICK v \in Seq(Tokens) : /\ v = Around(n, "frontmatter:start", l, "frontmatter:end", o)
                               /\ Laid(v, n, "frontmatter:start", l, "frontmatter:end", o)
  BY <1>1, AroundIs, Zenon
<1>6. /\ Len(v) = 6 /\ v[1] = "frontmatter:start" /\ v[2] = nl /\ v[3] = f /\ v[4] = nl
      /\ v[5] = "frontmatter:end" /\ v[6] = nl
  <2>1. /\ Len(v) = Len(n) + Len(l) + Len(o) + 2
        /\ v[Len(n) + 1] = "frontmatter:start" /\ v[Len(n) + Len(l) + 2] = "frontmatter:end"
        /\ (\A i \in 1 .. Len(l) : v[Len(n) + 1 + i] = l[i])
        /\ (\A i \in 1 .. Len(o) : v[Len(n) + Len(l) + 2 + i] = o[i])
    BY <1>5, Zenon DEF Laid
  <2>2. 1 \in 1 .. Len(l) /\ 2 \in 1 .. Len(l) /\ 3 \in 1 .. Len(l) /\ 1 \in 1 .. Len(o)
    BY <1>2, <1>3
  <2>3. /\ v[Len(n) + 1 + 1] = l[1] /\ v[Len(n) + 1 + 2] = l[2] /\ v[Len(n) + 1 + 3] = l[3]
        /\ v[Len(n) + Len(l) + 2 + 1] = o[1]
    BY <2>1, <2>2, Zenon
  <2>4. /\ Len(n) + Len(l) + Len(o) + 2 = 6 /\ Len(n) + 1 = 1 /\ Len(n) + Len(l) + 2 = 5
        /\ Len(n) + 1 + 1 = 2 /\ Len(n) + 1 + 2 = 3 /\ Len(n) + 1 + 3 = 4
        /\ Len(n) + Len(l) + 2 + 1 = 6
    <3>1. Len(n) = 0 /\ Len(l) = 3 /\ Len(o) = 1
      BY <1>2, <1>3, <1>4, Zenon
    <3>2. \A i, j, k \in Nat : i = 0 /\ j = 3 /\ k = 1 =>
            /\ i + j + k + 2 = 6 /\ i + 1 = 1 /\ i + j + 2 = 5
            /\ i + 1 + 1 = 2 /\ i + 1 + 2 = 3 /\ i + 1 + 3 = 4 /\ i + j + 2 + 1 = 6
      OBVIOUS
    <3>3. Len(n) \in Nat /\ Len(l) \in Nat /\ Len(o) \in Nat
      OBVIOUS
    <3> QED BY <3>1, <3>2, <3>3, Zenon
  <2>5. Len(v) = 6 /\ v[1] = "frontmatter:start" /\ v[5] = "frontmatter:end"
    BY <2>1, <2>4, Zenon
  <2>6. v[2] = l[1] /\ v[3] = l[2] /\ v[4] = l[3] /\ v[6] = o[1]
    BY <2>3, <2>4, Zenon
  <2> QED BY <1>2, <1>3, <2>5, <2>6, Zenon
<1>7. HoldsFields(v, f, nl, n, o)
  <2>1. nl \notin {"frontmatter:start", "frontmatter:end"}
    BY DEF Newlines
  <2> QED BY <1>2, <1>3, <1>4, <1>5, <2>1 DEF HoldsFields, Free
<1>8. PICK t \in Seq(Tokens) :
        t = <<"---", nl, "frontmatter:start", nl, f, nl, "frontmatter:end", nl, "---", nl>>
        /\ Len(t) = 10 /\ t[1] = "---" /\ t[2] = nl /\ t[3] = "frontmatter:start" /\ t[4] = nl
        /\ t[5] = f /\ t[6] = nl /\ t[7] = "frontmatter:end" /\ t[8] = nl /\ t[9] = "---" /\ t[10] = nl
  <2> DEFINE r == <<"---", nl, "frontmatter:start", nl, f, nl, "frontmatter:end", nl, "---", nl>>
  <2>1. r \in Seq(Tokens)
    BY <1>1
  <2>2. Len(r) = 10 /\ r[1] = "---" /\ r[2] = nl /\ r[3] = "frontmatter:start" /\ r[4] = nl
        /\ r[5] = f /\ r[6] = nl /\ r[7] = "frontmatter:end" /\ r[8] = nl /\ r[9] = "---" /\ r[10] = nl
    OBVIOUS
  <2> HIDE DEF r
  <2>3. \E t \in Seq(Tokens) : t = r
        /\ Len(t) = 10 /\ t[1] = "---" /\ t[2] = nl /\ t[3] = "frontmatter:start" /\ t[4] = nl
        /\ t[5] = f /\ t[6] = nl /\ t[7] = "frontmatter:end" /\ t[8] = nl /\ t[9] = "---" /\ t[10] = nl
    BY <2>1, <2>2
  <2> QED BY <2>3, Zenon DEF r
<1>9. FencedLaid(t, nl, v, n)
  <2>1. \A i \in 1 .. Len(v) : i = 1 \/ i = 2 \/ i = 3 \/ i = 4 \/ i = 5 \/ i = 6
    BY <1>6
  <2>2. \A i \in 1 .. Len(v) : t[2 + i] = v[i]
    BY <1>6, <1>8, <2>1
  <2>3. \A i \in 1 .. Len(n) : FALSE
    BY <1>4
  <2> QED BY <1>4, <1>6, <1>8, <2>2, <2>3 DEF FencedLaid
<1>10. t = Fenced(nl, v, n)
  BY <1>1, <1>9, FencedIs
<1>11. t = (Fence(nl) \o v) \o Fence(nl)
  <2>1. PICK F \in Seq(Tokens) : F = Fence(nl)
    BY <1>1, FenceIs
  <2>2. PICK x \in Seq(Tokens) : x = F \o v
    BY Joined, Zenon
  <2>3. PICK y \in Seq(Tokens) : y = x \o F
    BY Joined, Zenon
  <2>4. y \o <<>> = y
    OBVIOUS
  <2> QED BY <1>4, <1>10, <2>1, <2>2, <2>3, <2>4, Zenon DEF Fenced
<1> QED BY <1>3, <1>4, <1>7, <1>8, <1>11, Zenon

\* Whatever the text was, it has the fields afterwards.
LEMMA FieldsReplaced ==
  ASSUME NEW t \in Seq(Tokens), NEW f \in Fields, NEW takeover \in BOOLEAN, NEW g,
         g = replace_frontmatter_region(t, f, takeover), g # Conflict
  PROVE  \E nl \in Newlines, v \in Seq(Tokens), b \in Seq(Tokens), a \in Seq(Tokens), z \in Seq(Tokens) :
           /\ FrontBody(g, nl, v, b) /\ HoldsFields(v, f, nl, a, z)
           /\ "managed:start" \in Range(v) =>
                HasFrontmatter(t) /\ "managed:start" \in Range(Frontmatter(t))
<1>1. PICK nl \in Newlines : nl = detect_newline(t) /\ (nl = "CRLF" <=> "CRLF" \in Range(t))
  BY NewlineIs
<1>2. nl \in Tokens /\ "---" \in Tokens /\ MarkersOf(Tokens, "frontmatter:start", "frontmatter:end")
      /\ f \notin {"managed:start", "CRLF", "frontmatter:start", "frontmatter:end"}
      /\ nl \notin {"managed:start", "frontmatter:start", "frontmatter:end"}
  BY TokensAre DEF Newlines, Markers
<1>3. PICK o \in Seq(Tokens) : o = One(nl) /\ Len(o) = 1 /\ o[1] = nl /\ Range(o) = {nl}
  BY <1>2, OneIs
<1>4. Open(o, nl) /\ EndsIn(o, nl)
  BY <1>2, <1>3, OneEnds, Zenon
<1>5. CASE ~HasFrontmatter(t)
  <2>1. PICK n \in Seq(Tokens) : n = <<>> /\ Len(n) = 0 /\ Range(n) = {}
    <3>1. <<>> \in Seq(Tokens) /\ Len(<<>>) = 0
      OBVIOUS
    <3>2. Range(<<>>) = {}
      BY DEF Range
    <3> QED BY <3>1, <3>2, Zenon
  <2>2. PICK v \in Seq(Tokens) :
          /\ HoldsFields(v, f, nl, n, o)
          /\ <<"---", nl, "frontmatter:start", nl, f, nl, "frontmatter:end", nl, "---", nl>>
               = (Fence(nl) \o v) \o Fence(nl)
    BY <1>3, <2>1, FieldsNew, Zenon
  <2>3. g = <<"---", nl, "frontmatter:start", nl, f, nl, "frontmatter:end", nl, "---", nl>> \o t
    BY <1>1, <1>5, Zenon DEF replace_frontmatter_region
  <2>4. g = Fenced(nl, v, t)
    BY <2>2, <2>3, Zenon DEF Fenced
  <2>5. Open(n, nl)
    <3>1. \A i \in 1 .. Len(n) - 2 : FALSE
      BY <2>1
    <3> QED BY <3>1 DEF Open
  <2>6. nl = "LF" => "CRLF" \notin Range(n) \cup Range(o) \cup Range(t)
    BY <1>1, <1>3, <2>1
  <2>7. FrontBody(g, nl, v, t)
    BY <1>4, <2>2, <2>4, <2>5, <2>6, FrontMade
  <2>8. Range(v) = Range(n) \cup Range(o) \cup {"frontmatter:start", nl, f, "frontmatter:end"}
    BY <2>2, FieldsRange
  <2>9. "managed:start" \notin Range(v)
    BY <1>2, <1>3, <2>1, <2>8
  <2> QED BY <2>2, <2>7, <2>9
<1>6. CASE HasFrontmatter(t)
  <2>1. PICK v \in Seq(Tokens), b \in Seq(Tokens) :
          /\ FrontBody(t, nl, v, b) /\ Range(v) = Range(Frontmatter(t)) \cup {nl}
    BY <1>1, <1>2, <1>6, FrontOf, TokensAre
  <2>2. /\ detect_newline(v) = nl /\ Last(v) = nl /\ v # <<>>
        /\ Range(t) = Range(v) \cup Range(b) \cup {"---", nl}
    BY <2>1, FrontTokens
  <2>3. Open(v, nl) /\ EndsIn(v, nl)
    BY <2>1 DEF FrontBody
  <2>4. PICK c \in Seq(Tokens) : c = <<f, nl>>
    BY FieldsLined
  <2>5. PICK l \in Seq(Tokens) : l = Lined(c, nl)
    BY <2>4, FieldsLined
  <2>6. PICK u : u = replace_region(v, c, "frontmatter:start", "frontmatter:end", takeover)
    OBVIOUS
  <2>7. u # Conflict
    BY <2>1, <2>4, <2>6, FieldsWritten
  <2>8. \E a \in Seq(Tokens), z \in Seq(Tokens) :
          /\ u = Around(a, "frontmatter:start", l, "frontmatter:end", z)
          /\ Free(a, "frontmatter:start", "frontmatter:end") /\ Free(z, "frontmatter:start", "frontmatter:end")
          /\ Open(a, nl) /\ Open(z, nl) /\ EndsIn(z, nl)
          /\ Range(a) \cup Range(z) \subseteq Range(v)
    <3>1. CASE \E a \in Seq(Tokens), old \in Seq(Tokens), z \in Seq(Tokens) :
                 /\ v = Around(a, "frontmatter:start", old, "frontmatter:end", z)
                 /\ Free(a, "frontmatter:start", "frontmatter:end")
                 /\ Free(old, "frontmatter:start", "frontmatter:end")
                 /\ Free(z, "frontmatter:start", "frontmatter:end")
      <4>1. PICK a \in Seq(Tokens), old \in Seq(Tokens), z \in Seq(Tokens) :
                 /\ v = Around(a, "frontmatter:start", old, "frontmatter:end", z)
                 /\ Free(a, "frontmatter:start", "frontmatter:end")
                 /\ Free(old, "frontmatter:start", "frontmatter:end")
                 /\ Free(z, "frontmatter:start", "frontmatter:end")
        BY <3>1
      <4>2. "frontmatter:start" \in Tokens /\ "frontmatter:end" \in Tokens
            /\ {"frontmatter:start", "frontmatter:end"} \cap {nl, "---"} = {}
        BY <1>2 DEF MarkersOf
      <4>3. replace_region(Around(a, "frontmatter:start", old, "frontmatter:end", z), c,
                           "frontmatter:start", "frontmatter:end", takeover)
              = Around(a, "frontmatter:start",
                       Lined(c, detect_newline(Around(a, "frontmatter:start", old, "frontmatter:end", z))),
                       "frontmatter:end", z)
        BY <1>2, <4>1, RegionAgain
      <4>4. u = Around(a, "frontmatter:start", l, "frontmatter:end", z)
        BY <2>2, <2>5, <2>6, <4>1, <4>3, Zenon
      <4>5. Open(a, nl) /\ Open(z, nl) /\ EndsIn(z, nl)
        BY <2>3, <4>1, <4>2, OpenAround
      <4>6. Range(a) \cup Range(z) \subseteq Range(v)
        <5>1. Range(Around(a, "frontmatter:start", old, "frontmatter:end", z))
                = Range(a) \cup Range(old) \cup Range(z) \cup {"frontmatter:start", "frontmatter:end"}
          BY <4>2, RangeAround
        <5>2. Range(v) = Range(a) \cup Range(old) \cup Range(z) \cup {"frontmatter:start", "frontmatter:end"}
          BY <4>1, <5>1, Zenon
        <5> QED BY <5>2
      <4> QED BY <4>1, <4>4, <4>5, <4>6
    <3>2. CASE /\ Free(v, "frontmatter:start", "frontmatter:end")
               /\ u = Around(v \o Separator(v), "frontmatter:start", Lined(c, detect_newline(v)),
                             "frontmatter:end", One(detect_newline(v)))
      <4>1. v \o Separator(v) = v
        <5>1. Separator(v) = <<>>
          BY <2>2 DEF Separator
        <5>2. v \o <<>> = v
          OBVIOUS
        <5> QED BY <5>1, <5>2
      <4>2. u = Around(v, "frontmatter:start", l, "frontmatter:end", o)
        BY <1>3, <2>2, <2>5, <3>2, <4>1, Zenon
      <4>3. Free(o, "frontmatter:start", "frontmatter:end")
        BY <1>2, <1>3 DEF Free
      <4>4. Range(v) \cup Range(o) \subseteq Range(v)
        BY <1>3, <2>1
      <4> QED BY <1>4, <2>3, <3>2, <4>2, <4>3, <4>4
    <3> QED BY <1>2, <2>6, <2>7, <3>1, <3>2, ReplacedIs
  <2>9. PICK a \in Seq(Tokens), z \in Seq(Tokens) :
          /\ u = Around(a, "frontmatter:start", l, "frontmatter:end", z)
          /\ Free(a, "frontmatter:start", "frontmatter:end") /\ Free(z, "frontmatter:start", "frontmatter:end")
          /\ Open(a, nl) /\ Open(z, nl) /\ EndsIn(z, nl)
          /\ Range(a) \cup Range(z) \subseteq Range(v)
    BY <2>8
  <2>10. HoldsFields(u, f, nl, a, z)
    BY <2>4, <2>5, <2>9 DEF HoldsFields
  <2>11. /\ u \in Seq(Tokens) /\ EndsIn(u, nl)
         /\ Range(u) = Range(a) \cup Range(z) \cup {"frontmatter:start", nl, f, "frontmatter:end"}
    BY <2>9, <2>10, FieldsRange
  <2>12. g = Fenced(nl, u, b)
    <3>1. Last(u) = nl
      BY <2>11 DEF EndsIn, Last
    <3> QED BY <2>1, <2>4, <2>6, <2>7, <2>11, <3>1, FieldsWritten
  <2>13. nl = "LF" => "CRLF" \notin Range(a) \cup Range(z) \cup Range(b)
    BY <1>1, <2>2, <2>9
  <2>14. FrontBody(g, nl, u, b)
    BY <2>9, <2>10, <2>12, <2>13, FrontMade
  <2>15. "managed:start" \in Range(u) => "managed:start" \in Range(Frontmatter(t))
    BY <1>2, <2>1, <2>9, <2>11
  <2> QED BY <1>6, <2>10, <2>11, <2>14, <2>15
<1> QED BY <1>5, <1>6

-----------------------------------------------------------------------------
(* The region of the body, below the frontmatter *)

LEMMA Cancel ==
  ASSUME NEW T, NEW p \in Seq(T), NEW x \in Seq(T), NEW y \in Seq(T), p \o x = p \o y
  PROVE  x = y
<1>1. PICK u \in Seq(T) : u = p \o x
  BY Joined, Zenon
<1>2. /\ Len(u) = Len(p) + Len(x)
      /\ (\A i \in 1 .. Len(x) : u[Len(p) + i] = x[i])
  BY <1>1, ConcatAt
<1>3. u = p \o y
  BY <1>1
<1>4. /\ Len(u) = Len(p) + Len(y)
      /\ (\A i \in 1 .. Len(y) : u[Len(p) + i] = y[i])
  BY <1>3, ConcatAt
<1>5. Len(x) = Len(y)
  <2>1. Len(p) \in Nat /\ Len(x) \in Nat /\ Len(y) \in Nat
    OBVIOUS
  <2> QED BY <1>2, <1>4, <2>1
<1>6. \A i \in 1 .. Len(x) : x[i] = y[i]
  BY <1>2, <1>4, <1>5
<1> QED BY <1>5, <1>6, SeqEqual

\* A region behind a text p.
AroundBehind(p, a, start, c, end, z) ==
  Around(p \o a, start, c, end, z) = p \o Around(a, start, c, end, z)

LEMMA AroundAfter ==
  ASSUME NEW T, NEW p \in Seq(T), NEW a \in Seq(T), NEW c \in Seq(T), NEW z \in Seq(T),
         NEW start \in T, NEW end \in T
  PROVE  AroundBehind(p, a, start, c, end, z)
<1>1. PICK s \in Seq(T) : s = One(start)
  BY OneIs
<1>2. PICK n \in Seq(T) : n = One(end)
  BY OneIs
<1>3. PICK e \in Seq(T) : e = n \o z
  BY Joined, Zenon
<1>4. PICK x \in Seq(T) : x = a \o s
  BY Joined, Zenon
<1>5. PICK y \in Seq(T) : y = x \o c
  BY Joined, Zenon
<1>6. Joins(p, a, s) /\ Joins(p, x, c) /\ Joins(p, y, e)
  BY Associative, Zenon
<1>7. (p \o a) \o s = p \o x /\ (p \o x) \o c = p \o y /\ (p \o y) \o e = p \o (y \o e)
  BY <1>4, <1>5, <1>6, Zenon DEF Joins
<1>8. Around(p \o a, start, c, end, z) = (((p \o a) \o s) \o c) \o e
  BY <1>1, <1>2, <1>3, Zenon DEF Around
<1>9. Around(a, start, c, end, z) = y \o e
  BY <1>1, <1>2, <1>3, <1>4, <1>5, Zenon DEF Around
<1> QED BY <1>7, <1>8, <1>9, Zenon DEF AroundBehind

\* The region is behind p if its start marker is not in p.
Behind(a, p, r, b, start, c, end, z) == r = p \o a /\ b = Around(a, start, c, end, z)

LEMMA AroundPrefix ==
  ASSUME NEW T, NEW p \in Seq(T), NEW b \in Seq(T), NEW r \in Seq(T), NEW c \in Seq(T), NEW z \in Seq(T),
         NEW start \in T, NEW end \in T, start \notin Range(p),
         NEW t, t = p \o b, t = Around(r, start, c, end, z)
  PROVE  \E a \in Seq(T) : Behind(a, p, r, b, start, c, end, z)
<1>1. t \in Seq(T) /\ t = p \o b
  BY Joined, Zenon
<1>2. /\ Len(t) = Len(p) + Len(b) /\ (\A i \in 1 .. Len(p) : t[i] = p[i])
      /\ (\A i \in 1 .. Len(b) : t[Len(p) + i] = b[i])
  BY <1>1, ConcatAt
<1>3. Laid(t, r, start, c, end, z)
  <2>1. Laid(Around(r, start, c, end, z), r, start, c, end, z)
    BY AroundIs
  <2> QED BY <2>1, Zenon
<1>4. PICK m \in Nat, n \in Nat : m = Len(p) /\ n = Len(r)
  OBVIOUS
<1>5. t[n + 1] = start /\ \A i \in 1 .. n : t[i] = r[i]
  BY <1>3, <1>4 DEF Laid
<1>6. m <= n
  <2>1. SUFFICES ASSUME n < m PROVE FALSE
    BY <1>4
  <2>2. n + 1 \in 1 .. m
    BY <1>4, <2>1
  <2>3. p[n + 1] = start
    BY <1>2, <1>4, <1>5, <2>2
  <2>4. n + 1 \in DOMAIN p
    BY <1>4, <2>2
  <2> QED BY <2>3, <2>4 DEF Range
<1>7. PICK k \in Nat : n = m + k
  <2>1. n - m \in Nat /\ n = m + (n - m)
    BY <1>6
  <2> QED BY <2>1
<1>8. PICK a \in Seq(T) : Part(a, r, m, k)
  <2>1. m + k <= Len(r)
    BY <1>4, <1>7
  <2> QED BY <2>1, PartIs, Zenon
<1>9. Len(a) = k /\ \A i \in 1 .. k : a[i] = r[m + i]
  BY <1>8 DEF Part
<1>10. r = p \o a
  <2>1. PICK x \in Seq(T) : x = p \o a
    BY Joined, Zenon
  <2>2. /\ Len(x) = Len(p) + Len(a) /\ (\A i \in 1 .. Len(p) : x[i] = p[i])
        /\ (\A i \in 1 .. Len(a) : x[Len(p) + i] = a[i])
    BY <2>1, ConcatAt
  <2>3. Len(x) = n
    BY <1>4, <1>7, <1>9, <2>2
  <2>4. ASSUME NEW i \in 1 .. n PROVE x[i] = r[i]
    <3>1. CASE i <= m
      <4>1. i \in 1 .. m
        BY <3>1
      <4> QED BY <1>2, <1>4, <1>5, <2>2, <4>1
    <3>2. CASE m < i
      <4>1. PICK j \in 1 .. k : i = m + j
        <5>1. i - m \in 1 .. k /\ i = m + (i - m)
          BY <1>7, <3>2
        <5> QED BY <5>1
      <4> QED BY <1>4, <1>9, <2>2, <4>1
    <3> QED BY <3>1, <3>2
  <2>5. x = r
    BY <1>4, <2>3, <2>4, SeqEqual
  <2> QED BY <2>1, <2>5
<1>11. PICK w \in Seq(T) : w = Around(a, start, c, end, z)
  BY AroundIs
<1>12. p \o b = p \o w
  <2>1. AroundBehind(p, a, start, c, end, z)
    BY AroundAfter
  <2> QED BY <1>10, <1>11, <2>1, Zenon DEF AroundBehind
<1>13. b = w
  BY <1>12, Cancel
<1> QED BY <1>10, <1>11, <1>13 DEF Behind

\* The text above b.
Above(nl, v) == (Fence(nl) \o v) \o Fence(nl)

LEMMA HeadIs ==
  ASSUME NEW v \in Seq(Tokens), NEW nl \in Newlines
  PROVE  /\ Above(nl, v) \in Seq(Tokens)
         /\ Range(Above(nl, v)) = Range(v) \cup {"---", nl}
<1>1. PICK f \in Seq(Tokens) : f = Fence(nl) /\ Range(f) = {"---", nl}
  BY FenceIs, TokensAre
<1>2. PICK x \in Seq(Tokens) : x = f \o v
  BY Joined, Zenon
<1>3. PICK y \in Seq(Tokens) : y = x \o f
  BY Joined, Zenon
<1>4. Range(x) = Range(f) \cup Range(v)
  BY <1>2, Concat
<1>5. Range(y) = Range(x) \cup Range(f)
  BY <1>3, Concat
<1>6. y = Above(nl, v)
  BY <1>1, <1>2, <1>3, Zenon DEF Above
<1> QED BY <1>1, <1>4, <1>5, <1>6

\* The text b below the frontmatter holds the body c, in a region between a and z.
HoldsBody(b, c, nl, a, z) ==
  /\ b = Around(a, "managed:start", Lined(c, nl), "managed:end", z)
  /\ Free(a, "managed:start", "managed:end") /\ Free(z, "managed:start", "managed:end")

LEMMA BodyRange ==
  ASSUME NEW c \in Seq(Tokens), NEW nl \in Newlines, NEW a \in Seq(Tokens), NEW z \in Seq(Tokens),
         NEW b, HoldsBody(b, c, nl, a, z)
  PROVE  /\ b \in Seq(Tokens)
         /\ Lined(c, nl) \in Seq(Tokens)
         /\ Range(b) \subseteq Range(a) \cup Range(z) \cup (Range(c) \ Newlines)
                                 \cup {"managed:start", "managed:end", nl}
         /\ Free(c, "managed:start", "managed:end") => Free(Lined(c, nl), "managed:start", "managed:end")
<1>1. "managed:start" \in Tokens /\ "managed:end" \in Tokens /\ Newlines \subseteq Tokens
      /\ {"managed:start", "managed:end"} \cap Newlines = {}
  BY TokensAre DEF MarkersOf
<1>2. PICK n \in Seq(Tokens) : n = NewContent(c, nl) /\ Range(n) \subseteq (Range(c) \ Newlines) \cup {nl}
  BY <1>1, NewContentIs
<1>3. PICK l \in Seq(Tokens) : l = Lined(c, nl) /\ Range(l) = Range(n) \cup {nl}
  BY <1>1, <1>2, LinedIs, SMTT(40)
<1>4. b = Around(a, "managed:start", l, "managed:end", z)
  BY <1>3 DEF HoldsBody
<1>5. b \in Seq(Tokens)
  BY <1>1, <1>4, AroundIs
<1>6. Range(b) = Range(a) \cup Range(l) \cup Range(z) \cup {"managed:start", "managed:end"}
  BY <1>1, <1>4, RangeAround
<1>7. Free(c, "managed:start", "managed:end") => Free(l, "managed:start", "managed:end")
  BY <1>1, <1>2, <1>3 DEF Free
<1> QED BY <1>2, <1>3, <1>5, <1>6, <1>7

\* Written again, a body without markers changes nothing.
LEMMA BodyAgain ==
  ASSUME NEW v \in Seq(Tokens), NEW b \in Seq(Tokens), NEW t, NEW nl, FrontBody(t, nl, v, b),
         NEW c \in Seq(Tokens), NEW a \in Seq(Tokens), NEW z \in Seq(Tokens), HoldsBody(b, c, nl, a, z),
         Free(v, "managed:start", "managed:end"), Free(c, "managed:start", "managed:end"), NEW takeover
  PROVE  replace_managed_body(t, c, takeover) = t
<1>1. nl \in Newlines /\ nl \in Tokens /\ nl = detect_newline(t)
  BY FrontTokens DEF FrontBody
<1>2. PICK p \in Seq(Tokens) : p = Above(nl, v) /\ Free(p, "managed:start", "managed:end")
  <2>1. PICK p \in Seq(Tokens) : p = Above(nl, v) /\ Range(p) = Range(v) \cup {"---", nl}
    BY <1>1, HeadIs
  <2>2. nl \notin {"managed:start", "managed:end"}
    BY <1>1 DEF Newlines
  <2>3. Free(p, "managed:start", "managed:end")
    BY <2>1, <2>2 DEF Free
  <2> QED BY <2>1, <2>3
<1>3. PICK l \in Seq(Tokens) : l = Lined(c, nl) /\ Free(l, "managed:start", "managed:end")
  BY <1>1, BodyRange
<1>4. b = Around(a, "managed:start", l, "managed:end", z)
      /\ Free(a, "managed:start", "managed:end") /\ Free(z, "managed:start", "managed:end")
  BY <1>3 DEF HoldsBody
<1>5. PICK r \in Seq(Tokens) : r = p \o a
  BY Joined, Zenon
<1>6. Free(r, "managed:start", "managed:end")
  <2>1. Range(r) = Range(p) \cup Range(a)
    BY <1>5, Concat
  <2> QED BY <1>2, <1>4, <2>1 DEF Free
<1>7. t = Around(r, "managed:start", l, "managed:end", z)
  <2>1. t = p \o b
    BY <1>2, Zenon DEF FrontBody, Fenced, Above
  <2>2. AroundBehind(p, a, "managed:start", l, "managed:end", z)
    BY AroundAfter, TokensAre DEF MarkersOf
  <2> QED BY <1>4, <1>5, <2>1, <2>2, Zenon DEF AroundBehind
<1>8. MarkersOf(Tokens, "managed:start", "managed:end")
  BY TokensAre
<1>9. replace_region(Around(r, "managed:start", l, "managed:end", z), c, "managed:start", "managed:end", takeover)
        = Around(r, "managed:start", Lined(c, detect_newline(Around(r, "managed:start", l, "managed:end", z))),
                 "managed:end", z)
  BY <1>3, <1>4, <1>6, <1>8, RegionAgain
<1> QED BY <1>1, <1>3, <1>7, <1>9, Zenon DEF replace_managed_body

\* Whatever the text was, it has the body afterwards, below its frontmatter.
LEMMA BodyReplaced ==
  ASSUME NEW v \in Seq(Tokens), NEW b \in Seq(Tokens), NEW t, NEW nl, FrontBody(t, nl, v, b),
         "managed:start" \notin Range(v),
         NEW c \in Seq(Tokens), NEW takeover \in BOOLEAN, NEW g,
         g = replace_managed_body(t, c, takeover), g # Conflict
  PROVE  /\ Free(v, "managed:start", "managed:end")
         /\ \E y \in Seq(Tokens), a \in Seq(Tokens), z \in Seq(Tokens) :
              FrontBody(g, nl, v, y) /\ HoldsBody(y, c, nl, a, z)
<1>1. /\ nl \in Newlines /\ nl \in Tokens /\ nl = detect_newline(t) /\ t \in Seq(Tokens)
      /\ Range(t) = Range(v) \cup Range(b) \cup {"---", nl} /\ "---" \in Tokens
      /\ EndsIn(v, nl) /\ Open(v, nl)
  BY FrontTokens, TokensAre DEF FrontBody
<1>2. MarkersOf(Tokens, "managed:start", "managed:end")
      /\ "managed:start" \in Tokens /\ "managed:end" \in Tokens
      /\ nl \notin {"managed:start", "managed:end"}
  BY <1>1, TokensAre DEF MarkersOf
<1>3. PICK p \in Seq(Tokens) : p = Above(nl, v) /\ Range(p) = Range(v) \cup {"---", nl}
  BY <1>1, HeadIs
<1>4. t = p \o b /\ "managed:start" \notin Range(p)
  <2>1. t = p \o b
    BY <1>3, Zenon DEF FrontBody, Fenced, Above
  <2>2. "managed:start" \notin Range(p)
    BY <1>2, <1>3
  <2> QED BY <2>1, <2>2
<1>5. PICK l \in Seq(Tokens) : l = Lined(c, nl)
  BY <1>1, LinedIs, TokensAre
<1>6. g = replace_region(t, c, "managed:start", "managed:end", takeover)
  BY DEF replace_managed_body
<1> DEFINE Below(a, z) ==
             /\ g = p \o Around(a, "managed:start", l, "managed:end", z)
             /\ Free(a, "managed:start", "managed:end") /\ Free(z, "managed:start", "managed:end")
             /\ Range(a) \cup Range(z) \subseteq Range(b) \cup {nl}
<1>7. Free(v, "managed:start", "managed:end") /\ \E a \in Seq(Tokens), z \in Seq(Tokens) : Below(a, z)
  <2>1. ASSUME NEW r \in Seq(Tokens), NEW old \in Seq(Tokens), NEW z \in Seq(Tokens),
               t = Around(r, "managed:start", old, "managed:end", z),
               Free(r, "managed:start", "managed:end"), Free(old, "managed:start", "managed:end"),
               Free(z, "managed:start", "managed:end")
        PROVE  Free(v, "managed:start", "managed:end")
               /\ \E x \in Seq(Tokens), y \in Seq(Tokens) : Below(x, y)
    <3>1. replace_region(Around(r, "managed:start", old, "managed:end", z), c,
                         "managed:start", "managed:end", takeover)
            = Around(r, "managed:start",
                     Lined(c, detect_newline(Around(r, "managed:start", old, "managed:end", z))),
                     "managed:end", z)
      BY <1>2, <2>1, RegionAgain
    <3>2. g = Around(r, "managed:start", l, "managed:end", z)
      BY <1>1, <1>5, <1>6, <2>1, <3>1, Zenon
    <3>3. PICK a \in Seq(Tokens) : Behind(a, p, r, b, "managed:start", old, "managed:end", z)
      BY <1>2, <1>4, <2>1, AroundPrefix
    <3>4. r = p \o a /\ b = Around(a, "managed:start", old, "managed:end", z)
      BY <3>3, Zenon DEF Behind
    <3>5. g = p \o Around(a, "managed:start", l, "managed:end", z)
      <4>1. AroundBehind(p, a, "managed:start", l, "managed:end", z)
        BY <1>2, AroundAfter
      <4> QED BY <3>2, <3>4, <4>1, Zenon DEF AroundBehind
    <3>6. Range(r) = Range(p) \cup Range(a)
      BY <3>4, Concat
    <3>7. Range(b) = Range(a) \cup Range(old) \cup Range(z) \cup {"managed:start", "managed:end"}
      <4>1. Range(Around(a, "managed:start", old, "managed:end", z))
              = Range(a) \cup Range(old) \cup Range(z) \cup {"managed:start", "managed:end"}
        BY <1>2, RangeAround
      <4> QED BY <3>4, <4>1, Zenon
    <3>8. Free(a, "managed:start", "managed:end") /\ Free(v, "managed:start", "managed:end")
      BY <1>3, <2>1, <3>6 DEF Free
    <3>9. Range(a) \cup Range(z) \subseteq Range(b) \cup {nl}
      BY <3>7
    <3> QED BY <2>1, <3>5, <3>8, <3>9
  <2>2. CASE /\ Free(t, "managed:start", "managed:end")
             /\ g = Around(t \o Separator(t), "managed:start", Lined(c, detect_newline(t)),
                           "managed:end", One(detect_newline(t)))
    <3>1. PICK o \in Seq(Tokens) : o = One(nl) /\ Range(o) = {nl}
      BY <1>1, OneIs
    <3>2. PICK s \in Seq(Tokens) : s = Separator(t) /\ Range(s) \subseteq {nl}
      <4>1. <<>> \in Seq(Tokens) /\ Range(<<>>) = {}
        BY DEF Range
      <4>2. Separator(t) = <<>> \/ Separator(t) = o
        BY <1>1, <3>1, Zenon DEF Separator
      <4> QED BY <3>1, <4>1, <4>2
    <3>3. PICK a \in Seq(Tokens) : a = b \o s
      BY Joined, Zenon
    <3>4. t \o s = p \o a
      <4>1. Joins(p, b, s)
        BY Associative, Zenon
      <4> QED BY <1>4, <3>3, <4>1, Zenon DEF Joins
    <3>5. g = Around(p \o a, "managed:start", l, "managed:end", o)
      BY <1>1, <1>5, <2>2, <3>1, <3>2, <3>4, Zenon
    <3>6. g = p \o Around(a, "managed:start", l, "managed:end", o)
      <4>1. AroundBehind(p, a, "managed:start", l, "managed:end", o)
        BY <1>2, AroundAfter
      <4> QED BY <3>5, <4>1, Zenon DEF AroundBehind
    <3>7. Range(a) = Range(b) \cup Range(s)
      BY <3>3, Concat
    <3>8. Free(a, "managed:start", "managed:end") /\ Free(v, "managed:start", "managed:end")
          /\ Free(o, "managed:start", "managed:end")
      BY <1>1, <1>2, <2>2, <3>1, <3>2, <3>7 DEF Free
    <3>9. Range(a) \cup Range(o) \subseteq Range(b) \cup {nl}
      BY <3>1, <3>2, <3>7
    <3> QED BY <3>6, <3>8, <3>9
  <2>3. \/ \E r \in Seq(Tokens), old \in Seq(Tokens), z \in Seq(Tokens) :
             /\ t = Around(r, "managed:start", old, "managed:end", z)
             /\ Free(r, "managed:start", "managed:end") /\ Free(old, "managed:start", "managed:end")
             /\ Free(z, "managed:start", "managed:end")
        \/ /\ Free(t, "managed:start", "managed:end")
           /\ g = Around(t \o Separator(t), "managed:start", Lined(c, detect_newline(t)),
                         "managed:end", One(detect_newline(t)))
    BY <1>1, <1>2, <1>6, ReplacedIs
  <2> QED BY <2>1, <2>2, <2>3
<1>8. PICK a \in Seq(Tokens), z \in Seq(Tokens) : Below(a, z)
  BY <1>7
<1>9. PICK y \in Seq(Tokens) : y = Around(a, "managed:start", l, "managed:end", z)
  BY <1>2, AroundIs
<1>10. HoldsBody(y, c, nl, a, z)
  BY <1>5, <1>8, <1>9 DEF HoldsBody
<1>11. Range(y) \subseteq Range(a) \cup Range(z) \cup (Range(c) \ Newlines)
                              \cup {"managed:start", "managed:end", nl}
  BY <1>1, <1>10, BodyRange
<1>12. g = Fenced(nl, v, y)
  BY <1>3, <1>8, <1>9, Zenon DEF Fenced, Above
<1>13. detect_newline(g) = nl
  <2>1. Range(Fenced(nl, v, y)) = Range(v) \cup Range(y) \cup {"---", nl}
    BY <1>1, FencedAt
  <2>2. Range(g) = Range(v) \cup Range(y) \cup {"---", nl}
    BY <1>12, <2>1, Zenon
  <2>3. nl = "CRLF" <=> "CRLF" \in Range(t)
    BY <1>1, NewlineIs
  <2>4. nl = "CRLF" <=> "CRLF" \in Range(g)
    BY <1>1, <1>8, <1>11, <2>2, <2>3 DEF Newlines
  <2> QED BY <1>1, <2>4, NewlineIs DEF Newlines
<1>14. FrontBody(g, nl, v, y)
  BY <1>1, <1>12, <1>13 DEF FrontBody
<1> QED BY <1>7, <1>10, <1>14

-----------------------------------------------------------------------------
(* The page that a mutation writes *)

\* h holds the fields f and the body c, each in its region.
PageIs(h, f, c) ==
  \E nl \in Newlines, v \in Seq(Tokens), b \in Seq(Tokens), a \in Seq(Tokens), z \in Seq(Tokens),
     r \in Seq(Tokens), w \in Seq(Tokens) :
    /\ FrontBody(h, nl, v, b) /\ Free(v, "managed:start", "managed:end")
    /\ HoldsFields(v, f, nl, a, z) /\ HoldsBody(b, c, nl, r, w)

LEMMA MutationIs ==
  ASSUME NEW m \in Mutation
  PROVE  /\ m.fields \in Fields /\ m.body \in Seq(Tokens) /\ m.takeover \in BOOLEAN
         /\ BodyOf(m) \in Seq(Tokens) /\ canonical_managed_body(BodyOf(m)) = BodyOf(m)
         /\ HasMarker(m.body) <=> ~Free(BodyOf(m), "managed:start", "managed:end")
<1>1. m.fields \in Fields /\ m.body \in Bodies /\ m.takeover \in BOOLEAN
  BY DEF Mutation
<1>2. m.body \in Seq(Tokens)
  <2>1. m.body \in Seq(Range(m.body))
    BY <1>1, TokensAssumption
  <2>2. Range(m.body) \subseteq Tokens
    BY <1>1 DEF Tokens
  <2> QED BY <2>1, <2>2
<1>3. PICK c \in Seq(Tokens) : c = m.body
  BY <1>2
<1>4. Newlines \subseteq Tokens /\ "LF" \in Newlines
  BY TokensAre DEF Newlines
<1>5. BodyOf(m) \in Seq(Tokens) /\ canonical_managed_body(BodyOf(m)) = BodyOf(m)
  <2>1. canonical_managed_body(c) \in Seq(Tokens)
        /\ canonical_managed_body(canonical_managed_body(c)) = canonical_managed_body(c)
    BY <1>4, CanonicalTwice
  <2> QED BY <1>3, <2>1, Zenon DEF BodyOf
<1>6. HasMarker(m.body) <=> ~Free(BodyOf(m), "managed:start", "managed:end")
  <2>1. PICK n : n = NewContent(c, "LF") /\ Range(n) \subseteq (Range(c) \ Newlines) \cup {"LF"}
                 /\ Range(c) \ Newlines \subseteq Range(n)
    BY <1>4, NewContentIs
  <2>2. BodyOf(m) = n
    BY <1>3, <2>1, Zenon DEF BodyOf, canonical_managed_body, NewContent
  <2>3. HasMarker(c) <=> {"managed:start", "managed:end"} \cap Range(c) # {}
    BY DEF HasMarker, Range
  <2>4. {"managed:start", "managed:end"} \cap Newlines = {} /\ "LF" \notin {"managed:start", "managed:end"}
    BY DEF Newlines
  <2>5. {"managed:start", "managed:end"} \cap Range(c) # {}
          <=> {"managed:start", "managed:end"} \cap Range(n) # {}
    BY <2>1, <2>4
  <2> QED BY <1>3, <2>2, <2>3, <2>5 DEF Free
<1> QED BY <1>1, <1>2, <1>5, <1>6

\* What is read of it: nothing, if the body has a marker.
LEMMA PageRead ==
  ASSUME NEW f \in Fields, NEW c \in Seq(Tokens), canonical_managed_body(c) = c,
         NEW h, PageIs(h, f, c)
  PROVE  /\ h \in Seq(Tokens)
         /\ Free(c, "managed:start", "managed:end") => inspect_managed_page(h) = [fields |-> {f}, body |-> c]
         /\ ~Free(c, "managed:start", "managed:end") => inspect_managed_page(h) = Unreadable
<1>1. PICK nl \in Newlines, v \in Seq(Tokens), b \in Seq(Tokens), a \in Seq(Tokens), z \in Seq(Tokens),
           r \in Seq(Tokens), w \in Seq(Tokens) :
        /\ FrontBody(h, nl, v, b) /\ Free(v, "managed:start", "managed:end")
        /\ HoldsFields(v, f, nl, a, z) /\ HoldsBody(b, c, nl, r, w)
  BY Zenon DEF PageIs
<1>2. h \in Seq(Tokens)
  BY <1>1, FrontTokens
<1>3. HasFrontmatter(h) /\ AfterFrontmatter(h) = b
  BY <1>1, FrontIs, TokensAre
<1>4. PICK region : region = extract_single_region(Frontmatter(h), "frontmatter:start", "frontmatter:end")
                    /\ region = <<f>>
  BY <1>1, FieldsRead
<1>5. PICK body : body = extract_single_region(b, "managed:start", "managed:end")
  OBVIOUS
<1>6. MarkersOf(Tokens, "managed:start", "managed:end")
  BY TokensAre
<1>7. b = Around(r, "managed:start", Lined(c, nl), "managed:end", w)
      /\ Free(r, "managed:start", "managed:end") /\ Free(w, "managed:start", "managed:end")
  BY <1>1 DEF HoldsBody
<1>8. ASSUME ~Free(c, "managed:start", "managed:end")
      PROVE  inspect_managed_page(h) = Unreadable
  <2>1. extract_single_region(Around(r, "managed:start", Lined(c, nl), "managed:end", w),
                              "managed:start", "managed:end") = Conflict
    BY <1>6, <1>8, RegionUnread
  <2>2. body = Conflict
    BY <1>5, <1>7, <2>1, Zenon
  <2> QED BY <1>3, <1>4, <1>5, <2>2 DEF inspect_managed_page
<1>9. ASSUME Free(c, "managed:start", "managed:end")
      PROVE  inspect_managed_page(h) = [fields |-> {f}, body |-> c]
  <2>1. extract_single_region(Around(r, "managed:start", Lined(c, nl), "managed:end", w),
                              "managed:start", "managed:end") = canonical_managed_body(c)
    BY <1>6, <1>7, <1>9, RegionRead
  <2>2. body = c /\ body # Conflict
    <3>1. body = c
      BY <1>5, <1>7, <2>1, Zenon
    <3> QED BY <3>1, TokensAre
  <2>3. f \in Tokens /\ f \notin Newlines /\ f # "conflict"
    BY TokensAre
  <2>4. region \in Seq(Tokens) /\ Len(region) = 1 /\ region[1] = f
    <3>1. One(f) \in Seq(Tokens) /\ Len(One(f)) = 1 /\ One(f)[1] = f
      BY <2>3, OneIs
    <3>2. region = One(f)
      BY <1>4, Zenon DEF One
    <3> QED BY <3>1, <3>2, Zenon
  <2>5. region # Conflict
    BY <2>4, TokensAre
  <2>6. {i \in DOMAIN region : region[i] \notin Newlines} = {1}
    <3>1. DOMAIN region = {1}
      BY <2>4
    <3> QED BY <2>3, <2>4, <3>1
  <2>7. {region[i] : i \in {1}} = {f}
    BY <2>4
  <2>8. ~(Cardinality({1}) > 1)
    <3>1. Cardinality({1}) = 1
      BY FS_Singleton, Zenon
    <3> QED BY <3>1
  <2>9. inspect_managed_page(h)
          = IF Conflict \in {region, body} \/ ~({f} \subseteq Fields) \/ Cardinality({1}) > 1
            THEN Unreadable ELSE [fields |-> {f}, body |-> body]
    <3>1. PICK lines : lines = {i \in DOMAIN region : region[i] \notin Newlines}
      OBVIOUS
    <3>2. inspect_managed_page(h)
            = IF Conflict \in {region, body} \/ ~({region[i] : i \in lines} \subseteq Fields)
                 \/ Cardinality(lines) > 1
              THEN Unreadable ELSE [fields |-> {region[i] : i \in lines}, body |-> body]
      BY <1>3, <1>4, <1>5, <3>1 DEF inspect_managed_page
    <3>3. lines = {1}
      BY <2>6, <3>1, Zenon
    <3>4. {region[i] : i \in lines} = {f}
      BY <2>7, <3>3, Zenon
    <3> QED BY <3>2, <3>3, <3>4, Zenon
  <2> QED BY <2>2, <2>5, <2>8, <2>9
<1> QED BY <1>2, <1>8, <1>9

\* A mutation that is no conflict makes one of any text, unless the region of the
\* body starts in the frontmatter.
LEMMA RewrittenIs ==
  ASSUME NEW t \in Seq(Tokens), NEW m \in Mutation, NEW takeover \in BOOLEAN,
         ~(HasFrontmatter(t) /\ "managed:start" \in Range(Frontmatter(t))),
         NEW g, g = Rewritten(t, m, takeover), g # Conflict
  PROVE  PageIs(g, m.fields, BodyOf(m))
<1>1. PICK f \in Fields, c \in Seq(Tokens) : f = m.fields /\ c = BodyOf(m)
  BY MutationIs
<1>2. PICK front : front = replace_frontmatter_region(t, f, takeover)
  OBVIOUS
<1>3. front # Conflict /\ g = replace_managed_body(front, c, takeover)
  BY <1>1, <1>2 DEF Rewritten
<1>4. PICK nl \in Newlines, v \in Seq(Tokens), b \in Seq(Tokens), a \in Seq(Tokens), z \in Seq(Tokens) :
        /\ FrontBody(front, nl, v, b) /\ HoldsFields(v, f, nl, a, z)
        /\ "managed:start" \in Range(v) =>
             HasFrontmatter(t) /\ "managed:start" \in Range(Frontmatter(t))
  BY <1>2, <1>3, FieldsReplaced
<1>5. "managed:start" \notin Range(v)
  BY <1>4
<1>6. /\ Free(v, "managed:start", "managed:end")
      /\ \E y \in Seq(Tokens), r \in Seq(Tokens), w \in Seq(Tokens) :
           FrontBody(g, nl, v, y) /\ HoldsBody(y, c, nl, r, w)
  BY <1>3, <1>4, <1>5, BodyReplaced
<1> QED BY <1>1, <1>4, <1>6, Zenon DEF PageIs

LEMMA RewrittenAgain ==
  ASSUME NEW h, NEW m \in Mutation, NEW takeover, PageIs(h, m.fields, BodyOf(m)),
         Free(BodyOf(m), "managed:start", "managed:end")
  PROVE  Rewritten(h, m, takeover) = h
<1>1. PICK f \in Fields, c \in Seq(Tokens) :
        f = m.fields /\ c = BodyOf(m) /\ Free(c, "managed:start", "managed:end")
  BY MutationIs
<1>2. PICK nl \in Newlines, v \in Seq(Tokens), b \in Seq(Tokens), a \in Seq(Tokens), z \in Seq(Tokens),
           r \in Seq(Tokens), w \in Seq(Tokens) :
        /\ FrontBody(h, nl, v, b) /\ Free(v, "managed:start", "managed:end")
        /\ HoldsFields(v, f, nl, a, z) /\ HoldsBody(b, c, nl, r, w)
  BY <1>1, Zenon DEF PageIs
<1>3. replace_frontmatter_region(h, f, takeover) = h
  BY <1>2, FieldsAgain
<1>4. replace_managed_body(h, c, takeover) = h
  BY <1>1, <1>2, BodyAgain
<1>5. h # Conflict
  <2>1. h \in Seq(Tokens)
    BY <1>2, FrontTokens
  <2> QED BY <2>1, TokensAre
<1> QED BY <1>1, <1>3, <1>4, <1>5, Zenon DEF Rewritten

TwoBehind(d, nl, s, f, e, b) ==
  <<d, nl, s, nl, f, nl, e, nl, d, nl, b, nl>> = <<d, nl, s, nl, f, nl, e, nl, d, nl>> \o <<b, nl>>

LEMMA FrontAndStart ==
  ASSUME NEW T, NEW nl \in T, NEW f \in T, NEW d \in T, NEW s \in T, NEW e \in T, NEW b \in T
  PROVE  TwoBehind(d, nl, s, f, e, b)
<1> DEFINE r == <<d, nl, s, nl, f, nl, e, nl, d, nl, b, nl>>
           x == <<d, nl, s, nl, f, nl, e, nl, d, nl>>
           q == <<b, nl>>
<1>1. /\ r \in Seq(T) /\ Len(r) = 12
      /\ r[1] = d /\ r[2] = nl /\ r[3] = s /\ r[4] = nl /\ r[5] = f /\ r[6] = nl /\ r[7] = e
      /\ r[8] = nl /\ r[9] = d /\ r[10] = nl /\ r[11] = b /\ r[12] = nl
  OBVIOUS
<1>2. /\ x \in Seq(T) /\ Len(x) = 10
      /\ x[1] = d /\ x[2] = nl /\ x[3] = s /\ x[4] = nl /\ x[5] = f /\ x[6] = nl /\ x[7] = e
      /\ x[8] = nl /\ x[9] = d /\ x[10] = nl
  OBVIOUS
<1>3. q \in Seq(T) /\ Len(q) = 2 /\ q[1] = b /\ q[2] = nl
  OBVIOUS
<1> HIDE DEF r, x, q
<1>4. PICK y \in Seq(T) : y = x \o q
  BY <1>2, <1>3, Joined, Zenon
<1>5. /\ Len(y) = Len(x) + Len(q) /\ (\A i \in 1 .. Len(x) : y[i] = x[i])
      /\ (\A i \in 1 .. Len(q) : y[Len(x) + i] = q[i])
  <2>1. x \in Seq(T) /\ q \in Seq(T)
    BY <1>2, <1>3
  <2> QED BY <1>4, <2>1, ConcatAt
<1>6. Len(y) = 12 /\ y[11] = b /\ y[12] = nl
  <2>1. 1 \in 1 .. Len(q) /\ 2 \in 1 .. Len(q) /\ Len(x) + 1 = 11 /\ Len(x) + 2 = 12
    BY <1>2, <1>3
  <2> QED BY <1>2, <1>3, <1>5, <2>1
<1>7. \A i \in 1 .. 12 : i \in 1 .. 10 \/ i = 11 \/ i = 12
  OBVIOUS
<1>8. \A i \in 1 .. 10 : i = 1 \/ i = 2 \/ i = 3 \/ i = 4 \/ i = 5 \/ i = 6 \/ i = 7
                      \/ i = 8 \/ i = 9 \/ i = 10
  OBVIOUS
<1>9. \A i \in 1 .. 10 : y[i] = r[i]
  <2>1. \A i \in 1 .. 10 : x[i] = r[i]
    BY <1>1, <1>2, <1>8
  <2> QED BY <1>2, <1>5, <2>1
<1>10. \A i \in 1 .. Len(r) : y[i] = r[i]
  BY <1>1, <1>6, <1>7, <1>9
<1>11. y = r
  BY <1>1, <1>6, <1>10, SeqEqual
<1> QED BY <1>4, <1>11, Zenon DEF r, x, q, TwoBehind

\* A new page is one.
LEMMA NewPageIs ==
  ASSUME NEW m \in Mutation
  PROVE  PageIs(new_page(m), m.fields, BodyOf(m))
<1>1. PICK f \in Fields, c \in Seq(Tokens) : f = m.fields /\ c = BodyOf(m) /\ canonical_managed_body(c) = c
  BY MutationIs
<1>2. /\ "LF" \in Newlines /\ "LF" \in Tokens /\ Newlines \subseteq Tokens
      /\ "managed:start" \in Tokens /\ "managed:end" \in Tokens
      /\ f \notin Markers
  BY TokensAre DEF MarkersOf, Newlines
<1>2a. f \in Tokens /\ "---" \in Tokens /\ "frontmatter:start" \in Tokens /\ "frontmatter:end" \in Tokens
  BY TokensAre DEF MarkersOf
<1>3. PICK o \in Seq(Tokens) : o = One("LF") /\ Len(o) = 1 /\ o[1] = "LF" /\ Range(o) = {"LF"}
  BY <1>2, OneIs
<1>4. PICK n \in Seq(Tokens) : n = <<>> /\ Len(n) = 0 /\ Range(n) = {}
  <2>1. <<>> \in Seq(Tokens) /\ Len(<<>>) = 0
    OBVIOUS
  <2>2. Range(<<>>) = {}
    BY DEF Range
  <2> QED BY <2>1, <2>2, Zenon
<1>5. PICK s \in Seq(Tokens) : s = One("managed:start")
  BY <1>2, OneIs
<1>6. PICK e \in Seq(Tokens) : e = One("managed:end")
  BY <1>2, OneIs
<1>7. PICK v \in Seq(Tokens) :
        /\ HoldsFields(v, f, "LF", n, o)
        /\ <<"---", "LF", "frontmatter:start", "LF", f, "LF", "frontmatter:end", "LF", "---", "LF">>
             = Above("LF", v)
  BY <1>2, <1>3, <1>4, FieldsNew, Zenon DEF Above
<1>8. PICK p \in Seq(Tokens) : p = Above("LF", v)
  BY <1>2, HeadIs
<1>9. PICK l \in Seq(Tokens) : l = Lined(c, "LF") /\ l = (o \o c) \o o
  <2>1. NewContent(c, "LF") = c
    BY <1>1, Zenon DEF canonical_managed_body, NewContent
  <2>2. Lined(c, "LF") = (o \o c) \o o
    BY <1>3, <2>1, Zenon DEF Lined
  <2>3. Lined(c, "LF") \in Seq(Tokens)
    BY <1>2, LinedIs
  <2> QED BY <2>2, <2>3
<1>10. PICK y \in Seq(Tokens) : y = Around(n, "managed:start", l, "managed:end", o)
  BY <1>2, AroundIs
<1>11. HoldsBody(y, c, "LF", n, o)
  <2>1. Free(n, "managed:start", "managed:end") /\ Free(o, "managed:start", "managed:end")
    BY <1>3, <1>4 DEF Free
  <2> QED BY <1>9, <1>10, <2>1 DEF HoldsBody
<1>12. Free(v, "managed:start", "managed:end")
  <2>1. Range(v) = Range(n) \cup Range(o) \cup {"frontmatter:start", "LF", f, "frontmatter:end"}
    BY <1>2, <1>7, FieldsRange, SMTT(40)
  <2> QED BY <1>2, <1>3, <1>4, <2>1 DEF Free, Markers
<1>13. FrontBody(Fenced("LF", v, y), "LF", v, y)
  <2>1. Open(n, "LF") /\ Open(o, "LF")
    <3>1. Len(n) = 0 /\ Len(o) = 1
      BY <1>3, <1>4
    <3> QED BY <3>1, OpenShort, Zenon
  <2>4. EndsIn(o, "LF")
    BY <1>2, <1>3, OneEnds, Zenon
  <2>5. Range(y) \subseteq Range(n) \cup Range(o) \cup (Range(c) \ Newlines)
                         \cup {"managed:start", "managed:end", "LF"}
    BY <1>2, <1>11, BodyRange
  <2>6. "CRLF" \notin Range(n) \cup Range(o) \cup Range(y)
    BY <1>3, <1>4, <2>5 DEF Newlines
  <2> QED BY <1>2, <1>7, <2>1, <2>4, <2>6, FrontMade
<1>14. new_page(m) = Fenced("LF", v, y)
  <2>1. PICK q \in Seq(Tokens) : q = <<"managed:start", "LF">> /\ q = s \o o
    <3>1. <<"managed:start", "LF">> = One("managed:start") \o One("LF")
      BY DEF One
    <3>2. s \o o \in Seq(Tokens)
      BY Joined, Zenon
    <3> QED BY <1>3, <1>5, <3>1, <3>2, Zenon
  <2>2. PICK d \in Seq(Tokens) : d = e \o o
    BY Joined, Zenon
  <2>3. PICK k \in Seq(Tokens) : k = o \o d /\ k = <<"LF", "managed:end", "LF">>
    <3>1. <<"managed:end", "LF">> = One("managed:end") \o One("LF")
      BY DEF One
    <3>2. <<"LF", "managed:end", "LF">> = One("LF") \o <<"managed:end", "LF">>
      BY SMTT(40) DEF One
    <3>3. o \o d \in Seq(Tokens)
      BY Joined, Zenon
    <3> QED BY <1>3, <1>6, <2>2, <3>1, <3>2, <3>3, Zenon
  <2>4. PICK x \in Seq(Tokens) : x = o \o c
    BY Joined, Zenon
  <2>5. PICK w \in Seq(Tokens) : w = q \o c
    BY Joined, Zenon
  <2>6. PICK u \in Seq(Tokens) : u = w \o o
    BY Joined, Zenon
  <2>7. y = u \o d
    <3>1. n \o s = s
      BY <1>4
    <3>2. Around(n, "managed:start", l, "managed:end", o) = (s \o l) \o d
      BY <1>3, <1>5, <1>6, <2>2, <3>1, Zenon DEF Around
    <3>3. Joins(s, x, o) /\ Joins(s, o, c)
      BY Associative, Zenon
    <3>4. s \o l = u
      BY <1>9, <2>1, <2>4, <2>5, <2>6, <3>3, Zenon DEF Joins
    <3> QED BY <1>10, <3>2, <3>4, Zenon
  <2>8. y = w \o k
    <3>1. Joins(w, o, d)
      BY Associative, Zenon
    <3> QED BY <2>3, <2>6, <2>7, <3>1, Zenon DEF Joins
  <2>9. Joins(p, w, k) /\ Joins(p, q, c)
    BY Associative, Zenon
  <2>10. p \o y = ((p \o q) \o c) \o k
    BY <2>5, <2>8, <2>9, Zenon DEF Joins
  <2>11. <<"---", "LF", "frontmatter:start", "LF", f, "LF", "frontmatter:end", "LF", "---", "LF",
           "managed:start", "LF">>
           = <<"---", "LF", "frontmatter:start", "LF", f, "LF", "frontmatter:end", "LF", "---", "LF">>
               \o <<"managed:start", "LF">>
    <3>1. TwoBehind("---", "LF", "frontmatter:start", f, "frontmatter:end", "managed:start")
      BY <1>2, <1>2a, FrontAndStart
    <3> QED BY <3>1, Zenon DEF TwoBehind
  <2>12. new_page(m) = ((p \o q) \o c) \o k
    BY <1>1, <1>7, <1>8, <2>1, <2>3, <2>11, Zenon DEF new_page
  <2> QED BY <1>8, <2>10, <2>12, Zenon DEF Fenced, Above
<1> QED BY <1>1, <1>2, <1>3, <1>4, <1>7, <1>11, <1>12, <1>13, <1>14, Zenon DEF PageIs

-----------------------------------------------------------------------------
(* The invariant and the theorems *)

\* The file holds tokens only.
TextOK == text \in Seq(Tokens) \cup {NoFile}

LEMMA ReplacedType ==
  ASSUME NEW t \in Seq(Tokens), NEW c \in Seq(Tokens), NEW takeover \in BOOLEAN, NEW g,
         g = replace_managed_body(t, c, takeover), g # Conflict
  PROVE  g \in Seq(Tokens)
<1>1. MarkersOf(Tokens, "managed:start", "managed:end") /\ Newlines \subseteq Tokens
      /\ "managed:start" \in Tokens /\ "managed:end" \in Tokens
  BY TokensAre DEF MarkersOf
<1>2. g = replace_region(t, c, "managed:start", "managed:end", takeover)
  BY DEF replace_managed_body
<1>3. PICK nl \in Newlines : nl = detect_newline(t)
  BY NewlineIs
<1>4. PICK l \in Seq(Tokens) : l = Lined(c, nl)
  BY <1>1, LinedIs
<1>5. ASSUME NEW r \in Seq(Tokens), NEW old \in Seq(Tokens), NEW z \in Seq(Tokens),
             t = Around(r, "managed:start", old, "managed:end", z),
             Free(r, "managed:start", "managed:end"), Free(old, "managed:start", "managed:end"),
             Free(z, "managed:start", "managed:end")
      PROVE  g \in Seq(Tokens)
  <2>1. replace_region(Around(r, "managed:start", old, "managed:end", z), c,
                       "managed:start", "managed:end", takeover)
          = Around(r, "managed:start",
                   Lined(c, detect_newline(Around(r, "managed:start", old, "managed:end", z))),
                   "managed:end", z)
    BY <1>1, <1>5, RegionAgain
  <2>2. g = Around(r, "managed:start", l, "managed:end", z)
    BY <1>2, <1>3, <1>4, <1>5, <2>1, Zenon
  <2> QED BY <1>1, <2>2, AroundIs
<1>6. CASE g = Around(t \o Separator(t), "managed:start", Lined(c, detect_newline(t)),
                      "managed:end", One(detect_newline(t)))
  <2>1. PICK o \in Seq(Tokens) : o = One(nl)
    BY <1>1, OneIs
  <2>2. PICK s \in Seq(Tokens) : s = Separator(t)
    <3>1. <<>> \in Seq(Tokens)
      OBVIOUS
    <3>2. Separator(t) = <<>> \/ Separator(t) = o
      BY <1>3, <2>1, Zenon DEF Separator
    <3> QED BY <3>1, <3>2
  <2>3. PICK a \in Seq(Tokens) : a = t \o s
    BY Joined, Zenon
  <2>4. g = Around(a, "managed:start", l, "managed:end", o)
    BY <1>3, <1>4, <1>6, <2>1, <2>2, <2>3, Zenon
  <2> QED BY <1>1, <2>4, AroundIs
<1>7. \/ \E r \in Seq(Tokens), old \in Seq(Tokens), z \in Seq(Tokens) :
           /\ t = Around(r, "managed:start", old, "managed:end", z)
           /\ Free(r, "managed:start", "managed:end") /\ Free(old, "managed:start", "managed:end")
           /\ Free(z, "managed:start", "managed:end")
      \/ g = Around(t \o Separator(t), "managed:start", Lined(c, detect_newline(t)),
                    "managed:end", One(detect_newline(t)))
  BY <1>1, <1>2, ReplacedIs
<1> QED BY <1>5, <1>6, <1>7

LEMMA RewrittenType ==
  ASSUME NEW t \in Seq(Tokens), NEW m \in Mutation, NEW takeover \in BOOLEAN,
         NEW g, g = Rewritten(t, m, takeover), g # Conflict
  PROVE  g \in Seq(Tokens)
<1>1. PICK f \in Fields, c \in Seq(Tokens) : f = m.fields /\ c = BodyOf(m)
  BY MutationIs
<1>2. PICK front : front = replace_frontmatter_region(t, f, takeover)
  OBVIOUS
<1>3. front # Conflict /\ g = replace_managed_body(front, c, takeover)
  BY <1>1, <1>2 DEF Rewritten
<1>4. PICK nl \in Newlines, v \in Seq(Tokens), b \in Seq(Tokens) : FrontBody(front, nl, v, b)
  BY <1>2, <1>3, FieldsReplaced
<1>5. front \in Seq(Tokens)
  BY <1>4, FrontTokens
<1> QED BY <1>3, <1>5, ReplacedType

\* What a mutation is written as, if it is written.
LEMMA RenderedIs ==
  ASSUME NEW t \in Seq(Tokens) \cup {NoFile}, NEW r, NEW m \in Mutation,
         NEW g, g = Rendered(t, r, m), g # Conflict
  PROVE  \/ t = NoFile /\ g = new_page(m)
         \/ /\ t \in Seq(Tokens)
            /\ \E takeover \in BOOLEAN : g = Rewritten(t, m, takeover)
<1>1. \/ t = NoFile /\ g = new_page(m)
      \/ t # NoFile /\ g = Rewritten(t, m, TRUE)
      \/ t # NoFile /\ g = Rewritten(t, m, FALSE)
  BY DEF Rendered
<1> QED BY <1>1

LEMMA RenderedType ==
  ASSUME NEW t \in Seq(Tokens) \cup {NoFile}, NEW r, NEW m \in Mutation,
         NEW g, g = Rendered(t, r, m), g # Conflict
  PROVE  g \in Seq(Tokens)
<1>1. CASE t = NoFile /\ g = new_page(m)
  <2>1. PageIs(g, m.fields, BodyOf(m))
    BY <1>1, NewPageIs, Zenon
  <2> QED BY <2>1, MutationIs, PageRead
<1>2. CASE t \in Seq(Tokens) /\ \E takeover \in BOOLEAN : g = Rewritten(t, m, takeover)
  BY <1>2, RewrittenType
<1> QED BY <1>1, <1>2, RenderedIs

LEMMA PartType ==
  ASSUME NEW T, NEW t \in Seq(T), NEW i \in Nat, NEW j \in Nat, i >= 1, j <= Len(t)
  PROVE  SubSeq(t, i, j) \in Seq(T)
<1>1. \A k \in i .. j : t[k] \in T
  OBVIOUS
<1>2. i \in Int /\ j \in Int
  OBVIOUS
<1> QED BY <1>1, <1>2, SubSeqProperties, Zenon

\* The file holds nothing but the tokens of the model, whoever writes it
\* (apply of llm_wiki.py, the user's editor).
THEOREM TextType == Spec => []TextOK
<1>1. Init => TextOK
  <2>1. ASSUME NEW t \in FirstTexts PROVE t \in Seq(Tokens)
    <3>1. t \in Seq(Range(t)) /\ Range(t) \subseteq Tokens
      BY TokensAssumption DEF Tokens
    <3> QED BY <3>1
  <2> QED BY <2>1 DEF Init, TextOK
<1>2. TextOK /\ [Next]_vars => TextOK'
  <2> SUFFICES ASSUME TextOK, [Next]_vars PROVE TextOK'
    OBVIOUS
  <2>1. CASE UNCHANGED vars
    BY <2>1 DEF TextOK, vars
  <2>2. ASSUME NEW m \in Mutation, Apply(m) PROVE TextOK'
    <3>1. PICK g : g = Rendered(text, record, m)
      OBVIOUS
    <3>2. g # Conflict /\ text' = g
      BY <2>2, <3>1 DEF Apply
    <3>3. g \in Seq(Tokens)
      BY <3>1, <3>2, RenderedType DEF TextOK
    <3> QED BY <3>2, <3>3 DEF TextOK
  <2>3. ASSUME Edit PROVE TextOK'
    <3>1. text \in Seq(Tokens)
      BY <2>3 DEF Edit, InsertLine, DeleteLine, ConvertNewlines, Edited, TextOK
    <3>2. PICK t \in Seq(Tokens) : t = text
      BY <3>1
    <3>3. ASSUME NEW i \in 0 .. Len(text), NEW line \in UserLines, NEW nl \in Newlines,
                 InsertLine(i, line, nl)
          PROVE  TextOK'
      <4>1. text' = SubSeq(t, 1, i) \o <<line, nl>> \o SubSeq(t, i + 1, Len(t))
        BY <3>2, <3>3 DEF InsertLine
      <4>2. PICK x \in Seq(Tokens) : x = SubSeq(t, 1, i)
        <5>1. i \in Nat /\ 1 \in Nat /\ 1 >= 1 /\ i <= Len(t)
          BY <3>2
        <5> QED BY <5>1, PartType, Zenon
      <4>3. PICK y \in Seq(Tokens) : y = SubSeq(t, i + 1, Len(t))
        <5>1. i + 1 \in Nat /\ Len(t) \in Nat /\ i + 1 >= 1 /\ Len(t) <= Len(t)
          BY <3>2
        <5> QED BY <5>1, PartType, Zenon
      <4>4. PICK q \in Seq(Tokens) : q = <<line, nl>>
        <5>1. line \in Tokens /\ nl \in Tokens
          BY DEF Tokens
        <5>2. <<line, nl>> \in Seq(Tokens)
          BY <5>1
        <5> QED BY <5>2, Zenon
      <4>5. PICK u \in Seq(Tokens) : u = x \o q
        BY Joined, Zenon
      <4>6. u \o y \in Seq(Tokens)
        BY Joined, Zenon
      <4>7. text' \in Seq(Tokens)
        BY <4>1, <4>2, <4>3, <4>4, <4>5, <4>6, Zenon
      <4> QED BY <4>7 DEF TextOK
    <3>4. ASSUME NEW i \in DOMAIN text, DeleteLine(i) PROVE TextOK'
      <4>1. text' = SubSeq(t, 1, i - 1) \o SubSeq(t, i + 2, Len(t))
        BY <3>2, <3>4 DEF DeleteLine
      <4>2. i \in 1 .. Len(t)
        BY <3>2
      <4>3. PICK x \in Seq(Tokens) : x = SubSeq(t, 1, i - 1)
        <5>1. i - 1 \in Nat /\ 1 \in Nat /\ 1 >= 1 /\ i - 1 <= Len(t)
          BY <4>2
        <5> QED BY <5>1, PartType, Zenon
      <4>4. PICK y \in Seq(Tokens) : y = SubSeq(t, i + 2, Len(t))
        <5>1. i + 2 \in Nat /\ Len(t) \in Nat /\ i + 2 >= 1 /\ Len(t) <= Len(t)
          BY <4>2
        <5> QED BY <5>1, PartType, Zenon
      <4>5. x \o y \in Seq(Tokens)
        BY Joined, Zenon
      <4>6. text' \in Seq(Tokens)
        BY <4>1, <4>3, <4>4, <4>5, Zenon
      <4> QED BY <4>6 DEF TextOK
    <3>5. ASSUME NEW nl \in Newlines, ConvertNewlines(nl) PROVE TextOK'
      <4>1. normalize_content_newlines(t, nl) \in Seq(Tokens)
        BY NormalIs, TokensAre
      <4> QED BY <3>2, <3>5, <4>1 DEF ConvertNewlines, TextOK
    <3> QED BY <2>3, <3>3, <3>4, <3>5 DEF Edit
  <2> QED BY <2>1, <2>2, <2>3 DEF Next
<1> QED BY <1>1, <1>2, PTL DEF Spec

\* What a mutation writes is a page, and its record what the page record says.
LEMMA ApplyWrites ==
  ASSUME TextOK, NEW m \in Mutation, Apply(m), ~StartInFront
  PROVE  /\ PageIs(text', m.fields, BodyOf(m))
         /\ record' = [fields |-> {m.fields}, body |-> BodyOf(m)]
<1>1. PICK t \in Seq(Tokens) \cup {NoFile} : t = text
  BY DEF TextOK
<1>2. PICK g : g = Rendered(t, record, m)
  OBVIOUS
<1>3. g # Conflict /\ text' = g
  BY <1>1, <1>2 DEF Apply
<1>4. record' = [fields |-> {m.fields}, body |-> BodyOf(m)]
  BY DEF Apply, BodyOf
<1>5. ~(HasFrontmatter(t) /\ "managed:start" \in Range(Frontmatter(t)))
  BY <1>1 DEF StartInFront
<1>6. CASE t = NoFile /\ g = new_page(m)
  BY <1>3, <1>4, <1>6, NewPageIs, Zenon
<1>7. ASSUME t \in Seq(Tokens), NEW takeover \in BOOLEAN, g = Rewritten(t, m, takeover)
      PROVE  PageIs(text', m.fields, BodyOf(m))
  <2>1. PageIs(g, m.fields, BodyOf(m))
    BY <1>3, <1>5, <1>7, RewrittenIs
  <2> QED BY <1>3, <2>1, Zenon
<1> QED BY <1>2, <1>3, <1>4, <1>6, <1>7, RenderedIs

\* What llm_wiki.py writes for a mutation is read back as what the page record is
\* the checksum of, for every text, edit, payload and kind of newline, exactly
\* when the body has no marker (plan_page_mutation, inspect_managed_page); texts
\* whose body region starts in the frontmatter are excepted.
THEOREM ReadBack == Spec => WrittenIsReadBack
<1>1. ASSUME TextOK, NEW m \in Mutation, Apply(m), ~StartInFront
      PROVE  (inspect_managed_page(text') = record') <=> ~HasMarker(m.body)
  <2>1. PageIs(text', m.fields, BodyOf(m)) /\ record' = [fields |-> {m.fields}, body |-> BodyOf(m)]
    BY <1>1, ApplyWrites
  <2>2. PICK f \in Fields, c \in Seq(Tokens) :
          /\ f = m.fields /\ c = BodyOf(m) /\ canonical_managed_body(c) = c
          /\ HasMarker(m.body) <=> ~Free(c, "managed:start", "managed:end")
    BY MutationIs
  <2>3. PICK h : h = text' /\ PageIs(h, f, c)
    BY <2>1, <2>2
  <2>4. /\ Free(c, "managed:start", "managed:end") => inspect_managed_page(h) = [fields |-> {f}, body |-> c]
        /\ ~Free(c, "managed:start", "managed:end") => inspect_managed_page(h) = Unreadable
    BY <2>2, <2>3, PageRead
  <2>5. record' = [fields |-> {f}, body |-> c]
    BY <2>1, <2>2, Zenon
  <2>6. [fields |-> {f}, body |-> c] # Unreadable
    <3>1. [fields |-> {f}, body |-> c].fields # Unreadable.fields
      BY DEF Unreadable
    <3> QED BY <3>1
  <2>7. (inspect_managed_page(h) = record') <=> ~HasMarker(m.body)
    BY <2>2, <2>4, <2>5, <2>6, Zenon
  <2> QED BY <2>3, <2>7, Zenon DEF inspect_managed_page
<1>2. TextOK /\ [Next]_vars
        => [\A m \in Mutation : Apply(m) /\ ~StartInFront =>
              ((inspect_managed_page(text') = record') <=> ~HasMarker(m.body))]_vars
  BY <1>1
<1> QED BY <1>2, TextType, PTL DEF Spec, WrittenIsReadBack

\* The same mutation again leaves the file as it is: a retried apply is a no-op
\* (plan_page_mutation, replace_region), if the body has no marker and the body
\* region does not start in the frontmatter.
THEOREM TwiceIsOnce == Spec => AppliedTwiceIsOnce
<1>1. ASSUME TextOK, NEW m \in Mutation, Apply(m), ~StartInFront, ~HasMarker(m.body)
      PROVE  Rendered(text', record', m) = text'
  <2>1. PageIs(text', m.fields, BodyOf(m)) /\ record' = [fields |-> {m.fields}, body |-> BodyOf(m)]
    BY <1>1, ApplyWrites
  <2>2. PICK f \in Fields, c \in Seq(Tokens) :
          /\ f = m.fields /\ c = BodyOf(m) /\ canonical_managed_body(c) = c
          /\ Free(c, "managed:start", "managed:end")
    BY <1>1, MutationIs
  <2>3. PICK h : h = text' /\ PageIs(h, f, c)
    BY <2>1, <2>2
  <2>4. PICK r : r = record' /\ r = [fields |-> {f}, body |-> c]
    BY <2>1, <2>2
  <2>5. h \in Seq(Tokens) /\ inspect_managed_page(h) = r
    BY <2>2, <2>3, <2>4, PageRead
  <2>6. h # NoFile
    BY <2>5, TokensAre
  <2>7. r # Unreadable
    <3>1. r.fields # Unreadable.fields
      BY <2>4 DEF Unreadable
    <3> QED BY <3>1
  <2>8. Rewritten(h, m, FALSE) = h
    BY <2>2, <2>3, RewrittenAgain
  <2>9. Rendered(h, r, m) = Rewritten(h, m, FALSE)
    BY <2>5, <2>6, <2>7 DEF Rendered
  <2> QED BY <2>3, <2>4, <2>8, <2>9, Zenon
<1>2. TextOK /\ [Next]_vars
        => [\A m \in Mutation : Apply(m) /\ ~StartInFront /\ ~HasMarker(m.body) =>
              Rendered(text', record', m) = text']_vars
  BY <1>1
<1> QED BY <1>2, TextType, PTL DEF Spec, AppliedTwiceIsOnce

-----------------------------------------------------------------------------
(* The user's lines *)

\* u is t with y tokens in place of the x tokens behind the first a.
Splice(t, u, a, x, y) ==
  /\ t \in Seq(Tokens) /\ u \in Seq(Tokens)
  /\ a \in Nat /\ x \in Nat /\ y \in Nat
  /\ a + x <= Len(t) /\ Len(u) = Len(t) - x + y
  /\ \A i \in 1 .. a : u[i] = t[i]
  /\ \A i \in 1 .. Len(t) : a + x < i => u[i - x + y] = t[i]

Moved(i, a, x, y) == IF i <= a THEN i ELSE i - x + y

\* The n tokens behind the first a hold neither marker.
Clear(t, a, n, start, end) == \A i \in (a + 1) .. (a + n) : t[i] \notin {start, end}

\* They begin and end with a region, as far as its markers are concerned.
Closed(t, a, n, start, end) ==
  \E p \in (a + 1) .. (a + n), q \in (a + 1) .. (a + n) :
    /\ t[p] = start /\ t[q] = end
    /\ \A i \in (a + 1) .. (a + n) : i < p \/ q < i => t[i] \notin {start, end}

LEMMA RegionIs ==
  ASSUME NEW t \in Seq(Tokens), NEW i \in Nat, NEW start, NEW end, InRegion(t, i, start, end)
  PROVE  \E j \in Nat, k \in Nat :
           /\ 1 <= j /\ j <= i /\ i < k /\ k <= Len(t) /\ t[j] = start /\ t[k] = end
           /\ \A n \in Nat : j < n /\ n < k => t[n] \notin {start, end}
<1>1. PICK j \in 1 .. i, k \in (i + 1) .. Len(t) :
        /\ t[j] = start /\ t[k] = end
        /\ \A n \in (j + 1) .. (k - 1) : t[n] \notin {start, end}
  BY DEF InRegion
<1>2. Len(t) \in Nat
  OBVIOUS
<1>3. j \in Nat /\ k \in Nat /\ 1 <= j /\ j <= i /\ i < k /\ k <= Len(t)
  BY <1>2
<1>4. \A n \in Nat : j < n /\ n < k => n \in (j + 1) .. (k - 1)
  BY <1>3
<1> QED BY <1>1, <1>3, <1>4

LEMMA RegionAt ==
  ASSUME NEW t \in Seq(Tokens), NEW i \in Nat, NEW start, NEW end, NEW j \in Nat, NEW k \in Nat,
         1 <= j, j <= i, i < k, k <= Len(t), t[j] = start, t[k] = end,
         \A n \in Nat : j < n /\ n < k => t[n] \notin {start, end}
  PROVE  InRegion(t, i, start, end)
<1>1. Len(t) \in Nat
  OBVIOUS
<1>2. j \in 1 .. i /\ k \in (i + 1) .. Len(t)
  BY <1>1
<1>3. \A n \in (j + 1) .. (k - 1) : n \in Nat /\ j < n /\ n < k
  OBVIOUS
<1> QED BY <1>2, <1>3 DEF InRegion

\* What stands where in the text after the change.
LEMMA SpliceAt ==
  ASSUME NEW t, NEW u, NEW a, NEW x, NEW y, Splice(t, u, a, x, y)
  PROVE  /\ t \in Seq(Tokens) /\ u \in Seq(Tokens) /\ a \in Nat /\ x \in Nat /\ y \in Nat
         /\ Len(t) \in Nat /\ Len(u) \in Nat /\ a + x <= Len(t) /\ Len(u) = Len(t) - x + y
         /\ \A i \in Nat : 1 <= i /\ i <= a => u[i] = t[i]
         /\ \A i \in Nat : a + y < i /\ i <= Len(u) => t[i - y + x] = u[i]
         /\ \A i \in Nat : a + x < i /\ i <= Len(t) => u[i - x + y] = t[i]
<1>1. /\ t \in Seq(Tokens) /\ u \in Seq(Tokens) /\ a \in Nat /\ x \in Nat /\ y \in Nat
      /\ Len(t) \in Nat /\ Len(u) \in Nat /\ a + x <= Len(t) /\ Len(u) = Len(t) - x + y
  BY DEF Splice
<1>2. ASSUME NEW i \in Nat, 1 <= i, i <= a PROVE u[i] = t[i]
  <2>1. i \in 1 .. a
    BY <1>1, <1>2
  <2> QED BY <2>1 DEF Splice
<1>3. ASSUME NEW i \in Nat, a + x < i, i <= Len(t) PROVE u[i - x + y] = t[i]
  <2>1. i \in 1 .. Len(t)
    BY <1>1, <1>3
  <2> QED BY <1>3, <2>1 DEF Splice
<1>4. ASSUME NEW i \in Nat, a + y < i, i <= Len(u) PROVE t[i - y + x] = u[i]
  <2>1. PICK n \in Nat : n = i - y + x
    BY <1>1, <1>4
  <2>2. a + x < n /\ n <= Len(t) /\ n - x + y = i
    BY <1>1, <1>4, <2>1
  <2>3. u[n - x + y] = t[n]
    BY <1>3, <2>2
  <2> QED BY <2>1, <2>2, <2>3
<1> QED BY <1>1, <1>2, <1>3, <1>4

\* A place outside of the changed tokens is in a region only if it was in one.
LEMMA RegionWas ==
  ASSUME NEW t, NEW u, NEW a, NEW x, NEW y, Splice(t, u, a, x, y),
         NEW start, NEW end, start # end,
         \/ Closed(u, a, y, start, end)
         \/ /\ Clear(u, a, y, start, end)
            /\ \/ Clear(t, a, x, start, end)
               \/ \A n \in Nat : 1 <= n /\ n <= a => t[n] # start,
         NEW i \in Nat, 1 <= i, i <= Len(t), i <= a \/ a + x < i,
         InRegion(u, Moved(i, a, x, y), start, end)
  PROVE  InRegion(t, i, start, end)
<1>1. /\ t \in Seq(Tokens) /\ u \in Seq(Tokens) /\ a \in Nat /\ x \in Nat /\ y \in Nat
      /\ Len(t) \in Nat /\ Len(u) \in Nat /\ a + x <= Len(t) /\ Len(u) = Len(t) - x + y
      /\ \A n \in Nat : 1 <= n /\ n <= a => u[n] = t[n]
      /\ \A n \in Nat : a + y < n /\ n <= Len(u) => t[n - y + x] = u[n]
      /\ \A n \in Nat : a + x < n /\ n <= Len(t) => u[n - x + y] = t[n]
  BY SpliceAt
<1>2. PICK m \in Nat : /\ m = Moved(i, a, x, y)
                       /\ i <= a => m = i
                       /\ ~(i <= a) => m = i - x + y /\ a + y < m
  <2>1. CASE i <= a
    BY <2>1 DEF Moved
  <2>2. CASE ~(i <= a)
    <3>1. PICK m \in Nat : m = i - x + y /\ a + y < m
      <4>1. i - x + y \in Nat /\ a + y < i - x + y
        BY <1>1, <2>2
      <4> QED BY <4>1
    <3> QED BY <2>2, <3>1 DEF Moved
  <2> QED BY <2>1, <2>2
<1>3. PICK j \in Nat, k \in Nat :
        /\ 1 <= j /\ j <= m /\ m < k /\ k <= Len(u) /\ u[j] = start /\ u[k] = end
        /\ \A n \in Nat : j < n /\ n < k => u[n] \notin {start, end}
  <2>1. InRegion(u, m, start, end)
    BY <1>2
  <2>2. u \in Seq(Tokens)
    BY <1>1
  <2> QED BY <2>1, <2>2, RegionIs
<1>4. CASE k <= a
  <2>1. m = i /\ i < k
    BY <1>1, <1>2, <1>3, <1>4, SMTT(40)
  <2>2. t[j] = start /\ t[k] = end
    BY <1>1, <1>3, <1>4, SMTT(40)
  <2>3. \A n \in Nat : j < n /\ n < k => t[n] \notin {start, end}
    <3>1. \A n \in Nat : j < n /\ n < k => 1 <= n /\ n <= a
      BY <1>1, <1>3, <1>4
    <3> QED BY <1>1, <1>3, <3>1
  <2>4. j <= i /\ k <= Len(t)
    BY <1>1, <1>3, <1>4, <2>1
  <2> QED BY <1>1, <1>3, <2>1, <2>2, <2>3, <2>4, RegionAt
<1>5. CASE a + y < j
  <2>1. PICK p \in Nat, q \in Nat : p = j - y + x /\ q = k - y + x
    <3>1. j - y + x \in Nat /\ k - y + x \in Nat
      BY <1>1, <1>3, <1>5, SMTT(40)
    <3> QED BY <3>1
  <2>2. ~(i <= a)
    BY <1>1, <1>2, <1>3, <1>5
  <2>3. 1 <= p /\ p <= i /\ i < q /\ q <= Len(t)
    BY <1>1, <1>2, <1>3, <1>5, <2>1, <2>2
  <2>4. t[p] = start /\ t[q] = end
    <3>1. j <= Len(u) /\ a + y < k
      BY <1>1, <1>3, <1>5, SMTT(40)
    <3>2. t[j - y + x] = u[j]
      BY <1>1, <1>5, <3>1
    <3>3. t[k - y + x] = u[k]
      BY <1>1, <1>3, <3>1
    <3> QED BY <1>3, <2>1, <3>2, <3>3
  <2>5. ASSUME NEW n \in Nat, p < n, n < q PROVE t[n] \notin {start, end}
    <3>1. PICK l \in Nat : l = n - x + y
      BY <1>1, <1>5, <2>1, <2>5
    <3>2. j < l /\ l < k /\ a + x < n /\ n <= Len(t)
      BY <1>1, <1>3, <1>5, <2>1, <2>5, <3>1
    <3> QED BY <1>1, <1>3, <3>1, <3>2
  <2> QED BY <1>1, <2>3, <2>4, <2>5, RegionAt
<1>6. CASE ~(k <= a) /\ ~(a + y < j) /\ Closed(u, a, y, start, end)
  <2>1. PICK p \in (a + 1) .. (a + y), q \in (a + 1) .. (a + y) :
          /\ u[p] = start /\ u[q] = end
          /\ \A n \in (a + 1) .. (a + y) : n < p \/ q < n => u[n] \notin {start, end}
    BY <1>6 DEF Closed
  <2>2. p \in Nat /\ q \in Nat /\ a < p /\ p <= a + y /\ a < q /\ q <= a + y
    BY <1>1
  <2>3. CASE i <= a
    <3>1. j < p
      BY <1>1, <1>2, <1>3, <2>2, <2>3
    <3>2. CASE k < p
      <4>1. k \in (a + 1) .. (a + y)
        BY <1>1, <1>6, <2>2, <3>2
      <4> QED BY <1>3, <2>1, <3>2, <4>1
    <3>3. CASE k = p
      BY <1>3, <2>1, <3>3
    <3>4. CASE p < k
      BY <1>3, <2>1, <2>2, <3>1, <3>4
    <3> QED BY <1>3, <2>2, <3>2, <3>3, <3>4
  <2>4. CASE ~(i <= a)
    <3>1. q < k
      BY <1>1, <1>2, <1>3, <2>2, <2>4
    <3>2. CASE q < j
      <4>1. j \in (a + 1) .. (a + y)
        BY <1>1, <1>6, <2>2, <3>2
      <4> QED BY <1>3, <2>1, <3>2, <4>1
    <3>3. CASE j = q
      BY <1>3, <2>1, <3>3
    <3>4. CASE j < q
      BY <1>3, <2>1, <2>2, <3>1, <3>4
    <3> QED BY <1>3, <2>2, <3>2, <3>3, <3>4
  <2> QED BY <2>3, <2>4
<1>7. CASE ~(k <= a) /\ ~(a + y < j) /\ Clear(u, a, y, start, end)
  <2>1. j <= a
    <3>1. j \notin (a + 1) .. (a + y)
      BY <1>3, <1>7 DEF Clear
    <3> QED BY <1>1, <1>3, <1>7, <3>1
  <2>2. a + y < k
    <3>1. k \notin (a + 1) .. (a + y)
      BY <1>3, <1>7 DEF Clear
    <3> QED BY <1>1, <1>3, <1>7, <3>1
  <2>3. t[j] = start
    BY <1>1, <1>3, <2>1
  <2>4. CASE Clear(t, a, x, start, end)
    <3>1. PICK q \in Nat : q = k - y + x
      BY <1>1, <2>2
    <3>2. j <= i /\ i < q /\ q <= Len(t)
      <4>1. CASE i <= a
        BY <1>1, <1>2, <1>3, <2>2, <3>1, <4>1
      <4>2. CASE ~(i <= a)
        BY <1>1, <1>2, <1>3, <2>1, <2>2, <3>1, <4>2
      <4> QED BY <4>1, <4>2
    <3>3. t[q] = end
      BY <1>1, <1>3, <2>2, <3>1
    <3>4. ASSUME NEW n \in Nat, j < n, n < q PROVE t[n] \notin {start, end}
      <4>1. CASE n <= a
        <5>1. 1 <= n /\ n < k
          BY <1>1, <1>3, <1>7, <3>4, <4>1
        <5> QED BY <1>1, <1>3, <3>4, <4>1, <5>1
      <4>2. CASE a < n /\ n <= a + x
        <5>1. n \in (a + 1) .. (a + x)
          BY <1>1, <4>2
        <5> QED BY <2>4, <5>1 DEF Clear
      <4>3. CASE a + x < n
        <5>1. PICK l \in Nat : l = n - x + y
          BY <1>1, <4>3
        <5>2. j < l /\ l < k /\ n <= Len(t)
          BY <1>1, <1>3, <2>1, <3>1, <3>2, <3>4, <4>3, <5>1
        <5> QED BY <1>1, <1>3, <4>3, <5>1, <5>2
      <4> QED BY <1>1, <4>1, <4>2, <4>3
    <3> QED BY <1>1, <1>3, <2>3, <3>2, <3>3, <3>4, RegionAt
  <2>5. CASE \A n \in Nat : 1 <= n /\ n <= a => t[n] # start
    BY <1>3, <2>1, <2>3, <2>5
  <2> QED BY <1>7, <2>4, <2>5, <1>6
<1> QED BY <1>4, <1>5, <1>6, <1>7
\* The changed tokens take no part in what is outside of the region of the markers.
Apart(t, u, a, x, y, start, end) ==
  \/ Closed(u, a, y, start, end)
  \/ /\ Clear(u, a, y, start, end)
     /\ \/ Clear(t, a, x, start, end)
        \/ \A n \in Nat : 1 <= n /\ n <= a => t[n] # start

Lines(t) == {i \in DOMAIN t : t[i] = UserLine /\ ~Inside(t, i)}

LEMMA LinesFinite ==
  ASSUME NEW t \in Seq(Tokens)
  PROVE  IsFiniteSet(Lines(t)) /\ LinesOutside(t) = Cardinality(Lines(t)) /\ LinesOutside(t) \in Nat
<1>1. DOMAIN t = 1 .. Len(t) /\ Len(t) \in Nat
  OBVIOUS
<1>2. IsFiniteSet(1 .. Len(t))
  BY <1>1, FS_Interval
<1>3. Lines(t) \subseteq 1 .. Len(t)
  BY <1>1 DEF Lines
<1>4. IsFiniteSet(Lines(t))
  BY <1>2, <1>3, FS_Subset
<1>5. LinesOutside(t) = Cardinality(Lines(t))
  BY DEF LinesOutside, Lines
<1> QED BY <1>4, <1>5, FS_CardinalityType

\* Every line outside of the regions is still one after the change.
LEMMA LinesStay ==
  ASSUME NEW t, NEW u, NEW a, NEW x, NEW y, Splice(t, u, a, x, y),
         Apart(t, u, a, x, y, "frontmatter:start", "frontmatter:end"),
         Apart(t, u, a, x, y, "managed:start", "managed:end"),
         \A i \in (a + 1) .. (a + x) : t[i] = UserLine => Inside(t, i)
  PROVE  LinesOutside(u) >= LinesOutside(t)
<1>1. /\ t \in Seq(Tokens) /\ u \in Seq(Tokens) /\ a \in Nat /\ x \in Nat /\ y \in Nat
      /\ Len(t) \in Nat /\ Len(u) \in Nat /\ a + x <= Len(t) /\ Len(u) = Len(t) - x + y
      /\ \A n \in Nat : 1 <= n /\ n <= a => u[n] = t[n]
      /\ \A n \in Nat : a + x < n /\ n <= Len(t) => u[n - x + y] = t[n]
  BY SpliceAt
<1>2. ASSUME NEW i \in Lines(t) PROVE i \in Nat /\ 1 <= i /\ i <= Len(t) /\ (i <= a \/ a + x < i)
  <2>1. i \in 1 .. Len(t) /\ t[i] = UserLine /\ ~Inside(t, i)
    BY <1>1 DEF Lines
  <2>2. i \notin (a + 1) .. (a + x)
    BY <2>1
  <2> QED BY <1>1, <2>1, <2>2
<1>3. ASSUME NEW i \in Lines(t) PROVE Moved(i, a, x, y) \in Lines(u)
  <2>1. i \in Nat /\ 1 <= i /\ i <= Len(t) /\ (i <= a \/ a + x < i)
    BY <1>2
  <2>2. PICK m : m = Moved(i, a, x, y)
    OBVIOUS
  <2>3. m \in 1 .. Len(u) /\ u[m] = t[i]
    <3>1. CASE i <= a
      <4>1. m = i
        BY <2>2, <3>1 DEF Moved
      <4>2. i \in 1 .. Len(u)
        BY <1>1, <2>1, <3>1
      <4> QED BY <1>1, <2>1, <3>1, <4>1, <4>2
    <3>2. CASE ~(i <= a)
      <4>1. m = i - x + y
        BY <2>2, <3>2 DEF Moved
      <4>2. i - x + y \in 1 .. Len(u)
        BY <1>1, <2>1, <3>2
      <4>3. u[i - x + y] = t[i]
        BY <1>1, <2>1, <3>2
      <4> QED BY <4>1, <4>2, <4>3
    <3> QED BY <3>1, <3>2
  <2>4. t[i] = UserLine /\ ~Inside(t, i)
    BY DEF Lines
  <2>5. ~InRegion(u, Moved(i, a, x, y), "frontmatter:start", "frontmatter:end")
    <3>1. ~InRegion(t, i, "frontmatter:start", "frontmatter:end")
      BY <2>4 DEF Inside
    <3>2. "frontmatter:start" # "frontmatter:end"
      OBVIOUS
    <3> QED BY <2>1, <3>1, <3>2, RegionWas DEF Apart
  <2>6. ~InRegion(u, Moved(i, a, x, y), "managed:start", "managed:end")
    <3>1. ~InRegion(t, i, "managed:start", "managed:end")
      BY <2>4 DEF Inside
    <3>2. "managed:start" # "managed:end"
      OBVIOUS
    <3> QED BY <2>1, <3>1, <3>2, RegionWas DEF Apart
  <2>7. ~Inside(u, m)
    BY <2>2, <2>5, <2>6 DEF Inside
  <2>8. DOMAIN u = 1 .. Len(u)
    BY <1>1
  <2> QED BY <2>2, <2>3, <2>4, <2>7, <2>8 DEF Lines
<1>4. PICK f : f = [i \in Lines(t) |-> Moved(i, a, x, y)]
  OBVIOUS
<1>5. f \in [Lines(t) -> Lines(u)]
  BY <1>3, <1>4
<1>6. ASSUME NEW i \in Lines(t), NEW j \in Lines(t), f[i] = f[j] PROVE i = j
  <2>1. Moved(i, a, x, y) = Moved(j, a, x, y)
    BY <1>4, <1>6
  <2>2. /\ i \in Nat /\ (i <= a \/ a + x < i)
        /\ j \in Nat /\ (j <= a \/ a + x < j)
    BY <1>2
  <2>3. /\ i <= a => Moved(i, a, x, y) = i
        /\ ~(i <= a) => Moved(i, a, x, y) = i - x + y
        /\ j <= a => Moved(j, a, x, y) = j
        /\ ~(j <= a) => Moved(j, a, x, y) = j - x + y
    BY DEF Moved
  <2> QED BY <1>1, <2>1, <2>2, <2>3, SMTT(40)
<1>7. IsInjective(f)
  BY <1>5, <1>6 DEF IsInjective
<1>8. IsFiniteSet(Lines(t)) /\ IsFiniteSet(Lines(u))
  BY <1>1, LinesFinite
<1>9. Cardinality(Lines(t)) <= Cardinality(Lines(u))
  BY <1>5, <1>7, <1>8, FS_Injection DEF Injection
<1>10. /\ LinesOutside(t) = Cardinality(Lines(t)) /\ LinesOutside(t) \in Nat
       /\ LinesOutside(u) = Cardinality(Lines(u)) /\ LinesOutside(u) \in Nat
  BY <1>1, LinesFinite
<1> QED BY <1>9, <1>10
\* A splice of a part of a text is one of the text.
LEMMA SpliceFenced ==
  ASSUME NEW nl \in Newlines, NEW v \in Seq(Tokens), NEW w \in Seq(Tokens), NEW b \in Seq(Tokens),
         NEW a, NEW x, NEW y, Splice(v, w, a, x, y)
  PROVE  Splice(Fenced(nl, v, b), Fenced(nl, w, b), a + 2, x, y)
<1>1. PICK t : t = Fenced(nl, v, b)
  OBVIOUS
<1>2. PICK u : u = Fenced(nl, w, b)
  OBVIOUS
<1>3. t \in Seq(Tokens) /\ FencedLaid(t, nl, v, b) /\ u \in Seq(Tokens) /\ FencedLaid(u, nl, w, b)
  BY <1>1, <1>2, FencedAt, TokensAre
<1>4. /\ a \in Nat /\ x \in Nat /\ y \in Nat /\ Len(v) \in Nat /\ Len(w) \in Nat /\ Len(b) \in Nat
      /\ a + x <= Len(v) /\ Len(w) = Len(v) - x + y
      /\ \A n \in Nat : 1 <= n /\ n <= a => w[n] = v[n]
      /\ \A n \in Nat : a + x < n /\ n <= Len(v) => w[n - x + y] = v[n]
  <2>1. Len(b) \in Nat
    OBVIOUS
  <2> QED BY <2>1, SpliceAt
<1>5. Len(t) = Len(v) + Len(b) + 4 /\ Len(u) = Len(w) + Len(b) + 4
  BY <1>3 DEF FencedLaid
<1>6. ASSUME NEW i \in 1 .. a + 2 PROVE u[i] = t[i]
  <2>1. CASE i <= 2
    <3>1. i = 1 \/ i = 2
      BY <2>1
    <3> QED BY <1>3, <3>1 DEF FencedLaid
  <2>2. CASE ~(i <= 2)
    <3>1. PICK n \in Nat : i = 2 + n
      <4>1. i - 2 \in Nat /\ i = 2 + (i - 2)
        BY <1>4, <2>2
      <4> QED BY <4>1
    <3>2. n \in 1 .. Len(v) /\ n \in 1 .. Len(w) /\ 1 <= n /\ n <= a
      BY <1>4, <2>2, <3>1
    <3>3. t[2 + n] = v[n] /\ u[2 + n] = w[n] /\ w[n] = v[n]
      BY <1>3, <1>4, <3>2 DEF FencedLaid
    <3> QED BY <3>1, <3>3
  <2> QED BY <2>1, <2>2
<1>7. ASSUME NEW i \in 1 .. Len(t), a + 2 + x < i PROVE u[i - x + y] = t[i]
  <2>1. CASE i <= Len(v) + 2
    <3>1. PICK n \in Nat, k \in Nat : i = 2 + n /\ k = n - x + y
      <4>1. i - 2 \in Nat /\ i = 2 + (i - 2) /\ (i - 2) - x + y \in Nat
        BY <1>4, <1>7
      <4> QED BY <4>1
    <3>2. n \in 1 .. Len(v) /\ k \in 1 .. Len(w) /\ a + x < n /\ n <= Len(v) /\ i - x + y = 2 + k
      BY <1>4, <1>7, <2>1, <3>1
    <3>3. t[2 + n] = v[n] /\ u[2 + k] = w[k]
      BY <1>3, <3>2 DEF FencedLaid
    <3>4. w[n - x + y] = v[n]
      BY <1>4, <3>2
    <3> QED BY <3>1, <3>2, <3>3, <3>4
  <2>2. CASE i = Len(v) + 3
    <3>1. i - x + y = Len(w) + 3
      BY <1>4, <2>2
    <3> QED BY <1>3, <2>2, <3>1 DEF FencedLaid
  <2>3. CASE i = Len(v) + 4
    <3>1. i - x + y = Len(w) + 4
      BY <1>4, <2>3
    <3> QED BY <1>3, <2>3, <3>1 DEF FencedLaid
  <2>4. CASE Len(v) + 4 < i
    <3>1. PICK n \in Nat : i = Len(v) + 4 + n
      <4>1. i - (Len(v) + 4) \in Nat /\ i = Len(v) + 4 + (i - (Len(v) + 4))
        BY <1>4, <2>4
      <4> QED BY <4>1
    <3>2. n \in 1 .. Len(b) /\ i - x + y = Len(w) + 4 + n
      BY <1>4, <1>5, <1>7, <2>4, <3>1, SMTT(40)
    <3>3. t[Len(v) + 4 + n] = b[n] /\ u[Len(w) + 4 + n] = b[n]
      BY <1>3, <3>2 DEF FencedLaid
    <3> QED BY <3>1, <3>2, <3>3
  <2>5. i <= Len(v) + 2 \/ i = Len(v) + 3 \/ i = Len(v) + 4 \/ Len(v) + 4 < i
    BY <1>4
  <2> QED BY <2>1, <2>2, <2>3, <2>4, <2>5, Zenon
<1>8. a + 2 \in Nat /\ a + 2 + x <= Len(t) /\ Len(u) = Len(t) - x + y
  BY <1>4, <1>5
<1>9. Splice(t, u, a + 2, x, y)
  BY <1>3, <1>4, <1>6, <1>7, <1>8 DEF Splice
<1> QED BY <1>1, <1>2, <1>9

\* A region with another content.
LEMMA SpliceAround ==
  ASSUME NEW a \in Seq(Tokens), NEW c \in Seq(Tokens), NEW d \in Seq(Tokens), NEW z \in Seq(Tokens),
         NEW start \in Tokens, NEW end \in Tokens
  PROVE  Splice(Around(a, start, c, end, z), Around(a, start, d, end, z),
                Len(a), Len(c) + 2, Len(d) + 2)
<1>1. PICK t : t = Around(a, start, c, end, z)
  OBVIOUS
<1>2. PICK u : u = Around(a, start, d, end, z)
  OBVIOUS
<1>3. t \in Seq(Tokens) /\ Laid(t, a, start, c, end, z) /\ u \in Seq(Tokens) /\ Laid(u, a, start, d, end, z)
  BY <1>1, <1>2, AroundIs
<1>4. Len(a) \in Nat /\ Len(c) \in Nat /\ Len(d) \in Nat /\ Len(z) \in Nat
  OBVIOUS
<1>5. Len(t) = Len(a) + Len(c) + Len(z) + 2 /\ Len(u) = Len(a) + Len(d) + Len(z) + 2
  BY <1>3 DEF Laid
<1>6. \A i \in 1 .. Len(a) : u[i] = t[i]
  BY <1>3 DEF Laid
<1>7. ASSUME NEW i \in 1 .. Len(t), Len(a) + (Len(c) + 2) < i
      PROVE  u[i - (Len(c) + 2) + (Len(d) + 2)] = t[i]
  <2>1. PICK n \in Nat : i = Len(a) + Len(c) + 2 + n
    <3>1. i - (Len(a) + Len(c) + 2) \in Nat /\ i = Len(a) + Len(c) + 2 + (i - (Len(a) + Len(c) + 2))
      BY <1>4, <1>7
    <3> QED BY <3>1
  <2>2. n \in 1 .. Len(z) /\ i - (Len(c) + 2) + (Len(d) + 2) = Len(a) + Len(d) + 2 + n
    BY <1>4, <1>5, <1>7, <2>1
  <2>3. t[Len(a) + Len(c) + 2 + n] = z[n] /\ u[Len(a) + Len(d) + 2 + n] = z[n]
    BY <1>3, <2>2 DEF Laid
  <2> QED BY <2>1, <2>2, <2>3
<1>8. /\ Len(c) + 2 \in Nat /\ Len(d) + 2 \in Nat /\ Len(a) + (Len(c) + 2) <= Len(t)
      /\ Len(u) = Len(t) - (Len(c) + 2) + (Len(d) + 2)
  BY <1>4, <1>5
<1>9. Splice(t, u, Len(a), Len(c) + 2, Len(d) + 2)
  BY <1>3, <1>4, <1>6, <1>7, <1>8 DEF Splice
<1> QED BY <1>1, <1>2, <1>9

\* More tokens behind a text, or before it.
LEMMA SpliceBehind ==
  ASSUME NEW t \in Seq(Tokens), NEW e \in Seq(Tokens)
  PROVE  Splice(t, t \o e, Len(t), 0, Len(e))
<1>1. PICK u : u = t \o e
  OBVIOUS
<1>2. u \in Seq(Tokens) /\ Len(u) = Len(t) + Len(e) /\ \A i \in 1 .. Len(t) : u[i] = t[i]
  BY <1>1, ConcatAt
<1>3. Len(t) \in Nat /\ Len(e) \in Nat
  OBVIOUS
<1>4. Len(t) + 0 <= Len(t) /\ Len(u) = Len(t) - 0 + Len(e)
      /\ \A i \in 1 .. Len(t) : ~(Len(t) + 0 < i)
  BY <1>2, <1>3
<1>5. Splice(t, u, Len(t), 0, Len(e))
  BY <1>2, <1>3, <1>4 DEF Splice
<1> QED BY <1>1, <1>5

LEMMA SpliceBefore ==
  ASSUME NEW t \in Seq(Tokens), NEW h \in Seq(Tokens)
  PROVE  Splice(t, h \o t, 0, 0, Len(h))
<1>1. PICK u : u = h \o t
  OBVIOUS
<1>2. u \in Seq(Tokens) /\ Len(u) = Len(h) + Len(t) /\ \A i \in 1 .. Len(t) : u[Len(h) + i] = t[i]
  BY <1>1, ConcatAt
<1>3. Len(t) \in Nat /\ Len(h) \in Nat
  OBVIOUS
<1>4. /\ 0 + 0 <= Len(t) /\ Len(u) = Len(t) - 0 + Len(h)
      /\ \A i \in 1 .. Len(t) : i - 0 + Len(h) = Len(h) + i
      /\ \A i \in 1 .. 0 : FALSE
  BY <1>2, <1>3
<1>5. \A i \in 1 .. Len(t) : 0 + 0 < i => u[i - 0 + Len(h)] = t[i]
  BY <1>2, <1>4
<1>6. Splice(t, u, 0, 0, Len(h))
  BY <1>2, <1>3, <1>4, <1>5 DEF Splice
<1> QED BY <1>1, <1>6
\* Where a managed region holds a marker of the fields, no region of fields starts
\* before it: a new body takes no line out of one.
Ready(u) ==
  \A p, q \in Nat :
    1 <= p /\ p < q /\ q <= Len(u) /\ u[p] = "managed:start" /\ u[q] = "managed:end"
      /\ (\A n \in Nat : p < n /\ n < q => u[n] \notin {"managed:start", "managed:end"}) =>
      \/ \A n \in Nat : p < n /\ n < q => u[n] \notin {"frontmatter:start", "frontmatter:end"}
      \/ \A n \in Nat : 1 <= n /\ n < p => u[n] # "frontmatter:start"

LEMMA Untangled ==
  ASSUME NEW t \in Seq(Tokens), ~Tangled(t), NEW p \in Nat, NEW q \in Nat, 1 <= p, p < q, q <= Len(t),
         t[p] = "managed:start", t[q] = "managed:end",
         \A n \in Nat : p < n /\ n < q => t[n] \notin {"managed:start", "managed:end"},
         NEW n \in Nat, p < n, n < q
  PROVE  t[n] \notin {"frontmatter:start", "frontmatter:end"}
<1>1. p <= n /\ n \in 1 .. Len(t)
  BY LenProperties
<1>2. InRegion(t, n, "managed:start", "managed:end")
  BY <1>1, RegionAt
<1>3. DOMAIN t = 1 .. Len(t)
  OBVIOUS
<1> QED BY <1>1, <1>2, <1>3 DEF Tangled

\* The region of the fields holds no marker of the body.
LEMMA FieldsClear ==
  ASSUME NEW t \in Seq(Tokens), ~Tangled(t), NEW a \in Nat, NEW x \in Nat, a + x + 2 <= Len(t),
         t[a + 1] = "frontmatter:start", t[a + x + 2] = "frontmatter:end",
         \A i \in Nat : a + 1 < i /\ i < a + x + 2 => t[i] \notin {"frontmatter:start", "frontmatter:end"}
  PROVE  Clear(t, a, x + 2, "managed:start", "managed:end")
<1> SUFFICES ASSUME NEW n \in (a + 1) .. (a + (x + 2)) PROVE t[n] \notin {"managed:start", "managed:end"}
  BY DEF Clear
<1>1. n \in Nat /\ a + 1 <= n /\ n <= a + x + 2 /\ n \in 1 .. Len(t) /\ Len(t) \in Nat
  BY LenProperties
<1>2. CASE n = a + x + 2
  BY <1>2
<1>3. CASE n < a + x + 2
  <2>1. InRegion(t, n, "frontmatter:start", "frontmatter:end")
    <3>1. a + 1 \in Nat /\ a + x + 2 \in Nat /\ 1 <= a + 1
      OBVIOUS
    <3> QED BY <1>1, <1>3, <3>1, RegionAt
  <2>2. DOMAIN t = 1 .. Len(t)
    OBVIOUS
  <2> QED BY <1>1, <2>1, <2>2 DEF Tangled
<1> QED BY <1>1, <1>2, <1>3

LEMMA ReadyAfter ==
  ASSUME NEW t, NEW u, NEW a, NEW x, NEW y, Splice(t, u, a, x, y), ~Tangled(t),
         Clear(u, a, y, "managed:start", "managed:end"),
         \/ \A n \in Nat : 1 <= n /\ n <= a => t[n] # "frontmatter:start"
         \/ /\ 1 <= x /\ t[a + 1] = "frontmatter:start"
            /\ Clear(t, a, x, "managed:start", "managed:end")
  PROVE  Ready(u)
<1>1. /\ t \in Seq(Tokens) /\ u \in Seq(Tokens) /\ a \in Nat /\ x \in Nat /\ y \in Nat
      /\ Len(t) \in Nat /\ Len(u) \in Nat /\ a + x <= Len(t) /\ Len(u) = Len(t) - x + y
      /\ \A n \in Nat : 1 <= n /\ n <= a => u[n] = t[n]
      /\ \A n \in Nat : a + y < n /\ n <= Len(u) => t[n - y + x] = u[n]
      /\ \A n \in Nat : a + x < n /\ n <= Len(t) => u[n - x + y] = t[n]
  BY SpliceAt
<1> SUFFICES ASSUME NEW p \in Nat, NEW q \in Nat, 1 <= p, p < q, q <= Len(u),
                    u[p] = "managed:start", u[q] = "managed:end",
                    \A n \in Nat : p < n /\ n < q => u[n] \notin {"managed:start", "managed:end"}
             PROVE  \/ \A n \in Nat : p < n /\ n < q => u[n] \notin {"frontmatter:start", "frontmatter:end"}
                    \/ \A n \in Nat : 1 <= n /\ n < p => u[n] # "frontmatter:start"
  BY Zenon DEF Ready
<1>2. p <= a \/ a + y < p
  <2>1. p \notin (a + 1) .. (a + y)
    BY DEF Clear
  <2> QED BY <1>1, <2>1
<1>3. q <= a \/ a + y < q
  <2>1. q \notin (a + 1) .. (a + y)
    BY DEF Clear
  <2> QED BY <1>1, <2>1
<1>4. CASE q <= a
  <2>1. t[p] = "managed:start" /\ t[q] = "managed:end" /\ q <= Len(t)
    BY <1>1, <1>4, SMTT(40)
  <2>2. \A n \in Nat : p < n /\ n < q => u[n] = t[n]
    BY <1>1, <1>4
  <2>3. \A n \in Nat : p < n /\ n < q => t[n] \notin {"managed:start", "managed:end"}
    BY <2>2
  <2>4. ASSUME NEW n \in Nat, p < n, n < q PROVE t[n] \notin {"frontmatter:start", "frontmatter:end"}
    BY <1>1, <2>1, <2>3, <2>4, Untangled
  <2> QED BY <2>2, <2>4
<1>5. CASE a + y < p
  <2>1. PICK j \in Nat, k \in Nat : j = p - y + x /\ k = q - y + x
    <3>1. p - y + x \in Nat /\ q - y + x \in Nat
      BY <1>1, <1>5
    <3> QED BY <3>1
  <2>2. 1 <= j /\ j < k /\ k <= Len(t) /\ a + x < j
    BY <1>1, <1>5, <2>1
  <2>3. t[j] = "managed:start" /\ t[k] = "managed:end"
    <3>1. p <= Len(u) /\ a + y < q
      BY <1>1, <1>5
    <3>2. t[p - y + x] = u[p]
      BY <1>1, <1>5, <3>1
    <3>3. t[q - y + x] = u[q]
      BY <1>1, <3>1
    <3> QED BY <2>1, <3>2, <3>3
  <2>4. ASSUME NEW n \in Nat, j < n, n < k PROVE t[n] \notin {"managed:start", "managed:end"}
    <3>1. PICK l \in Nat : l = n - x + y
      <4>1. n - x + y \in Nat
        BY <1>1, <2>2, <2>4
      <4> QED BY <4>1
    <3>2. p < l /\ l < q /\ a + x < n /\ n <= Len(t)
      BY <1>1, <1>5, <2>1, <2>2, <2>4, <3>1, SMTT(40)
    <3>3. u[n - x + y] = t[n]
      BY <1>1, <3>2
    <3> QED BY <3>1, <3>2, <3>3
  <2>5. ASSUME NEW n \in Nat, p < n, n < q PROVE u[n] \notin {"frontmatter:start", "frontmatter:end"}
    <3>1. PICK l \in Nat : l = n - y + x
      <4>1. n - y + x \in Nat
        BY <1>1, <1>5, <2>5
      <4> QED BY <4>1
    <3>2. j < l /\ l < k /\ a + y < n /\ n <= Len(u)
      BY <1>1, <1>5, <2>1, <2>5, <3>1
    <3>3. t[n - y + x] = u[n]
      BY <1>1, <3>2
    <3>4. t[l] \notin {"frontmatter:start", "frontmatter:end"}
      BY <1>1, <2>2, <2>3, <2>4, <3>2, Untangled
    <3> QED BY <3>1, <3>3, <3>4
  <2> QED BY <2>5
<1>6. CASE p <= a /\ a + y < q
  <2>1. CASE \A n \in Nat : 1 <= n /\ n <= a => t[n] # "frontmatter:start"
    <3>1. \A n \in Nat : 1 <= n /\ n < p => n <= a /\ u[n] = t[n]
      BY <1>1, <1>6
    <3> QED BY <2>1, <3>1
  <2>2. CASE /\ 1 <= x /\ t[a + 1] = "frontmatter:start"
             /\ Clear(t, a, x, "managed:start", "managed:end")
    <3>1. PICK k \in Nat : k = q - y + x
      <4>1. q - y + x \in Nat
        BY <1>1, <1>6
      <4> QED BY <4>1
    <3>2. p < k /\ k <= Len(t) /\ p < a + 1 /\ a + 1 < k /\ a + 1 \in Nat
      BY <1>1, <1>6, <2>2, <3>1
    <3>3. t[p] = "managed:start" /\ t[k] = "managed:end"
      <4>1. t[q - y + x] = u[q]
        BY <1>1, <1>6
      <4> QED BY <1>1, <1>6, <3>1, <4>1
    <3>4. ASSUME NEW n \in Nat, p < n, n < k PROVE t[n] \notin {"managed:start", "managed:end"}
      <4>1. CASE n <= a
        <5>1. n < q /\ u[n] = t[n]
          BY <1>1, <1>6, <3>4, <4>1
        <5> QED BY <3>4, <5>1
      <4>2. CASE a < n /\ n <= a + x
        <5>1. n \in (a + 1) .. (a + x)
          BY <1>1, <4>2
        <5> QED BY <2>2, <5>1 DEF Clear
      <4>3. CASE a + x < n
        <5>1. PICK l \in Nat : l = n - x + y
          <6>1. n - x + y \in Nat
            BY <1>1, <4>3
          <6> QED BY <6>1
        <5>2. p < l /\ l < q /\ n <= Len(t)
          BY <1>1, <1>6, <3>1, <3>2, <3>4, <4>3, <5>1
        <5>3. u[n - x + y] = t[n]
          BY <1>1, <4>3, <5>2
        <5> QED BY <5>1, <5>2, <5>3
      <4> QED BY <1>1, <4>1, <4>2, <4>3
    <3>5. t[a + 1] \notin {"frontmatter:start", "frontmatter:end"}
      BY <1>1, <3>2, <3>3, <3>4, Untangled
    <3> QED BY <2>2, <3>5
  <2> QED BY <2>1, <2>2
<1>7. q <= a \/ a + y < p \/ (p <= a /\ a + y < q)
  BY <1>2, <1>3
<1> QED BY <1>4, <1>5, <1>6, <1>7
\* Of the n tokens behind the first a, two are markers: those of the fields.
FieldsIn(t, a, n) ==
  \E p \in (a + 1) .. (a + n), q \in (a + 1) .. (a + n) :
    /\ p < q /\ t[p] = "frontmatter:start" /\ t[q] = "frontmatter:end"
    /\ \A i \in (a + 1) .. (a + n) : i # p /\ i # q => t[i] \notin Markers

\* What the fields replace, or are put between: a region of fields, or nothing.
FieldsWere(t, a, n) ==
  \/ n = 0 /\ \A i \in Nat : 1 <= i /\ i <= a => t[i] # "frontmatter:start"
  \/ /\ 2 <= n /\ t[a + 1] = "frontmatter:start" /\ t[a + n] = "frontmatter:end"
     /\ \A i \in Nat : a + 1 < i /\ i < a + n => t[i] \notin {"frontmatter:start", "frontmatter:end"}

LEMMA FieldsStep ==
  ASSUME NEW t, NEW u, NEW a, NEW x, NEW y, Splice(t, u, a, x, y), ~Tangled(t),
         FieldsIn(u, a, y), FieldsWere(t, a, x)
  PROVE  LinesOutside(u) >= LinesOutside(t) /\ Ready(u)
<1>1. /\ t \in Seq(Tokens) /\ u \in Seq(Tokens) /\ a \in Nat /\ x \in Nat /\ y \in Nat
      /\ Len(t) \in Nat /\ a + x <= Len(t)
  BY SpliceAt
<1>2. PICK p \in (a + 1) .. (a + y), q \in (a + 1) .. (a + y) :
        /\ p < q /\ u[p] = "frontmatter:start" /\ u[q] = "frontmatter:end"
        /\ \A i \in (a + 1) .. (a + y) : i # p /\ i # q => u[i] \notin Markers
  BY DEF FieldsIn
<1>3. Clear(u, a, y, "managed:start", "managed:end")
  <2> SUFFICES ASSUME NEW i \in (a + 1) .. (a + y) PROVE u[i] \notin {"managed:start", "managed:end"}
    BY DEF Clear
  <2>1. CASE i = p \/ i = q
    BY <1>2, <2>1
  <2>2. CASE i # p /\ i # q
    BY <1>2, <2>2 DEF Markers
  <2> QED BY <2>1, <2>2
<1>4. Closed(u, a, y, "frontmatter:start", "frontmatter:end")
  <2>1. ASSUME NEW i \in (a + 1) .. (a + y), i < p \/ q < i
        PROVE  u[i] \notin {"frontmatter:start", "frontmatter:end"}
    <3>1. i # p /\ i # q
      BY <1>1, <1>2, <2>1
    <3> QED BY <1>2, <3>1 DEF Markers
  <2> QED BY <1>2, <2>1 DEF Closed
<1>5. CASE x = 0 /\ \A i \in Nat : 1 <= i /\ i <= a => t[i] # "frontmatter:start"
  <2>1. \A i \in (a + 1) .. (a + x) : FALSE
    BY <1>1, <1>5
  <2>2. Clear(t, a, x, "managed:start", "managed:end")
    BY <2>1 DEF Clear
  <2>3. LinesOutside(u) >= LinesOutside(t)
    BY <1>3, <1>4, <2>1, <2>2, LinesStay DEF Apart
  <2>4. Ready(u)
    BY <1>3, <1>5, ReadyAfter
  <2> QED BY <2>3, <2>4
<1>6. CASE /\ 2 <= x /\ t[a + 1] = "frontmatter:start" /\ t[a + x] = "frontmatter:end"
           /\ \A i \in Nat : a + 1 < i /\ i < a + x => t[i] \notin {"frontmatter:start", "frontmatter:end"}
  <2>1. PICK n \in Nat : x = n + 2
    <3>1. x - 2 \in Nat /\ x = (x - 2) + 2
      BY <1>1, <1>6
    <3> QED BY <3>1
  <2>2. a + n + 2 = a + x /\ a + n + 2 <= Len(t) /\ n + 2 = x
    BY <1>1, <2>1
  <2>3. t[a + n + 2] = "frontmatter:end"
        /\ \A i \in Nat : a + 1 < i /\ i < a + n + 2 => t[i] \notin {"frontmatter:start", "frontmatter:end"}
    BY <1>6, <2>2
  <2>4. Clear(t, a, n + 2, "managed:start", "managed:end")
    BY <1>1, <1>6, <2>2, <2>3, FieldsClear
  <2>5. Clear(t, a, x, "managed:start", "managed:end")
    BY <2>2, <2>4
  <2>6. ASSUME NEW i \in (a + 1) .. (a + x), t[i] = UserLine PROVE Inside(t, i)
    <3>1. i # a + x
      BY <1>6, <2>6 DEF UserLine
    <3>2. i \in Nat /\ a + 1 \in Nat /\ a + x \in Nat /\ 1 <= a + 1 /\ a + 1 <= i /\ i < a + x /\ a + x <= Len(t)
      BY <1>1, <2>6, <3>1
    <3>3. InRegion(t, i, "frontmatter:start", "frontmatter:end")
      BY <1>1, <1>6, <3>2, RegionAt
    <3> QED BY <3>3 DEF Inside
  <2>7. LinesOutside(u) >= LinesOutside(t)
    BY <1>3, <1>4, <2>5, <2>6, LinesStay DEF Apart
  <2>8. 1 <= x
    BY <1>1, <1>6
  <2>9. Ready(u)
    BY <1>3, <1>6, <2>5, <2>8, ReadyAfter
  <2> QED BY <2>7, <2>9
<1> QED BY <1>5, <1>6 DEF FieldsWere

LEMMA FieldsFenced ==
  ASSUME NEW nl \in Newlines, NEW v \in Seq(Tokens), NEW b \in Seq(Tokens), NEW a \in Nat, NEW n \in Nat,
         a + n <= Len(v)
  PROVE  /\ FieldsIn(v, a, n) => FieldsIn(Fenced(nl, v, b), a + 2, n)
         /\ FieldsWere(v, a, n) => FieldsWere(Fenced(nl, v, b), a + 2, n)
<1>1. PICK t : t = Fenced(nl, v, b)
  OBVIOUS
<1>2. FencedLaid(t, nl, v, b)
  BY <1>1, FencedAt, TokensAre
<1>3. Len(v) \in Nat
  OBVIOUS
<1>4. t[1] = "---" /\ t[2] = nl /\ \A i \in 1 .. Len(v) : t[2 + i] = v[i]
  BY <1>2 DEF FencedLaid
<1>5. ASSUME NEW i \in Nat, 2 < i, i <= a + 2 + n
      PROVE  i - 2 \in Nat /\ 1 <= i - 2 /\ i - 2 <= Len(v) /\ t[i] = v[i - 2]
  <2>1. i - 2 \in 1 .. Len(v) /\ 2 + (i - 2) = i
    BY <1>3, <1>5
  <2> QED BY <1>4, <2>1
<1>6. ASSUME FieldsIn(v, a, n) PROVE FieldsIn(t, a + 2, n)
  <2>1. PICK p \in (a + 1) .. (a + n), q \in (a + 1) .. (a + n) :
          /\ p < q /\ v[p] = "frontmatter:start" /\ v[q] = "frontmatter:end"
          /\ \A i \in (a + 1) .. (a + n) : i # p /\ i # q => v[i] \notin Markers
    BY <1>6 DEF FieldsIn
  <2>2. PICK j \in Nat, k \in Nat : j = p + 2 /\ k = q + 2
    OBVIOUS
  <2>3. j \in (a + 2 + 1) .. (a + 2 + n) /\ k \in (a + 2 + 1) .. (a + 2 + n) /\ j < k
    BY <2>1, <2>2
  <2>4. t[j] = "frontmatter:start" /\ t[k] = "frontmatter:end"
    <3>1. 2 < j /\ j <= a + 2 + n /\ 2 < k /\ k <= a + 2 + n /\ j - 2 = p /\ k - 2 = q
      BY <2>2, <2>3
    <3> QED BY <1>5, <2>1, <3>1
  <2>5. ASSUME NEW i \in (a + 2 + 1) .. (a + 2 + n), i # j, i # k PROVE t[i] \notin Markers
    <3>1. i \in Nat /\ 2 < i /\ i <= a + 2 + n
      OBVIOUS
    <3>2. i - 2 \in (a + 1) .. (a + n) /\ i - 2 # p /\ i - 2 # q
      BY <2>2, <2>5
    <3>3. v[i - 2] \notin Markers
      BY <2>1, <3>2
    <3> QED BY <1>5, <3>1, <3>3
  <2> QED BY <2>3, <2>4, <2>5 DEF FieldsIn
<1>7. ASSUME FieldsWere(v, a, n) PROVE FieldsWere(t, a + 2, n)
  <2>1. CASE n = 0 /\ \A i \in Nat : 1 <= i /\ i <= a => v[i] # "frontmatter:start"
    <3>1. ASSUME NEW i \in Nat, 1 <= i, i <= a + 2 PROVE t[i] # "frontmatter:start"
      <4>1. CASE i = 1
        BY <1>4, <4>1
      <4>2. CASE i = 2
        BY <1>4, <4>2 DEF Newlines
      <4>3. CASE 2 < i
        <5>1. i <= a + 2 + n /\ i - 2 \in Nat /\ 1 <= i - 2 /\ i - 2 <= a
          BY <2>1, <3>1, <4>3
        <5>2. v[i - 2] # "frontmatter:start"
          BY <2>1, <5>1
        <5> QED BY <1>5, <4>3, <5>1, <5>2
      <4> QED BY <3>1, <4>1, <4>2, <4>3
    <3> QED BY <2>1, <3>1 DEF FieldsWere
  <2>2. CASE /\ 2 <= n /\ v[a + 1] = "frontmatter:start" /\ v[a + n] = "frontmatter:end"
             /\ \A i \in Nat : a + 1 < i /\ i < a + n => v[i] \notin {"frontmatter:start", "frontmatter:end"}
    <3>1. t[a + 2 + 1] = "frontmatter:start"
      <4>1. a + 2 + 1 \in Nat /\ 2 < a + 2 + 1 /\ a + 2 + 1 <= a + 2 + n /\ a + 2 + 1 - 2 = a + 1
        BY <2>2
      <4> QED BY <1>5, <2>2, <4>1
    <3>2. t[a + 2 + n] = "frontmatter:end"
      <4>1. a + 2 + n \in Nat /\ 2 < a + 2 + n /\ a + 2 + n - 2 = a + n
        BY <2>2
      <4> QED BY <1>5, <2>2, <4>1
    <3>3. ASSUME NEW i \in Nat, a + 2 + 1 < i, i < a + 2 + n
          PROVE  t[i] \notin {"frontmatter:start", "frontmatter:end"}
      <4>1. 2 < i /\ i <= a + 2 + n /\ i - 2 \in Nat /\ a + 1 < i - 2 /\ i - 2 < a + n
        BY <3>3
      <4>2. v[i - 2] \notin {"frontmatter:start", "frontmatter:end"}
        BY <2>2, <4>1
      <4> QED BY <1>5, <4>1, <4>2
    <3> QED BY <2>2, <3>1, <3>2, <3>3 DEF FieldsWere
  <2> QED BY <1>7, <2>1, <2>2 DEF FieldsWere
<1> QED BY <1>1, <1>6, <1>7
LEMMA FieldsAround ==
  ASSUME NEW a \in Seq(Tokens), NEW z \in Seq(Tokens), NEW f \in Fields, NEW nl \in Newlines,
         NEW u, u = Around(a, "frontmatter:start", Lined(<<f, nl>>, nl), "frontmatter:end", z)
  PROVE  /\ Len(u) = Len(a) + Len(z) + 5 /\ FieldsIn(u, Len(a), 5)
         /\ z = One(nl) => FieldsIn(u, Len(a), 6)
<1>1. PICK l \in Seq(Tokens) : /\ l = Lined(<<f, nl>>, nl) /\ Len(l) = 3
                               /\ l[1] = nl /\ l[2] = f /\ l[3] = nl
  BY FieldsLined
<1>2. "frontmatter:start" \in Tokens /\ "frontmatter:end" \in Tokens
  BY TokensAre DEF MarkersOf
<1>3. Laid(u, a, "frontmatter:start", l, "frontmatter:end", z)
  BY <1>1, <1>2, AroundIs
<1>4. PICK n \in Nat : n = Len(a)
  OBVIOUS
<1>5. /\ u[n + 1] = "frontmatter:start" /\ u[n + 2] = nl /\ u[n + 3] = f /\ u[n + 4] = nl
      /\ u[n + 5] = "frontmatter:end" /\ Len(u) = n + Len(z) + 5
  <2>1. n + 1 + 1 = n + 2 /\ n + 1 + 2 = n + 3 /\ n + 1 + 3 = n + 4 /\ n + 3 + 2 = n + 5
        /\ 1 \in 1 .. 3 /\ 2 \in 1 .. 3 /\ 3 \in 1 .. 3
    OBVIOUS
  <2>2. /\ u[n + 1] = "frontmatter:start" /\ \A i \in 1 .. 3 : u[n + 1 + i] = l[i]
        /\ u[n + 3 + 2] = "frontmatter:end" /\ Len(u) = n + 3 + Len(z) + 2
    BY <1>1, <1>3, <1>4 DEF Laid
  <2>3. Len(u) = n + Len(z) + 5
    <3>1. Len(z) \in Nat
      OBVIOUS
    <3> QED BY <2>2, <3>1
  <2> QED BY <1>1, <2>1, <2>2, <2>3
<1>6. nl \notin Markers /\ f \notin Markers
  BY TokensAre DEF Newlines, Markers
<1>7. FieldsIn(u, n, 5)
  <2>1. n + 1 \in (n + 1) .. (n + 5) /\ n + 5 \in (n + 1) .. (n + 5) /\ n + 1 < n + 5
    OBVIOUS
  <2>2. ASSUME NEW i \in (n + 1) .. (n + 5), i # n + 1, i # n + 5 PROVE u[i] \notin Markers
    <3>1. i = n + 2 \/ i = n + 3 \/ i = n + 4
      BY <2>2
    <3> QED BY <1>5, <1>6, <3>1
  <2> QED BY <1>5, <2>1, <2>2 DEF FieldsIn
<1>8. ASSUME z = One(nl) PROVE FieldsIn(u, n, 6)
  <2>1. n + 1 \in (n + 1) .. (n + 6) /\ n + 5 \in (n + 1) .. (n + 6) /\ n + 1 < n + 5
    OBVIOUS
  <2>2. u[n + 6] = nl
    <3>1. 1 \in 1 .. Len(z) /\ z[1] = nl
      BY <1>8 DEF One
    <3>2. n + 3 + 2 + 1 = n + 6
      OBVIOUS
    <3>3. u[n + 3 + 2 + 1] = z[1]
      BY <1>1, <1>3, <1>4, <3>1, ZenonT(60) DEF Laid
    <3> QED BY <3>1, <3>2, <3>3
  <2>3. ASSUME NEW i \in (n + 1) .. (n + 6), i # n + 1, i # n + 5 PROVE u[i] \notin Markers
    <3>1. i = n + 2 \/ i = n + 3 \/ i = n + 4 \/ i = n + 6
      BY <2>3
    <3> QED BY <1>5, <1>6, <2>2, <3>1
  <2> QED BY <1>5, <2>1, <2>3 DEF FieldsIn
<1> QED BY <1>4, <1>5, <1>7, <1>8

\* The fields are written without taking a line of the user's away.
LEMMA FieldsKept ==
  ASSUME NEW t \in Seq(Tokens), ~Tangled(t), NEW f \in Fields, NEW takeover \in BOOLEAN, NEW g,
         g = replace_frontmatter_region(t, f, takeover), g # Conflict
  PROVE  g \in Seq(Tokens) /\ LinesOutside(g) >= LinesOutside(t) /\ Ready(g)
<1>0. g \in Seq(Tokens)
  <2>1. PICK nl \in Newlines, v \in Seq(Tokens), b \in Seq(Tokens) : FrontBody(g, nl, v, b)
    BY FieldsReplaced
  <2> QED BY <2>1, FrontTokens
<1>1. PICK nl \in Newlines : nl = detect_newline(t)
  BY NewlineIs
<1>2. /\ nl \in Tokens /\ "---" \in Tokens /\ nl \notin Markers /\ f \notin Markers /\ f \in Tokens
      /\ MarkersOf(Tokens, "frontmatter:start", "frontmatter:end")
      /\ "frontmatter:start" \in Tokens /\ "frontmatter:end" \in Tokens
  BY TokensAre DEF Newlines, Markers, MarkersOf
<1> SUFFICES \E a, x, y : Splice(t, g, a, x, y) /\ FieldsIn(g, a, y) /\ FieldsWere(t, a, x)
  BY <1>0, FieldsStep
<1>3. CASE ~HasFrontmatter(t)
  <2>1. PICK h : h = <<"---", nl, "frontmatter:start", nl, f, nl, "frontmatter:end", nl, "---", nl>>
    OBVIOUS
  <2>2. h \in Seq(Tokens) /\ Len(h) = 10
    BY <1>2, <2>1
  <2>3. g = h \o t
    BY <1>1, <1>3, <2>1, Zenon DEF replace_frontmatter_region
  <2>4. Splice(t, g, 0, 0, 10)
    BY <2>2, <2>3, SpliceBefore
  <2>5. \A i \in 1 .. 10 : g[i] = h[i]
    <3>1. \A i \in 1 .. Len(h) : (h \o t)[i] = h[i]
      <4>1. h \in Seq(Tokens)
        BY <2>2
      <4> QED BY <4>1, ConcatAt
    <3> QED BY <2>2, <2>3, <3>1
  <2>6. /\ h[1] = "---" /\ h[2] = nl /\ h[3] = "frontmatter:start" /\ h[4] = nl /\ h[5] = f /\ h[6] = nl
        /\ h[7] = "frontmatter:end" /\ h[8] = nl /\ h[9] = "---" /\ h[10] = nl
    BY <2>1
  <2>7. ASSUME NEW i \in (0 + 1) .. (0 + 10), i # 3, i # 7 PROVE g[i] \notin Markers
    <3>1. i \in 1 .. 10 /\ i \in {1, 2, 4, 5, 6, 8, 9, 10}
      BY <2>7
    <3>2. h[i] \in {"---", nl, f}
      BY <2>6, <3>1
    <3>3. "---" \notin Markers
      BY DEF Markers
    <3> QED BY <1>2, <2>5, <3>1, <3>2, <3>3
  <2>8. 3 \in (0 + 1) .. (0 + 10) /\ 7 \in (0 + 1) .. (0 + 10) /\ 3 < 7 /\ 3 \in 1 .. 10 /\ 7 \in 1 .. 10
    OBVIOUS
  <2>9. FieldsIn(g, 0, 10)
    BY <2>5, <2>6, <2>7, <2>8 DEF FieldsIn
  <2>10. FieldsWere(t, 0, 0)
    <3>1. \A i \in Nat : ~(1 <= i /\ i <= 0)
      OBVIOUS
    <3> QED BY <3>1 DEF FieldsWere
  <2> QED BY <2>4, <2>9, <2>10
<1>4. CASE HasFrontmatter(t)
  <2>1. PICK v \in Seq(Tokens), b \in Seq(Tokens) : FrontBody(t, nl, v, b)
    BY <1>1, <1>2, <1>4, FrontOf, TokensAre
  <2>2. detect_newline(v) = nl /\ Last(v) = nl /\ v # <<>>
    BY <2>1, FrontTokens
  <2>3. t = Fenced(nl, v, b)
    BY <2>1 DEF FrontBody
  <2>4. PICK c \in Seq(Tokens) : c = <<f, nl>>
    BY FieldsLined
  <2>5. PICK l \in Seq(Tokens) : l = Lined(c, nl) /\ Len(l) = 3
    BY <2>4, FieldsLined
  <2>6. PICK u : u = replace_region(v, c, "frontmatter:start", "frontmatter:end", takeover)
    OBVIOUS
  <2>7. u # Conflict
    BY <2>1, <2>4, <2>6, FieldsWritten
  <2>8. ASSUME u \in Seq(Tokens), EndsIn(u, nl), NEW a \in Nat, NEW x \in Nat, NEW y \in Nat,
               Splice(v, u, a, x, y), FieldsIn(u, a, y), FieldsWere(v, a, x)
        PROVE  \E n, m, k : Splice(t, g, n, m, k) /\ FieldsIn(g, n, k) /\ FieldsWere(t, n, m)
    <3>1. g = Fenced(nl, u, b)
      <4>1. Last(u) = nl
        BY <2>8 DEF EndsIn, Last
      <4> QED BY <2>1, <2>4, <2>6, <2>7, <2>8, <4>1, FieldsWritten
    <3>2. Splice(t, g, a + 2, x, y)
      BY <2>3, <2>8, <3>1, SpliceFenced
    <3>3. a + x <= Len(v) /\ a + y <= Len(u)
      <4>1. a + x <= Len(v) /\ Len(u) = Len(v) - x + y /\ Len(v) \in Nat
        <5>1. Splice(v, u, a, x, y)
          BY <2>8
        <5>2. a + x <= Len(v) /\ Len(u) = Len(v) - x + y
          BY <5>1 DEF Splice
        <5>3. Len(v) \in Nat
          OBVIOUS
        <5> QED BY <5>2, <5>3
      <4> QED BY <2>8, <4>1
    <3>4. FieldsIn(g, a + 2, y)
      BY <2>8, <3>1, <3>3, FieldsFenced
    <3>5. FieldsWere(t, a + 2, x)
      BY <2>3, <2>8, <3>3, FieldsFenced
    <3> QED BY <3>2, <3>4, <3>5
  <2>9. CASE \E a \in Seq(Tokens), old \in Seq(Tokens), z \in Seq(Tokens) :
               /\ v = Around(a, "frontmatter:start", old, "frontmatter:end", z)
               /\ Free(a, "frontmatter:start", "frontmatter:end")
               /\ Free(old, "frontmatter:start", "frontmatter:end")
               /\ Free(z, "frontmatter:start", "frontmatter:end")
    <3>1. PICK a \in Seq(Tokens), old \in Seq(Tokens), z \in Seq(Tokens) :
               /\ v = Around(a, "frontmatter:start", old, "frontmatter:end", z)
               /\ Free(a, "frontmatter:start", "frontmatter:end")
               /\ Free(old, "frontmatter:start", "frontmatter:end")
               /\ Free(z, "frontmatter:start", "frontmatter:end")
      BY <2>9
    <3>2. replace_region(Around(a, "frontmatter:start", old, "frontmatter:end", z), c,
                         "frontmatter:start", "frontmatter:end", takeover)
            = Around(a, "frontmatter:start",
                     Lined(c, detect_newline(Around(a, "frontmatter:start", old, "frontmatter:end", z))),
                     "frontmatter:end", z)
      BY <1>2, <3>1, RegionAgain
    <3>3. u = Around(a, "frontmatter:start", l, "frontmatter:end", z)
      BY <2>2, <2>5, <2>6, <3>1, <3>2, Zenon
    <3>4. u \in Seq(Tokens)
      BY <1>2, <3>3, AroundIs
    <3>5. EndsIn(u, nl)
      <4>1. {"frontmatter:start", "frontmatter:end"} \cap {nl, "---"} = {}
        BY <1>2 DEF Markers
      <4>2. EndsIn(v, nl)
        BY <2>1 DEF FrontBody
      <4> QED BY <1>2, <3>1, <3>3, <4>1, <4>2, OpenAround
    <3>6. PICK n \in Nat, m \in Nat : n = Len(a) /\ m = Len(old)
      OBVIOUS
    <3>7. Splice(v, u, n, m + 2, 5)
      <4>1. Splice(v, u, Len(a), Len(old) + 2, Len(l) + 2)
        BY <1>2, <3>1, <3>3, SpliceAround
      <4>2. Len(l) + 2 = 5
        BY <2>5
      <4> QED BY <3>6, <4>1, <4>2
    <3>8. FieldsIn(u, n, 5)
      BY <2>4, <2>5, <3>3, <3>6, FieldsAround
    <3>9. FieldsWere(v, n, m + 2)
      <4>1. Laid(v, a, "frontmatter:start", old, "frontmatter:end", z)
        BY <1>2, <3>1, AroundIs
      <4>2. /\ v[n + 1] = "frontmatter:start" /\ v[n + m + 2] = "frontmatter:end"
            /\ \A i \in 1 .. m : v[n + 1 + i] = old[i]
        BY <3>6, <4>1 DEF Laid
      <4>3. ASSUME NEW i \in Nat, n + 1 < i, i < n + (m + 2)
            PROVE  v[i] \notin {"frontmatter:start", "frontmatter:end"}
        <5>1. i - (n + 1) \in 1 .. m /\ n + 1 + (i - (n + 1)) = i
          BY <4>3
        <5>2. old[i - (n + 1)] \in Range(old)
          <6>1. DOMAIN old = 1 .. m
            BY <3>6
          <6> QED BY <5>1, <6>1 DEF Range
        <5> QED BY <3>1, <4>2, <5>1, <5>2 DEF Free
      <4>4. 2 <= m + 2 /\ n + (m + 2) = n + m + 2
        OBVIOUS
      <4> QED BY <4>2, <4>3, <4>4 DEF FieldsWere
    <3>10. m + 2 \in Nat /\ 5 \in Nat
      OBVIOUS
    <3> QED BY <2>8, <3>4, <3>5, <3>7, <3>8, <3>9, <3>10
  <2>10. CASE /\ Free(v, "frontmatter:start", "frontmatter:end")
              /\ u = Around(v \o Separator(v), "frontmatter:start", Lined(c, detect_newline(v)),
                            "frontmatter:end", One(detect_newline(v)))
    <3>1. v \o Separator(v) = v
      <4>1. Separator(v) = <<>>
        BY <2>2 DEF Separator
      <4>2. v \o <<>> = v
        OBVIOUS
      <4> QED BY <4>1, <4>2
    <3>2. PICK o \in Seq(Tokens) : o = One(nl) /\ Len(o) = 1
      BY <1>2, OneIs
    <3>3. u = Around(v, "frontmatter:start", l, "frontmatter:end", o)
      BY <2>2, <2>5, <2>10, <3>1, <3>2, Zenon
    <3>4. u \in Seq(Tokens) /\ Laid(u, v, "frontmatter:start", l, "frontmatter:end", o)
      BY <1>2, <3>3, AroundIs
    <3>5. EndsIn(u, nl)
      <4>1. {"frontmatter:start", "frontmatter:end"} \cap {nl, "---"} = {}
        BY <1>2 DEF Markers
      <4>2. EndsIn(o, nl)
        BY <1>2, <3>2, OneEnds, Zenon
      <4> QED BY <1>2, <3>3, <4>1, <4>2, OpenAround
    <3>6. PICK n \in Nat : n = Len(v)
      OBVIOUS
    <3>7. Len(u) = n + 6 /\ FieldsIn(u, n, 6)
      <4>1. u = Around(v, "frontmatter:start", Lined(<<f, nl>>, nl), "frontmatter:end", o)
        BY <2>4, <2>5, <3>3, Zenon
      <4>2. Len(u) = Len(v) + Len(o) + 5
        BY <4>1, FieldsAround
      <4>3. FieldsIn(u, Len(v), 6)
        BY <3>2, <4>1, FieldsAround
      <4>4. Len(v) \in Nat
        OBVIOUS
      <4> QED BY <3>2, <3>6, <4>2, <4>3, <4>4
    <3>8. Splice(v, u, n, 0, 6)
      <4>1. \A i \in 1 .. n : u[i] = v[i]
        BY <3>4, <3>6 DEF Laid
      <4>2. n + 0 <= Len(v) /\ Len(u) = Len(v) - 0 + 6 /\ \A i \in 1 .. Len(v) : ~(n + 0 < i)
        BY <3>6, <3>7
      <4> QED BY <3>4, <4>1, <4>2 DEF Splice
    <3>9. FieldsWere(v, n, 0)
      <4>1. ASSUME NEW i \in Nat, 1 <= i, i <= n PROVE v[i] # "frontmatter:start"
        <5>1. v[i] \in Range(v)
          BY <3>6, <4>1, SMTT(40) DEF Range
        <5> QED BY <2>10, <5>1 DEF Free
      <4> QED BY <4>1 DEF FieldsWere
    <3> QED BY <2>8, <3>4, <3>5, <3>7, <3>8, <3>9
  <2> QED BY <1>2, <2>6, <2>7, <2>9, <2>10, ReplacedIs
<1> QED BY <1>3, <1>4
\* A new body is written without taking a line of the user's away.
LEMMA BodyKept ==
  ASSUME NEW t \in Seq(Tokens), Ready(t), NEW c \in Seq(Tokens),
         Free(c, "frontmatter:start", "frontmatter:end"), NEW takeover \in BOOLEAN, NEW g,
         g = replace_managed_body(t, c, takeover), g # Conflict
  PROVE  LinesOutside(g) >= LinesOutside(t)
<1>1. PICK nl \in Newlines : nl = detect_newline(t)
  BY NewlineIs
<1>2. /\ MarkersOf(Tokens, "managed:start", "managed:end") /\ nl \in Tokens /\ nl \notin Markers
      /\ "managed:start" \in Tokens /\ "managed:end" \in Tokens /\ Newlines \subseteq Tokens
  BY TokensAre DEF MarkersOf, Newlines, Markers
<1>3. PICK l \in Seq(Tokens) : l = Lined(c, nl)
  BY <1>2, LinedIs
<1>4. \A i \in 1 .. Len(l) : l[i] \notin {"frontmatter:start", "frontmatter:end"}
  <2>1. Range(l) = Range(NewContent(c, nl)) \cup {nl}
    BY <1>2, <1>3, LinedIs
  <2>2. Range(NewContent(c, nl)) \subseteq (Range(c) \ Newlines) \cup {nl}
    BY <1>2, NewContentIs
  <2>3. {"frontmatter:start", "frontmatter:end"} \cap Range(l) = {}
    BY <1>2, <2>1, <2>2 DEF Free, Markers
  <2>4. \A i \in 1 .. Len(l) : l[i] \in Range(l)
    BY DEF Range
  <2> QED BY <2>3, <2>4
<1>5. g = replace_region(t, c, "managed:start", "managed:end", takeover)
  BY DEF replace_managed_body
<1>6. ASSUME NEW a \in Seq(Tokens), NEW old \in Seq(Tokens), NEW z \in Seq(Tokens),
             t = Around(a, "managed:start", old, "managed:end", z),
             Free(a, "managed:start", "managed:end"), Free(old, "managed:start", "managed:end"),
             Free(z, "managed:start", "managed:end")
      PROVE  LinesOutside(g) >= LinesOutside(t)
  <2>1. replace_region(Around(a, "managed:start", old, "managed:end", z), c,
                       "managed:start", "managed:end", takeover)
          = Around(a, "managed:start",
                   Lined(c, detect_newline(Around(a, "managed:start", old, "managed:end", z))),
                   "managed:end", z)
    BY <1>2, <1>6, RegionAgain
  <2>2. g = Around(a, "managed:start", l, "managed:end", z)
    BY <1>1, <1>3, <1>5, <1>6, <2>1, Zenon
  <2>3. PICK n \in Nat, m \in Nat, k \in Nat : n = Len(a) /\ m = Len(old) /\ k = Len(l)
    OBVIOUS
  <2>4. Splice(t, g, n, m + 2, k + 2)
    BY <1>2, <1>6, <2>2, <2>3, SpliceAround
  <2>5. /\ t[n + 1] = "managed:start" /\ t[n + m + 2] = "managed:end" /\ n + m + 2 <= Len(t)
        /\ \A i \in 1 .. m : t[n + 1 + i] = old[i]
    <3>1. Laid(t, a, "managed:start", old, "managed:end", z) /\ Len(z) \in Nat
      <4>1. Laid(Around(a, "managed:start", old, "managed:end", z), a, "managed:start", old, "managed:end", z)
        BY <1>2, AroundIs
      <4>2. Len(z) \in Nat
        OBVIOUS
      <4> QED BY <1>6, <4>1, <4>2
    <3>2. Len(t) = n + m + Len(z) + 2
      BY <2>3, <3>1 DEF Laid
    <3>3. n + m + 2 <= Len(t)
      BY <3>1, <3>2
    <3> QED BY <2>3, <3>1, <3>3 DEF Laid
  <2>6. /\ g[n + 1] = "managed:start" /\ g[n + k + 2] = "managed:end"
        /\ \A i \in 1 .. k : g[n + 1 + i] = l[i]
    <3>1. Laid(g, a, "managed:start", l, "managed:end", z)
      BY <1>2, <2>2, AroundIs
    <3> QED BY <2>3, <3>1 DEF Laid
  <2>7. ASSUME NEW i \in Nat, n + 1 < i, i < n + m + 2
        PROVE  t[i] \notin {"managed:start", "managed:end"}
    <3>1. i - (n + 1) \in 1 .. m /\ n + 1 + (i - (n + 1)) = i
      BY <2>7
    <3>2. old[i - (n + 1)] \in Range(old)
      <4>1. DOMAIN old = 1 .. m
        BY <2>3
      <4> QED BY <3>1, <4>1 DEF Range
    <3> QED BY <1>6, <2>5, <3>1, <3>2 DEF Free
  <2>8. Closed(g, n, k + 2, "managed:start", "managed:end")
    <3>1. n + 1 \in (n + 1) .. (n + (k + 2)) /\ n + k + 2 \in (n + 1) .. (n + (k + 2))
          /\ \A i \in (n + 1) .. (n + (k + 2)) : ~(i < n + 1) /\ ~(n + k + 2 < i)
      OBVIOUS
    <3> QED BY <2>6, <3>1 DEF Closed
  <2>9. Clear(g, n, k + 2, "frontmatter:start", "frontmatter:end")
    <3> SUFFICES ASSUME NEW i \in (n + 1) .. (n + (k + 2))
                 PROVE  g[i] \notin {"frontmatter:start", "frontmatter:end"}
      BY DEF Clear
    <3>1. CASE i = n + 1
      BY <2>6, <3>1
    <3>2. CASE i = n + k + 2
      BY <2>6, <3>2
    <3>3. CASE n + 1 < i /\ i < n + k + 2
      <4>1. i - (n + 1) \in 1 .. k /\ n + 1 + (i - (n + 1)) = i
        BY <3>3
      <4> QED BY <1>4, <2>3, <2>6, <4>1
    <3>4. i = n + 1 \/ i = n + k + 2 \/ (n + 1 < i /\ i < n + k + 2)
      OBVIOUS
    <3> QED BY <3>1, <3>2, <3>3, <3>4
  <2>10. \/ Clear(t, n, m + 2, "frontmatter:start", "frontmatter:end")
         \/ \A i \in Nat : 1 <= i /\ i <= n => t[i] # "frontmatter:start"
    <3>1. 1 <= n + 1 /\ n + 1 < n + m + 2 /\ n + 1 \in Nat /\ n + m + 2 \in Nat
      OBVIOUS
    <3>2. \/ \A i \in Nat : n + 1 < i /\ i < n + m + 2 => t[i] \notin {"frontmatter:start", "frontmatter:end"}
          \/ \A i \in Nat : 1 <= i /\ i < n + 1 => t[i] # "frontmatter:start"
      BY <2>5, <2>7, <3>1 DEF Ready
    <3>3. ASSUME \A i \in Nat : n + 1 < i /\ i < n + m + 2 => t[i] \notin {"frontmatter:start", "frontmatter:end"}
          PROVE  Clear(t, n, m + 2, "frontmatter:start", "frontmatter:end")
      <4> SUFFICES ASSUME NEW i \in (n + 1) .. (n + (m + 2))
                   PROVE  t[i] \notin {"frontmatter:start", "frontmatter:end"}
        BY DEF Clear
      <4>1. CASE i = n + 1
        BY <2>5, <4>1
      <4>2. CASE i = n + m + 2
        BY <2>5, <4>2
      <4>3. CASE n + 1 < i /\ i < n + m + 2
        BY <3>3, <4>3
      <4>4. i = n + 1 \/ i = n + m + 2 \/ (n + 1 < i /\ i < n + m + 2)
        OBVIOUS
      <4> QED BY <4>1, <4>2, <4>3, <4>4
    <3>4. \A i \in Nat : i <= n => i < n + 1
      OBVIOUS
    <3> QED BY <3>2, <3>3, <3>4
  <2>11. ASSUME NEW i \in (n + 1) .. (n + (m + 2)), t[i] = UserLine PROVE Inside(t, i)
    <3>1. i # n + m + 2
      BY <2>5, <2>11 DEF UserLine
    <3>2. i \in Nat /\ n + 1 \in Nat /\ n + m + 2 \in Nat /\ 1 <= n + 1 /\ n + 1 <= i /\ i < n + m + 2
      BY <3>1
    <3>3. InRegion(t, i, "managed:start", "managed:end")
      BY <2>5, <2>7, <3>2, RegionAt
    <3> QED BY <3>3 DEF Inside
  <2> QED BY <2>4, <2>8, <2>9, <2>10, <2>11, LinesStay DEF Apart
<1>7. CASE /\ Free(t, "managed:start", "managed:end")
           /\ g = Around(t \o Separator(t), "managed:start", Lined(c, detect_newline(t)),
                         "managed:end", One(detect_newline(t)))
  <2>1. PICK o \in Seq(Tokens) : o = One(nl) /\ Len(o) = 1 /\ o[1] = nl
    BY <1>2, OneIs
  <2>2. PICK s \in Seq(Tokens) : s = Separator(t) /\ \A i \in 1 .. Len(s) : s[i] = nl
    <3>1. <<>> \in Seq(Tokens) /\ \A i \in 1 .. Len(<<>>) : FALSE
      OBVIOUS
    <3>2. Separator(t) = <<>> \/ Separator(t) = o
      BY <1>1, <2>1, Zenon DEF Separator
    <3>3. \A i \in 1 .. Len(o) : i = 1
      BY <2>1
    <3> QED BY <2>1, <3>1, <3>2, <3>3
  <2>3. PICK r \in Seq(Tokens) : r = t \o s
    BY Joined, Zenon
  <2>4. g = Around(r, "managed:start", l, "managed:end", o)
    BY <1>1, <1>3, <1>7, <2>1, <2>2, <2>3, Zenon
  <2>5. PICK n \in Nat, j \in Nat, k \in Nat : n = Len(t) /\ j = Len(s) /\ k = Len(l)
    OBVIOUS
  <2>6. Len(r) = n + j /\ (\A i \in 1 .. n : r[i] = t[i]) /\ \A i \in 1 .. j : r[n + i] = s[i]
    BY <2>3, <2>5, ConcatAt
  <2>7. PICK m \in Nat : m = n + j
    OBVIOUS
  <2>8. /\ g \in Seq(Tokens) /\ Len(g) = m + k + 3 /\ \A i \in 1 .. m : g[i] = r[i]
        /\ g[m + 1] = "managed:start" /\ g[m + k + 2] = "managed:end"
        /\ \A i \in 1 .. k : g[m + 1 + i] = l[i]
        /\ g[m + k + 3] = nl
    <3>1. g \in Seq(Tokens) /\ Laid(g, r, "managed:start", l, "managed:end", o)
      BY <1>2, <2>4, AroundIs, SMTT(40)
    <3>2. Len(r) = m
      BY <2>6, <2>7
    <3>3. /\ Len(g) = m + k + 1 + 2 /\ \A i \in 1 .. m : g[i] = r[i]
          /\ g[m + 1] = "managed:start" /\ g[m + k + 2] = "managed:end"
          /\ \A i \in 1 .. k : g[m + 1 + i] = l[i]
          /\ \A i \in 1 .. 1 : g[m + k + 2 + i] = o[i]
      BY <2>1, <2>5, <3>1, <3>2 DEF Laid
    <3>4. m + k + 1 + 2 = m + k + 3 /\ m + k + 2 + 1 = m + k + 3 /\ 1 \in 1 .. 1
      OBVIOUS
    <3> QED BY <2>1, <3>1, <3>3, <3>4
  <2>9. PICK y \in Nat : y = j + k + 3
    OBVIOUS
  <2>10. Splice(t, g, n, 0, y)
    <3>1. \A i \in 1 .. n : i \in 1 .. m
      BY <2>7
    <3>2. n + 0 <= Len(t) /\ Len(g) = Len(t) - 0 + y /\ \A i \in 1 .. Len(t) : ~(n + 0 < i)
      BY <2>5, <2>7, <2>8, <2>9
    <3> QED BY <2>6, <2>8, <3>1, <3>2 DEF Splice
  <2>11. ASSUME NEW i \in (n + 1) .. (n + y)
         PROVE  \/ i < m + 1 /\ g[i] = nl
                \/ i = m + 1
                \/ m + 1 < i /\ i < m + k + 2 /\ g[i] \notin {"frontmatter:start", "frontmatter:end"}
                \/ i = m + k + 2
                \/ m + k + 2 < i /\ g[i] = nl
    <3>1. CASE i < m + 1
      <4>1. i - n \in 1 .. j /\ n + (i - n) = i /\ i \in 1 .. m
        BY <2>7, <3>1
      <4>2. s[i - n] = nl /\ r[n + (i - n)] = s[i - n] /\ g[i] = r[i]
        BY <2>2, <2>5, <2>6, <2>8, <4>1
      <4> QED BY <3>1, <4>1, <4>2
    <3>2. CASE m + 1 < i /\ i < m + k + 2
      <4>1. i - (m + 1) \in 1 .. k /\ m + 1 + (i - (m + 1)) = i
        BY <2>7, <3>2
      <4> QED BY <1>4, <2>5, <2>8, <3>2, <4>1
    <3>3. CASE m + k + 2 < i
      <4>1. i = m + k + 3
        BY <2>7, <2>9, <3>3
      <4> QED BY <2>8, <3>3, <4>1
    <3>4. i < m + 1 \/ i = m + 1 \/ (m + 1 < i /\ i < m + k + 2) \/ i = m + k + 2 \/ m + k + 2 < i
      BY <2>7
    <3> QED BY <3>1, <3>2, <3>3, <3>4
  <2>12. Closed(g, n, y, "managed:start", "managed:end")
    <3>1. m + 1 \in (n + 1) .. (n + y) /\ m + k + 2 \in (n + 1) .. (n + y)
      BY <2>7, <2>9
    <3>2. ASSUME NEW i \in (n + 1) .. (n + y), i < m + 1 \/ m + k + 2 < i
          PROVE  g[i] \notin {"managed:start", "managed:end"}
      <4>1. g[i] = nl
        BY <2>7, <2>11, <3>2
      <4> QED BY <1>2, <4>1 DEF Markers
    <3> QED BY <2>8, <3>1, <3>2 DEF Closed
  <2>13. Clear(g, n, y, "frontmatter:start", "frontmatter:end")
    <3> SUFFICES ASSUME NEW i \in (n + 1) .. (n + y)
                 PROVE  g[i] \notin {"frontmatter:start", "frontmatter:end"}
      BY DEF Clear
    <3> QED BY <1>2, <2>8, <2>11 DEF Markers
  <2>14. \A i \in (n + 1) .. (n + 0) : FALSE
    OBVIOUS
  <2>15. Clear(t, n, 0, "frontmatter:start", "frontmatter:end")
    BY <2>14 DEF Clear
  <2> QED BY <2>10, <2>12, <2>13, <2>14, <2>15, LinesStay DEF Apart
<1> QED BY <1>2, <1>5, <1>6, <1>7, ReplacedIs
LEMMA RewrittenKeeps ==
  ASSUME NEW t \in Seq(Tokens), ~Tangled(t), NEW m \in Mutation, NEW takeover \in BOOLEAN,
         {"frontmatter:start", "frontmatter:end"} \cap Range(m.body) = {},
         NEW g, g = Rewritten(t, m, takeover), g # Conflict
  PROVE  LinesOutside(g) >= LinesOutside(t)
<1>1. PICK f \in Fields, c \in Seq(Tokens) : f = m.fields /\ c = BodyOf(m)
  BY MutationIs
<1>2. Free(c, "frontmatter:start", "frontmatter:end")
  <2>1. PICK b \in Seq(Tokens) : b = m.body
    BY MutationIs
  <2>2. c = NewContent(b, "LF")
    BY <1>1, <2>1 DEF BodyOf, canonical_managed_body, NewContent
  <2>3. Range(c) \subseteq (Range(b) \ Newlines) \cup {"LF"}
    <3>1. "LF" \in Newlines /\ Newlines \subseteq Tokens
      BY TokensAre DEF Newlines
    <3> QED BY <2>2, <3>1, NewContentIs
  <2>4. {"frontmatter:start", "frontmatter:end"} \cap Range(b) = {}
    BY <2>1
  <2> QED BY <2>3, <2>4 DEF Free
<1>3. PICK front : front = replace_frontmatter_region(t, f, takeover)
  OBVIOUS
<1>4. front # Conflict /\ g = replace_managed_body(front, c, takeover)
  BY <1>1, <1>3 DEF Rewritten
<1>5. front \in Seq(Tokens) /\ LinesOutside(front) >= LinesOutside(t) /\ Ready(front)
  BY <1>3, <1>4, FieldsKept
<1>6. LinesOutside(g) >= LinesOutside(front)
  BY <1>2, <1>4, <1>5, BodyKept
<1>7. g \in Seq(Tokens)
  BY <1>4, <1>5, ReplacedType
<1>8. LinesOutside(t) \in Nat /\ LinesOutside(front) \in Nat /\ LinesOutside(g) \in Nat
  BY <1>5, <1>7, LinesFinite
<1> QED BY <1>5, <1>6, <1>8

\* A new page takes the place of no line.
LEMMA NoLines ==
  ASSUME NEW g \in Seq(Tokens)
  PROVE  LinesOutside(g) >= LinesOutside(NoFile)
<1>1. {i \in DOMAIN NoFile : NoFile[i] = UserLine /\ ~Inside(NoFile, i)} = {}
  <2>1. \A i \in DOMAIN NoFile : NoFile[i] = "no file"
    <3>1. NoFile \in Seq({"no file"})
      BY DEF NoFile
    <3>2. DOMAIN NoFile = 1 .. Len(NoFile) /\ \A i \in 1 .. Len(NoFile) : NoFile[i] \in {"no file"}
      BY <3>1, ElementOfSeq, LenProperties
    <3> QED BY <3>2
  <2>2. "no file" # UserLine
    BY DEF UserLine
  <2> QED BY <2>1, <2>2
<1>2. LinesOutside(NoFile) = 0
  BY <1>1, FS_EmptySet DEF LinesOutside
<1>3. LinesOutside(g) \in Nat
  BY LinesFinite
<1> QED BY <1>2, <1>3

\* No mutation takes away a line that the user wrote outside of the regions, for
\* every text, edit, payload and newline style: not those between the markers of
\* a damaged page, nor those behind its frontmatter (replace_region,
\* replace_frontmatter_region).
THEOREM LinesKept == Spec => UserLinesKept
<1>1. ASSUME TextOK, NEW m \in Mutation, Apply(m), ~Tangled(text),
             {"frontmatter:start", "frontmatter:end"} \cap Range(m.body) = {}
      PROVE  LinesOutside(text') >= LinesOutside(text)
  <2>1. PICK t \in Seq(Tokens) \cup {NoFile} : t = text
    BY <1>1 DEF TextOK
  <2>2. PICK g : g = Rendered(t, record, m)
    OBVIOUS
  <2>3. g # Conflict /\ text' = g
    BY <1>1, <2>1, <2>2 DEF Apply
  <2>4. g \in Seq(Tokens)
    BY <2>2, <2>3, RenderedType
  <2>5. CASE t = NoFile
    BY <2>1, <2>3, <2>4, <2>5, NoLines
  <2>6. ASSUME t \in Seq(Tokens), NEW takeover \in BOOLEAN, g = Rewritten(t, m, takeover)
        PROVE  LinesOutside(g) >= LinesOutside(t)
    BY <1>1, <2>1, <2>3, <2>6, RewrittenKeeps
  <2> QED BY <2>1, <2>2, <2>3, <2>5, <2>6, RenderedIs
<1>2. TextOK /\ [Next]_vars
        => [\A m \in Mutation :
              Apply(m) /\ ~Tangled(text) /\ {"frontmatter:start", "frontmatter:end"} \cap Range(m.body) = {} =>
                LinesOutside(text') >= LinesOutside(text)]_vars
  BY <1>1
<1> QED BY <1>2, TextType, PTL DEF Spec, UserLinesKept

-----------------------------------------------------------------------------
(* A line more *)

\* A text with a line put in is no stand-in for a missing file.
LEMMA InsertLong ==
  ASSUME NEW t \in Seq(Tokens), NEW i \in Nat, i <= Len(t), NEW line, NEW nl
  PROVE  SubSeq(t, 1, i) \o <<line, nl>> \o SubSeq(t, i + 1, Len(t)) # NoFile
<1> DEFINE T == Tokens \cup {line, nl}
<1>1. t \in Seq(T) /\ Len(t) \in Nat
  BY SeqDef
<1>2. PICK x \in Seq(T) : x = SubSeq(t, 1, i)
  <2>1. 1 \in Nat /\ 1 >= 1
    OBVIOUS
  <2> QED BY <1>1, <2>1, PartType, Zenon
<1>3. PICK z \in Seq(T) : z = SubSeq(t, i + 1, Len(t))
  <2>1. i + 1 \in Nat /\ i + 1 >= 1 /\ Len(t) <= Len(t)
    BY <1>1
  <2> QED BY <1>1, <2>1, PartType, Zenon
<1>4. PICK y \in Seq(T) : y = <<line, nl>> /\ Len(y) = 2
  <2>1. line \in T /\ nl \in T
    OBVIOUS
  <2>2. <<line, nl>> \in Seq(T) /\ Len(<<line, nl>>) = 2
    BY <2>1
  <2> QED BY <2>2
<1> HIDE DEF T
<1>5. PICK w \in Seq(T) : w = x \o y /\ Len(w) = Len(x) + Len(y)
  <2>1. x \o y \in Seq(T) /\ Len(x \o y) = Len(x) + Len(y)
    BY ConcatAt
  <2> QED BY <2>1
<1>6. Len(w \o z) = Len(w) + Len(z)
  BY ConcatAt
<1>7. Len(x) \in Nat /\ Len(z) \in Nat
  OBVIOUS
<1>8. Len(w \o z) # 1
  BY <1>4, <1>5, <1>6, <1>7
<1>9. w \o z # NoFile
  <2>1. Len(NoFile) = 1
    BY DEF NoFile
  <2> QED BY <1>8, <2>1
<1> QED BY <1>2, <1>3, <1>4, <1>5, <1>9, Zenon

WithLine(t, i, line, nl) == SubSeq(t, 1, i) \o <<line, nl>> \o SubSeq(t, i + 1, Len(t))
LineAt(t, u, i, line, nl) == Splice(t, u, i, 0, 2) /\ u[i + 1] = line /\ u[i + 2] = nl

\* Putting a line in is a splice of two tokens.
LEMMA InsertIs ==
  ASSUME NEW t \in Seq(Tokens), NEW i \in Nat, i <= Len(t), NEW line, NEW nl,
         NEW u \in Seq(Tokens) \cup {NoFile}, u = WithLine(t, i, line, nl)
  PROVE  LineAt(t, u, i, line, nl)
<1> DEFINE T == Tokens \cup {line, nl}
<1>1. t \in Seq(T) /\ Len(t) \in Nat /\ DOMAIN t = 1 .. Len(t)
  BY SeqDef
<1>2. PICK x \in Seq(T) : x = SubSeq(t, 1, i) /\ Len(x) = i /\ \A j \in 1 .. i : x[j] = t[j]
  <2>1. 0 + i <= Len(t) /\ 0 \in Nat
    OBVIOUS
  <2>2. PICK x \in Seq(T) : Part(x, t, 0, i)
    BY <1>1, <2>1, PartIs
  <2>3. x = SubSeq(t, 0 + 1, 0 + i) /\ Len(x) = i /\ \A j \in 1 .. i : x[j] = t[0 + j]
    BY <2>2 DEF Part
  <2>4. 0 + 1 = 1 /\ 0 + i = i /\ \A j \in 1 .. i : 0 + j = j
    OBVIOUS
  <2> QED BY <2>3, <2>4
<1>3. PICK z \in Seq(T) : /\ z = SubSeq(t, i + 1, Len(t)) /\ Len(z) = Len(t) - i
                          /\ \A j \in 1 .. Len(t) - i : z[j] = t[i + j]
  <2>1. PICK n \in Nat : n = Len(t) - i /\ i + n = Len(t)
    <3>1. Len(t) - i \in Nat /\ i + (Len(t) - i) = Len(t)
      BY <1>1
    <3> QED BY <3>1
  <2>2. i + n <= Len(t)
    BY <1>1, <2>1
  <2>3. PICK z \in Seq(T) : Part(z, t, i, n)
    BY <1>1, <2>2, PartIs
  <2>4. z = SubSeq(t, i + 1, i + n) /\ Len(z) = n /\ \A j \in 1 .. n : z[j] = t[i + j]
    BY <2>3 DEF Part
  <2> QED BY <2>1, <2>4
<1>4. PICK y \in Seq(T) : y = <<line, nl>> /\ Len(y) = 2 /\ y[1] = line /\ y[2] = nl
  <2>1. line \in T /\ nl \in T
    OBVIOUS
  <2>2. <<line, nl>> \in Seq(T) /\ Len(<<line, nl>>) = 2 /\ <<line, nl>>[1] = line /\ <<line, nl>>[2] = nl
    BY <2>1
  <2> QED BY <2>2
<1> HIDE DEF T
<1>5. PICK w \in Seq(T) : w = x \o y
  BY Joined, Zenon
<1>6. u = w \o z
  BY <1>2, <1>3, <1>4, <1>5, Zenon DEF WithLine
<1>7. Len(w) = i + 2 /\ (\A j \in 1 .. i : w[j] = x[j]) /\ \A j \in 1 .. 2 : w[i + j] = y[j]
  <2>1. /\ x \o y \in Seq(T) /\ Len(x \o y) = Len(x) + Len(y)
        /\ \A j \in 1 .. Len(x) : (x \o y)[j] = x[j]
        /\ \A j \in 1 .. Len(y) : (x \o y)[Len(x) + j] = y[j]
    BY ConcatAt
  <2> QED BY <1>2, <1>4, <1>5, <2>1
<1>8. Len(u) = Len(t) + 2 /\ (\A j \in 1 .. i + 2 : u[j] = w[j])
      /\ \A j \in 1 .. Len(t) - i : u[i + 2 + j] = z[j]
  <2>1. /\ w \o z \in Seq(T) /\ Len(w \o z) = Len(w) + Len(z)
        /\ \A j \in 1 .. Len(w) : (w \o z)[j] = w[j]
        /\ \A j \in 1 .. Len(z) : (w \o z)[Len(w) + j] = z[j]
    BY ConcatAt
  <2>2. i + 2 + (Len(t) - i) = Len(t) + 2
    BY <1>1
  <2> QED BY <1>3, <1>6, <1>7, <2>1, <2>2
<1>9. \A j \in 1 .. i : u[j] = t[j]
  <2>1. \A j \in 1 .. i : j \in 1 .. i + 2
    OBVIOUS
  <2> QED BY <1>2, <1>7, <1>8, <2>1
<1>10. u[i + 1] = line /\ u[i + 2] = nl
  <2>1. i + 1 \in 1 .. i + 2 /\ i + 2 \in 1 .. i + 2 /\ 1 \in 1 .. 2 /\ 2 \in 1 .. 2
    OBVIOUS
  <2> QED BY <1>4, <1>7, <1>8, <2>1
<1>11. ASSUME NEW j \in 1 .. Len(t), i + 0 < j PROVE u[j - 0 + 2] = t[j]
  <2>1. j - i \in 1 .. Len(t) - i /\ i + (j - i) = j /\ i + 2 + (j - i) = j - 0 + 2
    BY <1>1, <1>11
  <2>2. u[i + 2 + (j - i)] = z[j - i]
    BY <1>8, <2>1, Zenon
  <2>3. z[j - i] = t[i + (j - i)]
    BY <1>3, <2>1, Zenon
  <2> QED BY <2>1, <2>2, <2>3, Zenon
<1>12. i + 0 <= Len(t) /\ Len(u) = Len(t) - 0 + 2
  <2>1. i + 0 = i /\ Len(t) - 0 + 2 = Len(t) + 2
    BY <1>1
  <2>2. Len(u) = Len(t) + 2
    BY <1>8, Zenon
  <2> QED BY <2>1, <2>2, Zenon
<1>13. u \in Seq(Tokens)
  <2>1. u # NoFile
    BY InsertLong, Zenon DEF WithLine
  <2> QED BY <2>1, Zenon
<1>14. Splice(t, u, i, 0, 2)
  BY <1>9, <1>11, <1>12, <1>13 DEF Splice
<1> QED BY <1>10, <1>14, Zenon DEF LineAt

\* What is above the line stays where it is, what is below it moves by two.
LEMMA LineIn ==
  ASSUME NEW t, NEW u, NEW a, Splice(t, u, a, 0, 2)
  PROVE  /\ t \in Seq(Tokens) /\ u \in Seq(Tokens) /\ a \in Nat
         /\ Len(t) \in Nat /\ Len(u) \in Nat /\ a <= Len(t) /\ Len(u) = Len(t) + 2
         /\ DOMAIN t = 1 .. Len(t) /\ DOMAIN u = 1 .. Len(u)
<1>1. /\ t \in Seq(Tokens) /\ u \in Seq(Tokens) /\ a \in Nat
      /\ Len(t) \in Nat /\ Len(u) \in Nat /\ a + 0 <= Len(t) /\ Len(u) = Len(t) - 0 + 2
  BY DEF Splice
<1>2. a <= Len(t) /\ Len(u) = Len(t) + 2
  BY <1>1
<1> QED BY <1>1, <1>2

LEMMA LineAbove ==
  ASSUME NEW t, NEW u, NEW a, Splice(t, u, a, 0, 2), NEW n \in Nat, 1 <= n, n <= a
  PROVE  u[n] = t[n]
BY SpliceAt

LEMMA LineBelow ==
  ASSUME NEW t, NEW u, NEW a, Splice(t, u, a, 0, 2), NEW n \in Nat, a < n, n <= Len(t)
  PROVE  u[n + 2] = t[n]
<1>1. \A m \in Nat : a + 0 < m /\ m <= Len(t) => u[m - 0 + 2] = t[m]
  BY SpliceAt, SMTT(40)
<1>2. n - 0 + 2 = n + 2 /\ a + 0 = a
  BY LineIn
<1> QED BY <1>1, <1>2

\* A region that the line is not put into is read as before.
LEMMA RegionSame ==
  ASSUME NEW t, NEW u, NEW a, Splice(t, u, a, 0, 2), NEW start, NEW end, start # end,
         u[a + 1] \notin {start, end}, u[a + 2] \notin {start, end}, ~InRegion(t, a, start, end)
  PROVE  extract_single_region(u, start, end) = extract_single_region(t, start, end)
<1>1. /\ t \in Seq(Tokens) /\ u \in Seq(Tokens) /\ a \in Nat
      /\ Len(t) \in Nat /\ Len(u) \in Nat /\ a <= Len(t) /\ Len(u) = Len(t) + 2
      /\ DOMAIN t = 1 .. Len(t) /\ DOMAIN u = 1 .. Len(u)
  BY LineIn, Zenon
<1>2. /\ \A n \in Nat : 1 <= n /\ n <= a => u[n] = t[n]
      /\ \A n \in Nat : a < n /\ n <= Len(t) => u[n + 2] = t[n]
  <2>1. ASSUME NEW n \in Nat, 1 <= n, n <= a PROVE u[n] = t[n]
    BY <2>1, LineAbove, Zenon
  <2>2. ASSUME NEW n \in Nat, a < n, n <= Len(t) PROVE u[n + 2] = t[n]
    BY <2>2, LineBelow, Zenon
  <2> QED BY <2>1, <2>2
<1> DEFINE To(n) == IF n <= a THEN n ELSE n + 2
<1>3. ASSUME NEW n \in DOMAIN t PROVE To(n) \in DOMAIN u /\ u[To(n)] = t[n]
  <2>1. CASE n <= a
    <3>1. 1 <= n /\ n \in Nat /\ n \in DOMAIN u
      BY <1>1
    <3> QED BY <1>2, <2>1, <3>1
  <2>2. CASE ~(n <= a)
    <3>1. a < n /\ n \in Nat /\ n <= Len(t) /\ n + 2 \in DOMAIN u
      BY <1>1, <2>2
    <3> QED BY <1>2, <2>2, <3>1
  <2> QED BY <2>1, <2>2
<1>4. ASSUME NEW m \in DOMAIN u, u[m] \in {start, end} PROVE \E n \in DOMAIN t : m = To(n)
  <2>1. m # a + 1 /\ m # a + 2
    BY <1>4
  <2>2. CASE m <= a
    <3>1. m \in DOMAIN t
      BY <1>1, <2>2
    <3> QED BY <2>2, <3>1
  <2>3. CASE a + 2 < m
    <3>1. m - 2 \in DOMAIN t /\ ~(m - 2 <= a) /\ m = (m - 2) + 2
      BY <1>1, <2>3
    <3> QED BY <3>1
  <2> QED BY <1>1, <2>1, <2>2, <2>3
<1>5. \A n, m \in DOMAIN t : /\ To(n) = To(m) => n = m
                             /\ To(n) < To(m) <=> n < m
  BY <1>1
<1> HIDE DEF To
<1>6. ASSUME NEW k \in {start, end}
      PROVE  /\ Count(t, k) = 1 => Count(u, k) = 1 /\ At(u, k) = To(At(t, k))
             /\ Count(u, k) = 1 => Count(t, k) = 1
  <2>1. ASSUME Count(t, k) = 1 PROVE Count(u, k) = 1 /\ At(u, k) = To(At(t, k))
    <3>1. PICK p : p = At(t, k)
      OBVIOUS
    <3>2. p \in DOMAIN t /\ t[p] = k /\ \A n \in DOMAIN t : t[n] = k => n = p
      BY <1>1, <2>1, <3>1, Once
    <3>3. PICK m : m = To(p)
      OBVIOUS
    <3>4. m \in DOMAIN u /\ u[m] = k
      BY <1>3, <3>2, <3>3
    <3>5. ASSUME NEW n \in DOMAIN u, u[n] = k PROVE n = m
      <4>1. PICK l \in DOMAIN t : n = To(l)
        BY <1>4, <1>6, <3>5
      <4>2. t[l] = k
        BY <1>3, <3>5, <4>1
      <4> QED BY <3>2, <3>3, <4>1, <4>2
    <3>6. Count(u, k) = 1 /\ At(u, k) = m
      BY <1>1, <3>4, <3>5, OnceAt
    <3> QED BY <3>1, <3>3, <3>6
  <2>2. ASSUME Count(u, k) = 1 PROVE Count(t, k) = 1
    <3>1. PICK m : m \in DOMAIN u /\ u[m] = k /\ \A n \in DOMAIN u : u[n] = k => n = m
      <4>1. At(u, k) \in DOMAIN u /\ u[At(u, k)] = k /\ \A n \in DOMAIN u : u[n] = k => n = At(u, k)
        BY <1>1, <2>2, Once
      <4> QED BY <4>1
    <3>2. PICK p \in DOMAIN t : m = To(p)
      BY <1>4, <1>6, <3>1
    <3>3. t[p] = k
      BY <1>3, <3>1, <3>2
    <3>4. ASSUME NEW n \in DOMAIN t, t[n] = k PROVE n = p
      <4>1. To(n) = m
        BY <1>3, <3>1, <3>4
      <4> QED BY <1>5, <3>2, <4>1
    <3> QED BY <1>1, <3>3, <3>4, OnceAt
  <2> QED BY <2>1, <2>2
<1>7. CASE Count(t, start) # 1 \/ Count(t, end) # 1
  <2>1. Count(u, start) # 1 \/ Count(u, end) # 1
    BY <1>6, <1>7
  <2> QED BY <1>7, <2>1 DEF extract_single_region
<1>8. CASE Count(t, start) = 1 /\ Count(t, end) = 1
  <2>1. PICK p, q : p = At(t, start) /\ q = At(t, end)
    OBVIOUS
  <2>2. /\ p \in DOMAIN t /\ t[p] = start /\ \A n \in DOMAIN t : t[n] = start => n = p
        /\ q \in DOMAIN t /\ t[q] = end /\ \A n \in DOMAIN t : t[n] = end => n = q
    BY <1>1, <1>8, <2>1, Once
  <2>3. PICK j, k : j = To(p) /\ k = To(q)
    OBVIOUS
  <2>4. Count(u, start) = 1 /\ Count(u, end) = 1 /\ At(u, start) = j /\ At(u, end) = k
    BY <1>6, <1>8, <2>1, <2>3
  <2>5. k < j <=> q < p
    BY <1>5, <2>2, <2>3
  <2>6. CASE q < p
    BY <1>8, <2>1, <2>4, <2>5, <2>6 DEF extract_single_region
  <2>7. CASE ~(q < p)
    <3>1. p < q /\ p \in Nat /\ q \in Nat /\ 1 <= p /\ q <= Len(t)
      BY <1>1, <2>2, <2>7
    <3>2. ~(p <= a /\ a < q)
      <4> SUFFICES ASSUME p <= a, a < q PROVE FALSE
        OBVIOUS
      <4>1. ASSUME NEW n \in Nat, p < n, n < q PROVE t[n] \notin {start, end}
        <5>1. n \in DOMAIN t /\ n # p /\ n # q
          BY <1>1, <3>1, <4>1
        <5> QED BY <2>2, <5>1
      <4> QED BY <1>1, <2>2, <3>1, <4>1, RegionAt
    <3>3. PICK d \in Nat : d = q - p - 1
      <4>1. q - p - 1 \in Nat
        BY <3>1
      <4> QED BY <4>1
    <3>4. SubSeq(u, j + 1, k - 1) = SubSeq(t, p + 1, q - 1)
      <4>1. j \in Nat /\ k - 1 = j + d /\ q - 1 = p + d /\ j + d <= Len(u) /\ p + d <= Len(t)
        BY <1>1, <2>3, <3>1, <3>2, <3>3 DEF To
      <4>2. PICK x \in Seq(Tokens) : Part(x, u, j, d)
        BY <1>1, <4>1, PartIs
      <4>3. PICK y \in Seq(Tokens) : Part(y, t, p, d)
        BY <1>1, <3>1, <4>1, PartIs
      <4>4. x = SubSeq(u, j + 1, j + d) /\ Len(x) = d /\ \A n \in 1 .. d : x[n] = u[j + n]
        BY <4>2 DEF Part
      <4>5. y = SubSeq(t, p + 1, p + d) /\ Len(y) = d /\ \A n \in 1 .. d : y[n] = t[p + n]
        BY <4>3 DEF Part
      <4>6. ASSUME NEW n \in 1 .. d PROVE u[j + n] = t[p + n]
        <5>1. p + n \in DOMAIN t
          BY <1>1, <3>1, <3>3
        <5>2. To(p + n) = j + n
          BY <2>3, <3>1, <3>2, <3>3, <1>1 DEF To
        <5> QED BY <1>3, <5>1, <5>2
      <4>7. x = y
        <5>1. Len(x) = d /\ Len(y) = d
          BY <4>4, <4>5, Zenon
        <5>2. ASSUME NEW n \in 1 .. d PROVE x[n] = y[n]
          <6>1. x[n] = u[j + n]
            BY <4>4, Zenon
          <6>2. y[n] = t[p + n]
            BY <4>5, Zenon
          <6> QED BY <4>6, <6>1, <6>2, Zenon
        <5>3. \A n \in 1 .. Len(x) : x[n] = y[n]
          BY <5>1, <5>2, Zenon
        <5> QED BY <5>1, <5>3, SeqEqual
      <4> QED BY <4>1, <4>4, <4>5, <4>7
    <3>5. Content(u, start, end) = Content(t, start, end)
      BY <2>1, <2>4, <3>4 DEF Content
    <3> QED BY <1>8, <2>1, <2>4, <2>5, <2>7, <3>5 DEF extract_single_region
  <2> QED BY <2>6, <2>7
<1> QED BY <1>7, <1>8
\* Where the frontmatter ends.
LEMMA ClosedAt ==
  ASSUME NEW v \in Seq(Tokens), NEW b \in Seq(Tokens), NEW t, NEW nl, FrontBody(t, nl, v, b)
  PROVE  Min(Closings(t)) + 2 = Len(v) + 4
<1>1. t \in Seq(Tokens) /\ nl \in Newlines /\ v # <<>> /\ "---" \in Tokens /\ Newlines \subseteq Tokens
      /\ nl \in Tokens
  BY FrontTokens, TokensAre
<1>2. HasFrontmatter(t) /\ Frontmatter(t) = SubSeq(v, 1, Len(v) - 1)
  BY <1>1, FrontIs
<1>3. Closings(t) \subseteq 3 .. Len(t) - 2 /\ Closings(t) # {}
  BY <1>2 DEF Closings, HasFrontmatter
<1>4. PICK n : n = Min(Closings(t)) /\ n \in Closings(t)
  <2>1. Closings(t) \in SUBSET Nat
    BY <1>3
  <2>2. PICK e \in Closings(t) : TRUE
    BY <1>3
  <2> QED BY <2>1, <2>2, LeastIs
<1>5. n \in Nat /\ 3 <= n /\ n <= Len(t) - 2 /\ Len(t) \in Nat
  BY <1>1, <1>3, <1>4
<1>6. Len(SubSeq(t, 3, n - 1)) = n - 3
  <2>1. PICK m \in Nat : m = n - 3 /\ 2 + m <= Len(t) /\ 2 + m = n - 1
    <3>1. n - 3 \in Nat /\ 2 + (n - 3) <= Len(t) /\ 2 + (n - 3) = n - 1
      BY <1>5
    <3> QED BY <3>1
  <2>2. PICK x \in Seq(Tokens) : Part(x, t, 2, m)
    BY <1>1, <2>1, PartIs
  <2>3. x = SubSeq(t, 2 + 1, 2 + m) /\ Len(x) = m
    BY <2>2 DEF Part
  <2>4. 2 + 1 = 3
    OBVIOUS
  <2> QED BY <2>1, <2>3, <2>4
<1>7. Len(SubSeq(v, 1, Len(v) - 1)) = Len(v) - 1 /\ Len(v) \in Nat
  <2>1. Len(v) \in Nat /\ Len(v) # 0
    BY <1>1, EmptySeq
  <2>2. PICK m \in Nat : m = Len(v) - 1 /\ 0 + m <= Len(v)
    <3>1. Len(v) - 1 \in Nat /\ 0 + (Len(v) - 1) <= Len(v)
      BY <2>1
    <3> QED BY <3>1
  <2>3. PICK x \in Seq(Tokens) : Part(x, v, 0, m)
    BY <2>2, PartIs
  <2>4. x = SubSeq(v, 0 + 1, 0 + m) /\ Len(x) = m
    BY <2>3 DEF Part
  <2>5. 0 + 1 = 1 /\ 0 + m = m
    OBVIOUS
  <2> QED BY <2>1, <2>2, <2>4, <2>5
<1>8. n - 3 = Len(v) - 1
  BY <1>2, <1>4, <1>6, <1>7 DEF Frontmatter
<1> QED BY <1>4, <1>5, <1>7, <1>8

\* A line put in below the frontmatter is put into what is behind it.
LEMMA InsertBelow ==
  ASSUME NEW v \in Seq(Tokens), NEW b \in Seq(Tokens), NEW t, NEW nl, FrontBody(t, nl, v, b),
         NEW u, NEW i, Splice(t, u, i, 0, 2), Len(v) + 4 <= i,
         u[i + 1] \notin Newlines, u[i + 2] = nl
  PROVE  \E w \in Seq(Tokens), k \in Nat :
           /\ FrontBody(u, nl, v, w) /\ Splice(b, w, k, 0, 2) /\ i = Len(v) + 4 + k
           /\ w[k + 1] = u[i + 1] /\ w[k + 2] = u[i + 2]
<1>1. /\ t \in Seq(Tokens) /\ nl \in Newlines /\ nl \in Tokens /\ "---" \in Tokens
      /\ t = Fenced(nl, v, b) /\ EndsIn(v, nl) /\ Open(v, nl) /\ nl = detect_newline(t)
  BY FrontTokens, TokensAre DEF FrontBody
<1>2. /\ u \in Seq(Tokens) /\ i \in Nat /\ Len(t) \in Nat /\ Len(u) \in Nat
      /\ i <= Len(t) /\ Len(u) = Len(t) + 2
  BY LineIn, Zenon
<1>3. /\ \A n \in Nat : 1 <= n /\ n <= i => u[n] = t[n]
      /\ \A n \in Nat : i < n /\ n <= Len(t) => u[n + 2] = t[n]
  <2>1. ASSUME NEW n \in Nat, 1 <= n, n <= i PROVE u[n] = t[n]
    BY <2>1, LineAbove, Zenon
  <2>2. ASSUME NEW n \in Nat, i < n, n <= Len(t) PROVE u[n + 2] = t[n]
    BY <2>2, LineBelow, Zenon
  <2> QED BY <2>1, <2>2
<1>4. /\ FencedLaid(t, nl, v, b) /\ Len(v) \in Nat /\ Len(b) \in Nat
  BY <1>1, FencedAt
<1>5. PICK p \in Nat : p = Len(v) + 4
  BY <1>4
<1>6. /\ Len(t) = p + Len(b) /\ p <= i
      /\ \A j \in 1 .. Len(b) : t[p + j] = b[j]
  <2>1. Len(t) = Len(v) + Len(b) + 4 /\ \A j \in 1 .. Len(b) : t[Len(v) + 4 + j] = b[j]
    BY <1>4 DEF FencedLaid
  <2> QED BY <1>4, <1>5, <2>1
<1>7. PICK k \in Nat : k = i - p /\ i = p + k /\ k <= Len(b)
  <2>1. i - p \in Nat /\ i = p + (i - p) /\ i - p <= Len(b)
    BY <1>2, <1>4, <1>6
  <2> QED BY <2>1
<1>8. PICK w \in Seq(Tokens) : Len(w) = Len(b) + 2 /\ \A j \in 1 .. Len(b) + 2 : w[j] = u[p + j]
  <2>1. Len(b) + 2 \in Nat /\ p + (Len(b) + 2) <= Len(u)
    BY <1>2, <1>4, <1>6
  <2>2. PICK w \in Seq(Tokens) : Part(w, u, p, Len(b) + 2)
    BY <1>2, <2>1, PartIs
  <2> QED BY <2>2 DEF Part
<1>9. FencedLaid(u, nl, v, w)
  <2>1. /\ t[1] = "---" /\ t[2] = nl /\ t[Len(v) + 3] = "---" /\ t[Len(v) + 4] = nl
        /\ \A j \in 1 .. Len(v) : t[2 + j] = v[j]
    BY <1>4 DEF FencedLaid
  <2>2. Len(u) = Len(v) + Len(w) + 4
    BY <1>2, <1>4, <1>5, <1>6, <1>8
  <2>3. /\ u[1] = t[1] /\ u[2] = t[2] /\ u[Len(v) + 3] = t[Len(v) + 3] /\ u[Len(v) + 4] = t[Len(v) + 4]
        /\ \A j \in 1 .. Len(v) : u[2 + j] = t[2 + j]
    BY <1>2, <1>3, <1>4, <1>5, <1>6
  <2>4. \A j \in 1 .. Len(w) : u[Len(v) + 4 + j] = w[j]
    BY <1>5, <1>8
  <2> QED BY <2>1, <2>2, <2>3, <2>4 DEF FencedLaid
<1>10. u = Fenced(nl, v, w)
  BY <1>1, <1>2, <1>9, FencedIs
<1>11. Splice(b, w, k, 0, 2)
  <2>1. ASSUME NEW j \in 1 .. k PROVE w[j] = b[j]
    <3>1. j \in 1 .. Len(b) + 2 /\ j \in 1 .. Len(b) /\ p + j \in Nat /\ 1 <= p + j /\ p + j <= i
      BY <1>2, <1>4, <1>7
    <3>2. u[p + j] = t[p + j]
      BY <1>3, <3>1
    <3> QED BY <1>6, <1>8, <3>1, <3>2
  <2>2. ASSUME NEW j \in 1 .. Len(b), k + 0 < j PROVE w[j - 0 + 2] = b[j]
    <3>1. /\ j - 0 + 2 = j + 2 /\ j + 2 \in 1 .. Len(b) + 2 /\ p + j \in Nat /\ i < p + j /\ p + j <= Len(t)
          /\ p + (j + 2) = p + j + 2
      BY <1>2, <1>4, <1>6, <1>7, <2>2
    <3>2. u[p + j + 2] = t[p + j]
      BY <1>3, <3>1
    <3>3. w[j + 2] = u[p + (j + 2)]
      BY <1>8, <3>1
    <3> QED BY <1>6, <3>1, <3>2, <3>3
  <2>3. k + 0 <= Len(b) /\ Len(w) = Len(b) - 0 + 2
    BY <1>4, <1>7, <1>8
  <2> QED BY <2>1, <2>2, <2>3 DEF Splice
<1>12. w[k + 1] = u[i + 1] /\ w[k + 2] = u[i + 2]
  <2>1. k + 1 \in 1 .. Len(b) + 2 /\ k + 2 \in 1 .. Len(b) + 2 /\ p + (k + 1) = i + 1 /\ p + (k + 2) = i + 2
    BY <1>4, <1>7
  <2> QED BY <1>8, <2>1
<1>13. detect_newline(u) = nl
  <2>1. DOMAIN t = 1 .. Len(t) /\ DOMAIN u = 1 .. Len(u)
    BY LineIn, Zenon
  <2>2. ASSUME "CRLF" \in Range(t) PROVE "CRLF" \in Range(u)
    <3>1. PICK n \in DOMAIN t : t[n] = "CRLF"
      BY <2>2 DEF Range
    <3>2. PICK m \in DOMAIN u : u[m] = t[n]
      <4>1. CASE n <= i
        <5>1. n \in Nat /\ 1 <= n /\ n \in DOMAIN u
          BY <1>2, <2>1
        <5>2. u[n] = t[n]
          BY <1>3, <4>1, <5>1
        <5> QED BY <5>1, <5>2
      <4>2. CASE ~(n <= i)
        <5>1. n \in Nat /\ i < n /\ n <= Len(t) /\ n + 2 \in DOMAIN u
          BY <1>2, <2>1, <4>2
        <5>2. u[n + 2] = t[n]
          BY <1>3, <5>1
        <5> QED BY <5>1, <5>2
      <4> QED BY <4>1, <4>2
    <3> QED BY <3>1, <3>2 DEF Range
  <2>3. ASSUME "CRLF" \in Range(u) PROVE "CRLF" \in Range(t)
    <3>1. PICK m \in DOMAIN u : u[m] = "CRLF"
      BY <2>3 DEF Range
    <3>2. CASE m <= i
      <4>1. m \in Nat /\ 1 <= m /\ m \in DOMAIN t
        BY <1>2, <2>1, <3>2
      <4>2. u[m] = t[m]
        BY <1>3, <3>2, <4>1
      <4> QED BY <3>1, <4>1, <4>2 DEF Range
    <3>3. CASE m = i + 1
      BY <3>1, <3>3 DEF Newlines
    <3>4. CASE m = i + 2
      BY <1>1, <3>1, <3>4, NewlineIs
    <3>5. CASE i + 2 < m
      <4>1. PICK n \in DOMAIN t : i < n /\ n + 2 = m /\ n \in Nat /\ n <= Len(t)
        <5>1. m - 2 \in DOMAIN t /\ i < m - 2 /\ (m - 2) + 2 = m /\ m - 2 \in Nat /\ m - 2 <= Len(t)
          BY <1>2, <2>1, <3>5
        <5> QED BY <5>1
      <4>2. u[n + 2] = t[n]
        BY <1>3, <4>1
      <4> QED BY <3>1, <4>1, <4>2 DEF Range
    <3>6. m <= i \/ m = i + 1 \/ m = i + 2 \/ i + 2 < m
      <4>1. \A x, y \in Int : x <= y \/ x = y + 1 \/ x = y + 2 \/ y + 2 < x
        OBVIOUS
      <4>2. m \in Int /\ i \in Int
        BY <1>2, <2>1
      <4> QED BY <4>1, <4>2, Zenon
    <3> QED BY <3>2, <3>3, <3>4, <3>5, <3>6
  <2> QED BY <1>1, <2>2, <2>3 DEF detect_newline
<1>14. FrontBody(u, nl, v, w)
  BY <1>1, <1>10, <1>13 DEF FrontBody
<1>15. i = Len(v) + 4 + k
  BY <1>5, <1>7
<1> QED BY <1>11, <1>12, <1>14, <1>15

\* A region below the frontmatter is one of the text.
LEMMA RegionBelow ==
  ASSUME NEW v \in Seq(Tokens), NEW b \in Seq(Tokens), NEW t, NEW nl, FrontBody(t, nl, v, b),
         NEW k \in Nat, NEW start, NEW end, InRegion(b, k, start, end)
  PROVE  InRegion(t, Len(v) + 4 + k, start, end)
<1>1. t \in Seq(Tokens) /\ nl \in Newlines /\ nl \in Tokens /\ "---" \in Tokens /\ t = Fenced(nl, v, b)
  BY FrontTokens, TokensAre DEF FrontBody
<1>2. FencedLaid(t, nl, v, b)
  BY <1>1, FencedAt
<1>3. PICK j \in Nat, q \in Nat :
        /\ 1 <= j /\ j <= k /\ k < q /\ q <= Len(b) /\ b[j] = start /\ b[q] = end
        /\ \A n \in Nat : j < n /\ n < q => b[n] \notin {start, end}
  BY RegionIs
<1>4. Len(v) \in Nat /\ Len(b) \in Nat
  OBVIOUS
<1>5. PICK p \in Nat : p = Len(v) + 4
  BY <1>4
<1>6. Len(t) = p + Len(b) /\ \A n \in 1 .. Len(b) : t[p + n] = b[n]
  <2>1. Len(t) = Len(v) + Len(b) + 4 /\ \A n \in 1 .. Len(b) : t[Len(v) + 4 + n] = b[n]
    BY <1>2 DEF FencedLaid
  <2> QED BY <1>4, <1>5, <2>1
<1>7. t[p + j] = start /\ t[p + q] = end
  <2>1. j \in 1 .. Len(b) /\ q \in 1 .. Len(b)
    BY <1>3, <1>4
  <2> QED BY <1>3, <1>6, <2>1
<1>8. ASSUME NEW n \in Nat, p + j < n, n < p + q PROVE t[n] \notin {start, end}
  <2>1. n - p \in 1 .. Len(b) /\ p + (n - p) = n /\ n - p \in Nat /\ j < n - p /\ n - p < q
    BY <1>3, <1>4, <1>8
  <2>2. b[n - p] \notin {start, end}
    BY <1>3, <2>1
  <2> QED BY <1>6, <2>1, <2>2
<1>9. p + k \in Nat /\ p + j \in Nat /\ p + q \in Nat /\ 1 <= p + j /\ p + j <= p + k /\ p + k < p + q
      /\ p + q <= Len(t)
  BY <1>3, <1>4, <1>6
<1>10. InRegion(t, p + k, start, end)
  BY <1>1, <1>7, <1>8, <1>9, RegionAt
<1> QED BY <1>5, <1>10

\* The same, of a text whose line is known to be put in below.
LEMMA ReadBelow ==
  ASSUME NEW v \in Seq(Tokens), NEW b \in Seq(Tokens), NEW t, NEW nl \in Newlines, FrontBody(t, nl, v, b),
         NEW u, NEW i, Splice(t, u, i, 0, 2), Len(v) + 4 <= i, ~InRegion(t, i, "managed:start", "managed:end"),
         u[i + 1] = UserLine, u[i + 2] = nl
  PROVE  inspect_managed_page(u) = inspect_managed_page(t)
<1>1. Newlines \subseteq Tokens /\ "---" \in Tokens
  BY TokensAre
<1>2. UserLine \notin Newlines
  BY DEF UserLine, Newlines
<1>3. u[i + 1] \notin Newlines
  BY <1>2
<1>4. PICK w \in Seq(Tokens), k \in Nat :
        /\ FrontBody(u, nl, v, w) /\ Splice(b, w, k, 0, 2) /\ i = Len(v) + 4 + k
        /\ w[k + 1] = u[i + 1] /\ w[k + 2] = u[i + 2]
  BY <1>3, InsertBelow, SMTT(40)
<1>5. ~InRegion(b, k, "managed:start", "managed:end")
  <2>1. ~InRegion(t, Len(v) + 4 + k, "managed:start", "managed:end")
    BY <1>4
  <2> QED BY <2>1, RegionBelow
<1>6. extract_single_region(w, "managed:start", "managed:end")
        = extract_single_region(b, "managed:start", "managed:end")
  <2>1. w[k + 1] = UserLine /\ w[k + 2] \in Newlines
    BY <1>4
  <2>2. w[k + 1] \notin {"managed:start", "managed:end"}
    BY <2>1 DEF UserLine
  <2>3. w[k + 2] \notin {"managed:start", "managed:end"}
    BY <2>1 DEF Newlines
  <2>4. "managed:start" # "managed:end"
    OBVIOUS
  <2>5. Splice(b, w, k, 0, 2)
    BY <1>4
  <2> QED BY <1>5, <2>2, <2>3, <2>4, <2>5, RegionSame, SMTT(40)
<1>7. /\ HasFrontmatter(u) /\ AfterFrontmatter(u) = w /\ AfterFrontmatter(t) = b
      /\ Frontmatter(u) = Frontmatter(t) /\ HasFrontmatter(t)
  <2>1. FrontBody(u, nl, v, w)
    BY <1>4
  <2>2. HasFrontmatter(u) /\ AfterFrontmatter(u) = w /\ Frontmatter(u) = SubSeq(v, 1, Len(v) - 1)
    BY <1>1, <2>1, FrontIs
  <2>3. HasFrontmatter(t) /\ AfterFrontmatter(t) = b /\ Frontmatter(t) = SubSeq(v, 1, Len(v) - 1)
    BY <1>1, FrontIs
  <2> QED BY <2>2, <2>3
<1> QED BY <1>6, <1>7, Zenon DEF inspect_managed_page

LEMMA ReadSame ==
  ASSUME NEW t \in Seq(Tokens), HasFrontmatter(t), NEW i,
         i \in (Min(Closings(t)) + 2) .. Len(t), ~Inside(t, i),
         NEW u, Splice(t, u, i, 0, 2), u[i + 1] = UserLine, u[i + 2] = detect_newline(t)
  PROVE  inspect_managed_page(u) = inspect_managed_page(t)
<1>1. PICK nl \in Newlines : nl = detect_newline(t)
  BY NewlineIs
<1>2. Newlines \subseteq Tokens /\ "---" \in Tokens
  BY TokensAre
<1>3. PICK v \in Seq(Tokens), b \in Seq(Tokens) : FrontBody(t, nl, v, b)
  BY <1>1, <1>2, FrontOf
<1>4. Len(v) + 4 <= i
  <2>1. Min(Closings(t)) + 2 = Len(v) + 4
    BY <1>3, ClosedAt
  <2>2. Len(v) \in Nat /\ Len(t) \in Nat /\ i \in (Len(v) + 4) .. Len(t)
    BY <2>1
  <2> QED BY <2>2
<1>5. u[i + 2] = nl
  BY <1>1
<1>6. ~InRegion(t, i, "managed:start", "managed:end")
  BY DEF Inside
<1> QED BY <1>3, <1>4, <1>5, <1>6, ReadBelow

\* Where the user may write is in the text.
LEMMA BelowIn ==
  ASSUME NEW t \in Seq(Tokens), HasFrontmatter(t), NEW i \in (Min(Closings(t)) + 2) .. Len(t)
  PROVE  i \in Nat /\ i <= Len(t)
<1>1. Closings(t) \subseteq 3 .. Len(t) - 2 /\ Closings(t) # {}
  BY DEF Closings, HasFrontmatter
<1>2. PICK n : n = Min(Closings(t)) /\ n \in Closings(t)
  <2>1. Closings(t) \in SUBSET Nat
    BY <1>1
  <2>2. PICK e \in Closings(t) : TRUE
    BY <1>1
  <2> QED BY <2>1, <2>2, LeastIs
<1>3. n \in Nat /\ Len(t) \in Nat
  BY <1>1, <1>2
<1> QED BY <1>2, <1>3

\* Whatever the text, a line of the user's outside of the body's region changes
\* nothing of what inspect_managed_page reads: no page becomes unreadable or stale
\* by what is written beside it.
THEOREM MayWrite == Spec => UserMayWrite
<1>1. ASSUME TextOK, TextOK', edits' # edits, HasFrontmatter(text),
             NEW i \in (Min(Closings(text)) + 2) .. Len(text),
             ~Inside(text, i), InsertLine(i, UserLine, detect_newline(text))
      PROVE  inspect_managed_page(text') = inspect_managed_page(text)
  <2>1. text # NoFile
    BY <1>1 DEF InsertLine, Edited
  <2>2. PICK t \in Seq(Tokens) : t = text
    BY <1>1, <2>1 DEF TextOK
  <2>3. PICK u \in Seq(Tokens) \cup {NoFile} : u = text'
    BY <1>1 DEF TextOK
  <2>4. PICK line, nl : line = UserLine /\ nl = detect_newline(t)
    OBVIOUS
  <2>5. u = WithLine(t, i, line, nl)
    BY <1>1, <2>2, <2>3, <2>4 DEF InsertLine, WithLine
  <2>6. HasFrontmatter(t) /\ i \in (Min(Closings(t)) + 2) .. Len(t) /\ ~Inside(t, i)
    BY <1>1, <2>2
  <2>7. i \in Nat /\ i <= Len(t)
    BY <2>6, BelowIn
  <2>8. Splice(t, u, i, 0, 2) /\ u[i + 1] = line /\ u[i + 2] = nl
    <3>1. LineAt(t, u, i, line, nl)
      BY <2>5, <2>7, InsertIs
    <3> QED BY <3>1 DEF LineAt
  <2>9. inspect_managed_page(u) = inspect_managed_page(t)
    BY <2>4, <2>6, <2>8, ReadSame
  <2> QED BY <2>2, <2>3, <2>9
<1>2. TextOK /\ TextOK' /\ [Next]_vars
        => [edits' # edits /\ HasFrontmatter(text) /\ inspect_managed_page(text') # inspect_managed_page(text) =>
              ~\E i \in (Min(Closings(text)) + 2) .. Len(text) :
                 ~Inside(text, i) /\ InsertLine(i, UserLine, detect_newline(text))]_vars
  BY <1>1
<1> QED BY <1>2, TextType, PTL DEF Spec, UserMayWrite
=============================================================================
