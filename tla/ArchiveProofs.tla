--------------------------- MODULE ArchiveProofs ----------------------------
(***************************************************************************)
(* Theorems about one channel's recordings, for every schedule of ffmpeg,  *)
(* janitor, camera events, requests and restarts: the index and exports    *)
(* say what the directory holds (ListingsAreRight), the janitor takes what *)
(* it must and no more (DeletesWhatItMust), an open interval is filed      *)
(* before it is forgotten (OpenIsFiled), and what was filed is found again *)
(* (EventsAreFound).  They rest on lemmas about sums, quotients, least and *)
(* greatest elements, and on ArIInv: where an interval is filed, what a    *)
(* cached line and a cached listing still say, and that no two files have  *)
(* one name.                                                               *)
(***************************************************************************)
EXTENDS Archive, DataLemmas

-----------------------------------------------------------------------------
(* Sums of sizes, Total(S), in terms of SumOf.  The function on subsets     *)
(* that the definition of Total recurs on is the one of SumOf.             *)
Sizes(S) == [x \in S |-> x.size]

SizesOn(F, U) ==
    F = [s \in SUBSET U |-> IF s = {} THEN 0
                            ELSE (CHOOSE x \in s : TRUE).size + F[s \ {CHOOSE x \in s : TRUE}]]

LEMMA TotalIsSum ==
  ASSUME NEW U
  PROVE  Total(U) = (CHOOSE F : SizesOn(F, U))[U]
  BY DEF Total, MapThenSumSet, MapThenFoldSet, SizesOn

LEMMA TotalIsSumOf ==
  ASSUME NEW S, IsFiniteSet(S), NEW U \in SUBSET S
  PROVE  Total(U) = SumOf(Sizes(S), U)
  <1>1. PICK g : g = Sizes(S)
    OBVIOUS
  <1>2. ASSUME NEW F
        PROVE  SumOn(g, F, U) <=> SizesOn(F, U)
    <2>1. \A s \in SUBSET U : s # {} => g[CHOOSE x \in s : TRUE] = (CHOOSE x \in s : TRUE).size
      BY <1>1 DEF Sizes
    <2>2. [s \in SUBSET U |-> IF s = {} THEN 0
                              ELSE g[CHOOSE x \in s : TRUE] + F[s \ {CHOOSE x \in s : TRUE}]]
          = [s \in SUBSET U |-> IF s = {} THEN 0
                                ELSE (CHOOSE x \in s : TRUE).size + F[s \ {CHOOSE x \in s : TRUE}]]
      BY <2>1
    <2>3. QED
      BY <2>2 DEF SumOn, SizesOn
  <1>3. IsFiniteSet(U)
    BY FS_Subset
  <1>4. PICK H : SumOn(g, H, U)
    BY <1>3, SumExists
  <1>5. PICK F, G : F = (CHOOSE E : SizesOn(E, U)) /\ G = (CHOOSE E : SumOn(g, E, U))
    OBVIOUS
  <1>6. SumOn(g, G, U) /\ SizesOn(F, U)
    <2>1. SizesOn(H, U)
      BY <1>2, <1>4
    <2>2. QED
      BY <1>4, <1>5, <2>1
  <1>7. SumOn(g, F, U)
    BY <1>2, <1>6
  <1>8. Total(U) = F[U] /\ SumOf(g, U) = G[U]
    BY <1>5, TotalIsSum, SumOfIsSum
  <1>9. F[U] = G[U]
    BY <1>3, <1>6, <1>7, SumsAgree
  <1>10. QED
    BY <1>1, <1>8, <1>9

Sized(S) == IsFiniteSet(S) /\ \A x \in S : x.size \in Nat

LEMMA SizesCount ==
  ASSUME NEW S, Sized(S)
  PROVE  Counts(Sizes(S), S)
  BY DEF Sized, Counts, Sizes

LEMMA TotalOfNone == Total({}) = 0
  <1>1. PICK S : S = {}
    OBVIOUS
  <1>2. IsFiniteSet(S)
    BY <1>1, FS_EmptySet
  <1>3. QED
    BY <1>1, <1>2, TotalIsSumOf, SumOfStep

LEMMA TotalIsNat ==
  ASSUME NEW S, Sized(S)
  PROVE  Total(S) \in Nat
  <1>1. SumOf(Sizes(S), S) \in Nat
    BY SizesCount, SumOfIsNat
  <1>2. QED
    BY <1>1, TotalIsSumOf DEF Sized

(* The total of a part and of the rest.                                    *)
LEMMA TotalParts ==
  ASSUME NEW S, Sized(S), NEW P \in SUBSET S
  PROVE  Total(S) = Total(P) + Total(S \ P)
  <1>1. PICK R : R = S \ P
    OBVIOUS
  <1>2. SumOf(Sizes(S), S) = SumOf(Sizes(S), P) + SumOf(Sizes(S), R)
    BY <1>1, SizesCount, SumOfParts
  <1>3. R \in SUBSET S /\ IsFiniteSet(S)
    BY <1>1 DEF Sized
  <1>4. /\ Total(S) = SumOf(Sizes(S), S) /\ Total(P) = SumOf(Sizes(S), P)
        /\ Total(R) = SumOf(Sizes(S), R)
    BY <1>3, TotalIsSumOf
  <1>5. QED
    BY <1>1, <1>2, <1>4

-----------------------------------------------------------------------------
(* Days.                                                                   *)
LEMMA IntQuotient ==
  ASSUME NEW n \in Int, NEW k \in Nat \ {0}
  PROVE  /\ n \div k \in Int /\ n % k \in 0 .. k - 1
         /\ n = k * (n \div k) + (n % k)
  OBVIOUS

LEMMA Quotient ==
  ASSUME NEW n \in Nat, NEW k \in Nat \ {0}
  PROVE  /\ n \div k \in Nat /\ n % k \in 0 .. k - 1
         /\ n = k * (n \div k) + (n % k)
  OBVIOUS

LEMMA ProductOrder ==
  ASSUME NEW k \in Nat \ {0}, NEW a \in Int, NEW b \in Int, a > b
  PROVE  k * a >= k * b + k
  OBVIOUS

LEMMA QuotientIs ==
  ASSUME NEW k \in Nat \ {0}, NEW q \in Nat, NEW r \in 0 .. k - 1
  PROVE  (k * q + r) \div k = q
  <1>1. PICK n : n = k * q + r
    OBVIOUS
  <1>2. k * q \in Nat /\ n \in Nat
    BY <1>1
  <1>3. PICK p, s : p = n \div k /\ s = n % k
    OBVIOUS
  <1>4. p \in Nat /\ s \in 0 .. k - 1 /\ n = k * p + s
    BY <1>2, <1>3, Quotient
  <1>5. k * p \in Nat
    BY <1>4
  <1>6. ~ (p > q)
    <2>1. p > q => k * p >= k * q + k
      BY <1>4, ProductOrder
    <2>2. QED
      BY <1>1, <1>2, <1>4, <1>5, <2>1
  <1>7. ~ (q > p)
    <2>1. q > p => k * q >= k * p + k
      BY <1>4, ProductOrder
    <2>2. QED
      BY <1>1, <1>2, <1>4, <1>5, <2>1
  <1>8. QED
    BY <1>1, <1>3, <1>4, <1>6, <1>7

LEMMA QuotientMono ==
  ASSUME NEW k \in Nat \ {0}, NEW a \in Int, NEW b \in Int, a <= b
  PROVE  a \div k <= b \div k
  <1>1. PICK p, s, q, r : p = a \div k /\ s = a % k /\ q = b \div k /\ r = b % k
    OBVIOUS
  <1>2. p \in Int /\ s \in 0 .. k - 1 /\ a = k * p + s
    BY <1>1, IntQuotient
  <1>3. q \in Int /\ r \in 0 .. k - 1 /\ b = k * q + r
    BY <1>1, IntQuotient
  <1>4. p > q => k * p >= k * q + k
    BY <1>2, <1>3, ProductOrder
  <1>5. k * p \in Int /\ k * q \in Int
    BY <1>2, <1>3
  <1>6. QED
    BY <1>1, <1>2, <1>3, <1>4, <1>5

LEMMA QuotientStep ==
  ASSUME NEW k \in Nat \ {0}, NEW a \in Nat, NEW b \in Nat, b - a < k
  PROVE  b \div k <= a \div k + 1
  <1>1. PICK p, s, q, r : p = a \div k /\ s = a % k /\ q = b \div k /\ r = b % k
    OBVIOUS
  <1>2. p \in Nat /\ s \in 0 .. k - 1 /\ a = k * p + s
    BY <1>1, Quotient
  <1>3. q \in Nat /\ r \in 0 .. k - 1 /\ b = k * q + r
    BY <1>1, Quotient
  <1>4. q > p + 1 => k * q >= k * (p + 1) + k
    BY <1>2, <1>3, ProductOrder
  <1>5. k * p \in Nat /\ k * q \in Nat /\ k * (p + 1) = k * p + k
    BY <1>2, <1>3
  <1>6. QED
    BY <1>1, <1>2, <1>3, <1>4, <1>5

(* Rounding down to a multiple of m does not change the quotient by a      *)
(* multiple of m.                                                          *)
LEMMA RoundedQuotient ==
  ASSUME NEW m \in Nat \ {0}, NEW k \in Nat \ {0}, k % m = 0, NEW n \in Nat
  PROVE  ((n \div m) * m) \div k = n \div k
  <1>1. PICK c, q, r : c = k \div m /\ q = n \div k /\ r = n % k
    OBVIOUS
  <1>2. c \in Nat /\ k = m * c
    BY <1>1, Quotient
  <1>3. q \in Nat /\ r \in 0 .. k - 1 /\ n = k * q + r
    BY <1>1, Quotient
  <1>4. PICK u, v : u = r \div m /\ v = r % m
    OBVIOUS
  <1>5. r \in Nat /\ u \in Nat /\ v \in 0 .. m - 1 /\ r = m * u + v
    <2>1. r \in Nat
      BY <1>3
    <2>2. QED
      BY <1>4, <2>1, Quotient
  <1>6. c * q \in Nat /\ m * u \in Nat /\ k * q = m * (c * q)
    BY <1>2, <1>3, <1>5
  <1>7. PICK w : w = c * q + u
    OBVIOUS
  <1>8. w \in Nat /\ m * w = k * q + m * u
    BY <1>5, <1>6, <1>7
  <1>9. n = m * w + v
    BY <1>3, <1>5, <1>6, <1>8
  <1>10. n \div m = w
    BY <1>5, <1>8, <1>9, QuotientIs
  <1>11. w * m = k * q + m * u
    BY <1>8
  <1>12. m * u \in 0 .. k - 1
    BY <1>3, <1>5, <1>6
  <1>13. (k * q + m * u) \div k = q
    BY <1>3, <1>12, QuotientIs
  <1>14. QED
    BY <1>1, <1>10, <1>11, <1>13

-----------------------------------------------------------------------------
(* The listings.                                                           *)
Named(segs) == \A t \in segs : t.start \in Nat
NamesOf(segs) == {s.start : s \in segs}
Footage(segs, a, b) == {s.start : s \in {x \in segs : x.start < b /\ x.start + Dur(x, segs) > a}}

LEMMA DurFacts ==
  ASSUME NEW segs, Named(segs), NEW s, s.start \in Nat, NEW d, d = Dur(s, segs)
  PROVE  /\ d \in Nat /\ d <= SegSecs
         /\ \A t \in segs : t.start > s.start => d <= t.start - s.start
         /\ d = SegSecs \/ \E t \in segs : t.start > s.start /\ d = t.start - s.start
  <1>1. SegSecs \in Nat
    BY ArchiveAssumption
  <1>2. PICK G : G = {t.start - s.start : t \in {x \in segs : x.start > s.start}}
    OBVIOUS
  <1>3. d = Min(G \cup {SegSecs})
    BY <1>2 DEF Dur
  <1>4. \A t \in segs : t.start \in Nat /\ (t.start > s.start => t.start - s.start \in Nat)
    BY DEF Named
  <1>5. G \cup {SegSecs} \in SUBSET Nat
    BY <1>1, <1>2, <1>4
  <1>6. d \in G \cup {SegSecs} /\ \A x \in G \cup {SegSecs} : d <= x
    BY <1>3, <1>5, MinIsIn
  <1>7. QED
    BY <1>1, <1>2, <1>4, <1>5, <1>6

(* The durations in the widened window are those in the whole directory,   *)
(* for every file that has footage of the window.                          *)
LEMMA ExportHolds ==
  ASSUME Named(disk), NEW a \in Nat, NEW b \in Nat, a < b,
         NEW band, band = {s \in disk : s.start \in ExportBand(a, b)}
  PROVE  Footage(band, a, b) = Footage(disk, a, b)
  <1>1. a \in Nat /\ b \in Nat /\ SegSecs \in Nat
    BY ArchiveAssumption
  <1>2. band = {s \in disk : s.start \in (a - SegSecs) .. (b + SegSecs)}
    BY DEF ExportBand
  <1>4. Named(band) /\ band \subseteq disk
    BY <1>2 DEF Named
  <1>5. ASSUME NEW x \in disk, x.start < b
        PROVE  x.start + Dur(x, disk) > a <=> x \in band /\ x.start + Dur(x, band) > a
    <2>1. x.start \in Nat
      BY DEF Named
    <2>2. PICK d, e : d = Dur(x, disk) /\ e = Dur(x, band)
      OBVIOUS
    <2>3. /\ d \in Nat /\ d <= SegSecs
          /\ \A t \in disk : t.start > x.start => d <= t.start - x.start
          /\ d = SegSecs \/ \E t \in disk : t.start > x.start /\ d = t.start - x.start
      BY <2>1, <2>2, DurFacts
    <2>4. /\ e \in Nat /\ e <= SegSecs
          /\ \A t \in band : t.start > x.start => e <= t.start - x.start
          /\ e = SegSecs \/ \E t \in band : t.start > x.start /\ e = t.start - x.start
      <3>1. Named(band) /\ e = Dur(x, band)
        BY <1>4, <2>2
      <3>2. QED
        BY ONLY <2>1, <3>1, DurFacts
    <2>5. d <= e
      BY <1>1, <1>4, <2>3, <2>4
    <2>6. x.start + d > a => x \in band
      BY <1>1, <1>2, <1>5, <2>1, <2>3
    <2>7. ASSUME x \in band, x.start + e > a
          PROVE  x.start + d > a
      <3>1. SUFFICES ASSUME d < e
                     PROVE  x.start + d > a
        BY <1>1, <2>1, <2>3, <2>4, <2>5, <2>7
      <3>2. PICK t \in disk : t.start > x.start /\ d = t.start - x.start
        BY <1>1, <2>3, <2>4, <3>1
      <3>3. t.start \in Nat
        BY DEF Named
      <3>4. x.start >= a - SegSecs
        BY <1>2, <2>7
      <3>5. t \in band
        BY <1>1, <1>2, <1>5, <2>1, <2>3, <3>2, <3>3, <3>4
      <3>6. QED
        BY <1>1, <2>1, <2>3, <2>4, <3>1, <3>2, <3>3, <3>5
    <2>8. QED
      BY <1>1, <2>1, <2>2, <2>3, <2>4, <2>5, <2>6, <2>7
  <1>6. QED
    BY <1>4, <1>5 DEF Footage

(* Which files have footage depends on the names alone.                    *)
LEMMA FootageOfNames ==
  ASSUME NEW A, NEW B, NamesOf(A) = NamesOf(B), NEW a, NEW b
  PROVE  Footage(A, a, b) = Footage(B, a, b)
  <1>1. /\ \A x \in A : \E y \in B : x.start = y.start
        /\ \A y \in B : \E x \in A : x.start = y.start
    BY DEF NamesOf
  <1>2. ASSUME NEW x
        PROVE  Dur(x, A) = Dur(x, B)
    <2>1. PICK G, H : /\ G = {t.start - x.start : t \in {y \in A : y.start > x.start}}
                      /\ H = {t.start - x.start : t \in {y \in B : y.start > x.start}}
      OBVIOUS
    <2>2. G \subseteq H /\ H \subseteq G
      BY <1>1, <2>1
    <2>3. Dur(x, A) = Min(G \cup {SegSecs}) /\ Dur(x, B) = Min(H \cup {SegSecs})
      BY <2>1 DEF Dur
    <2>4. G = H
      BY <2>2
    <2>5. QED
      BY <2>3, <2>4
  <1>3. ASSUME NEW S, NEW x, NEW y, x.start = y.start
        PROVE  Dur(x, S) = Dur(y, S)
    BY <1>3 DEF Dur
  <1>4. ASSUME NEW x \in A, NEW y \in B, x.start = y.start
        PROVE  Dur(x, A) = Dur(y, B)
    BY <1>2, <1>3, <1>4
  <1>5. QED
    BY <1>1, <1>4 DEF Footage

-----------------------------------------------------------------------------
(* The janitor's choice.  The order is a strict one, total on files of     *)
(* different names.                                                        *)
Prec(S, x, now) == {y \in S : Before(y, x, now)}
Succ(S, x, now) == {y \in S : Before(x, y, now)}
Goes(S, now) == {x \in S : Total(S) - Total(Prec(S, x, now)) > Cap}
OneName(S) == \A x, y \in S : x.start = y.start => x = y

LEMMA TierFacts ==
  ASSUME NEW x, NEW now
  PROVE  /\ Tier(x, now) \in 1 .. 4
         /\ x.start >= now - KeepAllSecs => Tier(x, now) = 4
         /\ Tier(x, now) = 4 => x.start >= now - KeepAllSecs
         /\ x.event => Tier(x, now) # 1
         /\ ~ x.event => Tier(x, now) \in {1, 4}
  BY DEF Tier

LEMMA BeforeFacts ==
  ASSUME NEW S, Named(S), OneName(S), NEW now
  PROVE  /\ \A x \in S : ~ Before(x, x, now)
         /\ \A x, y, z \in S : Before(x, y, now) /\ Before(y, z, now) => Before(x, z, now)
         /\ \A x, y \in S : x # y => Before(x, y, now) \/ Before(y, x, now)
  <1>1. \A x \in S : x.start \in Nat /\ Tier(x, now) \in Nat
    <2> SUFFICES ASSUME NEW x \in S
                 PROVE  x.start \in Nat /\ Tier(x, now) \in Nat
      OBVIOUS
    <2>1. Tier(x, now) \in 1 .. 4
      BY TierFacts
    <2>2. QED
      BY <2>1 DEF Named
  <1>2. \A x \in S : ~ Before(x, x, now)
    BY <1>1 DEF Before
  <1>3. \A x, y, z \in S : Before(x, y, now) /\ Before(y, z, now) => Before(x, z, now)
    BY <1>1 DEF Before
  <1>4. \A x, y \in S : x # y => Before(x, y, now) \/ Before(y, x, now)
    BY <1>1 DEF Before, OneName
  <1>5. QED
    BY <1>2, <1>3, <1>4

LEMMA FirstOf ==
  ASSUME NEW S, IsFiniteSet(S), Named(S), OneName(S), NEW now, NEW L \in SUBSET S, L # {}
  PROVE  /\ \E m \in L : \A y \in L : y # m => Before(m, y, now)
         /\ \E m \in L : \A y \in L : y # m => Before(y, m, now)
  <1>1. /\ \A x \in S : ~ Before(x, x, now)
        /\ \A x, y, z \in S : Before(x, y, now) /\ Before(y, z, now) => Before(x, z, now)
        /\ \A x, y \in S : x # y => Before(x, y, now) \/ Before(y, x, now)
    BY BeforeFacts
  <1>2. \E m \in L : \A y \in L : y # m => Before(m, y, now)
    <2>1. PICK B : B = {Prec(S, x, now) : x \in L}
      OBVIOUS
    <2>2. B \in SUBSET (SUBSET S) /\ B # {}
      BY <2>1 DEF Prec
    <2>3. PICK s \in B : \A t \in B : t \subseteq s => t = s
      BY <2>2, SmallestSet
    <2>4. PICK m \in L : s = Prec(S, m, now)
      BY <2>1
    <2>5. ASSUME NEW y \in L, Before(y, m, now)
          PROVE  FALSE
      <3>1. PICK p : p = Prec(S, y, now)
        OBVIOUS
      <3>2. p \in B /\ p \subseteq s
        BY <1>1, <2>1, <2>4, <2>5, <3>1 DEF Prec
      <3>3. y \in s
        BY <2>4, <2>5 DEF Prec
      <3>4. y \in p
        BY <2>3, <3>2, <3>3
      <3>5. QED
        BY <1>1, <3>1, <3>4 DEF Prec
    <2>6. QED
      BY <1>1, <2>5
  <1>3. \E m \in L : \A y \in L : y # m => Before(y, m, now)
    <2>1. PICK B : B = {Succ(S, x, now) : x \in L}
      OBVIOUS
    <2>2. B \in SUBSET (SUBSET S) /\ B # {}
      BY <2>1 DEF Succ
    <2>3. PICK s \in B : \A t \in B : t \subseteq s => t = s
      BY <2>2, SmallestSet
    <2>4. PICK m \in L : s = Succ(S, m, now)
      BY <2>1
    <2>5. ASSUME NEW y \in L, Before(m, y, now)
          PROVE  FALSE
      <3>1. PICK p : p = Succ(S, y, now)
        OBVIOUS
      <3>2. p \in B /\ p \subseteq s
        BY <1>1, <2>1, <2>4, <2>5, <3>1 DEF Succ
      <3>3. y \in s
        BY <2>4, <2>5 DEF Succ
      <3>4. y \in p
        BY <2>3, <3>2, <3>3
      <3>5. QED
        BY <1>1, <3>1, <3>4 DEF Succ
    <2>6. QED
      BY <1>1, <2>5
  <1>4. QED
    BY <1>2, <1>3

LEMMA PrecSmaller ==
  ASSUME NEW S, Sized(S), Named(S), OneName(S), NEW now, NEW x \in S, NEW y \in S,
         Before(x, y, now), y \in Goes(S, now)
  PROVE  x \in Goes(S, now)
  <1>1. PICK p, q : p = Prec(S, x, now) /\ q = Prec(S, y, now)
    OBVIOUS
  <1>2. p \subseteq q /\ q \subseteq S
    BY <1>1, BeforeFacts DEF Prec
  <1>3. Sized(p) /\ Sized(q) /\ Sized(q \ p) /\ p \in SUBSET q
    BY <1>2, FS_Subset DEF Sized
  <1>4. Total(q) = Total(p) + Total(q \ p)
    BY <1>3, TotalParts
  <1>5. Total(p) \in Nat /\ Total(q \ p) \in Nat /\ Total(S) \in Nat /\ Cap \in Nat
    BY <1>3, TotalIsNat, ArchiveAssumption
  <1>6. Total(S) - Total(q) > Cap
    BY <1>1 DEF Goes
  <1>7. Total(S) - Total(p) > Cap
    BY <1>4, <1>5, <1>6
  <1>8. QED
    BY <1>1, <1>7 DEF Goes

LEMMA GoesFacts ==
  ASSUME NEW S, Sized(S), Named(S), OneName(S), NEW now, NEW G, G = Goes(S, now)
  PROVE  /\ Total(S \ G) <= Cap
         /\ G # {} => \E s \in G : Total((S \ G) \cup {s}) > Cap
         /\ \A s \in G : \A t \in S \ G : Before(s, t, now)
  <1>1. G \in SUBSET S /\ IsFiniteSet(S) /\ Cap \in Nat
    BY ArchiveAssumption DEF Goes, Sized
  <1>2. ASSUME NEW s \in G, NEW t \in S \ G
        PROVE  Before(s, t, now)
    <2>1. ~ Before(t, s, now)
      BY <1>1, PrecSmaller
    <2>2. QED
      BY <1>1, <2>1, BeforeFacts
  <1>3. Total(S \ G) <= Cap
    <2>1. CASE S \ G = {}
      <3>1. Total(S \ G) = 0
        BY <2>1, TotalOfNone
      <3>2. QED
        BY <1>1, <3>1
    <2>2. CASE S \ G # {}
      <3>1. PICK m \in S \ G : \A y \in S \ G : y # m => Before(m, y, now)
        BY <1>1, <2>2, FirstOf
      <3>2. Prec(S, m, now) = G
        BY <1>1, <1>2, <3>1, BeforeFacts DEF Prec
      <3>3. ~ (Total(S) - Total(G) > Cap)
        BY <3>1, <3>2 DEF Goes
      <3>4. Total(S) = Total(G) + Total(S \ G)
        BY <1>1, TotalParts
      <3>5. Sized(G) /\ Sized(S \ G)
        BY <1>1, FS_Subset DEF Sized
      <3>6. Total(G) \in Nat /\ Total(S \ G) \in Nat
        BY <3>5, TotalIsNat
      <3>7. QED
        BY <1>1, <3>3, <3>4, <3>6
    <2>3. QED
      BY <2>1, <2>2
  <1>4. ASSUME G # {}
        PROVE  \E s \in G : Total((S \ G) \cup {s}) > Cap
    <2>1. PICK m \in G : \A y \in G : y # m => Before(y, m, now)
      BY <1>1, <1>4, FirstOf
    <2>2. PICK p : p = Prec(S, m, now)
      OBVIOUS
    <2>3. p = G \ {m}
      BY <1>1, <1>2, <2>1, <2>2, BeforeFacts DEF Prec
    <2>4. (S \ G) \cup {m} = S \ p /\ p \in SUBSET S
      BY <1>1, <2>3
    <2>5. Total(S) = Total(p) + Total(S \ p)
      BY <2>4, TotalParts
    <2>6. Total(S) - Total(p) > Cap
      BY <2>1, <2>2 DEF Goes
    <2>7. Sized(p) /\ Sized(S \ p)
      BY <1>1, <2>4, FS_Subset DEF Sized
    <2>8. Total(p) \in Nat /\ Total(S \ p) \in Nat
      BY <2>7, TotalIsNat
    <2>9. Total(S \ p) > Cap
      BY <1>1, <2>5, <2>6, <2>8
    <2>10. QED
      BY <2>4, <2>9
  <1>5. QED
    BY <1>2, <1>3, <1>4

LEMMA TaggedFacts ==
  ASSUME disk \subseteq Seg, IsFiniteSet(disk), OneName(disk)
  PROVE  Sized(Tagged) /\ Named(Tagged) /\ OneName(Tagged)
  <1>1. PICK f : f = [s \in disk |-> [start |-> s.start, size |-> s.size,
                                    event |-> Overlaps(s.start, s.start + SegSecs)]]
    OBVIOUS
  <1>2. /\ Tagged = {f[s] : s \in disk} /\ DOMAIN f = disk
        /\ \A s \in disk : f[s].start = s.start /\ f[s].size = s.size
    BY <1>1 DEF Tagged
  <1>3. \A s \in disk : s.start \in Nat /\ s.size \in Nat
    BY ArchiveAssumption DEF Seg, Secs
  <1>4. f \in Surjection(disk, Tagged)
    <2>1. f \in [disk -> Tagged]
      BY <1>1, <1>2
    <2>2. \A t \in Tagged : \E s \in disk : f[s] = t
      BY <1>2
    <2>3. QED
      BY <2>1, <2>2 DEF Surjection
  <1>5. IsFiniteSet(Tagged)
    BY <1>4, FS_Surjection
  <1>6. Named(Tagged) /\ \A t \in Tagged : t.size \in Nat
    BY <1>2, <1>3 DEF Named
  <1>7. OneName(Tagged)
    <2> SUFFICES ASSUME NEW x \in Tagged, NEW y \in Tagged, x.start = y.start
                 PROVE  x = y
      BY DEF OneName
    <2>1. PICK s \in disk, u \in disk : x = f[s] /\ y = f[u]
      BY <1>2
    <2>2. s = u
      BY <1>2, <2>1 DEF OneName
    <2>3. QED
      BY <2>1, <2>2
  <1>8. QED
    BY <1>5, <1>6, <1>7 DEF Sized

LEMMA DeletesHolds ==
  ASSUME disk \subseteq Seg, IsFiniteSet(disk), OneName(disk)
  PROVE  DeletesWhatItMust
  <1>1. Sized(Tagged) /\ Named(Tagged) /\ OneName(Tagged)
    BY TaggedFacts
  <1>2. PICK S, now, G : S = Tagged /\ now = SecOf(clock) /\ G = Goes(S, now)
    OBVIOUS
  <1>3. JanitorDeleteOrder(S, now) = {s.start : s \in G}
    BY <1>2 DEF JanitorDeleteOrder, Goes, Prec
  <1>4. G \subseteq S /\ OneName(S)
    BY <1>1, <1>2 DEF Goes
  <1>5. {s \in S : s.start \in JanitorDeleteOrder(S, now)} = G
    BY <1>3, <1>4 DEF OneName
  <1>6. /\ Total(S \ G) <= Cap
        /\ G # {} => \E s \in G : Total((S \ G) \cup {s}) > Cap
        /\ \A s \in G : \A t \in S \ G : Before(s, t, now)
    <2>1. Sized(S) /\ Named(S) /\ OneName(S)
      BY <1>1, <1>2
    <2>2. QED
      BY <1>2, <2>1, GoesFacts
  <1>7. ASSUME NEW s \in G, NEW t \in S \ G
        PROVE  /\ s.start >= now - KeepAllSecs => t.start >= now - KeepAllSecs
               /\ s.event /\ ~ t.event => t.start >= now - KeepAllSecs
    <2>1. Before(s, t, now)
      BY <1>6
    <2>2. PICK i, j : i = Tier(s, now) /\ j = Tier(t, now)
      OBVIOUS
    <2>3. /\ i \in 1 .. 4 /\ (s.start >= now - KeepAllSecs => i = 4)
          /\ s.event => i # 1
      BY <2>2, TierFacts
    <2>4. /\ j \in 1 .. 4 /\ (j = 4 => t.start >= now - KeepAllSecs)
          /\ ~ t.event => j \in {1, 4}
      BY <2>2, TierFacts
    <2>5. i <= j
      BY <2>1, <2>2, <2>3, <2>4 DEF Before
    <2>6. QED
      BY <2>3, <2>4, <2>5
  <1>8. QED
    BY <1>2, <1>5, <1>6, <1>7 DEF DeletesWhatItMust

-----------------------------------------------------------------------------
(* The event store.  An interval is in the files of the day it starts and  *)
(* of the day it ends, which is the same or the next one, but for lines    *)
(* that were lost; cached lines that are still used say of an interval     *)
(* what the file says, but for the plate.                                  *)
OpenInterval == [startMs : 0 .. MaxTime, plate : Plates \cup {NoPlate}]
SameTimes(iv, jv) == iv.start = jv.start /\ iv.end = jv.end /\ iv.kind = jv.kind

FiledWhere(iv) ==
    /\ DayOf(iv.start) \in Days /\ DayOf(iv.end) \in Days
    /\ DayOf(iv.end) \in {DayOf(iv.start), DayOf(iv.start) + 1}
    /\ \A d \in {DayOf(iv.start), DayOf(iv.end)} :
         iv \in ToSet(filed[d]) \/ <<d, iv>> \in unwritten

CacheTrue(d) ==
    dayCache[d].len = Len(filed[d]) =>
        /\ Len(dayCache[d].ivals) = Len(filed[d])
        /\ \A i \in 1 .. Len(filed[d]) : SameTimes(dayCache[d].ivals[i], filed[d][i])

OpenKept ==
    /\ clock \in 0 .. MaxTime
    /\ DOMAIN open = Kinds
    /\ \A k \in Kinds : open[k] \in OpenInterval /\ open[k].startMs <= clock

FilesKept ==
    /\ DOMAIN filed = Days /\ \A d \in Days : filed[d] \in Seq(Interval)
    /\ \A d \in Days : \A iv \in ToSet(filed[d]) : FiledWhere(iv)

CacheKept ==
    /\ DOMAIN dayCache = Days
    /\ \A d \in Days : dayCache[d] \in [len : Nat, ivals : Seq(Interval)] /\ CacheTrue(d)

EvInv == OpenKept /\ FilesKept /\ CacheKept

LEMMA DayOfSec ==
  ASSUME NEW ms \in Nat
  PROVE  SecOf(ms) \in Nat /\ DayOf(SecOf(ms)) = DayOfMs(ms) /\ DayOfMs(ms) \in Nat
  <1>1. /\ MsPerSec \in Nat \ {0} /\ DayMs \in Nat \ {0} /\ DayMs % MsPerSec = 0
    BY EventAssumption
  <1>2. ms \div MsPerSec \in Nat
    BY <1>1, Quotient
  <1>3. ms \div DayMs \in Nat
    BY <1>1, Quotient
  <1>4. ((ms \div MsPerSec) * MsPerSec) \div DayMs = ms \div DayMs
    BY <1>1, RoundedQuotient
  <1>5. QED
    BY <1>2, <1>3, <1>4 DEF SecOf, DayOf, DayOfMs

LEMMA DayIsThere ==
  ASSUME NEW ms \in Nat, ms <= MaxTime + MaxEventMs
  PROVE  DayOfMs(ms) \in Days
  <1>1. MaxTime + MaxEventMs \in Nat /\ DayMs \in Nat \ {0}
    BY EventAssumption
  <1>2. ms \div DayMs <= (MaxTime + MaxEventMs) \div DayMs
    BY <1>1, QuotientMono
  <1>3. ms \div DayMs \in Nat /\ (MaxTime + MaxEventMs) \div DayMs \in Nat
    BY <1>1, Quotient
  <1>4. QED
    BY <1>2, <1>3 DEF DayOfMs, Days

LEMMA ClosedFacts ==
  ASSUME NEW k \in Kinds, NEW cur \in OpenInterval, NEW endMs \in Nat,
         cur.startMs <= endMs, endMs <= cur.startMs + MaxEventMs,
         NEW iv, iv = Closed(k, cur, endMs)
  PROVE  /\ iv \in Interval /\ iv.kind = k /\ iv.start = SecOf(cur.startMs) /\ iv.plate = cur.plate
         /\ DayOf(iv.start) = DayOfMs(cur.startMs) /\ DayOf(iv.end) = DayOfMs(endMs)
         /\ DayOfMs(cur.startMs) \in Days /\ DayOfMs(endMs) \in Days
         /\ DayOfMs(endMs) \in {DayOfMs(cur.startMs), DayOfMs(cur.startMs) + 1}
  <1>1. PICK s : s = cur.startMs
    OBVIOUS
  <1>2. s \in Nat /\ s <= MaxTime /\ cur.plate \in Plates \cup {NoPlate}
    BY <1>1, EventAssumption DEF OpenInterval
  <1>3. /\ iv.start = SecOf(s) /\ iv.end = SecOf(endMs) /\ iv.kind = k /\ iv.plate = cur.plate
        /\ iv = [start |-> SecOf(s), end |-> SecOf(endMs), kind |-> k, plate |-> cur.plate]
    BY <1>1 DEF Closed
  <1>4. /\ SecOf(s) \in Nat /\ DayOf(SecOf(s)) = DayOfMs(s) /\ DayOfMs(s) \in Nat
        /\ SecOf(endMs) \in Nat /\ DayOf(SecOf(endMs)) = DayOfMs(endMs) /\ DayOfMs(endMs) \in Nat
    BY <1>2, DayOfSec
  <1>5. iv \in Interval
    BY <1>2, <1>3, <1>4 DEF Interval
  <1>6. DayOfMs(s) \in Days /\ DayOfMs(endMs) \in Days
    <2>1. s <= MaxTime + MaxEventMs /\ endMs <= MaxTime + MaxEventMs
      BY <1>1, <1>2, EventAssumption
    <2>2. QED
      BY <1>2, <2>1, DayIsThere
  <1>7. DayOfMs(s) <= DayOfMs(endMs) /\ DayOfMs(endMs) <= DayOfMs(s) + 1
    <2>1. DayMs \in Nat \ {0} /\ endMs - s < DayMs /\ s <= endMs
      BY <1>1, <1>2, EventAssumption
    <2>2. QED
      BY <1>2, <2>1, QuotientMono, QuotientStep DEF DayOfMs
  <1>8. DayOfMs(endMs) \in {DayOfMs(s), DayOfMs(s) + 1}
    BY <1>4, <1>7
  <1>9. QED
    BY <1>1, <1>3, <1>4, <1>5, <1>6, <1>8

LEMMA Appended ==
  ASSUME NEW S, NEW c \in Seq(S), NEW e \in S
  PROVE  /\ Append(c, e) \in Seq(S) /\ Len(Append(c, e)) = Len(c) + 1
         /\ Last(Append(c, e)) = e /\ ToSet(c) \subseteq ToSet(Append(c, e))
         /\ e \in ToSet(Append(c, e)) /\ ToSet(Append(c, e)) \subseteq ToSet(c) \cup {e}
  <1>1. PICK a : a = Append(c, e)
    OBVIOUS
  <1>2. /\ a \in Seq(S) /\ Len(a) = Len(c) + 1 /\ a[Len(c) + 1] = e
        /\ \A i \in 1 .. Len(c) : a[i] = c[i]
    BY <1>1
  <1>3. Last(a) = e
    BY <1>2 DEF Last
  <1>4. DOMAIN a = 1 .. Len(c) + 1 /\ DOMAIN c = 1 .. Len(c) /\ Len(c) \in Nat
    BY <1>2
  <1>5. QED
    BY <1>1, <1>2, <1>3, <1>4 DEF ToSet

(* What OpenIsFiled asks of the days of a closed interval, ...             *)
LastOn(iv) ==
    \A d \in {DayOf(iv.start), DayOf(iv.end)} :
        /\ \/ filed'[d] = Append(filed[d], iv)
           \/ filed'[d] = filed[d] /\ <<d, iv>> \in unwritten'
        /\ EventsForDay(d)' = filed'[d]

(* ... and of a step that is no restart.                                   *)
Files(k) ==
    open[k] # NotOpen /\ open'[k].startMs # open[k].startMs =>
        \E end \in SecOf(open[k].startMs) .. SecOf(open[k].startMs + MaxEventMs) :
            LastOn([start |-> SecOf(open[k].startMs), end |-> end,
                    kind |-> k, plate |-> open[k].plate])

LEMMA SecMono ==
  ASSUME NEW x \in Nat, NEW y \in Nat, x <= y
  PROVE  SecOf(x) \in Nat /\ SecOf(y) \in Nat /\ SecOf(x) <= SecOf(y)
  BY EventAssumption, Quotient, QuotientMono DEF SecOf

(* fileInterval, with the days that closeInterval gives it: whichever of   *)
(* the lines are lost.                                                     *)
LEMMA CloseKeeps ==
  ASSUME FilesKept, CacheKept, NEW k \in Kinds, NEW cur \in OpenInterval, NEW endMs \in Nat,
         cur.startMs <= endMs, endMs <= cur.startMs + MaxEventMs, CloseInterval(k, cur, endMs)
  PROVE  /\ FilesKept' /\ CacheKept'
         /\ \E end \in SecOf(cur.startMs) .. SecOf(cur.startMs + MaxEventMs) :
              LastOn([start |-> SecOf(cur.startMs), end |-> end, kind |-> k, plate |-> cur.plate])
  <1>1. PICK iv, d, e : iv = Closed(k, cur, endMs) /\ d = DayOfMs(cur.startMs) /\ e = DayOfMs(endMs)
    OBVIOUS
  <1>2. /\ iv \in Interval /\ iv.kind = k /\ iv.start = SecOf(cur.startMs) /\ iv.plate = cur.plate
        /\ DayOf(iv.start) = d /\ DayOf(iv.end) = e /\ d \in Days /\ e \in Days
        /\ e \in {d, d + 1}
    BY <1>1, ClosedFacts
  <1>3. PICK lost \in SUBSET {d, e} :
          /\ unwritten' = unwritten \cup (lost \X {iv})
          /\ filed' = [x \in Days |-> IF x \in {d, e} \ lost THEN Append(filed[x], iv) ELSE filed[x]]
          /\ dayCache' = [x \in Days |-> IF x \in {d, e} THEN NotCached ELSE dayCache[x]]
    BY <1>1 DEF CloseInterval, FileInterval
  <1>4. ASSUME NEW x \in Days
        PROVE  /\ filed'[x] \in Seq(Interval) /\ ToSet(filed[x]) \subseteq ToSet(filed'[x])
               /\ ToSet(filed'[x]) \subseteq ToSet(filed[x]) \cup {iv}
               /\ x \in {d, e} \ lost => /\ filed'[x] = Append(filed[x], iv) /\ iv \in ToSet(filed'[x])
                                         /\ Len(filed'[x]) = Len(filed[x]) + 1
               /\ x \notin {d, e} \ lost => filed'[x] = filed[x]
    <2>1. filed[x] \in Seq(Interval)
      BY DEF FilesKept
    <2>2. CASE x \in {d, e} \ lost
      <3>1. filed'[x] = Append(filed[x], iv)
        BY <1>3, <2>2
      <3>2. QED
        BY <1>2, <2>1, <2>2, <3>1, Appended
    <2>3. CASE x \notin {d, e} \ lost
      BY <1>3, <2>1, <2>3
    <2>4. QED
      BY <2>2, <2>3
  <1>5. \A x \in lost : <<x, iv>> \in unwritten'
    BY <1>3
  <1>6. FilesKept'
    <2>1. ASSUME NEW x \in Days, NEW jv \in ToSet(filed'[x])
          PROVE  FiledWhere(jv)'
      <3>1. CASE jv = iv
        <4>1. \A y \in {d, e} : iv \in ToSet(filed'[y]) \/ <<y, iv>> \in unwritten'
          BY <1>2, <1>4, <1>5
        <4>2. QED
          BY <1>2, <3>1, <4>1 DEF FiledWhere
      <3>2. CASE jv \in ToSet(filed[x])
        <4>1. FiledWhere(jv)
          BY <3>2 DEF FilesKept
        <4>2. unwritten \subseteq unwritten'
          BY <1>3
        <4>3. QED
          BY <1>4, <4>1, <4>2 DEF FiledWhere
      <3>3. QED
        BY <1>4, <3>1, <3>2
    <2>2. DOMAIN filed' = Days
      BY <1>3
    <2>3. QED
      BY <1>4, <2>1, <2>2 DEF FilesKept
  <1>7. ASSUME NEW x \in {d, e}
        PROVE  /\ dayCache'[x] \in [len : Nat, ivals : Seq(Interval)] /\ CacheTrue(x)'
               /\ EventsForDay(x)' = filed'[x]
    <2>1. PICK y, f : y = dayCache'[x] /\ f = filed'[x]
      OBVIOUS
    <2>2. y = NotCached /\ f \in Seq(Interval)
      BY <1>2, <1>3, <1>4, <2>1
    <2>3. y.len = 0 /\ y.ivals = <<>> /\ y \in [len : Nat, ivals : Seq(Interval)]
      BY <2>2 DEF NotCached
    <2>4. y.len = Len(f) => f = <<>>
      BY <2>2, <2>3
    <2>5. CacheTrue(x)'
      <3>1. y.len = Len(f) => Len(y.ivals) = Len(f) /\ \A i \in 1 .. Len(f) : FALSE
        BY <2>3, <2>4
      <3>2. QED
        BY <2>1, <3>1 DEF CacheTrue
    <2>6. EventsForDay(x)' = filed'[x]
      BY <2>1, <2>3, <2>4 DEF EventsForDay
    <2>7. QED
      BY <2>1, <2>3, <2>5, <2>6
  <1>8. CacheKept'
    <2>1. ASSUME NEW x \in Days, x \notin {d, e}
          PROVE  dayCache'[x] \in [len : Nat, ivals : Seq(Interval)] /\ CacheTrue(x)'
      <3>1. dayCache'[x] = dayCache[x] /\ filed'[x] = filed[x]
        BY <1>3, <2>1
      <3>2. QED
        BY <3>1 DEF CacheKept, CacheTrue
    <2>2. DOMAIN dayCache' = Days
      BY <1>3
    <2>3. QED
      BY <1>7, <2>1, <2>2 DEF CacheKept
  <1>9. LastOn(iv)
    <2>1. ASSUME NEW x \in {d, e}
          PROVE  /\ filed'[x] = Append(filed[x], iv) \/ (filed'[x] = filed[x] /\ <<x, iv>> \in unwritten')
                 /\ EventsForDay(x)' = filed'[x]
      BY <1>2, <1>4, <1>5, <1>7
    <2>2. QED
      BY <1>2, <2>1 DEF LastOn
  <1>10. PICK s : s = cur.startMs
    OBVIOUS
  <1>11. s \in Nat /\ s + MaxEventMs \in Nat
    BY <1>10, EventAssumption DEF OpenInterval
  <1>12. SecOf(endMs) \in SecOf(s) .. SecOf(s + MaxEventMs)
    <2>1. SecOf(s) <= SecOf(endMs) /\ SecOf(endMs) <= SecOf(s + MaxEventMs)
      BY <1>10, <1>11, SecMono
    <2>2. SecOf(s) \in Nat /\ SecOf(endMs) \in Nat /\ SecOf(s + MaxEventMs) \in Nat
      BY <1>11, SecMono
    <2>3. QED
      BY <2>1, <2>2
  <1>13. iv = [start |-> SecOf(s), end |-> SecOf(endMs), kind |-> k, plate |-> cur.plate]
    BY <1>1, <1>10 DEF Closed
  <1>14. QED
    BY <1>6, <1>8, <1>9, <1>10, <1>12, <1>13

LEMMA AddEdgeKeeps ==
  ASSUME EvInv, NEW k \in Kinds, AddEdge(k), UNCHANGED clock
  PROVE  EvInv' /\ \A j \in Kinds : Files(j)
  <1>1. /\ clock \in 0 .. MaxTime /\ clock \in Nat /\ DOMAIN open = Kinds /\ MaxEventMs \in Nat
        /\ \A j \in Kinds : open[j] \in OpenInterval /\ open[j].startMs <= clock
        /\ FilesKept /\ CacheKept
    BY EventAssumption DEF EvInv, OpenKept
  <1>2. PICK cur : cur = open[k]
    OBVIOUS
  <1>3. cur \in OpenInterval /\ cur.startMs \in Nat /\ cur.startMs <= clock
    BY <1>1, <1>2 DEF OpenInterval
  <1>4. PICK o : o \in OpenInterval /\ o.startMs <= clock /\ open' = [open EXCEPT ![k] = o]
    <2>1. CASE StartEdge(k)
      <3>1. PICK o : o = [startMs |-> clock, plate |-> NoPlate]
        OBVIOUS
      <3>2. o \in OpenInterval /\ o.startMs <= clock
        BY <1>1, <3>1 DEF OpenInterval
      <3>3. QED
        BY <2>1, <3>1, <3>2 DEF StartEdge
    <2>2. CASE EndEdge(k)
      <3>1. PICK o : o = NotOpen
        OBVIOUS
      <3>2. o \in OpenInterval /\ o.startMs <= clock
        BY <1>1, <3>1, EventAssumption DEF OpenInterval, NotOpen
      <3>3. QED
        BY <2>2, <3>1, <3>2 DEF EndEdge
    <2>3. QED
      BY <2>1, <2>2 DEF AddEdge
  <1>5. OpenKept'
    BY <1>1, <1>4 DEF OpenKept
  <1>6. CASE cur = NotOpen
    <2>1. UNCHANGED <<filed, dayCache, unwritten>>
      BY <1>2, <1>6 DEF AddEdge, StartEdge, EndEdge
    <2>2. FilesKept' /\ CacheKept'
      BY <1>1, <2>1 DEF FilesKept, CacheKept, FiledWhere, CacheTrue
    <2>3. \A j \in Kinds : Files(j)
      BY <1>1, <1>2, <1>4, <1>6 DEF Files
    <2>4. QED
      BY <1>5, <2>2, <2>3 DEF EvInv
  <1>7. CASE cur # NotOpen
    <2>1. PICK e \in Nat : /\ cur.startMs <= e /\ e <= cur.startMs + MaxEventMs
                           /\ CloseInterval(k, cur, e)
      <3>1. cur.startMs + MaxEventMs \in Nat
        BY <1>1, <1>3
      <3>2. CASE StartEdge(k)
        BY <1>1, <1>2, <1>3, <1>7, <3>1, <3>2 DEF StartEdge
      <3>3. CASE EndEdge(k)
        <4>1. PICK l : l = cur.startMs + MaxEventMs
          OBVIOUS
        <4>2. CloseInterval(k, cur, IF clock > l THEN l ELSE clock)
          BY <1>2, <1>7, <3>3, <4>1 DEF EndEdge
        <4>3. CASE clock > l
          <5>1. CloseInterval(k, cur, l)
            BY <4>2, <4>3
          <5>2. QED
            BY <1>1, <1>3, <4>1, <5>1
        <4>4. CASE ~ (clock > l)
          <5>1. CloseInterval(k, cur, clock)
            BY <4>2, <4>4
          <5>2. QED
            BY <1>1, <1>3, <4>1, <4>4, <5>1
        <4>5. QED
          BY <4>3, <4>4
      <3>4. QED
        BY <3>2, <3>3 DEF AddEdge
    <2>3. /\ FilesKept' /\ CacheKept'
          /\ \E end \in SecOf(cur.startMs) .. SecOf(cur.startMs + MaxEventMs) :
               LastOn([start |-> SecOf(cur.startMs), end |-> end, kind |-> k, plate |-> cur.plate])
      BY <1>1, <1>3, <2>1, CloseKeeps
    <2>4. \A j \in Kinds : Files(j)
      <3>1. ASSUME NEW j \in Kinds, j # k
            PROVE  open'[j] = open[j]
        BY <1>1, <1>4, <3>1
      <3>2. Files(k)
        BY <1>2, <2>3 DEF Files
      <3>3. QED
        BY <3>1, <3>2 DEF Files
    <2>5. QED
      BY <1>5, <2>3, <2>4 DEF EvInv
  <1>8. QED
    BY <1>6, <1>7

(* Another plate for one of the cached lines.                              *)
Edited(c, at, p) == [c EXCEPT ![at].plate = p]

LEMMA LineEdited ==
  ASSUME NEW c, c \in Seq(Interval), NEW at, NEW p \in Plates, NEW a, a = Edited(c, at, p)
  PROVE  /\ a \in Seq(Interval) /\ Len(a) = Len(c)
         /\ \A i \in 1 .. Len(c) : SameTimes(a[i], c[i])
  <1>1. PICK n : n = Len(c)
    OBVIOUS
  <1>2. n \in Nat /\ DOMAIN c = 1 .. n /\ \A i \in 1 .. n : c[i] \in Interval
    BY <1>1
  <1>3. DOMAIN a = 1 .. n
    BY <1>2 DEF Edited
  <1>4. ASSUME NEW i \in 1 .. n
        PROVE  a[i] \in Interval /\ SameTimes(a[i], c[i])
    <2>1. PICK x : x = c[i]
      OBVIOUS
    <2>2. x \in Interval
      BY <1>2, <2>1
    <2>3. CASE i = at
      <3>1. PICK y : y = [x EXCEPT !.plate = p]
        OBVIOUS
      <3>2. a[i] = y
        BY <1>2, <2>1, <2>3, <3>1 DEF Edited
      <3>3. y \in Interval
        BY <2>2, <3>1 DEF Interval
      <3>4. SameTimes(y, x)
        BY <2>2, <3>1 DEF Interval, SameTimes
      <3>5. QED
        BY <2>1, <3>2, <3>3, <3>4
    <2>4. CASE i # at
      <3>1. a[i] = x
        BY <1>2, <2>1, <2>4 DEF Edited
      <3>2. QED
        BY <2>1, <2>2, <3>1 DEF SameTimes
    <2>5. QED
      BY <2>3, <2>4
  <1>5. a \in [1 .. n -> Interval]
    <2>1. a = [i \in 1 .. n |-> a[i]]
      BY <1>2 DEF Edited
    <2>2. \A i \in 1 .. n : a[i] \in Interval
      BY <1>4
    <2>3. QED
      BY <2>1, <2>2
  <1>6. a \in Seq(Interval) /\ Len(a) = n
    <2>1. n \in Nat
      BY <1>2
    <2>2. QED
      BY ONLY <2>1, <1>5
  <1>7. QED
    BY <1>1, <1>4, <1>6

LEMMA PlateKeeps ==
  ASSUME EvInv, NEW ts \in 1 .. clock, NEW p \in Plates, UpdateOpenPlate(ts, p), UNCHANGED clock
  PROVE  EvInv' /\ \A j \in Kinds : Files(j)
  <1>1. /\ clock \in 0 .. MaxTime /\ DOMAIN open = Kinds
        /\ \A j \in Kinds : open[j] \in OpenInterval /\ open[j].startMs <= clock
    BY DEF EvInv, OpenKept
  <1>2. CASE /\ \E k \in Kinds : open' = [open EXCEPT ![k].plate = p]
             /\ UNCHANGED <<filed, dayCache, unwritten, edges>>
    <2>1. PICK k \in Kinds : open' = [open EXCEPT ![k].plate = p]
      BY <1>2
    <2>2. PICK o : o = open[k]
      OBVIOUS
    <2>3. PICK n : n = [o EXCEPT !.plate = p]
      OBVIOUS
    <2>4. n \in OpenInterval /\ n.startMs = o.startMs
      BY <1>1, <2>2, <2>3 DEF OpenInterval
    <2>5. open' = [open EXCEPT ![k] = n]
      BY <2>1, <2>2, <2>3
    <2>6. \A j \in Kinds : open'[j] \in OpenInterval /\ open'[j].startMs = open[j].startMs
      BY <1>1, <2>2, <2>4, <2>5
    <2>7. OpenKept'
      BY <1>1, <2>5, <2>6 DEF OpenKept
    <2>8. FilesKept' /\ CacheKept'
      BY <1>2 DEF EvInv, FilesKept, CacheKept, FiledWhere, CacheTrue
    <2>9. QED
      BY <2>6, <2>7, <2>8 DEF EvInv, Files
  <1>3. CASE /\ \E at : dayCache' = [dayCache EXCEPT ![DayOfMs(ts)].ivals[at].plate = p]
             /\ UNCHANGED <<open, filed, unwritten, edges>>
    <2>1. PICK at : dayCache' = [dayCache EXCEPT ![DayOfMs(ts)].ivals[at].plate = p]
      BY <1>3
    <2>2. PICK d : d = DayOfMs(ts)
      OBVIOUS
    <2>3. ts \in Nat /\ ts <= MaxTime + MaxEventMs
      BY <1>1, EventAssumption
    <2>4. d \in Days
      BY <2>2, <2>3, DayIsThere
    <2>5. PICK y, c : y = dayCache[d] /\ c = y.ivals
      OBVIOUS
    <2>6. y \in [len : Nat, ivals : Seq(Interval)] /\ c \in Seq(Interval) /\ CacheTrue(d)
      BY <2>4, <2>5 DEF EvInv, CacheKept
    <2>7. PICK a : a = Edited(c, at, p)
      OBVIOUS
    <2>8. /\ a \in Seq(Interval) /\ Len(a) = Len(c)
          /\ \A i \in 1 .. Len(c) : SameTimes(a[i], c[i])
      <3>1. c \in Seq(Interval) /\ p \in Plates
        BY <2>6
      <3>2. QED
        BY ONLY <2>7, <3>1, LineEdited
    <2>9. PICK z : z = [y EXCEPT !.ivals = a]
      OBVIOUS
    <2>10. z \in [len : Nat, ivals : Seq(Interval)] /\ z.len = y.len /\ z.ivals = a
      BY <2>6, <2>8, <2>9
    <2>11. dayCache' = [dayCache EXCEPT ![d] = z]
      BY <2>1, <2>2, <2>5, <2>7, <2>9 DEF Edited
    <2>12. /\ DOMAIN dayCache' = Days /\ dayCache'[d] = z
           /\ \A x \in Days : x # d => dayCache'[x] = dayCache[x]
      BY <2>4, <2>11 DEF EvInv, CacheKept
    <2>13. ASSUME NEW x \in Days
           PROVE  dayCache'[x] \in [len : Nat, ivals : Seq(Interval)] /\ CacheTrue(x)'
      <3>1. CASE x = d
        <4>1. UNCHANGED filed
          BY <1>3
        <4>2. z.len = Len(filed[d]) => /\ Len(z.ivals) = Len(filed[d])
                                      /\ \A i \in 1 .. Len(filed[d]) : SameTimes(z.ivals[i], filed[d][i])
          BY <2>5, <2>6, <2>8, <2>10 DEF CacheTrue, SameTimes
        <4>3. QED
          BY <2>10, <2>12, <3>1, <4>1, <4>2 DEF CacheTrue
      <3>2. CASE x # d
        BY <1>3, <2>12, <3>2 DEF EvInv, CacheKept, CacheTrue
      <3>3. QED
        BY <3>1, <3>2
    <2>14. CacheKept'
      BY <2>12, <2>13 DEF CacheKept
    <2>15. OpenKept' /\ FilesKept'
      BY <1>1, <1>3 DEF EvInv, OpenKept, FilesKept, FiledWhere
    <2>16. QED
      BY <1>3, <2>14, <2>15 DEF EvInv, Files
  <1>4. QED
    BY <1>2, <1>3 DEF UpdateOpenPlate

LEMMA LoadDayKeeps ==
  ASSUME EvInv, NEW d \in Days, LoadDay(d), UNCHANGED clock
  PROVE  EvInv' /\ \A j \in Kinds : Files(j)
  <1>1. PICK z : z = [len |-> Len(filed[d]), ivals |-> filed[d]]
    OBVIOUS
  <1>2. filed[d] \in Seq(Interval)
    BY DEF EvInv, FilesKept
  <1>3. z \in [len : Nat, ivals : Seq(Interval)] /\ z.len = Len(filed[d]) /\ z.ivals = filed[d]
    BY <1>1, <1>2
  <1>4. dayCache' = [dayCache EXCEPT ![d] = z] /\ UNCHANGED <<open, filed, unwritten>>
    BY <1>1 DEF LoadDay
  <1>5. /\ DOMAIN dayCache' = Days /\ dayCache'[d] = z
        /\ \A x \in Days : x # d => dayCache'[x] = dayCache[x]
    BY <1>4 DEF EvInv, CacheKept
  <1>6. ASSUME NEW x \in Days
        PROVE  dayCache'[x] \in [len : Nat, ivals : Seq(Interval)] /\ CacheTrue(x)'
    <2>1. CASE x = d
      BY <1>3, <1>4, <1>5, <2>1 DEF CacheTrue, SameTimes
    <2>2. CASE x # d
      BY <1>4, <1>5, <2>2 DEF EvInv, CacheKept, CacheTrue
    <2>3. QED
      BY <2>1, <2>2
  <1>7. CacheKept'
    BY <1>5, <1>6 DEF CacheKept
  <1>8. OpenKept' /\ FilesKept'
    BY <1>4 DEF EvInv, OpenKept, FilesKept, FiledWhere
  <1>9. QED
    BY <1>4, <1>7, <1>8 DEF EvInv, Files

LEMMA EmptyStore ==
  ASSUME NEW z, z = NotCached
  PROVE  z \in [len : Nat, ivals : Seq(Interval)] /\ z.len = 0 /\ Len(z.ivals) = 0
  BY DEF NotCached

LEMMA ClearedKeeps ==
  ASSUME clock' \in 0 .. MaxTime, open' = [k \in Kinds |-> NotOpen],
         dayCache' = [d \in Days |-> NotCached],
         \A d \in Days : filed'[d] \in Seq(Interval)
  PROVE  OpenKept' /\ CacheKept'
  <1>1. NotOpen \in OpenInterval /\ NotOpen.startMs <= clock'
    BY EventAssumption DEF NotOpen, OpenInterval
  <1>2. OpenKept'
    BY <1>1 DEF OpenKept
  <1>3. ASSUME NEW x \in Days
        PROVE  dayCache'[x] \in [len : Nat, ivals : Seq(Interval)] /\ CacheTrue(x)'
    <2>1. PICK z : z = dayCache'[x]
      OBVIOUS
    <2>2. z \in [len : Nat, ivals : Seq(Interval)] /\ z.len = 0 /\ Len(z.ivals) = 0
      BY <2>1, EmptyStore
    <2>3. 0 = Len(filed'[x]) => \A i \in 1 .. Len(filed'[x]) : FALSE
      OBVIOUS
    <2>4. QED
      BY <2>1, <2>2, <2>3 DEF CacheTrue
  <1>4. CacheKept'
    BY <1>3 DEF CacheKept
  <1>5. QED
    BY <1>2, <1>4

LEMMA EvRestartKeeps ==
  ASSUME EvInv, EvRestart, UNCHANGED clock
  PROVE  EvInv'
  <1>1. FilesKept' /\ \A d \in Days : filed'[d] \in Seq(Interval)
    BY DEF EvRestart, EvInv, FilesKept, FiledWhere
  <1>2. OpenKept' /\ CacheKept'
    BY <1>1, ClearedKeeps DEF EvRestart, EvInv, OpenKept
  <1>3. QED
    BY <1>1, <1>2 DEF EvInv

LEMMA EvUnchanged ==
  ASSUME EvInv, UNCHANGED evVars, clock' \in 0 .. MaxTime, clock' >= clock
  PROVE  EvInv' /\ \A j \in Kinds : Files(j)
  <1>1. FilesKept' /\ CacheKept'
    BY DEF evVars, EvInv, FilesKept, CacheKept, FiledWhere, CacheTrue
  <1>2. OpenKept'
    <2>1. ASSUME NEW k \in Kinds
          PROVE  open[k].startMs <= clock'
      BY EventAssumption DEF EvInv, OpenKept, OpenInterval
    <2>2. QED
      BY <2>1 DEF evVars, EvInv, OpenKept
  <1>3. QED
    BY <1>1, <1>2 DEF evVars, EvInv, Files

(* What the cache answers is what the file says.                           *)
LEMMA AnswersMatch ==
  ASSUME EvInv, NEW d \in Days
  PROVE  /\ \A iv \in ToSet(EventsForDay(d)) : \E jv \in ToSet(filed[d]) : SameTimes(iv, jv)
         /\ \A jv \in ToSet(filed[d]) : \E iv \in ToSet(EventsForDay(d)) : SameTimes(iv, jv)
  <1>1. PICK c, f : c = dayCache[d].ivals /\ f = filed[d]
    OBVIOUS
  <1>2. c \in Seq(Interval) /\ f \in Seq(Interval) /\ CacheTrue(d)
    BY <1>1 DEF EvInv, CacheKept, FilesKept
  <1>3. CASE dayCache[d].len = Len(filed[d])
    <2>1. Len(c) = Len(f) /\ \A i \in 1 .. Len(f) : SameTimes(c[i], f[i])
      BY <1>1, <1>2, <1>3 DEF CacheTrue
    <2>2. DOMAIN c = 1 .. Len(f) /\ DOMAIN f = 1 .. Len(f)
      BY <1>2, <2>1
    <2>3. EventsForDay(d) = c
      BY <1>1, <1>3 DEF EventsForDay
    <2>4. QED
      BY <1>1, <2>1, <2>2, <2>3 DEF ToSet
  <1>4. CASE dayCache[d].len # Len(filed[d])
    <2>1. EventsForDay(d) = filed[d]
      BY <1>4 DEF EventsForDay
    <2>2. QED
      BY <2>1 DEF SameTimes
  <1>5. QED
    BY <1>3, <1>4

LEMMA DayMono ==
  ASSUME NEW x \in Nat, NEW y \in Nat
  PROVE  /\ DayOf(x) \in Nat /\ DayOf(y) \in Nat
         /\ x <= y => DayOf(x) <= DayOf(y)
  <1>1. PICK m, n : m = x * MsPerSec /\ n = y * MsPerSec
    OBVIOUS
  <1>2. m \in Nat /\ n \in Nat /\ (x <= y => m <= n)
    BY <1>1, EventAssumption
  <1>3. /\ m \div DayMs \in Nat /\ n \div DayMs \in Nat
        /\ m <= n => m \div DayMs <= n \div DayMs
    BY <1>2, EventAssumption, Quotient, QuotientMono
  <1>4. QED
    BY <1>1, <1>2, <1>3 DEF DayOf

(* An interval that overlaps a window is in the file of one of its days.   *)
LEMMA DayOfWindow ==
  ASSUME EvInv, NEW d \in Days, NEW iv \in ToSet(filed[d]), NEW a \in Nat, NEW b \in Nat,
         iv.start < b, iv.end > a
  PROVE  /\ iv.start \in Nat /\ iv.end \in Nat /\ DayOf(a) \in Nat /\ DayOf(b) \in Nat
         /\ DayOf(iv.start) \in Nat /\ DayOf(iv.end) \in Nat
         /\ DayOf(iv.start) <= DayOf(b) /\ DayOf(iv.end) >= DayOf(a)
         /\ FiledWhere(iv)
  <1>1. FiledWhere(iv)
    BY DEF EvInv, FilesKept
  <1>2. iv \in Interval
    BY DEF EvInv, FilesKept, ToSet
  <1>3. iv.start \in Nat /\ iv.end \in Nat
    BY <1>2 DEF Interval
  <1>4. PICK x, y : x = iv.start /\ y = iv.end
    OBVIOUS
  <1>5. x \in Nat /\ y \in Nat /\ x <= b /\ a <= y
    BY <1>3, <1>4
  <1>6. DayOf(x) \in Nat /\ DayOf(b) \in Nat /\ DayOf(x) <= DayOf(b)
    BY <1>5, DayMono
  <1>7. DayOf(y) \in Nat /\ DayOf(a) \in Nat /\ DayOf(a) <= DayOf(y)
    BY <1>5, DayMono
  <1>8. DayOf(a) <= DayOf(y) => DayOf(y) >= DayOf(a)
    BY <1>7
  <1>9. QED
    BY <1>1, <1>3, <1>4, <1>6, <1>7, <1>8

LEMMA OverlapsExact == EvInv => OverlapsIsExact
  <1> SUFFICES ASSUME EvInv, NEW s \in Secs
               PROVE  /\ Overlaps(s, s + SegSecs) =>
                           \E d \in Days : \E iv \in ToSet(filed[d]) : iv.start < s + SegSecs /\ iv.end > s
                      /\ \A d \in Days : \A iv \in ToSet(filed[d]) :
                           iv.start < s + SegSecs /\ iv.end > s /\ ~ LostALine(iv) => Overlaps(s, s + SegSecs)
    BY DEF OverlapsIsExact
  <1>1. PICK e : e = s + SegSecs
    OBVIOUS
  <1>2. s \in Nat /\ e \in Nat
    BY <1>1, ArchiveAssumption DEF Secs
  <1>3. Overlaps(s, e) => \E d \in Days : \E iv \in ToSet(filed[d]) : iv.start < e /\ iv.end > s
    BY AnswersMatch DEF Overlaps, SameTimes
  <1>4. ASSUME NEW d \in Days, NEW iv \in ToSet(filed[d]), iv.start < e, iv.end > s, ~ LostALine(iv)
        PROVE  Overlaps(s, e)
    <2>1. PICK p, q, x, y : p = DayOf(s) /\ q = DayOf(e) /\ x = DayOf(iv.start) /\ y = DayOf(iv.end)
      OBVIOUS
    <2>2. /\ p \in Nat /\ q \in Nat /\ x \in Nat /\ y \in Nat /\ x <= q /\ y >= p
          /\ x \in Days /\ y \in Days /\ y \in {x, x + 1}
          /\ iv \in ToSet(filed[x]) /\ iv \in ToSet(filed[y])
      BY <1>2, <1>4, <2>1, DayOfWindow DEF FiledWhere, LostALine
    <2>3. q <= p + 1
      <3>1. PICK m, k : m = s * MsPerSec /\ k = e * MsPerSec
        OBVIOUS
      <3>2. m \in Nat /\ k \in Nat
        BY <1>2, <3>1, EventAssumption
      <3>3. k = m + SegSecs * MsPerSec
        BY <1>1, <1>2, <3>1, EventAssumption, ArchiveAssumption
      <3>4. SegSecs * MsPerSec < DayMs /\ SegSecs * MsPerSec \in Nat /\ DayMs \in Nat \ {0}
        BY EventAssumption, ArchiveAssumption
      <3>5. k - m < DayMs
        BY <3>2, <3>3, <3>4
      <3>6. QED
        BY <2>1, <3>1, <3>2, <3>4, <3>5, QuotientStep DEF DayOf
    <2>4. PICK z \in {x, y} : z \in {p, q}
      BY <2>2, <2>3
    <2>5. z \in DaysSpanned(s, e) \cap Days /\ iv \in ToSet(filed[z])
      BY <2>1, <2>2, <2>4 DEF DaysSpanned
    <2>6. PICK jv \in ToSet(EventsForDay(z)) : SameTimes(jv, iv)
      BY <2>5, AnswersMatch
    <2>7. QED
      BY <1>4, <2>5, <2>6 DEF Overlaps, SameTimes
  <1>5. QED
    BY <1>1, <1>3, <1>4

-----------------------------------------------------------------------------
(* The timeline.  An item is joined to the last mark that begins at or     *)
(* before it, and that mark ends before the next one begins.               *)
Spans(own) == IsFiniteSet(own) /\ \A x \in own : x.start \in Nat /\ x.end \in Nat

LEMMA JoinedSomewhere ==
  ASSUME NEW own, Spans(own), NEW gap \in Nat, NEW it \in own
  PROVE  \E s \in Begins(own, gap) : s <= it.start /\ it \in Joined(own, gap, s)
  <1>1. PICK P, n : P = {x.start : x \in own} /\ n = it.start
    OBVIOUS
  <1>2. P \in SUBSET Nat /\ P # {} /\ n \in P /\ n \in Nat
    BY <1>1 DEF Spans
  <1>3. PICK first : first = Min(P)
    OBVIOUS
  <1>4. first \in P /\ \A x \in P : first <= x
    BY <1>2, <1>3, MinIsIn
  <1>5. first \in Nat /\ first <= n
    BY <1>2, <1>4
  <1>6. PICK B : B = Begins(own, gap)
    OBVIOUS
  <1>7. B \subseteq P
    BY <1>1, <1>6 DEF Begins
  <1>8. first \in B
    <2>1. PICK x \in own : x.start = first
      BY <1>1, <1>4
    <2>2. ASSUME NEW y \in own
          PROVE  ~ (y.start < x.start)
      <3>1. y.start \in P
        BY <1>1
      <3>2. first \in Nat /\ y.start \in Nat /\ first <= y.start
        BY <1>2, <1>4, <3>1
      <3>3. QED
        BY <2>1, <3>2
    <2>3. QED
      BY <1>6, <2>1, <2>2 DEF Begins
  <1>9. PICK Q : Q = {s \in B : s <= n}
    OBVIOUS
  <1>10. Q \subseteq Nat /\ first \in Q /\ Q \subseteq 0 .. n
    <2>1. B \subseteq Nat
      BY <1>2, <1>7
    <2>2. \A x \in Q : x \in Nat /\ x <= n
      BY <1>9, <2>1
    <2>3. first \in Q
      BY <1>5, <1>8, <1>9
    <2>4. QED
      BY <1>2, <2>2, <2>3
  <1>11. IsFiniteSet(Q)
    <2>1. IsFiniteSet(0 .. n)
      BY <1>2, FS_Interval
    <2>2. QED
      BY <1>10, <2>1, FS_Subset
  <1>12. PICK s \in Q : \A x \in Q : x <= s
    BY <1>10, <1>11, MaxIsIn
  <1>13. s \in B /\ s \in Nat /\ s <= n
    BY <1>9, <1>10
  <1>14. ASSUME NEW t \in B, t > s
         PROVE  n < t
    BY <1>2, <1>7, <1>9, <1>12, <1>13, <1>14
  <1>15. it \in Joined(own, gap, s)
    BY <1>1, <1>2, <1>6, <1>13, <1>14 DEF Joined
  <1>16. QED
    BY <1>1, <1>6, <1>13, <1>15

(* The latest end of what a mark joins.                                    *)
EndsOf(own, gap, s) == {it.end : it \in Joined(own, gap, s)}

LEMMA EndOfMark ==
  ASSUME NEW own, Spans(own), NEW gap \in Nat, NEW s \in Begins(own, gap),
         NEW e, e = Max(EndsOf(own, gap, s))
  PROVE  /\ e \in Nat /\ \E z \in Joined(own, gap, s) : z.end = e
         /\ \A z \in Joined(own, gap, s) : z.end <= e
  <1>1. PICK J, E : J = Joined(own, gap, s) /\ E = {it.end : it \in J} /\ E = EndsOf(own, gap, s)
    BY DEF EndsOf
  <1>2. J \subseteq own
    BY <1>1 DEF Joined
  <1>3. IsFiniteSet(J)
    BY <1>2, FS_Subset DEF Spans
  <1>4. IsFiniteSet(E)
    <2>1. PICK f : f = [z \in J |-> z.end]
      OBVIOUS
    <2>2. E = {f[z] : z \in J}
      BY <1>1, <2>1
    <2>3. f \in Surjection(J, E)
      BY <2>1, <2>2 DEF Surjection
    <2>4. QED
      BY <1>3, <2>3, FS_Surjection
  <1>5. E \subseteq Nat
    BY <1>1, <1>2 DEF Spans
  <1>6. J # {}
    <2>1. PICK x \in own : x.start = s
      BY DEF Begins
    <2>2. x \in J
      BY <1>1, <2>1 DEF Joined, Spans
    <2>3. QED
      BY <2>2
  <1>7. E # {}
    BY <1>1, <1>6
  <1>8. e \in E /\ \A x \in E : x <= e
    BY <1>1, <1>4, <1>5, <1>7, MaxIsIn
  <1>9. QED
    BY <1>1, <1>5, <1>8

OfKind(items, k) == {it \in items : it.kind = k}

LEMMA MarkCovers ==
  ASSUME NEW items, NEW k, Spans(OfKind(items, k)), NEW gap \in Nat, NEW it \in items, it.kind = k
  PROVE  \E m \in MergeItems(items, k, gap) : m[1] <= it.start /\ it.end <= m[2]
  <1>1. PICK own : own = OfKind(items, k)
    OBVIOUS
  <1>2. it \in own /\ Spans(own)
    BY <1>1 DEF OfKind
  <1>3. PICK s \in Begins(own, gap) : s <= it.start /\ it \in Joined(own, gap, s)
    BY <1>2, JoinedSomewhere
  <1>4. PICK e : e = Max(EndsOf(own, gap, s))
    OBVIOUS
  <1>5. it.end <= e
    BY <1>2, <1>3, <1>4, EndOfMark
  <1>6. MergeItems(items, k, gap) = {<<b, Max(EndsOf(own, gap, b))>> : b \in Begins(own, gap)}
    BY <1>1 DEF MergeItems, OfKind, EndsOf
  <1>7. <<s, e>> \in MergeItems(items, k, gap)
    BY <1>4, <1>6
  <1>8. QED
    BY <1>3, <1>5, <1>7

LEMMA MarkEnds ==
  ASSUME NEW own, Spans(own), NEW gap \in Nat,
         NEW p \in Begins(own, gap), NEW q \in Begins(own, gap), p \in Nat, q \in Nat, p < q,
         NEW e, e = Max(EndsOf(own, gap, p))
  PROVE  q - e > gap
  <1>1. PICK z \in Joined(own, gap, p) : z.end = e
    BY EndOfMark
  <1>2. z \in own /\ z.start < q
    BY DEF Joined
  <1>3. PICK x \in own : x.start = q /\ \A y \in own : y.start < x.start => x.start - y.end > gap
    BY DEF Begins
  <1>4. QED
    BY <1>1, <1>2, <1>3

LEMMA MarksApart ==
  ASSUME NEW items, NEW k, Spans(OfKind(items, k)), NEW gap \in Nat,
         NEW m \in MergeItems(items, k, gap), NEW n \in MergeItems(items, k, gap)
  PROVE  m = n \/ n[1] - m[2] > gap \/ m[1] - n[2] > gap
  <1>1. PICK own : own = OfKind(items, k)
    OBVIOUS
  <1>2. MergeItems(items, k, gap) = {<<b, Max(EndsOf(own, gap, b))>> : b \in Begins(own, gap)}
    BY <1>1 DEF MergeItems, OfKind, EndsOf
  <1>3. PICK s \in Begins(own, gap) : \E d : d = Max(EndsOf(own, gap, s)) /\ m = <<s, d>>
    BY <1>2
  <1>4. PICK t \in Begins(own, gap) : \E e : e = Max(EndsOf(own, gap, t)) /\ n = <<t, e>>
    BY <1>2
  <1>5. PICK d : d = Max(EndsOf(own, gap, s)) /\ m = <<s, d>>
    BY <1>3
  <1>6. PICK e : e = Max(EndsOf(own, gap, t)) /\ n = <<t, e>>
    BY <1>4
  <1>7. s \in Nat /\ t \in Nat
    BY <1>1 DEF Begins, Spans
  <1>8. Spans(own)
    BY <1>1
  <1>9. CASE s = t
    BY <1>5, <1>6, <1>9
  <1>10. CASE s < t
    <2>1. t - d > gap
      BY <1>5, <1>7, <1>8, <1>10, MarkEnds
    <2>2. QED
      BY <1>5, <1>6, <2>1
  <1>11. CASE t < s
    <2>1. s - e > gap
      BY <1>6, <1>7, <1>8, <1>11, MarkEnds
    <2>2. QED
      BY <1>5, <1>6, <2>1
  <1>12. QED
    BY <1>7, <1>9, <1>10, <1>11

LEMMA SequenceIsFinite ==
  ASSUME NEW S, NEW q \in Seq(S)
  PROVE  IsFiniteSet(ToSet(q)) /\ ToSet(q) \subseteq S
  <1>1. PICK n : n = Len(q)
    OBVIOUS
  <1>2. n \in Nat /\ DOMAIN q = 1 .. n
    BY <1>1
  <1>3. IsFiniteSet(1 .. n)
    BY <1>2, FS_Interval
  <1>4. q \in Surjection(1 .. n, ToSet(q))
    BY <1>2 DEF Surjection, ToSet
  <1>5. QED
    BY <1>2, <1>3, <1>4, FS_Surjection DEF ToSet

(* The items of a window.                                                  *)
Touched(a, b) == DaysInRange(a, b) \cap Days

LEMMA ItemsAreSpans ==
  ASSUME EvInv, NEW a, NEW b, NEW k
  PROVE  Spans(OfKind(Items(a, b), k))
  <1>1. PICK D, E : D = Touched(a, b) /\ E = {ToSet(EventsForDay(d)) : d \in D}
    OBVIOUS
  <1>2. D \subseteq Days
    BY <1>1 DEF Touched
  <1>3. IsFiniteSet(D)
    <2>1. PICK n : n = DayOfMs(MaxTime + MaxEventMs)
      OBVIOUS
    <2>2. MaxTime + MaxEventMs \in Nat /\ DayMs \in Nat \ {0}
      BY EventAssumption
    <2>3. n \in Nat
      BY <2>1, <2>2, Quotient DEF DayOfMs
    <2>4. IsFiniteSet(0 .. n)
      BY <2>3, FS_Interval
    <2>5. QED
      BY <1>2, <2>1, <2>4, FS_Subset DEF Days
  <1>4. \A d \in D : EventsForDay(d) \in Seq(Interval)
    BY <1>2 DEF EventsForDay, EvInv, FilesKept, CacheKept
  <1>5. \A d \in D : IsFiniteSet(ToSet(EventsForDay(d))) /\ ToSet(EventsForDay(d)) \subseteq Interval
    BY <1>4, SequenceIsFinite
  <1>6. IsFiniteSet(E)
    <2>1. PICK f : f = [d \in D |-> ToSet(EventsForDay(d))]
      OBVIOUS
    <2>2. E = {f[d] : d \in D}
      BY <1>1, <2>1
    <2>3. f \in Surjection(D, E)
      BY <2>1, <2>2 DEF Surjection
    <2>4. QED
      BY <1>3, <2>3, FS_Surjection
  <1>7. \A T \in E : IsFiniteSet(T)
    BY <1>1, <1>5
  <1>8. IsFiniteSet(UNION E)
    BY <1>6, <1>7, FS_UNION
  <1>9. PICK X : X = OfKind(Items(a, b), k)
    OBVIOUS
  <1>10. X \subseteq UNION E
    BY <1>1, <1>9 DEF Items, Touched, OfKind
  <1>11. IsFiniteSet(X)
    BY <1>8, <1>10, FS_Subset
  <1>12. ASSUME NEW x \in X
         PROVE  x.start \in Nat /\ x.end \in Nat
    <2>1. PICK T \in E : x \in T
      BY <1>10
    <2>2. x \in Interval
      BY <1>1, <1>5, <2>1
    <2>3. QED
      BY <2>2 DEF Interval
  <1>13. QED
    BY <1>9, <1>11, <1>12 DEF Spans

(* A filed interval that overlaps the window is an item of it.             *)
LEMMA FiledIsItem ==
  ASSUME EvInv, NEW a \in Nat, NEW b \in Nat, a < b,
         NEW d \in Days, NEW iv \in ToSet(filed[d]), iv.start < b, iv.end > a, ~ LostALine(iv)
  PROVE  \E jv \in Items(a, b) : SameTimes(jv, iv)
  <1>1. PICK p, q, x, y : p = DayOf(a) /\ q = DayOf(b) /\ x = DayOf(iv.start) /\ y = DayOf(iv.end)
    OBVIOUS
  <1>2. /\ p \in Nat /\ q \in Nat /\ x \in Nat /\ y \in Nat /\ x <= q /\ y >= p
        /\ x \in Days /\ y \in Days /\ y \in {x, x + 1}
        /\ iv \in ToSet(filed[x]) /\ iv \in ToSet(filed[y])
    BY <1>1, DayOfWindow DEF FiledWhere, LostALine
  <1>3. p <= q
    <2>1. a <= b
      OBVIOUS
    <2>2. QED
      BY <1>1, <2>1, DayMono
  <1>4. PICK z \in {x, y} : z \in p .. q
    BY <1>2, <1>3
  <1>5. z \in Touched(a, b) /\ z \in Days /\ iv \in ToSet(filed[z])
    BY <1>1, <1>2, <1>4 DEF Touched, DaysInRange
  <1>6. PICK jv \in ToSet(EventsForDay(z)) : SameTimes(jv, iv)
    BY <1>5, AnswersMatch
  <1>7. jv \in Items(a, b)
    BY <1>5, <1>6 DEF Items, Touched, SameTimes
  <1>8. QED
    BY <1>6, <1>7

LEMMA TimelineHolds == EvInv => TimelineFaithful
  <1> SUFFICES ASSUME EvInv, NEW a \in Secs, NEW b \in Secs, a < b
               PROVE  LET marks == TimelineEvents(a, b, Gap)
                          Beside(m) == \E k \in Kinds \ {"motion"} : \E n \in marks[k] :
                                          m[1] <= n[2] + Gap /\ n[1] <= m[2] + Gap
                          Shown(iv, m) == m[1] <= iv.start /\ iv.end <= m[2]
                      IN  /\ \A d \in Days : \A iv \in ToSet(filed[d]) :
                              iv.start < b /\ iv.end > a /\ ~ LostALine(iv) =>
                                  \/ \E m \in marks[iv.kind] : Shown(iv, m)
                                  \/ /\ iv.kind = "motion"
                                     /\ \E m \in MergeItems(Items(a, b), "motion", Gap) :
                                          Shown(iv, m) /\ Beside(m)
                          /\ \A k \in Kinds : \A m, n \in marks[k] :
                               m = n \/ n[1] - m[2] > Gap \/ m[1] - n[2] > Gap
    BY DEF TimelineFaithful
  <1>1. PICK X, marks : X = Items(a, b) /\ marks = TimelineEvents(a, b, Gap)
    OBVIOUS
  <1>2. marks = ClusterEventItems(X, Gap)
    BY <1>1 DEF TimelineEvents
  <1>3. a \in Nat /\ b \in Nat /\ Gap \in Nat
    BY ArchiveAssumption DEF Secs
  <1>4. \A k : Spans(OfKind(X, k))
    BY <1>1, ItemsAreSpans
  <1>5. \A k \in Kinds : marks[k] \subseteq MergeItems(X, k, Gap)
    BY <1>2 DEF ClusterEventItems
  <1>6. \A k \in Kinds \ {"motion"} : marks[k] = MergeItems(X, k, Gap)
    BY <1>2 DEF ClusterEventItems
  <1>7. \A m \in MergeItems(X, "motion", Gap) :
           "motion" \in Kinds /\ m \notin marks["motion"] =>
              \E k \in Kinds \ {"motion"} : \E n \in MergeItems(X, k, Gap) :
                 m[1] <= n[2] + Gap /\ n[1] <= m[2] + Gap
    BY <1>2 DEF ClusterEventItems
  <1>8. ASSUME NEW d \in Days, NEW iv \in ToSet(filed[d]), iv.start < b, iv.end > a, ~ LostALine(iv)
        PROVE  \/ \E m \in marks[iv.kind] : m[1] <= iv.start /\ iv.end <= m[2]
               \/ /\ iv.kind = "motion"
                  /\ \E m \in MergeItems(X, "motion", Gap) :
                       /\ m[1] <= iv.start /\ iv.end <= m[2]
                       /\ \E k \in Kinds \ {"motion"} : \E n \in marks[k] :
                            m[1] <= n[2] + Gap /\ n[1] <= m[2] + Gap
    <2>1. PICK jv \in X : SameTimes(jv, iv)
      BY <1>1, <1>3, <1>8, FiledIsItem
    <2>2. iv.kind \in Kinds
      <3>1. iv \in Interval
        BY DEF EvInv, FilesKept, ToSet
      <3>2. QED
        BY <3>1 DEF Interval
    <2>3. PICK m \in MergeItems(X, iv.kind, Gap) : m[1] <= jv.start /\ jv.end <= m[2]
      BY <1>3, <1>4, <2>1, MarkCovers DEF SameTimes
    <2>4. m[1] <= iv.start /\ iv.end <= m[2]
      BY <2>1, <2>3 DEF SameTimes
    <2>5. CASE iv.kind # "motion"
      BY <1>6, <2>2, <2>3, <2>4, <2>5
    <2>6. CASE iv.kind = "motion"
      BY <1>6, <1>7, <2>2, <2>3, <2>4, <2>6
    <2>7. QED
      BY <2>5, <2>6
  <1>9. ASSUME NEW k \in Kinds, NEW m \in marks[k], NEW n \in marks[k]
        PROVE  m = n \/ n[1] - m[2] > Gap \/ m[1] - n[2] > Gap
    BY <1>3, <1>4, <1>5, MarksApart
  <1>10. QED
    BY <1>1, <1>8, <1>9

-----------------------------------------------------------------------------
(* The directory and the index.  The mtime a listing carries was read      *)
(* before the directory was listed, so the two agree as long as the        *)
(* directory still has that mtime.                                         *)
DiskKept ==
    /\ disk \subseteq Seg /\ IsFiniteSet(disk) /\ OneName(disk)
    /\ mtime \in Nat
    /\ jan \in {"idle", "scanned"} /\ toDelete \subseteq Secs

ReaderKept ==
    /\ reader \in [pc : {"idle", "list", "store"}, day : Nat, mtime : Nat, segs : SUBSET Seg]
    /\ reader.pc # "idle" => reader.day \in Days /\ reader.mtime \in 1 .. mtime
    /\ reader.pc = "store" /\ reader.mtime = mtime =>
         NamesOf(reader.segs) = NamesOf(OnDay(reader.day))

Listed(d) ==
    segCache[d] # NoEntry =>
        /\ segCache[d].mtime \in 1 .. mtime
        /\ segCache[d].mtime = mtime => NamesOf(segCache[d].segs) = NamesOf(OnDay(d))

IndexKept == DOMAIN segCache = Days /\ \A d \in Days : Listed(d)

ArIInv == EvInv /\ DiskKept /\ ReaderKept /\ IndexKept

(* A step of the directory: another mtime, or the names it had.            *)
DirStep == mtime' \in Nat /\ (mtime' > mtime \/ (mtime' = mtime /\ NamesOf(disk') = NamesOf(disk)))

LEMMA DayNamesAfter ==
  ASSUME NEW d, NamesOf(disk') = NamesOf(disk)
  PROVE  NamesOf(OnDay(d)') = NamesOf(OnDay(d))
  <1>1. PICK S, Z, A, B : S = disk /\ Z = disk' /\ A = OnDay(d) /\ B = OnDay(d)'
    OBVIOUS
  <1>2. A = {s \in S : DayOf(s.start) = d} /\ B = {s \in Z : DayOf(s.start) = d}
    BY <1>1 DEF OnDay
  <1>3. NamesOf(A) = {n \in NamesOf(S) : DayOf(n) = d}
    BY <1>2 DEF NamesOf
  <1>4. NamesOf(B) = {n \in NamesOf(Z) : DayOf(n) = d}
    BY <1>2 DEF NamesOf
  <1>5. QED
    BY <1>1, <1>3, <1>4

LEMMA IndexStands ==
  ASSUME ReaderKept, IndexKept, mtime \in Nat, DirStep, UNCHANGED <<reader, segCache>>
  PROVE  ReaderKept' /\ IndexKept'
  <1>1. \A i \in 1 .. mtime : i \in 1 .. mtime' /\ (i = mtime' => mtime' = mtime)
    BY DEF DirStep
  <1>2. \A d : mtime' = mtime => NamesOf(OnDay(d)') = NamesOf(OnDay(d))
    BY DayNamesAfter DEF DirStep
  <1>3. ASSUME NEW d \in Days
        PROVE  Listed(d)'
    BY <1>1, <1>2 DEF IndexKept, Listed, NamesOf
  <1>4. IndexKept'
    BY <1>3 DEF IndexKept
  <1>5. ReaderKept'
    BY <1>1, <1>2 DEF ReaderKept, NamesOf
  <1>6. QED
    BY <1>4, <1>5

LEMMA StartsInSecs ==
  ASSUME disk \subseteq Seg
  PROVE  NamesOf(disk) \subseteq Secs /\ Named(disk)
  BY EventAssumption DEF NamesOf, Named, Seg, Secs

LEMMA NowIsThere ==
  ASSUME clock \in 0 .. MaxTime
  PROVE  SecOf(clock) \in Secs
  <1>1. clock \in Nat /\ MaxTime \in Nat /\ MsPerSec \in Nat \ {0} /\ clock <= MaxTime
    BY EventAssumption
  <1>2. /\ clock \div MsPerSec \in Nat /\ MaxTime \div MsPerSec \in Nat
        /\ clock \div MsPerSec <= MaxTime \div MsPerSec
    BY <1>1, Quotient, QuotientMono
  <1>3. QED
    BY <1>2 DEF SecOf, Secs

LEMMA OpensKeeps ==
  ASSUME ArIInv, SegmentOpens
  PROVE  DiskKept' /\ DirStep
  <1>1. PICK n : n = SecOf(clock)
    OBVIOUS
  <1>2. n \in Secs
    BY <1>1, NowIsThere DEF ArIInv, EvInv, OpenKept
  <1>3. PICK f : f = [start |-> n, size |-> 1]
    OBVIOUS
  <1>4. f \in Seg /\ f.start = n
    BY <1>2, <1>3, ArchiveAssumption DEF Seg
  <1>5. PICK old : old = {s \in disk : s.start # n}
    OBVIOUS
  <1>6. disk' = old \cup {f}
    BY <1>1, <1>3, <1>5 DEF SegmentOpens
  <1>7. mtime' = IF \E s \in disk : s.start = n THEN mtime ELSE mtime + 1
    BY <1>1 DEF SegmentOpens
  <1>8. IsFiniteSet(old)
    BY <1>5, FS_Subset DEF ArIInv, DiskKept
  <1>9. IsFiniteSet(disk')
    BY <1>6, <1>8, FS_AddElement
  <1>10. disk' \subseteq Seg /\ OneName(disk)'
    BY <1>4, <1>5, <1>6 DEF ArIInv, DiskKept, OneName
  <1>11. mtime' \in Nat
    BY <1>7 DEF ArIInv, DiskKept
  <1>12. DirStep
    <2>1. CASE \E s \in disk : s.start = n
      <3>1. NamesOf(disk') = NamesOf(disk)
        BY <1>4, <1>5, <1>6, <2>1 DEF NamesOf
      <3>2. QED
        BY <1>7, <1>11, <2>1, <3>1 DEF DirStep
    <2>2. CASE ~ \E s \in disk : s.start = n
      BY <1>7, <1>11, <2>2 DEF DirStep, ArIInv, DiskKept
    <2>3. QED
      BY <2>1, <2>2
  <1>13. QED
    BY <1>9, <1>10, <1>11, <1>12 DEF ArIInv, DiskKept, SegmentOpens

LEMMA GrowsKeeps ==
  ASSUME ArIInv, SegmentGrows
  PROVE  DiskKept' /\ DirStep
  <1>1. PICK s \in disk : s.size < SegSize /\ disk' = (disk \ {s}) \cup {[s EXCEPT !.size = @ + 1]}
    BY DEF SegmentGrows
  <1>2. PICK f : f = [s EXCEPT !.size = @ + 1]
    OBVIOUS
  <1>3. s \in Seg
    BY DEF ArIInv, DiskKept
  <1>4. f \in Seg /\ f.start = s.start
    BY <1>1, <1>2, <1>3, ArchiveAssumption DEF Seg
  <1>5. PICK old : old = disk \ {s}
    OBVIOUS
  <1>6. disk' = old \cup {f}
    BY <1>1, <1>2, <1>5
  <1>7. IsFiniteSet(old)
    BY <1>5, FS_RemoveElement DEF ArIInv, DiskKept
  <1>8. IsFiniteSet(disk')
    BY <1>6, <1>7, FS_AddElement
  <1>9. disk' \subseteq Seg /\ OneName(disk)'
    BY <1>4, <1>5, <1>6 DEF ArIInv, DiskKept, OneName
  <1>10. NamesOf(disk') = NamesOf(disk)
    BY <1>4, <1>5, <1>6 DEF NamesOf
  <1>11. mtime' = mtime /\ mtime \in Nat
    BY DEF SegmentGrows, ArIInv, DiskKept
  <1>12. QED
    BY <1>8, <1>9, <1>10, <1>11 DEF ArIInv, DiskKept, DirStep, SegmentGrows

LEMMA DeletesKeeps ==
  ASSUME ArIInv, JanitorDeletes
  PROVE  DiskKept' /\ DirStep
  <1>1. PICK gone \in SUBSET disk :
          /\ disk' = disk \ gone
          /\ mtime' = mtime + 1 \/ (gone = {} /\ mtime' = mtime)
    <2>1. PICK name \in toDelete :
            \/ disk' = {s \in disk : s.start # name} /\ mtime' = mtime + 1
            \/ disk' = disk /\ mtime' = mtime
      BY DEF JanitorDeletes
    <2>2. CASE disk' = {s \in disk : s.start # name} /\ mtime' = mtime + 1
      <3>1. disk' = disk \ {s \in disk : s.start = name}
        BY <2>2
      <3>2. QED
        BY <2>2, <3>1
    <2>3. CASE disk' = disk /\ mtime' = mtime
      BY <2>3
    <2>4. QED
      BY <2>1, <2>2, <2>3
  <1>2. IsFiniteSet(disk')
    BY <1>1, FS_Subset DEF ArIInv, DiskKept
  <1>3. disk' \subseteq Seg /\ OneName(disk)'
    BY <1>1 DEF ArIInv, DiskKept, OneName
  <1>4. mtime \in Nat /\ mtime' \in Nat
    BY <1>1 DEF ArIInv, DiskKept
  <1>5. DirStep
    BY <1>1, <1>4 DEF DirStep
  <1>6. QED
    BY <1>2, <1>3, <1>4, <1>5 DEF ArIInv, DiskKept, JanitorDeletes

LEMMA ScansKeeps ==
  ASSUME ArIInv, JanitorScans
  PROVE  DiskKept'
  <1>1. \A s \in Tagged : s.start \in NamesOf(disk)
    BY DEF Tagged, NamesOf
  <1>2. PICK T, now : T = Tagged /\ now = SecOf(clock)
    OBVIOUS
  <1>3. JanitorDeleteOrder(T, now) \subseteq {s.start : s \in T}
    BY DEF JanitorDeleteOrder
  <1>4. toDelete' \subseteq Secs
    BY <1>1, <1>2, <1>3, StartsInSecs DEF ArIInv, DiskKept, JanitorScans
  <1>5. QED
    BY <1>4 DEF ArIInv, DiskKept, JanitorScans, OneName

LEMMA DiskStands ==
  ASSUME ArIInv, UNCHANGED diskVars
  PROVE  DiskKept' /\ DirStep
  BY DEF ArIInv, DiskKept, OneName, diskVars, DirStep

-----------------------------------------------------------------------------
(* Every action.                                                           *)
LEMMA IndexStep ==
  ASSUME ArIInv, UNCHANGED diskVars
  PROVE  /\ DiskKept'
         /\ \A d : NamesOf(OnDay(d)') = NamesOf(OnDay(d))
         /\ mtime' = mtime /\ mtime \in Nat
  <1>1. NamesOf(disk') = NamesOf(disk)
    BY DEF diskVars
  <1>2. QED
    BY <1>1, DiskStands, DayNamesAfter DEF ArIInv, DiskKept, diskVars

LEMMA StatKeeps ==
  ASSUME ArIInv, NEW d \in Days, IndexStat(d)
  PROVE  DiskKept' /\ ReaderKept' /\ IndexKept'
  <1>1. /\ DiskKept' /\ mtime' = mtime /\ mtime \in Nat
        /\ \A x : NamesOf(OnDay(x)') = NamesOf(OnDay(x))
    BY IndexStep DEF IndexStat
  <1>2. PICK r : r = [pc |-> "list", day |-> d, mtime |-> mtime, segs |-> {}]
    OBVIOUS
  <1>3. /\ r \in [pc : {"idle", "list", "store"}, day : Nat, mtime : Nat, segs : SUBSET Seg]
        /\ r.pc = "list" /\ r.day = d /\ r.mtime = mtime
    BY <1>1, <1>2 DEF Days
  <1>4. reader' = r /\ mtime # 0 /\ segCache' = segCache
    BY <1>2 DEF IndexStat
  <1>5. ReaderKept'
    BY <1>1, <1>3, <1>4 DEF ReaderKept
  <1>6. \A x \in Days : Listed(x)'
    BY <1>1, <1>4 DEF ArIInv, IndexKept, Listed, NamesOf
  <1>7. QED
    BY <1>1, <1>4, <1>5, <1>6 DEF ArIInv, IndexKept

LEMMA ListKeeps ==
  ASSUME ArIInv, IndexList
  PROVE  DiskKept' /\ ReaderKept' /\ IndexKept'
  <1>1. /\ DiskKept' /\ mtime' = mtime /\ mtime \in Nat
        /\ \A x : NamesOf(OnDay(x)') = NamesOf(OnDay(x))
    BY IndexStep DEF IndexList
  <1>2. PICK q, L, r : q = reader /\ L = OnDay(q.day) /\ r = [q EXCEPT !.pc = "store", !.segs = L]
    OBVIOUS
  <1>3. L \subseteq Seg
    BY <1>2 DEF OnDay, ArIInv, DiskKept
  <1>4. /\ q \in [pc : {"idle", "list", "store"}, day : Nat, mtime : Nat, segs : SUBSET Seg]
        /\ q.pc = "list" /\ q.day \in Days /\ q.mtime \in 1 .. mtime
    BY <1>2 DEF ArIInv, ReaderKept, IndexList
  <1>5. /\ r \in [pc : {"idle", "list", "store"}, day : Nat, mtime : Nat, segs : SUBSET Seg]
        /\ r.pc = "store" /\ r.day = q.day /\ r.mtime = q.mtime /\ r.segs = L
    BY <1>2, <1>3, <1>4
  <1>6. reader' = r /\ segCache' = segCache
    BY <1>2 DEF IndexList
  <1>7. NamesOf(reader'.segs) = NamesOf(OnDay(r.day)')
    BY <1>1, <1>2, <1>5, <1>6
  <1>8. ReaderKept'
    BY <1>1, <1>4, <1>5, <1>6, <1>7 DEF ReaderKept
  <1>9. \A x \in Days : Listed(x)'
    BY <1>1, <1>6 DEF ArIInv, IndexKept, Listed, NamesOf
  <1>10. QED
    BY <1>1, <1>6, <1>8, <1>9 DEF ArIInv, IndexKept

LEMMA IdleFacts ==
  ASSUME NEW r, r = Idle
  PROVE  r \in [pc : {"idle", "list", "store"}, day : Nat, mtime : Nat, segs : SUBSET Seg] /\ r.pc = "idle"
  BY DEF Idle

LEMMA IdleKept ==
  ASSUME reader' = Idle
  PROVE  ReaderKept'
  <1>1. PICK r : r = Idle
    OBVIOUS
  <1>2. r \in [pc : {"idle", "list", "store"}, day : Nat, mtime : Nat, segs : SUBSET Seg] /\ r.pc = "idle"
    BY <1>1, IdleFacts
  <1>3. QED
    BY <1>1, <1>2 DEF ReaderKept

LEMMA StoreKeeps ==
  ASSUME ArIInv, IndexStore
  PROVE  DiskKept' /\ ReaderKept' /\ IndexKept'
  <1>1. /\ DiskKept' /\ mtime' = mtime /\ mtime \in Nat
        /\ \A x : NamesOf(OnDay(x)') = NamesOf(OnDay(x))
    BY IndexStep DEF IndexStore
  <1>2. PICK kept : /\ kept \in {segCache, [d \in Days |-> NoEntry]}
                   /\ segCache' = [kept EXCEPT ![reader.day] = [mtime |-> reader.mtime, segs |-> reader.segs]]
    BY DEF IndexStore
  <1>3. DOMAIN kept = Days /\ \A x \in Days : kept[x] = NoEntry \/ kept[x] = segCache[x]
    BY <1>2 DEF ArIInv, IndexKept
  <1>4. PICK day, e : day = reader.day /\ e = [mtime |-> reader.mtime, segs |-> reader.segs]
    OBVIOUS
  <1>5. /\ day \in Days /\ e.mtime \in 1 .. mtime
        /\ e.mtime = mtime => NamesOf(e.segs) = NamesOf(OnDay(day))
    BY <1>4 DEF ArIInv, ReaderKept, IndexStore
  <1>6. segCache' = [kept EXCEPT ![day] = e]
    BY <1>2, <1>4
  <1>7. /\ DOMAIN segCache' = Days /\ segCache'[day] = e
        /\ \A x \in Days : x # day => segCache'[x] = kept[x]
    BY <1>3, <1>5, <1>6
  <1>8. ASSUME NEW x \in Days
        PROVE  Listed(x)'
    <2>1. CASE x = day
      <3>1. e.mtime = mtime' => NamesOf(e.segs) = NamesOf(OnDay(x)')
        BY <1>1, <1>5, <2>1
      <3>2. QED
        BY <1>1, <1>5, <1>7, <2>1, <3>1 DEF Listed, NamesOf
    <2>2. CASE x # day
      <3>1. segCache'[x] = NoEntry \/ segCache'[x] = segCache[x]
        BY <1>3, <1>7, <2>2
      <3>2. Listed(x)
        BY DEF ArIInv, IndexKept
      <3>3. QED
        BY <1>1, <3>1, <3>2 DEF Listed, NamesOf
    <2>3. QED
      BY <2>1, <2>2
  <1>9. IndexKept'
    BY <1>7, <1>8 DEF IndexKept
  <1>10. reader' = Idle
    BY DEF IndexStore
  <1>11. QED
    BY <1>1, <1>9, <1>10, IdleKept

LEMMA NoEntryListed ==
  ASSUME segCache' = [d \in Days |-> NoEntry]
  PROVE  IndexKept'
  BY DEF IndexKept, Listed

LEMMA ArInit == Init => ArIInv
  <1> SUFFICES ASSUME Init
               PROVE  ArIInv
    OBVIOUS
  <1>1. clock = 0 /\ 0 \in 0 .. MaxTime
    BY EventAssumption DEF Init
  <1>2. OpenKept
    <2>1. PICK n : n = NotOpen
      OBVIOUS
    <2>2. n \in OpenInterval /\ n.startMs = 0
      BY <1>1, <2>1 DEF NotOpen, OpenInterval
    <2>3. QED
      BY <1>1, <2>1, <2>2 DEF Init, EvInit, OpenKept
  <1>3. FilesKept
    <2>1. PICK n : n = <<>>
      OBVIOUS
    <2>2. n \in Seq(Interval) /\ ToSet(n) = {}
      BY <2>1 DEF ToSet
    <2>3. DOMAIN filed = Days /\ \A d \in Days : filed[d] = n
      BY <2>1 DEF Init, EvInit
    <2>4. QED
      BY <2>2, <2>3 DEF FilesKept
  <1>4. CacheKept
    <2>1. PICK n : n = NotCached
      OBVIOUS
    <2>2. n \in [len : Nat, ivals : Seq(Interval)] /\ n.len = 0 /\ Len(n.ivals) = 0
      BY <2>1, EmptyStore
    <2>3. DOMAIN dayCache = Days /\ \A d \in Days : dayCache[d] = n /\ Len(filed[d]) = 0
      BY <2>1 DEF Init, EvInit
    <2>4. QED
      BY <2>2, <2>3 DEF CacheKept, CacheTrue
  <1>5. DiskKept
    BY FS_EmptySet DEF Init, DiskKept, OneName
  <1>6. ReaderKept
    <2>1. PICK r : r = Idle
      OBVIOUS
    <2>2. r \in [pc : {"idle", "list", "store"}, day : Nat, mtime : Nat, segs : SUBSET Seg] /\ r.pc = "idle"
      BY <2>1, IdleFacts
    <2>3. QED
      BY <2>1, <2>2 DEF Init, ReaderKept
  <1>7. IndexKept
    BY DEF Init, IndexKept, Listed
  <1>8. QED
    BY <1>2, <1>3, <1>4, <1>5, <1>6, <1>7 DEF ArIInv, EvInv

(* A step keeps the invariant; unless it is a restart, it files what it    *)
(* takes from the open intervals.                                          *)
LEMMA ArNext ==
  ASSUME ArIInv, [Next]_vars
  PROVE  /\ ArIInv'
         /\ crashes' = crashes => \A k \in Kinds : Files(k)
  <1> USE DEF ArIInv
  <1>1. clock \in 0 .. MaxTime /\ clock' = clock => clock' \in 0 .. MaxTime /\ clock' >= clock
    OBVIOUS
  <1>2. clock \in 0 .. MaxTime /\ EvInv /\ mtime \in Nat
    BY DEF EvInv, OpenKept, DiskKept
  <1>3. CASE UNCHANGED vars
    <2>1. UNCHANGED evVars /\ UNCHANGED diskVars /\ UNCHANGED <<reader, segCache>> /\ clock' = clock
      BY <1>3 DEF vars, idxVars
    <2>2. QED
      BY <1>1, <1>2, <2>1, EvUnchanged, DiskStands, IndexStands
  <1>4. CASE Tick
    <2>1. UNCHANGED evVars /\ UNCHANGED diskVars /\ UNCHANGED <<reader, segCache>>
      BY <1>4 DEF Tick, idxVars
    <2>2. clock' \in 0 .. MaxTime /\ clock' >= clock
      BY <1>2, <1>4, EventAssumption DEF Tick
    <2>3. QED
      BY <2>1, <2>2, EvUnchanged, DiskStands, IndexStands, <1>2
  <1>5. CASE Edges
    <2>1. UNCHANGED diskVars /\ UNCHANGED <<reader, segCache>> /\ clock' = clock
      BY <1>5 DEF Edges, idxVars
    <2>2. EvInv' /\ \A k \in Kinds : Files(k)
      BY <1>2, <1>5, <2>1, AddEdgeKeeps DEF Edges
    <2>3. QED
      BY <1>2, <2>1, <2>2, DiskStands, IndexStands
  <1>6. CASE PlateFound
    <2>1. UNCHANGED diskVars /\ UNCHANGED <<reader, segCache>> /\ clock' = clock
      BY <1>6 DEF PlateFound
    <2>2. EvInv' /\ \A k \in Kinds : Files(k)
      BY <1>2, <1>6, <2>1, PlateKeeps DEF PlateFound
    <2>3. QED
      BY <1>2, <2>1, <2>2, DiskStands, IndexStands
  <1>7. CASE EventsRead
    <2>1. UNCHANGED diskVars /\ UNCHANGED <<reader, segCache>> /\ clock' = clock
      BY <1>7 DEF EventsRead
    <2>2. EvInv' /\ \A k \in Kinds : Files(k)
      BY <1>2, <1>7, <2>1, LoadDayKeeps DEF EventsRead
    <2>3. QED
      BY <1>2, <2>1, <2>2, DiskStands, IndexStands
  <1>8. CASE Restart
    <2>1. EvRestart /\ clock' = clock /\ crashes < MaxCrashes /\ crashes' = crashes + 1
      BY <1>8 DEF Restart
    <2>2. EvInv'
      BY <1>2, <2>1, EvRestartKeeps
    <2>3. ReaderKept' /\ IndexKept'
      BY <1>8, IdleKept, NoEntryListed DEF Restart
    <2>4. DiskKept'
      BY <1>8 DEF Restart, DiskKept, OneName
    <2>5. QED
      BY <2>1, <2>2, <2>3, <2>4
  <1>9. CASE SegmentOpens
    <2>1. UNCHANGED evVars /\ UNCHANGED <<reader, segCache>> /\ clock' = clock
      BY <1>9 DEF SegmentOpens, idxVars
    <2>2. QED
      BY <1>1, <1>2, <1>9, <2>1, EvUnchanged, OpensKeeps, IndexStands
  <1>10. CASE SegmentGrows
    <2>1. UNCHANGED evVars /\ UNCHANGED <<reader, segCache>> /\ clock' = clock
      BY <1>10 DEF SegmentGrows, idxVars
    <2>2. QED
      BY <1>1, <1>2, <1>10, <2>1, EvUnchanged, GrowsKeeps, IndexStands
  <1>11. CASE JanitorScans
    <2>1. /\ UNCHANGED evVars /\ UNCHANGED <<reader, segCache>> /\ clock' = clock
          /\ disk' = disk /\ mtime' = mtime
      BY <1>11 DEF JanitorScans, idxVars
    <2>2. DirStep
      BY <1>2, <2>1 DEF DirStep
    <2>3. QED
      BY <1>1, <1>2, <1>11, <2>1, <2>2, EvUnchanged, ScansKeeps, IndexStands
  <1>12. CASE JanitorDeletes
    <2>1. UNCHANGED evVars /\ UNCHANGED <<reader, segCache>> /\ clock' = clock
      BY <1>12 DEF JanitorDeletes, idxVars
    <2>2. QED
      BY <1>1, <1>2, <1>12, <2>1, EvUnchanged, DeletesKeeps, IndexStands
  <1>13. CASE \E d \in Days : IndexStat(d)
    <2>1. UNCHANGED evVars /\ clock' = clock
      BY <1>13 DEF IndexStat
    <2>2. QED
      BY <1>1, <1>2, <1>13, <2>1, EvUnchanged, StatKeeps
  <1>14. CASE IndexList
    <2>1. UNCHANGED evVars /\ clock' = clock
      BY <1>14 DEF IndexList
    <2>2. QED
      BY <1>1, <1>2, <1>14, <2>1, EvUnchanged, ListKeeps
  <1>15. CASE IndexStore
    <2>1. UNCHANGED evVars /\ clock' = clock
      BY <1>15 DEF IndexStore
    <2>2. QED
      BY <1>1, <1>2, <1>15, <2>1, EvUnchanged, StoreKeeps
  <1>16. QED
    BY <1>3, <1>4, <1>5, <1>6, <1>7, <1>8, <1>9, <1>10, <1>11, <1>12, <1>13, <1>14, <1>15 DEF Next

-----------------------------------------------------------------------------
LEMMA ArInvariant == Spec => []ArIInv
  <1>1. ArIInv /\ [Next]_vars => ArIInv'
    BY ArNext
  <1>2. QED
    BY <1>1, ArInit, PTL DEF Spec

LEMMA ArTyped == ArIInv => TypeOK
  <1> SUFFICES ASSUME ArIInv
               PROVE  TypeOK
    OBVIOUS
  <1>1. clock \in 0 .. MaxTime /\ \A k \in Kinds : open[k].startMs \in 0 .. MaxTime
    BY DEF ArIInv, EvInv, OpenKept, OpenInterval
  <1>2. ASSUME NEW d \in Days, NEW i \in DOMAIN filed[d]
        PROVE  filed[d][i] \in Interval
    BY DEF ArIInv, EvInv, FilesKept
  <1>3. disk \subseteq Seg /\ jan \in {"idle", "scanned"} /\ toDelete \subseteq Secs
    BY DEF ArIInv, DiskKept
  <1>4. reader.pc \in {"idle", "list", "store"}
    BY DEF ArIInv, ReaderKept
  <1>5. QED
    BY <1>1, <1>2, <1>3, <1>4 DEF TypeOK

(* A day as a request sees it, by the cache or by the directory.           *)
LEMMA ListedNames ==
  ASSUME ArIInv, NEW d \in Days
  PROVE  NamesOf(ListedDay(d)) = {n \in NamesOf(disk) : DayOf(n) = d}
  <1>1. NamesOf(OnDay(d)) = {n \in NamesOf(disk) : DayOf(n) = d}
    BY DEF OnDay, NamesOf
  <1>2. NamesOf(ListedDay(d)) = NamesOf(OnDay(d))
    BY DEF ArIInv, IndexKept, Listed, ListedDay
  <1>3. QED
    BY <1>1, <1>2

LEMMA DayOfName ==
  ASSUME NEW n \in Secs, NEW a \in Int, NEW b \in Int, n \in a .. b
  PROVE  DayOf(n) \in DaysInRange(a, b) \cap Days
  <1>1. MsPerSec \in Nat \ {0} /\ DayMs \in Nat \ {0} /\ MaxTime \in Nat /\ MaxEventMs \in Nat
    BY EventAssumption
  <1>2. PICK t : t = MaxTime \div MsPerSec
    OBVIOUS
  <1>3. t \in Nat /\ MsPerSec * t <= MaxTime /\ n \in Nat /\ n <= t
    BY <1>1, <1>2, Quotient DEF Secs, SecOf
  <1>4. PICK x, y, z : x = n * MsPerSec /\ y = a * MsPerSec /\ z = b * MsPerSec
    OBVIOUS
  <1>5. x \in Nat /\ y \in Int /\ z \in Int
    BY <1>1, <1>3, <1>4
  <1>6. x <= MaxTime
    <2>1. n < t => MsPerSec * t >= MsPerSec * n + MsPerSec
      BY <1>1, <1>3, ProductOrder
    <2>2. MsPerSec * n = x /\ MsPerSec * t \in Nat
      BY <1>1, <1>3, <1>4
    <2>3. QED
      BY <1>1, <1>3, <1>5, <2>1, <2>2
  <1>7. y <= x /\ x <= z
    <2>1. a < n => MsPerSec * n >= MsPerSec * a + MsPerSec
      BY <1>1, <1>3, ProductOrder
    <2>2. n < b => MsPerSec * b >= MsPerSec * n + MsPerSec
      BY <1>1, <1>3, ProductOrder
    <2>3. MsPerSec * n = x /\ MsPerSec * a = y /\ MsPerSec * b = z
      BY <1>1, <1>3, <1>4
    <2>4. QED
      BY <1>1, <1>3, <1>4, <1>5, <2>1, <2>2, <2>3
  <1>8. DayOfMs(x) \in Days
    <2>1. x <= MaxTime + MaxEventMs
      BY <1>1, <1>5, <1>6
    <2>2. QED
      BY <1>5, <2>1, DayIsThere
  <1>9. DayOf(n) = DayOfMs(x)
    BY <1>4 DEF DayOf, DayOfMs
  <1>10. /\ y \div DayMs <= x \div DayMs /\ x \div DayMs <= z \div DayMs
         /\ y \div DayMs \in Int /\ x \div DayMs \in Int /\ z \div DayMs \in Int
    <2>1. x \in Int /\ DayMs \in Nat \ {0}
      BY <1>1, <1>5
    <2>2. y \div DayMs <= x \div DayMs
      BY <1>5, <1>7, <2>1, QuotientMono
    <2>3. x \div DayMs <= z \div DayMs
      BY <1>5, <1>7, <2>1, QuotientMono
    <2>4. y \div DayMs \in Int /\ x \div DayMs \in Int /\ z \div DayMs \in Int
      BY <1>5, <2>1, IntQuotient
    <2>5. QED
      BY <2>2, <2>3, <2>4
  <1>11. DayOf(n) \in DaysInRange(a, b)
    BY <1>4, <1>10 DEF DayOf, DaysInRange
  <1>12. QED
    BY <1>8, <1>9, <1>11

LEMMA ExportComplete == ArIInv => ExportIsComplete
  <1> SUFFICES ASSUME ArIInv, NEW a \in Secs, NEW b \in Secs, a < b
               PROVE  SegmentsForExport(a, b) = Footage(disk, a, b)
    BY DEF ExportIsComplete, Footage
  <1>1. a \in Nat /\ b \in Nat /\ a - SegSecs \in Int /\ b + SegSecs \in Int
    BY ArchiveAssumption DEF Secs
  <1>2. NamesOf(disk) \subseteq Secs /\ Named(disk)
    BY StartsInSecs DEF ArIInv, DiskKept
  <1>3. PICK D, U, read, band :
          /\ D = DaysInRange(a - SegSecs, b + SegSecs) \cap Days
          /\ U = UNION {ListedDay(d) : d \in D}
          /\ read = {s \in U : s.start \in ExportBand(a, b) /\ \E f \in disk : f.start = s.start}
          /\ band = {s \in disk : s.start \in ExportBand(a, b)}
    OBVIOUS
  <1>4. SegmentsForExport(a, b) = Footage(read, a, b)
    BY <1>3 DEF SegmentsForExport, Footage
  <1>5. NamesOf(read) \subseteq NamesOf(band)
    BY <1>3 DEF NamesOf
  <1>6. NamesOf(band) \subseteq NamesOf(read)
    <2>1. SUFFICES ASSUME NEW n \in NamesOf(disk), n \in ExportBand(a, b)
                   PROVE  n \in NamesOf(read)
      BY <1>3 DEF NamesOf
    <2>2. DayOf(n) \in D
      BY <1>1, <1>2, <1>3, <2>1, DayOfName DEF ExportBand
    <2>3. n \in NamesOf(ListedDay(DayOf(n)))
      BY <1>3, <2>2, ListedNames
    <2>4. n \in NamesOf(U)
      BY <1>3, <2>2, <2>3 DEF NamesOf
    <2>5. QED
      BY <1>3, <2>1, <2>4 DEF NamesOf
  <1>7. Footage(read, a, b) = Footage(band, a, b)
    <2>1. NamesOf(read) = NamesOf(band)
      BY <1>5, <1>6
    <2>2. QED
      BY <2>1, FootageOfNames
  <1>8. QED
    BY <1>1, <1>2, <1>3, <1>4, <1>7, ExportHolds

(* What the index tells its callers is true however recorder, janitor and  *)
(* requests interleave: a cached listing the mtime still vouches for is    *)
(* what the directory holds, and an export has every file with footage of  *)
(* its window and no other (recordings.go, indexedSegments and             *)
(* segmentsForExport).                                                     *)
THEOREM ListingsAreRightHolds == Spec => []ListingsAreRight
  <1>1. ASSUME ArIInv
        PROVE  ListingsAreRight
    <2>1. TypeOK
      BY <1>1, ArTyped
    <2>2. IndexFresh
      BY <1>1 DEF ArIInv, IndexKept, Listed, IndexFresh, NamesOf
    <2>3. ExportIsComplete
      BY <1>1, ExportComplete
    <2>4. QED
      BY <2>1, <2>2, <2>3 DEF ListingsAreRight
  <1>2. QED
    BY <1>1, ArInvariant, PTL

(* What the janitor would delete at any moment brings the disk under its   *)
(* cap, no further, and in the order of the tiers (recorder.go,            *)
(* janitorDeleteOrder).                                                    *)
THEOREM DeletesWhatItMustHolds == Spec => []DeletesWhatItMust
  <1>1. ArIInv => DeletesWhatItMust
    BY DeletesHolds DEF ArIInv, DiskKept
  <1>2. QED
    BY <1>1, ArInvariant, PTL

(* What was filed is found again, unless a line of it could not be written *)
(* and the other day is asked: by the overlap test the janitor tags        *)
(* segments with and by the marks of the timeline, around midnight,        *)
(* through the cache and after late plates too (events.go, closeInterval,  *)
(* overlaps, clusterEventItems; rectimeline.go, timelineFor).              *)
THEOREM EventsAreFoundHolds == Spec => []EventsAreFound
  <1>1. ArIInv => EventsAreFound
    BY OverlapsExact, TimelineHolds DEF ArIInv, EventsAreFound
  <1>2. QED
    BY <1>1, ArInvariant, PTL

(* While the relay runs, an interval that leaves the map of open ones is   *)
(* the last line of the file of each of its days, and of what a read of    *)
(* that day answers, with the plate it had; but for days whose line was    *)
(* lost, of which the other lines stay (events.go, add, closeInterval,     *)
(* fileInterval and updateOpenPlate).                                      *)
THEOREM OpenIsFiledHolds == Spec => OpenIsFiled
  <1>1. ArIInv /\ [Next]_vars =>
           [\A k \in Kinds :
              open[k] # NotOpen /\ open'[k].startMs # open[k].startMs /\ crashes' = crashes =>
                \E end \in SecOf(open[k].startMs) .. SecOf(open[k].startMs + MaxEventMs) :
                  LET iv == [start |-> SecOf(open[k].startMs), end |-> end,
                             kind |-> k, plate |-> open[k].plate]
                  IN  \A d \in {DayOf(iv.start), DayOf(iv.end)} :
                          /\ \/ filed'[d] = Append(filed[d], iv)
                             \/ filed'[d] = filed[d] /\ <<d, iv>> \in unwritten'
                          /\ EventsForDay(d)' = filed'[d]]_vars
    BY ArNext DEF Files, LastOn
  <1>2. QED
    BY <1>1, ArInvariant, PTL DEF Spec, OpenIsFiled
=============================================================================
