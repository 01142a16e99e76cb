----------------------------- MODULE DataLemmas -----------------------------
(***************************************************************************)
(* Lemmas about data that the proofs about the components share: what      *)
(* Append and Tail make of a channel, the least and the greatest of a set, *)
(* sums over finite sets, SumOf(g, S), which is what MapThenSumSet and     *)
(* SumFunction of the community modules yield (the sizes the janitor adds  *)
(* up, the bytes of the thumbnail cache, the failures the PIN limiter      *)
(* counts), and lists in order (module Listing: the order of a wall and of *)
(* a recorder's channels).                                                 *)
(***************************************************************************)
EXTENDS Integers, FiniteSetsExt, Listing, SequenceTheorems, FiniteSetTheorems,
        WellFoundedInduction, TLAPS

-----------------------------------------------------------------------------
(* What Append and Tail make of a sequence, and where an element comes     *)
(* from.                                                                   *)
LEMMA AppendFacts ==
  ASSUME NEW S, NEW s \in Seq(S), NEW e \in S
  PROVE  /\ Append(s, e) \in Seq(S)
         /\ Len(s) \in Nat /\ Len(Append(s, e)) = Len(s) + 1
         /\ DOMAIN s = 1 .. Len(s) /\ DOMAIN Append(s, e) = 1 .. Len(s) + 1
         /\ \A k \in DOMAIN s : k \in DOMAIN Append(s, e) /\ Append(s, e)[k] = s[k] /\ s[k] \in S
         /\ Append(s, e)[Len(s) + 1] = e /\ Len(s) + 1 \in DOMAIN Append(s, e)
         /\ \A k \in DOMAIN Append(s, e) : k = Len(s) + 1 \/ k \in DOMAIN s
  <1>1. /\ Append(s, e) \in Seq(S) /\ Len(Append(s, e)) = Len(s) + 1
        /\ \A k \in 1 .. Len(s) : Append(s, e)[k] = s[k]
        /\ Append(s, e)[Len(s) + 1] = e
    BY AppendProperties
  <1>2. Len(s) \in Nat /\ DOMAIN s = 1 .. Len(s) /\ DOMAIN Append(s, e) = 1 .. Len(s) + 1
    BY <1>1, LenProperties
  <1>3. \A k \in 1 .. Len(s) : s[k] \in S
    BY ElementOfSeq
  <1>4. QED
    BY <1>1, <1>2, <1>3

LEMMA TailFacts ==
  ASSUME NEW S, NEW s \in Seq(S), s # <<>>
  PROVE  /\ Tail(s) \in Seq(S)
         /\ Len(s) \in Nat \ {0} /\ Len(Tail(s)) = Len(s) - 1
         /\ DOMAIN s = 1 .. Len(s) /\ DOMAIN Tail(s) = 1 .. Len(s) - 1
         /\ Head(s) = s[1] /\ Head(s) \in S /\ 1 \in DOMAIN s
         /\ \A k \in DOMAIN Tail(s) : k + 1 \in DOMAIN s /\ Tail(s)[k] = s[k + 1] /\ s[k + 1] \in S
         /\ \A k \in DOMAIN s : k = 1 \/ (k - 1 \in DOMAIN Tail(s) /\ Tail(s)[k - 1] = s[k])
  <1>1. /\ Tail(s) \in Seq(S) /\ Head(s) \in S
        /\ Len(Tail(s)) = Len(s) - 1
        /\ \A k \in 1 .. Len(Tail(s)) : Tail(s)[k] = s[k + 1]
    BY HeadTailProperties
  <1>2. Len(s) \in Nat \ {0}
    BY EmptySeq
  <1>3. DOMAIN s = 1 .. Len(s) /\ DOMAIN Tail(s) = 1 .. Len(s) - 1
    BY <1>1, LenProperties
  <1>4. \A k \in 1 .. Len(s) : s[k] \in S
    BY ElementOfSeq
  <1>5. Head(s) = s[1]
    OBVIOUS
  <1>6. QED
    BY <1>1, <1>2, <1>3, <1>4, <1>5

-----------------------------------------------------------------------------
(* A set of subsets of a finite set has a smallest one: what holds of a    *)
(* set when it holds of its proper subsets holds of every one.             *)
LEMMA SmallestSet ==
  ASSUME NEW U, IsFiniteSet(U), NEW B \in SUBSET (SUBSET U), B # {}
  PROVE  \E s \in B : \A t \in B : t \subseteq s => t = s
  <1> DEFINE R == OpToRel(<, Nat)
  <1>0. PICK N : N = {Cardinality(s) : s \in B}
    OBVIOUS
  <1>1. IsWellFoundedOn(R, Nat)
    BY NatLessThanWellFounded
  <1>2. \A s \in B : IsFiniteSet(s) /\ Cardinality(s) \in Nat
    BY FS_Subset, FS_CardinalityType
  <1>3. N \subseteq Nat /\ N # {}
    BY <1>0, <1>2
  <1> HIDE DEF R
  <1>4. PICK n \in N : \A m \in N : ~ (<<m, n>> \in R)
    BY <1>1, <1>3, WFMin
  <1>5. \A m \in N : ~ (m < n)
    BY <1>3, <1>4 DEF R, OpToRel
  <1>6. PICK s \in B : n = Cardinality(s)
    BY <1>0
  <1>7. ASSUME NEW t \in B, t \subseteq s
        PROVE  t = s
    <2>1. ~ (Cardinality(t) < Cardinality(s))
      BY <1>0, <1>5, <1>6
    <2>2. QED
      BY <1>2, <1>7, <2>1, FS_Subset
  <1>8. QED
    BY <1>7

(* The least and the greatest of a set of numbers.                        *)
LEMMA MinIsIn ==
  ASSUME NEW S \in SUBSET Nat, S # {}
  PROVE  Min(S) \in S /\ \A x \in S : Min(S) <= x
  <1> DEFINE R == OpToRel(<, Nat)
  <1>1. IsWellFoundedOn(R, Nat)
    BY NatLessThanWellFounded
  <1> HIDE DEF R
  <1>2. PICK y \in S : \A z \in S : ~ (<<z, y>> \in R)
    BY <1>1, WFMin
  <1>3. \A z \in S : ~ (z < y)
    BY <1>2 DEF R, OpToRel
  <1>4. \A z \in S : y <= z
    BY <1>3
  <1>5. QED
    BY <1>4 DEF Min

LEMMA MaxIsIn ==
  ASSUME NEW S, S \subseteq Nat, S # {}, IsFiniteSet(S)
  PROVE  Max(S) \in S /\ \A x \in S : x <= Max(S)
  <1>1. PICK B : B = {T \in SUBSET S : T # {} /\ ~ \E m \in T : \A x \in T : x <= m}
    OBVIOUS
  <1>2. \E m \in S : \A x \in S : x <= m
    <2> SUFFICES ASSUME ~ \E m \in S : \A x \in S : x <= m
                 PROVE  FALSE
      OBVIOUS
    <2>1. B \in SUBSET (SUBSET S) /\ B # {} /\ IsFiniteSet(S)
      BY <1>1
    <2>2. PICK T \in B : \A u \in B : u \subseteq T => u = T
      BY ONLY <2>1, SmallestSet
    <2>3. T \in SUBSET S /\ T # {} /\ ~ \E m \in T : \A x \in T : x <= m
      BY <1>1
    <2>4. PICK x \in T : TRUE
      BY <2>3
    <2>5. PICK u : u = T \ {x}
      OBVIOUS
    <2>6. u # {}
      <3>1. u = {} => \A y \in T : y <= x
        BY <2>3, <2>4, <2>5
      <3>2. QED
        BY <2>3, <2>4, <3>1
    <2>7. u \notin B
      BY <2>2, <2>4, <2>5
    <2>8. PICK m \in u : \A y \in u : y <= m
      BY <1>1, <2>3, <2>5, <2>6, <2>7
    <2>9. x \in Nat /\ m \in Nat /\ m \in T /\ \A y \in T : y \in Nat /\ (y = x \/ y <= m)
      BY <2>3, <2>4, <2>5, <2>8
    <2>10. CASE x <= m
      BY <2>3, <2>9, <2>10
    <2>11. CASE ~ (x <= m)
      <3>1. \A y \in T : y <= x
        BY <2>9, <2>11
      <3>2. QED
        BY <2>3, <2>4, <3>1
    <2>12. QED
      BY <2>10, <2>11
  <1>3. PICK m \in S : \A x \in S : m >= x
    BY <1>2
  <1>4. Max(S) \in S /\ \A x \in S : Max(S) >= x
    BY <1>3 DEF Max
  <1>5. QED
    BY <1>4

LEMMA UpToIsFinite ==
  ASSUME NEW n \in Nat, NEW S \in SUBSET (0 .. n)
  PROVE  S \subseteq Nat /\ IsFiniteSet(S)
  <1>1. IsFiniteSet(0 .. n)
    BY FS_Interval
  <1>2. IsFiniteSet(S)
    BY <1>1, FS_Subset
  <1>3. S \subseteq Nat
    OBVIOUS
  <1>4. QED
    BY <1>2, <1>3

(* The sum, and the function on subsets that its definition recurs on.      *)
SumOf(g, S) == MapThenSumSet(LAMBDA x : g[x], S)

SumOn(g, F, U) ==
    F = [s \in SUBSET U |-> IF s = {} THEN 0
                            ELSE g[CHOOSE x \in s : TRUE] + F[s \ {CHOOSE x \in s : TRUE}]]

LEMMA SumOfIsSum ==
  ASSUME NEW g, NEW U
  PROVE  SumOf(g, U) = (CHOOSE F : SumOn(g, F, U))[U]
  BY DEF SumOf, MapThenSumSet, MapThenFoldSet, SumOn

(* The element a sum takes first, and the sum's equation.                  *)
Chosen(s) == CHOOSE x \in s : TRUE

LEMMA SumStep ==
  ASSUME NEW g, NEW F, NEW U, SumOn(g, F, U), NEW s \in SUBSET U
  PROVE  /\ s = {} => F[s] = 0
         /\ s # {} => /\ Chosen(s) \in s /\ s \ {Chosen(s)} \in SUBSET U
                      /\ F[s] = g[Chosen(s)] + F[s \ {Chosen(s)}]
  BY DEF SumOn, Chosen

LEMMA SumsAgree ==
  ASSUME NEW g, NEW F, NEW U, SumOn(g, F, U), NEW G, NEW W, SumOn(g, G, W),
         NEW v, IsFiniteSet(v), v \subseteq U, v \subseteq W
  PROVE  F[v] = G[v]
  <1> SUFFICES ASSUME F[v] # G[v]
               PROVE  FALSE
    OBVIOUS
  <1>1. PICK B : B = {s \in SUBSET v : F[s] # G[s]}
    OBVIOUS
  <1>2. B \in SUBSET (SUBSET v) /\ B # {}
    BY <1>1
  <1>3. PICK s \in B : \A t \in B : t \subseteq s => t = s
    BY <1>2, SmallestSet
  <1>4. s \in SUBSET U /\ s \in SUBSET W /\ F[s] # G[s] /\ s \in SUBSET v
    BY <1>1
  <1>5. s # {}
    BY <1>4, SumStep
  <1>6. PICK x : x = Chosen(s)
    OBVIOUS
  <1>7. x \in s /\ F[s] = g[x] + F[s \ {x}] /\ G[s] = g[x] + G[s \ {x}]
    <2>1. s \in SUBSET U /\ s \in SUBSET W
      BY <1>4
    <2>2. Chosen(s) \in s /\ F[s] = g[Chosen(s)] + F[s \ {Chosen(s)}]
      BY <1>5, <2>1 DEF SumOn, Chosen
    <2>3. G[s] = g[Chosen(s)] + G[s \ {Chosen(s)}]
      BY <1>5, <2>1 DEF SumOn, Chosen
    <2>4. QED
      BY <1>6, <2>2, <2>3
  <1>8. s \ {x} \notin B
    BY <1>3, <1>7
  <1>9. F[s \ {x}] = G[s \ {x}]
    BY <1>1, <1>4, <1>8
  <1>10. QED
    BY <1>4, <1>7, <1>9

(* The equation has a solution, and the total is its value.                *)
LEMMA SumExists ==
  ASSUME NEW g, NEW U, IsFiniteSet(U)
  PROVE  \E F : SumOn(g, F, U)
  <1> SUFFICES ASSUME ~ \E F : SumOn(g, F, U)
               PROVE  FALSE
    OBVIOUS
  <1>1. PICK B : B = {s \in SUBSET U : ~ \E F : SumOn(g, F, s)}
    OBVIOUS
  <1>2. B \in SUBSET (SUBSET U) /\ B # {}
    BY <1>1
  <1>3. PICK s \in B : \A t \in B : t \subseteq s => t = s
    BY <1>2, SmallestSet
  <1>4. s \in SUBSET U /\ ~ \E F : SumOn(g, F, s)
    BY <1>1
  <1>5. ASSUME NEW t \in SUBSET s, t # s
        PROVE  \E F : SumOn(g, F, t) /\ SumOf(g, t) = F[t]
    <2>1. t \notin B /\ t \in SUBSET U
      BY <1>3, <1>4, <1>5
    <2>2. \E F : SumOn(g, F, t)
      BY <1>1, <2>1
    <2>3. PICK F : F = CHOOSE G : SumOn(g, G, t)
      OBVIOUS
    <2>4. SumOn(g, F, t)
      BY <2>2, <2>3
    <2>5. QED
      BY <2>3, <2>4, SumOfIsSum
  <1>6. PICK H : H = [t \in SUBSET s |-> IF t = {} THEN 0 ELSE g[Chosen(t)] + SumOf(g, t \ {Chosen(t)})]
    OBVIOUS
  <1>7. ASSUME NEW t \in SUBSET s, t # s
        PROVE  H[t] = SumOf(g, t)
    <2>1. PICK F : SumOn(g, F, t) /\ SumOf(g, t) = F[t]
      BY <1>5, <1>7
    <2>2. CASE t = {}
      BY <1>6, <2>1, <2>2, SumStep
    <2>3. CASE t # {}
      <3>1. PICK x : x = Chosen(t)
        OBVIOUS
      <3>2. x \in t /\ F[t] = g[x] + F[t \ {x}] /\ H[t] = g[x] + SumOf(g, t \ {x})
        BY <1>6, <2>1, <2>3, <3>1, SumStep
      <3>3. t \ {x} \in SUBSET s /\ t \ {x} # s
        BY <1>7
      <3>4. PICK G : SumOn(g, G, t \ {x}) /\ SumOf(g, t \ {x}) = G[t \ {x}]
        BY <1>5, <3>3
      <3>5. PICK u : u = t \ {x}
        OBVIOUS
      <3>6. IsFiniteSet(u) /\ u \subseteq t /\ SumOn(g, G, u) /\ SumOf(g, u) = G[u]
        BY <1>4, <1>7, <3>4, <3>5, FS_Subset
      <3>7. F[u] = G[u]
        BY <2>1, <3>6, SumsAgree
      <3>8. QED
        BY <2>1, <3>2, <3>5, <3>6, <3>7
    <2>4. QED
      BY <2>2, <2>3
  <1>8. SumOn(g, H, s)
    <2>1. ASSUME NEW t \in SUBSET s
          PROVE  H[t] = IF t = {} THEN 0 ELSE g[Chosen(t)] + H[t \ {Chosen(t)}]
      <3>1. CASE t = {}
        BY <1>6, <3>1
      <3>2. CASE t # {}
        <4>1. PICK x : x = Chosen(t)
          OBVIOUS
        <4>2. x \in t
          BY <3>2, <4>1 DEF Chosen
        <4>3. t \ {x} \in SUBSET s /\ t \ {x} # s
          BY <4>2
        <4>4. H[t \ {x}] = SumOf(g, t \ {x})
          BY <1>7, <4>3
        <4>5. H[t] = g[Chosen(t)] + SumOf(g, t \ {Chosen(t)})
          BY <1>6, <3>2
        <4>6. QED
          BY <3>2, <4>1, <4>4, <4>5
      <3>3. QED
        BY <3>1, <3>2
    <2>2. H = [t \in SUBSET s |-> H[t]]
      BY <1>6
    <2>3. H = [t \in SUBSET s |-> IF t = {} THEN 0 ELSE g[Chosen(t)] + H[t \ {Chosen(t)}]]
      BY <2>1, <2>2
    <2>4. QED
      BY <2>3 DEF SumOn, Chosen
  <1>9. QED
    BY <1>4, <1>8

LEMMA SumOfStep ==
  ASSUME NEW g, NEW U, IsFiniteSet(U)
  PROVE  /\ U = {} => SumOf(g, U) = 0
         /\ U # {} => Chosen(U) \in U /\ SumOf(g, U) = g[Chosen(U)] + SumOf(g, U \ {Chosen(U)})
  <1>1. ASSUME NEW W, IsFiniteSet(W)
        PROVE  \E F : SumOn(g, F, W) /\ SumOf(g, W) = F[W]
    <2>1. PICK F : F = CHOOSE G : SumOn(g, G, W)
      OBVIOUS
    <2>2. SumOn(g, F, W)
      BY <1>1, <2>1, SumExists
    <2>3. QED
      BY <2>1, <2>2, SumOfIsSum
  <1>2. ASSUME U = {}
        PROVE  SumOf(g, U) = 0
    <2>1. PICK F : SumOn(g, F, U) /\ SumOf(g, U) = F[U]
      BY <1>1
    <2>2. F[U] = 0
      BY <1>2, <2>1, SumStep
    <2>3. QED
      BY <2>1, <2>2
  <1>3. ASSUME U # {}
        PROVE  Chosen(U) \in U /\ SumOf(g, U) = g[Chosen(U)] + SumOf(g, U \ {Chosen(U)})
    <2>1. PICK x, u : x = Chosen(U) /\ u = U \ {x}
      OBVIOUS
    <2>2. PICK F : SumOn(g, F, U) /\ SumOf(g, U) = F[U]
      BY <1>1
    <2>3. x \in U /\ F[U] = g[x] + F[u]
      BY <1>3, <2>1, <2>2, SumStep
    <2>4. IsFiniteSet(u) /\ u \subseteq U
      BY <2>1, FS_Subset
    <2>5. PICK G : SumOn(g, G, u) /\ SumOf(g, u) = G[u]
      BY <1>1, <2>4
    <2>6. F[u] = G[u]
      BY <2>2, <2>4, <2>5, SumsAgree
    <2>7. QED
      BY <2>1, <2>2, <2>3, <2>5, <2>6
  <1>4. QED
    BY <1>2, <1>3

(* Sums of natural numbers.                                                *)
Counts(g, S) == IsFiniteSet(S) /\ \A x \in S : g[x] \in Nat

LEMMA SumOfIsNat ==
  ASSUME NEW g, NEW S, Counts(g, S)
  PROVE  SumOf(g, S) \in Nat
  <1> SUFFICES ASSUME SumOf(g, S) \notin Nat
               PROVE  FALSE
    OBVIOUS
  <1>1. PICK B : B = {s \in SUBSET S : SumOf(g, s) \notin Nat}
    OBVIOUS
  <1>2. B \in SUBSET (SUBSET S) /\ B # {} /\ IsFiniteSet(S)
    BY <1>1 DEF Counts
  <1>3. PICK s \in B : \A t \in B : t \subseteq s => t = s
    BY <1>2, SmallestSet
  <1>4. s \in SUBSET S /\ SumOf(g, s) \notin Nat /\ IsFiniteSet(s)
    BY <1>1, <1>2, FS_Subset
  <1>5. s # {}
    <2>1. s = {} => SumOf(g, s) = 0
      BY <1>4, SumOfStep
    <2>2. 0 \in Nat
      OBVIOUS
    <2>3. QED
      BY <1>4, <2>1, <2>2
  <1>6. PICK x : x = Chosen(s)
    OBVIOUS
  <1>7. x \in s /\ SumOf(g, s) = g[x] + SumOf(g, s \ {x})
    BY <1>4, <1>5, <1>6, SumOfStep
  <1>8. s \ {x} \in SUBSET S /\ s \ {x} \notin B
    BY <1>3, <1>4, <1>7
  <1>9. SumOf(g, s \ {x}) \in Nat
    BY <1>1, <1>8
  <1>10. g[x] \in Nat
    BY <1>4, <1>7 DEF Counts
  <1>11. QED
    BY <1>4, <1>7, <1>9, <1>10

(* A sum does not depend on the order.                                     *)
LEMMA SumOfWithout ==
  ASSUME NEW g, NEW S, Counts(g, S), NEW y \in S
  PROVE  SumOf(g, S) = g[y] + SumOf(g, S \ {y})
  <1> SUFFICES ASSUME ~ (SumOf(g, S) = g[y] + SumOf(g, S \ {y}))
               PROVE  FALSE
    OBVIOUS
  <1>1. PICK B : B = {s \in SUBSET S : \E z \in s : SumOf(g, s) # g[z] + SumOf(g, s \ {z})}
    OBVIOUS
  <1>2. B \in SUBSET (SUBSET S) /\ B # {} /\ IsFiniteSet(S)
    BY <1>1 DEF Counts
  <1>3. PICK s \in B : \A t \in B : t \subseteq s => t = s
    BY <1>2, SmallestSet
  <1>4. PICK z \in s : SumOf(g, s) # g[z] + SumOf(g, s \ {z})
    BY <1>1
  <1>5. s \in SUBSET S /\ IsFiniteSet(s)
    BY <1>1, <1>2, FS_Subset
  <1>6. PICK x : x = Chosen(s)
    OBVIOUS
  <1>7. x \in s /\ SumOf(g, s) = g[x] + SumOf(g, s \ {x})
    BY <1>4, <1>5, <1>6, SumOfStep
  <1>8. x # z
    BY <1>4, <1>7
  <1>9. PICK a, b, c : a = s \ {x} /\ b = s \ {z} /\ c = s \ {x, z}
    OBVIOUS
  <1>10. a \notin B /\ b \notin B /\ a \in SUBSET S /\ b \in SUBSET S /\ c \in SUBSET S
    BY <1>3, <1>5, <1>7, <1>9
  <1>11. a \ {z} = c /\ b \ {x} = c
    BY <1>9
  <1>12. SumOf(g, a) = g[z] + SumOf(g, c) /\ SumOf(g, b) = g[x] + SumOf(g, c)
    BY <1>1, <1>7, <1>8, <1>9, <1>10, <1>11
  <1>13. Counts(g, c)
    BY <1>2, <1>10, FS_Subset DEF Counts
  <1>14. SumOf(g, c) \in Nat /\ g[x] \in Nat /\ g[z] \in Nat
    BY <1>5, <1>7, <1>13, SumOfIsNat DEF Counts
  <1>15. SumOf(g, s) = g[x] + SumOf(g, a) /\ SumOf(g, s) # g[z] + SumOf(g, b)
    BY <1>4, <1>7, <1>9
  <1>16. QED
    BY <1>12, <1>14, <1>15

(* Sums over the parts of a set.                                           *)
LEMMA SumOfParts ==
  ASSUME NEW g, NEW S, Counts(g, S), NEW P \in SUBSET S
  PROVE  SumOf(g, S) = SumOf(g, P) + SumOf(g, S \ P)
  <1> SUFFICES ASSUME SumOf(g, S) # SumOf(g, P) + SumOf(g, S \ P)
               PROVE  FALSE
    OBVIOUS
  <1>1. PICK B : B = {p \in SUBSET S : SumOf(g, S) # SumOf(g, p) + SumOf(g, S \ p)}
    OBVIOUS
  <1>2. B \in SUBSET (SUBSET S) /\ B # {} /\ IsFiniteSet(S)
    BY <1>1 DEF Counts
  <1>3. PICK p \in B : \A t \in B : t \subseteq p => t = p
    BY <1>2, SmallestSet
  <1>4. p \in SUBSET S /\ SumOf(g, S) # SumOf(g, p) + SumOf(g, S \ p)
    BY <1>1
  <1>5. p # {}
    <2>1. SUFFICES ASSUME p = {}
                   PROVE  FALSE
      OBVIOUS
    <2>2. IsFiniteSet(p) /\ S \ p = S /\ SumOf(g, S) \in Nat
      BY <1>2, <1>4, <2>1, FS_Subset, SumOfIsNat
    <2>3. SumOf(g, p) = 0
      BY <2>1, <2>2, SumOfStep
    <2>4. QED
      BY <1>4, <2>2, <2>3
  <1>6. PICK x \in p : TRUE
    BY <1>5
  <1>7. PICK a, b, c : a = p \ {x} /\ b = S \ p /\ c = S \ a
    OBVIOUS
  <1>8. a \notin B /\ a \in SUBSET S
    BY <1>3, <1>4, <1>7
  <1>9. SumOf(g, S) = SumOf(g, a) + SumOf(g, c)
    BY <1>1, <1>7, <1>8
  <1>10. Counts(g, p) /\ Counts(g, c) /\ Counts(g, a) /\ Counts(g, b)
    BY <1>2, <1>4, <1>7, <1>8, FS_Subset DEF Counts
  <1>11. x \in c /\ c \ {x} = b /\ g[x] \in Nat
    BY <1>4, <1>7 DEF Counts
  <1>12. SumOf(g, p) = g[x] + SumOf(g, a) /\ SumOf(g, c) = g[x] + SumOf(g, b)
    BY <1>7, <1>10, <1>11, SumOfWithout
  <1>13. SumOf(g, a) \in Nat /\ SumOf(g, b) \in Nat
    BY <1>10, SumOfIsNat
  <1>14. QED
    BY <1>4, <1>7, <1>9, <1>11, <1>12, <1>13

(* A sum grows with its summands ...                                       *)
LEMMA SumOfGrows ==
  ASSUME NEW g, NEW h, NEW S, Counts(g, S), Counts(h, S), \A x \in S : g[x] <= h[x]
  PROVE  SumOf(g, S) <= SumOf(h, S)
  <1> SUFFICES ASSUME ~ (SumOf(g, S) <= SumOf(h, S))
               PROVE  FALSE
    OBVIOUS
  <1>1. PICK B : B = {s \in SUBSET S : ~ (SumOf(g, s) <= SumOf(h, s))}
    OBVIOUS
  <1>2. B \in SUBSET (SUBSET S) /\ B # {} /\ IsFiniteSet(S)
    BY <1>1 DEF Counts
  <1>3. PICK s \in B : \A t \in B : t \subseteq s => t = s
    BY <1>2, SmallestSet
  <1>4. s \in SUBSET S /\ ~ (SumOf(g, s) <= SumOf(h, s)) /\ IsFiniteSet(s)
    BY <1>1, <1>2, FS_Subset
  <1>5. s # {}
    <2>1. s = {} => SumOf(g, s) = 0 /\ SumOf(h, s) = 0
      BY <1>4, SumOfStep
    <2>2. QED
      BY <1>4, <2>1
  <1>6. PICK x, u : x \in s /\ u = s \ {x}
    BY <1>5
  <1>7. u \in SUBSET S /\ u \notin B
    BY <1>3, <1>4, <1>6
  <1>8. SumOf(g, u) <= SumOf(h, u)
    BY <1>1, <1>7
  <1>9. Counts(g, s) /\ Counts(h, s) /\ Counts(g, u) /\ Counts(h, u)
    BY <1>2, <1>4, <1>7, FS_Subset DEF Counts
  <1>10. SumOf(g, s) = g[x] + SumOf(g, u) /\ SumOf(h, s) = h[x] + SumOf(h, u)
    BY <1>6, <1>9, SumOfWithout
  <1>11. SumOf(g, u) \in Nat /\ SumOf(h, u) \in Nat
    BY <1>9, SumOfIsNat
  <1>12. g[x] \in Nat /\ h[x] \in Nat /\ g[x] <= h[x]
    BY <1>4, <1>6 DEF Counts
  <1>13. QED
    BY <1>4, <1>8, <1>10, <1>11, <1>12

(* ... and with its set.                                                   *)
LEMMA SumOfPart ==
  ASSUME NEW g, NEW S, Counts(g, S), NEW P \in SUBSET S
  PROVE  SumOf(g, P) <= SumOf(g, S)
  <1>1. PICK r : r = S \ P
    OBVIOUS
  <1>2. Counts(g, P) /\ Counts(g, r)
    BY <1>1, FS_Subset DEF Counts
  <1>3. SumOf(g, P) \in Nat /\ SumOf(g, r) \in Nat
    BY <1>2, SumOfIsNat
  <1>4. SumOf(g, S) = SumOf(g, P) + SumOf(g, r)
    BY <1>1, SumOfParts
  <1>5. QED
    BY <1>3, <1>4

(* One more of a summand is one more of the sum.                           *)
LEMMA SumOfOneMore ==
  ASSUME NEW g, NEW h, NEW S, Counts(g, S), Counts(h, S), NEW y \in S,
         h[y] = g[y] + 1, \A x \in S : x # y => h[x] = g[x]
  PROVE  SumOf(h, S) = SumOf(g, S) + 1
  <1>1. PICK u : u = S \ {y}
    OBVIOUS
  <1>2. Counts(g, u) /\ Counts(h, u)
    BY <1>1, FS_Subset DEF Counts
  <1>3. SumOf(g, u) \in Nat /\ SumOf(h, u) \in Nat
    BY <1>2, SumOfIsNat
  <1>4. \A x \in u : g[x] \in Nat /\ h[x] \in Nat /\ h[x] = g[x]
    BY <1>1, <1>2 DEF Counts
  <1>5. SumOf(g, u) <= SumOf(h, u) /\ SumOf(h, u) <= SumOf(g, u)
    BY <1>2, <1>4, SumOfGrows
  <1>6. SumOf(g, S) = g[y] + SumOf(g, u) /\ SumOf(h, S) = h[y] + SumOf(h, u)
    BY <1>1, SumOfWithout
  <1>7. g[y] \in Nat
    BY DEF Counts
  <1>8. QED
    BY <1>3, <1>5, <1>6, <1>7

(* A sum does not depend on what its summands are counted by.              *)
LEMMA SumOfRenamed ==
  ASSUME NEW g, NEW h, NEW S, NEW T, NEW f \in Bijection(S, T), Counts(g, S), \A x \in S : h[f[x]] = g[x]
  PROVE  SumOf(h, T) = SumOf(g, S) /\ Counts(h, T)
  <1>1. PICK Im : Im = [s \in SUBSET S |-> {f[x] : x \in s}]
    OBVIOUS
  <1>2. /\ \A x \in S : f[x] \in T
        /\ \A y \in T : \E x \in S : f[x] = y
        /\ \A x, y \in S : f[x] = f[y] => x = y
    BY DEF Bijection, Injection, Surjection, IsInjective
  <1>3. IsFiniteSet(T)
    BY FS_Surjection DEF Counts, Bijection
  <1>4. Counts(h, T)
    <2>1. \A y \in T : h[y] \in Nat
      BY <1>2 DEF Counts
    <2>2. QED
      BY <1>3, <2>1 DEF Counts
  <1>5. Im[S] = T
    BY <1>1, <1>2
  <1>6. ASSUME SumOf(h, T) # SumOf(g, S)
        PROVE  FALSE
    <2>1. PICK B : B = {s \in SUBSET S : SumOf(h, Im[s]) # SumOf(g, s)}
      OBVIOUS
    <2>2. B \in SUBSET (SUBSET S) /\ B # {} /\ IsFiniteSet(S)
      <3>1. S \in B
        BY <1>5, <1>6, <2>1
      <3>2. QED
        BY <2>1, <3>1 DEF Counts
    <2>3. PICK s \in B : \A t \in B : t \subseteq s => t = s
      BY <2>2, SmallestSet
    <2>4. s \in SUBSET S /\ SumOf(h, Im[s]) # SumOf(g, s) /\ IsFiniteSet(s)
      BY <2>1, <2>2, FS_Subset
    <2>5. s # {}
      <3>1. SUFFICES ASSUME s = {}
                     PROVE  FALSE
        OBVIOUS
      <3>2. Im[s] = {}
        BY <1>1, <2>4, <3>1
      <3>3. SumOf(g, s) = 0 /\ SumOf(h, Im[s]) = 0
        BY <2>4, <3>1, <3>2, SumOfStep
      <3>4. QED
        BY <2>4, <3>3
    <2>6. PICK x, u : x \in s /\ u = s \ {x}
      BY <2>5
    <2>7. u \in SUBSET S /\ u \notin B
      BY <2>3, <2>4, <2>6
    <2>8. SumOf(h, Im[u]) = SumOf(g, u)
      BY <2>1, <2>7
    <2>9. PICK y, a, b : y = f[x] /\ a = Im[s] /\ b = Im[u]
      OBVIOUS
    <2>10. y \in a /\ a \subseteq T /\ a \ {y} = b
      <3>1. a = {f[z] : z \in s} /\ b = {f[z] : z \in u}
        BY <1>1, <2>4, <2>7, <2>9
      <3>2. \A z \in s : z # x => f[z] # y
        BY <1>2, <2>4, <2>6, <2>9
      <3>3. QED
        BY <1>2, <2>4, <2>6, <2>9, <3>1, <3>2
    <2>11. Counts(h, a) /\ Counts(g, s)
      BY <1>4, <2>4, <2>10, FS_Subset DEF Counts
    <2>12. SumOf(h, a) = h[y] + SumOf(h, b) /\ SumOf(g, s) = g[x] + SumOf(g, u)
      BY <2>6, <2>10, <2>11, SumOfWithout
    <2>13. h[y] = g[x]
      BY <2>4, <2>6, <2>9
    <2>14. QED
      BY <2>4, <2>8, <2>9, <2>12, <2>13
  <1>7. QED
    BY <1>4, <1>6

-----------------------------------------------------------------------------
(* Lists in order (module Listing).  The elements of a finite set that are *)
(* below one by a strict total order count its rank.                       *)
TotallyOrders(R, S) ==
    /\ \A x \in S : <<x, x>> \notin R
    /\ \A x, y \in S : x # y => <<x, y>> \in R \/ <<y, x>> \in R
    /\ \A x, y, z \in S : <<x, y>> \in R /\ <<y, z>> \in R => <<x, z>> \in R

Below(S, R, x) == {y \in S : <<y, x>> \in R}

LEMMA RankGrows ==
  ASSUME NEW S, IsFiniteSet(S), NEW R, TotallyOrders(R, S), NEW x \in S, NEW y \in S,
         <<x, y>> \in R
  PROVE  /\ Cardinality(Below(S, R, x)) \in Nat /\ Cardinality(Below(S, R, y)) \in Nat
         /\ Cardinality(Below(S, R, x)) < Cardinality(Below(S, R, y))
  <1>1. PICK a, b : a = Below(S, R, x) /\ b = Below(S, R, y)
    OBVIOUS
  <1>2. a \subseteq b /\ a # b
    <2>1. x \in b /\ x \notin a
      BY <1>1 DEF Below, TotallyOrders
    <2>2. a \subseteq b
      BY <1>1 DEF Below, TotallyOrders
    <2>3. QED
      BY <2>1, <2>2
  <1>3. IsFiniteSet(a) /\ IsFiniteSet(b)
    BY <1>1, FS_Subset DEF Below
  <1>4. Cardinality(a) \in Nat /\ Cardinality(b) \in Nat
    BY <1>3, FS_CardinalityType
  <1>5. Cardinality(a) <= Cardinality(b) /\ Cardinality(a) # Cardinality(b)
    BY <1>2, <1>3, FS_Subset
  <1>6. QED
    BY <1>1, <1>4, <1>5

(* As many are below the elements of a set as there are numbers: each rank *)
(* is that of one of them.                                                 *)
LEMMA RankIsTaken ==
  ASSUME NEW S, IsFiniteSet(S), NEW R, TotallyOrders(R, S), NEW k \in 1 .. Cardinality(S)
  PROVE  \E x \in S : Cardinality(Below(S, R, x)) = k - 1
  <1>1. PICK n : n = Cardinality(S)
    OBVIOUS
  <1>2. n \in Nat
    BY <1>1, FS_CardinalityType
  <1>3. PICK T : T = 0 .. n - 1
    OBVIOUS
  <1>4. IsFiniteSet(T) /\ Cardinality(T) = n
    <2>1. 0 \in Int /\ n - 1 \in Int
      BY <1>2
    <2>2. IsFiniteSet(0 .. n - 1) /\ Cardinality(0 .. n - 1) = IF 0 > n - 1 THEN 0 ELSE (n - 1) - 0 + 1
      BY <2>1, FS_Interval
    <2>3. QED
      BY <1>2, <1>3, <2>2
  <1>5. PICK f : f = [x \in S |-> Cardinality(Below(S, R, x))]
    OBVIOUS
  <1>6. ASSUME NEW x \in S
        PROVE  f[x] \in T
    <2>1. PICK a : a = Below(S, R, x)
      OBVIOUS
    <2>2. a \subseteq S /\ a # S
      BY <2>1 DEF Below, TotallyOrders
    <2>3. IsFiniteSet(a) /\ Cardinality(a) <= n /\ Cardinality(a) # n
      BY <1>1, <2>2, FS_Subset
    <2>4. Cardinality(a) \in Nat
      BY <2>3, FS_CardinalityType
    <2>5. f[x] = Cardinality(a)
      BY <1>5, <2>1
    <2>6. QED
      BY <1>2, <1>3, <2>3, <2>4, <2>5
  <1>7. ASSUME NEW x \in S, NEW y \in S, f[x] = f[y]
        PROVE  x = y
    <2>1. SUFFICES ASSUME x # y
                   PROVE  FALSE
      OBVIOUS
    <2>2. <<x, y>> \in R \/ <<y, x>> \in R
      BY <2>1 DEF TotallyOrders
    <2>3. f[x] = Cardinality(Below(S, R, x)) /\ f[y] = Cardinality(Below(S, R, y))
      BY <1>5
    <2>4. f[x] \in Nat /\ f[y] \in Nat /\ (f[x] < f[y] \/ f[y] < f[x])
      BY <2>2, <2>3, RankGrows
    <2>5. QED
      BY <1>7, <2>4
  <1>8. f \in Injection(S, T)
    BY <1>5, <1>6, <1>7 DEF Injection, IsInjective
  <1>9. f \in Surjection(S, T)
    BY <1>1, <1>4, <1>8, FS_Injection
  <1>10. k - 1 \in T
    BY <1>1, <1>2, <1>3
  <1>11. QED
    BY <1>5, <1>9, <1>10 DEF Surjection

LEMMA SortedFacts ==
  ASSUME NEW S, IsFiniteSet(S), NEW R, TotallyOrders(R, S)
  PROVE  /\ Cardinality(S) \in Nat
         /\ Sorted(S, R) \in Seq(S) /\ Len(Sorted(S, R)) = Cardinality(S)
         /\ DOMAIN Sorted(S, R) = 1 .. Cardinality(S)
         /\ \A x \in S : \E i \in 1 .. Cardinality(S) : Sorted(S, R)[i] = x
         /\ \A i, j \in 1 .. Cardinality(S) : i < j => <<Sorted(S, R)[i], Sorted(S, R)[j]>> \in R
  <1>1. PICK n : n = Cardinality(S)
    OBVIOUS
  <1>2. n \in Nat
    BY <1>1, FS_CardinalityType
  <1>3. PICK s : s = Sorted(S, R)
    OBVIOUS
  <1>4. s = [k \in 1 .. n |-> CHOOSE x \in S : Cardinality(Below(S, R, x)) = k - 1]
    BY <1>1, <1>3 DEF Sorted, Below
  <1>5. ASSUME NEW k \in 1 .. n
        PROVE  s[k] \in S /\ Cardinality(Below(S, R, s[k])) = k - 1
    <2>1. \E x \in S : Cardinality(Below(S, R, x)) = k - 1
      BY <1>1, RankIsTaken
    <2>2. s[k] = CHOOSE x \in S : Cardinality(Below(S, R, x)) = k - 1
      BY <1>4
    <2>3. QED
      BY <2>1, <2>2
  <1>6. s \in [1 .. n -> S]
    BY <1>4, <1>5
  <1>7. s \in Seq(S) /\ Len(s) = n
    BY <1>2, <1>6, SeqDef, LenProperties
  <1>8. ASSUME NEW i \in 1 .. n, NEW j \in 1 .. n, i < j
        PROVE  <<s[i], s[j]>> \in R
    <2>1. SUFFICES ASSUME <<s[i], s[j]>> \notin R
                   PROVE  FALSE
      OBVIOUS
    <2>2. PICK x \in S, y \in S : x = s[i] /\ y = s[j]
      BY <1>5
    <2>3. Cardinality(Below(S, R, x)) = i - 1 /\ Cardinality(Below(S, R, y)) = j - 1
      BY <1>5, <2>2
    <2>4. x # y
      BY <1>2, <1>8, <2>3
    <2>5. <<y, x>> \in R
      BY <2>1, <2>2, <2>4 DEF TotallyOrders
    <2>6. Cardinality(Below(S, R, y)) < Cardinality(Below(S, R, x))
      BY <2>5, RankGrows
    <2>7. QED
      BY <1>2, <1>8, <2>3, <2>6
  <1>9. ASSUME NEW x \in S
        PROVE  \E i \in 1 .. n : s[i] = x
    <2>1. PICK T, f : T = 1 .. n /\ f = [i \in T |-> s[i]]
      OBVIOUS
    <2>2. IsFiniteSet(T) /\ Cardinality(T) = n
      <3>1. 1 \in Int /\ n \in Int
        BY <1>2
      <3>2. IsFiniteSet(1 .. n) /\ Cardinality(1 .. n) = IF 1 > n THEN 0 ELSE n - 1 + 1
        BY <3>1, FS_Interval
      <3>3. QED
        BY <1>2, <2>1, <3>2
    <2>3. \A i, j \in T : f[i] = f[j] => i = j
      <3>1. ASSUME NEW i \in T, NEW j \in T, f[i] = f[j]
            PROVE  i = j
        <4>1. i \in Int /\ j \in Int /\ Cardinality(Below(S, R, f[i])) = i - 1
              /\ Cardinality(Below(S, R, f[j])) = j - 1
          BY <1>2, <1>5, <2>1
        <4>2. QED
          BY <3>1, <4>1
      <3>2. QED
        BY <3>1
    <2>4. f \in Injection(T, S)
      BY <1>5, <2>1, <2>3 DEF Injection, IsInjective
    <2>5. f \in Surjection(T, S)
      BY <1>1, <2>2, <2>4, FS_Injection
    <2>6. QED
      BY <2>1, <2>5 DEF Surjection
  <1>10. QED
    BY <1>1, <1>2, <1>3, <1>6, <1>7, <1>8, <1>9

(* A list of a set in order.                                               *)
Lists(t, S, R) ==
    /\ t \in Seq(S)
    /\ \A x \in S : \E i \in 1 .. Len(t) : t[i] = x
    /\ \A i, j \in 1 .. Len(t) : i < j => <<t[i], t[j]>> \in R

LEMMA ListsApart ==
  ASSUME NEW S, NEW R, TotallyOrders(R, S), NEW t, Lists(t, S, R),
         NEW i \in 1 .. Len(t), NEW j \in 1 .. Len(t)
  PROVE  /\ t[i] = t[j] => i = j
         /\ <<t[i], t[j]>> \in R => i < j
  <1>1. Len(t) \in Nat /\ t[i] \in S /\ t[j] \in S
    <2>1. t \in Seq(S)
      BY DEF Lists
    <2>2. QED
      BY ONLY <2>1, LenProperties, ElementOfSeq
  <1>2. i \in Int /\ j \in Int
    BY <1>1
  <1>3. i < j \/ i = j \/ j < i
    BY <1>2
  <1>4. i < j => <<t[i], t[j]>> \in R
    BY DEF Lists
  <1>5. j < i => <<t[j], t[i]>> \in R
    BY DEF Lists
  <1>6. t[i] = t[j] => <<t[i], t[j]>> \notin R /\ <<t[j], t[i]>> \notin R
    BY <1>1 DEF TotallyOrders
  <1>7. <<t[i], t[j]>> \in R => <<t[j], t[i]>> \notin R /\ i # j
    BY <1>1 DEF TotallyOrders
  <1>8. QED
    BY <1>3, <1>4, <1>5, <1>6, <1>7

LEMMA ListIsAsLong ==
  ASSUME NEW S, IsFiniteSet(S), NEW R, TotallyOrders(R, S), NEW t, Lists(t, S, R)
  PROVE  Len(t) = Cardinality(S)
  <1>1. PICK n, T, f : n = Len(t) /\ T = 1 .. n /\ f = [i \in T |-> t[i]]
    OBVIOUS
  <1>2. n \in Nat
    BY <1>1 DEF Lists
  <1>3. IsFiniteSet(T) /\ Cardinality(T) = n
    <2>1. 1 \in Int /\ n \in Int
      BY <1>2
    <2>2. IsFiniteSet(1 .. n) /\ Cardinality(1 .. n) = IF 1 > n THEN 0 ELSE n - 1 + 1
      BY <2>1, FS_Interval
    <2>3. QED
      BY <1>1, <1>2, <2>2
  <1>4. f \in [T -> S]
    <2>1. \A i \in T : t[i] \in S
      BY <1>1 DEF Lists
    <2>2. QED
      BY <1>1, <2>1
  <1>5. \A i, j \in T : f[i] = f[j] => i = j
    <2>1. ASSUME NEW i \in 1 .. Len(t), NEW j \in 1 .. Len(t), t[i] = t[j]
          PROVE  i = j
      BY <2>1, ListsApart
    <2>2. \A i \in T : f[i] = t[i] /\ i \in 1 .. Len(t)
      BY <1>1
    <2>3. QED
      BY <2>1, <2>2
  <1>6. \A x \in S : \E i \in T : f[i] = x
    BY <1>1 DEF Lists
  <1>7. f \in Bijection(T, S)
    BY <1>4, <1>5, <1>6 DEF Bijection, Injection, Surjection, IsInjective
  <1>8. Cardinality(S) = Cardinality(T)
    BY <1>3, <1>7, FS_Bijection DEF ExistsBijection
  <1>9. QED
    BY <1>1, <1>3, <1>8

LEMMA RankInList ==
  ASSUME NEW S, IsFiniteSet(S), NEW R, TotallyOrders(R, S), NEW t, Lists(t, S, R),
         NEW k \in 1 .. Len(t)
  PROVE  Cardinality(Below(S, R, t[k])) = k - 1
  <1>1. PICK B, T, f : B = Below(S, R, t[k]) /\ T = 1 .. k - 1 /\ f = [i \in T |-> t[i]]
    OBVIOUS
  <1>2. Len(t) \in Nat /\ k \in Nat /\ k >= 1 /\ t[k] \in S
    BY DEF Lists
  <1>3. IsFiniteSet(T) /\ Cardinality(T) = k - 1
    <2>1. 1 \in Int /\ k - 1 \in Int
      BY <1>2
    <2>2. IsFiniteSet(1 .. k - 1) /\ Cardinality(1 .. k - 1) = IF 1 > k - 1 THEN 0 ELSE (k - 1) - 1 + 1
      BY <2>1, FS_Interval
    <2>3. QED
      BY <1>1, <1>2, <2>2
  <1>4. \A i \in T : i \in 1 .. Len(t) /\ i < k
    BY <1>1, <1>2
  <1>5. ASSUME NEW i \in T
        PROVE  f[i] \in B
    <2>1. i \in 1 .. Len(t) /\ i < k
      BY <1>4
    <2>2. t[i] \in S
      BY <2>1 DEF Lists
    <2>3. <<t[i], t[k]>> \in R
      BY <2>1 DEF Lists
    <2>4. f[i] = t[i]
      BY <1>1
    <2>5. QED
      BY <1>1, <2>2, <2>3, <2>4 DEF Below
  <1>6. \A i, j \in T : f[i] = f[j] => i = j
    <2>1. ASSUME NEW i \in T, NEW j \in T, f[i] = f[j]
          PROVE  i = j
      <3>1. t[i] = t[j]
        BY <1>1, <2>1
      <3>2. QED
        BY <1>4, <3>1, ListsApart
    <2>2. QED
      BY <2>1
  <1>7. ASSUME NEW x \in B
        PROVE  \E i \in T : f[i] = x
    <2>1. x \in S /\ <<x, t[k]>> \in R
      BY <1>1 DEF Below
    <2>2. PICK i \in 1 .. Len(t) : t[i] = x
      BY <2>1 DEF Lists
    <2>3. i < k
      BY <2>1, <2>2, ListsApart
    <2>4. i \in T
      BY <1>1, <1>2, <2>3
    <2>5. QED
      BY <1>1, <2>2, <2>4
  <1>8. f \in Bijection(T, B)
    <2>1. f \in [T -> B]
      BY <1>1, <1>5
    <2>2. QED
      BY <1>6, <1>7, <2>1 DEF Bijection, Injection, Surjection, IsInjective
  <1>9. Cardinality(B) = Cardinality(T)
    BY <1>3, <1>8, FS_Bijection DEF ExistsBijection
  <1>10. QED
    BY <1>1, <1>3, <1>9

(* There is one list of a set in order.                                    *)
LEMMA OneList ==
  ASSUME NEW S, IsFiniteSet(S), NEW R, TotallyOrders(R, S),
         NEW s, Lists(s, S, R), NEW t, Lists(t, S, R)
  PROVE  s = t
  <1>1. Len(s) = Len(t)
    BY ListIsAsLong
  <1>2. ASSUME NEW k \in 1 .. Len(s)
        PROVE  s[k] = t[k]
    <2>1. PICK x, y : x = s[k] /\ y = t[k]
      OBVIOUS
    <2>2. x \in S /\ y \in S
      BY <1>1, <2>1 DEF Lists
    <2>3. Cardinality(Below(S, R, x)) = k - 1 /\ Cardinality(Below(S, R, y)) = k - 1
      BY <1>1, <2>1, RankInList
    <2>4. k - 1 \in Int
      BY DEF Lists
    <2>5. <<x, y>> \notin R /\ <<y, x>> \notin R
      <3>1. <<x, y>> \in R => Cardinality(Below(S, R, x)) < Cardinality(Below(S, R, y))
        BY <2>2, RankGrows
      <3>2. <<y, x>> \in R => Cardinality(Below(S, R, y)) < Cardinality(Below(S, R, x))
        BY <2>2, RankGrows
      <3>3. QED
        BY <2>3, <2>4, <3>1, <3>2
    <2>6. x = y
      BY <2>2, <2>5 DEF TotallyOrders
    <2>7. QED
      BY <2>1, <2>6
  <1>3. QED
    BY <1>1, <1>2, SeqEqual DEF Lists

LEMMA SortedLists ==
  ASSUME NEW S, IsFiniteSet(S), NEW R, TotallyOrders(R, S)
  PROVE  Lists(Sorted(S, R), S, R) /\ Len(Sorted(S, R)) = Cardinality(S)
  BY SortedFacts DEF Lists

(* Places in a sequence are in order by their numbers.                     *)
Earlier(I) == {p \in I \X I : p[1] < p[2]}

LEMMA PlacesAreOrdered ==
  ASSUME NEW I \in SUBSET Nat
  PROVE  /\ TotallyOrders(Earlier(I), I)
         /\ \A i, j \in I : <<i, j>> \in Earlier(I) <=> i < j
  <1>1. \A i, j \in I : i \in Nat /\ j \in Nat /\ (<<i, j>> \in Earlier(I) <=> i < j)
    BY DEF Earlier
  <1>2. QED
    BY <1>1 DEF TotallyOrders

(* What is picked from a sequence, each element with its place.            *)
PicksAt(picked, s, I, places) ==
    /\ places \in [1 .. Len(picked) -> I]
    /\ \A i \in I : \E k \in 1 .. Len(picked) : places[k] = i
    /\ \A j, k \in 1 .. Len(picked) : j < k => places[j] < places[k]
    /\ picked = [k \in 1 .. Len(picked) |-> s[places[k]]]

LEMMA PickedFacts ==
  ASSUME NEW T, NEW s \in Seq(T), NEW I \in SUBSET DOMAIN s
  PROVE  Picked(s, I) \in Seq(T) /\ \E places : PicksAt(Picked(s, I), s, I, places)
  <1>1. PICK p : p = Sorted(I, Earlier(I))
    OBVIOUS
  <1>2. Len(s) \in Nat /\ DOMAIN s = 1 .. Len(s) /\ \A i \in DOMAIN s : s[i] \in T
    OBVIOUS
  <1>3. I \in SUBSET Nat /\ IsFiniteSet(I)
    <2>1. I \in SUBSET (0 .. Len(s))
      BY <1>2
    <2>2. QED
      BY <1>2, <2>1, UpToIsFinite
  <1>4. PICK n : n = Cardinality(I)
    OBVIOUS
  <1>5. TotallyOrders(Earlier(I), I) /\ \A i, j \in I : <<i, j>> \in Earlier(I) <=> i < j
    BY <1>3, PlacesAreOrdered
  <1>6. /\ n \in Nat /\ p \in Seq(I) /\ Len(p) = n /\ DOMAIN p = 1 .. n
        /\ \A x \in I : \E i \in 1 .. n : p[i] = x
        /\ \A i, j \in 1 .. n : i < j => <<p[i], p[j]>> \in Earlier(I)
    <2>1. PICK R : R = Earlier(I)
      OBVIOUS
    <2>2. TotallyOrders(R, I)
      BY <1>5, <2>1
    <2>3. /\ Cardinality(I) \in Nat
          /\ Sorted(I, R) \in Seq(I) /\ Len(Sorted(I, R)) = Cardinality(I)
          /\ DOMAIN Sorted(I, R) = 1 .. Cardinality(I)
          /\ \A x \in I : \E i \in 1 .. Cardinality(I) : Sorted(I, R)[i] = x
          /\ \A i, j \in 1 .. Cardinality(I) : i < j => <<Sorted(I, R)[i], Sorted(I, R)[j]>> \in R
      BY ONLY <1>3, <2>2, SortedFacts
    <2>4. QED
      BY <1>1, <1>4, <2>1, <2>3
  <1>7. p \in [1 .. n -> I]
    BY <1>6
  <1>8. \A i, j \in 1 .. n : i < j => p[i] < p[j]
    BY <1>5, <1>6, <1>7
  <1>9. Picked(s, I) = [k \in 1 .. n |-> s[p[k]]]
    BY <1>1, <1>4 DEF Picked, Earlier
  <1>10. Picked(s, I) \in [1 .. n -> T]
    BY <1>2, <1>7, <1>9
  <1>11. Picked(s, I) \in Seq(T) /\ Len(Picked(s, I)) = n
    BY <1>6, <1>10, SeqDef, LenProperties
  <1>12. PicksAt(Picked(s, I), s, I, p)
    BY <1>6, <1>7, <1>8, <1>9, <1>11 DEF PicksAt
  <1>13. QED
    BY <1>11, <1>12
=============================================================================
