------------------------------ MODULE WordProofs ------------------------------
(***************************************************************************)
(* What the recursive functions of Words compute, for words of every       *)
(* width: powers of two, the number a word stands for, the word of a       *)
(* number, and the adder.                                                  *)
(*                                                                         *)
(* Induction is done with sets in place of predicates: a set of naturals   *)
(* that has 0 and the successor of each of its elements is Nat.            *)
(***************************************************************************)
EXTENDS Words, WellFoundedInduction, TLAPS

-----------------------------------------------------------------------------
(* Induction and recursion.                                                *)

LEMMA LeastNatural ==
  ASSUME NEW T, T \subseteq Nat, T # {}
  PROVE  \E m \in T : \A k \in T : m <= k
<1> DEFINE R == OpToRel(<, Nat)
<1>1. IsWellFoundedOn(R, Nat)
  BY NatLessThanWellFounded
<1>2. R = {ss \in Nat \X Nat : ss[1] < ss[2]}
  BY DEF OpToRel
<1> HIDE DEF R
<1>3. PICK m \in T : \A y \in T : <<y, m>> \notin R
  BY <1>1, WFMin
<1>4. ASSUME NEW k \in T PROVE m <= k
  <2>1. m \in Nat /\ k \in Nat
    OBVIOUS
  <2>2. <<k, m>> \in R <=> k < m
    BY <1>2, <2>1
  <2> QED
    BY <1>3, <2>1, <2>2
<1> QED
  BY <1>4

LEMMA Induction ==
  ASSUME NEW T, T \subseteq Nat, 0 \in T, \A n \in T : n + 1 \in T
  PROVE  T = Nat
<1> SUFFICES ASSUME T # Nat PROVE FALSE
  OBVIOUS
<1> DEFINE U == Nat \ T
<1>1. PICK m \in U : \A k \in U : m <= k
  BY LeastNatural
<1>2. m # 0 /\ m \in Nat
  BY <1>1
<1>3. m - 1 \in T
  BY <1>1, <1>2
<1> QED
  BY <1>1, <1>2, <1>3

Descends(earlier) ==
  earlier \in [Nat -> Nat] /\ \A k \in Nat \ {0} : earlier[k] < k

(* A function of the naturals can be defined by a step from an earlier     *)
(* argument: g is such a function up to n.                                 *)
Begins(g, n, D, base, step, earlier) ==
  /\ g \in [0 .. n -> D]
  /\ g[0] = base
  /\ \A k \in 1 .. n : g[k] = step[<<k, g[earlier[k]]>>]

Defines(f, D, base, step, earlier) ==
  /\ f \in [Nat -> D]
  /\ f[0] = base
  /\ \A k \in Nat \ {0} : f[k] = step[<<k, f[earlier[k]]>>]

LEMMA RecursionExtends ==
  ASSUME NEW D, NEW base, NEW step \in [Nat \X D -> D],
         NEW earlier, Descends(earlier),
         NEW n \in Nat, NEW g, Begins(g, n, D, base, step, earlier)
  PROVE  \E h : Begins(h, n + 1, D, base, step, earlier)
<1> DEFINE next == step[<<n + 1, g[earlier[n + 1]]>>]
           h == [k \in 0 .. n + 1 |-> IF k = n + 1 THEN next ELSE g[k]]
<1>1. n + 1 \in Nat \ {0} /\ earlier[n + 1] \in 0 .. n
  BY DEF Descends
<1>2. next \in D
  <2>1. g[earlier[n + 1]] \in D
    BY <1>1 DEF Begins
  <2> QED
    BY <1>1, <2>1
<1> HIDE DEF next
<1>3. \A k \in 0 .. n : h[k] = g[k] /\ g[k] \in D
  BY DEF Begins
<1>4. h[n + 1] = next
  OBVIOUS
<1>5. h \in [0 .. n + 1 -> D]
  <2>1. ASSUME NEW k \in 0 .. n + 1 PROVE (IF k = n + 1 THEN next ELSE g[k]) \in D
    <3>1. k # n + 1 => k \in 0 .. n
      OBVIOUS
    <3> QED
      BY <1>2, <1>3, <3>1
  <2> QED
    BY <2>1
<1> HIDE DEF h
<1>6. ASSUME NEW k \in 1 .. n + 1 PROVE h[k] = step[<<k, h[earlier[k]]>>]
  <2>1. CASE k = n + 1
    BY <1>1, <1>3, <1>4, <2>1 DEF next
  <2>2. CASE k \in 1 .. n
    <3>1. earlier[k] \in 0 .. n /\ k \in 0 .. n
      BY <2>2 DEF Descends
    <3>2. h[k] = g[k] /\ h[earlier[k]] = g[earlier[k]]
      BY <1>3, <3>1
    <3> QED
      BY <2>2, <3>2 DEF Begins
  <2> QED
    BY <2>1, <2>2
<1>7. h[0] = base
  BY <1>3 DEF Begins
<1>8. Begins(h, n + 1, D, base, step, earlier)
  BY <1>5, <1>6, <1>7 DEF Begins
<1> QED
  BY <1>8

LEMMA RecursionUnique ==
  ASSUME NEW D, NEW base, NEW step,
         NEW earlier, Descends(earlier),
         NEW m \in Nat, NEW n \in Nat, m <= n,
         NEW g, Begins(g, m, D, base, step, earlier),
         NEW h, Begins(h, n, D, base, step, earlier), NEW k \in 0 .. m
  PROVE  g[k] = h[k]
<1> DEFINE U == {j \in 0 .. m : g[j] # h[j]}
<1> SUFFICES ASSUME U # {} PROVE FALSE
  OBVIOUS
<1>1. U \subseteq Nat
  OBVIOUS
<1>2. PICK j \in U : \A i \in U : j <= i
  <2> HIDE DEF U
  <2> QED
    BY <1>1, LeastNatural
<1>3. j # 0
  BY <1>2 DEF Begins
<1>4. j \in 1 .. m /\ j \in 1 .. n
  BY <1>2, <1>3
<1>5. earlier[j] \in 0 .. m /\ earlier[j] < j
  BY <1>4 DEF Descends
<1>6. g[earlier[j]] = h[earlier[j]]
  BY <1>2, <1>5
<1>7. g[j] = h[j]
  BY <1>4, <1>6 DEF Begins
<1> QED
  BY <1>7

LEMMA Recursion ==
  ASSUME NEW D, NEW base \in D, NEW step \in [Nat \X D -> D],
         NEW earlier, Descends(earlier)
  PROVE  \E f : Defines(f, D, base, step, earlier)
<1> DEFINE B(g, n) == Begins(g, n, D, base, step, earlier)
           T == {n \in Nat : \E g : B(g, n)}
<1>1. 0 \in T
  <2>1. B([k \in 0 .. 0 |-> base], 0)
    BY DEF Begins
  <2> QED
    BY <2>1
<1>2. ASSUME NEW n \in T PROVE n + 1 \in T
  BY RecursionExtends
<1>3. T = Nat
  <2> HIDE DEF T
  <2>1. T \subseteq Nat
    BY DEF T
  <2> QED
    BY <1>1, <1>2, <2>1, Induction
<1>4. \A n \in Nat : \E g : B(g, n)
  BY <1>3
<1> DEFINE G(n) == CHOOSE g : B(g, n)
           f == [n \in Nat |-> G(n)[n]]
<1>5. ASSUME NEW n \in Nat PROVE B(G(n), n)
  BY <1>4
<1> HIDE DEF G, T
<1>6. \A n \in Nat : f[n] = G(n)[n]
  OBVIOUS
<1>7. \A n \in Nat : G(n)[n] \in D
  BY <1>5 DEF Begins
<1>8. f \in [Nat -> D]
  BY <1>7
<1> HIDE DEF f
<1>9. f[0] = base
  BY <1>5, <1>6 DEF Begins
<1>10. ASSUME NEW k \in Nat \ {0} PROVE f[k] = step[<<k, f[earlier[k]]>>]
  <2> DEFINE j == earlier[k]
  <2>1. j \in Nat /\ j <= k /\ j \in 0 .. j /\ k \in 1 .. k
    BY DEF Descends
  <2> HIDE DEF j
  <2>2. G(j)[j] = G(k)[j]
    BY <2>1, <1>5, RecursionUnique
  <2>3. G(k)[k] = step[<<k, G(k)[j]>>]
    BY <2>1, <1>5 DEF Begins, j
  <2> QED
    BY <2>1, <2>2, <2>3, <1>6 DEF j
<1>11. Defines(f, D, base, step, earlier)
  BY <1>8, <1>9, <1>10 DEF Defines
<1> QED
  BY <1>11

(* The step from the number before.                                        *)
Before == [k \in Nat |-> IF k = 0 THEN 0 ELSE k - 1]

LEMMA BeforeDescends ==
  Descends(Before) /\ \A k \in Nat \ {0} : Before[k] = k - 1
  BY DEF Descends, Before

-----------------------------------------------------------------------------
(* Powers of two.                                                          *)

LEMMA Power2Type ==
  /\ Power2 \in [Nat -> Nat]
  /\ Power2[0] = 1
  /\ \A k \in Nat : Power2[k + 1] = 2 * Power2[k]
<1> DEFINE step == [x \in Nat \X Nat |-> 2 * x[2]]
<1>1. step \in [Nat \X Nat -> Nat] /\ \A k, v \in Nat : step[<<k, v>>] = 2 * v
  OBVIOUS
<1> HIDE DEF step
<1>2. PICK f : Defines(f, Nat, 1, step, Before)
  BY <1>1, BeforeDescends, Recursion
<1>3. ASSUME NEW k \in Nat PROVE f[k] = IF k = 0 THEN 1 ELSE 2 * f[k - 1]
  <2>1. CASE k = 0
    BY <1>2, <2>1 DEF Defines
  <2>2. CASE k # 0
    <3>1. f[k] = step[<<k, f[k - 1]>>] /\ f[k - 1] \in Nat
      BY <1>2, <2>2, BeforeDescends DEF Defines
    <3> QED
      BY <1>1, <2>2, <3>1
  <2> QED
    BY <2>1, <2>2
<1>4. f = [k \in Nat |-> IF k = 0 THEN 1 ELSE 2 * f[k - 1]]
  BY <1>2, <1>3 DEF Defines
<1>5. Power2 = [k \in Nat |-> IF k = 0 THEN 1 ELSE 2 * Power2[k - 1]]
  BY <1>4 DEF Power2
<1>6. \A k \in Nat : Power2[k] = IF k = 0 THEN 1 ELSE 2 * Power2[k - 1]
  BY <1>5
<1>7. ASSUME NEW k \in Nat PROVE Power2[k + 1] = 2 * Power2[k]
  <2>1. k + 1 \in Nat /\ k + 1 # 0 /\ (k + 1) - 1 = k
    OBVIOUS
  <2> QED
    BY <1>6, <2>1
<1>8. Power2[0] = 1
  BY <1>6
<1>9. \A k \in Nat : Power2[k] \in Nat
  <2> DEFINE T == {k \in Nat : Power2[k] \in Nat}
  <2>1. 0 \in T /\ \A k \in T : k + 1 \in T
    BY <1>7, <1>8
  <2>2. T \subseteq Nat
    OBVIOUS
  <2>3. T = Nat
    <3> HIDE DEF T
    <3> QED
      BY <2>1, <2>2, Induction
  <2> QED
    BY <2>3
<1>10. Power2 \in [Nat -> Nat]
  BY <1>5, <1>9
<1> QED
  BY <1>7, <1>8, <1>10

LEMMA Power2Positive == \A k \in Nat : Power2[k] \in Nat \ {0}
<1> DEFINE T == {k \in Nat : Power2[k] # 0}
<1>1. 0 \in T /\ (\A k \in T : k + 1 \in T) /\ T \subseteq Nat
  BY Power2Type
<1>2. T = Nat
  <2> HIDE DEF T
  <2> QED
    BY <1>1, Induction
<1> QED
  BY <1>2, Power2Type

-----------------------------------------------------------------------------
(* The number that the low bits of a word stand for.                       *)

LEMMA LowDef ==
  ASSUME NEW w
  PROVE  /\ Low(w, 0) = 0
         /\ \A k \in Nat : /\ Low(w, k) \in Nat
                          /\ Low(w, k + 1) = Low(w, k) + IF k \in w THEN Power2[k] ELSE 0
<1> DEFINE part(k) == IF k - 1 \in w THEN Power2[k - 1] ELSE 0
           step == [x \in Nat \X Nat |-> IF x[1] = 0 THEN 0 ELSE x[2] + part(x[1])]
           low == CHOOSE low : low = [k \in Nat |-> IF k = 0 THEN 0 ELSE low[k - 1] + part(k)]
<1>1. \A k \in Nat \ {0} : part(k) \in Nat
  BY Power2Type
<1> HIDE DEF part
<1>2. /\ step \in [Nat \X Nat -> Nat]
      /\ \A k \in Nat \ {0}, v \in Nat : step[<<k, v>>] = v + part(k)
  BY <1>1
<1> HIDE DEF step
<1>3. PICK f : Defines(f, Nat, 0, step, Before)
  BY <1>2, BeforeDescends, Recursion
<1>4. ASSUME NEW k \in Nat PROVE f[k] = IF k = 0 THEN 0 ELSE f[k - 1] + part(k)
  <2>1. CASE k = 0
    BY <1>3, <2>1 DEF Defines
  <2>2. CASE k # 0
    <3>1. f[k] = step[<<k, f[k - 1]>>] /\ f[k - 1] \in Nat
      BY <1>3, <2>2, BeforeDescends DEF Defines
    <3> QED
      BY <1>2, <2>2, <3>1
  <2> QED
    BY <2>1, <2>2
<1>5. f = [k \in Nat |-> IF k = 0 THEN 0 ELSE f[k - 1] + part(k)]
  BY <1>3, <1>4 DEF Defines
<1>6. low = [k \in Nat |-> IF k = 0 THEN 0 ELSE low[k - 1] + part(k)]
  BY <1>5
<1>7. \A k : Low(w, k) = low[k]
  BY DEF Low, part
<1> HIDE DEF low
<1>8. \A k \in Nat : low[k] = IF k = 0 THEN 0 ELSE low[k - 1] + part(k)
  BY <1>6
<1>9. Low(w, 0) = 0
  BY <1>7, <1>8
<1>10. ASSUME NEW k \in Nat
       PROVE  Low(w, k + 1) = Low(w, k) + IF k \in w THEN Power2[k] ELSE 0
  <2>1. k + 1 \in Nat /\ k + 1 # 0 /\ (k + 1) - 1 = k
    OBVIOUS
  <2> QED
    BY <1>7, <1>8, <2>1 DEF part
<1>11. \A k \in Nat : Low(w, k) \in Nat
  <2> DEFINE T == {k \in Nat : Low(w, k) \in Nat}
  <2>1. 0 \in T /\ (\A k \in T : k + 1 \in T) /\ T \subseteq Nat
    BY <1>9, <1>10, Power2Type
  <2>2. T = Nat
    <3> HIDE DEF T
    <3> QED
      BY <2>1, Induction
  <2> QED
    BY <2>2
<1> QED
  BY <1>9, <1>10, <1>11

LEMMA LowZero == \A w : Low(w, 0) = 0
  BY LowDef

LEMMA LowType == \A w : \A k \in Nat : Low(w, k) \in Nat
  BY LowDef

LEMMA LowIn == \A w : \A k \in Nat : k \in w => Low(w, k + 1) = Low(w, k) + Power2[k]
  BY LowDef

LEMMA LowOut == \A w : \A k \in Nat : k \notin w => Low(w, k + 1) = Low(w, k)
<1> SUFFICES ASSUME NEW w, NEW k \in Nat, k \notin w PROVE Low(w, k + 1) = Low(w, k)
  OBVIOUS
<1>1. Low(w, k + 1) = Low(w, k) + 0
  BY LowDef
<1> QED
  BY <1>1, LowType

(* It is less than 2^k.                                                    *)
LEMMA LowBound ==
  ASSUME NEW w PROVE \A k \in Nat : Low(w, k) \in 0 .. Power2[k] - 1
<1> DEFINE T == {k \in Nat : Low(w, k) < Power2[k]}
<1>1. 0 \in T
  BY LowDef, Power2Type
<1>2. ASSUME NEW k \in T PROVE k + 1 \in T
  <2>1. /\ Low(w, k) \in Nat /\ Power2[k] \in Nat
        /\ Low(w, k + 1) = Low(w, k) + IF k \in w THEN Power2[k] ELSE 0
        /\ Power2[k + 1] = 2 * Power2[k]
    BY LowDef, Power2Type
  <2> QED
    BY <2>1
<1>3. T = Nat
  <2> HIDE DEF T
  <2> QED
    BY <1>1, <1>2, Induction DEF T
<1> QED
  BY <1>3, LowDef, Power2Type

(* Bits on which two words agree add the same.                             *)
LEMMA LowAgree ==
  ASSUME NEW a, NEW b, NEW m \in Nat, NEW n \in Nat, m <= n,
         \A j \in m .. n - 1 : j \in a <=> j \in b
  PROVE  Low(a, n) - Low(a, m) = Low(b, n) - Low(b, m)
<1> DEFINE T == {k \in Nat : m + k <= n =>
                   Low(a, m + k) - Low(a, m) = Low(b, m + k) - Low(b, m)}
<1>1. 0 \in T
  BY LowType
<1>2. ASSUME NEW k \in T PROVE k + 1 \in T
  <2> SUFFICES ASSUME m + k + 1 <= n
               PROVE  Low(a, m + (k + 1)) - Low(a, m) = Low(b, m + (k + 1)) - Low(b, m)
    OBVIOUS
  <2>1. m + k \in m .. n - 1 /\ m + k \in Nat /\ m + (k + 1) = (m + k) + 1
    OBVIOUS
  <2> DEFINE j == m + k
  <2>2. Low(a, j) - Low(a, m) = Low(b, j) - Low(b, m)
    OBVIOUS
  <2> HIDE DEF j
  <2>3. j \in Nat /\ (j \in a <=> j \in b)
    BY <2>1 DEF j
  <2>4. /\ Low(a, j) \in Nat /\ Low(b, j) \in Nat /\ Power2[j] \in Nat
        /\ Low(a, m) \in Nat /\ Low(b, m) \in Nat
    BY <2>3, LowType, Power2Type
  <2>5. CASE j \in a
    <3>1. Low(a, j + 1) = Low(a, j) + Power2[j] /\ Low(b, j + 1) = Low(b, j) + Power2[j]
      BY <2>3, <2>5, LowIn
    <3> QED
      BY <2>1, <2>2, <2>4, <3>1 DEF j
  <2>6. CASE j \notin a
    <3>1. Low(a, j + 1) = Low(a, j) /\ Low(b, j + 1) = Low(b, j)
      BY <2>3, <2>6, LowOut
    <3> QED
      BY <2>1, <2>2, <2>4, <3>1 DEF j
  <2> QED
    BY <2>5, <2>6
<1>3. T = Nat
  <2> HIDE DEF T
  <2> QED
    BY <1>1, <1>2, Induction DEF T
<1>4. n - m \in T
  <2>1. n - m \in Nat
    OBVIOUS
  <2> HIDE DEF T
  <2> QED
    BY <1>3, <2>1
<1>5. m + (n - m) = n
  OBVIOUS
<1> QED
  BY <1>4, <1>5

LEMMA LowEmpty == \A k \in Nat : Low({}, k) = 0
<1> DEFINE T == {k \in Nat : Low({}, k) = 0}
<1>1. 0 \in T /\ T \subseteq Nat
  BY LowZero
<1>2. ASSUME NEW k \in T PROVE k + 1 \in T
  <2>1. Low({}, k + 1) = Low({}, k)
    BY LowOut
  <2> QED
    BY <2>1
<1>3. T = Nat
  <2> HIDE DEF T
  <2> QED
    BY <1>1, <1>2, Induction
<1> QED
  BY <1>3

LEMMA GreatestNatural ==
  ASSUME NEW n \in Nat, NEW w \in Word(n), w # {}
  PROVE  \E m \in w : \A k \in w : k <= m
<1> DEFINE T == {n - k : k \in w}
<1>1. T \subseteq Nat /\ T # {} /\ \A k \in w : k \in Int
  BY DEF Word
<1>2. PICK d \in T : \A e \in T : d <= e
  <2> HIDE DEF T
  <2> QED
    BY <1>1, LeastNatural
<1>3. PICK m \in w : d = n - m
  OBVIOUS
<1>4. ASSUME NEW k \in w PROVE k <= m
  BY <1>1, <1>2, <1>3
<1> QED
  BY <1>4

LEMMA UnsignedIsLow ==
  ASSUME NEW n \in Nat, NEW w \in Word(n)
  PROVE  Unsigned(w) = Low(w, n)
<1>1. CASE w = {}
  BY <1>1, LowEmpty DEF Unsigned
<1>2. CASE w # {}
  <2>1. PICK m \in w : \A k \in w : k <= m
    BY <1>2, GreatestNatural
  <2>2. \A k \in w : k \in 0 .. n - 1
    BY DEF Word
  <2>3. Max(w) \in w /\ \A k \in w : k <= Max(w)
    BY <2>1, <2>2 DEF Max
  <2> DEFINE t == Max(w) + 1
  <2>4. t \in Nat /\ t <= n /\ \A j \in t .. n - 1 : j \notin w
    BY <2>2, <2>3
  <2>5. Unsigned(w) = Low(w, t)
    BY <1>2 DEF Unsigned
  <2> HIDE DEF t
  <2>6. Low(w, n) - Low(w, t) = Low({}, n) - Low({}, t)
    BY <2>4, LowAgree
  <2>7. Low({}, n) = 0 /\ Low({}, t) = 0 /\ Low(w, n) \in Nat /\ Low(w, t) \in Nat
    BY <2>4, LowEmpty, LowType
  <2> QED
    BY <2>5, <2>6, <2>7
<1> QED
  BY <1>1, <1>2

-----------------------------------------------------------------------------
(* The adder.                                                              *)

LEMMA CarryFirst ==
  ASSUME NEW a \in SUBSET Nat, NEW b, NEW c \in BOOLEAN
  PROVE  CarryInto(0, a, b, c) <=> c
  BY DEF CarryInto

LEMMA CarryNext ==
  ASSUME NEW a \in SUBSET Nat, NEW b, NEW c \in BOOLEAN, NEW i \in Nat
  PROVE  CarryInto(i + 1, a, b, c)
           <=> (i \in a /\ i \in b) \/ ((i \in a \/ i \in b) /\ CarryInto(i, a, b, c))
<1> DEFINE Passed(from, to) == \A k \in from .. to - 1 : k \in a \/ k \in b
<1>1. ASSUME NEW from \in Nat, from <= i
      PROVE  Passed(from, i + 1) <=> Passed(from, i) /\ (i \in a \/ i \in b)
  <2>1. \A k \in from .. (i + 1) - 1 : k \in from .. i - 1 \/ k = i
    OBVIOUS
  <2>2. i \in from .. (i + 1) - 1 /\ \A k \in from .. i - 1 : k \in from .. (i + 1) - 1
    BY <1>1
  <2> QED
    BY <2>1, <2>2
<1>2. Passed(i + 1, i + 1)
  OBVIOUS
<1> DEFINE Generated(n) == \E j \in a : j < n /\ j \in b /\ Passed(j + 1, n)
<1>3. \A n : CarryInto(n, a, b, c) <=> (Generated(n) \/ (c /\ Passed(0, n)))
  BY DEF CarryInto
<1> HIDE DEF Passed
<1>4. CarryInto(i + 1, a, b, c)
        => (i \in a /\ i \in b) \/ ((i \in a \/ i \in b) /\ CarryInto(i, a, b, c))
  <2>1. ASSUME NEW j \in a, j < i + 1, j \in b, Passed(j + 1, i + 1), j # i
        PROVE  (i \in a \/ i \in b) /\ CarryInto(i, a, b, c)
    <3>1. j < i /\ j + 1 \in Nat /\ j + 1 <= i
      BY <2>1
    <3> QED
      BY <2>1, <3>1, <1>1, <1>3
  <2>2. ASSUME c, Passed(0, i + 1)
        PROVE  (i \in a \/ i \in b) /\ CarryInto(i, a, b, c)
    <3>1. 0 \in Nat /\ 0 <= i
      OBVIOUS
    <3> QED
      BY <2>2, <3>1, <1>1, <1>3
  <2> QED
    BY <2>1, <2>2, <1>3
<1>5. ASSUME i \in a, i \in b PROVE CarryInto(i + 1, a, b, c)
  <2>1. i < i + 1
    OBVIOUS
  <2> QED
    BY <1>5, <2>1, <1>2, <1>3
<1>6. ASSUME i \in a \/ i \in b, CarryInto(i, a, b, c) PROVE CarryInto(i + 1, a, b, c)
  <2>1. ASSUME NEW j \in a, j < i, j \in b, Passed(j + 1, i)
        PROVE  CarryInto(i + 1, a, b, c)
    <3>1. j < i + 1 /\ j + 1 \in Nat /\ j + 1 <= i
      BY <2>1
    <3> QED
      BY <2>1, <3>1, <1>1, <1>3, <1>6
  <2>2. ASSUME c, Passed(0, i) PROVE CarryInto(i + 1, a, b, c)
    <3>1. 0 \in Nat /\ 0 <= i
      OBVIOUS
    <3> QED
      BY <2>2, <3>1, <1>1, <1>3, <1>6
  <2> QED
    BY <2>1, <2>2, <1>3, <1>6
<1> QED
  BY <1>4, <1>5, <1>6

(* The sum of the k low bits, the carry out of them included, is exact.    *)
CarryOut(k, a, b, c) == IF CarryInto(k, a, b, c) THEN Power2[k] ELSE 0

LEMMA AdderIsExact ==
  ASSUME NEW n \in Nat, NEW a \in SUBSET Nat, NEW b \in SUBSET Nat, NEW c \in BOOLEAN
  PROVE  \A k \in 0 .. n :
           Low(AddWithCarry(a, b, c, n), k) + CarryOut(k, a, b, c)
             = Low(a, k) + Low(b, k) + IF c THEN 1 ELSE 0
<1> DEFINE sum == AddWithCarry(a, b, c, n)
           one == IF c THEN 1 ELSE 0
           T == {k \in Nat : k <= n => Low(sum, k) + CarryOut(k, a, b, c)
                                         = Low(a, k) + Low(b, k) + one}
<1> HIDE DEF one
<1>1. 0 \in T
  <2>1. CarryOut(0, a, b, c) = one
    BY CarryFirst, Power2Type DEF CarryOut, one
  <2>2. Low(sum, 0) = 0 /\ Low(a, 0) = 0 /\ Low(b, 0) = 0
    BY LowZero
  <2>3. one \in Nat
    BY DEF one
  <2> HIDE DEF sum
  <2> QED
    BY <2>1, <2>2, <2>3
<1>2. ASSUME NEW k \in T PROVE k + 1 \in T
  <2> SUFFICES ASSUME k + 1 <= n
               PROVE  Low(sum, k + 1) + CarryOut(k + 1, a, b, c)
                        = Low(a, k + 1) + Low(b, k + 1) + one
    OBVIOUS
  <2>1. k \in Nat /\ k \in 0 .. n - 1
    OBVIOUS
  <2>2. k \in sum <=> ((k \in a <=> k \in b) <=> CarryInto(k, a, b, c))
    BY <2>1 DEF AddWithCarry
  <2>3. Low(sum, k) + CarryOut(k, a, b, c) = Low(a, k) + Low(b, k) + one
    BY <2>1
  <2> HIDE DEF sum, T
  <2>4. /\ Low(a, k) \in Nat /\ Low(b, k) \in Nat /\ Low(sum, k) \in Nat
        /\ Power2[k] \in Nat /\ Power2[k + 1] = 2 * Power2[k] /\ one \in Nat
    BY <2>1, LowType, Power2Type DEF one
  <2>5. /\ Low(a, k + 1) = IF k \in a THEN Low(a, k) + Power2[k] ELSE Low(a, k)
        /\ Low(b, k + 1) = IF k \in b THEN Low(b, k) + Power2[k] ELSE Low(b, k)
        /\ Low(sum, k + 1) = IF k \in sum THEN Low(sum, k) + Power2[k] ELSE Low(sum, k)
    BY <2>1, LowIn, LowOut
  <2>6. CarryInto(k + 1, a, b, c)
           <=> (k \in a /\ k \in b) \/ ((k \in a \/ k \in b) /\ CarryInto(k, a, b, c))
    BY <2>1, CarryNext
  <2>7. CASE CarryInto(k, a, b, c)
    <3>1. CarryOut(k, a, b, c) = Power2[k]
      BY <2>7 DEF CarryOut
    <3>2. CarryOut(k + 1, a, b, c) = IF k \in a \/ k \in b THEN 2 * Power2[k] ELSE 0
      BY <2>4, <2>6, <2>7 DEF CarryOut
    <3> QED
      BY <2>2, <2>3, <2>4, <2>5, <2>7, <3>1, <3>2
  <2>8. CASE ~CarryInto(k, a, b, c)
    <3>1. CarryOut(k, a, b, c) = 0
      BY <2>8 DEF CarryOut
    <3>2. CarryOut(k + 1, a, b, c) = IF k \in a /\ k \in b THEN 2 * Power2[k] ELSE 0
      BY <2>4, <2>6, <2>8 DEF CarryOut
    <3> QED
      BY <2>2, <2>3, <2>4, <2>5, <2>8, <3>1, <3>2
  <2> QED
    BY <2>7, <2>8
<1>3. T = Nat
  <2> HIDE DEF T
  <2> QED
    BY <1>1, <1>2, Induction DEF T
<1> QED
  BY <1>3 DEF one

-----------------------------------------------------------------------------
(* Order and equality.                                                     *)

LEMMA LessIsSmaller ==
  ASSUME NEW n \in Nat, NEW x \in Word(n), NEW y \in Word(n), ULess(x, y)
  PROVE  Low(x, n) < Low(y, n)
<1>1. PICK i \in y \ x : \A j \in Xor(x, y) : j <= i
  BY DEF ULess
<1>2. i \in Nat /\ i + 1 \in Nat /\ i + 1 <= n
  BY DEF Word
<1>3. \A j \in i + 1 .. n - 1 : j \in x <=> j \in y
  BY <1>1, <1>2 DEF Xor, SymDiff
<1>4. Low(x, n) - Low(x, i + 1) = Low(y, n) - Low(y, i + 1)
  BY <1>2, <1>3, LowAgree
<1>5. Low(x, i + 1) = Low(x, i) /\ Low(y, i + 1) = Low(y, i) + Power2[i]
  BY <1>1, <1>2, LowIn, LowOut
<1>6. Low(x, i) \in 0 .. Power2[i] - 1 /\ Low(y, i) \in Nat /\ Power2[i] \in Nat
  BY <1>2, LowBound, LowType, Power2Type
<1>7. Low(x, n) \in Nat /\ Low(y, n) \in Nat
  BY LowType
<1> QED
  BY <1>4, <1>5, <1>6, <1>7

LEMMA LessTotal ==
  ASSUME NEW n \in Nat, NEW x \in Word(n), NEW y \in Word(n), x # y
  PROVE  ULess(x, y) \/ ULess(y, x)
<1>1. Xor(x, y) \in Word(n) /\ Xor(x, y) # {} /\ Xor(y, x) = Xor(x, y)
  BY DEF Xor, SymDiff, Word
<1>2. PICK i \in Xor(x, y) : \A j \in Xor(x, y) : j <= i
  BY <1>1, GreatestNatural
<1>3. i \in y \ x \/ i \in x \ y
  BY DEF Xor, SymDiff
<1> QED
  BY <1>1, <1>2, <1>3 DEF ULess

LEMMA LessIsLess ==
  ASSUME NEW n \in Nat, NEW x \in Word(n), NEW y \in Word(n)
  PROVE  ULess(x, y) <=> Low(x, n) < Low(y, n)
<1>1. Low(x, n) \in Nat /\ Low(y, n) \in Nat
  BY LowType
<1>2. ULess(x, y) => Low(x, n) < Low(y, n)
  BY LessIsSmaller
<1>3. ULess(y, x) => Low(y, n) < Low(x, n)
  BY LessIsSmaller
<1>4. x # y => ULess(x, y) \/ ULess(y, x)
  BY LessTotal
<1> QED
  BY <1>1, <1>2, <1>3, <1>4

LEMMA LowInjective ==
  ASSUME NEW n \in Nat, NEW x \in Word(n), NEW y \in Word(n), Low(x, n) = Low(y, n)
  PROVE  x = y
<1>1. Low(x, n) \in Nat /\ Low(y, n) \in Nat
  BY LowType
<1>2. ~ULess(x, y) /\ ~ULess(y, x)
  BY <1>1, LessIsLess
<1> QED
  BY <1>2, LessTotal

-----------------------------------------------------------------------------
(* Sums and differences.                                                   *)

LEMMA LowNot ==
  ASSUME NEW n \in Nat, NEW b \in Word(n)
  PROVE  \A k \in 0 .. n : Low(Not(b, n), k) = Power2[k] - 1 - Low(b, k)
<1> DEFINE T == {k \in Nat : k <= n => Low(Not(b, n), k) = Power2[k] - 1 - Low(b, k)}
<1>1. 0 \in T
  BY LowZero, Power2Type
<1>2. ASSUME NEW k \in T PROVE k + 1 \in T
  <2> SUFFICES ASSUME k + 1 <= n
               PROVE  Low(Not(b, n), k + 1) = Power2[k + 1] - 1 - Low(b, k + 1)
    OBVIOUS
  <2>1. k \in Nat /\ k \in 0 .. n - 1 /\ Low(Not(b, n), k) = Power2[k] - 1 - Low(b, k)
    OBVIOUS
  <2>2. k \in Not(b, n) <=> k \notin b
    BY <2>1 DEF Not
  <2>3. /\ Low(b, k + 1) = IF k \in b THEN Low(b, k) + Power2[k] ELSE Low(b, k)
        /\ Low(Not(b, n), k + 1) = IF k \in b THEN Low(Not(b, n), k)
                                              ELSE Low(Not(b, n), k) + Power2[k]
    BY <2>1, <2>2, LowIn, LowOut
  <2>4. /\ Low(b, k) \in Nat /\ Low(Not(b, n), k) \in Nat
        /\ Power2[k] \in Nat /\ Power2[k + 1] = 2 * Power2[k]
    BY <2>1, LowType, Power2Type
  <2> QED
    BY <2>1, <2>3, <2>4
<1>3. T = Nat
  <2> HIDE DEF T
  <2> QED
    BY <1>1, <1>2, Induction DEF T
<1> QED
  BY <1>3

(* Words without a common bit add up.                                      *)
LEMMA LowUnion ==
  ASSUME NEW a, NEW b, a \cap b = {}
  PROVE  \A k \in Nat : Low(a \cup b, k) = Low(a, k) + Low(b, k)
<1> DEFINE T == {k \in Nat : Low(a \cup b, k) = Low(a, k) + Low(b, k)}
<1>1. 0 \in T /\ T \subseteq Nat
  BY LowZero
<1>2. ASSUME NEW k \in T PROVE k + 1 \in T
  <2>1. \A w : Low(w, k) \in Nat /\ Low(w, k + 1) = IF k \in w THEN Low(w, k) + Power2[k] ELSE Low(w, k)
    BY LowType, LowIn, LowOut
  <2>2. Power2[k] \in Nat /\ ~(k \in a /\ k \in b) /\ (k \in a \cup b <=> k \in a \/ k \in b)
    BY Power2Type
  <2>3. Low(a \cup b, k) = Low(a, k) + Low(b, k)
    OBVIOUS
  <2>4. Low(a \cup b, k + 1) = Low(a, k + 1) + Low(b, k + 1)
    BY <2>1, <2>2, <2>3
  <2> QED
    BY <2>4
<1>3. T = Nat
  <2> HIDE DEF T
  <2> QED
    BY <1>1, <1>2, Induction
<1> QED
  BY <1>3

(* Ones from bit m up.                                                     *)
LEMMA LowOnes ==
  ASSUME NEW n \in Nat, NEW m \in 0 .. n
  PROVE  Low(m .. n - 1, n) = Power2[n] - Power2[m]
<1>1. m \in Nat /\ n \in 0 .. n /\ m \in 0 .. n /\ {} \in Word(n) /\ Not({}, n) = 0 .. n - 1
  BY DEF Word, Not
<1>2. /\ Low(0 .. n - 1, n) = Power2[n] - 1 - Low({}, n)
      /\ Low(0 .. n - 1, m) = Power2[m] - 1 - Low({}, m)
  BY <1>1, LowNot
<1>3. Low({}, n) = 0 /\ Low({}, m) = 0
  BY <1>1, LowEmpty
<1>4. Low(0 .. n - 1, n) - Low(0 .. n - 1, m) = Low(m .. n - 1, n) - Low(m .. n - 1, m)
  <2>1. \A j \in m .. n - 1 : j \in 0 .. n - 1 <=> j \in m .. n - 1
    BY <1>1
  <2> QED
    BY <1>1, <2>1, LowAgree
<1>5. Low(m .. n - 1, m) - Low(m .. n - 1, 0) = Low({}, m) - Low({}, 0)
  <2>1. \A j \in 0 .. m - 1 : j \in m .. n - 1 <=> j \in {}
    BY <1>1
  <2> QED
    BY <1>1, <2>1, LowAgree
<1>6. Low(m .. n - 1, n) \in Nat /\ Low(m .. n - 1, m) \in Nat /\ Power2[n] \in Nat /\ Power2[m] \in Nat
  BY <1>1, LowType, Power2Type
<1> QED
  BY <1>2, <1>3, <1>4, <1>5, <1>6, LowZero

LEMMA LowAdd ==
  ASSUME NEW n \in Nat, NEW a \in Word(n), NEW b \in Word(n)
  PROVE  Low(Add(a, b, n), n)
           = Low(a, n) + Low(b, n)
               - IF Low(a, n) + Low(b, n) >= Power2[n] THEN Power2[n] ELSE 0
<1> DEFINE sum == Add(a, b, n)
           out == CarryOut(n, a, b, FALSE)
<1>1. a \in SUBSET Nat /\ b \in SUBSET Nat /\ n \in 0 .. n
  BY DEF Word
<1>2. Low(sum, n) + out = Low(a, n) + Low(b, n) + 0
  BY <1>1, AdderIsExact DEF Add
<1>3. out \in {0, Power2[n]}
  BY DEF CarryOut
<1> HIDE DEF sum, out
<1>4. Low(sum, n) \in 0 .. Power2[n] - 1
  BY LowBound
<1>5. Power2[n] \in Nat /\ Low(a, n) \in Nat /\ Low(b, n) \in Nat
  BY LowType, Power2Type
<1>6. Low(sum, n) = Low(a, n) + Low(b, n)
               - IF Low(a, n) + Low(b, n) >= Power2[n] THEN Power2[n] ELSE 0
  BY <1>2, <1>3, <1>4, <1>5
<1> QED
  BY <1>6 DEF sum

LEMMA LowSub ==
  ASSUME NEW n \in Nat, NEW a \in Word(n), NEW b \in Word(n)
  PROVE  Low(Sub(a, b, n), n)
           = Low(a, n) - Low(b, n) + IF Low(a, n) < Low(b, n) THEN Power2[n] ELSE 0
<1> DEFINE difference == Sub(a, b, n)
           out == CarryOut(n, a, Not(b, n), TRUE)
<1>1. a \in SUBSET Nat /\ Not(b, n) \in SUBSET Nat /\ n \in 0 .. n
  BY DEF Word, Not
<1>2. Low(difference, n) + out = Low(a, n) + Low(Not(b, n), n) + 1
  BY <1>1, AdderIsExact DEF Sub
<1>3. out \in {0, Power2[n]}
  BY DEF CarryOut
<1>4. Low(Not(b, n), n) = Power2[n] - 1 - Low(b, n)
  BY <1>1, LowNot
<1> HIDE DEF difference, out
<1>5. Low(difference, n) \in 0 .. Power2[n] - 1 /\ Low(b, n) \in 0 .. Power2[n] - 1
  BY LowBound
<1>6. Power2[n] \in Nat /\ Low(a, n) \in 0 .. Power2[n] - 1
  BY LowBound, Power2Type
<1>7. Low(difference, n)
        = Low(a, n) - Low(b, n) + IF Low(a, n) < Low(b, n) THEN Power2[n] ELSE 0
  BY <1>2, <1>3, <1>4, <1>5, <1>6
<1> QED
  BY <1>7 DEF difference

-----------------------------------------------------------------------------
(* Division, and shifts.                                                   *)

LEMMA DivMod ==
  ASSUME NEW p \in Nat \ {0}, NEW x \in Int, NEW q \in Int, NEW r \in 0 .. p - 1,
         x = r + p * q
  PROVE  x \div p = q /\ x % p = r
<1>1. x % p = r
  OBVIOUS
<1>2. x = p * (x \div p) + (x % p) /\ x \div p \in Int
  OBVIOUS
<1>3. p * (x \div p) = p * q
  BY <1>1, <1>2
<1> QED
  BY <1>1, <1>2, <1>3

LEMMA Power2Sum ==
  ASSUME NEW m \in Nat
  PROVE  \A k \in Nat : Power2[m + k] = Power2[m] * Power2[k]
<1> DEFINE T == {k \in Nat : Power2[m + k] = Power2[m] * Power2[k]}
<1>1. 0 \in T
  BY Power2Type
<1>2. ASSUME NEW k \in T PROVE k + 1 \in T
  <2>1. m + (k + 1) = (m + k) + 1 /\ m + k \in Nat
    OBVIOUS
  <2>2. Power2[(m + k) + 1] = 2 * Power2[m + k] /\ Power2[k + 1] = 2 * Power2[k]
    BY <2>1, Power2Type
  <2>3. Power2[m] \in Nat /\ Power2[k] \in Nat
    BY Power2Type
  <2> QED
    BY <2>1, <2>2, <2>3
<1>3. T = Nat
  <2> HIDE DEF T
  <2> QED
    BY <1>1, <1>2, Induction DEF T
<1> QED
  BY <1>3

(* The bits of a from s up, shifted down, are the quotient by 2^s.         *)
LEMMA LowSplit ==
  ASSUME NEW a, NEW s \in Nat, NEW n \in Nat
  PROVE  \A k \in 0 .. n : Low(a, s + k) = Low(a, s) + Power2[s] * Low(Shr(a, s, n), k)
<1> DEFINE high == Shr(a, s, n)
           T == {k \in Nat : k <= n => Low(a, s + k) = Low(a, s) + Power2[s] * Low(high, k)}
<1>1. 0 \in T
  <2>1. Low(high, 0) = 0 /\ Low(a, s) \in Nat /\ Power2[s] \in Nat
    BY LowZero, LowType, Power2Type
  <2> HIDE DEF high
  <2> QED
    BY <2>1
<1>2. ASSUME NEW k \in T PROVE k + 1 \in T
  <2> SUFFICES ASSUME k + 1 <= n
               PROVE  Low(a, s + (k + 1)) = Low(a, s) + Power2[s] * Low(high, k + 1)
    OBVIOUS
  <2>1. k \in Nat /\ s + k \in Nat /\ s + (k + 1) = (s + k) + 1
    OBVIOUS
  <2>2. Low(a, s + k) = Low(a, s) + Power2[s] * Low(high, k)
    OBVIOUS
  <2>3. k \in high <=> s + k \in a
    BY <2>1 DEF Shr
  <2> HIDE DEF high, T
  <2>4. /\ Low(a, s) \in Nat /\ Low(a, s + k) \in Nat /\ Low(high, k) \in Nat
        /\ Power2[s] \in Nat /\ Power2[k] \in Nat /\ Power2[s + k] = Power2[s] * Power2[k]
    BY <2>1, LowType, Power2Type, Power2Sum
  <2>5. CASE k \in high
    <3>1. /\ Low(high, k + 1) = Low(high, k) + Power2[k]
          /\ Low(a, (s + k) + 1) = Low(a, s + k) + Power2[s + k]
      BY <2>1, <2>3, <2>5, LowIn
    <3> QED
      BY <2>1, <2>2, <2>4, <3>1
  <2>6. CASE k \notin high
    <3>1. Low(high, k + 1) = Low(high, k) /\ Low(a, (s + k) + 1) = Low(a, s + k)
      BY <2>1, <2>3, <2>6, LowOut
    <3> QED
      BY <2>1, <2>2, <3>1
  <2> QED
    BY <2>5, <2>6
<1>3. T = Nat
  <2> HIDE DEF T
  <2> QED
    BY <1>1, <1>2, Induction DEF T
<1> QED
  BY <1>3

LEMMA LowShr ==
  ASSUME NEW n \in Nat, NEW a \in Word(n), NEW s \in 0 .. n
  PROVE  /\ Low(a, n) = Low(a, s) + Power2[s] * Low(Shr(a, s, n), n)
         /\ Low(Shr(a, s, n), n) = Low(a, n) \div Power2[s]
         /\ Low(a, s) = Low(a, n) % Power2[s]
<1> DEFINE high == Shr(a, s, n)
<1>1. s \in Nat /\ n - s \in 0 .. n /\ s + (n - s) = n
  OBVIOUS
<1>2. Low(a, s + (n - s)) = Low(a, s) + Power2[s] * Low(high, n - s)
  BY <1>1, LowSplit
<1>3. \A j \in n - s .. n - 1 : j \notin high
  BY DEF Shr, Word
<1> HIDE DEF high
<1>4. Low(high, n) - Low(high, n - s) = Low({}, n) - Low({}, n - s)
  BY <1>1, <1>3, LowAgree
<1>5. Low(high, n) = Low(high, n - s)
  <2>1. /\ Low({}, n) = 0 /\ Low({}, n - s) = 0
        /\ Low(high, n) \in Nat /\ Low(high, n - s) \in Nat
    BY <1>1, LowEmpty, LowType
  <2> QED
    BY <1>4, <2>1
<1>6. /\ Low(a, s) \in 0 .. Power2[s] - 1 /\ Power2[s] \in Nat \ {0}
      /\ Low(a, n) \in Nat /\ Low(high, n) \in Nat
  BY <1>1, LowBound, LowType, Power2Positive
<1>7. Low(a, n) = Low(a, s) + Power2[s] * Low(high, n)
  BY <1>1, <1>2, <1>5
<1>8. Low(a, n) \div Power2[s] = Low(high, n) /\ Low(a, n) % Power2[s] = Low(a, s)
  <2> DEFINE p == Power2[s]
             x == Low(a, n)
             q == Low(high, n)
             r == Low(a, s)
  <2>1. p \in Nat \ {0} /\ x \in Int /\ q \in Int /\ r \in 0 .. p - 1 /\ x = r + p * q
    BY <1>6, <1>7
  <2> HIDE DEF p, x, q, r
  <2>2. x \div p = q /\ x % p = r
    BY <2>1, DivMod
  <2> QED
    BY <2>2 DEF p, x, q, r
<1> QED
  BY <1>7, <1>8 DEF high

LEMMA LowShl ==
  ASSUME NEW n \in Nat, NEW a \in SUBSET Nat, NEW s \in 0 .. n
  PROVE  Low(Shl(a, s, n), n) = Power2[s] * Low(a, n - s)
<1> DEFINE w == Shl(a, s, n)
<1>1. s \in Nat /\ n - s \in 0 .. n /\ s + (n - s) = n /\ n - s \in Nat
  OBVIOUS
<1>2. Low(w, s + (n - s)) = Low(w, s) + Power2[s] * Low(Shr(w, s, n), n - s)
  <2> HIDE DEF w
  <2> QED
    BY <1>1, LowSplit
<1>3. \A j \in 0 .. s - 1 : j \notin w
  BY DEF Shl
<1>4. \A j \in 0 .. (n - s) - 1 : j \in Shr(w, s, n) <=> j \in a
  BY DEF Shl, Shr
<1> HIDE DEF w
<1>5. Low(w, s) - Low(w, 0) = Low({}, s) - Low({}, 0)
  BY <1>1, <1>3, LowAgree
<1>6. Low(w, s) = 0
  BY <1>1, <1>5, LowEmpty, LowZero, LowType
<1>7. Low(Shr(w, s, n), n - s) - Low(Shr(w, s, n), 0) = Low(a, n - s) - Low(a, 0)
  BY <1>1, <1>4, LowAgree
<1>8. Low(Shr(w, s, n), n - s) = Low(a, n - s)
  BY <1>1, <1>7, LowZero, LowType
<1>9. Low(a, n - s) \in Nat /\ Power2[s] \in Nat
  BY <1>1, LowType, Power2Type
<1> QED
  BY <1>1, <1>2, <1>6, <1>8, <1>9 DEF w

-----------------------------------------------------------------------------
(* The word of a number.                                                   *)

LEMMA BitsOfDef ==
  /\ BitsOf \in [Nat -> SUBSET Nat]
  /\ BitsOf[0] = {}
  /\ \A k \in Nat \ {0} :
       BitsOf[k] = {i + 1 : i \in BitsOf[k \div 2]} \cup (IF k % 2 = 1 THEN {0} ELSE {})
<1> DEFINE next(k, w) == {i + 1 : i \in w} \cup (IF k % 2 = 1 THEN {0} ELSE {})
           half == [k \in Nat |-> k \div 2]
           step == [x \in Nat \X SUBSET Nat |-> next(x[1], x[2])]
<1>1. \A k \in Nat, w \in SUBSET Nat : next(k, w) \in SUBSET Nat
  OBVIOUS
<1> HIDE DEF next
<1>2. /\ step \in [Nat \X SUBSET Nat -> SUBSET Nat]
      /\ \A k \in Nat, w \in SUBSET Nat : step[<<k, w>>] = next(k, w)
  BY <1>1
<1>3. Descends(half) /\ \A k \in Nat : half[k] = k \div 2
  BY DEF Descends
<1> HIDE DEF step, half
<1>4. PICK f : Defines(f, SUBSET Nat, {}, step, half)
  <2>1. {} \in SUBSET Nat
    OBVIOUS
  <2> QED
    BY <1>2, <1>3, <2>1, Recursion
<1>5. ASSUME NEW k \in Nat
      PROVE  f[k] = IF k = 0 THEN {} ELSE next(k, f[k \div 2])
  <2>1. CASE k = 0
    BY <1>4, <2>1 DEF Defines
  <2>2. CASE k # 0
    <3>1. k \div 2 \in Nat
      OBVIOUS
    <3>2. f[k] = step[<<k, f[k \div 2]>>] /\ f[k \div 2] \in SUBSET Nat
      BY <1>3, <1>4, <2>2, <3>1 DEF Defines
    <3> QED
      BY <1>2, <2>2, <3>2
  <2> QED
    BY <2>1, <2>2
<1>6. f = [k \in Nat |-> IF k = 0 THEN {} ELSE next(k, f[k \div 2])]
  BY <1>4, <1>5 DEF Defines
<1>7. BitsOf = CHOOSE g : g = [k \in Nat |-> IF k = 0 THEN {} ELSE next(k, g[k \div 2])]
  BY DEF BitsOf, next
<1>8. BitsOf = [k \in Nat |-> IF k = 0 THEN {} ELSE next(k, BitsOf[k \div 2])]
  BY <1>6, <1>7
<1>9. \A k \in Nat : BitsOf[k] = IF k = 0 THEN {} ELSE next(k, BitsOf[k \div 2])
  BY <1>8
<1>10. \A k \in Nat : BitsOf[k] \in SUBSET Nat
  <2> DEFINE U == {k \in Nat : BitsOf[k] \notin SUBSET Nat}
  <2> SUFFICES ASSUME U # {} PROVE FALSE
    OBVIOUS
  <2>1. U \subseteq Nat
    OBVIOUS
  <2>2. PICK k \in U : \A j \in U : k <= j
    <3> HIDE DEF U
    <3> QED
      BY <2>1, LeastNatural
  <2>3. k # 0
    BY <1>9, <2>2
  <2>4. k \div 2 \in Nat /\ k \div 2 < k
    BY <2>2, <2>3
  <2>5. BitsOf[k \div 2] \in SUBSET Nat
    BY <2>2, <2>4
  <2> QED
    BY <1>1, <1>9, <2>2, <2>3, <2>5
<1>11. BitsOf \in [Nat -> SUBSET Nat]
  BY <1>8, <1>10
<1> QED
  BY <1>9, <1>11 DEF next

LEMMA LowBitsOf ==
  \A n \in Nat : \A k \in 0 .. Power2[n] - 1 : BitsOf[k] \in Word(n) /\ Low(BitsOf[k], n) = k
<1> DEFINE Stands(k, n) == BitsOf[k] \in Word(n) /\ Low(BitsOf[k], n) = k
           T == {n \in Nat : \A k \in 0 .. Power2[n] - 1 : Stands(k, n)}
<1>0. \A n \in Nat : Stands(0, n)
  BY BitsOfDef, LowEmpty DEF Word
<1>1. 0 \in T
  <2>1. \A k \in 0 .. Power2[0] - 1 : k = 0
    BY Power2Type
  <2> HIDE DEF Stands
  <2> QED
    BY <1>0, <2>1
<1>2. ASSUME NEW n \in T PROVE n + 1 \in T
  <2> SUFFICES ASSUME NEW k \in 0 .. Power2[n + 1] - 1 PROVE Stands(k, n + 1)
    OBVIOUS
  <2> DEFINE h == k \div 2
             w == BitsOf[k]
  <2>1. CASE k = 0
    BY <1>0, <2>1
  <2>2. CASE k # 0
    <3>0. n \in Nat /\ n \in 0 .. n /\ 1 + n = n + 1
      OBVIOUS
    <3>1. k \in Nat \ {0} /\ k = 2 * h + (k % 2) /\ h \in Nat /\ k % 2 \in {0, 1}
      BY <2>2
    <3>2. h \in 0 .. Power2[n] - 1
      BY <3>1, Power2Type
    <3>3. BitsOf[h] \in Word(n) /\ Low(BitsOf[h], n) = h
      BY <3>2
    <3>4. w = {i + 1 : i \in BitsOf[h]} \cup (IF k % 2 = 1 THEN {0} ELSE {})
      BY <3>1, BitsOfDef
    <3> HIDE DEF h, w, T
    <3>5. w \in Word(n + 1)
      BY <3>0, <3>3, <3>4 DEF Word
    <3>6. Shr(w, 1, n) = BitsOf[h]
      BY <3>0, <3>3, <3>4 DEF Shr, Word
    <3>7. 0 \in w <=> k % 2 = 1
      BY <3>3, <3>4 DEF Word
    <3>8. Low(w, 1 + n) = Low(w, 1) + Power2[1] * Low(BitsOf[h], n)
      <4> DEFINE one == 1
      <4>1. one \in Nat
        OBVIOUS
      <4> HIDE DEF one
      <4>2. Low(w, one + n) = Low(w, one) + Power2[one] * Low(Shr(w, one, n), n)
        BY <3>0, <4>1, LowSplit
      <4> QED
        BY <3>6, <4>2 DEF one
    <3>9. Low(w, 0 + 1) = IF 0 \in w THEN Low(w, 0) + Power2[0] ELSE Low(w, 0)
      BY LowIn, LowOut
    <3>10. Low(w, 0) = 0 /\ Power2[0] = 1 /\ Power2[0 + 1] = 2
      BY LowZero, Power2Type
    <3>11. Low(w, n + 1) = k
      BY <3>0, <3>1, <3>3, <3>7, <3>8, <3>9, <3>10
    <3> QED
      BY <3>5, <3>11 DEF w
  <2> QED
    BY <2>1, <2>2
<1>3. T = Nat
  <2> HIDE DEF T
  <2> QED
    BY <1>1, <1>2, Induction DEF T
<1> QED
  BY <1>3

LEMMA SmallPowers == Power2[1] = 2 /\ Power2[2] = 4 /\ Power2[3] = 8 /\ Power2[4] = 16
<1>1. Power2[0 + 1] = 2 * Power2[0] /\ Power2[1 + 1] = 2 * Power2[1]
      /\ Power2[2 + 1] = 2 * Power2[2] /\ Power2[3 + 1] = 2 * Power2[3]
  BY Power2Type
<1>2. 0 + 1 = 1 /\ 1 + 1 = 2 /\ 2 + 1 = 3 /\ 3 + 1 = 4
  OBVIOUS
<1> QED
  BY <1>1, <1>2, Power2Type

(* The literals of the source that fit four bits.                          *)
LEMMA SmallBits ==
  \A k \in 0 .. 15 : Bits(k) = BitsOf[k] /\ Bits(k) \in Word(4) /\ Low(Bits(k), 4) = k
<1> SUFFICES ASSUME NEW k \in 0 .. 15
             PROVE  Bits(k) = BitsOf[k] /\ Bits(k) \in Word(4) /\ Low(Bits(k), 4) = k
  OBVIOUS
<1>1. k \in 0 .. Power2[4] - 1
  BY SmallPowers
<1>2. BitsOf[k] \in Word(4) /\ Low(BitsOf[k], 4) = k
  BY <1>1, LowBitsOf
<1>3. Bits(k) = BitsOf[k]
  BY <1>2 DEF Bits, Word
<1> QED
  BY <1>2, <1>3

LEMMA SmallBitsDistinct == \A j, k \in 0 .. 15 : Bits(j) = Bits(k) => j = k
  BY SmallBits

LEMMA BitsOfTwo == Bits(0) = {} /\ Bits(1) = {0} /\ Bits(2) = {1} /\ Bits(3) = {0, 1}
<1>1. {} \in Word(4) /\ {0} \in Word(4) /\ {1} \in Word(4) /\ {0, 1} \in Word(4)
  BY DEF Word
<1>2. ASSUME NEW w \in {{}, {0}, {1}, {0, 1}}
      PROVE  Low(w, 4) = (IF 0 \in w THEN 1 ELSE 0) + (IF 1 \in w THEN 2 ELSE 0)
  <2>1. Low(w, 1) = IF 0 \in w THEN 1 ELSE 0
    <3>1. Low(w, 0 + 1) = IF 0 \in w THEN Low(w, 0) + Power2[0] ELSE Low(w, 0)
      BY LowIn, LowOut
    <3>2. 0 + 1 = 1 /\ Low(w, 0) = 0 /\ Power2[0] = 1
      BY LowZero, Power2Type
    <3> QED
      BY <3>1, <3>2
  <2>2. Low(w, 2) = Low(w, 1) + IF 1 \in w THEN 2 ELSE 0
    <3>1. Low(w, 1 + 1) = Low(w, 1) + IF 1 \in w THEN Power2[1] ELSE 0
      BY LowDef
    <3>2. 1 + 1 = 2
      OBVIOUS
    <3> QED
      BY <3>1, <3>2, SmallPowers
  <2>3. Low(w, 2 + 1) = Low(w, 2) /\ Low(w, 3 + 1) = Low(w, 3)
    <3>1. 2 \notin w /\ 3 \notin w /\ 2 \in Nat /\ 3 \in Nat
      OBVIOUS
    <3> QED
      BY <3>1, LowOut
  <2>4. 2 + 1 = 3 /\ 3 + 1 = 4
    OBVIOUS
  <2> QED
    BY <2>1, <2>2, <2>3, <2>4
<1>3. Low({}, 4) = 0 /\ Low({0}, 4) = 1 /\ Low({1}, 4) = 2 /\ Low({0, 1}, 4) = 3
  BY <1>2
<1> QED
  BY <1>1, <1>3, SmallBits, LowInjective

-----------------------------------------------------------------------------
(* Products.                                                               *)

(* x wraps to r in n bits.                                                 *)
WrapsTo(x, r, n) == \E q \in Int : x = r + q * Power2[n]

LEMMA WrapsAdd ==
  ASSUME NEW n \in Nat, NEW x \in Int, NEW y \in Int, NEW a \in Word(n), NEW b \in Word(n),
         WrapsTo(x, Low(a, n), n), WrapsTo(y, Low(b, n), n)
  PROVE  WrapsTo(x + y, Low(Add(a, b, n), n), n)
<1>1. PICK q \in Int : x = Low(a, n) + q * Power2[n]
  BY DEF WrapsTo
<1>2. PICK r \in Int : y = Low(b, n) + r * Power2[n]
  BY DEF WrapsTo
<1>3. Low(a, n) \in Nat /\ Low(b, n) \in Nat /\ Power2[n] \in Nat
  BY LowType, Power2Type
<1>4. Add(a, b, n) \in Word(n)
  BY DEF Add, AddWithCarry, Word
<1>5. Low(Add(a, b, n), n) \in Nat
  BY LowType
<1>6. PICK e \in {0, 1} : Low(a, n) + Low(b, n) = Low(Add(a, b, n), n) + e * Power2[n]
  <2>1. CASE Low(a, n) + Low(b, n) >= Power2[n]
    BY <1>3, <1>5, <2>1, LowAdd
  <2>2. CASE ~(Low(a, n) + Low(b, n) >= Power2[n])
    BY <1>3, <1>5, <2>2, LowAdd
  <2> QED
    BY <2>1, <2>2
<1>7. x + y = Low(Add(a, b, n), n) + (q + r + e) * Power2[n]
  BY <1>1, <1>2, <1>3, <1>5, <1>6
<1> QED
  BY <1>7 DEF WrapsTo

LEMMA WrapsSub ==
  ASSUME NEW n \in Nat, NEW x \in Int, NEW y \in Int, NEW a \in Word(n), NEW b \in Word(n),
         WrapsTo(x, Low(a, n), n), WrapsTo(y, Low(b, n), n)
  PROVE  WrapsTo(x - y, Low(Sub(a, b, n), n), n)
<1>1. PICK q \in Int : x = Low(a, n) + q * Power2[n]
  BY DEF WrapsTo
<1>2. PICK r \in Int : y = Low(b, n) + r * Power2[n]
  BY DEF WrapsTo
<1>3. Low(a, n) \in Nat /\ Low(b, n) \in Nat /\ Power2[n] \in Nat
  BY LowType, Power2Type
<1>4. Low(Sub(a, b, n), n) \in Nat
  BY LowType
<1>5. PICK e \in {0, 1} : Low(a, n) - Low(b, n) = Low(Sub(a, b, n), n) - e * Power2[n]
  <2>1. CASE Low(a, n) < Low(b, n)
    BY <1>3, <1>4, <2>1, LowSub
  <2>2. CASE ~(Low(a, n) < Low(b, n))
    BY <1>3, <1>4, <2>2, LowSub
  <2> QED
    BY <2>1, <2>2
<1>6. (q - r - e) * Power2[n] = q * Power2[n] - r * Power2[n] - e * Power2[n]
  <2>1. q - r - e \in Int /\ e \in Int /\ Power2[n] \in Int
    BY <1>3
  <2> QED
    BY <2>1
<1>7. q * Power2[n] \in Int /\ r * Power2[n] \in Int /\ e * Power2[n] \in Int
  BY <1>3
<1>8. x - y = Low(Sub(a, b, n), n) + (q - r - e) * Power2[n]
  BY <1>1, <1>2, <1>3, <1>4, <1>5, <1>6, <1>7
<1> QED
  BY <1>8 DEF WrapsTo

LEMMA WrapsShl ==
  ASSUME NEW n \in Nat, NEW a \in Word(n), NEW s \in 0 .. n
  PROVE  WrapsTo(Power2[s] * Low(a, n), Low(Shl(a, s, n), n), n)
<1>1. n - s \in 0 .. n /\ s \in Nat /\ n - s \in Nat /\ s + (n - s) = n /\ a \in SUBSET Nat
  BY DEF Word
<1> DEFINE low == Low(a, n - s)
           high == Low(Shr(a, n - s, n), n)
<1>2. Low(a, n) = low + Power2[n - s] * high
  BY <1>1, LowShr
<1>3. Low(Shl(a, s, n), n) = Power2[s] * low
  BY <1>1, LowShl
<1>4. Power2[n] = Power2[s] * Power2[n - s]
  BY <1>1, Power2Sum
<1>5. low \in Nat /\ high \in Nat /\ Power2[s] \in Nat /\ Power2[n - s] \in Nat
  BY <1>1, LowType, Power2Type
<1> HIDE DEF low, high
<1>6. Power2[s] * (low + Power2[n - s] * high) = Power2[s] * low + high * (Power2[s] * Power2[n - s])
  BY <1>5
<1>7. Power2[s] * Low(a, n) = Low(Shl(a, s, n), n) + high * Power2[n]
  BY <1>2, <1>3, <1>4, <1>6
<1> QED
  BY <1>5, <1>7 DEF WrapsTo

LEMMA MulWraps ==
  ASSUME NEW n \in Nat, NEW a \in Word(n), NEW b \in Word(n)
  PROVE  Mul(a, b, n) \in Word(n) /\ WrapsTo(Low(a, n) * Low(b, n), Low(Mul(a, b, n), n), n)
<1> DEFINE next(k, w) == IF k - 1 \in b THEN Add(w, Shl(a, k - 1, n), n) ELSE w
           step == [x \in Nat \X Word(n) |-> next(x[1], x[2])]
<1>0. {} \in Word(n)
  BY DEF Word
<1>1. \A k \in Nat, w \in Word(n) : next(k, w) \in Word(n)
  BY DEF Word, Add, AddWithCarry
<1> HIDE DEF next
<1>2. /\ step \in [Nat \X Word(n) -> Word(n)]
      /\ \A k \in Nat, w \in Word(n) : step[<<k, w>>] = next(k, w)
  BY <1>1
<1> HIDE DEF step
<1>3. PICK f : Defines(f, Word(n), {}, step, Before)
  BY <1>0, <1>2, BeforeDescends, Recursion
<1>4. ASSUME NEW k \in Nat
      PROVE  f[k] = IF k = 0 THEN {} ELSE next(k, f[k - 1])
  <2>1. CASE k = 0
    BY <1>3, <2>1 DEF Defines
  <2>2. CASE k # 0
    <3>1. f[k] = step[<<k, f[k - 1]>>] /\ f[k - 1] \in Word(n)
      BY <1>3, <2>2, BeforeDescends DEF Defines
    <3> QED
      BY <1>2, <2>2, <3>1
  <2> QED
    BY <2>1, <2>2
<1>5. f = [k \in Nat |-> IF k = 0 THEN {} ELSE next(k, f[k - 1])]
  BY <1>3, <1>4 DEF Defines
<1> DEFINE product == CHOOSE g : g = [k \in Nat |-> IF k = 0 THEN {} ELSE next(k, g[k - 1])]
<1>6. product = [k \in Nat |-> IF k = 0 THEN {} ELSE next(k, product[k - 1])]
  BY <1>5
<1>7. product = CHOOSE g : g = [k \in Nat |-> IF k = 0 THEN {}
                                 ELSE IF k - 1 \in b THEN Add(g[k - 1], Shl(a, k - 1, n), n)
                                 ELSE g[k - 1]]
  BY DEF next
<1>8. Mul(a, b, n) = product[n]
  BY <1>7 DEF Mul
<1> HIDE DEF product
<1>9. product[0] = {} /\ \A k \in Nat \ {0} : product[k] = next(k, product[k - 1])
  BY <1>6
<1>10. ASSUME NEW k \in Nat
       PROVE  product[k + 1] = IF k \in b THEN Add(product[k], Shl(a, k, n), n) ELSE product[k]
  <2>1. k + 1 \in Nat \ {0} /\ (k + 1) - 1 = k
    OBVIOUS
  <2> QED
    BY <1>9, <2>1 DEF next
<1> DEFINE x == Low(a, n)
           T == {k \in Nat : k <= n => /\ product[k] \in Word(n)
                                       /\ WrapsTo(x * Low(b, k), Low(product[k], n), n)}
<1>11. x \in Nat
  BY LowType
<1> HIDE DEF x
<1>12. 0 \in T
  <2>1. Low(b, 0) = 0 /\ Low({}, n) = 0 /\ Power2[n] \in Nat
    BY LowZero, LowEmpty, Power2Type
  <2>2. x * 0 = 0 + 0 * Power2[n]
    BY <1>11, <2>1
  <2>3. WrapsTo(x * Low(b, 0), Low({}, n), n)
    BY <2>1, <2>2 DEF WrapsTo
  <2> QED
    BY <1>0, <1>9, <2>3
<1>13. ASSUME NEW k \in T PROVE k + 1 \in T
  <2> SUFFICES ASSUME k + 1 <= n
               PROVE  /\ product[k + 1] \in Word(n)
                      /\ WrapsTo(x * Low(b, k + 1), Low(product[k + 1], n), n)
    OBVIOUS
  <2>1. /\ k \in Nat /\ k \in 0 .. n
        /\ product[k] \in Word(n) /\ WrapsTo(x * Low(b, k), Low(product[k], n), n)
    OBVIOUS
  <2> HIDE DEF T
  <2>2. CASE k \in b
    <3>1. product[k + 1] = Add(product[k], Shl(a, k, n), n)
      BY <1>10, <2>1, <2>2
    <3>2. Shl(a, k, n) \in Word(n) /\ product[k + 1] \in Word(n)
      BY <3>1 DEF Shl, Add, AddWithCarry, Word
    <3>3. WrapsTo(Power2[k] * x, Low(Shl(a, k, n), n), n)
      BY <2>1, WrapsShl DEF x
    <3>4. Low(b, k) \in Nat /\ Power2[k] \in Nat /\ Low(b, k + 1) = Low(b, k) + Power2[k]
      BY <2>1, <2>2, LowType, LowIn, Power2Type
    <3>5. WrapsTo(x * Low(b, k) + Power2[k] * x, Low(product[k + 1], n), n)
      <4>1. x * Low(b, k) \in Int /\ Power2[k] * x \in Int
        BY <1>11, <3>4
      <4> QED
        BY <2>1, <3>1, <3>2, <3>3, <4>1, WrapsAdd
    <3>6. x * Low(b, k + 1) = x * Low(b, k) + Power2[k] * x
      BY <1>11, <3>4
    <3> QED
      BY <3>2, <3>5, <3>6
  <2>3. CASE k \notin b
    BY <1>10, <2>1, <2>3, LowOut
  <2> QED
    BY <2>2, <2>3
<1>14. T = Nat
  <2> HIDE DEF T
  <2> QED
    BY <1>12, <1>13, Induction DEF T
<1>15. n \in T
  BY <1>14
<1> QED
  BY <1>8, <1>15 DEF x

=============================================================================
