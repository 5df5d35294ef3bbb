-------------------------- MODULE CalibrationProofs -------------------------
(***************************************************************************)
(* What the calibration computes, for any number of scores and of labels:  *)
(* pooling adjacent violators gives the isotonic fit, and predictions do   *)
(* not rise with the score.                                                *)
(***************************************************************************)
EXTENDS Calibration, SequenceTheorems, WellFoundedInduction, TLAPS

-----------------------------------------------------------------------------
(* Induction over the numbers, with the set of those a statement holds for. *)

Below == {p \in Nat \X Nat : p[1] < p[2]}

(* < on Nat has no infinite descent. *)
LEMMA BelowIsWellFounded == IsWellFoundedOn(Below, Nat)
  BY NatLessThanWellFounded, Zenon DEF OpToRel, Below

(* A set of numbers that is not empty has a least one. *)
LEMMA LeastNumber ==
  ASSUME NEW T, T \subseteq Nat, T # {}
  PROVE  \E m \in T : \A n \in T : m <= n
<1>1. PICK m \in T : \A n \in T : <<n, m>> \notin Below
  BY BelowIsWellFounded, WFMin
<1>2. \A n \in T : ~ (n < m)
  BY <1>1 DEF Below
<1> QED BY <1>2

(* Induction: a set with 0 and with the successors of its members has all.  *)
LEMMA Induction ==
  ASSUME NEW T, 0 \in T, \A n \in Nat : n \in T => n + 1 \in T
  PROVE  Nat \subseteq T
<1> SUFFICES ASSUME Nat \ T # {} PROVE FALSE
  OBVIOUS
<1>1. PICK m \in Nat \ T : \A n \in Nat \ T : m <= n
  BY LeastNumber
<1>2. m # 0 /\ m - 1 \in Nat /\ ~ (m <= m - 1)
  BY <1>1
<1> QED BY <1>1, <1>2

(* The same as far as n. *)
LEMMA InductionUpTo ==
  ASSUME NEW n \in Nat, NEW T, 0 \in T, \A k \in 0 .. n - 1 : k \in T => k + 1 \in T
  PROVE  0 .. n \subseteq T
<1> DEFINE U == {k \in Nat : k <= n => k \in T}
<1>1. 0 \in U /\ \A k \in Nat : k \in U => k + 1 \in U
  OBVIOUS
<1>2. Nat \subseteq U
  <2> HIDE DEF U
  <2> QED BY <1>1, Induction
<1> QED BY <1>2

(* And backwards from n. *)
LEMMA InductionDownFrom ==
  ASSUME NEW n \in Nat, NEW T, n \in T, \A k \in 1 .. n : k \in T => k - 1 \in T
  PROVE  0 .. n \subseteq T
<1> DEFINE U == {k \in 0 .. n : n - k \in T}
<1>1. 0 \in U
  OBVIOUS
<1>2. ASSUME NEW k \in 0 .. n - 1, k \in U
      PROVE  k + 1 \in U
  <2>1. n - k \in 1 .. n /\ n - (k + 1) = (n - k) - 1
    OBVIOUS
  <2> QED BY <1>2, <2>1
<1>3. 0 .. n \subseteq U
  <2> HIDE DEF U
  <2> QED BY <1>1, <1>2, InductionUpTo
<1>4. ASSUME NEW k \in 0 .. n
      PROVE  k \in T
  <2>1. n - k \in U /\ n - (n - k) = k
    BY <1>3
  <2> QED BY <2>1
<1> QED BY <1>4

-----------------------------------------------------------------------------
(* Fractions                                                                *)

(* Positive factors and divisors keep an order. *)
LEMMA Cancel ==
  ASSUME NEW x \in Int, NEW y \in Int, NEW q \in Int, q > 0, x * q <= y * q
  PROVE  x <= y
  OBVIOUS

(* A factor that is not negative keeps an order. *)
LEMMA TimesMonotone ==
  ASSUME NEW x \in Int, NEW y \in Int, NEW q \in Int, q >= 0, x <= y
  PROVE  x * q <= y * q
  OBVIOUS

LEMMA Distributive ==
  ASSUME NEW c \in Int, NEW x \in Int, NEW y \in Int
  PROVE  c * (x + y) = c * x + c * y /\ c * x \in Int /\ c * y \in Int
  OBVIOUS

(* <<p1, q1>> at most <<p2, q2>> at most <<p3, q3>>; only the middle one    *)
(* needs a denominator that is not 0.                                       *)
LEMMA FractionsTransitive ==
  ASSUME NEW p1 \in Int, NEW q1 \in Nat, NEW p2 \in Int, NEW q2 \in Nat \ {0},
         NEW p3 \in Int, NEW q3 \in Nat,
         p1 * q2 <= p2 * q1, p2 * q3 <= p3 * q2
  PROVE  p1 * q3 <= p3 * q1
<1>1. (p1 * q2) * q3 <= (p2 * q1) * q3
  BY TimesMonotone, p1 * q2 \in Int, p2 * q1 \in Int
<1>2. (p2 * q3) * q1 <= (p3 * q2) * q1
  BY TimesMonotone, p2 * q3 \in Int, p3 * q2 \in Int
<1>3. (p1 * q3) * q2 <= (p3 * q1) * q2
  BY <1>1, <1>2
<1> QED BY <1>3, Cancel, p1 * q3 \in Int, p3 * q1 \in Int

(* Of two blocks in falling order, a prefix of the first whose mean is not  *)
(* below the first's is not below the pooled block's either.                *)
LEMMA PoolFirst ==
  ASSUME NEW p1 \in Int, NEW q1 \in Nat \ {0}, NEW p2 \in Int, NEW q2 \in Nat \ {0},
         NEW x \in Int, NEW y \in Nat,
         p2 * q1 <= p1 * q2, p1 * y <= x * q1
  PROVE  (p1 + p2) * y <= x * (q1 + q2)
<1>1. p2 * y <= x * q2
  BY FractionsTransitive
<1> QED BY <1>1

(* The first of them together with a prefix of the second: the same.        *)
LEMMA PoolSecond ==
  ASSUME NEW p1 \in Int, NEW q1 \in Nat \ {0}, NEW p2 \in Int, NEW q2 \in Nat \ {0},
         NEW x \in Int, NEW y \in Nat, y <= q2,
         p2 * q1 <= p1 * q2, p2 * y <= x * q2
  PROVE  (p1 + p2) * (q1 + y) <= (p1 + x) * (q1 + q2)
<1>1. (p2 - x) * q2 <= p2 * (q2 - y)
  OBVIOUS
<1>2. (p2 - x) * q1 <= p1 * (q2 - y)
  BY <1>1, FractionsTransitive, p2 - x \in Int, q2 - y \in Nat
<1> QED BY <1>1, <1>2
Fraction == Int \X Nat
Proper == Int \X (Nat \ {0})

(* AtMost and Less are orders of fractions. *)
LEMMA AtMostTransitive ==
  ASSUME NEW x \in Fraction, NEW y \in Proper, NEW z \in Fraction, AtMost(x, y), AtMost(y, z)
  PROVE  AtMost(x, z)
<1> DEFINE p1 == x[1]  q1 == x[2]  p2 == y[1]  q2 == y[2]  p3 == z[1]  q3 == z[2]
<1>1. p1 \in Int /\ q1 \in Nat /\ p2 \in Int /\ q2 \in Nat \ {0} /\ p3 \in Int /\ q3 \in Nat
  BY DEF Fraction, Proper
<1>2. p1 * q2 <= p2 * q1 /\ p2 * q3 <= p3 * q2
  BY DEF AtMost
<1>3. p1 * q3 <= p3 * q1
  <2> HIDE DEF p1, q1, p2, q2, p3, q3
  <2> QED BY <1>1, <1>2, FractionsTransitive
<1> QED BY <1>3 DEF AtMost

LEMMA AtMostIsTotal ==
  ASSUME NEW x \in Fraction, NEW y \in Fraction
  PROVE  /\ AtMost(x, x)
         /\ AtMost(x, y) \/ AtMost(y, x)
         /\ Less(x, y) => AtMost(x, y)
<1>1. x[1] \in Int /\ x[2] \in Nat /\ y[1] \in Int /\ y[2] \in Nat
  BY DEF Fraction
<1>2. x[1] * y[2] \in Int /\ y[1] * x[2] \in Int /\ x[1] * x[2] \in Int
  BY <1>1
<1> QED BY <1>2 DEF AtMost, Less

LEMMA LessTransitive ==
  ASSUME NEW x \in Proper, NEW y \in Proper, NEW z \in Proper, Less(x, y), Less(y, z)
  PROVE  Less(x, z)
<1>1. x \in Fraction /\ y \in Fraction /\ z \in Fraction
  BY DEF Fraction, Proper
<1>2. AtMost(y, z)
  BY <1>1, AtMostIsTotal
<1>3. ASSUME AtMost(z, x) PROVE FALSE
  <2>1. AtMost(y, x)
    BY <1>1, <1>2, <1>3, AtMostTransitive
  <2> QED BY <2>1 DEF Less
<1> QED BY <1>3 DEF Less

-----------------------------------------------------------------------------
(* Cumulative sums                                                          *)

(* s is what the recursion of Cumulative describes, as far as n. *)
IsCumulative(s, numbers, n) ==
  s = [k \in 0 .. n |-> IF k = 0 THEN 0 ELSE s[k - 1] + numbers[k]]

(* The recursive definition has a solution. *)
LEMMA CumulativeIsDefined ==
  ASSUME NEW numbers \in Seq(Int)
  PROVE  IsCumulative(Cumulative(numbers), numbers, Len(numbers))
<1> DEFINE n == Len(numbers)
           T == {m \in 0 .. n : \E s : IsCumulative(s, numbers, m)}
<1>1. 0 \in T
  <2> DEFINE s == [k \in 0 .. 0 |-> 0]
  <2>1. IsCumulative(s, numbers, 0)
    BY DEF IsCumulative
  <2> QED BY <2>1
<1>2. ASSUME NEW m \in 0 .. n - 1, m \in T
      PROVE  m + 1 \in T
  <2>1. PICK s : IsCumulative(s, numbers, m)
    BY <1>2
  <2> DEFINE r == [k \in 0 .. m + 1 |-> IF k <= m THEN s[k] ELSE s[m] + numbers[m + 1]]
  <2>2. \A k \in 0 .. m : s[k] = IF k = 0 THEN 0 ELSE s[k - 1] + numbers[k]
    BY <2>1 DEF IsCumulative
  <2>3. \A k \in 0 .. m + 1 : r[k] = IF k = 0 THEN 0 ELSE r[k - 1] + numbers[k]
    BY <2>2
  <2>4. IsCumulative(r, numbers, m + 1)
    BY <2>3 DEF IsCumulative
  <2> QED BY <2>4
<1>3. 0 .. n \subseteq T
  <2> HIDE DEF T
  <2> QED BY <1>1, <1>2, InductionUpTo, n \in Nat
<1>4. \E s : IsCumulative(s, numbers, n)
  BY <1>3, n \in 0 .. n
<1> QED BY <1>4 DEF Cumulative, IsCumulative

(* The k-th sum is the one before it and the k-th number. *)
LEMMA CumulativeSteps ==
  ASSUME NEW numbers \in Seq(Int)
  PROVE  LET s == Cumulative(numbers)
         IN  /\ s[0] = 0
             /\ \A k \in 1 .. Len(numbers) : s[k] = s[k - 1] + numbers[k]
             /\ \A k \in 0 .. Len(numbers) : s[k] \in Int
<1> DEFINE s == Cumulative(numbers)
           n == Len(numbers)
           T == {k \in 0 .. n : s[k] \in Int}
<1>1. \A k \in 0 .. n : s[k] = IF k = 0 THEN 0 ELSE s[k - 1] + numbers[k]
  BY CumulativeIsDefined DEF IsCumulative
<1> HIDE DEF s
<1>2. 0 \in T
  BY <1>1
<1>3. ASSUME NEW k \in 0 .. n - 1, k \in T
      PROVE  k + 1 \in T
  BY <1>1, <1>3
<1>4. 0 .. n \subseteq T
  <2> HIDE DEF T
  <2> QED BY <1>2, <1>3, InductionUpTo, n \in Nat
<1> QED BY <1>1, <1>4 DEF s

(* Sums of numbers that are not negative grow. *)
LEMMA CumulativeGrows ==
  ASSUME NEW numbers \in Seq(Nat),
         NEW a \in 0 .. Len(numbers), NEW b \in 0 .. Len(numbers), a <= b
  PROVE  LET s == Cumulative(numbers) IN s[a] \in Nat /\ s[b] \in Nat /\ s[a] <= s[b]
<1> DEFINE s == Cumulative(numbers)
           n == Len(numbers)
           T == {k \in 0 .. n : s[k] \in Nat /\ \A j \in 0 .. k : s[j] \in Nat /\ s[j] <= s[k]}
<1>1. /\ s[0] = 0
      /\ \A k \in 1 .. n : s[k] = s[k - 1] + numbers[k]
  BY CumulativeSteps
<1> HIDE DEF s
<1>2. 0 \in T
  BY <1>1
<1>3. ASSUME NEW k \in 0 .. n - 1, k \in T
      PROVE  k + 1 \in T
  <2>1. s[k + 1] = s[k] + numbers[k + 1] /\ numbers[k + 1] \in Nat
    BY <1>1
  <2> QED BY <1>3, <2>1
<1>4. 0 .. n \subseteq T
  <2> HIDE DEF T
  <2> QED BY <1>2, <1>3, InductionUpTo, n \in Nat
<1> QED BY <1>4 DEF s

IsCombination(h, c, f, d, g, indices) == \A k \in indices : h[k] = c * f[k] + d * g[k]

(* Sums are linear. *)
LEMMA CumulativeIsLinear ==
  ASSUME NEW c \in Int, NEW d \in Int,
         NEW f \in Seq(Int), NEW g \in Seq(Int), NEW h \in Seq(Int),
         Len(g) = Len(f), Len(h) = Len(f),
         IsCombination(h, c, f, d, g, 1 .. Len(f))
  PROVE  IsCombination(Cumulative(h), c, Cumulative(f), d, Cumulative(g), 0 .. Len(f))
<1> DEFINE n == Len(f)
           F == Cumulative(f)
           G == Cumulative(g)
           H == Cumulative(h)
           T == {k \in 0 .. n : H[k] = c * F[k] + d * G[k]}
<1>1. /\ F[0] = 0 /\ G[0] = 0 /\ H[0] = 0
      /\ \A k \in 1 .. n : /\ F[k] = F[k - 1] + f[k] /\ G[k] = G[k - 1] + g[k]
                           /\ H[k] = H[k - 1] + h[k]
      /\ \A k \in 0 .. n : F[k] \in Int /\ G[k] \in Int /\ H[k] \in Int
  BY CumulativeSteps
<1> HIDE DEF F, G, H
<1>2. 0 \in T
  BY <1>1
<1>3. ASSUME NEW k \in 0 .. n - 1, k \in T
      PROVE  k + 1 \in T
  <2>1. /\ k + 1 \in 1 .. n /\ (k + 1) - 1 = k /\ k \in 0 .. n
        /\ f[k + 1] \in Int /\ g[k + 1] \in Int
    OBVIOUS
  <2>2. /\ F[k + 1] = F[k] + f[k + 1] /\ G[k + 1] = G[k] + g[k + 1]
        /\ H[k + 1] = H[k] + (c * f[k + 1] + d * g[k + 1])
        /\ F[k] \in Int /\ G[k] \in Int
    BY <1>1, <2>1 DEF IsCombination
  <2>3. H[k] = c * F[k] + d * G[k]
    BY <1>3
  <2> DEFINE x == F[k]  x1 == f[k + 1]  y == G[k]  y1 == g[k + 1]
  <2>4. /\ c * (x + x1) = c * x + c * x1 /\ d * (y + y1) = d * y + d * y1
        /\ c * x \in Int /\ c * x1 \in Int /\ d * y \in Int /\ d * y1 \in Int
    <3>1. x \in Int /\ x1 \in Int /\ y \in Int /\ y1 \in Int
      BY <2>1, <2>2
    <3> HIDE DEF x, x1, y, y1
    <3> QED BY <3>1, Distributive
  <2>5. H[k + 1] = c * F[k + 1] + d * G[k + 1]
    <3>1. /\ F[k + 1] = x + x1 /\ G[k + 1] = y + y1
          /\ H[k + 1] = (c * x + d * y) + (c * x1 + d * y1)
      BY <2>2, <2>3
    <3> HIDE DEF x, x1, y, y1
    <3> QED BY <3>1, <2>4
  <2> QED BY <2>1, <2>5
<1>4. 0 .. n \subseteq T
  <2> HIDE DEF T
  <2> QED BY <1>2, <1>3, InductionUpTo, n \in Nat
<1> QED BY <1>4 DEF F, G, H, IsCombination

-----------------------------------------------------------------------------
(* Pooled blocks, seen in the diagram of the sums E of the edited fields    *)
(* over the sums N of all fields: a block from a to b has a slope, its      *)
(* mean, and the blocks that are left form the greatest convex minorant.    *)

IsDiagram(E, N, n) ==
  /\ n \in Nat
  /\ \A k \in 0 .. n : E[k] \in Nat /\ N[k] \in Nat
  /\ \A a, b \in 0 .. n : a < b =>
       N[a] < N[b] /\ E[a] <= E[b] /\ E[b] - E[a] <= N[b] - N[a]

Slope(E, N, a, b) == <<E[b] - E[a], N[b] - N[a]>>

(* No prefix of the block has a smaller mean than the block. *)
IsPooled(E, N, a, b) ==
  \A c \in a .. b : AtMost(Slope(E, N, a, b), Slope(E, N, a, c))

(* The first m corners: blocks between them rise, the diagram lies above    *)
(* the line of each block from its first corner on, and above it up to its  *)
(* last corner.                                                             *)
AreCorners(E, N, n, ends, m) ==
  LET Line(j) == Slope(E, N, ends[j - 1], ends[j])
  IN  /\ m \in Nat /\ ends[0] = 0
      /\ \A j \in 0 .. m : ends[j] \in 0 .. n
      /\ \A i, j \in 0 .. m : i < j => ends[i] < ends[j]
      /\ \A j \in 1 .. m :
           /\ \A c \in ends[j - 1] .. ends[m] : AtMost(Line(j), Slope(E, N, ends[j - 1], c))
           /\ \A c \in 0 .. ends[j] : AtMost(Slope(E, N, c, ends[j]), Line(j))
      /\ \A i, j \in 1 .. m : i < j => Less(Line(i), Line(j))

LEMMA SlopesAreFractions ==
  ASSUME NEW E, NEW N, NEW n, IsDiagram(E, N, n), NEW a \in 0 .. n, NEW b \in a .. n
  PROVE  Slope(E, N, a, b) \in Fraction /\ (a < b => Slope(E, N, a, b) \in Proper)
<1>1. /\ n \in Nat /\ b \in 0 .. n
      /\ E[a] \in Nat /\ E[b] \in Nat /\ N[a] \in Nat /\ N[b] \in Nat
      /\ a < b => N[a] < N[b]
  BY DEF IsDiagram
<1>2. E[b] - E[a] \in Int /\ N[b] - N[a] \in Nat /\ (a < b => N[b] - N[a] \in Nat \ {0})
  BY <1>1
<1> QED BY <1>2 DEF Slope, Fraction, Proper

(* What is below, or above, the slopes of two neighbours is below, or       *)
(* above, the slope of both.                                                *)
LEMMA SlopesAdd ==
  ASSUME NEW E, NEW N, NEW n, IsDiagram(E, N, n), NEW x \in Fraction,
         NEW a \in 0 .. n, NEW b \in 0 .. n, NEW c \in 0 .. n
  PROVE  /\ AtMost(x, Slope(E, N, a, b)) /\ AtMost(x, Slope(E, N, b, c))
               => AtMost(x, Slope(E, N, a, c))
         /\ AtMost(Slope(E, N, a, b), x) /\ AtMost(Slope(E, N, b, c), x)
               => AtMost(Slope(E, N, a, c), x)
<1>1. /\ x[1] \in Int /\ x[2] \in Int /\ E[a] \in Int /\ E[b] \in Int /\ E[c] \in Int
      /\ N[a] \in Int /\ N[b] \in Int /\ N[c] \in Int
  BY DEF Fraction, IsDiagram
<1>2. /\ x[1] * (N[c] - N[a]) = x[1] * (N[b] - N[a]) + x[1] * (N[c] - N[b])
      /\ (E[c] - E[a]) * x[2] = (E[b] - E[a]) * x[2] + (E[c] - E[b]) * x[2]
      /\ x[1] * (N[b] - N[a]) \in Int /\ x[1] * (N[c] - N[b]) \in Int
      /\ (E[b] - E[a]) * x[2] \in Int /\ (E[c] - E[b]) * x[2] \in Int
  BY <1>1
<1> QED BY <1>2 DEF AtMost, Slope

(* Two blocks that fall are pooled into one. *)
LEMMA PoolSlopes ==
  ASSUME NEW E, NEW N, NEW n, IsDiagram(E, N, n),
         NEW a \in 0 .. n, NEW b \in 0 .. n, NEW c \in 0 .. n, a < b, b < c,
         IsPooled(E, N, a, b), IsPooled(E, N, b, c),
         ~Less(Slope(E, N, a, b), Slope(E, N, b, c))
  PROVE  IsPooled(E, N, a, c)
<1> SUFFICES ASSUME NEW d \in a .. c
             PROVE  AtMost(Slope(E, N, a, c), Slope(E, N, a, d))
  BY DEF IsPooled
<1> DEFINE p1 == E[b] - E[a]
           q1 == N[b] - N[a]
           p2 == E[c] - E[b]
           q2 == N[c] - N[b]
<1>1. /\ p1 \in Int /\ p2 \in Int /\ q1 \in Nat \ {0} /\ q2 \in Nat \ {0}
      /\ n \in Nat /\ d \in 0 .. n /\ E[d] \in Int /\ N[d] \in Int
      /\ a < d => N[d] - N[a] \in Nat
      /\ b < d => N[d] - N[b] \in Nat
      /\ d < c => N[d] < N[c]
  BY DEF IsDiagram
<1>2. E[c] - E[a] = p1 + p2 /\ N[c] - N[a] = q1 + q2
  BY DEF IsDiagram
<1>3. p2 * q1 <= p1 * q2
  BY DEF Less, AtMost, Slope
<1>4. CASE d <= b
  <2> DEFINE x == E[d] - E[a]
             y == N[d] - N[a]
  <2>1. x \in Int /\ y \in Nat
    BY <1>1 DEF IsDiagram
  <2>2. p1 * y <= x * q1
    BY <1>4 DEF IsPooled, AtMost, Slope
  <2> HIDE DEF p1, p2, q1, q2, x, y
  <2>3. (p1 + p2) * y <= x * (q1 + q2)
    BY <1>1, <1>3, <2>1, <2>2, PoolFirst
  <2> QED BY <2>3, <1>2 DEF AtMost, Slope, x, y
<1>5. CASE b < d
  <2> DEFINE x == E[d] - E[b]
             y == N[d] - N[b]
  <2>1. x \in Int /\ y \in Nat /\ y <= q2
    BY <1>1, <1>5 DEF IsDiagram
  <2>2. p2 * y <= x * q2
    BY <1>5 DEF IsPooled, AtMost, Slope
  <2>3. E[d] - E[a] = p1 + x /\ N[d] - N[a] = q1 + y
    BY DEF IsDiagram
  <2> HIDE DEF p1, p2, q1, q2, x, y
  <2>4. (p1 + p2) * (q1 + y) <= (p1 + x) * (q1 + q2)
    BY <1>1, <1>3, <2>1, <2>2, PoolSecond
  <2> QED BY <2>3, <2>4, <1>2 DEF AtMost, Slope
<1> QED BY <1>4, <1>5
(* Of a pooled block no suffix has a greater mean than the block.           *)
LEMMA SuffixesOfPooled ==
  ASSUME NEW E, NEW N, NEW n, IsDiagram(E, N, n),
         NEW a \in 0 .. n, NEW b \in a .. n, IsPooled(E, N, a, b), NEW c \in a .. b
  PROVE  AtMost(Slope(E, N, c, b), Slope(E, N, a, b))
<1>1. /\ n \in Nat /\ E[a] \in Int /\ E[b] \in Int /\ E[c] \in Int
      /\ N[a] \in Int /\ N[b] \in Int /\ N[c] \in Int
  BY DEF IsDiagram
<1>2. (E[b] - E[a]) * (N[c] - N[a]) <= (E[c] - E[a]) * (N[b] - N[a])
  BY DEF IsPooled, AtMost, Slope
<1>3. (E[b] - E[c]) * (N[b] - N[a]) <= (E[b] - E[a]) * (N[b] - N[c])
  BY <1>1, <1>2
<1> QED BY <1>3 DEF AtMost, Slope

(* A block above the last one is one more corner. *)
LEMMA AppendCorner ==
  ASSUME NEW E, NEW N, NEW n, IsDiagram(E, N, n),
         NEW ends, NEW m, AreCorners(E, N, n, ends, m),
         NEW b \in 0 .. n, ends[m] < b, IsPooled(E, N, ends[m], b),
         m = 0 \/ Less(Slope(E, N, ends[m - 1], ends[m]), Slope(E, N, ends[m], b)),
         NEW more, \A j \in 0 .. m : more[j] = ends[j], more[m + 1] = b
  PROVE  AreCorners(E, N, n, more, m + 1)
<1> DEFINE S(c, d) == Slope(E, N, c, d)
           Line(j) == S(ends[j - 1], ends[j])
           New == S(ends[m], b)
<1>1. /\ n \in Nat /\ m \in Nat /\ ends[0] = 0
      /\ \A j \in 0 .. m : ends[j] \in 0 .. n
      /\ \A j \in 1 .. m : ends[j - 1] < ends[j]
  BY DEF AreCorners, IsDiagram
<1>2. \A c \in 0 .. n : \A d \in c .. n : S(c, d) \in Fraction /\ (c < d => S(c, d) \in Proper)
  BY SlopesAreFractions
<1>3. New \in Proper /\ New \in Fraction
  BY <1>1, <1>2
<1>4. \A j \in 1 .. m : ends[j - 1] \in 0 .. n /\ ends[j] \in ends[j - 1] .. n
  BY <1>1
<1>5. \A j \in 1 .. m : Line(j) \in Proper /\ Line(j) \in Fraction
  BY <1>1, <1>2, <1>4
<1>6. \A j \in 1 .. m : Less(Line(j), New)
  <2> SUFFICES ASSUME NEW j \in 1 .. m, j # m
               PROVE  Less(Line(j), New)
    BY <1>1
  <2>1. Less(Line(j), Line(m)) /\ Less(Line(m), New) /\ m \in 1 .. m
    BY <1>1 DEF AreCorners
  <2> HIDE DEF Line, New
  <2> QED BY <2>1, <1>3, <1>5, LessTransitive
<1>7. \A j \in 1 .. m : AtMost(Line(j), New)
  <2> HIDE DEF Line, New
  <2> QED BY <1>3, <1>5, <1>6, AtMostIsTotal
<1> DEFINE LineOf(j) == S(more[j - 1], more[j])
<1>8. /\ \A j \in 1 .. m : more[j - 1] = ends[j - 1] /\ more[j] = ends[j] /\ LineOf(j) = Line(j)
      /\ more[m] = ends[m] /\ LineOf(m + 1) = New /\ (m + 1) - 1 = m
      /\ more[0] = 0 /\ \A j \in 0 .. m + 1 : more[j] \in 0 .. n
  BY <1>1
<1>12. \A i, j \in 0 .. m + 1 : i < j => more[i] < more[j]
  <2> SUFFICES ASSUME NEW i \in 0 .. m + 1, NEW j \in 0 .. m + 1, i < j
               PROVE  more[i] < more[j]
    OBVIOUS
  <2>1. i \in 0 .. m /\ (i = m \/ i < m) /\ (j = m + 1 \/ j \in 0 .. m) /\ m \in 0 .. m
    BY <1>1
  <2>2. i < m => ends[i] < ends[m]
    BY <2>1 DEF AreCorners
  <2>3. j \in 0 .. m => ends[i] < ends[j]
    BY <2>1 DEF AreCorners
  <2>4. ends[i] \in Nat /\ ends[m] \in Nat /\ b \in Nat
    BY <2>1, <1>1
  <2> QED BY <2>1, <2>2, <2>3, <2>4
<1>9. \A i, j \in 1 .. m + 1 : i < j => Less(LineOf(i), LineOf(j))
  <2> SUFFICES ASSUME NEW i \in 1 .. m + 1, NEW j \in 1 .. m + 1, i < j
               PROVE  Less(LineOf(i), LineOf(j))
    OBVIOUS
  <2>1. CASE j = m + 1
    BY <2>1, <1>1, <1>6, <1>8
  <2>2. CASE j # m + 1
    <3>1. i \in 1 .. m /\ j \in 1 .. m
      BY <2>2, <1>1
    <3>2. Less(Line(i), Line(j))
      BY <3>1 DEF AreCorners
    <3> QED BY <3>1, <3>2, <1>8
  <2> QED BY <2>1, <2>2
<1>10. ASSUME NEW j \in 1 .. m + 1
       PROVE  /\ \A c \in more[j - 1] .. more[m + 1] : AtMost(LineOf(j), S(more[j - 1], c))
              /\ \A c \in 0 .. more[j] : AtMost(S(c, more[j]), LineOf(j))
  <2>1. CASE j = m + 1
    <3>1. \A c \in ends[m] .. b : AtMost(New, S(ends[m], c)) /\ AtMost(S(c, b), New)
      BY <1>1, SuffixesOfPooled DEF IsPooled
    <3>2. ASSUME NEW c \in 0 .. ends[m]
          PROVE  AtMost(S(c, b), New)
      <4>1. CASE m = 0
        <5>1. c \in ends[m] .. b
          BY <4>1, <1>1
        <5> QED BY <5>1, <3>1
      <4>2. CASE m # 0
        <5>1. m \in 1 .. m
          BY <4>2, <1>1
        <5>2. AtMost(S(c, ends[m]), Line(m))
          BY <5>1 DEF AreCorners
        <5>3. S(c, ends[m]) \in Fraction /\ c \in 0 .. n /\ ends[m] \in 0 .. n
          BY <1>1, <1>2
        <5>4. AtMost(S(c, ends[m]), New)
          BY <5>1, <5>2, <5>3, <1>3, <1>5, <1>7, AtMostTransitive
        <5>5. AtMost(New, New)
          BY <1>3, AtMostIsTotal
        <5> QED BY <5>3, <5>4, <5>5, <1>3, SlopesAdd
      <4> QED BY <4>1, <4>2
    <3>3. \A c \in 0 .. b : c \in 0 .. ends[m] \/ c \in ends[m] .. b
      BY <1>1
    <3> QED BY <2>1, <1>8, <3>1, <3>2, <3>3
  <2>2. CASE j # m + 1
    <3>1. j \in 1 .. m
      BY <2>2, <1>1
    <3>2. /\ \A c \in ends[j - 1] .. ends[m] : AtMost(Line(j), S(ends[j - 1], c))
          /\ \A c \in 0 .. ends[j] : AtMost(S(c, ends[j]), Line(j))
      BY <3>1 DEF AreCorners
    <3>3. ASSUME NEW c \in ends[m] .. b
          PROVE  AtMost(Line(j), S(ends[j - 1], c))
      <4>1. /\ c \in 0 .. n /\ ends[m] \in 0 .. n /\ c \in ends[m] .. n
            /\ ends[j - 1] \in 0 .. n
        BY <3>1, <1>1
      <4>2. ends[m] \in ends[j - 1] .. ends[m]
        <5>1. j - 1 \in 0 .. m /\ m \in 0 .. m /\ j - 1 < m
          BY <3>1, <1>1
        <5>2. ends[j - 1] < ends[m]
          BY <5>1 DEF AreCorners
        <5> QED BY <5>2, <3>1, <1>1, <4>1
      <4>3. AtMost(Line(j), S(ends[j - 1], ends[m]))
        BY <3>2, <4>2
      <4>4. AtMost(New, S(ends[m], c))
        BY DEF IsPooled
      <4>5. AtMost(Line(j), S(ends[m], c))
        BY <3>1, <4>1, <4>4, <1>2, <1>3, <1>5, <1>7, AtMostTransitive
      <4> QED BY <3>1, <4>1, <4>3, <4>5, <1>5, SlopesAdd
    <3>4. \A c \in ends[j - 1] .. b : c \in ends[j - 1] .. ends[m] \/ c \in ends[m] .. b
      BY <1>1, <1>4, <3>1
    <3> QED BY <3>1, <3>2, <3>3, <3>4, <1>1, <1>8
  <2> QED BY <2>1, <2>2
<1> HIDE DEF LineOf, S
<1>11. m + 1 \in Nat
  BY <1>1
<1> QED BY <1>8, <1>9, <1>10, <1>11, <1>12 DEF AreCorners, LineOf, S
-----------------------------------------------------------------------------
(* The loops of _isotonic                                                   *)

Block == [sum : Int, weight : Int, breakpoints : Int]

(* The block of the breakpoints after a up to b. *)
BlockAt(E, N, a, b) ==
  [sum |-> E[b] - E[a], weight |-> N[b] - N[a], breakpoints |-> b - a]

(* The invariant of the loop over the breakpoints: the blocks of the first  *)
(* k of them lie between corners.                                           *)
IsStack(E, N, n, blocks, ends, k) ==
  /\ blocks \in Seq(Block)
  /\ AreCorners(E, N, n, ends, Len(blocks))
  /\ ends[Len(blocks)] = k
  /\ \A j \in 1 .. Len(blocks) : blocks[j] = BlockAt(E, N, ends[j - 1], ends[j])

(* Of finitely many numbers there is a greatest. *)
LEMMA GreatestNumber ==
  ASSUME NEW n \in Nat, NEW T, T \subseteq 0 .. n, T # {}
  PROVE  Max(T) \in T /\ \A m \in T : m <= Max(T)
<1> DEFINE U == {n - m : m \in T}
<1>1. U \subseteq Nat /\ U # {}
  <2>1. \A m \in T : m \in 0 .. n /\ n - m \in Nat
    OBVIOUS
  <2>2. PICK m \in T : TRUE
    OBVIOUS
  <2> QED BY <2>1, <2>2
<1>2. PICK u \in U : \A v \in U : u <= v
  BY <1>1, LeastNumber
<1>3. PICK g \in T : u = n - g
  OBVIOUS
<1>4. \A m \in T : g >= m
  <2> TAKE m \in T
  <2>1. n - m \in U
    OBVIOUS
  <2>2. n - g <= n - m
    BY <2>1, <1>2, <1>3
  <2> QED BY <2>2
<1>5. \E x \in T : \A m \in T : x >= m
  BY <1>4
<1>6. Max(T) \in T /\ \A m \in T : Max(T) >= m
  BY <1>5 DEF Max
<1> QED BY <1>6

IsPopped(behind, blocks, new, low) ==
  behind = [m \in low .. Len(blocks) |->
              IF m = Len(blocks) THEN new ELSE Pool(blocks[m + 1], behind[m + 1])]

(* Popping: each block joins what was popped before it. *)
LEMMA PoppedSteps ==
  ASSUME NEW blocks \in Seq(Block), NEW new
  PROVE  LET p == Popped(blocks, new)
         IN  /\ p[Len(blocks)] = new
             /\ \A m \in 0 .. Len(blocks) - 1 : p[m] = Pool(blocks[m + 1], p[m + 1])
<1> DEFINE n == Len(blocks)
           T == {low \in 0 .. n : \E p : IsPopped(p, blocks, new, low)}
<1>1. n \in T
  <2> DEFINE p == [m \in n .. n |-> new]
  <2>1. \A m \in n .. n : p[m] = IF m = n THEN new ELSE Pool(blocks[m + 1], p[m + 1])
    OBVIOUS
  <2>2. IsPopped(p, blocks, new, n)
    BY <2>1 DEF IsPopped
  <2> QED BY <2>2
<1>2. ASSUME NEW low \in 1 .. n, low \in T
      PROVE  low - 1 \in T
  <2>1. PICK p : IsPopped(p, blocks, new, low)
    BY <1>2
  <2> DEFINE r == [m \in low - 1 .. n |-> IF m >= low THEN p[m] ELSE Pool(blocks[low], p[low])]
  <2>2. \A m \in low .. n : p[m] = IF m = n THEN new ELSE Pool(blocks[m + 1], p[m + 1])
    BY <2>1 DEF IsPopped
  <2>3. \A m \in low - 1 .. n : r[m] = IF m = n THEN new ELSE Pool(blocks[m + 1], r[m + 1])
    BY <2>2
  <2>4. IsPopped(r, blocks, new, low - 1)
    BY <2>3 DEF IsPopped
  <2> QED BY <2>4
<1>3. 0 .. n \subseteq T
  <2> HIDE DEF T
  <2> QED BY <1>1, <1>2, InductionDownFrom, n \in Nat
<1>4. \E p : IsPopped(p, blocks, new, 0)
  BY <1>3, 0 \in 0 .. n
<1>5. IsPopped(Popped(blocks, new), blocks, new, 0)
  BY <1>4 DEF Popped, IsPopped
<1> DEFINE p == Popped(blocks, new)
<1>6. \A m \in 0 .. n : p[m] = IF m = n THEN new ELSE Pool(blocks[m + 1], p[m + 1])
  BY <1>5 DEF IsPopped
<1> QED BY <1>6

(* The while loop stops at the last block that lies below, and only there.  *)
LEMMA KeptIsWhereItStops ==
  ASSUME NEW blocks \in Seq(Block), NEW new
  PROVE  LET k == Kept(blocks, new)
             Stops(m) == m = 0 \/ Less(Value(blocks[m]), Value(Popped(blocks, new)[m]))
         IN  /\ k \in 0 .. Len(blocks) /\ Stops(k)
             /\ \A m \in k + 1 .. Len(blocks) : ~Stops(m)
<1> DEFINE Stops(m) == m = 0 \/ Less(Value(blocks[m]), Value(Popped(blocks, new)[m]))
           T == {m \in 0 .. Len(blocks) : Stops(m)}
<1>1. T \subseteq 0 .. Len(blocks) /\ 0 \in T /\ Len(blocks) \in Nat
  OBVIOUS
<1>2. Kept(blocks, new) = Max(T)
  BY DEF Kept
<1>3. Max(T) \in T /\ \A m \in T : m <= Max(T)
  <2> HIDE DEF T
  <2> QED BY <1>1, GreatestNumber
<1> DEFINE k == Max(T)
<1>4. k \in 0 .. Len(blocks) /\ Stops(k)
  BY <1>3
<1>5. ASSUME NEW m \in k + 1 .. Len(blocks)
      PROVE  ~Stops(m)
  <2>1. m \in 0 .. Len(blocks) /\ ~(m <= k)
    BY <1>1, <1>4
  <2> QED BY <2>1, <1>3
<1> HIDE DEF T, Stops
<1>6. /\ Kept(blocks, new) \in 0 .. Len(blocks) /\ Stops(Kept(blocks, new))
      /\ \A m \in Kept(blocks, new) + 1 .. Len(blocks) : ~Stops(m)
  BY <1>2, <1>4, <1>5
<1> QED BY <1>6 DEF Stops

(* One turn of the loop keeps the invariant. *)
LEMMA PushKeepsStack ==
  ASSUME NEW E, NEW N, NEW n, IsDiagram(E, N, n),
         NEW blocks, NEW ends, NEW k \in 0 .. n - 1, IsStack(E, N, n, blocks, ends, k),
         NEW new, new = BlockAt(E, N, k, k + 1)
  PROVE  \E more : IsStack(E, N, n, PushBlock(blocks, new), more, k + 1)
<1> DEFINE m == Len(blocks)
           p == Popped(blocks, new)
           q == Kept(blocks, new)
<1>1. /\ n \in Nat /\ m \in Nat /\ m = Len(blocks) /\ blocks \in Seq(Block)
      /\ ends[0] = 0 /\ ends[m] = k
      /\ \A j \in 0 .. m : ends[j] \in 0 .. n
      /\ \A i, j \in 0 .. m : i < j => ends[i] < ends[j]
      /\ \A j \in 1 .. m : blocks[j] = BlockAt(E, N, ends[j - 1], ends[j])
  BY DEF IsStack, AreCorners, IsDiagram
<1>2. \A c \in 0 .. n : E[c] \in Nat /\ N[c] \in Nat
  BY DEF IsDiagram
<1>3. /\ p[m] = new
      /\ \A j \in 0 .. m - 1 : p[j] = Pool(blocks[j + 1], p[j + 1])
  <2>1. blocks \in Seq(Block)
    BY <1>1
  <2> HIDE DEF q
  <2> QED BY <2>1, PoppedSteps
<1>4. /\ q \in 0 .. m
      /\ q = 0 \/ Less(Value(blocks[q]), Value(p[q]))
      /\ \A j \in q + 1 .. m : ~Less(Value(blocks[j]), Value(p[j]))
  BY <1>1, KeptIsWhereItStops
<1>5. ASSUME NEW a \in 0 .. n, NEW b \in 0 .. n
      PROVE  Value(BlockAt(E, N, a, b)) = Slope(E, N, a, b)
  BY DEF Value, BlockAt, Slope
<1>19. ASSUME NEW a \in 0 .. n, NEW b \in 0 .. n, NEW c \in 0 .. n
       PROVE  Pool(BlockAt(E, N, a, b), BlockAt(E, N, b, c)) = BlockAt(E, N, a, c)
  <2>1. /\ E[a] \in Int /\ E[b] \in Int /\ E[c] \in Int
        /\ N[a] \in Int /\ N[b] \in Int /\ N[c] \in Int
    BY <1>2
  <2>2. a \in Int /\ b \in Int /\ c \in Int
    OBVIOUS
  <2> QED BY <2>1, <2>2 DEF Pool, BlockAt
<1> HIDE DEF m, p, q
<1> DEFINE T == {d \in 0 .. m - q : /\ p[m - d] = BlockAt(E, N, ends[m - d], k + 1)
                                  /\ IsPooled(E, N, ends[m - d], k + 1)}
<1>6. 0 \in T
  <2>1. IsPooled(E, N, k, k + 1)
    <3> SUFFICES ASSUME NEW c \in k .. k + 1
                 PROVE  AtMost(Slope(E, N, k, k + 1), Slope(E, N, k, c))
      BY DEF IsPooled
    <3>1. E[k] \in Int /\ N[k] \in Int /\ E[k + 1] \in Int /\ N[k + 1] \in Int
      BY <1>1, <1>2
    <3>2. c = k \/ c = k + 1
      OBVIOUS
    <3> QED BY <3>1, <3>2 DEF AtMost, Slope
  <2> QED BY <2>1, <1>1, <1>3, <1>4
<1>7. ASSUME NEW d \in 0 .. (m - q) - 1, d \in T
      PROVE  d + 1 \in T
  <2> DEFINE j == m - d
  <2>1. /\ j \in q + 1 .. m /\ j \in 1 .. m /\ j - 1 \in 0 .. m - 1 /\ j - 1 \in 0 .. m /\ j \in 0 .. m
        /\ m - (d + 1) = j - 1 /\ (j - 1) + 1 = j /\ d + 1 \in 0 .. m - q
    BY <1>1, <1>4
  <2>2. /\ ends[j - 1] \in 0 .. n /\ ends[j] \in 0 .. n /\ k + 1 \in 0 .. n
        /\ ends[j - 1] < ends[j] /\ ends[j] < k + 1
    <3> HIDE DEF j
    <3>1. /\ j - 1 < j /\ (j = m \/ j < m) /\ m \in 0 .. m
          /\ ends[j - 1] \in 0 .. n /\ ends[j] \in 0 .. n
      BY <2>1, <1>1
    <3>2. ends[j - 1] < ends[j] /\ (j = m \/ ends[j] < ends[m])
      BY <3>1, <2>1, <1>1
    <3> QED BY <3>1, <3>2, <1>1
  <2>3. p[j] = BlockAt(E, N, ends[j], k + 1) /\ IsPooled(E, N, ends[j], k + 1)
    BY <1>7
  <2>4. blocks[j] = BlockAt(E, N, ends[j - 1], ends[j])
    BY <2>1, <1>1
  <2>5. ~Less(Slope(E, N, ends[j - 1], ends[j]), Slope(E, N, ends[j], k + 1))
    BY <2>1, <2>2, <2>3, <2>4, <1>4, <1>5
  <2>6. IsPooled(E, N, ends[j - 1], ends[j])
    <3>1. \A c \in ends[j - 1] .. ends[m] :
            AtMost(Slope(E, N, ends[j - 1], ends[j]), Slope(E, N, ends[j - 1], c))
      BY <2>1, <1>1 DEF IsStack, AreCorners
    <3>2. ends[j] <= ends[m]
      BY <2>1, <2>2, <1>1
    <3> QED BY <3>1, <3>2, <2>2, <1>1 DEF IsPooled
  <2>7. IsPooled(E, N, ends[j - 1], k + 1)
    BY <2>2, <2>3, <2>5, <2>6, PoolSlopes
  <2>8. p[j - 1] = BlockAt(E, N, ends[j - 1], k + 1)
    <3>1. p[j - 1] = Pool(blocks[j], p[j])
      BY <2>1, <1>3
    <3>2. Pool(BlockAt(E, N, ends[j - 1], ends[j]), BlockAt(E, N, ends[j], k + 1))
            = BlockAt(E, N, ends[j - 1], k + 1)
      BY <2>2, <1>19, Zenon
    <3> QED BY <3>1, <3>2, <2>3, <2>4, Zenon
  <2>9. /\ p[m - (d + 1)] = BlockAt(E, N, ends[m - (d + 1)], k + 1)
        /\ IsPooled(E, N, ends[m - (d + 1)], k + 1)
    BY <2>1, <2>7, <2>8, Zenon
  <2> QED BY <2>1, <2>9, Zenon
<1>8. 0 .. m - q \subseteq T
  <2>1. m - q \in Nat
    BY <1>1, <1>4
  <2> HIDE DEF T
  <2> QED BY <2>1, <1>6, <1>7, InductionUpTo
<1>9. p[q] = BlockAt(E, N, ends[q], k + 1) /\ IsPooled(E, N, ends[q], k + 1)
  <2>1. m - q \in 0 .. m - q /\ m - (m - q) = q
    BY <1>1, <1>4
  <2>2. m - q \in T
    BY <2>1, <1>8, Zenon
  <2> QED BY <2>1, <2>2, Zenon
<1> DEFINE more == [j \in 0 .. q + 1 |-> IF j <= q THEN ends[j] ELSE k + 1]
<1>10. /\ q \in Nat /\ ends[q] \in 0 .. n /\ k + 1 \in 0 .. n /\ ends[q] < k + 1
       /\ \A j \in 0 .. q : more[j] = ends[j]
       /\ more[q + 1] = k + 1
  <2>1. q = m \/ ends[q] < ends[m]
    BY <1>1, <1>4
  <2> QED BY <2>1, <1>1, <1>4
<1>11. AreCorners(E, N, n, ends, q)
  <2>1. AreCorners(E, N, n, ends, m)
    BY <1>1 DEF IsStack
  <2>2. /\ q = m \/ ends[q] < ends[m]
        /\ \A j \in 0 .. q : j \in 0 .. m
        /\ \A j \in 1 .. q : j \in 1 .. m /\ j - 1 \in 0 .. m
    BY <1>1, <1>4
  <2>3. \A a \in 0 .. n : \A c \in a .. ends[q] : c \in a .. ends[m]
    BY <2>2, <1>1, <1>10
  <2> QED BY <2>1, <2>2, <2>3, <1>10 DEF AreCorners
<1>12. q = 0 \/ Less(Slope(E, N, ends[q - 1], ends[q]), Slope(E, N, ends[q], k + 1))
  <2> SUFFICES ASSUME q # 0
               PROVE  Less(Slope(E, N, ends[q - 1], ends[q]), Slope(E, N, ends[q], k + 1))
    OBVIOUS
  <2>1. q \in 1 .. m /\ q - 1 \in 0 .. m /\ q \in 0 .. m
    BY <1>1, <1>4
  <2>2. blocks[q] = BlockAt(E, N, ends[q - 1], ends[q]) /\ ends[q - 1] \in 0 .. n
    BY <2>1, <1>1
  <2> QED BY <2>2, <1>4, <1>5, <1>9, <1>10
<1>13. AreCorners(E, N, n, more, q + 1)
  <2> HIDE DEF more
  <2> QED BY <1>10, <1>11, <1>12, <1>9, AppendCorner
<1> DEFINE pushed == PushBlock(blocks, new)
<1>14. pushed = Append(SubSeq(blocks, 1, q), p[q])
  BY DEF PushBlock, p, q
<1>15. p[q] \in Block
  <2>1. E[k + 1] - E[ends[q]] \in Int /\ N[k + 1] - N[ends[q]] \in Int /\ (k + 1) - ends[q] \in Int
    <3> DEFINE r == ends[q]
    <3>1. r \in 0 .. n /\ k + 1 \in 0 .. n /\ r \in Int /\ k + 1 \in Int
      BY <1>10
    <3> HIDE DEF r
    <3>2. E[k + 1] \in Int /\ N[k + 1] \in Int /\ E[r] \in Int /\ N[r] \in Int
      BY <3>1, <1>2
    <3> QED BY <3>1, <3>2 DEF r
  <2> QED BY <2>1, <1>9 DEF BlockAt, Block
<1>16. /\ pushed \in Seq(Block) /\ Len(pushed) = q + 1
       /\ \A j \in 1 .. q : pushed[j] = blocks[j]
       /\ pushed[q + 1] = p[q]
  <2>1. SubSeq(blocks, 1, q) \in Seq(Block) /\ Len(SubSeq(blocks, 1, q)) = q
        /\ \A j \in 1 .. q : SubSeq(blocks, 1, q)[j] = blocks[j]
    BY <1>1, <1>4
  <2> HIDE DEF pushed
  <2> QED BY <2>1, <1>10, <1>14, <1>15
<1>17. ASSUME NEW j \in 1 .. q + 1
       PROVE  pushed[j] = BlockAt(E, N, more[j - 1], more[j])
  <2>1. CASE j = q + 1
    BY <2>1, <1>9, <1>10, <1>16
  <2>2. CASE j # q + 1
    <3>1. j \in 1 .. q /\ j \in 1 .. m /\ j - 1 \in 0 .. q /\ j \in 0 .. q
      BY <2>2, <1>1, <1>4
    <3> QED BY <3>1, <1>1, <1>10, <1>16
  <2> QED BY <2>1, <2>2
<1> HIDE DEF more, pushed
<1>18. IsStack(E, N, n, pushed, more, k + 1)
  BY <1>10, <1>13, <1>16, <1>17 DEF IsStack
<1> QED BY <1>18 DEF pushed
-----------------------------------------------------------------------------
(* The fit of labels                                                        *)

LEMMA LabelsAreTyped ==
  ASSUME NEW labels \in Labels(Nat)
  PROVE  LET n == Len(labels.score)
             weights == Weights(labels)
         IN  /\ n \in Nat
             /\ labels.score \in [1 .. n -> Score]
             /\ \A i, j \in 1 .. n : i < j => labels.score[i] > labels.score[j]
             /\ labels.edited \in Seq(Nat) /\ Len(labels.edited) = n
             /\ labels.untouched \in Seq(Nat) /\ Len(labels.untouched) = n
             /\ weights \in Seq(Nat) /\ Len(weights) = n
             /\ \A k \in 1 .. n : /\ weights[k] = labels.edited[k] + labels.untouched[k]
                                   /\ weights[k] > 0
<1>1. PICK scores \in Scores :
        /\ labels \in [score : {scores}, edited : [1 .. Len(scores) -> Nat],
                       untouched : [1 .. Len(scores) -> Nat]]
        /\ \A k \in DOMAIN labels.score : labels.edited[k] + labels.untouched[k] > 0
  BY DEF Labels
<1>2. PICK n \in 0 .. Grain + 1 :
        scores \in [1 .. n -> Score] /\ \A i, j \in 1 .. n : i < j => scores[i] > scores[j]
  BY DEF Scores
<1>3. n \in Nat /\ Len(scores) = n /\ DOMAIN scores = 1 .. n
  BY <1>2, CalibrationAssumption
<1>4. /\ labels.score = scores
      /\ labels.edited \in [1 .. n -> Nat] /\ labels.untouched \in [1 .. n -> Nat]
      /\ \A k \in 1 .. n : labels.edited[k] + labels.untouched[k] > 0
  BY <1>1, <1>3
<1>5. Weights(labels) = [k \in 1 .. n |-> labels.edited[k] + labels.untouched[k]]
  BY <1>3, <1>4 DEF Weights
<1>6. Weights(labels) \in [1 .. n -> Nat]
  BY <1>4, <1>5
<1>7. \A f \in [1 .. n -> Nat] : f \in Seq(Nat) /\ Len(f) = n
  BY <1>3
<1> QED BY <1>2, <1>3, <1>4, <1>5, <1>6, <1>7

(* The sums of labels make a diagram. *)
LEMMA LabelsMakeDiagram ==
  ASSUME NEW labels \in Labels(Nat)
  PROVE  IsDiagram(Cumulative(labels.edited), Cumulative(Weights(labels)), Len(labels.score))
<1> DEFINE n == Len(labels.score)
           weights == Weights(labels)
           E == Cumulative(labels.edited)
           U == Cumulative(labels.untouched)
           N == Cumulative(weights)
<1>1. /\ n \in Nat
      /\ labels.edited \in Seq(Nat) /\ Len(labels.edited) = n
      /\ labels.untouched \in Seq(Nat) /\ Len(labels.untouched) = n
      /\ weights \in Seq(Nat) /\ Len(weights) = n
      /\ \A k \in 1 .. n : /\ weights[k] = labels.edited[k] + labels.untouched[k]
                            /\ weights[k] > 0
  BY LabelsAreTyped
<1>2. /\ labels.edited \in Seq(Int) /\ labels.untouched \in Seq(Int) /\ weights \in Seq(Int)
  BY <1>1
<1>3. \A k \in 0 .. n : N[k] = 1 * E[k] + 1 * U[k]
  <2> DEFINE e == labels.edited
             u == labels.untouched
  <2>3. /\ e \in Seq(Int) /\ u \in Seq(Int) /\ weights \in Seq(Int)
        /\ Len(u) = Len(e) /\ Len(weights) = Len(e) /\ n = Len(e)
        /\ \A k \in 1 .. n : weights[k] = e[k] + u[k]
    BY <1>1, <1>2
  <2>1. /\ e \in Seq(Int) /\ u \in Seq(Int) /\ weights \in Seq(Int)
        /\ Len(u) = Len(e) /\ Len(weights) = Len(e) /\ n = Len(e)
        /\ IsCombination(weights, 1, e, 1, u, 1 .. Len(e))
    <3> HIDE DEF e, u, weights, n
    <3>1. \A k \in 1 .. n : e[k] \in Int /\ u[k] \in Int
      BY <2>3
    <3> QED BY <2>3, <3>1 DEF IsCombination
  <2> HIDE DEF e, u, weights, n
  <2>2. IsCombination(Cumulative(weights), 1, Cumulative(e), 1, Cumulative(u), 0 .. Len(e))
    BY <2>1, 1 \in Int, CumulativeIsLinear
  <2> QED BY <2>1, <2>2 DEF e, u, IsCombination
<1>4. \A a, b \in 0 .. n : a <= b =>
        /\ E[a] \in Nat /\ E[b] \in Nat /\ E[a] <= E[b]
        /\ U[a] \in Nat /\ U[b] \in Nat /\ U[a] <= U[b]
        /\ N[a] \in Nat /\ N[b] \in Nat /\ N[a] <= N[b]
  <2> HIDE DEF weights
  <2> QED BY <1>1, CumulativeGrows
<1>5. \A k \in 1 .. n : N[k] = N[k - 1] + weights[k] /\ weights[k] \in Nat \ {0}
  <2> HIDE DEF weights
  <2> QED BY <1>1, <1>2, CumulativeSteps
<1> HIDE DEF E, N, U, weights, n
<1>6. ASSUME NEW a \in 0 .. n, NEW b \in 0 .. n, a < b
      PROVE  N[a] < N[b] /\ E[a] <= E[b] /\ E[b] - E[a] <= N[b] - N[a]
  <2>1. a \in 0 .. b - 1 /\ b - 1 \in 0 .. n /\ b \in 1 .. n /\ a <= b - 1
    BY <1>1, <1>6
  <2>2. N[a] <= N[b - 1] /\ N[a] \in Nat /\ N[b - 1] \in Nat
    BY <2>1, <1>4
  <2>3. N[b] = N[b - 1] + weights[b] /\ weights[b] \in Nat \ {0}
    BY <2>1, <1>5
  <2> QED BY <2>2, <2>3, <1>3, <1>4, <1>6
<1>7. \A k \in 0 .. n : E[k] \in Nat /\ N[k] \in Nat
  BY <1>1, <1>4
<1>8. IsDiagram(E, N, n)
  BY <1>1, <1>6, <1>7 DEF IsDiagram
<1> QED BY <1>8 DEF E, N, n, weights

ArePushed(stacks, labels, n) ==
  stacks = [k \in 0 .. n |-> IF k = 0 THEN <<>> ELSE PushBlock(stacks[k - 1], Bucket(labels, k))]

(* The blocks that _isotonic ends with have corners up to the last score. *)
LEMMA BlocksAreStacked ==
  ASSUME NEW labels \in Labels(Nat)
  PROVE  LET n == Len(labels.score)
         IN  \E ends : IsStack(Cumulative(labels.edited), Cumulative(Weights(labels)), n,
                              Blocks(labels), ends, n)
<1> DEFINE n == Len(labels.score)
           E == Cumulative(labels.edited)
           N == Cumulative(Weights(labels))
           T == {m \in 0 .. n : \E s : ArePushed(s, labels, m)}
<1>1. /\ n \in Nat
      /\ labels.edited \in Seq(Nat) /\ Len(labels.edited) = n
      /\ Weights(labels) \in Seq(Nat) /\ Len(Weights(labels)) = n
  BY LabelsAreTyped
<1>2. 0 \in T
  <2> DEFINE s == [k \in 0 .. 0 |-> <<>>]
  <2>1. \A k \in 0 .. 0 : s[k] = IF k = 0 THEN <<>> ELSE PushBlock(s[k - 1], Bucket(labels, k))
    OBVIOUS
  <2>2. ArePushed(s, labels, 0)
    BY <2>1 DEF ArePushed
  <2> QED BY <2>2, <1>1
<1>3. ASSUME NEW m \in 0 .. n - 1, m \in T
      PROVE  m + 1 \in T
  <2>1. PICK s : ArePushed(s, labels, m)
    BY <1>3
  <2> DEFINE r == [k \in 0 .. m + 1 |-> IF k <= m THEN s[k]
                                       ELSE PushBlock(s[m], Bucket(labels, m + 1))]
  <2>2. \A k \in 0 .. m : s[k] = IF k = 0 THEN <<>> ELSE PushBlock(s[k - 1], Bucket(labels, k))
    BY <2>1 DEF ArePushed
  <2>3. \A k \in 0 .. m + 1 :
          r[k] = IF k = 0 THEN <<>> ELSE PushBlock(r[k - 1], Bucket(labels, k))
    BY <2>2
  <2>4. ArePushed(r, labels, m + 1)
    BY <2>3 DEF ArePushed
  <2> QED BY <2>4, <1>1
<1>4. 0 .. n \subseteq T
  <2> HIDE DEF T, n
  <2> QED BY <1>1, <1>2, <1>3, InductionUpTo
<1>5. \E s : ArePushed(s, labels, n)
  BY <1>1, <1>4, n \in 0 .. n
<1> DEFINE stacks == CHOOSE s : ArePushed(s, labels, n)
<1>6. ArePushed(stacks, labels, n)
  BY <1>5
<1>7. Blocks(labels) = stacks[n]
  BY DEF Blocks, ArePushed
<1> HIDE DEF stacks
<1>8. /\ stacks[0] = <<>>
      /\ \A k \in 1 .. n : stacks[k] = PushBlock(stacks[k - 1], Bucket(labels, k))
  <2>1. \A k \in 0 .. n :
          stacks[k] = IF k = 0 THEN <<>> ELSE PushBlock(stacks[k - 1], Bucket(labels, k))
    BY <1>6 DEF ArePushed
  <2> QED BY <2>1, <1>1
<1>9. IsDiagram(E, N, n)
  BY LabelsMakeDiagram
<1>10. \A k \in 1 .. n : Bucket(labels, k) = BlockAt(E, N, k - 1, k)
  <2> SUFFICES ASSUME NEW k \in 1 .. n
               PROVE  Bucket(labels, k) = BlockAt(E, N, k - 1, k)
    OBVIOUS
  <2> DEFINE weights == Weights(labels)
  <2>1. labels.edited \in Seq(Int) /\ weights \in Seq(Int)
    BY <1>1
  <2>2. /\ E[k] = E[k - 1] + labels.edited[k] /\ N[k] = N[k - 1] + weights[k]
        /\ E[k - 1] \in Int /\ N[k - 1] \in Int
        /\ labels.edited[k] \in Int /\ weights[k] \in Int
    <3>1. ASSUME NEW f \in Seq(Int), Len(f) = n
          PROVE  /\ Cumulative(f)[k] = Cumulative(f)[k - 1] + f[k]
                 /\ Cumulative(f)[k - 1] \in Int /\ f[k] \in Int
      <4>1. k \in 1 .. Len(f) /\ k - 1 \in 0 .. Len(f) /\ f[k] \in Int
        BY <1>1, <3>1
      <4> QED BY <4>1, CumulativeSteps
    <3> QED BY <2>1, <1>1, <3>1
  <2>3. E[k] - E[k - 1] = labels.edited[k] /\ N[k] - N[k - 1] = weights[k] /\ k - (k - 1) = 1
    BY <2>2
  <2> QED BY <2>3 DEF Bucket, BlockAt
<1> HIDE DEF E, N, n
<1> DEFINE R == {k \in 0 .. n : \E ends : IsStack(E, N, n, stacks[k], ends, k)}
<1>11. 0 \in R
  <2> DEFINE ends == [j \in 0 .. 0 |-> 0]
  <2>1. Len(<<>>) = 0 /\ <<>> \in Seq(Block) /\ ends[0] = 0 /\ 0 \in 0 .. n
    BY <1>1
  <2> HIDE DEF ends
  <2>2. AreCorners(E, N, n, ends, 0)
    BY <2>1 DEF AreCorners
  <2>3. IsStack(E, N, n, <<>>, ends, 0)
    BY <2>1, <2>2 DEF IsStack
  <2> QED BY <2>1, <2>3, <1>8
<1>12. ASSUME NEW k \in 0 .. n - 1, k \in R
       PROVE  k + 1 \in R
  <2>1. PICK ends : IsStack(E, N, n, stacks[k], ends, k)
    BY <1>12
  <2>2. /\ k + 1 \in 1 .. n /\ k + 1 \in 0 .. n /\ (k + 1) - 1 = k
    BY <1>1
  <2>3. Bucket(labels, k + 1) = BlockAt(E, N, k, k + 1)
    BY <2>2, <1>10
  <2>4. stacks[k + 1] = PushBlock(stacks[k], Bucket(labels, k + 1))
    BY <2>2, <1>8
  <2>5. \E more : IsStack(E, N, n, PushBlock(stacks[k], Bucket(labels, k + 1)), more, k + 1)
    BY <1>9, <2>1, <2>3, PushKeepsStack
  <2> QED BY <2>2, <2>4, <2>5
<1>13. n \in R
  <2>1. 0 .. n \subseteq R
    <3> HIDE DEF R
    <3> QED BY <1>1, <1>11, <1>12, InductionUpTo
  <2> QED BY <2>1, <1>1, n \in 0 .. n
<1> QED BY <1>7, <1>13 DEF E, N, n
-----------------------------------------------------------------------------
(* The fitted list                                                          *)

Copies(block) == [i \in 1 .. block.breakpoints |-> Value(block)]

AreExtended(lists, blocks, m) ==
  lists = [j \in 0 .. m |->
             IF j = 0 THEN <<>>
             ELSE lists[j - 1] \o Copies(blocks[j])]

(* The list has a value for each breakpoint, that of its block. *)
LEMMA FittedIsOfBlocks ==
  ASSUME NEW E, NEW N, NEW n, IsDiagram(E, N, n),
         NEW blocks, NEW ends, NEW k, IsStack(E, N, n, blocks, ends, k)
  PROVE  LET fit == Extended(blocks)
         IN  /\ fit \in Seq(Proper) /\ Len(fit) = k
             /\ \A l \in 1 .. k : \E j \in 1 .. Len(blocks) :
                  /\ l \in ends[j - 1] + 1 .. ends[j]
                  /\ fit[l] = Slope(E, N, ends[j - 1], ends[j])
<1> DEFINE m == Len(blocks)
           T == {d \in 0 .. m : \E s : AreExtended(s, blocks, d)}
<1>1. m \in Nat /\ m = Len(blocks)
  BY DEF IsStack
<1> HIDE DEF m
<1>2. 0 \in T
  <2> DEFINE s == [j \in 0 .. 0 |-> <<>>]
  <2>1. \A j \in 0 .. 0 :
          s[j] = IF j = 0 THEN <<>>
                 ELSE s[j - 1] \o Copies(blocks[j])
    OBVIOUS
  <2>2. AreExtended(s, blocks, 0)
    BY <2>1 DEF AreExtended
  <2> QED BY <2>2, <1>1
<1>3. ASSUME NEW d \in 0 .. m - 1, d \in T
      PROVE  d + 1 \in T
  <2>1. PICK s : AreExtended(s, blocks, d)
    BY <1>3
  <2> DEFINE r == [j \in 0 .. d + 1 |->
                     IF j <= d THEN s[j]
                     ELSE s[d] \o Copies(blocks[d + 1])]
  <2>2. \A j \in 0 .. d :
          s[j] = IF j = 0 THEN <<>>
                 ELSE s[j - 1] \o Copies(blocks[j])
    BY <2>1 DEF AreExtended
  <2>3. \A j \in 0 .. d + 1 :
          r[j] = IF j = 0 THEN <<>>
                 ELSE r[j - 1] \o Copies(blocks[j])
    <3> SUFFICES ASSUME NEW j \in 0 .. d + 1
                 PROVE  r[j] = IF j = 0 THEN <<>> ELSE r[j - 1] \o Copies(blocks[j])
      OBVIOUS
    <3>1. d \in Nat /\ d <= d /\ d + 1 # 0 /\ (d + 1) - 1 = d /\ ~ (d + 1 <= d)
          /\ d \in 0 .. d + 1 /\ d + 1 \in 0 .. d + 1
      BY <1>1
    <3>2. CASE j \in 0 .. d
      <4>1. r[j] = s[j]
        BY <3>2
      <4>2. CASE j = 0
        BY <4>1, <4>2, <3>2, <2>2, Zenon
      <4>3. CASE j # 0
        <5>1. j - 1 \in 0 .. d + 1 /\ j - 1 <= d
          BY <3>2, <4>3, <3>1
        <5>2. r[j - 1] = s[j - 1]
          BY <5>1
        <5> HIDE DEF r
        <5> QED BY <4>1, <4>3, <5>2, <3>2, <2>2, Zenon
      <4> QED BY <4>2, <4>3
    <3>3. CASE j = d + 1
      <4>1. r[d] = s[d] /\ r[d + 1] = s[d] \o Copies(blocks[d + 1])
        BY <3>1, Zenon
      <4> HIDE DEF r
      <4> QED BY <4>1, <3>1, <3>3, Zenon
    <3> QED BY <3>2, <3>3, <1>1
  <2>4. AreExtended(r, blocks, d + 1)
    BY <2>3 DEF AreExtended
  <2> QED BY <2>4, <1>1
<1>4. 0 .. m \subseteq T
  <2> HIDE DEF T
  <2> QED BY <1>1, <1>2, <1>3, InductionUpTo
<1>5. \E s : AreExtended(s, blocks, m)
  BY <1>1, <1>4, m \in 0 .. m
<1> DEFINE lists == CHOOSE s : AreExtended(s, blocks, m)
<1>6. AreExtended(lists, blocks, m)
  BY <1>5
<1>7. Extended(blocks) = lists[m]
  BY <1>1 DEF Extended, AreExtended, Copies
<1> HIDE DEF lists
<1>8. /\ lists[0] = <<>>
      /\ \A j \in 1 .. m :
           lists[j] = lists[j - 1] \o Copies(blocks[j])
  <2>1. \A j \in 0 .. m : lists[j] = IF j = 0 THEN <<>> ELSE lists[j - 1] \o Copies(blocks[j])
    BY <1>6, Zenon DEF AreExtended
  <2>2. 0 \in 0 .. m /\ \A j \in 1 .. m : j \in 0 .. m /\ j # 0
    BY <1>1
  <2> QED BY <2>1, <2>2, Zenon
<1>9. /\ n \in Nat /\ ends[0] = 0 /\ ends[m] = k
      /\ \A j \in 0 .. m : ends[j] \in 0 .. n
      /\ \A i, j \in 0 .. m : i < j => ends[i] < ends[j]
      /\ \A j \in 1 .. m : blocks[j] = BlockAt(E, N, ends[j - 1], ends[j])
  BY <1>1 DEF IsStack, AreCorners, IsDiagram
<1> DEFINE Line(j) == Slope(E, N, ends[j - 1], ends[j])
           IsFit(s, d) == /\ s \in Seq(Proper) /\ Len(s) = ends[d]
                          /\ \A l \in 1 .. ends[d] : \E j \in 1 .. d :
                               l \in ends[j - 1] + 1 .. ends[j] /\ s[l] = Line(j)
           R == {d \in 0 .. m : IsFit(lists[d], d)}
<1>10. 0 \in R
  <2>1. <<>> \in Seq(Proper) /\ Len(<<>>) = 0 /\ 1 .. 0 = {}
    OBVIOUS
  <2>2. 0 \in 0 .. m /\ IsFit(lists[0], 0)
    BY <2>1, <1>1, <1>8, <1>9
  <2> HIDE DEF IsFit
  <2> QED BY <2>2
<1>11. ASSUME NEW d \in 0 .. m - 1, d \in R
       PROVE  d + 1 \in R
  <2> DEFINE j == d + 1
             s == lists[d]
             t == [i \in 1 .. ends[j] - ends[d] |-> Line(j)]
  <2>1. /\ j \in 1 .. m /\ j \in 0 .. m /\ d \in 0 .. m /\ j - 1 = d /\ d < j
    BY <1>1
  <2>2. ends[d] \in 0 .. n /\ ends[j] \in 0 .. n /\ ends[d] < ends[j]
    BY <2>1, <1>9
  <2>3. Line(j) \in Proper
    <3>1. ends[j] \in ends[d] .. n
      BY <2>2, <1>9
    <3> QED BY <2>1, <2>2, <3>1, SlopesAreFractions
  <2>4. blocks[j].breakpoints = ends[j] - ends[d] /\ Value(blocks[j]) = Line(j)
    <3>1. blocks[j] = BlockAt(E, N, ends[d], ends[j])
      BY <2>1, <1>9
    <3>2. BlockAt(E, N, ends[d], ends[j]).breakpoints = ends[j] - ends[d]
          /\ Value(BlockAt(E, N, ends[d], ends[j])) = Slope(E, N, ends[d], ends[j])
      BY DEF BlockAt, Value, Slope
    <3> QED BY <3>1, <3>2, <2>1
  <2>5. lists[j] = s \o t
    <3>1. lists[j] = lists[j - 1] \o Copies(blocks[j])
      BY <2>1, <1>8
    <3>2. Copies(blocks[j]) = t
      BY <2>4 DEF Copies
    <3> QED BY <3>1, <3>2, <2>1
  <2>6. /\ s \in Seq(Proper) /\ Len(s) = ends[d]
        /\ \A l \in 1 .. ends[d] : \E i \in 1 .. d :
             l \in ends[i - 1] + 1 .. ends[i] /\ s[l] = Line(i)
    BY <1>11
  <2>7. /\ t \in Seq(Proper) /\ Len(t) = ends[j] - ends[d]
        /\ \A i \in 1 .. ends[j] - ends[d] : t[i] = Line(j)
    <3>1. ends[j] - ends[d] \in Nat
      BY <2>2
    <3> HIDE DEF Line
    <3> QED BY <2>3, <3>1
  <2> HIDE DEF j, s, t, Line
  <2>8. /\ lists[j] \in Seq(Proper) /\ Len(lists[j]) = ends[j]
        /\ \A l \in 1 .. ends[d] : lists[j][l] = s[l]
        /\ \A l \in ends[d] + 1 .. ends[j] : lists[j][l] = t[l - ends[d]] /\ l - ends[d] \in 1 .. ends[j] - ends[d]
    <3>1. /\ ends[d] \in Nat /\ ends[j] \in Nat /\ ends[j] - ends[d] \in Nat
          /\ ends[d] + (ends[j] - ends[d]) = ends[j]
      BY <2>2, <1>9
    <3>2. /\ s \o t \in Seq(Proper) /\ Len(s \o t) = Len(s) + Len(t)
          /\ \A l \in 1 .. Len(s) + Len(t) :
               (s \o t)[l] = IF l <= Len(s) THEN s[l] ELSE t[l - Len(s)]
      BY <2>6, <2>7, ConcatProperties
    <3>3. /\ lists[j] \in Seq(Proper) /\ Len(lists[j]) = ends[j]
          /\ \A l \in 1 .. ends[j] :
               lists[j][l] = IF l <= ends[d] THEN s[l] ELSE t[l - ends[d]]
      BY <3>1, <3>2, <2>5, <2>6, <2>7
    <3>4. ASSUME NEW l \in 1 .. ends[d]
          PROVE  lists[j][l] = s[l]
      <4>1. l \in 1 .. ends[j] /\ l <= ends[d]
        BY <2>2
      <4> QED BY <4>1, <3>3
    <3>5. ASSUME NEW l \in ends[d] + 1 .. ends[j]
          PROVE  lists[j][l] = t[l - ends[d]] /\ l - ends[d] \in 1 .. ends[j] - ends[d]
      <4>1. l \in 1 .. ends[j] /\ ~ (l <= ends[d]) /\ l - ends[d] \in 1 .. ends[j] - ends[d]
        BY <2>2
      <4> QED BY <4>1, <3>3
    <3> QED BY <3>3, <3>4, <3>5, Zenon
  <2>9. ASSUME NEW l \in 1 .. ends[j]
        PROVE  \E i \in 1 .. j : l \in ends[i - 1] + 1 .. ends[i] /\ lists[j][l] = Line(i)
    <3>1. CASE l \in 1 .. ends[d]
      <4>1. PICK i \in 1 .. d : l \in ends[i - 1] + 1 .. ends[i] /\ s[l] = Line(i)
        BY <3>1, <2>6
      <4>2. i \in 1 .. j
        BY <2>1
      <4> QED BY <3>1, <4>1, <4>2, <2>8
    <3>2. CASE l \in ends[d] + 1 .. ends[j]
      <4>1. lists[j][l] = Line(j)
        BY <3>2, <2>7, <2>8
      <4>2. j \in 1 .. j /\ l \in ends[j - 1] + 1 .. ends[j]
        BY <3>2, <2>1
      <4> QED BY <4>1, <4>2
    <3> QED BY <3>1, <3>2, <2>2
  <2> QED BY <2>1, <2>8, <2>9 DEF j, Line
<1>12. m \in R
  <2>1. 0 .. m \subseteq R
    <3> HIDE DEF R
    <3> QED BY <1>1, <1>10, <1>11, InductionUpTo
  <2> QED BY <2>1, <1>1, m \in 0 .. m
<1> QED BY <1>1, <1>7, <1>9, <1>12

(* Every breakpoint lies in a block between corners of the diagram. *)
LEMMA FitHasCorners ==
  ASSUME NEW labels \in Labels(Nat)
  PROVE  LET E == Cumulative(labels.edited)
             N == Cumulative(Weights(labels))
             n == Len(labels.score)
             fit == Fitted(labels)
         IN  \E ends, m :
               /\ AreCorners(E, N, n, ends, m) /\ ends[m] = n
               /\ fit \in Seq(Proper) /\ Len(fit) = n
               /\ \A k \in 1 .. n : \E j \in 1 .. m :
                    k \in ends[j - 1] + 1 .. ends[j] /\ fit[k] = Slope(E, N, ends[j - 1], ends[j])
<1> DEFINE E == Cumulative(labels.edited)
           N == Cumulative(Weights(labels))
           n == Len(labels.score)
           blocks == Blocks(labels)
<1>1. PICK ends : IsStack(E, N, n, blocks, ends, n)
  BY BlocksAreStacked
<1>2. IsDiagram(E, N, n)
  BY LabelsMakeDiagram
<1> HIDE DEF E, N, n, blocks
<1>3. /\ Extended(blocks) \in Seq(Proper) /\ Len(Extended(blocks)) = n
      /\ \A l \in 1 .. n : \E j \in 1 .. Len(blocks) :
           l \in ends[j - 1] + 1 .. ends[j] /\ Extended(blocks)[l] = Slope(E, N, ends[j - 1], ends[j])
  BY <1>1, <1>2, FittedIsOfBlocks
<1>4. AreCorners(E, N, n, ends, Len(blocks)) /\ ends[Len(blocks)] = n
  BY <1>1 DEF IsStack
<1>5. Fitted(labels) = Extended(blocks)
  BY DEF Fitted, blocks
<1> QED BY <1>3, <1>4, <1>5 DEF E, N, n

(* "Pool-Adjacent-Violators isotonic regression": whatever the labels, the  *)
(* list that _isotonic returns is the isotonic fit.                         *)
THEOREM PoolingIsIsotonic ==
  ASSUME NEW labels \in Labels(Nat)
  PROVE  IsIsotonicFit(labels, Fitted(labels))
<1> DEFINE E == Cumulative(labels.edited)
           N == Cumulative(Weights(labels))
           n == Len(labels.score)
           fit == Fitted(labels)
<1>1. PICK ends, m :
        /\ AreCorners(E, N, n, ends, m) /\ ends[m] = n
        /\ fit \in Seq(Proper) /\ Len(fit) = n
        /\ \A k \in 1 .. n : \E j \in 1 .. m :
             k \in ends[j - 1] + 1 .. ends[j] /\ fit[k] = Slope(E, N, ends[j - 1], ends[j])
  BY FitHasCorners
<1>2. \A a, b : Mean(labels, a, b) = Slope(E, N, a - 1, b)
  BY DEF Mean, Slope
<1>3. n \in Nat
  BY LabelsAreTyped
<1> HIDE DEF E, N, n, fit
<1>4. ASSUME NEW k \in 1 .. n
      PROVE  /\ \E a \in 1 .. k : \A b \in k .. n : AtMost(fit[k], Mean(labels, a, b))
             /\ \A a \in 1 .. k : \E b \in k .. n : AtMost(Mean(labels, a, b), fit[k])
  <2>1. PICK j \in 1 .. m :
          k \in ends[j - 1] + 1 .. ends[j] /\ fit[k] = Slope(E, N, ends[j - 1], ends[j])
    BY <1>1
  <2>2. /\ m \in Nat /\ j - 1 \in 0 .. m /\ j \in 0 .. m
        /\ ends[j - 1] \in 0 .. n /\ ends[j] \in 0 .. n
        /\ \A c \in ends[j - 1] .. n : AtMost(fit[k], Slope(E, N, ends[j - 1], c))
        /\ \A c \in 0 .. ends[j] : AtMost(Slope(E, N, c, ends[j]), fit[k])
    <3>1. m \in Nat /\ j - 1 \in 0 .. m /\ j \in 0 .. m
      BY <1>1 DEF AreCorners
    <3> QED BY <3>1, <1>1, <2>1 DEF AreCorners
  <2>3. \E a \in 1 .. k : \A b \in k .. n : AtMost(fit[k], Mean(labels, a, b))
    <3> DEFINE a == ends[j - 1] + 1
    <3>1. a \in 1 .. k /\ a - 1 = ends[j - 1] /\ \A b \in k .. n : b \in ends[j - 1] .. n
      BY <1>3, <2>1, <2>2
    <3> QED BY <3>1, <2>2, <1>2
  <2>4. ASSUME NEW a \in 1 .. k
        PROVE  \E b \in k .. n : AtMost(Mean(labels, a, b), fit[k])
    <3>1. a - 1 \in 0 .. ends[j] /\ ends[j] \in k .. n
      BY <1>3, <2>1, <2>2
    <3> QED BY <3>1, <2>2, <1>2
  <2> QED BY <2>3, <2>4
<1> QED BY <1>1, <1>4 DEF IsIsotonicFit, n, fit

-----------------------------------------------------------------------------
(* Predictions of an isotonic fit                                           *)

(* The fitted values rise with the risk, from 0 to 1. *)
LEMMA FitRises ==
  ASSUME NEW labels \in Labels(Nat)
  PROVE  LET n == Len(labels.score)
             fit == Fitted(labels)
         IN  /\ n \in Nat /\ fit \in Seq(Proper) /\ Len(fit) = n
             /\ \A k \in 1 .. n : AtMost(<<0, 1>>, fit[k]) /\ AtMost(fit[k], <<1, 1>>)
             /\ \A k, l \in 1 .. n : k <= l => AtMost(fit[k], fit[l])
<1> DEFINE E == Cumulative(labels.edited)
           N == Cumulative(Weights(labels))
           n == Len(labels.score)
           fit == Fitted(labels)
<1>1. PICK ends, m :
        /\ AreCorners(E, N, n, ends, m) /\ ends[m] = n
        /\ fit \in Seq(Proper) /\ Len(fit) = n
        /\ \A k \in 1 .. n : \E j \in 1 .. m :
             k \in ends[j - 1] + 1 .. ends[j] /\ fit[k] = Slope(E, N, ends[j - 1], ends[j])
  BY FitHasCorners
<1>2. IsDiagram(E, N, n)
  BY LabelsMakeDiagram
<1> HIDE DEF E, N, n, fit
<1> DEFINE Line(j) == Slope(E, N, ends[j - 1], ends[j])
<1>3. /\ n \in Nat /\ m \in Nat
      /\ \A j \in 0 .. m : ends[j] \in 0 .. n
      /\ \A i, j \in 0 .. m : i < j => ends[i] < ends[j]
      /\ \A i, j \in 1 .. m : i < j => Less(Line(i), Line(j))
  BY <1>1, <1>2 DEF AreCorners, IsDiagram
<1>4. \A j \in 1 .. m : /\ j - 1 \in 0 .. m /\ j \in 0 .. m
                        /\ ends[j - 1] \in 0 .. n /\ ends[j] \in 0 .. n /\ ends[j - 1] < ends[j]
  BY <1>3
<1>5. ASSUME NEW j \in 1 .. m
      PROVE  /\ Line(j) \in Proper /\ Line(j) \in Fraction
             /\ AtMost(<<0, 1>>, Line(j)) /\ AtMost(Line(j), <<1, 1>>)
  <2> DEFINE a == ends[j - 1]  b == ends[j]
  <2>1. a \in 0 .. n /\ b \in 0 .. n /\ b \in a .. n /\ a < b
    BY <1>3, <1>4
  <2>2. /\ E[a] \in Nat /\ E[b] \in Nat /\ N[a] \in Nat /\ N[b] \in Nat
        /\ E[a] <= E[b] /\ E[b] - E[a] <= N[b] - N[a]
    BY <1>2, <2>1 DEF IsDiagram
  <2> HIDE DEF a, b
  <2>3. Slope(E, N, a, b) \in Proper /\ Slope(E, N, a, b) \in Fraction
    BY <1>2, <2>1, SlopesAreFractions
  <2>4. AtMost(<<0, 1>>, Slope(E, N, a, b)) /\ AtMost(Slope(E, N, a, b), <<1, 1>>)
    BY <2>2 DEF Slope, AtMost
  <2> QED BY <2>3, <2>4 DEF a, b
<1>6. \A k \in 1 .. n : AtMost(<<0, 1>>, fit[k]) /\ AtMost(fit[k], <<1, 1>>)
  BY <1>1, <1>5
<1>7. ASSUME NEW k \in 1 .. n, NEW l \in 1 .. n, k <= l
      PROVE  AtMost(fit[k], fit[l])
  <2>1. PICK j \in 1 .. m : k \in ends[j - 1] + 1 .. ends[j] /\ fit[k] = Line(j)
    BY <1>1
  <2>2. PICK i \in 1 .. m : l \in ends[i - 1] + 1 .. ends[i] /\ fit[l] = Line(i)
    BY <1>1
  <2>3. ~ (i < j)
    <3> SUFFICES ASSUME i < j PROVE FALSE
      OBVIOUS
    <3>1. i \in 0 .. m /\ j - 1 \in 0 .. m /\ (i < j - 1 \/ i = j - 1)
      BY <1>3
    <3>2. ends[i] <= ends[j - 1] /\ ends[i] \in 0 .. n /\ ends[j - 1] \in 0 .. n
      BY <3>1, <1>3
    <3> QED BY <3>2, <2>1, <2>2, <1>7
  <2>4. j = i \/ j < i
    BY <2>3, <1>3
  <2> HIDE DEF Line
  <2>5. CASE j = i
    BY <2>1, <2>2, <2>5, <1>5, AtMostIsTotal
  <2>6. CASE j < i
    <3>1. Less(Line(j), Line(i))
      BY <2>6, <1>3
    <3> QED BY <3>1, <2>1, <2>2, <1>5, AtMostIsTotal
  <2> QED BY <2>4, <2>5, <2>6
<1> QED BY <1>1, <1>3, <1>6, <1>7 DEF n, fit

(* The breakpoints rise: labels are kept by rising risk. *)
LEMMA KnotsRise ==
  ASSUME NEW labels \in Labels(Nat)
  PROVE  LET n == Len(labels.score)
             knots == Knots(labels)
         IN  /\ knots \in Seq(Int) /\ Len(knots) = n
             /\ \A k, l \in 1 .. n : k < l => knots[k] < knots[l]
<1> DEFINE n == Len(labels.score)
<1>1. /\ n \in Nat /\ labels.score \in [1 .. n -> Score]
      /\ \A i, j \in 1 .. n : i < j => labels.score[i] > labels.score[j]
  BY LabelsAreTyped
<1> HIDE DEF n
<1>2. Score \subseteq Int /\ Grain \in Int
  BY CalibrationAssumption DEF Score
<1>3. Knots(labels) = [k \in 1 .. n |-> Grain - labels.score[k]]
  BY <1>1 DEF Knots, Risk
<1>4. \A k \in 1 .. n : labels.score[k] \in Int
  BY <1>1, <1>2
<1>5. Knots(labels) \in [1 .. n -> Int]
  BY <1>2, <1>3, <1>4
<1>6. Knots(labels) \in Seq(Int) /\ Len(Knots(labels)) = n
  BY <1>1, <1>5
<1>7. \A k, l \in 1 .. n : k < l => Knots(labels)[k] < Knots(labels)[l]
  BY <1>1, <1>2, <1>3, <1>4
<1> QED BY <1>6, <1>7 DEF n

(* The point at t of the line from y0 at x0 to y1 at x1. *)
Mix(x0, y0, x1, y1, t) ==
  <<y0[1] * y1[2] * (x1 - t) + y1[1] * y0[2] * (t - x0), y0[2] * y1[2] * (x1 - x0)>>

Same(x, y) == AtMost(x, y) /\ AtMost(y, x)

(* It lies between both, starts and ends with them, and does not fall. *)
LEMMA MixRises ==
  ASSUME NEW y0 \in Proper, NEW y1 \in Proper, AtMost(y0, y1),
         NEW x0 \in Int, NEW x1 \in Int, x0 < x1, NEW t \in x0 .. x1
  PROVE  LET Point(u) == Mix(x0, y0, x1, y1, u)
         IN  /\ Point(t) \in Proper
             /\ AtMost(y0, Point(t)) /\ AtMost(Point(t), y1)
             /\ AtMost(Point(x0), y0) /\ AtMost(y1, Point(x1))
             /\ AtMost(Point(t), Point(t + 1))
<1> DEFINE q0 == y0[2]
           q1 == y1[2]
           a == y0[1] * q1
           b == y1[1] * q0
           d == q0 * q1
           w == x1 - x0
<1>1. /\ y0[1] \in Int /\ y1[1] \in Int
      /\ q0 \in Nat \ {0} /\ q1 \in Nat \ {0}
  BY DEF Proper
<1>2. /\ a \in Int /\ b \in Int /\ a <= b
      /\ d \in Nat \ {0} /\ w \in Nat \ {0}
  BY <1>1 DEF AtMost
<1> DEFINE At(u) == a * (x1 - u) + b * (u - x0)
<1>3. \A u \in Int : Mix(x0, y0, x1, y1, u) = <<At(u), d * w>>
  BY DEF Mix
<1>4. d * w \in Nat \ {0}
  BY <1>2
<1>5. /\ At(t) \in Int /\ At(t + 1) \in Int /\ At(t) <= At(t + 1)
      /\ a * w <= At(t) /\ At(t) <= b * w /\ At(x0) = a * w /\ At(x1) = b * w
      /\ a * w \in Int /\ b * w \in Int
  <2> HIDE DEF a, b, d
  <2>1. /\ t \in Int /\ x1 - t \in Nat /\ t - x0 \in Nat /\ (x1 - t) + (t - x0) = w
        /\ t - (x0 - 1) \in Int /\ x1 - (t + 1) = (x1 - t) - 1 /\ (t + 1) - x0 = (t - x0) + 1
    OBVIOUS
  <2>2. /\ a * ((x1 - t) - 1) = a * (x1 - t) - a
        /\ b * ((t - x0) + 1) = b * (t - x0) + b
        /\ a * (x1 - t) \in Int /\ b * (t - x0) \in Int
    BY <1>2, <2>1
  <2>3. At(t) \in Int /\ At(t + 1) \in Int /\ At(t) <= At(t + 1)
    BY <1>2, <2>1, <2>2
  <2>4. /\ a * (t - x0) <= b * (t - x0) /\ a * (x1 - t) <= b * (x1 - t)
    BY <1>2, <2>1, TimesMonotone
  <2>5. /\ a * ((x1 - t) + (t - x0)) = a * (x1 - t) + a * (t - x0)
        /\ b * ((x1 - t) + (t - x0)) = b * (x1 - t) + b * (t - x0)
    BY <1>2, <2>1, Distributive
  <2>6. /\ a * w <= At(t) /\ At(t) <= b * w
    BY <1>2, <2>1, <2>2, <2>4, <2>5
  <2>7. At(x0) = a * w /\ At(x1) = b * w
    BY <1>2
  <2> QED BY <2>3, <2>6, <2>7, <1>2
<1> HIDE DEF At
<1>6. Mix(x0, y0, x1, y1, t) \in Proper
  BY <1>3, <1>4, <1>5 DEF Proper
<1>7. y0[1] * (d * w) = (a * w) * q0 /\ y1[1] * (d * w) = (b * w) * q1
  <2> HIDE DEF w
  <2> QED BY <1>1, <1>2
<1>8. (a * w) * q0 <= At(t) * q0 /\ At(t) * q1 <= (b * w) * q1
  <2> HIDE DEF a, b, w
  <2> QED BY <1>1, <1>5, TimesMonotone
<1>9. At(t) * (d * w) <= At(t + 1) * (d * w)
  <2> HIDE DEF d, w
  <2> QED BY <1>4, <1>5, TimesMonotone
<1>10. AtMost(y0, Mix(x0, y0, x1, y1, t)) /\ AtMost(Mix(x0, y0, x1, y1, t), y1)
  <2> HIDE DEF a, b, d, w
  <2> QED BY <1>3, <1>7, <1>8 DEF AtMost, q0, q1
<1>11. AtMost(Mix(x0, y0, x1, y1, x0), y0) /\ AtMost(y1, Mix(x0, y0, x1, y1, x1))
  <2>1. (a * w) * q0 \in Int /\ (b * w) * q1 \in Int
    BY <1>1, <1>5
  <2> HIDE DEF a, b, d, w
  <2> QED BY <2>1, <1>3, <1>5, <1>7 DEF AtMost, q0, q1
<1>12. AtMost(Mix(x0, y0, x1, y1, t), Mix(x0, y0, x1, y1, t + 1))
  <2> HIDE DEF a, b, d, w
  <2> QED BY <1>3, <1>9 DEF AtMost
<1> QED BY <1>6, <1>10, <1>11, <1>12

LEMMA LeastOfNumbers ==
  ASSUME NEW T, T \subseteq Nat, T # {}
  PROVE  Min(T) \in T /\ \A m \in T : Min(T) <= m
<1>1. \E x \in T : \A y \in T : x <= y
  BY LeastNumber
<1> QED BY <1>1, Zenon DEF Min

(* Between two breakpoints, both included, Interp is on the line. *)
LEMMA InterpIsOnTheLine ==
  ASSUME NEW n \in Nat \ {0}, NEW xs \in Seq(Int), Len(xs) = n,
         \A k, l \in 1 .. n : k < l => xs[k] < xs[l],
         NEW ys \in Seq(Proper), Len(ys) = n,
         \A k, l \in 1 .. n : k <= l => AtMost(ys[k], ys[l]),
         NEW i \in 2 .. n, NEW t \in xs[i - 1] .. xs[i]
  PROVE  /\ Interp(t, xs, ys) \in Proper
         /\ Same(Interp(t, xs, ys), Mix(xs[i - 1], ys[i - 1], xs[i], ys[i], t))
<1> DEFINE P == Interp(t, xs, ys)
           M(k) == Mix(xs[k - 1], ys[k - 1], xs[k], ys[k], t)
<1>1. /\ 1 \in 1 .. n /\ n \in 1 .. n /\ i \in 1 .. n /\ i - 1 \in 1 .. n
      /\ \A k \in 1 .. n : xs[k] \in Int /\ ys[k] \in Proper /\ ys[k] \in Fraction
  <2>1. Proper \subseteq Fraction
    BY DEF Proper, Fraction
  <2>2. \A k \in 1 .. n : xs[k] \in Int /\ ys[k] \in Proper
    OBVIOUS
  <2> QED BY <2>1, <2>2
<1>2. /\ t \in Int /\ xs[i - 1] < xs[i] /\ xs[i - 1] <= t /\ t <= xs[i]
      /\ AtMost(ys[i - 1], ys[i])
  BY <1>1
<1>3. /\ M(i) \in Proper /\ M(i) \in Fraction
      /\ AtMost(ys[i - 1], M(i)) /\ AtMost(M(i), ys[i])
      /\ t = xs[i - 1] => AtMost(M(i), ys[i - 1])
      /\ t = xs[i] => AtMost(ys[i], M(i))
  <2>1. /\ M(i) \in Proper
        /\ AtMost(ys[i - 1], M(i)) /\ AtMost(M(i), ys[i])
        /\ AtMost(Mix(xs[i - 1], ys[i - 1], xs[i], ys[i], xs[i - 1]), ys[i - 1])
        /\ AtMost(ys[i], Mix(xs[i - 1], ys[i - 1], xs[i], ys[i], xs[i]))
    BY <1>1, <1>2, MixRises
  <2>2. M(i) \in Fraction
    BY <2>1 DEF Proper, Fraction
  <2> QED BY <2>1, <2>2
<1>4. CASE t <= xs[1]
  <2>1. P = ys[1]
    BY <1>4 DEF Interp
  <2>2. i - 1 = 1 /\ t = xs[i - 1]
    <3>1. CASE i - 1 = 1
      BY <3>1, <1>2, <1>4
    <3>2. CASE 1 < i - 1
      <4>1. xs[1] < xs[i - 1]
        BY <1>1, <3>2
      <4> QED BY <4>1, <1>1, <1>2, <1>4
    <3> QED BY <3>1, <3>2
  <2> QED BY <2>1, <2>2, <1>1, <1>3 DEF Same
<1>5. CASE ~ (t <= xs[1]) /\ t >= xs[n]
  <2>1. P = ys[n]
    BY <1>5 DEF Interp
  <2>2. i = n /\ t = xs[i]
    <3>1. CASE i = n
      BY <3>1, <1>1, <1>2, <1>5
    <3>2. CASE i < n
      <4>1. xs[i] < xs[n]
        BY <1>1, <3>2
      <4> QED BY <4>1, <1>1, <1>2, <1>5
    <3> QED BY <3>1, <3>2
  <2> QED BY <2>1, <2>2, <1>1, <1>3 DEF Same
<1>6. CASE ~ (t <= xs[1]) /\ ~ (t >= xs[n])
  <2> DEFINE T == {k \in 2 .. n : t <= xs[k]}
             g == Min(T)
  <2>1. P = M(g)
    BY <1>6 DEF Interp, Mix
  <2>2. i \in T /\ T \subseteq Nat
    BY <1>2
  <2>3. g \in T /\ \A k \in T : g <= k
    <3> HIDE DEF T
    <3> QED BY <2>2, LeastOfNumbers
  <2> HIDE DEF g
  <2>4. g \in 2 .. n /\ t <= xs[g] /\ g <= i
    BY <2>2, <2>3
  <2>5. CASE g = i
    BY <2>1, <2>5, <1>3, AtMostIsTotal DEF Same
  <2>6. CASE g < i
    <3>1. g \in 1 .. n /\ g - 1 \in 1 .. n
      BY <2>4
    <3>2. g = i - 1 /\ t = xs[g]
      <4>1. CASE g = i - 1
        BY <4>1, <2>4, <1>1, <1>2
      <4>2. CASE g < i - 1
        <5>1. xs[g] < xs[i - 1]
          BY <3>1, <4>2, <1>1
        <5> QED BY <5>1, <3>1, <2>4, <1>1, <1>2
      <4> QED BY <4>1, <4>2, <2>4, <2>6
    <3>3. xs[g - 1] < xs[g] /\ t \in xs[g - 1] .. xs[g] /\ AtMost(ys[g - 1], ys[g])
      BY <3>1, <3>2, <1>1
    <3>4. M(g) \in Proper /\ M(g) \in Fraction /\ AtMost(M(g), ys[g]) /\ AtMost(ys[g], M(g))
      <4>1. /\ xs[g - 1] \in Int /\ xs[g] \in Int
            /\ ys[g - 1] \in Proper /\ ys[g] \in Proper
        BY <3>1, <1>1
      <4>2. /\ M(g) \in Proper /\ AtMost(M(g), ys[g])
            /\ AtMost(ys[g], Mix(xs[g - 1], ys[g - 1], xs[g], ys[g], xs[g]))
        BY <4>1, <3>3, MixRises
      <4>3. M(g) \in Fraction
        BY <4>2 DEF Proper, Fraction
      <4> QED BY <4>2, <4>3, <3>2
    <3>5. AtMost(M(i), ys[g]) /\ AtMost(ys[g], M(i)) /\ ys[g] \in Proper
      BY <3>1, <3>2, <1>1, <1>3
    <3>6. AtMost(M(g), M(i)) /\ AtMost(M(i), M(g))
      <4> HIDE DEF M
      <4> QED BY <3>4, <3>5, <1>3, AtMostTransitive
    <3> QED BY <3>4, <3>6, <2>1 DEF Same
  <2> QED BY <2>4, <2>5, <2>6
<1> QED BY <1>4, <1>5, <1>6

(* Interpolation stays in the range of the values and does not fall.        *)
LEMMA InterpRises ==
  ASSUME NEW n \in Nat \ {0}, NEW xs \in Seq(Int), Len(xs) = n,
         \A k, l \in 1 .. n : k < l => xs[k] < xs[l],
         NEW ys \in Seq(Proper), Len(ys) = n,
         \A k, l \in 1 .. n : k <= l => AtMost(ys[k], ys[l]),
         NEW t \in Int
  PROVE  /\ Interp(t, xs, ys) \in Proper
         /\ AtMost(ys[1], Interp(t, xs, ys)) /\ AtMost(Interp(t, xs, ys), ys[n])
         /\ AtMost(Interp(t, xs, ys), Interp(t + 1, xs, ys))
<1> DEFINE P(u) == Interp(u, xs, ys)
           M(k, u) == Mix(xs[k - 1], ys[k - 1], xs[k], ys[k], u)
<1>1. /\ 1 \in 1 .. n /\ n \in 1 .. n /\ 1 <= n
      /\ \A k \in 1 .. n : xs[k] \in Int /\ ys[k] \in Proper /\ ys[k] \in Fraction
  <2>1. Proper \subseteq Fraction
    BY DEF Proper, Fraction
  <2>2. \A k \in 1 .. n : xs[k] \in Int /\ ys[k] \in Proper
    OBVIOUS
  <2> QED BY <2>1, <2>2
<1>2. \A k \in 1 .. n : AtMost(ys[1], ys[k]) /\ AtMost(ys[k], ys[n])
  BY <1>1
<1>3. Proper \subseteq Fraction
  BY DEF Proper, Fraction
<1>4. \A u \in Int : u <= xs[1] => P(u) = ys[1]
  BY DEF Interp
<1>5. \A u \in Int : u >= xs[n] => P(u) = ys[n]
  <2> TAKE u \in Int
  <2>1. CASE n = 1
    BY <2>1 DEF Interp
  <2>2. CASE n > 1
    <3>1. xs[1] < xs[n]
      BY <1>1, <2>2
    <3>2. u >= xs[n] => ~ (u <= xs[1])
      BY <3>1, <1>1
    <3> QED BY <3>2 DEF Interp
  <2> QED BY <2>1, <2>2
<1>6. \A k \in 2 .. n : \A u \in xs[k - 1] .. xs[k] :
        /\ P(u) \in Proper /\ Same(P(u), M(k, u))
        /\ M(k, u) \in Proper
        /\ AtMost(ys[k - 1], M(k, u)) /\ AtMost(M(k, u), ys[k])
        /\ AtMost(M(k, u), M(k, u + 1))
  <2> SUFFICES ASSUME NEW k \in 2 .. n, NEW u \in xs[k - 1] .. xs[k]
               PROVE  /\ P(u) \in Proper /\ Same(P(u), M(k, u))
                      /\ M(k, u) \in Proper
                      /\ AtMost(ys[k - 1], M(k, u)) /\ AtMost(M(k, u), ys[k])
                      /\ AtMost(M(k, u), M(k, u + 1))
    OBVIOUS
  <2>1. k \in 1 .. n /\ k - 1 \in 1 .. n /\ k - 1 < k
    OBVIOUS
  <2>2. xs[k - 1] < xs[k] /\ AtMost(ys[k - 1], ys[k])
    BY <2>1
  <2>3. P(u) \in Proper /\ Same(P(u), M(k, u))
    BY InterpIsOnTheLine
  <2>4. /\ M(k, u) \in Proper
        /\ AtMost(ys[k - 1], M(k, u)) /\ AtMost(M(k, u), ys[k])
        /\ AtMost(M(k, u), M(k, u + 1))
    BY <2>1, <2>2, <1>1, MixRises
  <2> QED BY <2>3, <2>4
<1>7. \/ t + 1 <= xs[1]
      \/ t >= xs[n]
      \/ \E i \in 2 .. n : t \in xs[i - 1] .. xs[i] /\ t + 1 \in xs[i - 1] .. xs[i]
  <2> SUFFICES ASSUME ~ (t + 1 <= xs[1]), ~ (t >= xs[n])
               PROVE  \E i \in 2 .. n : t \in xs[i - 1] .. xs[i] /\ t + 1 \in xs[i - 1] .. xs[i]
    OBVIOUS
  <2> DEFINE T == {k \in 1 .. n : t + 1 <= xs[k]}
  <2>1. n \in T /\ T \subseteq Nat
    BY <1>1
  <2>2. PICK i \in T : \A k \in T : i <= k
    <3> HIDE DEF T
    <3> QED BY <2>1, LeastNumber
  <2>3. i \in 2 .. n /\ t + 1 <= xs[i] /\ i - 1 \in 1 .. n /\ i \in 1 .. n
    BY <2>2
  <2>4. ~ (t + 1 <= xs[i - 1])
    BY <2>2, <2>3
  <2>5. xs[i - 1] \in Int /\ xs[i] \in Int
    BY <2>3, <1>1
  <2> QED BY <2>3, <2>4, <2>5
<1> HIDE DEF P, M
<1>8. CASE t + 1 <= xs[1]
  <2>1. P(t) = ys[1] /\ P(t + 1) = ys[1]
    BY <1>1, <1>4, <1>8
  <2> QED BY <2>1, <1>1, <1>2, AtMostIsTotal DEF P
<1>9. CASE t >= xs[n]
  <2>1. P(t) = ys[n] /\ P(t + 1) = ys[n]
    BY <1>1, <1>5, <1>9
  <2> QED BY <2>1, <1>1, <1>2, AtMostIsTotal DEF P
<1>10. CASE \E i \in 2 .. n : t \in xs[i - 1] .. xs[i] /\ t + 1 \in xs[i - 1] .. xs[i]
  <2>1. PICK i \in 2 .. n : t \in xs[i - 1] .. xs[i] /\ t + 1 \in xs[i - 1] .. xs[i]
    BY <1>10
  <2>2. i \in 1 .. n /\ i - 1 \in 1 .. n
    OBVIOUS
  <2>3. /\ P(t) \in Proper /\ P(t + 1) \in Proper
        /\ M(i, t) \in Proper /\ M(i, t + 1) \in Proper
        /\ AtMost(P(t), M(i, t)) /\ AtMost(M(i, t), P(t)) /\ AtMost(M(i, t + 1), P(t + 1))
        /\ AtMost(ys[i - 1], M(i, t)) /\ AtMost(M(i, t), ys[i])
        /\ AtMost(M(i, t), M(i, t + 1))
    BY <1>6, <2>1 DEF Same
  <2>4. /\ ys[1] \in Proper /\ ys[n] \in Proper /\ ys[i] \in Proper /\ ys[i - 1] \in Proper
        /\ AtMost(ys[1], ys[i - 1]) /\ AtMost(ys[i], ys[n])
    BY <1>1, <1>2, <2>2
  <2>5. AtMost(ys[1], P(t))
    <3>1. AtMost(ys[1], M(i, t))
      BY <2>3, <2>4, <1>3, AtMostTransitive
    <3> QED BY <3>1, <2>3, <2>4, <1>3, AtMostTransitive
  <2>6. AtMost(P(t), ys[n])
    <3>1. AtMost(M(i, t), ys[n])
      BY <2>3, <2>4, <1>3, AtMostTransitive
    <3> QED BY <3>1, <2>3, <2>4, <1>3, AtMostTransitive
  <2>7. AtMost(P(t), P(t + 1))
    <3>1. AtMost(P(t), M(i, t + 1))
      BY <2>3, <1>3, AtMostTransitive
    <3> QED BY <3>1, <2>3, <1>3, AtMostTransitive
  <2> QED BY <2>3, <2>5, <2>6, <2>7 DEF P
<1> QED BY <1>7, <1>8, <1>9, <1>10

-----------------------------------------------------------------------------
(* The sign of the logistic slope                                           *)

ByRisk(labels, counts) == [k \in DOMAIN counts |-> Risk(labels.score[k]) * counts[k]]
ByScore(labels, counts) == [k \in DOMAIN counts |-> labels.score[k] * counts[k]]

(* Sums weighted with the risk and with the score make up Grain times the   *)
(* plain sums.                                                              *)
LEMMA RiskAndScore ==
  ASSUME NEW labels \in Labels(Nat), NEW counts \in Seq(Nat), Len(counts) = Len(labels.score)
  PROVE  /\ Total(ByRisk(labels, counts)) = Grain * Total(counts) - Total(ByScore(labels, counts))
         /\ Total(counts) \in Nat /\ Total(ByRisk(labels, counts)) \in Nat
         /\ Total(ByScore(labels, counts)) \in Nat
         /\ ByScore(labels, counts) \in Seq(Nat) /\ Len(ByScore(labels, counts)) = Len(counts)
<1> DEFINE n == Len(counts)
           r == ByRisk(labels, counts)
           s == ByScore(labels, counts)
<1>1. /\ n \in Nat /\ labels.score \in [1 .. n -> Score] /\ DOMAIN counts = 1 .. n
      /\ counts \in [1 .. n -> Nat]
  <2>1. labels.score \in [1 .. Len(labels.score) -> Score]
    BY LabelsAreTyped
  <2> QED BY <2>1
<1>2. \A k \in 1 .. n : /\ labels.score[k] \in 0 .. Grain /\ counts[k] \in Nat
                         /\ Risk(labels.score[k]) = Grain - labels.score[k]
  BY <1>1 DEF Score, Risk
<1>3. /\ r = [k \in 1 .. n |-> Risk(labels.score[k]) * counts[k]]
      /\ s = [k \in 1 .. n |-> labels.score[k] * counts[k]]
  BY <1>1 DEF ByRisk, ByScore
<1>4. \A k \in 1 .. n : /\ r[k] \in Nat /\ s[k] \in Nat
                         /\ r[k] = Grain * counts[k] + (-1) * s[k]
  <2> SUFFICES ASSUME NEW k \in 1 .. n
               PROVE  r[k] \in Nat /\ s[k] \in Nat /\ r[k] = Grain * counts[k] + (-1) * s[k]
    OBVIOUS
  <2> DEFINE c == counts[k]
             x == labels.score[k]
  <2>1. /\ r[k] = (Grain - x) * c /\ s[k] = x * c
        /\ c \in Nat /\ x \in Nat /\ Grain - x \in Nat /\ Grain \in Nat
    BY <1>2, <1>3, CalibrationAssumption
  <2> HIDE DEF c, x
  <2>2. (Grain - x) * c = Grain * c + (-1) * (x * c) /\ (Grain - x) * c \in Nat /\ x * c \in Nat
    BY <2>1
  <2> QED BY <2>1, <2>2 DEF c
<1> HIDE DEF n
<1>5. /\ r \in Seq(Nat) /\ s \in Seq(Nat) /\ Len(r) = n /\ Len(s) = n
  <2>1. r \in [1 .. n -> Nat] /\ s \in [1 .. n -> Nat]
    BY <1>3, <1>4
  <2>2. \A f \in [1 .. n -> Nat] : f \in Seq(Nat) /\ Len(f) = n
    BY <1>1
  <2> HIDE DEF r, s
  <2> QED BY <2>1, <2>2
<1> HIDE DEF r, s
<1>6. /\ r \in Seq(Int) /\ s \in Seq(Int) /\ counts \in Seq(Int) /\ Len(counts) = n
  BY <1>5, Nat \subseteq Int DEF n
<1>7. \A k \in 0 .. n : Cumulative(r)[k] = Grain * Cumulative(counts)[k] + (-1) * Cumulative(s)[k]
  <2> DEFINE minus == -1
  <2>1. IsCombination(r, Grain, counts, minus, s, 1 .. Len(counts))
    BY <1>4, <1>6 DEF IsCombination
  <2>2. Len(s) = Len(counts) /\ Len(r) = Len(counts) /\ Grain \in Int /\ minus \in Int
    BY <1>5, <1>6, CalibrationAssumption
  <2>4. r \in Seq(Int) /\ s \in Seq(Int) /\ counts \in Seq(Int)
    BY <1>6
  <2> HIDE DEF minus
  <2>3. IsCombination(Cumulative(r), Grain, Cumulative(counts), minus, Cumulative(s),
                      0 .. Len(counts))
    BY <2>1, <2>2, <2>4, CumulativeIsLinear
  <2> QED BY <2>3, <1>6 DEF minus, IsCombination
<1>8. Cumulative(r)[n] \in Nat /\ Cumulative(s)[n] \in Nat /\ Cumulative(counts)[n] \in Nat
  <2>1. ASSUME NEW f \in Seq(Nat), Len(f) = n
        PROVE  Cumulative(f)[n] \in Nat
    <3>1. n \in 0 .. Len(f) /\ n <= n
      BY <1>1, <2>1
    <3> QED BY <3>1, CumulativeGrows
  <2> QED BY <2>1, <1>5, <1>6
<1>9. Cumulative(r)[n] = Grain * Cumulative(counts)[n] - Cumulative(s)[n]
  <2>1. n \in 0 .. n
    BY <1>1
  <2> QED BY <2>1, <1>7, <1>8, CalibrationAssumption
<1> QED BY <1>5, <1>6, <1>8, <1>9 DEF Total, r, s

(* The slope is the covariance of risk and edits, up to a positive factor.  *)
LEMMA SlopeIsCovariance ==
  ASSUME NEW G \in Int, NEW e \in Nat, NEW u \in Nat, NEW Se \in Nat, NEW Su \in Nat,
         Se * u <= Su * e
  PROVE  (e + u) * (G * e - Se) - e * (G * (e + u) - (Se + Su)) >= 0
<1>1. (e + u) * (G * e - Se) = (e + u) * (G * e) - (e * Se + Se * u)
  OBVIOUS
<1>2. e * (G * (e + u) - (Se + Su)) = (e + u) * (G * e) - (e * Se + Su * e)
  OBVIOUS
<1>3. (e + u) * (G * e) \in Int /\ e * Se \in Int /\ Se * u \in Int /\ Su * e \in Int
  OBVIOUS
<1> QED BY <1>1, <1>2, <1>3

(* The fit rises with the risk unless edits rise with the score, or less    *)
(* than half was edited at a single score.                                  *)
LEMMA SlopeIsNotNegative ==
  ASSUME NEW labels \in Labels(Nat),
         ~ EditsRiseWithScore(labels),
         ~ (Len(labels.score) = 1 /\ 2 * NumEdited(labels) < NumLabels(labels))
  PROVE  LogisticSlope(labels) \in Nat
<1> DEFINE edited == labels.edited
           untouched == labels.untouched
           weights == Weights(labels)
           n == Len(labels.score)
           e == Total(edited)
           u == Total(untouched)
           Se == Total(ByScore(labels, edited))
           Su == Total(ByScore(labels, untouched))
<1>1. /\ n \in Nat
      /\ edited \in Seq(Nat) /\ Len(edited) = n
      /\ untouched \in Seq(Nat) /\ Len(untouched) = n
      /\ weights \in Seq(Nat) /\ Len(weights) = n
      /\ \A k \in 1 .. n : weights[k] = edited[k] + untouched[k]
      /\ labels.score \in [1 .. n -> Score]
  BY LabelsAreTyped
<1> HIDE DEF edited, untouched, weights, n
<1>2. /\ e \in Nat /\ u \in Nat /\ Se \in Nat /\ Su \in Nat /\ Total(weights) \in Nat
      /\ Total(ByRisk(labels, edited)) = Grain * e - Se
      /\ Total(ByRisk(labels, weights)) = Grain * Total(weights) - Total(ByScore(labels, weights))
      /\ Total(ByRisk(labels, weights)) \in Nat
      /\ ByScore(labels, edited) \in Seq(Nat) /\ Len(ByScore(labels, edited)) = n
      /\ ByScore(labels, untouched) \in Seq(Nat) /\ Len(ByScore(labels, untouched)) = n
      /\ ByScore(labels, weights) \in Seq(Nat) /\ Len(ByScore(labels, weights)) = n
  BY <1>1, RiskAndScore DEF n
<1>3. ASSUME NEW f \in Seq(Nat), NEW g \in Seq(Nat), NEW h \in Seq(Nat),
             Len(f) = n, Len(g) = n, Len(h) = n,
             \A k \in 1 .. n : h[k] = f[k] + g[k]
      PROVE  Total(h) = Total(f) + Total(g)
  <2>1. f \in Seq(Int) /\ g \in Seq(Int) /\ h \in Seq(Int)
    OBVIOUS
  <2>2. IsCombination(h, 1, f, 1, g, 1 .. Len(f))
    <3>1. \A k \in 1 .. n : f[k] \in Nat /\ g[k] \in Nat
      BY <1>3
    <3> QED BY <3>1, <1>3 DEF IsCombination
  <2>3. Len(g) = Len(f) /\ Len(h) = Len(f) /\ Len(f) \in 0 .. Len(f) /\ 1 \in Int
    BY <1>1, <1>3
  <2>4. Cumulative(h)[Len(f)] = 1 * Cumulative(f)[Len(f)] + 1 * Cumulative(g)[Len(f)]
    <3>1. IsCombination(Cumulative(h), 1, Cumulative(f), 1, Cumulative(g), 0 .. Len(f))
      BY <2>1, <2>2, <2>3, CumulativeIsLinear, Zenon
    <3> QED BY <3>1, <2>3, Zenon DEF IsCombination
  <2>5. Cumulative(f)[Len(f)] \in Int /\ Cumulative(g)[Len(f)] \in Int
    BY <2>1, <2>3, CumulativeSteps
  <2> QED BY <2>3, <2>4, <2>5 DEF Total
<1>4. Total(weights) = e + u
  BY <1>1, <1>3
<1>5. Total(ByScore(labels, weights)) = Se + Su
  <2>1. \A k \in 1 .. n :
          ByScore(labels, weights)[k] = ByScore(labels, edited)[k] + ByScore(labels, untouched)[k]
    <3> SUFFICES ASSUME NEW k \in 1 .. n
                 PROVE  ByScore(labels, weights)[k]
                          = ByScore(labels, edited)[k] + ByScore(labels, untouched)[k]
      OBVIOUS
    <3>1. /\ ByScore(labels, weights)[k] = labels.score[k] * weights[k]
          /\ ByScore(labels, edited)[k] = labels.score[k] * edited[k]
          /\ ByScore(labels, untouched)[k] = labels.score[k] * untouched[k]
      BY <1>1 DEF ByScore
    <3>2. weights[k] = edited[k] + untouched[k] /\ edited[k] \in Int /\ untouched[k] \in Int
      BY <1>1
    <3>3. labels.score[k] \in Int
      <4>1. labels.score[k] \in Score
        BY <1>1
      <4> QED BY <4>1, CalibrationAssumption DEF Score
    <3>4. labels.score[k] * (edited[k] + untouched[k])
            = labels.score[k] * edited[k] + labels.score[k] * untouched[k]
      BY <3>2, <3>3, Distributive, Zenon
    <3> QED BY <3>1, <3>2, <3>4, Zenon
  <2> HIDE DEF Se, Su
  <2> QED BY <1>2, <1>3, <2>1 DEF Se, Su
<1>6. Se * u <= Su * e
  <2>1. EditsRiseWithScore(labels) = Less(<<Su, u>>, <<Se, e>>)
    BY DEF EditsRiseWithScore, NumEdited, ByScore, edited, untouched
  <2>2. AtMost(<<Se, e>>, <<Su, u>>)
    BY <2>1 DEF Less
  <2> QED BY <2>2 DEF AtMost
<1>7. LogisticSlope(labels) =
        IF n = 1 THEN Total(ByRisk(labels, weights)) * (2 * e - Total(weights))
        ELSE Total(weights) * Total(ByRisk(labels, edited)) - e * Total(ByRisk(labels, weights))
  BY DEF LogisticSlope, NumLabels, NumEdited, ByRisk, edited, weights, n
<1>8. ~ (n = 1 /\ 2 * e < Total(weights))
  BY DEF NumEdited, NumLabels, n, edited, weights
<1> HIDE DEF e, u, Se, Su
<1>9. CASE n = 1
  <2>1. 2 * e - Total(weights) \in Nat
    BY <1>2, <1>8, <1>9
  <2> QED BY <2>1, <1>2, <1>7, <1>9
<1>10. CASE n # 1
  <2>1. LogisticSlope(labels) = (e + u) * (Grain * e - Se) - e * (Grain * (e + u) - (Se + Su))
    BY <1>2, <1>4, <1>5, <1>7, <1>10
  <2>2. Grain \in Int
    BY CalibrationAssumption
  <2>3. (e + u) * (Grain * e - Se) - e * (Grain * (e + u) - (Se + Su)) >= 0
    BY <1>2, <1>6, <2>2, SlopeIsCovariance
  <2>4. (e + u) * (Grain * e - Se) - e * (Grain * (e + u) - (Se + Su)) \in Int
    BY <1>2, <2>2
  <2> QED BY <2>1, <2>3, <2>4
<1> QED BY <1>9, <1>10

(* "Non-increasing in score" (docstring of predict): whatever the labels,   *)
(* no score has a greater prediction than the one below it, and predictions *)
(* other than the logistic ones, which the sigmoid bounds, are              *)
(* probabilities.  The exceptions are the two that the code has: edits that *)
(* rise with the score, and too few of them at a single score.              *)
THEOREM PredictionsDoNotRise ==
  ASSUME NEW labels \in Labels(Nat)
  PROVE  LET calibration == FitCalibration(labels)
         IN  \/ /\ calibration.method = "logistic"
                /\ \/ EditsRiseWithScore(labels)
                   \/ /\ Len(labels.score) = 1
                      /\ 2 * NumEdited(labels) < NumLabels(labels)
             \/ /\ \A s \in Score \ {Grain} :
                     AtMost(Predict(calibration, s + 1), Predict(calibration, s))
                /\ calibration.method # "logistic" =>
                     \A s \in Score : /\ AtMost(<<0, 1>>, Predict(calibration, s))
                                     /\ AtMost(Predict(calibration, s), <<1, 1>>)
<1> DEFINE calibration == FitCalibration(labels)
           P(s) == Predict(calibration, s)
           Exception == \/ EditsRiseWithScore(labels)
                        \/ Len(labels.score) = 1 /\ 2 * NumEdited(labels) < NumLabels(labels)
           Falls == \A s \in Score \ {Grain} : AtMost(P(s + 1), P(s))
           AreProbabilities == \A s \in Score : AtMost(<<0, 1>>, P(s)) /\ AtMost(P(s), <<1, 1>>)
<1>1. /\ \A s \in Score : Risk(s) \in Int
      /\ \A s \in Score \ {Grain} : Risk(s) = Risk(s + 1) + 1 /\ s + 1 \in Score
  BY CalibrationAssumption DEF Score, Risk
<1>2. CASE calibration = BaseRate(<<0, 1>>) \/ calibration = BaseRate(<<1, 1>>)
  <2>1. PICK rate \in {<<0, 1>>, <<1, 1>>} : calibration = BaseRate(rate)
    BY <1>2
  <2>2. \A s : P(s) = rate
    BY <2>1 DEF Predict, BaseRate
  <2>3. /\ AtMost(rate, rate) /\ AtMost(<<0, 1>>, rate) /\ AtMost(rate, <<1, 1>>)
    BY DEF AtMost
  <2> QED BY <2>2, <2>3
<1>3. CASE calibration = [method |-> "logistic", slope |-> LogisticSlope(labels)] /\ ~ Exception
  <2> DEFINE a == LogisticSlope(labels)
  <2>1. a \in Nat
    BY <1>3, SlopeIsNotNegative
  <2>2. \A s : P(s) = <<a * Risk(s), 1>>
    BY <1>3 DEF Predict
  <2> HIDE DEF a
  <2>3. ASSUME NEW s \in Score \ {Grain}
        PROVE  AtMost(P(s + 1), P(s))
    <3> DEFINE t == Risk(s + 1)
    <3>1. t \in Int /\ Risk(s) = t + 1
      BY <1>1
    <3> HIDE DEF t
    <3>2. a * (t + 1) = a * t + a /\ a * t \in Int
      BY <2>1, <3>1
    <3>3. P(s + 1) = <<a * t, 1>> /\ P(s) = <<a * t + a, 1>>
      BY <2>2, <3>1, <3>2 DEF t
    <3> QED BY <2>1, <3>2, <3>3 DEF AtMost
  <2>4. calibration.method = "logistic"
    BY <1>3
  <2> QED BY <2>3, <2>4
<1>4. CASE /\ calibration = [method |-> "isotonic", knots |-> Knots(labels),
                              fitted |-> Fitted(labels)]
           /\ NumEdited(labels) # 0
  <2> DEFINE n == Len(labels.score)
             xs == Knots(labels)
             ys == Fitted(labels)
  <2>1. n # 0
    <3> SUFFICES ASSUME n = 0 PROVE FALSE
      OBVIOUS
    <3>1. labels.edited \in Seq(Int) /\ Len(labels.edited) = 0
      BY LabelsAreTyped
    <3>2. Cumulative(labels.edited)[0] = 0
      BY <3>1, CumulativeSteps
    <3> QED BY <3>1, <3>2, <1>4 DEF NumEdited, Total
  <2>2. /\ n \in Nat \ {0}
        /\ xs \in Seq(Int) /\ Len(xs) = n
        /\ \A k, l \in 1 .. n : k < l => xs[k] < xs[l]
        /\ ys \in Seq(Proper) /\ Len(ys) = n
        /\ \A k \in 1 .. n : AtMost(<<0, 1>>, ys[k]) /\ AtMost(ys[k], <<1, 1>>)
        /\ \A k, l \in 1 .. n : k <= l => AtMost(ys[k], ys[l])
    BY <2>1, FitRises, KnotsRise
  <2>7. 1 \in 1 .. n /\ n \in 1 .. n
    <3>1. n \in Nat \ {0}
      BY <2>2
    <3> HIDE DEF n
    <3> QED BY <3>1
  <2>3. \A s : P(s) = Interp(Risk(s), xs, ys)
    BY <1>4 DEF Predict
  <2> HIDE DEF n, xs, ys
  <2>4. \A t \in Int : /\ Interp(t, xs, ys) \in Proper
                       /\ AtMost(ys[1], Interp(t, xs, ys)) /\ AtMost(Interp(t, xs, ys), ys[n])
                       /\ AtMost(Interp(t, xs, ys), Interp(t + 1, xs, ys))
    BY <2>2, InterpRises
  <2>5. Falls
    BY <1>1, <2>3, <2>4
  <2>6. AreProbabilities
    <3>1. /\ ys[1] \in Proper /\ ys[n] \in Proper
          /\ AtMost(<<0, 1>>, ys[1]) /\ AtMost(ys[n], <<1, 1>>)
      <4>1. \A i \in 1 .. n : ys[i] \in Proper
        BY <2>2
      <4> QED BY <4>1, <2>2, <2>7, Zenon
    <3>2. <<0, 1>> \in Fraction /\ <<1, 1>> \in Fraction /\ Proper \subseteq Fraction
      BY DEF Fraction, Proper
    <3>3. ASSUME NEW s \in Score
          PROVE  AtMost(<<0, 1>>, P(s)) /\ AtMost(P(s), <<1, 1>>)
      <4>1. P(s) \in Proper /\ AtMost(ys[1], P(s)) /\ AtMost(P(s), ys[n])
        BY <1>1, <2>3, <2>4
      <4> HIDE DEF P
      <4> QED BY <4>1, <3>1, <3>2, AtMostTransitive
    <3> QED BY <3>3
  <2> QED BY <2>5, <2>6
<1>5. \/ calibration = BaseRate(<<0, 1>>) \/ calibration = BaseRate(<<1, 1>>)
      \/ calibration = [method |-> "logistic", slope |-> LogisticSlope(labels)]
      \/ /\ calibration = [method |-> "isotonic", knots |-> Knots(labels),
                           fitted |-> Fitted(labels)]
         /\ NumEdited(labels) # 0
  BY DEF FitCalibration
<1>6. CASE /\ calibration = [method |-> "logistic", slope |-> LogisticSlope(labels)]
           /\ Exception
  BY <1>6
<1> QED BY <1>2, <1>3, <1>4, <1>5, <1>6
=============================================================================
