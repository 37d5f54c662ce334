---------------------------- MODULE Bench_proofs ----------------------------
(***************************************************************************)
(* Proofs about the scaling of benchmarks, for any durations of the calls  *)
(* and any -d, zero included.                                              *)
(***************************************************************************)
EXTENDS Bench, NatRecursion

(* The loop of _nearestPow10 ends, for it divides; so its recursion defines*)
(* a function.                                                             *)
LEMMA NearestPow10Def ==
  /\ NearestPow10 \in [Nat -> Nat]
  /\ \A m \in Nat : NearestPow10[m] = IF m < 10 THEN 1 ELSE 10 * NearestPow10[m \div 10]
<1> DEFINE Def(f) == [m \in Nat |-> IF m < 10 THEN 1 ELSE 10 * f[m \div 10]]
           Stop == 0 .. 9
           one == [m \in Nat |-> 1]
           tenth == [m \in Nat |-> m \div 10]
           tenfold == [m \in Nat |-> [v \in Nat |-> 10 * v]]
<1>1. \A m \in Nat : m \div 10 \in Nat /\ (m >= 10 => m \div 10 < m)
  OBVIOUS
<1>2. WellPosed(Nat, Nat, Stop, one, tenth, tenfold)
  BY <1>1 DEF WellPosed
<1>3. PICK f \in [Nat -> Nat] : Solves(f, Nat, Stop, one, tenth, tenfold)
  BY <1>2, Recursion
<1>4. ASSUME NEW m \in Nat
      PROVE  f[m] = IF m < 10 THEN 1 ELSE 10 * f[m \div 10]
  <2>1. f[m] = IF m \in Stop THEN one[m] ELSE tenfold[m][f[tenth[m]]]
    BY <1>3 DEF Solves
  <2>2. f[m \div 10] \in Nat
    BY <1>1
  <2>3. QED
    BY <2>1, <2>2
<1>5. f = Def(f)
  BY <1>4
<1>6. NearestPow10 = CHOOSE g : g = Def(g)
  BY DEF NearestPow10
<1> HIDE DEF Def
<1>7. NearestPow10 = Def(NearestPow10)
  BY <1>5, <1>6
<1> DEFINE T == {m \in Nat : NearestPow10[m] \in Nat}
<1>8. \A m \in Nat : NearestPow10[m] = IF m < 10 THEN 1 ELSE 10 * NearestPow10[m \div 10]
  BY <1>7 DEF Def
<1>9. ASSUME NEW m \in Nat, \A l \in 0 .. m - 1 : l \in T
      PROVE  m \in T
  <2>1. CASE m < 10
    BY <1>8, <2>1
  <2>2. CASE ~(m < 10)
    <3>1. m \div 10 \in 0 .. m - 1
      BY <2>2
    <3>2. NearestPow10[m \div 10] \in Nat
      BY <1>9, <3>1
    <3>3. QED
      BY <1>8, <2>2, <3>2
  <2>3. QED
    BY <2>1, <2>2
<1> HIDE DEF T
<1>10. Nat \subseteq T
  BY <1>9, StrongInduction
<1>11. \A m \in Nat : NearestPow10[m] \in Nat
  BY <1>10 DEF T
<1>12. NearestPow10 = [m \in Nat |-> NearestPow10[m]]
  BY <1>7 DEF Def
<1>13. QED
  BY <1>8, <1>11, <1>12

(* The power is at most its argument, which has no digit more.             *)
LEMMA PowerBelow ==
  ASSUME NEW m \in Nat \ {0}
  PROVE  NearestPow10[m] \in Nat \ {0} /\ NearestPow10[m] <= m /\ m < 10 * NearestPow10[m]
<1> DEFINE P(l) == NearestPow10[l]
           T == {l \in Nat : l # 0 => P(l) \in Nat \ {0} /\ P(l) <= l /\ l < 10 * P(l)}
<1>1. ASSUME NEW x \in Nat, \A l \in 0 .. x - 1 : l \in T
      PROVE  x \in T
  <2>1. CASE x < 10
    BY <2>1, NearestPow10Def
  <2>2. CASE ~(x < 10)
    <3> DEFINE l == x \div 10
    <3>1. l \in 0 .. x - 1 /\ l # 0 /\ l \in Nat
      BY <2>2
    <3>2. 10 * l <= x /\ x < 10 * l + 10
      OBVIOUS
    <3> HIDE DEF l
    <3>3. P(l) \in Nat \ {0} /\ P(l) <= l /\ l < 10 * P(l)
      BY <1>1, <3>1
    <3>4. P(x) = 10 * P(l)
      BY <2>2, NearestPow10Def DEF l
    <3> HIDE DEF P
    <3>5. P(x) \in Nat \ {0} /\ P(x) <= x /\ x < 10 * P(x)
      BY <3>1, <3>2, <3>3, <3>4
    <3>6. QED
      BY <3>5 DEF P
  <2>3. QED
    BY <2>1, <2>2
<1> HIDE DEF T
<1>2. Nat \subseteq T
  BY <1>1, StrongInduction
<1>3. QED
  BY <1>2 DEF T

(* Between a power of ten and the next there is none.                      *)
LEMMA PowersApart ==
  ASSUME NEW m \in Nat, NEW l \in Nat, NearestPow10[l] < NearestPow10[m]
  PROVE  10 * NearestPow10[l] <= NearestPow10[m]
<1> DEFINE P(x) == NearestPow10[x]
           T == {x \in Nat : \A y \in Nat : P(x) < P(y) => 10 * P(x) <= P(y)}
<1>1. ASSUME NEW x \in Nat, \A z \in 0 .. x - 1 : z \in T
      PROVE  x \in T
  <2>1. SUFFICES ASSUME NEW y \in Nat, P(x) < P(y)
                 PROVE  10 * P(x) <= P(y)
    OBVIOUS
  <2>2. P(x) \in Nat /\ P(y) \in Nat
    BY NearestPow10Def
  <2>3. \A z \in Nat : z < 10 => P(z) = 1
    BY NearestPow10Def
  <2>4. \A z \in Nat : z >= 10 => P(z) = 10 * P(z \div 10) /\ z \div 10 \in Nat \ {0}
    BY NearestPow10Def
  <2>5. \A z \in Nat \ {0} : P(z) \in Nat \ {0}
    BY PowerBelow
  <2>6. P(x) >= 1
    <3>1. CASE x < 10
      BY <2>3, <3>1
    <3>2. CASE ~(x < 10)
      BY <2>5, <3>2
    <3>3. QED
      BY <3>1, <3>2
  <2> HIDE DEF P
  <2>7. ~(y < 10)
    BY <2>1, <2>2, <2>3, <2>6
  <2>8. P(y) = 10 * P(y \div 10) /\ y \div 10 \in Nat \ {0} /\ P(y \div 10) \in Nat \ {0}
    BY <2>4, <2>5, <2>7
  <2>9. CASE x < 10
    BY <2>3, <2>8, <2>9
  <2>10. CASE ~(x < 10)
    <3>1. P(x) = 10 * P(x \div 10) /\ x \div 10 \in 0 .. x - 1 /\ P(x \div 10) \in Nat \ {0}
      BY <2>4, <2>5, <2>10
    <3>2. P(x \div 10) < P(y \div 10)
      BY <2>1, <2>8, <3>1
    <3>3. 10 * P(x \div 10) <= P(y \div 10)
      BY <1>1, <2>8, <3>1, <3>2
    <3>4. QED
      BY <2>8, <3>1, <3>3
  <2>11. QED
    BY <2>9, <2>10
<1> HIDE DEF T
<1>2. Nat \subseteq T
  BY <1>1, StrongInduction
<1>3. QED
  BY <1>2 DEF T

LEMMA PowerOfPower ==
  ASSUME NEW m \in Nat \ {0}
  PROVE  NearestPow10[NearestPow10[m]] = NearestPow10[m]
<1> DEFINE p == NearestPow10[m]
           q == NearestPow10[p]
<1>1. p \in Nat \ {0}
  BY PowerBelow
<1>2. q \in Nat \ {0} /\ q <= p /\ p < 10 * q
  BY <1>1, PowerBelow
<1>3. q < p => 10 * q <= p
  BY <1>1, PowersApart
<1> HIDE DEF p, q
<1>4. q = p
  BY <1>1, <1>2, <1>3
<1>5. QED
  BY <1>4 DEF p, q

(* What the assumption says of the numbers in the code.                    *)
LEMMA LimitsOfTheCode ==
  /\ 2 <= 1000000000 /\ 1000000000 <= 4294967296 - 1
  /\ NearestPow10[1000000000] = 1000000000
  /\ 4294967296 <= 10 * 1000000000 /\ 1000000000 <= (10 * 1000000000) % 4294967296
<1> DEFINE P(m) == NearestPow10[m]
<1>1. \A m \in Nat : m >= 10 => P(m) = 10 * P(m \div 10)
  BY NearestPow10Def, SMT
<1>2. P(1) = 1
  BY NearestPow10Def, SMT
<1> HIDE DEF P
<1>3. P(10) = 10 /\ P(100) = 10 * P(10) /\ P(1000) = 10 * P(100)
  BY <1>1, <1>2, SMT
<1>4. P(10000) = 10 * P(1000) /\ P(100000) = 10 * P(10000) /\ P(1000000) = 10 * P(100000)
  BY <1>1, SMT
<1>5. /\ P(10000000) = 10 * P(1000000) /\ P(100000000) = 10 * P(10000000)
      /\ P(1000000000) = 10 * P(100000000)
  BY <1>1, SMT
<1>6. P(1000000000) = 1000000000
  BY <1>3, <1>4, <1>5, SMT
<1>7. /\ 2 <= 1000000000 /\ 1000000000 <= 4294967296 - 1
      /\ 4294967296 <= 10 * 1000000000 /\ (10 * 1000000000) % 4294967296 = 1410065408
  BY SMT
<1>8. QED
  BY <1>6, <1>7, SMT DEF P

-----------------------------------------------------------------------------

(* _roundUp: the least of the factors that fits, or ten times the base.    *)
LEMMA RoundUpCases ==
  ASSUME NEW m \in Nat, NEW b \in Nat, b = NearestPow10[m]
  PROVE  \/ RoundUp(m) = Wrap(b)     /\ m <= Wrap(b)
         \/ RoundUp(m) = Wrap(2 * b) /\ m <= Wrap(2 * b) /\ ~(m <= Wrap(b))
         \/ RoundUp(m) = Wrap(3 * b) /\ m <= Wrap(3 * b) /\ ~(m <= Wrap(2 * b))
         \/ RoundUp(m) = Wrap(5 * b) /\ m <= Wrap(5 * b) /\ ~(m <= Wrap(3 * b))
         \/ RoundUp(m) = Wrap(10 * b) /\ ~(m <= Wrap(5 * b))
<1> DEFINE W(f) == Wrap(Factors[f] * b)
           Fits(f) == m <= W(f)
           IsFirst(f) == Fits(f) /\ \A g \in 1 .. f - 1 : ~Fits(g)
           First == CHOOSE f \in 1 .. 4 : IsFirst(f)
<1>1. RoundUp(m) = IF \E f \in 1 .. 4 : Fits(f) THEN W(First) ELSE Wrap(10 * b)
  BY DEF RoundUp
<1>2. Factors[1] = 1 /\ Factors[2] = 2 /\ Factors[3] = 3 /\ Factors[4] = 5
  BY DEF Factors
<1>3. W(1) = Wrap(b) /\ W(2) = Wrap(2 * b) /\ W(3) = Wrap(3 * b) /\ W(4) = Wrap(5 * b)
  BY <1>2
<1>4. \A f, g \in 1 .. 4 : IsFirst(f) /\ IsFirst(g) => f = g
  <2> HIDE DEF Fits
  <2>1. QED
    OBVIOUS
<1> HIDE DEF W
<1>5. \A f \in 1 .. 4 : IsFirst(f) => First = f
  <2> HIDE DEF IsFirst
  <2>1. QED
    BY <1>4
<1>6. /\ Fits(1) => IsFirst(1)
      /\ ~Fits(1) /\ Fits(2) => IsFirst(2)
      /\ ~Fits(1) /\ ~Fits(2) /\ Fits(3) => IsFirst(3)
      /\ ~Fits(1) /\ ~Fits(2) /\ ~Fits(3) /\ Fits(4) => IsFirst(4)
  <2>1. 1 .. 0 = {} /\ 1 .. 1 = {1} /\ 1 .. 2 = {1, 2} /\ 1 .. 3 = {1, 2, 3}
    OBVIOUS
  <2> HIDE DEF Fits
  <2>2. QED
    BY <2>1
<1>7. 1 .. 4 = {1, 2, 3, 4}
  OBVIOUS
<1> HIDE DEF First, IsFirst
<1>8. /\ Fits(1) => First = 1
      /\ ~Fits(1) /\ Fits(2) => First = 2
      /\ ~Fits(1) /\ ~Fits(2) /\ Fits(3) => First = 3
      /\ ~Fits(1) /\ ~Fits(2) /\ ~Fits(3) /\ Fits(4) => First = 4
  BY <1>5, <1>6, <1>7
<1>9. (\E f \in 1 .. 4 : Fits(f)) <=> Fits(1) \/ Fits(2) \/ Fits(3) \/ Fits(4)
  <2> HIDE DEF Fits
  <2>1. QED
    BY <1>7
<1>10. QED
  BY <1>1, <1>3, <1>8, <1>9, Zenon

(* Below the limit nothing wraps, and _roundUp finds the least round       *)
(* number that is not less.                                                *)
LEMMA RoundUpLeast ==
  ASSUME NEW m \in 1 .. MaxIters - 1
  PROVE  /\ RoundUp(m) \in RoundNumbers /\ RoundUp(m) \in 0 .. Width - 1 /\ RoundUp(m) >= m
         /\ \A r \in RoundNumbers : r >= m => RoundUp(m) <= r
<1> DEFINE b == NearestPow10[m]
           v == RoundUp(m)
<1>1. m \in Nat \ {0} /\ MaxIters \in Nat \ {0} /\ m < MaxIters /\ m \in 1 .. MaxIters
  BY BenchAssumption
<1>2. b \in Nat \ {0} /\ b <= m /\ m < 10 * b
  BY <1>1, PowerBelow
<1>3. 10 * b <= MaxIters
  <2>1. b < NearestPow10[MaxIters]
    BY <1>1, <1>2, BenchAssumption
  <2>2. 10 * b <= NearestPow10[MaxIters]
    BY <1>1, <2>1, PowersApart
  <2>3. QED
    BY <2>2, BenchAssumption
<1>4. NearestPow10[10 * b] = 10 * b
  <2>1. NearestPow10[b] = b
    BY <1>1, PowerOfPower
  <2> HIDE DEF b
  <2>2. 10 * b \in Nat /\ 10 * b >= 10 /\ (10 * b) \div 10 = b
    BY <1>2
  <2>3. NearestPow10[10 * b] = 10 * NearestPow10[(10 * b) \div 10]
    BY <2>2, NearestPow10Def
  <2>4. QED
    BY <2>1, <2>2, <2>3
<1>5. \A l \in 1 .. MaxIters :
        /\ NearestPow10[l] \in Nat
        /\ NearestPow10[l] < b => 10 * NearestPow10[l] <= b
        /\ b < NearestPow10[l] => 10 * b <= NearestPow10[l]
  BY <1>1, PowersApart, NearestPow10Def
<1>6. RoundUp(m) = v /\ b = NearestPow10[m]
  OBVIOUS
<1> HIDE DEF b, v
<1>7. MaxIters < Width /\ Width \in Nat
  BY BenchAssumption
<1>8. Wrap(b) = b /\ Wrap(2 * b) = 2 * b /\ Wrap(3 * b) = 3 * b /\ Wrap(5 * b) = 5 * b
      /\ Wrap(10 * b) = 10 * b
  <2>1. \A x \in 0 .. Width - 1 : x % Width = x
    BY <1>7
  <2>2. b \in 0 .. Width - 1 /\ 2 * b \in 0 .. Width - 1 /\ 3 * b \in 0 .. Width - 1
        /\ 5 * b \in 0 .. Width - 1 /\ 10 * b \in 0 .. Width - 1
    BY <1>1, <1>2, <1>3, <1>7
  <2>3. QED
    BY <2>1, <2>2 DEF Wrap
<1>9. \/ v = b     /\ m <= b
      \/ v = 2 * b /\ m <= 2 * b /\ ~(m <= b)
      \/ v = 3 * b /\ m <= 3 * b /\ ~(m <= 2 * b)
      \/ v = 5 * b /\ m <= 5 * b /\ ~(m <= 3 * b)
      \/ v = 10 * b /\ ~(m <= 5 * b)
  BY <1>1, <1>2, <1>6, <1>8, RoundUpCases
<1>10. v \in RoundNumbers
  <2> DEFINE Powers == {NearestPow10[l] : l \in 1 .. MaxIters}
  <2>1. b \in Powers
    BY <1>1, <1>6
  <2>2. 10 * b \in Powers
    <3>1. 10 * b \in 1 .. MaxIters
      BY <1>1, <1>2, <1>3
    <3>2. QED
      BY <1>4, <3>1
  <2>3. RoundNumbers = {f * p : f \in {1, 2, 3, 5}, p \in Powers}
    BY DEF RoundNumbers
  <2> HIDE DEF Powers
  <2>4. 1 * b \in RoundNumbers /\ 2 * b \in RoundNumbers /\ 3 * b \in RoundNumbers
        /\ 5 * b \in RoundNumbers /\ 1 * (10 * b) \in RoundNumbers
    BY <2>1, <2>2, <2>3
  <2>5. 1 * b = b /\ 1 * (10 * b) = 10 * b
    BY <1>2
  <2>6. QED
    BY <1>9, <2>4, <2>5
<1>11. v \in Nat /\ v >= m /\ v <= 10 * b
  BY <1>1, <1>2, <1>9
<1>12. ASSUME NEW r \in RoundNumbers, r >= m
       PROVE  v <= r
  <2>1. PICK f \in {1, 2, 3, 5}, l \in 1 .. MaxIters : r = f * NearestPow10[l]
    BY DEF RoundNumbers
  <2> DEFINE q == NearestPow10[l]
  <2>2. q \in Nat /\ (q < b => 10 * q <= b) /\ (b < q => 10 * b <= q) /\ r = f * q
    BY <1>5, <2>1
  <2> HIDE DEF q
  <2>3. r = q \/ r = 2 * q \/ r = 3 * q \/ r = 5 * q
    BY <2>2
  <2>4. CASE q < b
    BY <1>2, <1>12, <2>2, <2>3, <2>4
  <2>5. CASE q = b
    BY <1>1, <1>2, <1>9, <1>12, <2>3, <2>5
  <2>6. CASE b < q
    BY <1>2, <1>11, <2>2, <2>3, <2>6
  <2>7. QED
    BY <1>2, <2>2, <2>4, <2>5, <2>6
<1>13. v \in 0 .. Width - 1
  BY <1>1, <1>2, <1>3, <1>7, <1>11
<1>14. QED
  BY <1>6, <1>10, <1>11, <1>12, <1>13

(* Past the limit the rounding may wrap; what is left is still no less     *)
(* than the limit or than m.                                               *)
LEMMA RoundUpGrows ==
  ASSUME NEW last \in 0 .. MaxIters - 1, NEW m \in 1 .. Width - 1, last < m
  PROVE  RoundUp(m) \in 0 .. Width - 1 /\ last < RoundUp(m)
<1>1. m \in Nat \ {0} /\ MaxIters \in Nat \ {0} /\ Width \in Nat \ {0} /\ last \in Nat /\ last < MaxIters
  BY BenchAssumption
<1>2. CASE m < MaxIters
  <2>1. m \in 1 .. MaxIters - 1
    BY <1>1, <1>2
  <2>2. RoundUp(m) \in 0 .. Width - 1 /\ RoundUp(m) >= m
    BY <2>1, RoundUpLeast
  <2>3. QED
    BY <1>1, <2>2
<1>3. CASE ~(m < MaxIters)
  <2> DEFINE b == NearestPow10[m]
             v == RoundUp(m)
  <2>1. b \in Nat \ {0} /\ b <= m /\ m < 10 * b
    BY <1>1, PowerBelow
  <2>2. b < MaxIters => 10 * b <= MaxIters
    BY <1>1, PowersApart, BenchAssumption
  <2>3. MaxIters < b => 10 * MaxIters <= b
    BY <1>1, PowersApart, BenchAssumption
  <2>4. b = NearestPow10[m]
    OBVIOUS
  <2> HIDE DEF b
  <2>5. b = MaxIters
    BY <1>1, <1>3, <2>1, <2>2, <2>3, BenchAssumption
  <2>6. \A x \in Nat : Wrap(x) \in 0 .. Width - 1
    BY <1>1 DEF Wrap
  <2>7. /\ Wrap(b) \in 0 .. Width - 1 /\ Wrap(2 * b) \in 0 .. Width - 1
        /\ Wrap(3 * b) \in 0 .. Width - 1 /\ Wrap(5 * b) \in 0 .. Width - 1
        /\ Wrap(10 * b) \in 0 .. Width - 1
    <3>1. 2 * b \in Nat /\ 3 * b \in Nat /\ 5 * b \in Nat /\ 10 * b \in Nat /\ b \in Nat
      BY <2>1
    <3>2. QED
      BY <2>6, <3>1
  <2>8. MaxIters <= Wrap(10 * b)
    BY <2>5, BenchAssumption DEF Wrap
  <2>9. v \in 0 .. Width - 1 /\ (m <= v \/ MaxIters <= v)
    <3> HIDE DEF v
    <3>1. \/ v = Wrap(b)     /\ m <= Wrap(b)
          \/ v = Wrap(2 * b) /\ m <= Wrap(2 * b)
          \/ v = Wrap(3 * b) /\ m <= Wrap(3 * b)
          \/ v = Wrap(5 * b) /\ m <= Wrap(5 * b)
          \/ v = Wrap(10 * b)
      BY <1>1, <2>1, <2>4, RoundUpCases DEF v
    <3>2. QED
      BY <2>7, <2>8, <3>1
  <2>10. QED
    BY <1>1, <2>9
<1>4. QED
  BY <1>2, <1>3

LEMMA PredictIsCount ==
  ASSUME NEW m \in Nat \ {0}, NEW t \in Nat, max_dur \in Nat
  PROVE  Predict(m, t) \in Nat
<1>1. t \div m \in Nat
  OBVIOUS
<1>2. \A o \in Nat \ {0} : max_dur \div o \in Nat
  OBVIOUS
<1>3. \A x \in Nat : Wrap(x) \in Nat
  BY BenchAssumption DEF Wrap
<1>4. CASE t \div m = 0
  BY <1>4, BenchAssumption DEF Predict
<1>5. CASE t \div m # 0
  BY <1>1, <1>2, <1>3, <1>5 DEF Predict
<1>6. QED
  BY <1>4, <1>5

(* Whatever wraps before it, the floor is one more than the last count.    *)
LEMMA ClampGrows ==
  ASSUME NEW guess \in Nat, NEW last \in 0 .. MaxIters - 1
  PROVE  Clamp(guess, last) \in 1 .. Width - 1 /\ last < Clamp(guess, last)
<1> DEFINE x == Wrap(guess + guess \div 5)
           y == Wrap(100 * last)
           z == Wrap(last + 1)
<1>1. \A o \in Nat : Wrap(o) \in 0 .. Width - 1
  BY BenchAssumption DEF Wrap
<1>2. guess + guess \div 5 \in Nat /\ 100 * last \in Nat
  BY BenchAssumption
<1>3. x \in 0 .. Width - 1 /\ y \in 0 .. Width - 1
  BY <1>1, <1>2
<1>4. z = last + 1 /\ last + 1 \in 1 .. Width - 1 /\ last \in Nat
  BY BenchAssumption DEF Wrap
<1>5. Clamp(guess, last) = Greater(Lesser(x, y), z)
  BY DEF Clamp
<1> HIDE DEF x, y, z
<1>6. Lesser(x, y) \in 0 .. Width - 1
  BY <1>3 DEF Lesser
<1>7. QED
  BY <1>4, <1>5, <1>6 DEF Greater

-----------------------------------------------------------------------------

LEMMA BenchInvInit == Init => BenchInv
<1>1. MaxIters \in Nat /\ Width \in Nat /\ 2 <= MaxIters /\ MaxIters < Width
  BY BenchAssumption
<1>2. Init => TypeOK
  <2>1. Init => n \in 0 .. Width - 1 /\ last_n \in 0 .. MaxIters - 1 /\ iters \in 0 .. MaxIters - 1
    BY <1>1 DEF Init
  <2>2. Init => max_dur \in MaxDurs /\ dur \in Durations \cup {0} /\ stored \in BOOLEAN
    BY Zenon DEF Init
  <2>3. QED
    BY <2>1, <2>2 DEF TypeOK
<1>3. QED
  BY <1>2 DEF Init, BenchInv, ZeroIffNoTime

(* What a call and the prediction after it do to the count.                *)
LEMMA RunGrows ==
  ASSUME BenchInv, Run
  PROVE  /\ n \in 1 .. MaxIters - 1 /\ last_n' = n /\ dur' \in Durations
         /\ n' = RoundUp(Clamp(Predict(n, dur'), n))
         /\ Clamp(Predict(n, dur'), n) \in 1 .. Width - 1
         /\ n' \in 0 .. Width - 1 /\ n < n'
<1>1. n \in 1 .. MaxIters - 1
  BY BenchAssumption DEF BenchInv, TypeOK, Run, More
<1>2. last_n' = n /\ dur' \in Durations /\ n' = RoundUp(Clamp(Predict(n, dur'), n))
  BY DEF Run
<1>3. Predict(n, dur') \in Nat
  <2>1. n \in Nat \ {0} /\ dur' \in Nat /\ max_dur \in Nat
    BY <1>1, <1>2, BenchAssumption DEF BenchInv, TypeOK
  <2>2. QED
    BY <2>1, PredictIsCount
<1>4. n \in 0 .. MaxIters - 1
  BY <1>1, BenchAssumption
<1> DEFINE wish == Clamp(Predict(n, dur'), n)
<1>5. wish \in 1 .. Width - 1 /\ n < wish
  BY <1>3, <1>4, ClampGrows
<1>6. n' = RoundUp(wish)
  BY <1>2
<1> HIDE DEF wish
<1>7. RoundUp(wish) \in 0 .. Width - 1 /\ n < RoundUp(wish)
  BY <1>4, <1>5, RoundUpGrows
<1>8. QED
  BY <1>1, <1>2, <1>5, <1>6, <1>7 DEF wish

LEMMA BenchInvStep == BenchInv /\ [Next]_vars => BenchInv'
<1> SUFFICES ASSUME BenchInv, [Next]_vars
             PROVE  BenchInv'
  OBVIOUS
<1>1. /\ MaxIters \in Nat /\ Width \in Nat /\ 2 <= MaxIters
      /\ MaxDurs \subseteq Nat /\ Durations \subseteq Nat
  BY BenchAssumption
<1>2. CASE Run
  <2>1. /\ n \in 1 .. MaxIters - 1 /\ last_n' = n /\ dur' \in Durations
        /\ n' \in 0 .. Width - 1 /\ n < n'
    BY <1>2, RunGrows
  <2>2. max_dur' = max_dur /\ iters' = iters /\ stored' = stored /\ ~stored
    BY <1>2 DEF Run
  <2>3. max_dur # 0
    BY <1>1, <1>2 DEF Run, More, BenchInv, TypeOK
  <2>4. TypeOK'
    BY <1>1, <2>1, <2>2 DEF BenchInv, TypeOK
  <2>5. last_n' # 0 /\ last_n' < n'
    BY <2>1
  <2>6. QED
    BY <2>2, <2>3, <2>4, <2>5 DEF BenchInv, ZeroIffNoTime
<1>3. CASE Store
  <2>1. /\ iters' = last_n /\ stored' = TRUE /\ ~More
        /\ max_dur' = max_dur /\ n' = n /\ last_n' = last_n /\ dur' = dur
    BY <1>3 DEF Store, Stored
  <2>2. last_n = 0 <=> max_dur = 0
    <3>1. CASE last_n = 0
      BY <1>1, <2>1, <3>1 DEF BenchInv, TypeOK, More
    <3>2. CASE last_n # 0
      BY <3>2 DEF BenchInv
    <3>3. QED
      BY <3>1, <3>2
  <2>3. TypeOK'
    BY <2>1 DEF BenchInv, TypeOK
  <2>4. ~More'
    BY <2>1 DEF More
  <2>5. QED
    BY <2>1, <2>2, <2>3, <2>4 DEF BenchInv, ZeroIffNoTime
<1>4. CASE Over \/ UNCHANGED vars
  BY <1>4 DEF BenchInv, TypeOK, ZeroIffNoTime, More, Over, vars
<1>5. QED
  BY <1>2, <1>3, <1>4 DEF Next

(* The inductive invariant of the scaling: the count grows from call to    *)
(* call, and what is stored is the last count that was run.                *)
THEOREM BenchInvariance == Spec => []BenchInv
  BY BenchInvInit, BenchInvStep, PTL DEF Spec

(* The calls that run, and the count that is stored, are below             *)
(* kMmaxBenchIters.                                                        *)
THEOREM BenchTypeCorrect == Spec => []TypeOK
<1>1. BenchInv => TypeOK
  BY DEF BenchInv
<1>2. QED
  BY <1>1, BenchInvariance, PTL

(* Every call runs more iterations than the one before, for any -d and any *)
(* durations.                                                              *)
THEOREM CountsGrow == Spec => Grows
<1>1. BenchInv /\ [Next]_vars => [Run => n > 0 /\ n' > n]_vars
  <2>1. BenchInv /\ Run => n > 0 /\ n' > n
    <3>1. SUFFICES ASSUME BenchInv, Run
                   PROVE  n > 0 /\ n' > n
      OBVIOUS
    <3>2. n \in 1 .. MaxIters - 1 /\ n' \in 0 .. Width - 1 /\ n < n'
      BY <3>1, RunGrows
    <3>3. QED
      BY <3>2, BenchAssumption
  <2>2. QED
    BY <2>1
<1>2. QED
  BY <1>1, BenchInvariance, PTL DEF Spec, Grows

(* What is run next is the least round number that is not less than the    *)
(* prediction.                                                             *)
THEOREM NextIsLeastRound == Spec => LeastRound
<1> DEFINE Wish == Clamp(Predict(n, dur'), n)
           Least == Wish < MaxIters =>
                      /\ n' \in RoundNumbers /\ n' >= Wish
                      /\ \A r \in RoundNumbers : r >= Wish => n' <= r
<1>1. BenchInv /\ [Next]_vars => [Run => Least]_vars
  <2>1. SUFFICES ASSUME BenchInv, Run, Wish < MaxIters
                 PROVE  Least
    OBVIOUS
  <2>2. n' = RoundUp(Wish) /\ Wish \in 1 .. Width - 1
    BY <2>1, RunGrows
  <2> HIDE DEF Wish
  <2>3. Wish \in 1 .. MaxIters - 1
    BY <2>1, <2>2, BenchAssumption
  <2>4. QED
    BY <2>2, <2>3, RoundUpLeast
<1>2. LeastRound <=> [][Run => Least]_vars
  BY DEF LeastRound
<1> HIDE DEF Least
<1>3. QED
  BY <1>1, <1>2, BenchInvariance, PTL DEF Spec

(* A benchmark that is over has stored zero iterations, for which          *)
(* Results::record takes it for a plain test, exactly if -d is 0.          *)
THEOREM StoresACount == Spec => []ZeroIffNoTime
<1>1. BenchInv => ZeroIffNoTime
  BY DEF BenchInv
<1>2. QED
  BY <1>1, BenchInvariance, PTL
=============================================================================
