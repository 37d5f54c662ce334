---------------------------- MODULE NatRecursion ----------------------------
(***************************************************************************)
(* Induction over the natural numbers, and the functions that are defined  *)
(* by recursion over them.  The hypotheses are sets and functions instead  *)
(* of operators, so that a prover of first-order logic can use them.       *)
(***************************************************************************)
EXTENDS Integers, WellFoundedInduction, TLAPS

LEMMA LeastElement ==
  ASSUME NEW S, \A m \in S : m \in Nat, S # {}
  PROVE  \E x \in S : \A y \in S : x <= y
<1> DEFINE R == OpToRel(<, Nat)
<1>1. IsWellFoundedOn(R, Nat)
  BY NatLessThanWellFounded
<1>2. \A x, y \in Nat : y < x => <<y, x>> \in R
  BY DEF OpToRel
<1> HIDE DEF R
<1>3. PICK x \in S : \A y \in S : <<y, x>> \notin R
  BY <1>1, WFMin
<1>4. ASSUME NEW y \in S
      PROVE  x <= y
  <2>1. x \in Nat /\ y \in Nat
    OBVIOUS
  <2>2. ~(y < x)
    BY <1>2, <1>3, <2>1, Zenon
  <2>3. QED
    BY <2>1, <2>2
<1>5. QED
  BY <1>4

THEOREM StrongInduction ==
  ASSUME NEW S, \A n \in Nat : (\A m \in 0 .. n - 1 : m \in S) => n \in S
  PROVE  Nat \subseteq S
<1>1. SUFFICES ASSUME Nat \ S # {}
               PROVE  FALSE
  OBVIOUS
<1>2. PICK n \in Nat \ S : \A m \in Nat \ S : n <= m
  BY <1>1, LeastElement
<1>3. \A m \in 0 .. n - 1 : m \in S
  BY <1>2
<1>4. QED
  BY <1>2, <1>3

THEOREM Induction ==
  ASSUME NEW S, 0 \in S, \A n \in Nat : n \in S => n + 1 \in S
  PROVE  Nat \subseteq S
<1>1. \A n \in Nat : (\A m \in 0 .. n - 1 : m \in S) => n \in S
  <2>1. SUFFICES ASSUME NEW n \in Nat, n # 0, \A m \in 0 .. n - 1 : m \in S
                 PROVE  n \in S
    OBVIOUS
  <2>2. n - 1 \in Nat /\ n - 1 \in S /\ (n - 1) + 1 = n
    BY <2>1
  <2>3. QED
    BY <2>2
<1>2. QED
  BY <1>1, StrongInduction

THEOREM BoundedInduction ==
  ASSUME NEW N \in Nat, NEW S, 0 \in S, \A n \in 0 .. N - 1 : n \in S => n + 1 \in S
  PROVE  0 .. N \subseteq S
<1> DEFINE T == {n \in Nat : n <= N => n \in S}
<1>1. 0 \in T /\ \A n \in Nat : n \in T => n + 1 \in T
  OBVIOUS
<1> HIDE DEF T
<1>2. Nat \subseteq T
  BY <1>1, Induction
<1>3. QED
  BY <1>2 DEF T

-----------------------------------------------------------------------------

(* A definition of f[m], for all m in S, with values in D: it stops with   *)
(* base[m], or steps from the value at an earlier argument, pre[m].        *)
WellPosed(S, D, Stop, base, pre, step) ==
  /\ \A m \in S : m \in Nat
  /\ base \in [S -> D] /\ step \in [S -> [D -> D]]
  /\ \A m \in S \ Stop : pre[m] \in S /\ pre[m] < m

Below(S, n) == {m \in S : m < n}

Solves(f, S, Stop, base, pre, step) ==
  \A m \in S : f[m] = IF m \in Stop THEN base[m] ELSE step[m][f[pre[m]]]

(* Two solutions agree where both are defined.                             *)
LEMMA SolutionsAgree ==
  ASSUME NEW S, NEW D, NEW Stop, NEW base, NEW pre, NEW step,
         WellPosed(S, D, Stop, base, pre, step),
         NEW f, NEW g, NEW n \in Nat, NEW k \in Nat,
         Solves(f, Below(S, n), Stop, base, pre, step),
         Solves(g, Below(S, k), Stop, base, pre, step)
  PROVE  \A m \in S : m < n /\ m < k => f[m] = g[m]
<1> USE DEF WellPosed, Below
<1> DEFINE T == {m \in Nat : m \in S /\ m < n /\ m < k => f[m] = g[m]}
<1>1. ASSUME NEW m \in Nat, \A l \in 0 .. m - 1 : l \in T
      PROVE  m \in T
  <2>1. SUFFICES ASSUME m \in S, m < n, m < k
                 PROVE  f[m] = g[m]
    OBVIOUS
  <2>2. CASE m \in Stop
    BY <2>1, <2>2 DEF Solves
  <2>3. CASE m \notin Stop
    <3>1. pre[m] \in S /\ pre[m] \in 0 .. m - 1
      <4>1. pre[m] \in S /\ pre[m] < m
        BY <2>1, <2>3
      <4>2. QED
        BY <4>1
    <3>2. f[pre[m]] = g[pre[m]]
      BY <1>1, <2>1, <3>1
    <3>3. QED
      BY <2>1, <2>3, <3>2 DEF Solves
  <2>4. QED
    BY <2>2, <2>3
<1> HIDE DEF T
<1>2. Nat \subseteq T
  BY <1>1, StrongInduction
<1>3. QED
  BY <1>2 DEF T

(* Below every bound there is a solution.                                  *)
LEMMA SolutionBelow ==
  ASSUME NEW S, NEW D, NEW Stop, NEW base, NEW pre, NEW step,
         WellPosed(S, D, Stop, base, pre, step), NEW N \in Nat
  PROVE  \E g \in [Below(S, N) -> D] : Solves(g, Below(S, N), Stop, base, pre, step)
<1> USE DEF WellPosed, Below
<1> DEFINE T == {n \in Nat : \E g \in [Below(S, n) -> D] :
                               Solves(g, Below(S, n), Stop, base, pre, step)}
<1>1. 0 \in T
  <2>1. Below(S, 0) = {}
    OBVIOUS
  <2>2. [m \in Below(S, 0) |-> 0] \in [Below(S, 0) -> D]
    BY <2>1
  <2>3. Solves([m \in Below(S, 0) |-> 0], Below(S, 0), Stop, base, pre, step)
    BY <2>1 DEF Solves
  <2>4. QED
    BY <2>2, <2>3
<1>2. ASSUME NEW n \in Nat, n \in T
      PROVE  n + 1 \in T
  <2>1. PICK g \in [Below(S, n) -> D] : Solves(g, Below(S, n), Stop, base, pre, step)
    BY <1>2
  <2>2. CASE n \notin S
    <3>1. Below(S, n + 1) = Below(S, n)
      BY <2>2
    <3> HIDE DEF Below
    <3>2. QED
      BY <2>1, <3>1
  <2>3. CASE n \in S
    <3> DEFINE v == IF n \in Stop THEN base[n] ELSE step[n][g[pre[n]]]
               h == [m \in Below(S, n + 1) |-> IF m = n THEN v ELSE g[m]]
    <3>1. n \notin Stop => pre[n] \in Below(S, n)
      BY <2>3
    <3>2. v \in D
      BY <2>1, <2>3, <3>1
    <3>3. Below(S, n + 1) = Below(S, n) \cup {n} /\ n \notin Below(S, n)
      <4>1. \A m \in S : m < n + 1 <=> m < n \/ m = n
        OBVIOUS
      <4>2. ~(n < n)
        OBVIOUS
      <4>3. QED
        BY <2>3, <4>1, <4>2, Zenon
    <3> HIDE DEF v
    <3>4. h \in [Below(S, n + 1) -> D]
      BY <2>1, <3>2, <3>3
    <3>5. h[n] = v /\ \A m \in Below(S, n) : h[m] = g[m]
      BY <3>3
    <3>6. \A m \in Below(S, n) \ Stop : pre[m] \in Below(S, n)
      BY <1>2
    <3> HIDE DEF h
    <3>7. \A m \in Below(S, n) :
            h[m] = IF m \in Stop THEN base[m] ELSE step[m][h[pre[m]]]
      BY <2>1, <3>5, <3>6 DEF Solves
    <3>8. h[n] = IF n \in Stop THEN base[n] ELSE step[n][h[pre[n]]]
      BY <3>1, <3>5 DEF v
    <3>9. Solves(h, Below(S, n + 1), Stop, base, pre, step)
      BY <3>3, <3>7, <3>8 DEF Solves
    <3> HIDE DEF Below
    <3>10. QED
      BY <3>4, <3>9
  <2>4. QED
    BY <2>2, <2>3
<1> HIDE DEF T
<1>3. Nat \subseteq T
  BY <1>1, <1>2, Induction
<1>4. QED
  BY <1>3 DEF T

(* A recursive definition over natural numbers has a solution.             *)
THEOREM Recursion ==
  ASSUME NEW S, NEW D, NEW Stop, NEW base, NEW pre, NEW step,
         WellPosed(S, D, Stop, base, pre, step)
  PROVE  \E f \in [S -> D] : Solves(f, S, Stop, base, pre, step)
<1> DEFINE Good(g, n) == /\ g \in [Below(S, n) -> D]
                         /\ Solves(g, Below(S, n), Stop, base, pre, step)
           G(n) == CHOOSE g : Good(g, n)
           f == [m \in S |-> G(m + 1)[m]]
<1>1. \A n \in Nat : Good(G(n), n)
  <2>1. ASSUME NEW n \in Nat
        PROVE  \E g : Good(g, n)
    <3>1. PICK g \in [Below(S, n) -> D] : Solves(g, Below(S, n), Stop, base, pre, step)
      BY SolutionBelow
    <3>2. QED
      BY <3>1
  <2> HIDE DEF Good
  <2>2. QED
    BY <2>1
<1> HIDE DEF G
<1>2. ASSUME NEW m \in S
      PROVE  /\ f[m] \in D
             /\ f[m] = IF m \in Stop THEN base[m] ELSE step[m][f[pre[m]]]
  <2>1. m \in Nat /\ m + 1 \in Nat /\ m \in Below(S, m + 1)
    BY DEF WellPosed, Below
  <2>2. Good(G(m + 1), m + 1)
    BY <1>1, <2>1
  <2>3. f[m] = G(m + 1)[m]
    OBVIOUS
  <2>4. f[m] \in D
    BY <2>1, <2>2, <2>3
  <2>5. CASE m \in Stop
    BY <2>1, <2>2, <2>3, <2>4, <2>5 DEF Solves
  <2>6. CASE m \notin Stop
    <3> DEFINE l == pre[m]
    <3>1. l \in S /\ l \in Nat /\ l < m /\ l + 1 \in Nat
      BY <2>6 DEF WellPosed
    <3>2. Good(G(l + 1), l + 1)
      BY <1>1, <3>1
    <3>3. G(l + 1)[l] = G(m + 1)[l]
      <4>1. /\ Solves(G(l + 1), Below(S, l + 1), Stop, base, pre, step)
            /\ Solves(G(m + 1), Below(S, m + 1), Stop, base, pre, step)
        BY <2>2, <3>2
      <4>2. \A o \in S : o < l + 1 /\ o < m + 1 => G(l + 1)[o] = G(m + 1)[o]
        BY <2>1, <3>1, <4>1, SolutionsAgree
      <4>3. l < l + 1 /\ l < m + 1
        BY <2>1, <3>1
      <4>4. QED
        BY <3>1, <4>2, <4>3
    <3>4. f[l] = G(l + 1)[l]
      BY <3>1
    <3>5. G(m + 1)[m] = step[m][G(m + 1)[l]]
      BY <2>1, <2>2, <2>6 DEF Solves
    <3>6. QED
      BY <2>3, <2>4, <2>6, <3>3, <3>4, <3>5
  <2>7. QED
    BY <2>5, <2>6
<1>3. f \in [S -> D] /\ Solves(f, S, Stop, base, pre, step)
  BY <1>2 DEF Solves
<1>4. QED
  BY <1>3

(* The same from 0 to N, one after the other.                              *)
Steps(N, D, step) == step \in [1 .. N -> [D -> D]]
Follows(f, N, D, first, step) ==
  f \in [0 .. N -> D] /\ f[0] = first /\ \A q \in 1 .. N : f[q] = step[q][f[q - 1]]

THEOREM Iteration ==
  ASSUME NEW N \in Nat, NEW D, NEW first \in D, NEW step, Steps(N, D, step)
  PROVE  \E f : Follows(f, N, D, first, step)
<1> USE DEF Steps
<1> DEFINE S == 0 .. N
           base == [q \in S |-> first]
           pre == [q \in S |-> q - 1]
           all == [q \in S |-> IF q = 0 THEN [v \in D |-> v] ELSE step[q]]
<1>1. \A q \in S : q \in Nat /\ (q # 0 => q \in 1 .. N /\ q - 1 \in S /\ q - 1 < q)
  OBVIOUS
<1>2. 0 \in S /\ \A q \in 1 .. N : q \in S /\ q # 0
  OBVIOUS
<1> HIDE DEF S
<1>3. WellPosed(S, D, {0}, base, pre, all)
  <2>1. base \in [S -> D]
    OBVIOUS
  <2>2. all \in [S -> [D -> D]]
    <3>1. [v \in D |-> v] \in [D -> D]
      OBVIOUS
    <3>2. \A q \in S : q # 0 => step[q] \in [D -> D]
      BY <1>1
    <3>3. QED
      BY <3>1, <3>2
  <2>3. \A q \in S \ {0} : pre[q] \in S /\ pre[q] < q
    BY <1>1
  <2> HIDE DEF base, pre, all
  <2>4. QED
    BY <1>1, <2>1, <2>2, <2>3 DEF WellPosed
<1>4. PICK f \in [S -> D] : Solves(f, S, {0}, base, pre, all)
  <2> HIDE DEF base, pre, all
  <2>1. QED
    BY <1>3, Recursion
<1>5. \A q \in S : f[q] = IF q \in {0} THEN base[q] ELSE all[q][f[pre[q]]]
  BY <1>4 DEF Solves
<1>6. f[0] = first
  BY <1>2, <1>5
<1>7. \A q \in 1 .. N : f[q] = step[q][f[q - 1]]
  BY <1>1, <1>2, <1>5
<1>8. QED
  BY <1>6, <1>7 DEF S, Follows

THEOREM Along ==
  ASSUME NEW N \in Nat, NEW D, NEW h, h[0] \in D,
         \A q \in 1 .. N : h[q - 1] \in D => h[q] \in D
  PROVE  \A q \in 0 .. N : h[q] \in D
<1> DEFINE T == {q \in 0 .. N : h[q] \in D}
<1>1. 0 \in T
  OBVIOUS
<1>2. ASSUME NEW q \in 0 .. N - 1, q \in T
      PROVE  q + 1 \in T
  <2>1. q + 1 \in 1 .. N /\ q + 1 \in 0 .. N /\ (q + 1) - 1 = q
    OBVIOUS
  <2>2. QED
    BY <1>2, <2>1
<1> HIDE DEF T
<1>3. 0 .. N \subseteq T
  BY <1>1, <1>2, BoundedInduction
<1>4. QED
  BY <1>3 DEF T
=============================================================================
