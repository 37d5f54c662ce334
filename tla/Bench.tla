------------------------------- MODULE Bench -------------------------------
(***************************************************************************)
(* How a benchmark is scaled: Job::runBench, _roundUp and _nearestPow10    *)
(* (jobs.cpp).  The benchmark is called for n iterations, n is predicted   *)
(* from what that took, and again, until a call takes long enough or n is  *)
(* large enough.  Iterations are uint32_t, here modulo Width, and every    *)
(* operation that may wrap is taken modulo it.  Time is in nanoseconds.    *)
(***************************************************************************)
EXTENDS Integers

CONSTANTS
  Width,       \* 2^32
  MaxIters,    \* kMmaxBenchIters
  MaxDurs,     \* what -d may be, in nanoseconds
  Durations    \* how long a call of the benchmark may take

NearestPow10[m \in Nat] == IF m < 10 THEN 1 ELSE 10 * NearestPow10[m \div 10]

(* Of the two numbers it matters that kMmaxBenchIters is a power of ten,   *)
(* that the next one does not fit in a uint32_t, and that what is left of  *)
(* it is no less: 10^10 is 1410065408 modulo 2^32.  -d may be anything      *)
(* that is not negative, zero and less than a nanosecond included.         *)
ASSUME BenchAssumption ==
  /\ Width \in Nat /\ MaxIters \in 2 .. Width - 1
  /\ NearestPow10[MaxIters] = MaxIters
  /\ Width <= 10 * MaxIters /\ MaxIters <= (10 * MaxIters) % Width
  /\ MaxDurs \subseteq Nat /\ Durations \subseteq Nat

VARIABLES
  max_dur,  \* for how long to run
  n,        \* iterations to run next
  last_n,   \* iterations of the last call
  dur,      \* what it took
  iters,    \* env_->bench_iters_, 0 after TestEnv::reset
  stored    \* runBench has returned

vars == <<max_dur, n, last_n, dur, iters, stored>>

-----------------------------------------------------------------------------

Wrap(x) == x % Width
Lesser(x, y)  == IF x <= y THEN x ELSE y
Greater(x, y) == IF x >= y THEN x ELSE y

Factors == <<1, 2, 3, 5>>

(* The first of 1, 2, 3 and 5 times the base that is not less than m;      *)
(* past 5 times, ten times the base.                                       *)
Unrounded(m) == m
RoundUp(m) ==
  LET base == NearestPow10[m]
      Fits(f) == m <= Wrap(Factors[f] * base)
  IN  IF \E f \in 1 .. 4 : Fits(f)
        THEN Wrap(Factors[CHOOSE f \in 1 .. 4 : Fits(f) /\ \A g \in 1 .. f - 1 : ~Fits(g)] * base)
        ELSE Wrap(10 * base)

(* How many iterations would take max_dur, if m took t.                     *)
Predict(m, t) ==
  LET ns_op == t \div m
  IN  IF ns_op = 0 THEN MaxIters ELSE Wrap(max_dur \div ns_op)

(* A fifth more than predicted, at most a hundred times as many as the     *)
(* last time, and one more at least.                                       *)
NoFloor(guess, last) == Lesser(Wrap(guess + guess \div 5), Wrap(100 * last))
Clamp(guess, last) ==
  Greater(Lesser(Wrap(guess + guess \div 5), Wrap(100 * last)), Wrap(last + 1))

Init ==
  /\ max_dur \in MaxDurs
  /\ n = 1 /\ last_n = 0 /\ dur = 0
  /\ iters = 0 /\ stored = FALSE

More == n < MaxIters /\ dur < max_dur

Run ==
  /\ ~stored /\ More
  /\ last_n' = n
  /\ \E t \in Durations :
       /\ dur' = t
       /\ n' = RoundUp(Clamp(Predict(n, t), n))
  /\ UNCHANGED <<max_dur, iters, stored>>

StoredNext == n
Stored == last_n

Store ==
  /\ ~stored /\ ~More
  /\ iters' = Stored /\ stored' = TRUE
  /\ UNCHANGED <<max_dur, n, last_n, dur>>

(* The benchmark is over.                                                  *)
Over == stored /\ UNCHANGED vars

Next == Run \/ Store \/ Over

Spec == Init /\ [][Next]_vars

(* Every call of the benchmark returns.                                    *)
FairSpec == Spec /\ WF_vars(Run \/ Store)

-----------------------------------------------------------------------------

(* Types; the calls that run, and the count that is stored, stay below     *)
(* MaxIters, although the counts that are predicted do not.                *)
TypeOK ==
  /\ max_dur \in MaxDurs
  /\ n \in 0 .. Width - 1 /\ last_n \in 0 .. MaxIters - 1
  /\ dur \in Durations \cup {0}
  /\ iters \in 0 .. MaxIters - 1 /\ stored \in BOOLEAN

(* Results::record takes a test with zero iterations for one that is no    *)
(* benchmark.  A benchmark that is over is recorded as one unless -d is 0: *)
(* then it is never called.                                                *)
ZeroIffNoTime == stored => (iters = 0 <=> max_dur = 0)

(* The count grows; a benchmark that has not been called yet will be, if   *)
(* it has any time at all; what is stored is the last count that was run.  *)
BenchInv ==
  /\ TypeOK
  /\ last_n < n
  /\ last_n = 0 => n = 1 /\ dur = 0
  /\ last_n # 0 => max_dur # 0
  /\ iters = IF stored THEN last_n ELSE 0
  /\ stored => ~More
  /\ ZeroIffNoTime

(* Every call runs more iterations than the one before, although the       *)
(* prediction, its fifth, the hundredfold and the rounding may each wrap;  *)
(* in particular n is never zero when ns_op is divided by it.              *)
Grows == [][Run => n > 0 /\ n' > n]_vars

(* The numbers a benchmark may be run for.                                 *)
RoundNumbers == {f * p : f \in {1, 2, 3, 5}, p \in {NearestPow10[m] : m \in 1 .. MaxIters}}

(* The next count is the least such number that is not less than what was  *)
(* predicted, if it is still run (_roundUp).                               *)
LeastRound ==
  [][Run => LET wish == Clamp(Predict(n, dur'), n)
            IN  wish < MaxIters =>
                  /\ n' \in RoundNumbers /\ n' >= wish
                  /\ \A r \in RoundNumbers : r >= wish => n' <= r]_vars

(* However fast and however irregular the benchmark is, the loop ends and  *)
(* runBench returns.                                                       *)
Ends == <>stored
=============================================================================
