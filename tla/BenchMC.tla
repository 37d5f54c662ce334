------------------------------ MODULE BenchMC ------------------------------
(* Bench for TLC: -d at nothing, at half a second and at 9 seconds; calls  *)
(* that take no time, that are fast, that take almost as long as they may, *)
(* and longer.                                                             *)
EXTENDS Bench

SomeMaxDurs == {0, 500, 9000}

SomeDurations ==
  (0 .. 20) \cup {50 * m : m \in 1 .. 40}
    \cup UNION {m - 5 .. m + 5 : m \in SomeMaxDurs \ {0}}
    \cup {3 * m : m \in SomeMaxDurs}
=============================================================================
