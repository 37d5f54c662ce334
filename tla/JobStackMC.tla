----------------------------- MODULE JobStackMC -----------------------------
(* JobStack for TLC: a plain test, a filtered one, a benchmark, PTFAIL(),  *)
(* and PTEXIT(255), which only a process of its own could satisfy.         *)
EXTENDS JobStack

Plain == [enabled |-> TRUE, bench |-> FALSE, expectFail |-> FALSE,
          exitStatus |-> 0, signalNum |-> 0]

Declared == {Plain,
             [Plain EXCEPT !.enabled = FALSE],
             [Plain EXCEPT !.bench = TRUE],
             [Plain EXCEPT !.expectFail = TRUE],
             [Plain EXCEPT !.exitStatus = 255]}
=============================================================================
