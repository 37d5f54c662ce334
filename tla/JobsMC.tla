------------------------------- MODULE JobsMC -------------------------------
(* Jobs and its ports for TLC: the declarations that tell verdicts apart,  *)
(* one for each arm of Result::finalize and Results::record.               *)
EXTENDS Ports

Plain == [enabled |-> TRUE, bench |-> FALSE, expectFail |-> FALSE,
          exitStatus |-> 0, signalNum |-> 0]

(* What the scheduling of tests tells apart.                               *)
Scheduled == {Plain, [Plain EXCEPT !.enabled = FALSE]}

(* A filtered test, a benchmark that is PTFAIL() as well, and PTEXIT(255), *)
(* which a failed assertion exits with too.                                *)
Judged == {[Plain EXCEPT !.enabled = FALSE],
           [Plain EXCEPT !.bench = TRUE, !.expectFail = TRUE],
           [Plain EXCEPT !.exitStatus = 255]}
=============================================================================
