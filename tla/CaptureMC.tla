----------------------------- MODULE CaptureMC -----------------------------
(* Capture for TLC: the child can fill a pipe and write on behind that,    *)
(* with a last read that just fills the buffer or does not.                *)
EXTENDS Capture

Plain == [enabled |-> TRUE, bench |-> FALSE, expectFail |-> FALSE,
          exitStatus |-> 0, signalNum |-> 0]
SomeDecls == {Plain, [Plain EXCEPT !.bench = TRUE]}
SomeQuota == [p \in Process |->
  [s \in Stream |-> IF p = "kid" THEN 1 ELSE IF s = "out" THEN 1 ELSE 3]]
=============================================================================
