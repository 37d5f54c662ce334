----------------------------- MODULE SignalsMC -----------------------------
(* Signals for TLC.                                                        *)
EXTENDS Signals

(* Tests that start: who is disabled makes no difference to an interrupt.  *)
Enabled == {[enabled |-> TRUE, bench |-> FALSE, expectFail |-> FALSE,
             exitStatus |-> 0, signalNum |-> 0]}

(* What a test leaves in its memory makes none either.                     *)
QuietTests == env' = env
=============================================================================
