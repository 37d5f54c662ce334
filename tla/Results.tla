------------------------------ MODULE Results ------------------------------
(***************************************************************************)
(* How paratec judges one finished test and tallies all of them:           *)
(* Result::finalize, Results::inc, Results::record, Results::done and      *)
(* Results::exitCode (results.cpp, results.hpp).  The module is stateless: *)
(* the runners keep the counters and pass them through these operators.    *)
(*                                                                         *)
(* Names, messages, durations and captured output decide no verdict and    *)
(* are left out.  bench_iters_ is kept as "is it zero".                    *)
(***************************************************************************)
EXTENDS Integers, FiniteSets

CONSTANTS
  ExitCodes,   \* the exit statuses a test process may end with
  Signals      \* the signals a test process may die of

SIGABRT == 6
SIGKILL == 9
SIGTERM == 15

(* 0 is a passing exit, 255 the exit of a failed assertion.                *)
ASSUME ResultsAssumption ==
  /\ ExitCodes \subseteq Nat /\ {0, 255} \subseteq ExitCodes
  /\ Signals \subseteq Nat \ {0} /\ {SIGABRT, SIGKILL, SIGTERM} \subseteq Signals

(* struct _paratec and Test::enabled_: what a declaration says of a test.  *)
(* With -d 0 a benchmark makes no iteration and counts as a plain test     *)
(* (Bench): to the runners it is a declaration without bench.              *)
Decl == [enabled    : BOOLEAN,
         bench      : BOOLEAN,
         expectFail : BOOLEAN,
         exitStatus : ExitCodes,
         signalNum  : Signals \cup {0}]

(* struct TestEnv: what a test process leaves in the memory it shares.     *)
TestEnv == [failed : BOOLEAN, skipped : BOOLEAN, benched : BOOLEAN]

(* TestEnv::reset.                                                         *)
ResetEnv == [failed |-> FALSE, skipped |-> FALSE, benched |-> FALSE]

(* class Result, before finalize(): how the runner saw the process end.    *)
Result == [timedout : BOOLEAN, exitStatus : ExitCodes, signalNum : Signals \cup {0}]

(* Result::reset.                                                          *)
ResetResult == [timedout |-> FALSE, exitStatus |-> 0, signalNum |-> 0]

(* The summary characters ".", "S", "B", "E", "F", "T", and none at all.   *)
BadVerdicts == {"error", "failed", "timedout"}
Verdicts == BadVerdicts \cup {"disabled", "skipped", "bench", "pass"}

-----------------------------------------------------------------------------

(* The last two arms of finalize(): the signal is compared when there is   *)
(* one or one is expected, otherwise the exit status.                      *)
Mismatch(d, r) ==
  IF r.signalNum # 0 \/ d.signalNum # 0
    THEN r.signalNum # d.signalNum
    ELSE r.exitStatus # d.exitStatus

FinalizeByStatus(d, e, r) ==
  LET judged == ~e.skipped /\ ~r.timedout
  IN  [skipped  |-> e.skipped,
       timedout |-> r.timedout,
       failed   |-> FALSE,
       error    |-> judged /\ Mismatch(d, r)]

(* Result::finalize: the arms of its if-chain exclude each other.          *)
Finalize(d, e, r) ==
  LET judged == ~e.skipped /\ ~r.timedout
  IN  [skipped  |-> e.skipped,
       timedout |-> r.timedout,
       failed   |-> judged /\ e.failed /\ ~d.expectFail,
       error    |-> judged /\ ~e.failed /\ Mismatch(d, r)]

(* The if-chain of Results::record over the finalized result f.            *)
Verdict(d, e, f) ==
  CASE ~d.enabled -> "disabled"
    [] d.enabled /\ f.skipped -> "skipped"
    [] d.enabled /\ f.error -> "error"
    [] d.enabled /\ f.failed -> "failed"
    [] d.enabled /\ ~f.skipped /\ f.timedout -> "timedout"
    [] d.enabled /\ ~(f.skipped \/ f.error \/ f.failed \/ f.timedout) ->
         IF e.benched THEN "bench" ELSE "pass"

Judge(d, e, r) == Verdict(d, e, Finalize(d, e, r))

-----------------------------------------------------------------------------

(* The counters of class Results.                                          *)
Counters == [enabled : Nat, skipped : Nat, passes : Nat, errors : Nat,
             failures : Nat, benches : Nat, finished : Nat, total : Nat]

(* Results::inc called for every test of the vector (Main::run).           *)
Counted(n, enabled) ==
  [enabled |-> enabled, skipped |-> 0, passes |-> 0, errors |-> 0,
   failures |-> 0, benches |-> 0, finished |-> 0, total |-> n]

One(b) == IF b THEN 1 ELSE 0

(* record() takes skipped tests and benchmarks out of enabled_.            *)
UncountedMissesSkip == {"bench"}
UncountedTakesDisabled == {"skipped", "bench", "disabled"}
Uncounted == {"skipped", "bench"}

(* Results::record, the tallying.                                          *)
Tally(c, v) ==
  [c EXCEPT !.finished = @ + 1,
            !.enabled  = @ - One(v \in Uncounted),
            !.skipped  = @ + One(v = "skipped"),
            !.passes   = @ + One(v = "pass"),
            !.errors   = @ + One(v = "error"),
            !.failures = @ + One(v \in {"failed", "timedout"}),
            !.benches  = @ + One(v = "bench")]

Done(c) == c.finished = c.total

ExitAllTests(c) == IF c.passes = c.total THEN 0 ELSE 1
ExitCode(c) == IF c.passes = c.enabled THEN 0 ELSE 1
=============================================================================
