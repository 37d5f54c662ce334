------------------------------ MODULE TestRun ------------------------------
(***************************************************************************)
(* What a run of paratec promises, however it runs its tests: they start   *)
(* in the order of the shuffled vector, at most NJobs at a time; disabled  *)
(* tests never start; each one gets one verdict, for good; and the program *)
(* exits 0 exactly when no verdict is bad, once every test has one.        *)
(***************************************************************************)
EXTENDS Results

CONSTANTS
  NTests,   \* how many tests there are, a number
  NJobs,    \* how many may run at a time, one at least
  Decls     \* the declarations they may have, from Decl

VARIABLES
  decls,    \* the declaration of each test
  state,    \* "waiting", "running", or its verdict
  exit      \* what the program exits with, -1 before it does

vars == <<decls, state, exit>>

Tests == 1 .. NTests
Running == {t \in Tests : state[t] = "running"}

Init ==
  /\ decls \in [Tests -> Decls]
  /\ state = [t \in Tests |-> "waiting"]
  /\ exit = -1

(* The verdicts a test that ran may get: only a benchmark counts as one.   *)
Ends(d) == (BadVerdicts \cup {"skipped", "pass"}) \cup IF d.bench THEN {"bench"} ELSE {}

IsNext(t) == state[t] = "waiting" /\ \A u \in 1 .. t - 1 : state[u] # "waiting"

Disable(t) ==
  /\ IsNext(t) /\ ~decls[t].enabled
  /\ state' = [state EXCEPT ![t] = "disabled"]
  /\ UNCHANGED <<decls, exit>>

Start(t) ==
  /\ IsNext(t) /\ decls[t].enabled
  /\ Cardinality(Running) < NJobs
  /\ state' = [state EXCEPT ![t] = "running"]
  /\ UNCHANGED <<decls, exit>>

Judged(t, v) ==
  /\ state[t] = "running" /\ v \in Ends(decls[t])
  /\ state' = [state EXCEPT ![t] = v]
  /\ UNCHANGED <<decls, exit>>

Leave ==
  /\ exit = -1
  /\ \A t \in Tests : state[t] \in Verdicts
  /\ exit' = IF \E t \in Tests : state[t] \in BadVerdicts THEN 1 ELSE 0
  /\ UNCHANGED <<decls, state>>

Next ==
  \/ \E t \in Tests : Disable(t) \/ Start(t) \/ \E v \in Verdicts : Judged(t, v)
  \/ Leave

(* The run goes on until the program exits.                                *)
Spec == Init /\ [][Next]_vars /\ WF_vars(Next)
=============================================================================
