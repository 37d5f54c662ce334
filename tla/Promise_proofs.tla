--------------------------- MODULE Promise_proofs ---------------------------
(***************************************************************************)
(* Jobs implements the safety part of TestRun: every step of the runner is *)
(* a step of TestRun or leaves State, the declarations and the exit code   *)
(* alone.  Starting a test, recording it and leaving main() are the steps  *)
(* one sees.                                                               *)
(*                                                                         *)
(* The ports of tests that run at the same time differ as long as the      *)
(* slots and the indices fit in the width.                                 *)
(***************************************************************************)
EXTENDS Ports, Jobs_proofs

(* What the memory of a slot says of benchmarks is true of its test.       *)
BenchMarked ==
  \A j \in Job : test[j] # None /\ env[j].benched => tests[test[j]].bench

LEMMA BenchStep ==
  ASSUME IInv, BenchMarked, [Next]_vars
  PROVE  BenchMarked'
<1> USE DEF IInv, BenchMarked
<1>1. ASSUME NEW t \in Test, Child(t) PROVE BenchMarked'
  <2>1. UNCHANGED <<tests, test>>
    BY <1>1, ChildFrame DEF parentVars
  <2>2. CASE UNCHANGED env
    BY <2>1, <2>2
  <2>3. CASE StrayFail(t)
    BY <2>1, <2>3 DEF StrayFail, TypeOK, TestEnv
  <2>4. CASE Complete(t) \/ Fail(t) \/ Skip(t)
    <3>1. home[t] \in Job /\ test[home[t]] = t
      BY <2>4 DEF Complete, Fail, Skip, Leave, Slots, Processes, Unreaped, Alive, None, Test
    <3>2. tests[t].bench \in BOOLEAN /\ env[home[t]] \in TestEnv
      BY <3>1, JobsAssumption DEF TypeOK, Decl
    <3>3. /\ \A j \in Job : j # home[t] => env'[j] = env[j]
          /\ env'[home[t]].benched => env[home[t]].benched \/ tests[t].bench
      BY <2>4, <3>1, <3>2 DEF Complete, Fail, Skip, Leave, TypeOK, TestEnv
    <3>4. QED
      BY <2>1, <3>1, <3>3
  <2>5. QED
    BY <1>1, <2>2, <2>3, <2>4 DEF Child, SetGroup, DieEarly, TakeLock, Exit, End, LoseBin,
                                  ExitItself, Crash, Spawn, StrayEnd
<1>2. CASE Prep \/ RunDisabled
  BY <1>2 DEF Prep, RunDisabled, ClearEnv, ResetEnv, TypeOK, Control, Unvisited, None
<1>3. CASE ForkChild \/ Move \/ TermKill
  BY <1>3 DEF ForkChild, TermKill, Move, Exhausted, AwaitGroup, Finish, ChildWait, DrainNone,
              SweepIdle, SweepInTime, SweepLate
<1>4. ASSUME NEW j \in Job, NEW r, Cleanup(j, r), UNCHANGED <<tests, env>>
      PROVE  BenchMarked'
  BY <1>4 DEF Cleanup, Vacate, TypeOK
<1>5. CASE \E t \in Test : DrainReap(t)
  BY <1>5, <1>4 DEF DrainReap, Processes, Unreaped
<1>6. CASE TermReap
  BY <1>6, <1>4 DEF TermReap, TypeOK
<1>7. CASE (\E j \in Job : Expire(j)) \/ UNCHANGED vars
  BY <1>7 DEF Expire, vars, parentVars
<1>8. QED
  BY <1>1, <1>2, <1>3, <1>5, <1>6, <1>7 DEF Next, Parent, Move, Over

-----------------------------------------------------------------------------
(* State, test by test.                                                    *)

LEMMA StateIs ==
  ASSUME NEW t \in Test
  PROVE  /\ verdict[t] # "none" => State[t] = verdict[t]
         /\ verdict[t] = "none" /\ t <= testI => State[t] = "running"
         /\ verdict[t] = "none" /\ ~(t <= testI) => State[t] = "waiting"
BY DEF State

(* A step that changes the verdict of one test changes its state.          *)
LEMMA StateUpdate ==
  ASSUME NEW t \in Test, NEW v, v # "none", verdict'[t] = v,
         \A u \in Test : u # t => verdict'[u] = verdict[u] /\ (u <= testI' <=> u <= testI)
  PROVE  State' = [State EXCEPT ![t] = v]
<1>1. \A u \in Test : State'[u] = IF u = t THEN v ELSE State[u]
  BY DEF State
<1>2. State = [u \in Test |-> State[u]] /\ State' = [u \in Test |-> State'[u]]
  BY DEF State
<1>3. QED
  BY <1>1, <1>2

(* The next test of the vector is the first that waits.                    *)
LEMMA NextInLine ==
  ASSUME IInv, NEW t \in Test, t = testI + 1
  PROVE  /\ State[t] = "waiting"
         /\ \A u \in 1 .. t - 1 : State[u] # "waiting"
<1> USE DEF IInv
<1>1. State[t] = "waiting"
  BY StateIs DEF Recount, TypeOK, Test
<1>2. ASSUME NEW u \in 1 .. t - 1 PROVE State[u] # "waiting"
  <2>1. u \in Test /\ u <= testI
    BY JobsAssumption DEF TypeOK, Test
  <2>2. verdict[u] # "waiting"
    BY <2>1 DEF TypeOK, Verdicts, BadVerdicts
  <2>3. QED
    BY <2>1, <2>2, StateIs
<1>3. QED
  BY <1>1, <1>2

(* A slot is free for the test that starts: the running tests sit in the   *)
(* other slots, each in its own.                                           *)
LEMMA RoomToStart ==
  ASSUME IInv, pc = "next"
  PROVE  Cardinality({t \in Test : State[t] = "running"}) < NJobs
<1> USE DEF IInv
<1> DEFINE R == {t \in Test : State[t] = "running"}
           Others == Job \ {cur}
           slot == [t \in R |-> CHOOSE j \in Job : test[j] = t]
<1>1. cur \in Job /\ test[cur] = None
  BY DEF TypeOK, Control, Unvisited
<1>2. \A t \in R : slot[t] \in Job /\ test[slot[t]] = t
  BY DEF State, NothingLost, TypeOK, Verdicts, BadVerdicts
<1>3. \A t \in R : slot[t] \in Others
  BY <1>1, <1>2 DEF Test, None
<1>4. slot \in Injection(R, Others)
  <2>1. slot \in [R -> Others]
    BY <1>3
  <2>2. \A t, u \in R : slot[t] = slot[u] => t = u
    BY <1>2
  <2> HIDE DEF slot
  <2>3. QED
    BY <2>1, <2>2 DEF Injection, IsInjective
<1>5. IsFiniteSet(Job) /\ Cardinality(Job) = NJobs
  BY FS_Interval, JobsAssumption DEF Job
<1>6. IsFiniteSet(Others) /\ Cardinality(Others) = NJobs - 1
  BY <1>1, <1>5, FS_RemoveElement
<1>7. Cardinality(R) <= NJobs - 1
  BY <1>4, <1>6, FS_Injection
<1>8. Cardinality(R) \in Nat
  BY TestFinite
<1>9. QED
  BY <1>7, <1>8, JobsAssumption

-----------------------------------------------------------------------------
(* Steps that TestRun sees.                                                *)

LEMMA DisableStep == ASSUME IInv, RunDisabled PROVE Promise!Next
<1> USE DEF IInv
<1> DEFINE t == testI + 1
<1>1. t \in Test /\ verdict[t] = "none" /\ ~tests[t].enabled /\ tests' = tests
  BY JobsAssumption DEF RunDisabled, TypeOK, Recount, Test
<1>2. testI' = t /\ pc' = pc /\ pc = "next"
  BY DEF RunDisabled, PassDisabled
<1>3. verdict' = [verdict EXCEPT ![t] = "disabled"]
  <2>1. verdict' = [verdict EXCEPT ![t] = Judge(tests[t], ResetEnv, ResetResult)]
    BY DEF RunDisabled, Record
  <2>2. tests[t] \in Decl
    BY <1>1, JobsAssumption DEF TypeOK
  <2>3. QED
    BY <1>1, <2>1, <2>2, JudgeType, CleanResult
<1>4. State[t] = "waiting" /\ \A u \in 1 .. t - 1 : State[u] # "waiting"
  BY <1>1, NextInLine
<1>5. State' = [State EXCEPT ![t] = "disabled"]
  <2>1. \A u \in Test : u # t => verdict'[u] = verdict[u] /\ (u <= testI' <=> u <= testI)
    BY <1>1, <1>2, <1>3 DEF TypeOK, Test
  <2>2. verdict'[t] = "disabled"
    BY <1>1, <1>3 DEF TypeOK
  <2>3. QED
    BY <1>1, <2>1, <2>2, StateUpdate
<1>6. Promise!Disable(t)
  BY <1>1, <1>2, <1>4, <1>5 DEF Promise!Disable, Promise!IsNext
<1>7. QED
  BY <1>1, <1>6 DEF Promise!Next, Promise!Tests, Test

LEMMA StartStep == ASSUME IInv, Prep PROVE Promise!Next
<1> USE DEF IInv
<1> DEFINE t == testI + 1
<1>1. /\ t \in Test /\ verdict[t] = "none" /\ tests[t].enabled
      /\ UNCHANGED <<tests, verdict>> /\ testI' = t /\ pc = "next" /\ pc' = "fork"
  BY JobsAssumption DEF Prep, TypeOK, Recount, Test
<1>2. State[t] = "waiting" /\ \A u \in 1 .. t - 1 : State[u] # "waiting"
  BY <1>1, NextInLine
<1>3. State' = [State EXCEPT ![t] = "running"]
  <2>1. \A u \in Test : State'[u] = IF u = t THEN "running" ELSE State[u]
    <3>1. \A u \in Test : u # t => (u <= t <=> u <= testI)
      BY DEF TypeOK, Test
    <3>2. t <= t
      BY <1>1 DEF Test
    <3>3. QED
      BY <1>1, <3>1, <3>2 DEF State
  <2>2. State = [u \in Test |-> State[u]] /\ State' = [u \in Test |-> State'[u]]
    BY DEF State
  <2>3. QED
    BY <2>1, <2>2
<1>4. Cardinality(Promise!Running) < NJobs
  BY <1>1, RoomToStart DEF Promise!Running, Promise!Tests, Test
<1>5. Promise!Cardinality(Promise!Running) = Cardinality(Promise!Running)
  BY DEF Cardinality, Promise!Cardinality
<1>6. Promise!Start(t)
  BY <1>1, <1>2, <1>3, <1>4, <1>5 DEF Promise!Start, Promise!IsNext
<1>7. QED
  BY <1>1, <1>6 DEF Promise!Next, Promise!Tests, Test

(* A benchmark is the only test judged as one.                             *)
LEMMA BenchVerdict ==
  ASSUME NEW d \in Decl, NEW e \in TestEnv, NEW r \in Result, Judge(d, e, r) = "bench"
  PROVE  e.benched
BY DEF Decl, TestEnv, Result, Judge, Finalize, Verdict

LEMMA JudgedStep ==
  ASSUME IInv, BenchMarked, NEW j \in Job, NEW r \in Result,
         test[j] # None, Cleanup(j, r), UNCHANGED <<tests, testI>>, pc # "done", pc' # "done"
  PROVE  Promise!Next
<1> USE DEF IInv
<1> DEFINE t == test[j]
           v == Judge(tests[t], env[j], r)
<1>1. t \in Test /\ t <= testI /\ verdict[t] = "none" /\ tests[t].enabled
  BY DEF TypeOK, NothingLost, Slots
<1>2. env[j] \in TestEnv /\ tests[t] \in Decl
  BY <1>1, JobsAssumption DEF TypeOK
<1>3. v \in Verdicts /\ v # "disabled" /\ (v = "bench" => tests[t].bench)
  BY <1>1, <1>2, JudgeType, BenchVerdict DEF BenchMarked
<1>4. verdict' = [verdict EXCEPT ![t] = v]
  BY DEF Cleanup, Record
<1> HIDE DEF v
<1>5. State[t] = "running"
  BY <1>1, StateIs
<1>6. State' = [State EXCEPT ![t] = v]
  <2>1. v # "none" /\ verdict'[t] = v
    BY <1>1, <1>3, <1>4 DEF TypeOK, Verdicts, BadVerdicts
  <2>2. \A u \in Test : u # t => verdict'[u] = verdict[u] /\ (u <= testI' <=> u <= testI)
    BY <1>4 DEF TypeOK
  <2>3. QED
    BY <1>1, <2>1, <2>2, StateUpdate
<1>7. v \in Promise!Ends(tests[t])
  BY <1>3 DEF Promise!Ends, Promise!BadVerdicts, Verdicts, BadVerdicts
<1>8. Promise!Judged(t, v)
  BY <1>5, <1>6, <1>7 DEF Promise!Judged
<1>9. QED
  BY <1>1, <1>3, <1>8
     DEF Promise!Next, Promise!Tests, Test, Promise!Verdicts, Promise!BadVerdicts,
         Verdicts, BadVerdicts

LEMMA LeaveStep == ASSUME IInv, Finish PROVE Promise!Next
<1> USE DEF IInv
<1>1. Done(rslts) /\ pc = "loop" /\ pc' = "done" /\ UNCHANGED <<tests, testI, verdict, rslts>>
  BY DEF Finish
<1>2. \A t \in Test : verdict[t] \in Verdicts
  BY <1>1, AllKnown
<1>3. \A t \in Test : State[t] = verdict[t]
  BY <1>2, StateIs DEF Verdicts, BadVerdicts
<1>4. State' = State
  BY <1>1 DEF State
<1>5. ExitCode(rslts) = IF \E t \in Test : State[t] \in BadVerdicts THEN 1 ELSE 0
  <2>1. ExitCode(rslts) \in {0, 1}
    BY DEF ExitCode
  <2>2. QED
    BY <2>1, <1>1, <1>2, <1>3, ExitMeans
<1>6. Promise!Leave
  BY <1>1, <1>2, <1>3, <1>4, <1>5
     DEF Promise!Leave, Promise!Tests, Test, Promise!Verdicts, Promise!BadVerdicts,
         Verdicts, BadVerdicts
<1>7. QED
  BY <1>6 DEF Promise!Next

-----------------------------------------------------------------------------
(* The refinement.                                                         *)

LEMMA PromiseInit == Init => Promise!Init
<1> SUFFICES ASSUME Init PROVE Promise!Init
  OBVIOUS
<1>1. \A t \in Test : State[t] = "waiting"
  BY DEF Init, State, Test
<1>2. State = [t \in Promise!Tests |-> "waiting"]
  BY <1>1 DEF State, Promise!Tests, Test
<1>3. QED
  BY <1>2 DEF Init, Promise!Init, Promise!Tests, Test

LEMMA PromiseStep ==
  ASSUME IInv, BenchMarked, [Next]_vars
  PROVE  Promise!Next \/ UNCHANGED Promise!vars
<1> USE DEF IInv
<1>1. CASE RunDisabled \/ Prep \/ Finish
  BY <1>1, DisableStep, StartStep, LeaveStep
<1>2. CASE \E t \in Test : DrainReap(t)
  <2>1. PICK t \in Test : DrainReap(t)
    BY <1>2
  <2>2. PICK j \in Job : fork[j] = t /\ Cleanup(j, status[t]) /\ pc' = "next"
    BY <2>1 DEF DrainReap, Processes, Unreaped
  <2>3. test[j] # None /\ status[t] \in Result
    BY <2>1, <2>2 DEF DrainReap, Slots, TypeOK, None, Test
  <2>4. QED
    BY <2>1, <2>2, <2>3, JudgedStep DEF DrainReap
<1>3. CASE TermReap
  <2>1. cur \in Job /\ test[cur] # None /\ [ResetResult EXCEPT !.timedout = TRUE] \in Result
    BY <1>3, CleanResult DEF TermReap, TypeOK, Control, Result
  <2>2. QED
    BY <1>3, <2>1, JudgedStep DEF TermReap
<1>4. ASSUME UNCHANGED <<tests, testI, verdict, rslts>>, pc' = "done" <=> pc = "done"
      PROVE  UNCHANGED Promise!vars
  BY <1>4 DEF Promise!vars, State
<1>5. CASE Exhausted \/ AwaitGroup \/ SweepInTime
  BY <1>5, <1>4, ResumeType DEF Exhausted, AwaitGroup, SweepInTime
<1>6. CASE ForkChild \/ ChildWait \/ DrainNone \/ SweepIdle \/ SweepLate \/ TermKill
  BY <1>6, <1>4 DEF ForkChild, ChildWait, DrainNone, SweepIdle, SweepLate, TermKill
<1>7. CASE \/ \E t \in Test : Child(t)
           \/ \E j \in Job : Expire(j)
           \/ UNCHANGED vars
  BY <1>7, <1>4, ChildFrame DEF Expire, vars, parentVars
<1>8. QED
  BY <1>1, <1>2, <1>3, <1>5, <1>6, <1>7 DEF Next, Parent, Over

(* The forking runner keeps the safety part of what a run promises: the    *)
(* order of starts, at most NJobs tests at a time, one verdict each, and   *)
(* the exit code (Jobs::run, jobs.cpp:343).                                *)
THEOREM ImplementsTestRun == Spec => Implements
<1>1. Init => BenchMarked
  BY DEF Init, BenchMarked
<1>2. Spec => []BenchMarked
  BY <1>1, BenchStep, Inductive, PTL DEF Spec
<1>3. QED
  BY <1>2, PromiseInit, PromiseStep, Inductive, PTL DEF Spec, Implements

-----------------------------------------------------------------------------
(* Ports.                                                                  *)

(* Numbers less than a width apart have different remainders.              *)
LEMMA SameRemainder ==
  ASSUME NEW w \in Nat \ {0}, NEW a \in Nat, NEW b \in Nat,
         a % w = b % w, a <= b, b < a + w
  PROVE  a = b
<1> DEFINE x == a \div w
           y == b \div w
           r == a % w
<1>1. x \in Int /\ y \in Int /\ r \in Int
  OBVIOUS
<1>2. a = w * x + r /\ b = w * y + r
  OBVIOUS
<1> HIDE DEF x, y, r
<1>3. b - a = w * (y - x)
  BY <1>1, <1>2
<1>4. y - x < 1
  <2>1. ASSUME y - x >= 1 PROVE w * (y - x) >= w
    BY <1>1, <2>1
  <2> QED BY <2>1, <1>1, <1>3
<1>5. y - x > -1
  <2>1. ASSUME y - x <= -1 PROVE w * (y - x) <= -w
    BY <1>1, <2>1
  <2> QED BY <2>1, <1>1, <1>3
<1>6. y = x
  BY <1>1, <1>4, <1>5
<1> QED BY <1>1, <1>2, <1>6

(* A slot and an index can be read back from the offset they make.         *)
LEMMA OffsetDecides ==
  ASSUME NEW m \in Nat \ {0}, NEW s \in 0 .. m - 1, NEW q \in 0 .. m - 1,
         NEW i \in Nat, NEW j \in Nat, s + i * m = q + j * m
  PROVE  s = q /\ i = j
<1>1. m * (i - j) = q - s
  OBVIOUS
<1>2. ~(i - j >= 1)
  <2>1. ASSUME i - j >= 1 PROVE m * (i - j) >= m
    BY <2>1
  <2> QED BY <2>1, <1>1
<1>3. ~(j - i >= 1)
  <2>1. ASSUME j - i >= 1 PROVE m * (i - j) <= -m
    BY <2>1
  <2> QED BY <2>1, <1>1
<1>4. i = j
  BY <1>2, <1>3
<1> QED BY <1>4

(* Offsets of K indices stay within K times the slots.                     *)
LEMMA OffsetBound ==
  ASSUME NEW m \in Nat \ {0}, NEW k \in Nat, NEW s \in 0 .. m - 1,
         NEW i \in 0 .. k - 1
  PROVE  s + i * m \in Nat /\ s + i * m < k * m
<1>1. (k - 1 - i) * m >= 0 /\ i * m >= 0 /\ i * m \in Int
  OBVIOUS
<1>2. (k - 1 - i) * m = k * m - m - i * m
  OBVIOUS
<1> QED BY <1>1, <1>2

(* pt_get_port never gives two live tests the same port, nor one test the  *)
(* same port for two indices, if NJobs times the indices fit in the width: *)
(* with the 256 indices of a uint8_t and 16 bits, up to -j 256.            *)
THEOREM PortsDiffer ==
  ASSUME NEW K \in Nat, Index \subseteq 0 .. K - 1, K * NJobs <= Width
  PROVE  Spec => []PortsUnique
<1>1. ASSUME NEW j \in Job, NEW k \in Job, NEW i \in Index, NEW n \in Index,
             GetPort(j, i) = GetPort(k, n)
      PROVE  j = k /\ i = n
  <2> DEFINE a == Id(j) + i * NJobs
             b == Id(k) + n * NJobs
  <2> USE PortsAssumption, JobsAssumption
  <2>1. i \in 0 .. K - 1 /\ n \in 0 .. K - 1 /\ i \in Nat /\ n \in Nat
    BY <1>1
  <2>2. /\ Id(j) \in 0 .. NJobs - 1 /\ Id(k) \in 0 .. NJobs - 1
        /\ NJobs \in Nat \ {0} /\ Id(j) = Id(k) => j = k
    BY <1>1, JobsAssumption DEF Job, Id
  <2>3. a \in Nat /\ a < K * NJobs
    BY <2>1, <2>2, OffsetBound
  <2>4. b \in Nat /\ b < K * NJobs
    BY <2>1, <2>2, OffsetBound
  <2>5. (Port + a) % Width = (Port + b) % Width
    <3>1. (Port + Id(j)) + i * NJobs = Port + a
      BY <2>1, <2>2
    <3>2. (Port + Id(k)) + n * NJobs = Port + b
      BY <2>1, <2>2
    <3>3. GetPort(j, i) = (Port + a) % Width /\ GetPort(k, n) = (Port + b) % Width
      BY <3>1, <3>2 DEF GetPort
    <3>4. QED
      BY <1>1, <3>3
  <2>6. a < Width /\ b < Width
    BY <2>2, <2>3, <2>4
  <2> HIDE DEF a, b
  <2>7. Port + a \in Nat /\ Port + b \in Nat /\ Width \in Nat \ {0}
    BY <2>3, <2>4
  <2>8. a = b
    <3>1. CASE a <= b
      <4>1. Port + a <= Port + b /\ Port + b < (Port + a) + Width
        BY <2>3, <2>4, <2>6, <3>1
      <4>2. Port + a = Port + b
        BY ONLY <2>5, <2>7, <4>1, SameRemainder
      <4> QED BY <4>2, <2>3, <2>4
    <3>2. CASE b <= a
      <4>1. Port + b <= Port + a /\ Port + a < (Port + b) + Width
        BY <2>3, <2>4, <2>6, <3>2
      <4>2. Port + b = Port + a
        BY ONLY <2>5, <2>7, <4>1, SameRemainder
      <4> QED BY <4>2, <2>3, <2>4
    <3> QED BY <3>1, <3>2, <2>3, <2>4
  <2> QED BY <2>8, <2>1, <2>2, OffsetDecides DEF a, b
<1>2. IInv => PortsUnique
  <2>1. SUFFICES ASSUME IInv, NEW t \in Test, NEW u \in Test,
                        proc[t] \in Alive, proc[u] \in Alive,
                        NEW i \in Index, NEW n \in Index,
                        GetPort(home[t], i) = GetPort(home[u], n)
                 PROVE  t = u /\ i = n
    BY DEF PortsUnique
  <2>2. \A v \in {t, u} : \E j \in Job : fork[j] = v /\ home[v] = j
    BY <2>1 DEF IInv, TypeOK, Slots, Processes, Unreaped, None, Test
  <2>3. home[t] \in Job /\ home[u] \in Job /\ (home[t] = home[u] => t = u)
    BY <2>2
  <2>4. QED
    BY <1>1, <2>1, <2>3
<1>3. QED
  BY <1>2, Inductive, PTL
=============================================================================
