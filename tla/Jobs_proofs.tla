---------------------------- MODULE Jobs_proofs ----------------------------
(***************************************************************************)
(* Proofs about the forking runner, for any number of tests and of slots,  *)
(* any declarations and any mishaps.                                       *)
(*                                                                         *)
(* IInv is inductive: it ties the slots to the tests they hold, to the     *)
(* processes on the process table and to the counters.                     *)
(***************************************************************************)
EXTENDS Jobs, TLAPS, FiniteSetTheorems

-----------------------------------------------------------------------------
(* Verdicts and counters.                                                  *)

(* Every result gets a verdict, and a test is reported as disabled exactly *)
(* when it is.                                                             *)
LEMMA JudgeType ==
  ASSUME NEW d \in Decl, NEW e \in TestEnv, NEW r \in Result
  PROVE  /\ Judge(d, e, r) \in Verdicts
         /\ Judge(d, e, r) = "disabled" <=> ~d.enabled
BY DEF Decl, TestEnv, Result, Judge, Finalize, Verdict, Verdicts, BadVerdicts

LEMMA CleanResult == ResetResult \in Result /\ ResetEnv \in TestEnv
BY ResultsAssumption DEF ResetResult, Result, ResetEnv, TestEnv

LEMMA TestFinite ==
  /\ IsFiniteSet(Test) /\ Cardinality(Test) = NTests
  /\ \A P \in SUBSET Test : IsFiniteSet(P) /\ Cardinality(P) \in Nat
<1>1. IsFiniteSet(Test) /\ Cardinality(Test) = NTests
  BY FS_Interval, JobsAssumption DEF Test
<1>2. QED
  BY <1>1, FS_Subset, FS_CardinalityType

(* One element more, or one less, and the cardinality follows.             *)
LEMMA OneMore ==
  ASSUME NEW P \in SUBSET Test, NEW t \in Test, t \notin P
  PROVE  Cardinality(P \cup {t}) = Cardinality(P) + 1
BY TestFinite, FS_AddElement

LEMMA OneLess ==
  ASSUME NEW P \in SUBSET Test, NEW t \in P
  PROVE  Cardinality(P \ {t}) = Cardinality(P) - 1
BY TestFinite, FS_RemoveElement

-----------------------------------------------------------------------------
(* Recording a test keeps the counters equal to a recount.                 *)

Known   == {t \in Test : verdict[t] # "none"}
Passed  == {t \in Test : verdict[t] = "pass"}
Counting == {t \in Test : tests[t].enabled /\ verdict[t] \notin {"skipped", "bench"}}

LEMMA RecordCounts ==
  ASSUME TypeOK, Accounting, UNCHANGED tests,
         NEW t \in Test, verdict[t] = "none",
         NEW e \in TestEnv, NEW r \in Result, Record(t, e, r)
  PROVE  /\ Accounting'
         /\ rslts' \in Counters
         /\ verdict' \in [Test -> Verdicts \cup {"none"}]
         /\ verdict'[t] \in Verdicts
         /\ verdict'[t] = "disabled" <=> ~tests[t].enabled
<1> DEFINE v == Judge(tests[t], e, r)
<1>1. tests[t] \in Decl
  BY JobsAssumption DEF TypeOK
<1>2. v \in Verdicts /\ (v = "disabled" <=> ~tests[t].enabled)
  BY <1>1, JudgeType
<1>3. verdict' = [verdict EXCEPT ![t] = v] /\ rslts' = Tally(rslts, v)
  BY DEF Record
<1> HIDE DEF v
<1>4. rslts \in Counters /\ verdict \in [Test -> Verdicts \cup {"none"}]
  BY DEF TypeOK
<1>5. verdict' \in [Test -> Verdicts \cup {"none"}] /\ verdict'[t] = v
  BY <1>2, <1>3, <1>4
<1>6. rslts'.finished = Cardinality(Known')
  <2>1. Known' = Known \cup {t} /\ t \notin Known /\ Known \in SUBSET Test
    BY <1>2, <1>3, <1>4 DEF Known, Verdicts, BadVerdicts
  <2>2. rslts'.finished = rslts.finished + 1
    BY <1>3, <1>4 DEF Tally, Counters
  <2>3. QED
    BY <2>1, <2>2, OneMore DEF Accounting, Known
<1>7. rslts'.passes = Cardinality(Passed')
  <2>1. rslts'.passes = rslts.passes + One(v = "pass")
    BY <1>3, <1>4 DEF Tally, Counters
  <2>2. CASE v = "pass"
    <3>1. Passed' = Passed \cup {t} /\ t \notin Passed /\ Passed \in SUBSET Test
      BY <2>2, <1>3, <1>4 DEF Passed
    <3>2. QED
      BY <3>1, <2>1, <2>2, OneMore DEF Accounting, Passed, One
  <2>3. CASE v # "pass"
    <3>1. Passed' = Passed
      BY <2>3, <1>3, <1>4 DEF Passed
    <3>2. QED
      BY <3>1, <2>1, <2>3, <1>4 DEF Accounting, Passed, One, Counters
  <2>4. QED
    BY <2>2, <2>3
<1>8. rslts'.enabled = Cardinality(Counting')
  <2>1. rslts'.enabled = rslts.enabled - One(v \in {"skipped", "bench"})
    BY <1>3, <1>4 DEF Tally, Counters, Uncounted
  <2>2. CASE v \in {"skipped", "bench"}
    <3>1. Counting' = Counting \ {t} /\ t \in Counting /\ Counting \in SUBSET Test
      BY <2>2, <1>2, <1>3, <1>4 DEF Counting
    <3>2. QED
      BY <3>1, <2>1, <2>2, OneLess DEF Accounting, Counting, One
  <2>3. CASE v \notin {"skipped", "bench"}
    <3>1. Counting' = Counting
      BY <2>3, <1>3, <1>4 DEF Counting
    <3>2. rslts'.enabled = rslts.enabled
      BY <2>1, <2>3, <1>4 DEF One, Counters
    <3>3. rslts.enabled = Cardinality(Counting)
      BY DEF Accounting, Counting
    <3>4. QED
      BY <3>1, <3>2, <3>3
  <2>4. QED
    BY <2>2, <2>3
<1>9. rslts'.enabled \in Nat
  BY <1>8, TestFinite DEF Counting
<1>10. rslts' \in Counters
  <2>1. One(v = "skipped") \in Nat /\ One(v = "pass") \in Nat
        /\ One(v = "error") \in Nat /\ One(v = "bench") \in Nat
        /\ One(v \in {"failed", "timedout"}) \in Nat
    BY DEF One
  <2>2. rslts' = [rslts EXCEPT !.finished = rslts'.finished,
                               !.enabled  = rslts'.enabled,
                               !.skipped  = rslts'.skipped,
                               !.passes   = rslts'.passes,
                               !.errors   = rslts'.errors,
                               !.failures = rslts'.failures,
                               !.benches  = rslts'.benches]
    BY <1>3, <1>4 DEF Tally, Counters
  <2>3. /\ rslts'.finished \in Nat /\ rslts'.skipped \in Nat
        /\ rslts'.passes \in Nat /\ rslts'.errors \in Nat
        /\ rslts'.failures \in Nat /\ rslts'.benches \in Nat
    BY <1>3, <1>4, <2>1 DEF Tally, Counters
  <2>4. QED
    BY <1>4, <1>9, <2>2, <2>3 DEF Counters
<1>11. rslts'.total = NTests
  BY <1>3, <1>4 DEF Tally, Counters, Accounting
<1>12. QED
  BY <1>2, <1>5, <1>6, <1>7, <1>8, <1>10, <1>11
     DEF Accounting, Known, Passed, Counting

-----------------------------------------------------------------------------
(* The initial states.                                                     *)

LEMMA InitIInv == Init => IInv
<1> SUFFICES ASSUME Init PROVE IInv
  OBVIOUS
<1>1. Accounting
  <2>1. {t \in Test : verdict[t] # "none"} = {} /\ {t \in Test : verdict[t] = "pass"} = {}
    BY DEF Init
  <2>2. {t \in Test : tests[t].enabled /\ verdict[t] \notin {"skipped", "bench"}}
          = {t \in Test : tests[t].enabled}
    BY DEF Init
  <2>3. QED
    BY <2>1, <2>2, FS_EmptySet DEF Init, Accounting, Counted
<1>2. TypeOK
  <2>1. rslts \in Counters
    BY TestFinite, JobsAssumption DEF Init, Counted, Counters
  <2>2. QED
    BY <2>1, CleanResult, JobsAssumption
       DEF Init, TypeOK, Test, Job, None, Alive, Dead
<1>3. Slots /\ Processes
  BY DEF Init, Slots, Processes, Unreaped, Alive, Dead, None
<1>4. Control /\ NoWaitError
  BY JobsAssumption DEF Init, Control, NoWaitError, Job, None
<1>5. NothingLost
  BY JobsAssumption DEF Init, NothingLost, Test, None
<1>6. KeepsBusy
  BY JobsAssumption DEF Init, KeepsBusy, Unvisited, Job, None
<1>7. Recount
  BY DEF Init, Recount
<1>8. QED
  BY <1>1, <1>2, <1>3, <1>4, <1>5, <1>6, <1>7 DEF IInv

-----------------------------------------------------------------------------
(* Steps that record nothing and start nothing.                            *)

Books == <<tests, testI, test, rslts, verdict>>

LEMMA BooksKept ==
  ASSUME IInv, UNCHANGED Books
  PROVE  NothingLost' /\ Recount' /\ Accounting'
BY DEF IInv, Books, NothingLost, Recount, Accounting

(* Resume stays within the slots.                                          *)
LEMMA ResumeType ==
  ASSUME TypeOK, Resume
  PROVE  /\ cur' \in Job /\ ret' = ret
         /\ pc' \in {"next", "sweep", "drain", "loop"}
BY JobsAssumption DEF TypeOK, Resume, Job

(* Until every test is recorded there is a child to wait for.              *)
LEMMA ChildLeft ==
  ASSUME IInv, pc = "drain", ~Done(rslts)
  PROVE  Unreaped # {}
<1>1. \A j \in Job : test[j] # None => test[j] \in Unreaped
  BY DEF IInv, TypeOK, Slots, Unreaped, Test, None
<1>2. PICK t \in Test : verdict[t] = "none"
  <2>1. SUFFICES ASSUME \A t \in Test : verdict[t] # "none" PROVE FALSE
    OBVIOUS
  <2>2. {t \in Test : verdict[t] # "none"} = Test
    BY <2>1
  <2>3. QED
    BY <2>2, TestFinite DEF IInv, Accounting, Done
<1>3. CASE t <= testI
  BY <1>1, <1>2, <1>3, JobsAssumption DEF IInv, NothingLost, Test, None
<1>4. CASE ~(t <= testI)
  <2>1. testI # NTests
    BY <1>4, JobsAssumption DEF IInv, TypeOK, Test
  <2>2. 1 \in Job
    BY JobsAssumption DEF Job
  <2>3. QED
    BY <1>1, <2>1, <2>2 DEF IInv, KeepsBusy, Unvisited
<1>5. QED
  BY <1>3, <1>4

(* The steps that take the parent from one point of its loops to another.  *)
Move == Exhausted \/ AwaitGroup \/ Finish \/ ChildWait \/ DrainNone
        \/ SweepIdle \/ SweepInTime \/ SweepLate

LEMMA MoveIInv == IInv /\ Move => IInv'
<1> SUFFICES ASSUME IInv, Move PROVE IInv'
  OBVIOUS
<1> USE DEF IInv
<1>1. UNCHANGED <<Books, fork, env, overdue, childVars>>
  BY DEF Move, Books, Exhausted, AwaitGroup, Finish, ChildWait, DrainNone,
         SweepIdle, SweepInTime, SweepLate, childVars
<1>2. NothingLost' /\ Recount' /\ Accounting'
  BY <1>1, BooksKept DEF Books
<1>3. NoWaitError' /\ pc' \notin {"fork", "await"} /\ pc # "fork"
  <2>1. CASE Exhausted \/ AwaitGroup \/ SweepInTime
    BY <2>1, ResumeType DEF Exhausted, AwaitGroup, SweepInTime, NoWaitError
  <2>2. CASE DrainNone
    BY <2>2, ChildLeft DEF DrainNone, NoWaitError
  <2>3. CASE Finish \/ ChildWait \/ SweepIdle \/ SweepLate
    BY <2>3 DEF Finish, ChildWait, SweepIdle, SweepLate, NoWaitError
  <2>4. QED
    BY <2>1, <2>2, <2>3 DEF Move
<1>4. TypeOK'
  <2>1. cur' \in Job /\ ret' \in {"start", "drain", "sweep"} /\ late' \subseteq Job
        /\ pc' \in {"next", "loop", "drain", "sweep", "term", "done", "crashed"}
    <3>1. CASE Exhausted \/ AwaitGroup \/ SweepInTime
      <4>1. Resume /\ late' = late
        BY <3>1 DEF Exhausted, AwaitGroup, SweepInTime
      <4>2. ret \in {"start", "drain", "sweep"} /\ late \subseteq Job
        BY DEF TypeOK
      <4>3. QED
        BY <4>1, <4>2, ResumeType
    <3>2. CASE DrainNone
      <4>1. 1 \in Job
        BY JobsAssumption DEF Job
      <4>2. QED
        BY <3>2, <4>1 DEF DrainNone, TypeOK, PastDeadline
    <3>3. CASE Finish \/ ChildWait \/ SweepIdle \/ SweepLate
      BY <3>3 DEF Finish, ChildWait, SweepIdle, SweepLate, TypeOK
    <3>4. QED
      BY <3>1, <3>2, <3>3 DEF Move
  <2>2. QED
    BY <1>1, <2>1 DEF TypeOK, Books, childVars
<1>5. Control'
  <2>1. CASE Exhausted \/ AwaitGroup
    BY <2>1, <1>1, JobsAssumption
       DEF Exhausted, AwaitGroup, Resume, Control, Unvisited, Books, TypeOK, Job
  <2>2. CASE SweepInTime
    BY <2>2, <1>1, JobsAssumption
       DEF SweepInTime, Resume, Control, Unvisited, Books, TypeOK, Job
  <2>3. CASE DrainNone
    BY <2>3, <1>1, <1>3 DEF DrainNone, Control, Unvisited, NoWaitError, Books
  <2>4. CASE Finish \/ ChildWait \/ SweepIdle \/ SweepLate
    BY <2>4, <1>1 DEF Finish, ChildWait, SweepIdle, SweepLate, Control, Unvisited, Books, None
  <2>5. QED
    BY <2>1, <2>2, <2>3, <2>4 DEF Move
<1>6. Slots'
  BY <1>1, <1>3 DEF Slots, Books, childVars
<1>7. Processes'
  <2>1. \A t \in Test : proc[t] \notin {"forked", "stillborn"}
    BY DEF Move, Exhausted, AwaitGroup, Finish, ChildWait, DrainNone,
           SweepIdle, SweepInTime, SweepLate, Processes, InOwnGroup
  <2>2. QED
    BY <2>1, <1>1 DEF Processes, Unreaped, childVars
<1>8. KeepsBusy'
  <2>1. CASE Exhausted \/ AwaitGroup
    BY <2>1, <1>1, JobsAssumption
       DEF Exhausted, AwaitGroup, Resume, KeepsBusy, Control, Unvisited, Books, TypeOK, Job
  <2>2. CASE SweepInTime
    BY <2>2, <1>1, JobsAssumption
       DEF SweepInTime, Resume, KeepsBusy, Unvisited, Books, TypeOK, Job
  <2>3. CASE DrainNone
    BY <2>3, <1>1 DEF DrainNone, KeepsBusy, Unvisited, Books
  <2>4. CASE Finish \/ ChildWait \/ SweepIdle \/ SweepLate
    BY <2>4, <1>1 DEF Finish, ChildWait, SweepIdle, SweepLate, KeepsBusy, Unvisited, Books
  <2>5. QED
    BY <2>1, <2>2, <2>3, <2>4 DEF Move
<1>9. QED
  BY <1>2, <1>3, <1>4, <1>5, <1>6, <1>7, <1>8

-----------------------------------------------------------------------------
(* Steps of the test processes and of time.                                *)

(* A step of a test process leaves the parent alone, and its process on    *)
(* the process table; a process that set its group keeps it.               *)
LEMMA ChildFrame ==
  ASSUME TypeOK, NEW t \in Test, Child(t)
  PROVE  /\ UNCHANGED <<tests, overdue, late, parentVars, home>>
         /\ \A u \in Test : u # t => proc'[u] = proc[u]
         /\ \/ proc'[t] = proc[t]
            \/ /\ proc[t] \in Alive
               /\ proc'[t] \in Alive \cup Dead
               /\ proc'[t] \in {"forked", "stillborn"} => proc[t] = "forked"
BY DEF TypeOK, Child, SetGroup, DieEarly, Complete, Fail, Skip, Leave, TakeLock, Exit,
       End, LoseBin, ExitItself, Crash, Spawn, StrayFail, StrayEnd, Alive, Dead

LEMMA ChildType ==
  ASSUME TypeOK, NEW t \in Test, proc[t] \in Alive \cup Dead => home[t] \in Job, Child(t)
  PROVE  TypeOK'
<1>1. UNCHANGED <<tests, overdue, late, parentVars, home>>
  BY ChildFrame
<1>2. SUFFICES /\ proc' \in [Test -> Alive \cup Dead \cup {"unborn", "reaped"}]
               /\ status' \in [Test -> Result]
               /\ env' \in [Job -> TestEnv]
               /\ kids' \in [Test -> {"none", "alive", "gone"}]
               /\ lock' \in Test \cup {None}
  BY <1>1 DEF TypeOK, parentVars
<1> USE DEF TypeOK
<1>3. \A n \in ExitCodes : [status[t] EXCEPT !.exitStatus = n] \in Result
  BY DEF Result
<1>4. \A s \in Signals : /\ [status[t] EXCEPT !.signalNum = s] \in Result
                         /\ [ResetResult EXCEPT !.signalNum = s] \in Result
  BY CleanResult DEF Result
<1>5. {0, 255} \subseteq ExitCodes /\ {SIGABRT, SIGKILL} \subseteq Signals
  BY ResultsAssumption
<1>6. CASE SetGroup(t) \/ DieEarly(t)
  BY <1>6, <1>4, <1>5 DEF SetGroup, DieEarly, Alive, Dead
<1>7. CASE Complete(t) \/ Fail(t) \/ Skip(t)
  <2>1. home[t] \in Job
    BY <1>7 DEF Complete, Fail, Skip, Leave, Alive
  <2>2. PICK e \in TestEnv, n \in ExitCodes : Leave(t, e, n)
    <3>1. tests[t] \in Decl /\ tests[t].bench \in BOOLEAN
      BY JobsAssumption DEF Decl
    <3>2. /\ [env[home[t]] EXCEPT !.benched = @ \/ tests[t].bench] \in TestEnv
          /\ [env[home[t]] EXCEPT !.failed = TRUE] \in TestEnv
          /\ [env[home[t]] EXCEPT !.skipped = TRUE] \in TestEnv
      BY <2>1, <3>1 DEF TestEnv
    <3>3. QED
      BY <3>2, <1>5, <1>7 DEF Complete, Fail, Skip
  <2>3. QED
    BY <2>2, <1>3 DEF Leave, Alive
<1>8. CASE TakeLock(t) \/ Spawn(t) \/ StrayEnd(t)
  BY <1>8 DEF TakeLock, Spawn, StrayEnd, Alive
<1>9. CASE \E n \in ExitCodes : ExitItself(t, n)
  BY <1>9, <1>3 DEF ExitItself, Alive
<1>10. ASSUME NEW st \in Result, End(t, st)
       PROVE  /\ proc' \in [Test -> Alive \cup Dead \cup {"unborn", "reaped"}]
              /\ status' \in [Test -> Result]
              /\ env' = env /\ kids' = kids
              /\ lock' \in Test \cup {None}
  BY <1>10 DEF End, Dead, None
<1>11. CASE Exit(t) \/ LoseBin(t) \/ \E s \in Signals : Crash(t, s)
  <2>1. PICK st \in Result : End(t, st)
    BY <1>11, <1>4, <1>5 DEF Exit, LoseBin, Crash
  <2>2. QED
    BY <2>1, <1>10
<1>12. CASE StrayFail(t)
  <2>1. env' \in [Job -> TestEnv]
    <3>1. CASE home[t] \in Job
      <4>1. [env[home[t]] EXCEPT !.failed = TRUE] \in TestEnv
        BY <3>1 DEF TestEnv
      <4>2. QED
        BY <4>1, <3>1, <1>12 DEF StrayFail
    <3>2. CASE home[t] \notin Job
      BY <3>2, <1>12 DEF StrayFail
    <3>3. QED
      BY <3>1, <3>2
  <2>2. QED
    BY <2>1, <1>12 DEF StrayFail
<1>13. QED
  BY <1>6, <1>7, <1>8, <1>9, <1>11, <1>12 DEF Child

LEMMA ChildIInv == ASSUME IInv, NEW t \in Test, Child(t) PROVE IInv'
<1> USE DEF IInv
<1>1. /\ UNCHANGED <<tests, overdue, late, parentVars, home>>
      /\ \A u \in Test : u # t => proc'[u] = proc[u]
      /\ \/ proc'[t] = proc[t]
         \/ /\ proc[t] \in Alive
            /\ proc'[t] \in Alive \cup Dead
            /\ proc'[t] \in {"forked", "stillborn"} => proc[t] = "forked"
  BY ChildFrame
<1>2. proc[t] \in Alive \cup Dead => home[t] \in Job
  BY DEF Processes, Slots, Unreaped, None, Test
<1>3. TypeOK'
  BY <1>2, ChildType
<1>4. NothingLost' /\ Recount' /\ Accounting'
  BY <1>1, BooksKept DEF Books, parentVars
<1>5. NoWaitError' /\ Control' /\ KeepsBusy'
  BY <1>1 DEF parentVars, NoWaitError, Control, KeepsBusy, Unvisited
<1>6. Slots'
  BY <1>1 DEF parentVars, Slots, TypeOK, None, Test
<1>7. Processes'
  <2>1. \A u \in Test : u \in Unreaped' => u \in Unreaped
    BY <1>1 DEF Unreaped
  <2>2. QED
    BY <1>1, <2>1 DEF parentVars, Processes
<1>8. QED
  BY <1>3, <1>4, <1>5, <1>6, <1>7

LEMMA ExpireIInv == ASSUME IInv, NEW j \in Job, Expire(j) PROVE IInv'
<1> USE DEF IInv, Expire, parentVars, childVars
<1>1. TypeOK'
  BY DEF TypeOK
<1>2. NothingLost' /\ Recount' /\ Accounting'
  BY BooksKept DEF Books
<1>3. NoWaitError' /\ Control' /\ KeepsBusy' /\ Slots' /\ Processes'
  BY DEF NoWaitError, Control, KeepsBusy, Unvisited, Slots, Processes, Unreaped
<1>4. QED
  BY <1>1, <1>2, <1>3

-----------------------------------------------------------------------------
(* Steps that record a test.                                               *)

LEMMA DisabledIInv == ASSUME IInv, RunDisabled PROVE IInv'
<1> USE DEF IInv
<1> DEFINE t == testI + 1
<1>1. t \in Test /\ verdict[t] = "none" /\ ~tests[t].enabled
  BY JobsAssumption DEF RunDisabled, TypeOK, Recount, Test
<1>2. /\ UNCHANGED <<tests, test, fork, overdue, late, childVars, pc, cur, ret>>
      /\ testI' = t /\ env' = ClearEnv(cur) /\ Record(t, ResetEnv, ResetResult)
      /\ pc = "next"
  BY DEF RunDisabled, PassDisabled
<1>3. /\ Accounting' /\ rslts' \in Counters
      /\ verdict' \in [Test -> Verdicts \cup {"none"}]
      /\ verdict'[t] \in Verdicts
      /\ verdict'[t] = "disabled" <=> ~tests[t].enabled
  BY <1>1, <1>2, RecordCounts, CleanResult
<1>4. \A u \in Test : u # t => verdict'[u] = verdict[u]
  BY <1>1, <1>2 DEF Record, TypeOK
<1>5. TypeOK'
  BY <1>1, <1>2, <1>3, CleanResult, JobsAssumption
     DEF TypeOK, ClearEnv, childVars, Test
<1>6. NothingLost'
  <2>1. \A u \in Test : u <= testI' /\ verdict'[u] = "none" => \E j \in Job : test'[j] = u
    BY <1>1, <1>2, <1>3, <1>4 DEF NothingLost, TypeOK, Verdicts, BadVerdicts, Test
  <2>2. \A j \in Job : test[j] # None => test[j] # t /\ test[j] \in Test /\ test[j] <= testI
    BY <1>1 DEF NothingLost, TypeOK, Test, None
  <2>3. QED
    BY <2>1, <2>2, <1>1, <1>2, <1>4 DEF NothingLost, TypeOK, Test
<1>7. Recount'
  BY <1>1, <1>2, <1>3, <1>4 DEF Recount, TypeOK, Test
<1>8. NoWaitError' /\ Control' /\ Slots' /\ Processes'
  BY <1>2 DEF NoWaitError, Control, Unvisited, Slots, Processes, Unreaped, childVars
<1>9. KeepsBusy'
  <2>1. testI # NTests
    BY DEF RunDisabled, TypeOK
  <2>2. QED
    BY <1>2, <2>1 DEF KeepsBusy, Unvisited
<1>10. QED
  BY <1>3, <1>5, <1>6, <1>7, <1>8, <1>9

(* A slot whose child was reaped records its test and takes the next one.  *)
LEMMA CleanupIInv ==
  ASSUME IInv, NEW j \in Job, NEW r \in Result,
         pc \in {"drain", "term", "kill"},
         fork[j] # None, proc[fork[j]] \in Dead,
         Reap(fork[j]), Cleanup(j, r),
         pc' = "next", cur' = j, ret' \in {"drain", "sweep"},
         UNCHANGED <<tests, testI, env, home, kids, lock>>
  PROVE  IInv'
<1> USE DEF IInv
<1> DEFINE t == test[j]
<1>1. fork[j] = t /\ t \in Test /\ verdict[t] = "none" /\ tests[t].enabled /\ t <= testI
  BY DEF Slots, TypeOK, NothingLost, None
<1>2. /\ Record(t, env[j], r)
      /\ test' = [test EXCEPT ![j] = None] /\ fork' = [fork EXCEPT ![j] = None]
      /\ overdue' = overdue \ {j} /\ late' = late \ {j}
  BY DEF Cleanup, Vacate
<1>3. /\ Accounting' /\ rslts' \in Counters
      /\ verdict' \in [Test -> Verdicts \cup {"none"}]
      /\ verdict'[t] \in Verdicts
      /\ verdict'[t] = "disabled" <=> ~tests[t].enabled
  <2>1. env[j] \in TestEnv
    BY DEF TypeOK
  <2>2. QED
    BY <2>1, <1>1, <1>2, RecordCounts
<1>4. \A u \in Test : u # t => verdict'[u] = verdict[u]
  BY <1>1, <1>2 DEF Record, TypeOK
<1>5. /\ proc' = [proc EXCEPT ![t] = "reaped"]
      /\ status' = [status EXCEPT ![t] = ResetResult]
  BY <1>1 DEF Reap, TypeOK
<1>6. TypeOK'
  BY <1>1, <1>2, <1>3, <1>5, CleanResult DEF TypeOK, None
<1>7. \A k \in Job : k # j => test'[k] = test[k] /\ test[k] # t
  BY <1>1, <1>2 DEF TypeOK, NothingLost, None, Test
<1>8. test'[j] = None
  BY <1>2 DEF TypeOK
<1>9. NothingLost'
  <2>1. \A u \in Test : u <= testI' /\ verdict'[u] = "none" => \E k \in Job : test'[k] = u
    BY <1>3, <1>4, <1>7 DEF NothingLost, Verdicts, BadVerdicts
  <2>2. \A k \in Job : test'[k] # None => k # j /\ test[k] \in Test
    BY <1>7, <1>8 DEF TypeOK
  <2>3. QED
    BY <2>1, <2>2, <1>4, <1>7 DEF NothingLost
<1>10. Recount'
  BY <1>1, <1>3, <1>4 DEF Recount, TypeOK, Test
<1>11. Slots'
  <2>1. \A k \in Job : k # j => fork'[k] = fork[k] /\ fork[k] = test[k]
    BY <1>2 DEF Slots, TypeOK
  <2>2. fork'[j] = None
    BY <1>2 DEF TypeOK
  <2>3. \A k \in Job : k # j /\ fork[k] # None => proc'[fork[k]] = proc[fork[k]]
    BY <2>1, <1>5, <1>7 DEF TypeOK
  <2>4. QED
    BY <2>1, <2>2, <2>3, <1>7, <1>8 DEF Slots
<1>12. Processes'
  <2>1. \A u \in Test : u \in Unreaped' => u # t /\ u \in Unreaped /\ proc'[u] = proc[u]
    BY <1>1, <1>5 DEF Unreaped, TypeOK, Alive, Dead
  <2>2. \A u \in Test : proc[u] \notin {"forked", "stillborn"}
    BY DEF Processes
  <2>3. \A u \in Test : u \in Unreaped' => \E k \in Job : k # j /\ fork'[k] = u
    BY <2>1, <1>1, <1>2 DEF Processes, TypeOK
  <2>4. \A u \in Test : proc'[u] \notin {"forked", "stillborn"}
    BY <2>2, <1>1, <1>5 DEF TypeOK
  <2>5. QED
    BY <2>3, <2>4 DEF Processes
<1>13. NoWaitError' /\ Control'
  BY <1>8 DEF NoWaitError, Control, Unvisited
<1>14. KeepsBusy'
  BY <1>7 DEF KeepsBusy, Unvisited
<1>15. QED
  BY <1>3, <1>6, <1>9, <1>10, <1>11, <1>12, <1>13, <1>14

LEMMA DrainReapIInv == ASSUME IInv, NEW t \in Test, DrainReap(t) PROVE IInv'
<1>1. PICK j \in Job : fork[j] = t /\ Cleanup(j, status[t])
                       /\ cur' = j /\ ret' = "drain" /\ pc' = "next"
  BY DEF IInv, DrainReap, Processes, Unreaped
<1>2. QED
  BY <1>1, CleanupIInv DEF IInv, TypeOK, DrainReap, None, Test

LEMMA TermReapIInv == ASSUME IInv, TermReap PROVE IInv'
<1>1. cur \in Job /\ fork[cur] # None /\ ret' = "sweep"
  BY DEF IInv, TypeOK, Control, Slots, TermReap
<1>2. [ResetResult EXCEPT !.timedout = TRUE] \in Result
  BY CleanResult DEF Result
<1>3. QED
  BY <1>1, <1>2, CleanupIInv DEF TermReap, Ended

-----------------------------------------------------------------------------
(* Starting and killing a test.                                            *)

LEMMA PrepIInv == ASSUME IInv, Prep PROVE IInv'
<1> USE DEF IInv
<1> DEFINE t == testI + 1
<1>1. t \in Test /\ verdict[t] = "none" /\ tests[t].enabled
  BY JobsAssumption DEF Prep, TypeOK, Recount, Test
<1>2. /\ UNCHANGED <<tests, fork, rslts, verdict, cur, ret, overdue, late, childVars>>
      /\ pc = "next" /\ pc' = "fork" /\ testI' = t /\ env' = ClearEnv(cur)
      /\ test' = [test EXCEPT ![cur] = t]
  BY DEF Prep
<1>3. cur \in Job /\ test[cur] = None /\ t # None
  BY <1>1, <1>2 DEF TypeOK, Control, Unvisited, Test, None
<1>4. \A j \in Job : test'[j] = IF j = cur THEN t ELSE test[j]
  BY <1>2 DEF TypeOK
<1>5. \A j \in Job : test[j] # None => test[j] \in Test /\ test[j] # t /\ test[j] <= testI
  BY <1>1 DEF NothingLost, TypeOK, Test, None
<1>6. TypeOK'
  BY <1>1, <1>2, CleanResult, JobsAssumption DEF TypeOK, ClearEnv, childVars, Test
<1>7. NothingLost'
  <2>1. \A u \in Test : u <= testI' /\ verdict'[u] = "none" => \E j \in Job : test'[j] = u
    BY <1>1, <1>2, <1>3, <1>4, <1>5 DEF NothingLost, TypeOK, Test, None
  <2>2. QED
    BY <2>1, <1>1, <1>2, <1>3, <1>4, <1>5 DEF NothingLost, TypeOK, Test
<1>8. Recount' /\ Accounting'
  <2>1. Accounting'
    BY <1>2 DEF Accounting
  <2>2. \A u \in Test : u > t => u > testI
    BY DEF TypeOK, Test
  <2>3. QED
    BY <1>2, <2>1, <2>2 DEF Recount
<1>9. NoWaitError' /\ Control' /\ KeepsBusy'
  <2>1. NoWaitError' /\ KeepsBusy'
    <3>1. testI # NTests
      BY DEF Prep, TypeOK
    <3>2. QED
      BY <3>1, <1>2, <1>3, <1>4 DEF NoWaitError, KeepsBusy, Unvisited
  <2>2. \A j \in Job : pc = "next" /\ ret = "start" /\ j > cur => test'[j] = None /\ j # cur
    BY <1>3, <1>4 DEF Control, Unvisited, Job
  <2>3. test'[cur] # None
    BY <1>3, <1>4
  <2>4. QED
    BY <2>1, <2>2, <2>3, <1>2 DEF Control, Unvisited
<1>10. Slots'
  BY <1>1, <1>2, <1>3, <1>4 DEF Slots, childVars
<1>11. Processes'
  <2>1. \A u \in Test : proc[u] \notin {"forked", "stillborn"}
    BY <1>2 DEF Processes
  <2>2. QED
    BY <1>2, <2>1 DEF Processes, Unreaped, childVars
<1>12. QED
  BY <1>6, <1>7, <1>8, <1>9, <1>10, <1>11

LEMMA ForkIInv == ASSUME IInv, ForkChild PROVE IInv'
<1> USE DEF IInv
<1> DEFINE t == test[cur]
<1>1. cur \in Job /\ t \in Test
  BY DEF ForkChild, TypeOK, Control
<1>2. /\ UNCHANGED <<tests, testI, test, env, rslts, verdict, cur, ret, overdue, late,
                     status, kids, lock>>
      /\ pc = "fork" /\ pc' = "await"
      /\ fork' = [fork EXCEPT ![cur] = t]
      /\ proc' = [proc EXCEPT ![t] = "forked"]
      /\ home' = [home EXCEPT ![t] = cur]
  BY DEF ForkChild
<1>3. TypeOK'
  BY <1>1, <1>2 DEF TypeOK, Alive
<1>4. NothingLost' /\ Recount' /\ Accounting'
  BY <1>2, BooksKept DEF Books
<1>5. NoWaitError' /\ Control' /\ KeepsBusy'
  BY <1>2 DEF NoWaitError, Control, KeepsBusy, Unvisited
<1>6. \A j \in Job : j # cur => fork'[j] = fork[j] /\ fork[j] = test[j] /\ fork[j] # t
  BY <1>1, <1>2 DEF TypeOK, Slots, NothingLost, None, Test
<1>7. Slots'
  BY <1>1, <1>2, <1>6 DEF TypeOK, Slots, Alive
<1>8. Processes'
  <2>1. \A u \in Test : u # t => proc'[u] = proc[u] /\ proc[u] \notin {"forked", "stillborn"}
    BY <1>1, <1>2 DEF TypeOK, Processes
  <2>2. fork'[cur] = t
    BY <1>1, <1>2 DEF TypeOK
  <2>3. \A u \in Test : u # t /\ u \in Unreaped' => \E j \in Job : fork'[j] = u
    <3>1. SUFFICES ASSUME NEW u \in Test, u # t, u \in Unreaped'
                   PROVE  \E j \in Job : fork'[j] = u
      OBVIOUS
    <3>2. PICK j \in Job : fork[j] = u
      BY <2>1, <3>1 DEF Processes, Unreaped
    <3>3. j # cur
      BY <1>1, <1>2, <3>2 DEF Slots, None, Test
    <3>4. QED
      BY <1>6, <3>2, <3>3
  <2>4. QED
    BY <2>1, <2>2, <2>3, <1>1, <1>2 DEF Processes
<1>9. QED
  BY <1>3, <1>4, <1>5, <1>7, <1>8

LEMMA KillIInv == ASSUME IInv, TermKill PROVE IInv'
<1> USE DEF IInv
<1> DEFINE t == fork[cur]
<1>1. cur \in Job /\ t \in Test /\ proc[t] \in Alive \cup Dead
  BY DEF TermKill, TypeOK, Control, Slots
<1>2. /\ UNCHANGED <<tests, testI, test, fork, env, rslts, verdict, cur, ret, overdue,
                     late, home, kids>>
      /\ pc = "term" /\ pc' = "kill"
  BY DEF TermKill
<1>3. /\ proc' \in [Test -> Alive \cup Dead \cup {"unborn", "reaped"}]
      /\ \A u \in Test : u # t => proc'[u] = proc[u]
      /\ proc'[t] = proc[t] \/ proc'[t] = "zombie"
  BY <1>1 DEF TermKill, KillGroup, TypeOK, Dead
<1>4. status' \in [Test -> Result] /\ lock' \in Test \cup {None}
  <2>1. [ResetResult EXCEPT !.signalNum = SIGKILL] \in Result
    BY CleanResult, ResultsAssumption DEF Result
  <2>2. QED
    BY <2>1, <1>1 DEF TermKill, KillGroup, TypeOK
<1>5. TypeOK'
  BY <1>2, <1>3, <1>4 DEF TypeOK
<1>6. NothingLost' /\ Recount' /\ Accounting'
  BY <1>2, BooksKept DEF Books
<1>7. NoWaitError' /\ Control' /\ KeepsBusy'
  BY <1>2 DEF NoWaitError, Control, KeepsBusy, Unvisited
<1>8. Slots'
  BY <1>2, <1>3 DEF TypeOK, Slots, Dead
<1>9. Processes'
  BY <1>1, <1>2, <1>3 DEF Processes, Unreaped
<1>10. QED
  BY <1>5, <1>6, <1>7, <1>8, <1>9

-----------------------------------------------------------------------------
(* The inductive invariant.                                                *)

LEMMA NextIInv == IInv /\ [Next]_vars => IInv'
<1> SUFFICES ASSUME IInv, [Next]_vars PROVE IInv'
  OBVIOUS
<1>1. CASE Parent
  <2>1. CASE Move
    BY <2>1, MoveIInv
  <2>2. CASE RunDisabled
    BY <2>2, DisabledIInv
  <2>3. CASE Prep
    BY <2>3, PrepIInv
  <2>4. CASE ForkChild
    BY <2>4, ForkIInv
  <2>5. CASE \E t \in Test : DrainReap(t)
    BY <2>5, DrainReapIInv
  <2>6. CASE TermKill
    BY <2>6, KillIInv
  <2>7. CASE TermReap
    BY <2>7, TermReapIInv
  <2>8. QED
    BY <1>1, <2>1, <2>2, <2>3, <2>4, <2>5, <2>6, <2>7 DEF Parent, Move
<1>2. CASE \E t \in Test : Child(t)
  BY <1>2, ChildIInv
<1>3. CASE \E j \in Job : Expire(j)
  BY <1>3, ExpireIInv
<1>4. CASE UNCHANGED vars
  BY <1>4 DEF vars, parentVars, childVars, IInv, TypeOK, NoWaitError, Control, Slots,
              Processes, NothingLost, KeepsBusy, Recount, Accounting, Unvisited, Unreaped
<1>5. QED
  BY <1>1, <1>2, <1>3, <1>4 DEF Next, Over

(* IInv is an invariant: the slots, the process table, the tests and the   *)
(* counters agree in every state of Jobs::run (jobs.cpp:343).              *)
THEOREM Inductive == Spec => []IInv
BY InitIInv, NextIInv, PTL DEF Spec

(* The variables keep their types; in particular enabled_, which record()  *)
(* decrements, never wraps below zero (results.cpp:202).                   *)
THEOREM TypeCorrect == Spec => []TypeOK
<1>1. IInv => TypeOK
  BY DEF IInv
<1>2. QED
  BY <1>1, Inductive, PTL

(* No test is lost and none runs in two slots.                             *)
THEOREM NoTestLost == Spec => []NothingLost
<1>1. IInv => NothingLost
  BY DEF IInv
<1>2. QED
  BY <1>1, Inductive, PTL

(* The children on the process table are those of the slots.               *)
THEOREM AllChildrenOwned == Spec => []ChildrenOwned
<1>1. IInv => ChildrenOwned
  BY DEF IInv, TypeOK, Slots, Processes, ChildrenOwned, Unreaped, None, Test
<1>2. QED
  BY <1>1, Inductive, PTL

(* waitpid(-1) never fails for want of a child.                            *)
THEOREM WaitsForSomeone == Spec => []NoWaitError
<1>1. IInv => NoWaitError
  BY DEF IInv
<1>2. QED
  BY <1>1, Inductive, PTL

(* No slot idles while tests wait.                                         *)
THEOREM SlotsBusy == Spec => []KeepsBusy
<1>1. IInv => KeepsBusy
  BY DEF IInv
<1>2. QED
  BY <1>1, Inductive, PTL

(* Fork::terminate only ever signals a group that exists.                  *)
THEOREM GroupExists == Spec => []GroupReady
<1>1. IInv => GroupReady
  BY DEF IInv, TypeOK, Control, Slots, Processes, GroupReady
<1>2. QED
  BY <1>1, Inductive, PTL

(* No live test process shares its memory with another slot's test.        *)
THEOREM OneWriterPerSlot == Spec => []SoleWriter
<1>1. IInv => SoleWriter
  BY DEF IInv, TypeOK, Slots, Processes, SoleWriter, Unreaped, None, Test
<1>2. QED
  BY <1>1, Inductive, PTL

-----------------------------------------------------------------------------
(* The exit code.                                                          *)

LEMMA AllKnown ==
  ASSUME IInv, Done(rslts)
  PROVE  \A t \in Test : verdict[t] \in Verdicts
<1>1. Known \in SUBSET Test /\ Cardinality(Known) = Cardinality(Test)
  BY TestFinite DEF IInv, Known, Accounting, Done
<1>2. Known = Test
  BY <1>1, TestFinite, FS_Subset
<1>3. QED
  BY <1>2 DEF IInv, Known, TypeOK

LEMMA ExitMeans ==
  ASSUME IInv, Done(rslts)
  PROVE  ExitCode(rslts) = 0 <=> \A t \in Test : verdict[t] \in Verdicts \ BadVerdicts
<1> USE DEF IInv
<1>1. Passed \in SUBSET Test /\ Counting \in SUBSET Test
  BY DEF Passed, Counting
<1>2. \A t \in Test : verdict[t] \in Verdicts
  BY AllKnown
<1>3. Passed \subseteq Counting
  BY DEF Passed, Counting, Recount
<1>4. ExitCode(rslts) = 0 <=> Cardinality(Passed) = Cardinality(Counting)
  BY DEF ExitCode, Accounting, Passed, Counting
<1>5. Cardinality(Passed) = Cardinality(Counting) <=> Passed = Counting
  BY <1>1, <1>3, TestFinite, FS_Subset
<1>6. Passed = Counting <=> \A t \in Test : verdict[t] \notin BadVerdicts
  BY <1>2, <1>3 DEF Passed, Counting, Recount, Verdicts, BadVerdicts
<1>7. QED
  BY <1>2, <1>4, <1>5, <1>6

(* main() returns 0 exactly when every test has a verdict and none is bad  *)
(* (main.cpp:128, results.hpp:190).                                        *)
THEOREM ExitIsTruthful == Spec => []TruthfulExit
<1>1. IInv => TruthfulExit
  BY ExitMeans DEF IInv, Control, TruthfulExit
<1>2. QED
  BY <1>1, Inductive, PTL

-----------------------------------------------------------------------------
(* Deadlines.                                                              *)

(* late only ever names slots whose deadline has passed, although slots    *)
(* are refilled while checkTimeouts() goes over them.                      *)
Deadlines ==
  /\ late \subseteq overdue
  /\ pc \in {"term", "kill"} => cur \in late
  /\ \A t \in Test : ~status[t].timedout

LEMMA DeadlinesInit == Init => Deadlines
BY DEF Init, Deadlines, ResetResult

LEMMA DeadlinesStep == IInv /\ Deadlines /\ [Next]_vars => Deadlines'
<1> SUFFICES ASSUME IInv, Deadlines, [Next]_vars PROVE Deadlines'
  OBVIOUS
<1> USE DEF IInv, Deadlines, parentVars, childVars
<1>1. /\ ResetResult.timedout = FALSE
      /\ \A s : [ResetResult EXCEPT !.signalNum = s].timedout = FALSE
      /\ \A t \in Test : \A n :
           /\ [status[t] EXCEPT !.exitStatus = n].timedout = status[t].timedout
           /\ [status[t] EXCEPT !.signalNum = n].timedout = status[t].timedout
  BY DEF ResetResult, TypeOK, Result
<1>2. ASSUME NEW t \in Test, Child(t) PROVE Deadlines'
  <2>1. UNCHANGED <<overdue, late, pc, cur>>
    BY <1>2, ChildFrame
  <2>2. \A u \in Test : ~status'[u].timedout
    <3>1. CASE \E e, n : Leave(t, e, n)
      BY <3>1, <1>1 DEF TypeOK, Leave
    <3>2. CASE \E st : End(t, st) /\ ~st.timedout
      BY <3>2 DEF TypeOK, End
    <3>3. CASE DieEarly(t)
      <4>1. status' = [status EXCEPT ![t] = [status[t] EXCEPT !.signalNum = SIGKILL]]
        BY <3>3 DEF DieEarly
      <4>2. QED
        BY <4>1, <1>1 DEF TypeOK
    <3>4. CASE \E n \in ExitCodes : ExitItself(t, n)
      <4>1. PICK n \in ExitCodes :
              status' = [status EXCEPT ![t] = [status[t] EXCEPT !.exitStatus = n]]
        BY <3>4 DEF ExitItself
      <4>2. QED
        BY <4>1, <1>1 DEF TypeOK
    <3>5. CASE UNCHANGED status
      BY <3>5
    <3>6. QED
      BY <1>1, <1>2, <3>1, <3>2, <3>3, <3>4, <3>5
         DEF Child, SetGroup, Complete, Fail, Skip, TakeLock, Exit, LoseBin, Crash,
             Spawn, StrayFail, StrayEnd
  <2>3. QED
    BY <2>1, <2>2
<1>3. CASE Exhausted \/ AwaitGroup \/ Finish \/ ChildWait \/ SweepIdle \/ SweepInTime
  <2>1. UNCHANGED <<overdue, late, status>> /\ pc' \notin {"term", "kill"}
    BY <1>3, ResumeType DEF Exhausted, AwaitGroup, Finish, ChildWait, SweepIdle, SweepInTime
  <2>2. QED
    BY <2>1
<1>4. CASE DrainNone
  BY <1>4 DEF DrainNone, PastDeadline
<1>5. CASE RunDisabled \/ Prep \/ ForkChild \/ SweepLate
  BY <1>5 DEF RunDisabled, PassDisabled, Prep, ForkChild, SweepLate
<1>6. ASSUME NEW t \in Test, Reap(t) PROVE \A u \in Test : ~status'[u].timedout
  BY <1>1, <1>6 DEF Reap, TypeOK
<1>7. CASE \E t \in Test : DrainReap(t)
  <2>1. PICK t \in Test : DrainReap(t)
    BY <1>7
  <2>2. PICK j \in Job : Cleanup(j, status[t]) /\ pc' = "next"
    BY <2>1 DEF DrainReap, Processes, Unreaped
  <2>3. QED
    BY <2>1, <2>2, <1>6 DEF DrainReap, Cleanup
<1>8. CASE TermKill
  <2>1. \A u \in Test : \/ status'[u] = status[u]
                         \/ status'[u] = [ResetResult EXCEPT !.signalNum = SIGKILL]
    BY <1>8 DEF TermKill, KillGroup, TypeOK
  <2>2. UNCHANGED <<overdue, late, cur>> /\ pc = "term"
    BY <1>8 DEF TermKill
  <2>3. QED
    BY <2>1, <2>2, <1>1
<1>9. CASE TermReap
  <2>1. fork[cur] \in Test
    BY <1>9 DEF TermReap, TypeOK, Control, Slots
  <2>2. QED
    BY <1>9, <2>1, <1>6 DEF TermReap, Cleanup
<1>10. CASE \E j \in Job : Expire(j)
  BY <1>10 DEF Expire
<1>11. CASE UNCHANGED vars
  BY <1>11 DEF vars
<1>12. QED
  BY <1>2, <1>3, <1>4, <1>5, <1>7, <1>8, <1>9, <1>10, <1>11 DEF Next, Parent, Over

(* Only a result marked as timed out gets that verdict.                    *)
LEMMA TimedOutVerdict ==
  ASSUME NEW d \in Decl, NEW e \in TestEnv, NEW r \in Result, Judge(d, e, r) = "timedout"
  PROVE  r.timedout
BY DEF Decl, TestEnv, Result, Judge, Finalize, Verdict

LEMMA LateStep ==
  ASSUME IInv, Deadlines, [Next]_vars, NEW j \in Job, Recorded(j),
         verdict'[test[j]] = "timedout"
  PROVE  j \in overdue
<1> USE DEF IInv, Deadlines
<1> DEFINE t == test[j]
<1>1. t \in Test /\ t <= testI /\ verdict[t] = "none" /\ verdict'[t] # "none"
      /\ \A k \in Job : test[k] = t => k = j
  BY DEF Recorded, TypeOK, NothingLost
<1>2. CASE \E u \in Test : DrainReap(u)
  <2>1. PICK u \in Test : DrainReap(u)
    BY <1>2
  <2>2. PICK k \in Job : fork[k] = u /\ Cleanup(k, status[u])
    BY <2>1 DEF DrainReap, Processes, Unreaped
  <2>3. test[k] = u
    BY <2>1, <2>2 DEF Slots, DrainReap
  <2>4. verdict' = [verdict EXCEPT ![u] = Judge(tests[u], env[k], status[u])]
    BY <2>2, <2>3 DEF Cleanup, Record
  <2>5. t = u
    BY <2>4, <1>1 DEF TypeOK
  <2>6. status[u].timedout
    BY <2>4, <2>5, JobsAssumption, TimedOutVerdict DEF TypeOK
  <2>7. QED
    BY <2>6
<1>3. CASE TermReap
  <2>1. verdict' = [verdict EXCEPT ![test[cur]] =
                      Judge(tests[test[cur]], env[cur], [ResetResult EXCEPT !.timedout = TRUE])]
    BY <1>3 DEF TermReap, Cleanup, Record
  <2>2. t = test[cur]
    BY <2>1, <1>1 DEF TypeOK
  <2>3. QED
    BY <2>2, <1>1, <1>3 DEF TermReap, TypeOK
<1>4. CASE RunDisabled
  <2>1. verdict' = [verdict EXCEPT ![testI + 1] =
                      Judge(tests[testI + 1], ResetEnv, ResetResult)]
    BY <1>4 DEF RunDisabled, Record
  <2>2. t # testI + 1
    BY <1>1 DEF TypeOK, Test
  <2>3. QED
    BY <2>1, <2>2, <1>1 DEF TypeOK
<1>5. CASE Move \/ Prep \/ ForkChild \/ TermKill
  BY <1>5, <1>1 DEF Move, Exhausted, AwaitGroup, Finish, ChildWait, DrainNone, SweepIdle,
                    SweepInTime, SweepLate, Prep, ForkChild, TermKill
<1>6. CASE \/ \E u \in Test : Child(u)
           \/ \E k \in Job : Expire(k)
           \/ UNCHANGED vars
  BY <1>6, <1>1, ChildFrame DEF Expire, vars, parentVars
<1>7. QED
  BY <1>2, <1>3, <1>4, <1>5, <1>6 DEF Next, Parent, Move, Over

(* No test is recorded as timed out before its own deadline                *)
(* (Jobs::checkTimeouts, jobs.cpp:297).                                    *)
THEOREM TimeoutsAreLate == Spec => OnlyLateTimedOut
<1>1. Spec => []Deadlines
  BY Inductive, DeadlinesInit, DeadlinesStep, PTL DEF Spec
<1>2. IInv /\ Deadlines /\ [Next]_vars =>
        [\A j \in Job : Recorded(j) /\ verdict'[test[j]] = "timedout" => j \in overdue]_vars
  BY LateStep
<1>3. QED
  BY <1>1, <1>2, Inductive, PTL DEF Spec, OnlyLateTimedOut

-----------------------------------------------------------------------------
(* Failed assertions.                                                      *)

(* finalize() and record() of an enabled test that failed and neither      *)
(* expected to nor skipped.                                                *)
LEMMA FailedVerdict ==
  ASSUME NEW d \in Decl, NEW e \in TestEnv, NEW r \in Result,
         d.enabled, e.failed, ~d.expectFail
  PROVE  Judge(d, e, r) \in BadVerdicts \cup {"skipped"}
BY DEF Decl, TestEnv, Result, Judge, Finalize, Verdict, BadVerdicts

LEMMA FailureStep ==
  ASSUME IInv, [Next]_vars, NEW j \in Job, Recorded(j),
         env[j].failed, ~tests[test[j]].expectFail
  PROVE  verdict'[test[j]] \in BadVerdicts \cup {"skipped"}
<1> USE DEF IInv
<1> DEFINE t == test[j]
<1>1. t \in Test /\ t <= testI /\ verdict[t] = "none" /\ verdict'[t] # "none"
      /\ \A k \in Job : test[k] = t => k = j
  BY DEF Recorded, TypeOK, NothingLost
<1>2. tests[t] \in Decl /\ tests[t].enabled /\ env[j] \in TestEnv
  BY <1>1, JobsAssumption DEF TypeOK, Slots, Recorded
<1>3. ASSUME NEW r \in Result, verdict' = [verdict EXCEPT ![t] = Judge(tests[t], env[j], r)]
      PROVE  verdict'[t] \in BadVerdicts \cup {"skipped"}
  BY <1>1, <1>2, <1>3, FailedVerdict DEF TypeOK
<1>4. CASE \E u \in Test : DrainReap(u)
  <2>1. PICK u \in Test : DrainReap(u)
    BY <1>4
  <2>2. PICK k \in Job : fork[k] = u /\ Cleanup(k, status[u])
    BY <2>1 DEF DrainReap, Processes, Unreaped
  <2>3. test[k] = u
    BY <2>1, <2>2 DEF Slots, DrainReap
  <2>4. verdict' = [verdict EXCEPT ![u] = Judge(tests[u], env[k], status[u])]
    BY <2>2, <2>3 DEF Cleanup, Record
  <2>5. t = u /\ k = j
    BY <2>3, <2>4, <1>1 DEF TypeOK
  <2>6. status[u] \in Result
    BY DEF TypeOK
  <2>7. QED
    BY <2>4, <2>5, <2>6, <1>3
<1>5. CASE TermReap
  <2> DEFINE r == [ResetResult EXCEPT !.timedout = TRUE]
  <2>1. verdict' = [verdict EXCEPT ![test[cur]] = Judge(tests[test[cur]], env[cur], r)]
    BY <1>5 DEF TermReap, Cleanup, Record
  <2>2. t = test[cur] /\ cur = j
    BY <2>1, <1>1 DEF TypeOK
  <2>3. r \in Result
    BY ResultsAssumption DEF ResetResult, Result
  <2>4. QED
    BY <2>1, <2>2, <2>3, <1>3
<1>6. CASE RunDisabled
  <2>1. verdict' = [verdict EXCEPT ![testI + 1] =
                      Judge(tests[testI + 1], ResetEnv, ResetResult)]
    BY <1>6 DEF RunDisabled, Record
  <2>2. t # testI + 1
    BY <1>1 DEF TypeOK, Test
  <2>3. QED
    BY <2>1, <2>2, <1>1 DEF TypeOK
<1>7. CASE Move \/ Prep \/ ForkChild \/ TermKill
  BY <1>7, <1>1 DEF Move, Exhausted, AwaitGroup, Finish, ChildWait, DrainNone, SweepIdle,
                    SweepInTime, SweepLate, Prep, ForkChild, TermKill
<1>8. CASE \/ \E u \in Test : Child(u)
           \/ \E k \in Job : Expire(k)
           \/ UNCHANGED vars
  BY <1>8, <1>1, ChildFrame DEF Expire, vars, parentVars
<1>9. QED
  BY <1>4, <1>5, <1>6, <1>7, <1>8 DEF Next, Parent, Move, Over

(* A failed assertion reaches the verdict of its own test, whatever its    *)
(* process then exits with or dies of, and also if the slot's memory was   *)
(* marked by a process left behind (_pt_fail, Result::finalize).           *)
THEOREM FailuresReported == Spec => FailureShows
<1>1. IInv /\ [Next]_vars =>
        [\A j \in Job : Recorded(j) /\ env[j].failed /\ ~tests[test[j]].expectFail
           => verdict'[test[j]] \in BadVerdicts \cup {"skipped"}]_vars
  BY FailureStep
<1>2. QED
  BY <1>1, Inductive, PTL DEF Spec, FailureShows

-----------------------------------------------------------------------------
(* Isolation, of tests that leave no process behind.                       *)

CleanSlots ==
  /\ \A t \in Test : kids[t] = "none"
  /\ pc = "fork" => env[cur] = ResetEnv
  /\ Isolation

(* A test process only writes to the memory of its own slot, and only when *)
(* its test is over.                                                       *)
LEMMA ChildWrites ==
  ASSUME IInv, NEW t \in Test, Child(t), kids[t] = "none"
  PROVE  \/ env' = env
         \/ /\ proc'[t] = "exiting" /\ home[t] \in Job /\ fork[home[t]] = t
            /\ \A j \in Job : j # home[t] => env'[j] = env[j]
<1> USE DEF IInv
<1>1. proc[t] = "running" => home[t] \in Job /\ fork[home[t]] = t
  BY DEF Slots, Processes, Unreaped, Alive, None, Test
<1>2. CASE Complete(t) \/ Fail(t) \/ Skip(t)
  <2>1. PICK e, n : Leave(t, e, n)
    BY <1>2 DEF Complete, Fail, Skip
  <2>2. QED
    BY <2>1, <1>1 DEF Leave, TypeOK
<1>3. CASE ~(Complete(t) \/ Fail(t) \/ Skip(t))
  BY <1>3 DEF Child, SetGroup, DieEarly, TakeLock, Exit, LoseBin, ExitItself, Crash, End,
              Spawn, StrayFail, StrayEnd
<1>4. QED
  BY <1>2, <1>3

LEMMA CleanSlotsStep ==
  ASSUME "straggler" \notin Mishaps, IInv, CleanSlots, [Next]_vars
  PROVE  CleanSlots'
<1> USE DEF IInv, CleanSlots
<1>1. ASSUME NEW t \in Test, Child(t) PROVE CleanSlots'
  <2>1. kids' = kids
    BY <1>1 DEF Child, SetGroup, DieEarly, Complete, Fail, Skip, Leave, TakeLock, Exit,
                End, LoseBin, ExitItself, Crash, Spawn, StrayFail, StrayEnd
  <2>2. /\ UNCHANGED <<test, fork, pc, cur>>
        /\ \A u \in Test : u # t => proc'[u] = proc[u]
        /\ proc'[t] \in {"unborn", "forked", "running"} =>
             proc[t] \in {"unborn", "forked", "running"}
    BY <1>1 DEF TypeOK, Child, SetGroup, DieEarly, Complete, Fail, Skip, Leave, TakeLock,
                Exit, End, LoseBin, ExitItself, Crash, Spawn, StrayFail, StrayEnd, parentVars
  <2>3. CASE env' = env
    BY <2>1, <2>2, <2>3 DEF Isolation, TypeOK
  <2>4. CASE /\ proc'[t] = "exiting" /\ home[t] \in Job /\ fork[home[t]] = t
             /\ \A j \in Job : j # home[t] => env'[j] = env[j]
    <3>1. pc = "fork" => home[t] # cur
      BY <2>4 DEF Slots, None, Test
    <3>2. test[home[t]] = t
      BY <2>4 DEF Slots, None, Test
    <3>3. QED
      BY <2>1, <2>2, <2>4, <3>1, <3>2 DEF Isolation, TypeOK
  <2>5. QED
    BY <2>3, <2>4, <1>1, ChildWrites
<1>2. CASE Prep \/ RunDisabled
  BY <1>2 DEF Prep, RunDisabled, PassDisabled, ClearEnv, Isolation, TypeOK, Control,
              Unvisited, childVars, None
<1>3. CASE ForkChild
  BY <1>3 DEF ForkChild, Isolation, TypeOK, NothingLost, Control, None
<1>4. CASE Move
  <2>1. UNCHANGED <<test, env, proc, kids>>
    BY <1>4 DEF Move, Exhausted, AwaitGroup, Finish, ChildWait, DrainNone, SweepIdle,
                SweepInTime, SweepLate, childVars
  <2>2. pc' # "fork"
    BY <1>4, ResumeType DEF Move, Exhausted, AwaitGroup, Finish, ChildWait, DrainNone,
                            SweepIdle, SweepInTime, SweepLate
  <2>3. QED
    BY <2>1, <2>2 DEF Isolation
<1>5. ASSUME NEW j \in Job, NEW r, NEW t \in Test, Cleanup(j, r), Reap(t),
             UNCHANGED <<env, kids>>, pc' # "fork"
      PROVE  CleanSlots'
  <2>1. \A k \in Job : test'[k] # None => test'[k] = test[k]
    BY <1>5 DEF Cleanup, Vacate, TypeOK
  <2>2. \A u \in Test : proc'[u] = proc[u] \/ proc'[u] = "reaped"
    BY <1>5 DEF Reap, TypeOK
  <2>3. QED
    BY <2>1, <2>2, <1>5 DEF Isolation, TypeOK
<1>6. CASE \E t \in Test : DrainReap(t)
  <2>1. PICK t \in Test : DrainReap(t)
    BY <1>6
  <2>2. PICK j \in Job : Cleanup(j, status[t]) /\ pc' = "next"
    BY <2>1 DEF DrainReap, Processes, Unreaped
  <2>3. QED
    BY <2>1, <2>2, <1>5 DEF DrainReap
<1>7. CASE TermReap
  <2>1. fork[cur] \in Test /\ cur \in Job
    BY <1>7 DEF TermReap, TypeOK, Control, Slots
  <2>2. QED
    BY <1>7, <2>1, <1>5 DEF TermReap
<1>8. CASE TermKill
  BY <1>8 DEF TermKill, KillGroup, Isolation, TypeOK
<1>9. CASE (\E j \in Job : Expire(j)) \/ UNCHANGED vars
  BY <1>9 DEF Expire, vars, parentVars, childVars, Isolation
<1>10. QED
  BY <1>1, <1>2, <1>3, <1>4, <1>6, <1>7, <1>8, <1>9 DEF Next, Parent, Move, Over

(* As long as tests leave no process behind, each one starts with a clean  *)
(* TestEnv and nobody else marks it (TestEnv::reset, Job::prep).           *)
THEOREM TestsIsolated ==
  ASSUME "straggler" \notin Mishaps
  PROVE  Spec => []Isolation
<1>1. Init => CleanSlots
  BY DEF Init, CleanSlots, Isolation, None
<1>2. CleanSlots => Isolation
  BY DEF CleanSlots
<1>3. QED
  BY <1>1, <1>2, CleanSlotsStep, Inductive, PTL DEF Spec
=============================================================================
