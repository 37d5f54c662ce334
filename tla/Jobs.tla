-------------------------------- MODULE Jobs --------------------------------
(***************************************************************************)
(* The forking runner of paratec: class Jobs and class ForkingJob          *)
(* (jobs.cpp), Fork::fork and Fork::terminate (fork.cpp), and the test     *)
(* processes they start.                                                   *)
(*                                                                         *)
(* One parent process keeps NJobs slots.  It starts a test in every slot,  *)
(* then sleeps, reaps the children that ended, restarts their slots, and   *)
(* kills the tests that are past their deadline, until every test has a    *)
(* result.  A test process shares the TestEnv of its slot with the parent. *)
(* A process the test itself started may outlive it.                       *)
(*                                                                         *)
(* The parent is one sequential process: pc says where it is, and cur and  *)
(* ret stand for the loop variables and the return address of              *)
(* runNextTest().  System calls are its atomic steps.                      *)
(***************************************************************************)
EXTENDS Results

CONSTANTS
  NTests,    \* tests_.size()
  NJobs,     \* -j / PTJOBS
  Decls,     \* the declarations the tests may have
  Mishaps    \* "straggler":  a test leaves processes behind
             \* "earlyDeath": a child may die before setpgid()
             \* "binLost":    open(_bin) may fail in a child

ASSUME JobsAssumption ==
  /\ NTests \in Nat
  /\ NJobs \in Nat \ {0}
  /\ Decls \subseteq Decl

Test == 1 .. NTests   \* positions in tests_, after the shuffle
Job  == 1 .. NJobs
None == 0             \* nullptr, where a test or a fork may be

VARIABLES
  tests,     \* Jobs::tests_
  testI,     \* Jobs::testI_
  test,      \* ForkingJob::test_ of each slot
  fork,      \* ForkingJob::fork_ of each slot: the test whose child it holds
  env,       \* *sj_.env_ of each slot, shared with the slot's children
  rslts,     \* Jobs::rslts_, the counters
  verdict,   \* the results pushed by record(), by test
  pc,        \* where the parent is
  cur,       \* the slot the parent works on
  ret,       \* the loop that called runNextTest()
  overdue,   \* slots whose timeout_after_ has passed
  late,      \* the slots with now > timeout_after_, for checkTimeouts()' now
  proc,      \* the state of each test's process
  status,    \* its exit or signal, kept until it is reaped
  home,      \* the slot whose memory it shares
  kids,      \* the processes it left behind
  lock       \* the holder of flock(_bin)

parentVars == <<testI, test, fork, rslts, verdict, pc, cur, ret>>
childVars  == <<proc, status, home, kids, lock>>
vars == <<tests, env, overdue, late, parentVars, childVars>>

Alive == {"forked", "running", "exiting", "atexit"}
Dead  == {"zombie", "stillborn"}

TypeOK ==
  /\ tests \in [Test -> Decls]
  /\ testI \in 0 .. NTests
  /\ test \in [Job -> Test \cup {None}]
  /\ fork \in [Job -> Test \cup {None}]
  /\ env \in [Job -> TestEnv]
  /\ rslts \in Counters
  /\ verdict \in [Test -> Verdicts \cup {"none"}]
  /\ pc \in {"next", "fork", "await", "loop", "drain", "sweep", "term", "kill",
             "done", "crashed"}
  /\ cur \in Job
  /\ ret \in {"start", "drain", "sweep"}
  /\ overdue \subseteq Job
  /\ late \subseteq Job
  /\ proc \in [Test -> Alive \cup Dead \cup {"unborn", "reaped"}]
  /\ status \in [Test -> Result]
  /\ home \in [Test -> Job \cup {None}]
  /\ kids \in [Test -> {"none", "alive", "gone"}]
  /\ lock \in Test \cup {None}

(* Main::run binds, counts and shuffles the tests: any assignment of       *)
(* declarations to positions.  Jobs::run starts with the first slot.       *)
Init ==
  /\ tests \in [Test -> Decls]
  /\ testI = 0
  /\ test = [j \in Job |-> None]
  /\ fork = [j \in Job |-> None]
  /\ env = [j \in Job |-> ResetEnv]
  /\ rslts = Counted(NTests, Cardinality({t \in Test : tests[t].enabled}))
  /\ verdict = [t \in Test |-> "none"]
  /\ pc = "next" /\ cur = 1 /\ ret = "start"
  /\ overdue = {} /\ late = {}
  /\ proc = [t \in Test |-> "unborn"]
  /\ status = [t \in Test |-> ResetResult]
  /\ home = [t \in Test |-> None]
  /\ kids = [t \in Test |-> "none"]
  /\ lock = None

-----------------------------------------------------------------------------
(* The parent: results.                                                    *)

(* Results::record with the memory e of the slot and the result r.         *)
Record(t, e, r) ==
  LET v == Judge(tests[t], e, r)
  IN  /\ verdict' = [verdict EXCEPT ![t] = v]
      /\ rslts' = Tally(rslts, v)

(* test_ = nullptr and fork_ = nullptr.                                    *)
KeepHeld(f, j) == f
Vacate(f, j) == [f EXCEPT ![j] = None]

(* ForkingJob::cleanup and Job::finish: the slot's test is recorded, and   *)
(* the slot forgets the test, its child and its deadline.                  *)
Cleanup(j, r) ==
  /\ Record(test[j], env[j], r)
  /\ test' = Vacate(test, j)
  /\ fork' = Vacate(fork, j)
  /\ overdue' = overdue \ {j}
  /\ late' = late \ {j}

-----------------------------------------------------------------------------
(* The parent: Jobs::runNextTest and what it calls.                        *)

(* Back from runNextTest: the loop over the slots goes on, or ends; the    *)
(* drain loop polls again.                                                 *)
Resume ==
  /\ IF ret # "drain" /\ cur < NJobs
       THEN /\ cur' = cur + 1
            /\ pc' = IF ret = "start" THEN "next" ELSE "sweep"
       ELSE /\ cur' = cur
            /\ pc' = IF ret = "drain" THEN "drain" ELSE "loop"
  /\ UNCHANGED ret

(* TestEnv::reset of the slot's memory.                                    *)
KeepEnv(j)  == env
ClearEnv(j) == [env EXCEPT ![j] = ResetEnv]

(* runNextTest's loop goes on after a disabled test: run() returned false. *)
StopAtDisabled  == Resume
PassDisabled == UNCHANGED <<pc, cur, ret>>

(* Job::prep of a disabled test: recorded without a process.               *)
RunDisabled ==
  /\ pc = "next" /\ testI < NTests
  /\ ~tests[testI + 1].enabled
  /\ testI' = testI + 1
  /\ env' = ClearEnv(cur)
  /\ Record(testI + 1, ResetEnv, ResetResult)
  /\ PassDisabled
  /\ UNCHANGED <<tests, test, fork, overdue, late, childVars>>

(* Job::prep of an enabled test.                                           *)
Prep ==
  /\ pc = "next" /\ testI < NTests
  /\ tests[testI + 1].enabled
  /\ testI' = testI + 1
  /\ test' = [test EXCEPT ![cur] = testI + 1]
  /\ env' = ClearEnv(cur)
  /\ pc' = "fork"
  /\ UNCHANGED <<tests, fork, rslts, verdict, cur, ret, overdue, late, childVars>>

(* runNextTest with no test left.                                          *)
Exhausted ==
  /\ pc = "next" /\ testI = NTests
  /\ Resume
  /\ UNCHANGED <<tests, testI, test, fork, env, rslts, verdict, overdue, late,
                 childVars>>

(* ::fork() in Fork::fork.                                                 *)
ForkChild ==
  /\ pc = "fork"
  /\ fork' = [fork EXCEPT ![cur] = test[cur]]
  /\ proc' = [proc EXCEPT ![test[cur]] = "forked"]
  /\ home' = [home EXCEPT ![test[cur]] = cur]
  /\ pc' = "await"
  /\ UNCHANGED <<tests, testI, test, env, rslts, verdict, cur, ret, overdue, late,
                 status, kids, lock>>

(* getpgid(pid_) = pid_: the child has called setpgid(), whatever became   *)
(* of it since.  A zombie keeps its group, and getpgid() only fails once   *)
(* the child is reaped: the wait does not end when the child dies.         *)
EveryChild(t) == TRUE
InOwnGroup(t) == proc[t] \notin {"unborn", "forked", "stillborn"}

AwaitGroup ==
  /\ pc = "await"
  /\ InOwnGroup(fork[cur])
  /\ Resume
  /\ UNCHANGED <<tests, testI, test, fork, env, rslts, verdict, overdue, late,
                 childVars>>

-----------------------------------------------------------------------------
(* The parent: Jobs::run and Jobs::checkTimeouts.                          *)

(* The outer loop ends once every test is recorded.                        *)
Finish ==
  /\ pc = "loop" /\ Done(rslts)
  /\ pc' = "done"
  /\ UNCHANGED <<tests, testI, test, fork, env, rslts, verdict, cur, ret, overdue,
                 late, childVars>>

(* sig::childWait sleeps until a SIGCHLD or for 10 ms: it may return with  *)
(* nothing to reap.                                                        *)
ChildWait ==
  /\ pc = "loop" /\ ~Done(rslts)
  /\ pc' = "drain"
  /\ UNCHANGED <<tests, testI, test, fork, env, rslts, verdict, cur, ret, overdue,
                 late, childVars>>

(* waitpid() takes a dead child off the process table.                     *)
Reap(t) ==
  /\ proc' = [proc EXCEPT ![t] = IF @ \in Dead THEN "reaped" ELSE @]
  /\ status' = [status EXCEPT ![t] = ResetResult]

(* waitpid(-1, WNOHANG) returns a child.  Its slot, if it has one, records *)
(* it under cleanupStatus() and calls runNextTest().                       *)
DrainReap(t) ==
  /\ pc = "drain" /\ ~Done(rslts)
  /\ proc[t] \in Dead
  /\ Reap(t)
  /\ IF \E j \in Job : fork[j] = t
       THEN \E j \in Job :
              /\ fork[j] = t
              /\ Cleanup(j, status[t])
              /\ cur' = j /\ ret' = "drain" /\ pc' = "next"
       ELSE UNCHANGED <<rslts, verdict, test, fork, overdue, late, cur, ret, pc>>
  /\ UNCHANGED <<tests, testI, env, home, kids, lock>>

(* The slots with now > timeout_after_.                                    *)
EverySlot == Job
PastDeadline == overdue

Unreaped == {t \in Test : proc[t] \in Alive \cup Dead}

(* waitpid() has no child to return, or every test is recorded: the drain  *)
(* loop ends and checkTimeouts() reads the clock.  With no child at all    *)
(* waitpid() fails with ECHILD, and OSErr ends the run.                    *)
DrainNone ==
  /\ pc = "drain"
  /\ Done(rslts) \/ \A t \in Test : proc[t] \notin Dead
  /\ IF ~Done(rslts) /\ Unreaped = {}
       THEN pc' = "crashed" /\ UNCHANGED <<cur, ret, late>>
       ELSE pc' = "sweep" /\ cur' = 1 /\ ret' = "sweep" /\ late' = PastDeadline
  /\ UNCHANGED <<tests, testI, test, fork, env, rslts, verdict, overdue, childVars>>

(* checkTimeout() of an idle slot: it may take a test.                     *)
SweepIdle ==
  /\ pc = "sweep" /\ test[cur] = None
  /\ pc' = "next"
  /\ UNCHANGED <<tests, testI, test, fork, env, rslts, verdict, cur, ret, overdue,
                 late, childVars>>

SweepInTime ==
  /\ pc = "sweep" /\ test[cur] # None /\ cur \notin late
  /\ Resume
  /\ UNCHANGED <<tests, testI, test, fork, env, rslts, verdict, overdue, late,
                 childVars>>

(* Fork::terminate sends SIGTERM to the child's group.  Crash(t) is the    *)
(* child dying of it, which it may do late or never.                       *)
SweepLate ==
  /\ pc = "sweep" /\ test[cur] # None /\ cur \in late
  /\ pc' = "term"
  /\ UNCHANGED <<tests, testI, test, fork, env, rslts, verdict, cur, ret, overdue,
                 late, childVars>>

(* SIGKILL to the group of t, which is nobody's before t's setpgid().      *)
SpareGroup(t) == UNCHANGED <<proc, status, lock>>
KillGroup(t) ==
  IF InOwnGroup(t) /\ proc[t] \in Alive
    THEN /\ proc' = [proc EXCEPT ![t] = "zombie"]
         /\ status' = [status EXCEPT ![t] = [ResetResult EXCEPT !.signalNum = SIGKILL]]
         /\ lock' = IF lock = t THEN None ELSE lock
    ELSE UNCHANGED <<proc, status, lock>>

(* 100 polls passed and the child was still there: SIGKILL, and waitpid()  *)
(* blocks.  It may have ended since the last poll.                         *)
TermKill ==
  /\ pc = "term"
  /\ KillGroup(fork[cur])
  /\ pc' = "kill"
  /\ UNCHANGED <<tests, testI, test, fork, env, rslts, verdict, cur, ret, overdue,
                 late, home, kids>>

(* What waitpid(pid_) waits for.                                           *)
NotAwaited(t) == TRUE
Ended(t) == proc[t] \in Dead

(* waitpid(pid_) of Fork::terminate reaps the child, whatever its status;  *)
(* checkTimeout() records a timeout and runNextTest() follows.             *)
TermReap ==
  /\ pc \in {"term", "kill"}
  /\ Ended(fork[cur])
  /\ Reap(fork[cur])
  /\ Cleanup(cur, [ResetResult EXCEPT !.timedout = TRUE])
  /\ pc' = "next"
  /\ UNCHANGED <<tests, testI, env, cur, ret, home, kids, lock>>

Parent ==
  \/ RunDisabled \/ Prep \/ Exhausted \/ ForkChild \/ AwaitGroup
  \/ Finish \/ ChildWait \/ (\E t \in Test : DrainReap(t)) \/ DrainNone
  \/ SweepIdle \/ SweepInTime \/ SweepLate \/ TermKill \/ TermReap

-----------------------------------------------------------------------------
(* The test processes.                                                     *)

(* sig::reset() and setpgid(0, 0) of the child's arm of Fork::fork.        *)
SetGroup(t) ==
  /\ proc[t] = "forked"
  /\ proc' = [proc EXCEPT ![t] = "running"]
  /\ UNCHANGED <<tests, env, overdue, late, parentVars, status, home, kids, lock>>

(* The child dies before setpgid().                                        *)
DieEarly(t) ==
  /\ "earlyDeath" \in Mishaps
  /\ proc[t] = "forked"
  /\ proc' = [proc EXCEPT ![t] = "stillborn"]
  /\ status' = [status EXCEPT ![t].signalNum = SIGKILL]
  /\ UNCHANGED <<tests, env, overdue, late, parentVars, home, kids, lock>>

(* The test calls SharedJob::exit(n), having left e in its slot's memory.  *)
Leave(t, e, n) ==
  /\ proc[t] = "running"
  /\ proc' = [proc EXCEPT ![t] = "exiting"]
  /\ status' = [status EXCEPT ![t].exitStatus = n]
  /\ env' = [env EXCEPT ![home[t]] = e]
  /\ UNCHANGED <<tests, overdue, late, parentVars, home, kids, lock>>

(* The test or the benchmark runs to its end; runBench() stores how many   *)
(* iterations it made (one at least, but for -d 0: see Decl of Results).   *)
Complete(t) == Leave(t, [env[home[t]] EXCEPT !.benched = @ \/ tests[t].bench], 0)

(* pt_fail() and every failed assertion.                                   *)
Fail(t) == Leave(t, [env[home[t]] EXCEPT !.failed = TRUE], 255)

(* pt_skip().                                                              *)
Skip(t) == Leave(t, [env[home[t]] EXCEPT !.skipped = TRUE], 0)

(* ForkingSharedJob::_exit takes the flock that serialises ::exit().       *)
TakeLock(t) ==
  /\ proc[t] = "exiting" /\ lock = None
  /\ proc' = [proc EXCEPT ![t] = "atexit"]
  /\ lock' = t
  /\ UNCHANGED <<tests, env, overdue, late, parentVars, status, home, kids>>

(* The test calls ::exit(n) itself, as PTEXIT tests do: no flock.          *)
ExitItself(t, n) ==
  /\ proc[t] = "running"
  /\ proc' = [proc EXCEPT ![t] = "atexit"]
  /\ status' = [status EXCEPT ![t].exitStatus = n]
  /\ UNCHANGED <<tests, env, overdue, late, parentVars, home, kids, lock>>

(* The process ends as st, and with it its flock.                          *)
End(t, st) ==
  /\ proc' = [proc EXCEPT ![t] = "zombie"]
  /\ status' = [status EXCEPT ![t] = st]
  /\ lock' = IF lock = t THEN None ELSE lock
  /\ UNCHANGED <<tests, env, overdue, late, parentVars, home, kids>>

Exit(t) == proc[t] = "atexit" /\ End(t, status[t])

(* The test dies of a signal: its own fault, or the runner's SIGTERM.      *)
Crash(t, s) ==
  /\ proc[t] \in {"running", "exiting", "atexit"}
  /\ End(t, [ResetResult EXCEPT !.signalNum = s])

(* _exit cannot open the test binary: OSErr is thrown and nobody catches   *)
(* it.                                                                     *)
LoseBin(t) ==
  /\ "binLost" \in Mishaps
  /\ proc[t] = "exiting"
  /\ End(t, [ResetResult EXCEPT !.signalNum = SIGABRT])

(* The test forks a process of its own, ...                                *)
Spawn(t) ==
  /\ "straggler" \in Mishaps
  /\ proc[t] = "running" /\ kids[t] = "none"
  /\ kids' = [kids EXCEPT ![t] = "alive"]
  /\ UNCHANGED <<tests, env, overdue, late, parentVars, proc, status, home, lock>>

(* ... which may fail an assertion at any later time, ...                  *)
StrayFail(t) ==
  /\ kids[t] = "alive"
  /\ env' = [env EXCEPT ![home[t]].failed = TRUE]
  /\ kids' = [kids EXCEPT ![t] = "gone"]
  /\ UNCHANGED <<tests, overdue, late, parentVars, proc, status, home, lock>>

(* ... or end, by itself or with its group.                                *)
StrayEnd(t) ==
  /\ kids[t] = "alive"
  /\ kids' = [kids EXCEPT ![t] = "gone"]
  /\ UNCHANGED <<tests, env, overdue, late, parentVars, proc, status, home, lock>>

Child(t) ==
  \/ SetGroup(t) \/ DieEarly(t)
  \/ Complete(t) \/ Fail(t) \/ Skip(t) \/ TakeLock(t) \/ Exit(t) \/ LoseBin(t)
  \/ (\E n \in ExitCodes : ExitItself(t, n))
  \/ (\E s \in Signals : Crash(t, s))
  \/ Spawn(t) \/ StrayFail(t) \/ StrayEnd(t)

(* timeout_after_ of slot j passes.                                        *)
Expire(j) ==
  /\ test[j] # None /\ j \notin overdue
  /\ overdue' = overdue \cup {j}
  /\ UNCHANGED <<tests, env, late, parentVars, childVars>>

(* The run is over; it must not count as a deadlock.                       *)
Over == pc \in {"done", "crashed"} /\ UNCHANGED vars

Next ==
  \/ Parent
  \/ \E t \in Test : Child(t)
  \/ \E j \in Job : Expire(j)
  \/ Over

(* The kernel schedules the parent and a fresh child, and time passes.     *)
(* Nothing is assumed of a test once its own code runs.                    *)
Fairness ==
  /\ WF_vars(Parent)
  /\ \A t \in Test : WF_vars(SetGroup(t))
  /\ \A j \in Job : WF_vars(Expire(j))

Spec == Init /\ [][Next]_vars
FairSpec == Spec /\ Fairness

-----------------------------------------------------------------------------
(* Invariants.                                                             *)

(* No test is lost or run twice: a test that was started and has no        *)
(* verdict is in a slot, and in no other; a slot holds no other test       *)
(* (testI_++ in runNextTest, test_ = nullptr in finish).                   *)
NothingLost ==
  /\ \A t \in Test :
       t <= testI /\ verdict[t] = "none" => \E j \in Job : test[j] = t
  /\ \A j \in Job :
       test[j] # None =>
         /\ test[j] <= testI /\ verdict[test[j]] = "none"
         /\ \A k \in Job : test[k] = test[j] => k = j

(* The children on the process table are exactly those the slots hold: no  *)
(* child is forgotten, none is left when the run is over, and no slot      *)
(* waits for a pid that is gone (fork_ = nullptr in ForkingJob::cleanup).  *)
ChildrenOwned == \A t \in Test : t \in Unreaped <=> \E j \in Job : fork[j] = t

(* waitpid(-1) is never called without a child: its ECHILD would end the   *)
(* run with an uncaught OSErr (jobs.cpp:357).                              *)
NoWaitError == pc # "crashed"

(* A slot the starting loop of Jobs::run has yet to visit, or the one that *)
(* runNextTest() is filling.                                               *)
Unvisited(j) ==
  \/ pc = "next" /\ j = cur
  \/ pc \in {"next", "fork", "await"} /\ ret = "start" /\ j > cur

(* Every slot is busy while tests wait: an idle slot means that the vector *)
(* is exhausted (the loop of runNextTest goes on past disabled tests).     *)
KeepsBusy == \A j \in Job : test[j] = None => testI = NTests \/ Unvisited(j)

(* Fork::terminate is never called for a child that is not yet in a group  *)
(* of its own, where killpg() would do nothing (fork.cpp:152).             *)
GroupReady == pc \in {"term", "kill"} => proc[fork[cur]] # "forked"

(* A live test process only ever writes to the memory of a slot that holds *)
(* its test: no slot is reused before the child has ended.                 *)
SoleWriter == \A t \in Test : proc[t] \in Alive => test[home[t]] = t

(* A test starts with a clean TestEnv: until it, or a process it started,  *)
(* does so itself, nothing marks it as failed (README: tests are run in    *)
(* isolation from each other).                                             *)
Isolation ==
  \A j \in Job :
    /\ test[j] # None
    /\ proc[test[j]] \in {"unborn", "forked", "running"}
    /\ kids[test[j]] = "none"
    => env[j] = ResetEnv

(* The exit code is 0 exactly when no test was judged bad, although it is  *)
(* computed from counters that skips and benchmarks are taken out of.      *)
TruthfulExit ==
  pc = "done" =>
    (ExitCode(rslts) = 0 <=> \A t \in Test : verdict[t] \in Verdicts \ BadVerdicts)

(* The counters are what a recount of the verdicts gives.                  *)
Accounting ==
  /\ rslts.total = NTests
  /\ rslts.finished = Cardinality({t \in Test : verdict[t] # "none"})
  /\ rslts.passes = Cardinality({t \in Test : verdict[t] = "pass"})
  /\ rslts.enabled =
       Cardinality({t \in Test : tests[t].enabled /\ verdict[t] \notin {"skipped", "bench"}})

(* Where the parent is says what its loop variables hold, ...              *)
Control ==
  /\ \A j \in Job : Unvisited(j) => test[j] = None
  /\ pc \in {"fork", "await", "term", "kill"} => test[cur] # None
  /\ pc \in {"sweep", "term", "kill"} => ret = "sweep"
  /\ pc = "done" => Done(rslts)

(* ... a slot's fork and test are one and the same, ...                    *)
Slots ==
  \A j \in Job :
    /\ fork[j] = IF pc = "fork" /\ j = cur THEN None ELSE test[j]
    /\ fork[j] # None => proc[fork[j]] \in Alive \cup Dead /\ home[fork[j]] = j
    /\ test[j] # None => tests[test[j]].enabled

(* ... and a test has a process only while a slot holds it.                *)
Processes ==
  \A t \in Test :
    /\ t \in Unreaped => \E j \in Job : fork[j] = t
    /\ proc[t] \in {"forked", "stillborn"} => pc = "await" /\ fork[cur] = t

Recount ==
  \A t \in Test :
    /\ t > testI => verdict[t] = "none"
    /\ verdict[t] # "none" => (verdict[t] = "disabled" <=> ~tests[t].enabled)

(* The inductive invariant of the runner.                                  *)
IInv ==
  /\ TypeOK /\ NoWaitError /\ Control /\ Slots /\ Processes
  /\ NothingLost /\ KeepsBusy /\ Recount /\ Accounting

-----------------------------------------------------------------------------
(* Action properties and liveness.                                         *)

Recorded(j) == test[j] # None /\ verdict[test[j]] = "none" /\ verdict'[test[j]] # "none"

(* Only a test whose deadline has passed is recorded as timed out,         *)
(* although checkTimeouts() judges all slots by one reading of the clock   *)
(* and refills slots on the way.                                           *)
OnlyLateTimedOut ==
  [][\A j \in Job : Recorded(j) /\ verdict'[test[j]] = "timedout" => j \in overdue]_vars

(* A failed assertion reaches the report of its own test, whatever the     *)
(* exit code or the signal its process then ended with, unless the test    *)
(* was expected to fail or skipped itself afterwards.                      *)
FailureShows ==
  [][\A j \in Job :
       Recorded(j) /\ env[j].failed /\ ~tests[test[j]].expectFail
         => verdict'[test[j]] \in BadVerdicts \cup {"skipped"}]_vars

(* A test past its deadline is recorded, even if it never ends by itself   *)
(* and ignores SIGTERM.                                                    *)
LateTestsEnd == \A j \in Job : j \in overdue ~> j \notin overdue

(* Fork::fork comes back from waiting for the child's group.               *)
AwaitEnds == pc = "await" ~> pc # "await"

(* Jobs implements TestRun.                                                *)
State == [t \in Test |-> IF verdict[t] # "none" THEN verdict[t]
                         ELSE IF t <= testI THEN "running" ELSE "waiting"]
Promise == INSTANCE TestRun WITH
  decls <- tests, state <- State, exit <- IF pc = "done" THEN ExitCode(rslts) ELSE -1

(* Every step of the runner is a step of TestRun or invisible to it: order *)
(* of starts, at most NJobs at a time, one verdict each, exit code.        *)
Implements == Promise!Init /\ [][Promise!Next]_(Promise!vars)

(* The same, and the run ends whatever its tests do.                       *)
KeepsPromise == Promise!Spec
=============================================================================
