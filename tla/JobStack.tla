------------------------------ MODULE JobStack ------------------------------
(***************************************************************************)
(* The non-forking runner: the loop of Main::run (main.cpp) with           *)
(* BasicJob::run and BasicSharedJob::_exit (jobs.cpp).  Tests run one      *)
(* after the other in the program itself, a failed assertion longjmps out  *)
(* of the test, and a test may run tests of its own: another Main::run     *)
(* with another vector and other Results, on top of the first.             *)
(*                                                                         *)
(* One frame stands for a Main::run, the job it runs and its TestEnv; the  *)
(* deepest is the one that executes.  What an assertion, pt_skip() or      *)
(* pt_get_port() is about is only known to the stack _jobs.  The forks of  *)
(* Jobs have no such stack to keep: their children never return.           *)
(***************************************************************************)
EXTENDS Results, SequencesExt

CONSTANTS
  NTests,    \* tests.size(), of every run
  Depth,     \* how deep runs may be nested
  Decls      \* the declarations the tests may have

ASSUME StackAssumption ==
  /\ NTests \in Nat
  /\ Depth \in Nat \ {0}
  /\ Decls \subseteq Decl

Test  == 1 .. NTests
Level == 1 .. Depth

VARIABLES
  frame,     \* of each level: its tests, how many of them it has taken, its
             \* TestEnv, verdicts and counters, and where it is
  depth,     \* the level that executes
  jobs,      \* _jobs: the level and the test of each job, the top last
  thread,    \* a test has started a thread
  ending,    \* how the program ended, "running" before
  exit       \* what it exited with, -1 if it did not

vars == <<frame, depth, jobs, thread, ending, exit>>

Frame == [tests : [Test -> Decls], testI : 0 .. NTests, env : TestEnv,
          verdict : [Test -> Verdicts \cup {"none"}], rslts : Counters,
          at : {"loop", "body", "cleanup"}]

(* Main::run has bound, counted and shuffled its tests.                    *)
New(ds) ==
  [tests |-> ds, testI |-> 0, env |-> ResetEnv,
   verdict |-> [t \in Test |-> "none"],
   rslts |-> Counted(NTests, Cardinality({t \in Test : ds[t].enabled})),
   at |-> "loop"]

Init ==
  /\ \E ds \in [Test -> Decls] : frame = [l \in Level |-> New(ds)]
  /\ depth = 1
  /\ jobs = <<>>
  /\ thread = FALSE
  /\ ending = "running" /\ exit = -1

-----------------------------------------------------------------------------

(* The frame that executes is at the given place.                          *)
At(place) == ending = "running" /\ frame[depth].at = place

(* Frame f with the result of test t, judged by e alone: in one process    *)
(* no exit status and no signal is added to it.                            *)
Recorded(f, t, e) ==
  LET v == Judge(f.tests[t], e, ResetResult)
  IN  [f EXCEPT !.testI = t, !.env = e, !.verdict[t] = v, !.rslts = Tally(@, v),
                !.at = "loop"]

Upcoming == frame[depth].testI + 1

(* TestEnv::reset of the executing frame.                                  *)
Kept(e)  == e
Reset(e) == ResetEnv

(* The test after the last one: Job::prep of a disabled test records it.   *)
RunDisabled ==
  /\ At("loop") /\ Upcoming \in Test
  /\ ~frame[depth].tests[Upcoming].enabled
  /\ frame' = [frame EXCEPT ![depth] = Recorded(@, Upcoming, Reset(@.env))]
  /\ UNCHANGED <<depth, jobs, thread, ending, exit>>

(* Job::prep of an enabled test, and setjmp().                             *)
Start ==
  /\ At("loop") /\ Upcoming \in Test
  /\ frame[depth].tests[Upcoming].enabled
  /\ frame' = [frame EXCEPT ![depth] =
                 [@ EXCEPT !.testI = Upcoming, !.env = Reset(@), !.at = "body"]]
  /\ jobs' = Append(jobs, [level |-> depth, test |-> Upcoming])
  /\ UNCHANGED <<depth, thread, ending, exit>>

(* The test calls Main::run.                                               *)
Nest ==
  /\ At("body") /\ depth < Depth
  /\ \E ds \in [Test -> Decls] : frame' = [frame EXCEPT ![depth + 1] = New(ds)]
  /\ depth' = depth + 1
  /\ UNCHANGED <<jobs, thread, ending, exit>>

(* The test or the benchmark returns.                                      *)
Complete ==
  /\ At("body")
  /\ LET f == frame[depth]
         e == [f.env EXCEPT !.benched = @ \/ f.tests[f.testI].bench]
     IN  frame' = [frame EXCEPT ![depth] = [@ EXCEPT !.env = e, !.at = "cleanup"]]
  /\ UNCHANGED <<depth, jobs, thread, ending, exit>>

(* The job an assertion is about, and longjmp() back into its run(), past  *)
(* the frames of anything called from there.                               *)
Top == Last(jobs).level
LongJmp(e) ==
  /\ frame' = [frame EXCEPT ![Top] = [@ EXCEPT !.env = e, !.at = "cleanup"]]
  /\ depth' = Top

(* pt_fail() and every failed assertion, on the thread of the test.        *)
Fail ==
  /\ At("body")
  /\ LongJmp([frame[Top].env EXCEPT !.failed = TRUE])
  /\ UNCHANGED <<jobs, thread, ending, exit>>

(* pt_skip().                                                              *)
Skip ==
  /\ At("body")
  /\ LongJmp([frame[Top].env EXCEPT !.skipped = TRUE])
  /\ UNCHANGED <<jobs, thread, ending, exit>>

(* _jobs.pop().                                                            *)
KeepTop(s) == s
Popped(s) == Front(s)

(* Job::finish: the user's cleanup function has run, the test is recorded, *)
(* and its job leaves the stack.                                           *)
Finish ==
  /\ At("cleanup")
  /\ frame' = [frame EXCEPT ![depth] = Recorded(@, @.testI, @.env)]
  /\ jobs' = Popped(jobs)
  /\ UNCHANGED <<depth, thread, ending, exit>>

(* The run of the executing frame has no test left.                        *)
OutOfTests == At("loop") /\ frame[depth].testI = NTests

(* Back in the test that called Main::run; its frame is gone.              *)
Unnest ==
  /\ OutOfTests /\ depth > 1
  /\ frame' = [frame EXCEPT ![depth] = New(frame[1].tests)]
  /\ depth' = depth - 1
  /\ UNCHANGED <<jobs, thread, ending, exit>>

(* The program ends.                                                       *)
End(how, n) ==
  /\ ending' = how /\ exit' = n
  /\ UNCHANGED <<frame, depth, jobs, thread>>

(* main() returns the exit code of the outermost run.                      *)
Return == OutOfTests /\ depth = 1 /\ End("returned", ExitCode(frame[1].rslts))

(* A test ends the program by itself: ::exit(n), or a signal.              *)
ExitItself(n) == At("body") /\ End("exited", n)
Crash == At("body") /\ End("killed", -1)

StartThread ==
  /\ At("body") /\ ~thread
  /\ thread' = TRUE
  /\ UNCHANGED <<frame, depth, jobs, ending, exit>>

(* Another thread calls pt_fail() or pt_skip(), also long after its test:  *)
(* _exit() complains and ends the program with n.  The top of an empty     *)
(* stack is undefined: it may still hold the last job, or end the program. *)
ElsewhereFail ==
  /\ ending = "running" /\ thread
  /\ \/ End("complained", 255)
     \/ jobs = <<>> /\ End("killed", -1)
ElsewhereSkip ==
  /\ ending = "running" /\ thread
  /\ \/ End("complained", 0)
     \/ jobs = <<>> /\ End("killed", -1)

Over == ending # "running" /\ UNCHANGED vars

Next ==
  \/ RunDisabled \/ Start \/ Nest \/ Complete \/ Fail \/ Skip \/ Finish
  \/ Unnest \/ Return
  \/ (\E n \in ExitCodes : ExitItself(n)) \/ Crash
  \/ StartThread \/ ElsewhereFail \/ ElsewhereSkip
  \/ Over

Spec == Init /\ [][Next]_vars

-----------------------------------------------------------------------------

TypeOK ==
  /\ frame \in [Level -> Frame]
  /\ depth \in Level
  /\ jobs \in Seq([level : Level, test : Test])
  /\ thread \in BOOLEAN
  /\ ending \in {"running", "returned", "exited", "killed", "complained"}
  /\ exit \in ExitCodes \cup {-1, 1}

(* How many frames have a job that runs.                                   *)
Height == IF frame[depth].at = "loop" THEN depth - 1 ELSE depth

(* The stack is that of the tests that are under way, one of each frame    *)
(* and in their order, whatever was jumped past: the job on top is the one *)
(* whose code executes, for its assertions as for its cleanup function,    *)
(* and its jmp_buf is that of a frame that has not returned.               *)
StackIsFrames ==
  /\ Len(jobs) = Height
  /\ \A l \in 1 .. Height : jobs[l] = [level |-> l, test |-> frame[l].testI]
  /\ \A l \in 1 .. depth - 1 : frame[l].at = "body"

(* A test that waits for a run of its own is not touched by what the tests *)
(* in there do: no failure, skip or count of theirs is its own.            *)
OuterUntouched == \A l \in 1 .. depth - 1 : frame[l].env = ResetEnv

(* When a run ends, nested or not, it has a verdict of each of its tests,  *)
(* and its exit code is 0 exactly when none of them is bad.                *)
RunsTruthful ==
  \A l \in 1 .. depth :
    frame[l].at = "loop" /\ frame[l].testI = NTests =>
      /\ Done(frame[l].rslts)
      /\ \A t \in Test : frame[l].verdict[t] # "none"
      /\ ExitCode(frame[l].rslts) = 0 <=>
           \A t \in Test : frame[l].verdict[t] \notin BadVerdicts

(* What a frame has recorded: the tests it is done with, whose number the  *)
(* counters are.                                                           *)
Balanced(f) ==
  /\ \A t \in Test :
       /\ f.verdict[t] # "none" <=> t < f.testI \/ (t = f.testI /\ f.at = "loop")
       /\ f.verdict[t] # "none" => (f.verdict[t] = "disabled" <=> ~f.tests[t].enabled)
  /\ f.at # "loop" => f.testI \in Test /\ f.tests[f.testI].enabled
  /\ f.at = "body" => f.env = ResetEnv
  /\ f.at # "loop" /\ f.env.benched => f.tests[f.testI].bench
  /\ f.rslts.total = NTests
  /\ f.rslts.finished = Cardinality({t \in Test : f.verdict[t] # "none"})
  /\ f.rslts.passes = Cardinality({t \in Test : f.verdict[t] = "pass"})
  /\ f.rslts.enabled =
       Cardinality({t \in Test : f.tests[t].enabled /\ f.verdict[t] \notin {"skipped", "bench"}})

(* The inductive invariant of the runner.                                  *)
StackInv ==
  /\ TypeOK /\ StackIsFrames /\ OuterUntouched
  /\ \A l \in 1 .. depth : Balanced(frame[l])

(* After its complaint about another thread, headed ERROR (jobs.cpp:139),  *)
(* the program does not exit as if all had been well.                      *)
ComplaintFails == ending = "complained" => exit # 0

(* The outermost run implements TestRun, one test at a time, whatever its  *)
(* tests run in between.                                                   *)
State == [t \in Test |->
  LET f == frame[1]
  IN  IF f.verdict[t] # "none" THEN f.verdict[t]
      ELSE IF t <= f.testI THEN "running" ELSE "waiting"]
Promise == INSTANCE TestRun WITH
  NJobs <- 1, decls <- frame[1].tests, state <- State,
  exit <- IF ending = "returned" THEN exit ELSE -1

Implements == Promise!Init /\ [][Promise!Next]_(Promise!vars)
=============================================================================
