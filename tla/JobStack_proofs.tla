-------------------------- MODULE JobStack_proofs --------------------------
(***************************************************************************)
(* Proofs about the non-forking runner, for any number of tests, any depth *)
(* of nesting and any declarations.                                        *)
(*                                                                         *)
(* StackInv is inductive.  Only the executing frame ever changes, because  *)
(* the job on top of the stack is its own: longjmp() stays in the frame.   *)
(***************************************************************************)
EXTENDS JobStack, TLAPS, FiniteSetTheorems, SequenceTheorems

-----------------------------------------------------------------------------
(* Verdicts and counters of one frame.                                     *)

LEMMA JudgeOf ==
  ASSUME NEW d \in Decl, NEW e \in TestEnv
  PROVE  /\ Judge(d, e, ResetResult) \in Verdicts
         /\ Judge(d, e, ResetResult) = "disabled" <=> ~d.enabled
BY DEF Decl, TestEnv, ResetResult, Judge, Finalize, Verdict, Verdicts, BadVerdicts

LEMMA TestsFinite ==
  /\ IsFiniteSet(Test) /\ Cardinality(Test) = NTests
  /\ \A P \in SUBSET Test : IsFiniteSet(P) /\ Cardinality(P) \in Nat
<1>1. IsFiniteSet(Test) /\ Cardinality(Test) = NTests
  BY FS_Interval, StackAssumption DEF Test
<1>2. QED
  BY <1>1, FS_Subset, FS_CardinalityType

LEMMA OneMore ==
  ASSUME NEW P \in SUBSET Test, NEW t \in Test, t \notin P
  PROVE  Cardinality(P \cup {t}) = Cardinality(P) + 1
BY TestsFinite, FS_AddElement

LEMMA OneLess ==
  ASSUME NEW P \in SUBSET Test, NEW t \in P
  PROVE  Cardinality(P \ {t}) = Cardinality(P) - 1
BY TestsFinite, FS_RemoveElement

LEMMA TallyFields ==
  ASSUME NEW c \in Counters, NEW v
  PROVE  LET n == Tally(c, v)
         IN  /\ n.total = c.total
             /\ n.finished = c.finished + 1
             /\ n.passes = c.passes + One(v = "pass")
             /\ n.enabled = c.enabled - One(v \in {"skipped", "bench"})
             /\ n.enabled \in Nat => n \in Counters
<1> DEFINE n == Tally(c, v)
<1>1. /\ n.total = c.total
      /\ n.finished = c.finished + 1
      /\ n.passes = c.passes + One(v = "pass")
      /\ n.enabled = c.enabled - One(v \in {"skipped", "bench"})
  BY DEF Tally, Counters, Uncounted
<1>2. ASSUME n.enabled \in Nat PROVE n \in Counters
  <2>1. n = [c EXCEPT !.finished = n.finished, !.enabled = n.enabled,
                      !.skipped  = n.skipped,  !.passes  = n.passes,
                      !.errors   = n.errors,   !.failures = n.failures,
                      !.benches  = n.benches]
    BY DEF Tally, Counters
  <2>2. One(v = "skipped") \in Nat /\ One(v = "pass") \in Nat
        /\ One(v = "error") \in Nat /\ One(v = "bench") \in Nat
        /\ One(v \in {"failed", "timedout"}) \in Nat
    BY DEF One
  <2>3. /\ n.finished \in Nat /\ n.skipped \in Nat /\ n.passes \in Nat
        /\ n.errors \in Nat /\ n.failures \in Nat /\ n.benches \in Nat
    BY <2>2 DEF Tally, Counters
  <2>4. QED
    BY <1>2, <2>1, <2>3 DEF Counters
<1>3. QED
  BY <1>1, <1>2

Known(f)    == {t \in Test : f.verdict[t] # "none"}
Passed(f)   == {t \in Test : f.verdict[t] = "pass"}
Counting(f) == {t \in Test : f.tests[t].enabled /\ f.verdict[t] \notin {"skipped", "bench"}}

(* A fresh frame, as Main::run starts with it.                             *)
LEMMA FreshFrame ==
  ASSUME NEW ds \in [Test -> Decls]
  PROVE  New(ds) \in Frame /\ Balanced(New(ds))
<1> DEFINE f == New(ds)
<1>1. /\ f.tests = ds /\ f.testI = 0 /\ f.env = ResetEnv /\ f.at = "loop"
      /\ f.verdict = [t \in Test |-> "none"]
      /\ f.rslts = Counted(NTests, Cardinality({t \in Test : ds[t].enabled}))
  BY DEF New
<1>2. f \in Frame
  <2>1. Cardinality({t \in Test : ds[t].enabled}) \in Nat
    BY TestsFinite
  <2>2. f.rslts \in Counters
    BY <1>1, <2>1, StackAssumption DEF Counted, Counters
  <2>3. f.env \in TestEnv /\ 0 \in 0 .. NTests
    BY <1>1, StackAssumption DEF ResetEnv, TestEnv
  <2>4. f.verdict \in [Test -> Verdicts \cup {"none"}]
    BY <1>1
  <2>5. QED
    BY <1>1, <2>2, <2>3, <2>4 DEF New, Frame
<1>3. Known(f) = {} /\ Passed(f) = {} /\ Counting(f) = {t \in Test : ds[t].enabled}
  BY <1>1 DEF Known, Passed, Counting
<1>4. /\ f.rslts.total = NTests /\ f.rslts.finished = 0 /\ f.rslts.passes = 0
      /\ f.rslts.enabled = Cardinality({t \in Test : ds[t].enabled})
  BY <1>1 DEF Counted
<1>5. \A t \in Test : f.verdict[t] = "none" /\ ~(t < 0) /\ t # 0
  BY <1>1 DEF Test
<1> HIDE DEF f
<1>6. Balanced(f)
  BY <1>1, <1>3, <1>4, <1>5, FS_EmptySet DEF Balanced, Known, Passed, Counting
<1>7. QED
  BY <1>2, <1>6 DEF f

(* A frame that has recorded the test it was at, or the disabled one after *)
(* it.                                                                     *)
LEMMA RecordedFrame ==
  ASSUME NEW f \in Frame, Balanced(f), NEW e \in TestEnv, NEW t \in Test,
         f.verdict[t] = "none",
         \/ f.at = "loop" /\ t = f.testI + 1
         \/ f.at # "loop" /\ t = f.testI
  PROVE  LET g == Recorded(f, t, e) IN g \in Frame /\ Balanced(g) /\ g.at = "loop"
<1> DEFINE v == Judge(f.tests[t], e, ResetResult)
           g == Recorded(f, t, e)
<1>1. f.tests[t] \in Decl
  BY StackAssumption DEF Frame
<1>2. v \in Verdicts /\ (v = "disabled" <=> ~f.tests[t].enabled)
  BY <1>1, JudgeOf
<1> HIDE DEF v
<1>3. /\ f.rslts \in Counters /\ f.verdict \in [Test -> Verdicts \cup {"none"}]
      /\ f.testI \in 0 .. NTests
  BY DEF Frame
<1>0. /\ f.rslts.total = NTests
      /\ f.rslts.finished = Cardinality(Known(f))
      /\ f.rslts.passes = Cardinality(Passed(f))
      /\ f.rslts.enabled = Cardinality(Counting(f))
  BY DEF Balanced, Known, Passed, Counting
<1>4. /\ g.tests = f.tests /\ g.testI = t /\ g.env = e /\ g.at = "loop"
      /\ g.verdict = [f.verdict EXCEPT ![t] = v] /\ g.rslts = Tally(f.rslts, v)
  BY DEF Frame, Recorded, v
<1> HIDE DEF g
<1>5. g.verdict \in [Test -> Verdicts \cup {"none"}] /\ g.verdict[t] = v
  BY <1>2, <1>3, <1>4
<1>6. g.rslts.finished = Cardinality(Known(g))
  <2>1. Known(g) = Known(f) \cup {t} /\ t \notin Known(f) /\ Known(f) \in SUBSET Test
    BY <1>2, <1>3, <1>4 DEF Known, Verdicts, BadVerdicts
  <2>2. g.rslts.finished = f.rslts.finished + 1
    BY <1>3, <1>4, TallyFields
  <2>3. QED
    BY <2>1, <2>2, <1>0, OneMore
<1>7. g.rslts.passes = Cardinality(Passed(g))
  <2>1. g.rslts.passes = f.rslts.passes + One(v = "pass")
    BY <1>3, <1>4, TallyFields
  <2>2. CASE v = "pass"
    <3>1. Passed(g) = Passed(f) \cup {t} /\ t \notin Passed(f) /\ Passed(f) \in SUBSET Test
      BY <2>2, <1>3, <1>4 DEF Passed
    <3>2. QED
      BY <3>1, <2>1, <2>2, <1>0, OneMore DEF One
  <2>3. CASE v # "pass"
    <3>1. Passed(g) = Passed(f)
      BY <2>3, <1>3, <1>4 DEF Passed
    <3>2. QED
      BY <3>1, <2>1, <2>3, <1>0, <1>3 DEF One, Counters
  <2>4. QED
    BY <2>2, <2>3
<1>8. g.rslts.enabled = Cardinality(Counting(g))
  <2>1. g.rslts.enabled = f.rslts.enabled - One(v \in {"skipped", "bench"})
    BY <1>3, <1>4, TallyFields
  <2>2. CASE v \in {"skipped", "bench"}
    <3>1. Counting(g) = Counting(f) \ {t} /\ t \in Counting(f) /\ Counting(f) \in SUBSET Test
      BY <2>2, <1>2, <1>3, <1>4 DEF Counting
    <3>2. QED
      BY <3>1, <2>1, <2>2, <1>0, OneLess DEF One
  <2>3. CASE v \notin {"skipped", "bench"}
    <3>1. Counting(g) = Counting(f)
      BY <2>3, <1>3, <1>4 DEF Counting
    <3>2. g.rslts.enabled = f.rslts.enabled
      BY <2>1, <2>3, <1>3 DEF One, Counters
    <3>3. QED
      BY <3>1, <3>2, <1>0
  <2>4. QED
    BY <2>2, <2>3
<1>9. g.rslts.enabled \in Nat
  BY <1>8, TestsFinite DEF Counting
<1>10. g.rslts \in Counters /\ g.rslts.total = NTests
  BY <1>0, <1>3, <1>4, <1>9, TallyFields
<1>12. g \in Frame
  <2>1. g = [f EXCEPT !.testI = g.testI, !.env = g.env, !.verdict = g.verdict,
                      !.rslts = g.rslts, !.at = g.at]
    BY DEF Frame, g, Recorded
  <2>2. t \in 0 .. NTests
    BY StackAssumption DEF Test
  <2>3. QED
    BY <1>4, <1>5, <1>10, <2>1, <2>2 DEF Frame
<1>13. \A u \in Test :
         /\ g.verdict[u] # "none" <=> u < g.testI \/ (u = g.testI /\ g.at = "loop")
         /\ g.verdict[u] # "none" => (g.verdict[u] = "disabled" <=> ~g.tests[u].enabled)
  <2>1. /\ v # "none" /\ \A u \in Test : u # t => g.verdict[u] = f.verdict[u]
    BY <1>2, <1>3, <1>4 DEF Verdicts, BadVerdicts
  <2>2. QED
    BY <1>2, <1>3, <1>4, <1>5, <2>1, StackAssumption DEF Balanced, Test
<1>14. QED
  BY <1>4, <1>6, <1>7, <1>8, <1>10, <1>12, <1>13 DEF g, Balanced, Known, Passed, Counting
-----------------------------------------------------------------------------
(* The inductive invariant.                                                *)

LEMMA InitStack == Init => StackInv
<1> SUFFICES ASSUME Init PROVE StackInv
  OBVIOUS
<1>1. PICK ds \in [Test -> Decls] : frame = [l \in Level |-> New(ds)]
  BY DEF Init
<1>2. /\ depth = 1 /\ 1 \in Level /\ jobs = <<>> /\ frame[1].at = "loop"
      /\ \A l \in Level : frame[l] = New(ds)
  BY <1>1, StackAssumption DEF Init, Level, New
<1>3. TypeOK
  <2>1. frame \in [Level -> Frame]
    BY <1>1, FreshFrame
  <2>2. jobs \in Seq([level : Level, test : Test])
    BY <1>2
  <2>3. QED
    BY <1>2, <2>1, <2>2 DEF Init, TypeOK
<1>4. StackIsFrames /\ OuterUntouched
  BY <1>2 DEF StackIsFrames, OuterUntouched, Height
<1>5. QED
  BY <1>2, <1>3, <1>4, FreshFrame DEF StackInv

(* While a test or its cleanup function executes, the job on top of the    *)
(* stack is its own.                                                       *)
LEMMA TopIsDepth ==
  ASSUME StackInv, frame[depth].at # "loop"
  PROVE  Top = depth /\ Len(jobs) = depth /\ Height = depth
BY DEF StackInv, TypeOK, StackIsFrames, Height, Top, Last, Level

(* Only the executing frame changes.                                       *)
LEMMA OneFrame ==
  ASSUME StackInv, NEW g \in Frame, Balanced(g),
         frame' = [frame EXCEPT ![depth] = g], depth' = depth
  PROVE  /\ frame' \in [Level -> Frame] /\ frame'[depth] = g
         /\ \A l \in 1 .. depth - 1 : frame'[l] = frame[l]
         /\ OuterUntouched'
         /\ \A l \in 1 .. depth' : Balanced(frame'[l])
<1>1. depth \in Level /\ frame \in [Level -> Frame]
  BY DEF StackInv, TypeOK
<1>2. frame' \in [Level -> Frame] /\ frame'[depth] = g
  BY <1>1
<1>3. \A l \in 1 .. depth - 1 : frame'[l] = frame[l] /\ l \in 1 .. depth
  BY <1>1 DEF Level
<1>4. \A l \in 1 .. depth : l = depth \/ l \in 1 .. depth - 1
  BY <1>1 DEF Level
<1>5. OuterUntouched'
  BY <1>3 DEF StackInv, OuterUntouched
<1>6. \A l \in 1 .. depth' : Balanced(frame'[l])
  BY <1>2, <1>3, <1>4 DEF StackInv
<1>7. QED
  BY <1>2, <1>3, <1>5, <1>6

(* A test or its cleanup function is under way, and stays so.              *)
LEMMA SameTest ==
  ASSUME StackInv, frame[depth].at = "body",
         NEW e \in TestEnv, e.benched => frame[depth].tests[frame[depth].testI].bench,
         frame' = [frame EXCEPT ![depth] = [@ EXCEPT !.env = e, !.at = "cleanup"]],
         UNCHANGED <<depth, jobs, thread, ending, exit>>
  PROVE  StackInv'
<1> DEFINE f == frame[depth]
           g == [f EXCEPT !.env = e, !.at = "cleanup"]
<1>1. f \in Frame /\ Balanced(f) /\ depth \in Level
  BY DEF StackInv, TypeOK, Level
<1>2. g \in Frame
  BY <1>1 DEF Frame
<1>3. /\ g.tests = f.tests /\ g.testI = f.testI /\ g.verdict = f.verdict
      /\ g.rslts = f.rslts /\ g.at = "cleanup" /\ g.env = e
  BY <1>1 DEF Frame
<1> HIDE DEF f, g
<1>4. Balanced(g)
  BY <1>1, <1>3 DEF Balanced, f
<1>5. frame' = [frame EXCEPT ![depth] = g]
  BY DEF f, g
<1>6. /\ frame' \in [Level -> Frame] /\ frame'[depth] = g
      /\ \A l \in 1 .. depth - 1 : frame'[l] = frame[l]
      /\ OuterUntouched' /\ \A l \in 1 .. depth' : Balanced(frame'[l])
  BY <1>2, <1>4, <1>5, OneFrame
<1>7. StackIsFrames'
  <2>1. Height' = depth /\ Height = depth
    BY <1>3, <1>6 DEF Height
  <2>2. \A l \in 1 .. depth : frame'[l].testI = frame[l].testI
    BY <1>1, <1>3, <1>6 DEF Level, f
  <2>3. QED
    BY <1>6, <2>1, <2>2 DEF StackIsFrames, StackInv
<1>8. QED
  BY <1>6, <1>7 DEF StackInv, TypeOK

LEMMA RecordStep ==
  ASSUME StackInv, NEW e \in TestEnv, NEW t \in Test,
         frame[depth].verdict[t] = "none",
         \/ frame[depth].at = "loop" /\ t = frame[depth].testI + 1
         \/ frame[depth].at # "loop" /\ t = frame[depth].testI,
         frame' = [frame EXCEPT ![depth] = Recorded(@, t, e)], depth' = depth
  PROVE  /\ frame' \in [Level -> Frame] /\ frame'[depth].at = "loop"
         /\ \A l \in 1 .. depth - 1 : frame'[l] = frame[l]
         /\ OuterUntouched'
         /\ \A l \in 1 .. depth' : Balanced(frame'[l])
<1> DEFINE g == Recorded(frame[depth], t, e)
<1>1. frame[depth] \in Frame /\ Balanced(frame[depth])
  BY DEF StackInv, TypeOK, Level
<1>2. g \in Frame /\ Balanced(g) /\ g.at = "loop"
  BY <1>1, RecordedFrame
<1>3. frame' = [frame EXCEPT ![depth] = g]
  OBVIOUS
<1> HIDE DEF g
<1>4. QED
  BY <1>2, <1>3, OneFrame

LEMMA DisabledStack == ASSUME StackInv, RunDisabled PROVE StackInv'
<1> DEFINE t == Upcoming
<1>1. /\ t \in Test /\ frame[depth].at = "loop" /\ t = frame[depth].testI + 1
      /\ frame' = [frame EXCEPT ![depth] = Recorded(@, t, ResetEnv)]
      /\ UNCHANGED <<depth, jobs, thread, ending, exit>>
  BY DEF RunDisabled, At, Upcoming, Reset
<1>2. ResetEnv \in TestEnv /\ frame[depth].verdict[t] = "none"
  <2>1. Balanced(frame[depth]) /\ frame[depth] \in Frame
    BY DEF StackInv, TypeOK, Level
  <2>2. QED
    BY <1>1, <2>1, StackAssumption DEF Balanced, Frame, Test, ResetEnv, TestEnv
<1> HIDE DEF t
<1>3. /\ frame' \in [Level -> Frame] /\ frame'[depth].at = "loop"
      /\ \A l \in 1 .. depth - 1 : frame'[l] = frame[l]
      /\ OuterUntouched' /\ \A l \in 1 .. depth' : Balanced(frame'[l])
  BY <1>1, <1>2, RecordStep
<1>4. StackIsFrames'
  BY <1>1, <1>3 DEF StackInv, StackIsFrames, Height
<1>5. QED
  BY <1>1, <1>3, <1>4 DEF StackInv, TypeOK

LEMMA FinishStack == ASSUME StackInv, Finish PROVE StackInv'
<1> DEFINE t == frame[depth].testI
           e == frame[depth].env
<1>1. /\ frame[depth].at = "cleanup" /\ jobs' = Front(jobs)
      /\ frame' = [frame EXCEPT ![depth] = Recorded(@, t, e)]
      /\ UNCHANGED <<depth, thread, ending, exit>>
  BY DEF Finish, At, Popped
<1>2. t \in Test /\ e \in TestEnv /\ frame[depth].verdict[t] = "none"
  <2>1. Balanced(frame[depth]) /\ frame[depth] \in Frame
    BY DEF StackInv, TypeOK, Level
  <2>2. QED
    BY <1>1, <2>1, StackAssumption DEF Balanced, Frame, Test
<1> HIDE DEF t, e
<1>3. /\ frame' \in [Level -> Frame] /\ frame'[depth].at = "loop"
      /\ \A l \in 1 .. depth - 1 : frame'[l] = frame[l]
      /\ OuterUntouched' /\ \A l \in 1 .. depth' : Balanced(frame'[l])
  BY <1>1, <1>2, RecordStep DEF t
<1>4. Len(jobs) = depth /\ Height = depth /\ Height' = depth - 1 /\ depth \in Nat \ {0}
  BY <1>1, <1>3, TopIsDepth DEF Height, StackInv, TypeOK, Level
<1>5. /\ jobs' \in Seq([level : Level, test : Test]) /\ Len(jobs') = depth - 1
      /\ \A l \in 1 .. depth - 1 : jobs'[l] = jobs[l]
  <2>1. /\ jobs \in Seq([level : Level, test : Test]) /\ jobs' = SubSeq(jobs, 1, depth - 1)
        /\ 1 \in Int /\ depth - 1 \in Int
    BY <1>1, <1>4 DEF Front, StackInv, TypeOK
  <2>2. \A l \in 1 .. depth - 1 : jobs[l] \in [level : Level, test : Test]
    <3>1. \A l \in 1 .. depth - 1 : l \in 1 .. Len(jobs)
      BY <1>4
    <3>2. QED
      BY <2>1, <3>1, ElementOfSeq
  <2>3. QED
    BY <1>4, <2>1, <2>2, SubSeqProperties
<1>6. StackIsFrames'
  BY <1>1, <1>3, <1>4, <1>5 DEF StackInv, StackIsFrames
<1>7. QED
  BY <1>1, <1>3, <1>5, <1>6 DEF StackInv, TypeOK

LEMMA StartStack == ASSUME StackInv, Start PROVE StackInv'
<1> DEFINE f == frame[depth]
           t == f.testI + 1
           g == [f EXCEPT !.testI = t, !.env = ResetEnv, !.at = "body"]
<1>1. /\ t \in Test /\ f.at = "loop" /\ f.tests[t].enabled
      /\ frame' = [frame EXCEPT ![depth] = g]
      /\ jobs' = Append(jobs, [level |-> depth, test |-> t])
      /\ UNCHANGED <<depth, thread, ending, exit>>
  BY DEF Start, At, Upcoming, Reset
<1>2. f \in Frame /\ Balanced(f) /\ depth \in Level
  BY DEF StackInv, TypeOK, Level
<1>3. g \in Frame
  <2>1. t \in 0 .. NTests /\ ResetEnv \in TestEnv
    BY <1>1, StackAssumption DEF Test, ResetEnv, TestEnv
  <2>2. QED
    BY <1>2, <2>1 DEF Frame
<1>4. /\ g.tests = f.tests /\ g.testI = t /\ g.verdict = f.verdict
      /\ g.rslts = f.rslts /\ g.at = "body" /\ g.env = ResetEnv /\ ~g.env.benched
  BY <1>2 DEF Frame, ResetEnv
<1>5. \A u \in Test : u < t \/ (u = t /\ g.at = "loop") <=> u < f.testI \/ u = f.testI
  BY <1>2, <1>4 DEF Frame, Test
<1> HIDE DEF f, g
<1>6. Balanced(g)
  BY <1>1, <1>2, <1>4, <1>5 DEF Balanced
<1>7. /\ frame' \in [Level -> Frame] /\ frame'[depth] = g
      /\ \A l \in 1 .. depth - 1 : frame'[l] = frame[l]
      /\ OuterUntouched' /\ \A l \in 1 .. depth' : Balanced(frame'[l])
  BY <1>1, <1>3, <1>6, OneFrame
<1>8. Height = depth - 1 /\ Height' = depth /\ Len(jobs) = depth - 1 /\ depth \in Nat \ {0}
  BY <1>1, <1>2, <1>4, <1>7 DEF Height, StackInv, StackIsFrames, Level, f
<1>9. /\ jobs' \in Seq([level : Level, test : Test]) /\ Len(jobs') = depth
      /\ jobs'[depth] = [level |-> depth, test |-> t]
      /\ \A l \in 1 .. depth - 1 : jobs'[l] = jobs[l]
  BY <1>1, <1>2, <1>8 DEF StackInv, TypeOK
<1>10. StackIsFrames'
  <2>1. \A l \in 1 .. depth : jobs'[l] = [level |-> l, test |-> frame'[l].testI]
    <3>1. \A l \in 1 .. depth - 1 : jobs[l] = [level |-> l, test |-> frame[l].testI]
      BY <1>8 DEF StackInv, StackIsFrames
    <3>2. QED
      BY <1>4, <1>7, <1>8, <1>9, <3>1
  <2>2. QED
    BY <1>1, <1>7, <1>8, <1>9, <2>1 DEF StackInv, StackIsFrames
<1>11. QED
  BY <1>1, <1>7, <1>9, <1>10 DEF StackInv, TypeOK

(* A nested run starts on top of a test, and its frame goes again.         *)
LEMMA NestStack == ASSUME StackInv, Nest PROVE StackInv'
<1>1. PICK ds \in [Test -> Decls] : frame' = [frame EXCEPT ![depth + 1] = New(ds)]
  BY DEF Nest
<1>2. /\ depth \in Level /\ depth + 1 \in Level /\ depth' = depth + 1
      /\ frame[depth].at = "body" /\ frame \in [Level -> Frame]
      /\ UNCHANGED <<jobs, thread, ending, exit>>
  BY StackAssumption DEF Nest, At, StackInv, TypeOK, Level
<1>3. /\ frame' \in [Level -> Frame] /\ frame'[depth + 1] = New(ds)
      /\ \A l \in 1 .. depth : frame'[l] = frame[l]
  BY <1>1, <1>2, FreshFrame DEF Level
<1>4. \A l \in 1 .. depth' : l = depth + 1 \/ l \in 1 .. depth
  BY <1>2 DEF Level
<1>5. \A l \in 1 .. depth : frame[l].env = ResetEnv /\ frame[l].at = "body" /\ Balanced(frame[l])
  <2>1. \A l \in 1 .. depth : l = depth \/ l \in 1 .. depth - 1
    BY <1>2 DEF Level
  <2>2. Balanced(frame[depth]) => frame[depth].env = ResetEnv
    BY <1>2 DEF Balanced
  <2>3. QED
    BY <1>2, <2>1, <2>2 DEF StackInv, OuterUntouched, StackIsFrames, Level
<1>6. OuterUntouched' /\ \A l \in 1 .. depth' : Balanced(frame'[l])
  BY <1>2, <1>3, <1>4, <1>5, FreshFrame DEF OuterUntouched
<1>7. StackIsFrames'
  <2>1. Height = depth /\ Height' = depth
    BY <1>2, <1>3 DEF Height, New, Level
  <2>2. QED
    BY <1>2, <1>3, <1>5, <2>1 DEF StackInv, StackIsFrames
<1>8. QED
  BY <1>2, <1>3, <1>6, <1>7 DEF StackInv, TypeOK

LEMMA UnnestStack == ASSUME StackInv, Unnest PROVE StackInv'
<1> DEFINE g == New(frame[1].tests)
<1>1. /\ depth \in Level /\ depth - 1 \in Level /\ depth' = depth - 1
      /\ frame[depth].at = "loop" /\ frame \in [Level -> Frame]
      /\ UNCHANGED <<jobs, thread, ending, exit>>
      /\ frame' = [frame EXCEPT ![depth] = g]
  BY StackAssumption DEF Unnest, OutOfTests, At, StackInv, TypeOK, Level
<1>2. g \in Frame
  <2>1. frame[1].tests \in [Test -> Decls]
    BY <1>1, StackAssumption DEF Frame, Level
  <2>2. QED
    BY <2>1, FreshFrame
<1> HIDE DEF g
<1>3. frame' \in [Level -> Frame] /\ \A l \in 1 .. depth - 1 : frame'[l] = frame[l]
  BY <1>1, <1>2 DEF Level
<1>4. \A l \in 1 .. depth' : l \in 1 .. depth - 1 /\ l \in 1 .. depth
  BY <1>1 DEF Level
<1>5. \A l \in 1 .. depth' - 1 : l \in 1 .. depth - 1
  BY <1>1 DEF Level
<1>6. OuterUntouched' /\ \A l \in 1 .. depth' : Balanced(frame'[l])
  BY <1>3, <1>4, <1>5 DEF StackInv, OuterUntouched
<1>7. StackIsFrames'
  <2>1. frame'[depth - 1].at = "body" /\ Height = depth - 1 /\ Height' = depth - 1
    BY <1>1, <1>3 DEF Height, StackInv, StackIsFrames, Level
  <2>2. QED
    BY <1>1, <1>3, <1>5, <2>1 DEF StackInv, StackIsFrames
<1>8. QED
  BY <1>1, <1>3, <1>6, <1>7 DEF StackInv, TypeOK

(* A test ends, by its own return or by an assertion; longjmp() goes back  *)
(* to the frame that executes.                                             *)
LEMMA BodyStack == ASSUME StackInv, Complete \/ Fail \/ Skip PROVE StackInv'
<1> DEFINE f == frame[depth]
<1>1. f.at = "body" /\ f \in Frame /\ Balanced(f) /\ Top = depth
  BY TopIsDepth DEF Complete, Fail, Skip, At, StackInv, TypeOK, Level
<1>2. f.testI \in Test /\ f.env = ResetEnv /\ f.tests[f.testI] \in Decl
  BY <1>1, StackAssumption DEF Balanced, Frame
<1>3. PICK e \in TestEnv :
        /\ e.benched => f.tests[f.testI].bench
        /\ frame' = [frame EXCEPT ![depth] = [@ EXCEPT !.env = e, !.at = "cleanup"]]
        /\ UNCHANGED <<depth, jobs, thread, ending, exit>>
  <2>1. CASE Complete
    <3> DEFINE e == [ResetEnv EXCEPT !.benched = @ \/ f.tests[f.testI].bench]
    <3>1. e \in TestEnv /\ (e.benched => f.tests[f.testI].bench)
      <4>1. f.tests[f.testI].bench \in BOOLEAN
        BY <1>2 DEF Decl
      <4>2. QED
        BY <4>1 DEF ResetEnv, TestEnv
    <3>2. e = [f.env EXCEPT !.benched = @ \/ f.tests[f.testI].bench]
      BY <1>2
    <3>3. frame' = [frame EXCEPT ![depth] = [@ EXCEPT !.env = e, !.at = "cleanup"]]
      BY <2>1, <3>2 DEF Complete
    <3>4. QED
      BY <2>1, <3>1, <3>3 DEF Complete
  <2>2. CASE Fail
    <3> DEFINE e == [ResetEnv EXCEPT !.failed = TRUE]
    <3>1. e \in TestEnv /\ ~e.benched
      BY DEF ResetEnv, TestEnv
    <3>2. QED
      BY <1>1, <1>2, <2>2, <3>1 DEF Fail, LongJmp
  <2>3. CASE Skip
    <3> DEFINE e == [ResetEnv EXCEPT !.skipped = TRUE]
    <3>1. e \in TestEnv /\ ~e.benched
      BY DEF ResetEnv, TestEnv
    <3>2. QED
      BY <1>1, <1>2, <2>3, <3>1 DEF Skip, LongJmp
  <2>4. QED
    BY <2>1, <2>2, <2>3
<1>4. QED
  BY <1>1, <1>3, SameTest

LEMMA EndStack ==
  ASSUME StackInv,
         Return \/ (\E n \in ExitCodes : ExitItself(n)) \/ Crash
           \/ ElsewhereFail \/ ElsewhereSkip
  PROVE  StackInv' /\ UNCHANGED <<frame, depth, jobs>>
<1>1. /\ UNCHANGED <<frame, depth, jobs, thread>>
      /\ ending' \in {"returned", "exited", "killed", "complained"}
      /\ exit' \in ExitCodes \cup {-1, 1}
  BY ResultsAssumption DEF Return, ExitItself, Crash, ElsewhereFail, ElsewhereSkip, End, ExitCode
<1>2. QED
  BY <1>1 DEF StackInv, TypeOK, StackIsFrames, OuterUntouched, Height

LEMMA IdleStack ==
  ASSUME StackInv, StartThread \/ UNCHANGED vars PROVE StackInv' /\ UNCHANGED <<frame, depth, jobs>>
BY DEF StackInv, TypeOK, StackIsFrames, OuterUntouched, Height, StartThread, vars

LEMMA StackStep == StackInv /\ [Next]_vars => StackInv'
BY DisabledStack, StartStack, NestStack, BodyStack, FinishStack, UnnestStack, EndStack, IdleStack
   DEF Next, Over

-----------------------------------------------------------------------------
(* The theorems.                                                           *)

(* Whatever tests run, fail, skip and nest, each frame's books balance and *)
(* the stack is that of the frames.                                        *)
THEOREM StackInductive == Spec => []StackInv
<1>1. QED
  BY InitStack, StackStep, PTL DEF Spec

(* The types, in particular those of the counters, size_t in the code:     *)
(* none of them ever goes below zero.                                      *)
THEOREM StackTypeCorrect == Spec => []TypeOK
<1>1. StackInv => TypeOK
  BY DEF StackInv
<1>2. QED
  BY <1>1, StackInductive, PTL

(* The job on top of _jobs is the one whose code executes (jobs.cpp:29):   *)
(* an assertion, pt_skip(), pt_get_port() or a cleanup function is about   *)
(* its own test, and longjmp() never goes to a frame that has returned.    *)
THEOREM TopExecutes == Spec => []StackIsFrames
<1>1. StackInv => StackIsFrames
  BY DEF StackInv
<1>2. QED
  BY <1>1, StackInductive, PTL

(* A nested run leaves no mark on the test that started it.                *)
THEOREM NestedRunsContained == Spec => []OuterUntouched
<1>1. StackInv => OuterUntouched
  BY DEF StackInv
<1>2. QED
  BY <1>1, StackInductive, PTL

(* Every run, nested or not, ends with all of its tests judged and with an *)
(* exit code that tells the truth (results.hpp:190).                       *)
LEMMA EndMeans ==
  ASSUME NEW f \in Frame, Balanced(f), f.at = "loop", f.testI = NTests
  PROVE  /\ Done(f.rslts)
         /\ \A t \in Test : f.verdict[t] \in Verdicts
         /\ ExitCode(f.rslts) = 0 <=> \A t \in Test : f.verdict[t] \notin BadVerdicts
<1>1. \A t \in Test : f.verdict[t] # "none"
  <2>1. \A t \in Test : t < f.testI \/ t = f.testI
    BY StackAssumption DEF Test
  <2>2. QED
    BY <2>1 DEF Balanced
<1>2. \A t \in Test : f.verdict[t] \in Verdicts
  BY <1>1 DEF Frame
<1>3. Known(f) = Test
  BY <1>1 DEF Known
<1>4. Passed(f) \in SUBSET Test /\ Counting(f) \in SUBSET Test /\ Passed(f) \subseteq Counting(f)
  BY DEF Passed, Counting, Balanced
<1>5. ExitCode(f.rslts) = 0 <=> Cardinality(Passed(f)) = Cardinality(Counting(f))
  BY DEF ExitCode, Balanced, Passed, Counting
<1>6. Cardinality(Passed(f)) = Cardinality(Counting(f)) <=> Passed(f) = Counting(f)
  BY <1>4, TestsFinite, FS_Subset
<1>7. Passed(f) = Counting(f) <=> \A t \in Test : f.verdict[t] \notin BadVerdicts
  BY <1>2, <1>4 DEF Passed, Counting, Balanced, Verdicts, BadVerdicts
<1>8. Done(f.rslts)
  BY <1>3, TestsFinite DEF Done, Balanced, Known
<1>9. QED
  BY <1>2, <1>5, <1>6, <1>7, <1>8

THEOREM RunsAreTruthful == Spec => []RunsTruthful
<1>1. StackInv => RunsTruthful
  <2> SUFFICES ASSUME StackInv, NEW l \in 1 .. depth,
                      frame[l].at = "loop", frame[l].testI = NTests
               PROVE  /\ Done(frame[l].rslts)
                      /\ \A t \in Test : frame[l].verdict[t] # "none"
                      /\ ExitCode(frame[l].rslts) = 0 <=>
                           \A t \in Test : frame[l].verdict[t] \notin BadVerdicts
    BY DEF RunsTruthful
  <2>1. frame[l] \in Frame /\ Balanced(frame[l])
    <3>1. l \in Level
      BY StackAssumption DEF StackInv, TypeOK, Level
    <3>2. QED
      BY <3>1 DEF StackInv, TypeOK
  <2>2. "none" \notin Verdicts
    BY DEF Verdicts, BadVerdicts
  <2>3. QED
    BY <2>1, <2>2, EndMeans
<1>2. QED
  BY <1>1, StackInductive, PTL

-----------------------------------------------------------------------------
(* The outermost run implements TestRun.                                   *)

PromiseExit == IF ending = "returned" THEN exit ELSE -1

LEMMA StateIs ==
  ASSUME StackInv, NEW t \in Test
  PROVE  /\ frame[1] \in Frame /\ Balanced(frame[1])
         /\ frame[1].verdict[t] # "none" => State[t] = frame[1].verdict[t]
         /\ State[t] = "waiting" <=> frame[1].testI < t
         /\ State[t] = "running" <=> t = frame[1].testI /\ frame[1].at # "loop"
<1> DEFINE f == frame[1]
<1>1. f \in Frame /\ Balanced(f)
  BY StackAssumption DEF StackInv, TypeOK, Level
<1>2. State[t] = IF f.verdict[t] # "none" THEN f.verdict[t]
                 ELSE IF t <= f.testI THEN "running" ELSE "waiting"
  BY DEF State
<1> HIDE DEF f
<1>3. f.verdict[t] \in Verdicts \cup {"none"} /\ f.testI \in Int /\ t \in Int
  <2>1. f.verdict \in [Test -> Verdicts \cup {"none"}] /\ f.testI \in 0 .. NTests
    BY <1>1 DEF Frame
  <2>2. f.testI \in Int
    BY <2>1
  <2>3. t \in Int
    BY StackAssumption DEF Test
  <2>4. f.verdict[t] \in Verdicts \cup {"none"}
    BY <2>1
  <2>5. QED
    BY <2>2, <2>3, <2>4
<1>4. f.verdict[t] # "none" <=> t < f.testI \/ (t = f.testI /\ f.at = "loop")
  BY <1>1 DEF Balanced
<1>5. QED
  BY <1>1, <1>2, <1>3, <1>4 DEF Verdicts, BadVerdicts, f

LEMMA StateUpdate ==
  ASSUME NEW t \in Test, NEW w, \A u \in Test : State'[u] = IF u = t THEN w ELSE State[u]
  PROVE  State' = [State EXCEPT ![t] = w]
<1>1. State = [u \in Test |-> State[u]] /\ State' = [u \in Test |-> State'[u]]
  BY DEF State
<1>2. QED
  BY <1>1

(* A step that records no test of the outermost run and takes none.        *)
LEMMA Invisible ==
  ASSUME frame'[1].tests = frame[1].tests, frame'[1].testI = frame[1].testI,
         frame'[1].verdict = frame[1].verdict, PromiseExit' = PromiseExit
  PROVE  UNCHANGED Promise!vars
BY DEF Promise!vars, State, PromiseExit

LEMMA DeeperInvisible ==
  ASSUME StackInv, [Next]_vars, depth # 1
  PROVE  UNCHANGED Promise!vars
<1>1. depth \in Level /\ frame \in [Level -> Frame] /\ 1 \in Level
  BY StackAssumption DEF StackInv, TypeOK, Level
<1>2. frame[depth].at = "body" => Top = depth
  BY TopIsDepth
<1>3. frame'[1] = frame[1]
  <2>1. CASE RunDisabled \/ Start \/ Complete \/ Finish
    BY <1>1, <2>1 DEF RunDisabled, Start, Complete, Finish
  <2>2. CASE Nest \/ Unnest
    <3>1. depth + 1 # 1
      BY <1>1 DEF Level
    <3>2. QED
      BY <1>1, <2>2, <3>1 DEF Nest, Unnest
  <2>3. CASE Fail \/ Skip
    BY <1>1, <1>2, <2>3 DEF Fail, Skip, LongJmp, At
  <2>4. CASE StartThread \/ UNCHANGED vars
    BY <2>4 DEF StartThread, vars
  <2>5. QED
    BY <2>1, <2>2, <2>3, <2>4, EndStack DEF Next, Over
<1>4. PromiseExit' = PromiseExit
  BY DEF Next, RunDisabled, Start, Nest, Complete, Fail, Skip, Finish, Unnest,
     Return, ExitItself, Crash, StartThread, ElsewhereFail, ElsewhereSkip, End, Over, At,
     OutOfTests, vars, PromiseExit
<1>5. QED
  BY <1>3, <1>4, Invisible

(* The outermost run takes a test or is done with one.                     *)
LEMMA TakesVisible ==
  ASSUME StackInv, depth = 1, RunDisabled \/ Start
  PROVE  \E t \in Test : Promise!Disable(t) \/ Promise!Start(t)
<1> DEFINE f == frame[1]
           t == f.testI + 1
<1>1. f \in Frame /\ Balanced(f) /\ f.at = "loop" /\ t \in Test
  BY StackAssumption DEF RunDisabled, Start, At, Upcoming, StackInv, TypeOK, Level
<1>2. 1 \in Level /\ frame \in [Level -> Frame]
  BY StackAssumption DEF StackInv, TypeOK, Level
<1>3. \A u \in Test : /\ State[u] = "waiting" <=> f.testI < u
                      /\ State[u] # "running"
  BY <1>1, StateIs
<1>4. Promise!IsNext(t) /\ Promise!Running = {}
  <2>1. f.testI \in Int
    BY <1>1 DEF Frame
  <2>2. State[t] = "waiting"
    <3>1. f.testI < t /\ t \in Test
      BY <1>1, <2>1
    <3> HIDE DEF t
    <3>2. QED
      BY <1>3, <3>1
  <2>3. \A u \in 1 .. t - 1 : u \in Test /\ ~(f.testI < u)
    BY <1>1, <2>1, StackAssumption DEF Test
  <2>4. \A u \in 1 .. t - 1 : State[u] # "waiting"
    BY <1>3, <2>3
  <2>5. Promise!Running = {}
    <3>1. \A u \in Test : State[u] # "running"
      BY <1>3
    <3>2. QED
      BY <3>1 DEF Promise!Running, Promise!Tests, Test
  <2>6. QED
    BY <2>2, <2>4, <2>5 DEF Promise!IsNext
<1>5. /\ f.testI \in Int /\ t # f.testI /\ f.verdict[t] = "none"
      /\ f.verdict \in [Test -> Verdicts \cup {"none"}]
      /\ \A u \in Test : u # t => (u <= t <=> u <= f.testI)
  <2>1. f.testI \in Int /\ f.verdict \in [Test -> Verdicts \cup {"none"}]
    BY <1>1 DEF Frame
  <2>2. QED
    BY <1>1, <2>1 DEF Balanced, Test
<1>6. \A u \in Test : State[u] = IF f.verdict[u] # "none" THEN f.verdict[u]
                                 ELSE IF u <= f.testI THEN "running" ELSE "waiting"
  BY DEF State
<1>7. CASE RunDisabled
  <2>1. ~f.tests[t].enabled /\ frame'[1] = Recorded(f, t, ResetEnv)
        /\ UNCHANGED <<ending, exit>>
    BY <1>2, <1>7 DEF RunDisabled, Upcoming, Reset
  <2>2. f.tests[t] \in Decl /\ ResetEnv \in TestEnv
    BY <1>1, StackAssumption DEF Frame, ResetEnv, TestEnv
  <2>3. Judge(f.tests[t], ResetEnv, ResetResult) = "disabled"
    BY <2>1, <2>2, JudgeOf
  <2>4. /\ frame'[1].tests = f.tests /\ frame'[1].testI = t
        /\ frame'[1].verdict = [f.verdict EXCEPT ![t] = "disabled"]
    BY <1>1, <2>1, <2>3 DEF Recorded, Frame
  <2>5. \A u \in Test : State'[u] = IF u = t THEN "disabled" ELSE State[u]
    <3>1. \A u \in Test : State'[u] = IF frame'[1].verdict[u] # "none" THEN frame'[1].verdict[u]
                                      ELSE IF u <= frame'[1].testI THEN "running" ELSE "waiting"
      BY DEF State
    <3> HIDE DEF f, t
    <3>2. QED
      BY <1>5, <1>6, <2>4, <3>1
  <2>6. State' = [State EXCEPT ![t] = "disabled"]
    BY <1>1, <2>5, StateUpdate
  <2>7. QED
    BY <1>1, <1>4, <2>1, <2>4, <2>6 DEF Promise!Disable
<1>8. CASE Start
  <2>1. f.tests[t].enabled /\ frame'[1].testI = t /\ frame'[1].tests = f.tests
        /\ frame'[1].verdict = f.verdict /\ UNCHANGED <<ending, exit>>
    BY <1>1, <1>2, <1>8 DEF Start, Upcoming, Frame
  <2>2. \A u \in Test : State'[u] = IF u = t THEN "running" ELSE State[u]
    <3>1. \A u \in Test : State'[u] = IF frame'[1].verdict[u] # "none" THEN frame'[1].verdict[u]
                                      ELSE IF u <= frame'[1].testI THEN "running" ELSE "waiting"
      BY DEF State
    <3>2. t <= t
      BY <1>5
    <3> HIDE DEF f, t
    <3>3. QED
      BY <1>5, <1>6, <2>1, <3>1, <3>2
  <2>3. State' = [State EXCEPT ![t] = "running"]
    BY <1>1, <2>2, StateUpdate
  <2>4. Promise!Cardinality(Promise!Running) < 1
    <3>1. Promise!Cardinality(Promise!Running) = Cardinality(Promise!Running)
      BY DEF Cardinality, Promise!Cardinality
    <3>2. QED
      BY <1>4, <3>1, FS_EmptySet
  <2>5. QED
    BY <1>1, <1>4, <2>1, <2>3, <2>4 DEF Promise!Start
<1>9. QED
  BY <1>7, <1>8

LEMMA VerdictOf ==
  ASSUME NEW d \in Decl, d.enabled, NEW e \in TestEnv, e.benched => d.bench
  PROVE  /\ Judge(d, e, ResetResult) \in Promise!Ends(d)
         /\ Judge(d, e, ResetResult) \in Verdicts
BY DEF Decl, TestEnv, ResetResult, Judge, Finalize, Verdict, Promise!Ends, Promise!BadVerdicts,
       Verdicts, BadVerdicts

LEMMA FinishVisible ==
  ASSUME StackInv, depth = 1, Finish
  PROVE  \E t \in Test, v \in Verdicts : Promise!Judged(t, v)
<1> DEFINE f == frame[1]
           t == f.testI
           v == Judge(f.tests[t], f.env, ResetResult)
<1>1. /\ f \in Frame /\ Balanced(f) /\ f.at = "cleanup"
      /\ 1 \in Level /\ frame \in [Level -> Frame]
  BY StackAssumption DEF Finish, At, StackInv, TypeOK, Level
<1>2. /\ t \in Test /\ f.tests[t] \in Decl /\ f.tests[t].enabled /\ f.env \in TestEnv
      /\ f.env.benched => f.tests[t].bench
  BY <1>1, StackAssumption DEF Balanced, Frame
<1>3. v \in Promise!Ends(f.tests[t]) /\ v \in Verdicts
  BY <1>2, VerdictOf
<1>4. frame'[1] = Recorded(f, t, f.env) /\ UNCHANGED <<ending, exit>>
  BY <1>1 DEF Finish
<1> HIDE DEF v
<1>5. /\ frame'[1].tests = f.tests /\ frame'[1].testI = t
      /\ frame'[1].verdict = [f.verdict EXCEPT ![t] = v]
  BY <1>1, <1>4 DEF Recorded, Frame, v
<1>6. State[t] = "running"
  BY <1>1, <1>2, StateIs
<1>7. State' = [State EXCEPT ![t] = v]
  <2>1. f.verdict \in [Test -> Verdicts \cup {"none"}] /\ v # "none"
    BY <1>1, <1>3 DEF Frame, Verdicts, BadVerdicts
  <2>2. \A u \in Test : State'[u] = IF u = t THEN v ELSE State[u]
    BY <1>2, <1>5, <2>1 DEF State
  <2>3. QED
    BY <1>2, <2>2, StateUpdate
<1>8. QED
  BY <1>2, <1>3, <1>4, <1>5, <1>6, <1>7 DEF Promise!Judged

LEMMA ReturnVisible ==
  ASSUME StackInv, Return
  PROVE  Promise!Leave
<1> DEFINE f == frame[1]
<1>1. /\ f \in Frame /\ Balanced(f) /\ f.at = "loop" /\ f.testI = NTests
      /\ ending = "running" /\ ending' = "returned" /\ exit' = ExitCode(f.rslts)
      /\ frame' = frame
  BY StackAssumption DEF Return, OutOfTests, At, End, StackInv, TypeOK, Level
<1>2. /\ \A t \in Test : f.verdict[t] \in Verdicts
      /\ ExitCode(f.rslts) = 0 <=> \A t \in Test : f.verdict[t] \notin BadVerdicts
  BY <1>1, EndMeans
<1>3. \A t \in Test : State[t] = f.verdict[t]
  BY <1>2, StateIs DEF Verdicts, BadVerdicts
<1>4. ExitCode(f.rslts) = IF \E t \in Test : f.verdict[t] \in BadVerdicts THEN 1 ELSE 0
  BY <1>2 DEF ExitCode
<1>5. State' = State
  BY <1>1 DEF State
<1>6. QED
  BY <1>1, <1>2, <1>3, <1>4, <1>5
     DEF Promise!Leave, Promise!Tests, Test, Promise!Verdicts, Promise!BadVerdicts,
         Verdicts, BadVerdicts

LEMMA StackRefines == StackInv /\ [Next]_vars => [Promise!Next]_(Promise!vars)
<1> SUFFICES ASSUME StackInv, [Next]_vars PROVE Promise!Next \/ UNCHANGED Promise!vars
  OBVIOUS
<1>1. CASE depth # 1
  BY <1>1, DeeperInvisible
<1>2. CASE depth = 1 /\ (RunDisabled \/ Start)
  BY <1>2, TakesVisible DEF Promise!Next, Promise!Tests, Test
<1>3. CASE depth = 1 /\ Finish
  BY <1>3, FinishVisible
     DEF Promise!Next, Promise!Tests, Test, Promise!Verdicts, Promise!BadVerdicts,
         Verdicts, BadVerdicts
<1>4. CASE Return
  BY <1>4, ReturnVisible DEF Promise!Next
<1>5. CASE depth = 1 /\ ~(RunDisabled \/ Start \/ Finish \/ Return)
  <2>1. frame[1] \in Frame /\ frame \in [Level -> Frame] /\ 1 \in Level
    BY StackAssumption DEF StackInv, TypeOK, Level
  <2>2. PromiseExit' = PromiseExit
    BY <1>5 DEF Next, Nest, Complete, Fail, Skip, Unnest, ExitItself, Crash, StartThread,
       ElsewhereFail, ElsewhereSkip, End, Over, At, OutOfTests, vars, PromiseExit
  <2>3. /\ frame'[1].tests = frame[1].tests /\ frame'[1].testI = frame[1].testI
        /\ frame'[1].verdict = frame[1].verdict
    <3>1. CASE Nest
      BY <1>5, <2>1, <3>1 DEF Nest, Level
    <3>2. CASE Complete
      BY <1>5, <2>1, <3>2 DEF Complete, Frame
    <3>3. CASE Fail \/ Skip
      <4>1. Top = 1
        BY <1>5, <3>3, TopIsDepth DEF Fail, Skip, At
      <4>2. PICK e : frame' = [frame EXCEPT ![1] = [@ EXCEPT !.env = e, !.at = "cleanup"]]
        BY <3>3, <4>1 DEF Fail, Skip, LongJmp
      <4>3. QED
        BY <2>1, <4>2 DEF Frame
    <3>4. CASE StartThread \/ UNCHANGED vars
      BY <3>4 DEF StartThread, vars
    <3>5. QED
      BY <1>5, <3>1, <3>2, <3>3, <3>4, EndStack DEF Next, Over, Unnest
  <2>4. QED
    BY <2>2, <2>3, Invisible
<1>6. QED
  BY <1>1, <1>2, <1>3, <1>4, <1>5

(* The outermost run of one process is a run as TestRun promises it, one   *)
(* test at a time: nested runs, longjmps and threads included.             *)
THEOREM StackImplements == Spec => Implements
<1>1. Init => Promise!Init
  <2> SUFFICES ASSUME Init PROVE Promise!Init
    OBVIOUS
  <2>1. PICK ds \in [Test -> Decls] : frame = [l \in Level |-> New(ds)]
    BY DEF Init
  <2>2. frame[1] = New(ds)
    BY <2>1, StackAssumption DEF Level
  <2>3. \A t \in Test : State[t] = "waiting"
    BY <2>2 DEF State, New, Test
  <2>4. State = [t \in Promise!Tests |-> "waiting"]
    BY <2>3 DEF State, Promise!Tests, Test
  <2>5. frame[1].tests = ds /\ ending # "returned"
    BY <2>2 DEF New, Init
  <2>6. QED
    BY <2>4, <2>5 DEF Promise!Init, Promise!Tests, Test
<1>2. QED
  BY <1>1, StackRefines, StackInductive, PTL DEF Spec, Implements

=============================================================================
