--------------------------- MODULE Signals_proofs ---------------------------
(***************************************************************************)
(* Proofs about an interrupted run, for any number of tests and slots, any *)
(* declarations and any mishaps: whatever the signal hits, the handler     *)
(* leaves no test behind but one whose pid the runner did not know yet.    *)
(*                                                                         *)
(* Until the signal the invariant is the one of Jobs; from then on it is   *)
(* that every process belongs to a slot, and that none belongs to a slot   *)
(* the handler is done with.                                               *)
(***************************************************************************)
EXTENDS Signals, Jobs_proofs

-----------------------------------------------------------------------------
(* Steps of the handler.                                                   *)

(* Before a signal every process belongs to a slot.                        *)
LEMMA OwnedBefore ==
  ASSUME IInv
  PROVE  /\ TypeOK
         /\ \A t \in Unreaped : home[t] \in Job /\ \E j \in Job : fork[j] = t
BY DEF IInv, TypeOK, Slots, Processes, Unreaped, None, Test

(* Reaping a child leaves no process that was not there.                   *)
LEMMA ReapFrame ==
  ASSUME TypeOK, NEW t \in Test, Reap(t),
         UNCHANGED <<tests, env, overdue, late, parentVars, home, kids, lock>>
  PROVE  TypeOK' /\ Unreaped' \subseteq Unreaped
<1>1. /\ proc' \in [Test -> Alive \cup Dead \cup {"unborn", "reaped"}]
      /\ \A u \in Test : proc'[u] # proc[u] => u = t /\ proc'[u] = "reaped"
  BY DEF TypeOK, Reap
<1>2. status' \in [Test -> Result]
  BY CleanResult DEF TypeOK, Reap
<1>3. TypeOK'
  BY <1>1, <1>2 DEF TypeOK, parentVars
<1>4. Unreaped' \subseteq Unreaped
  BY <1>1 DEF Unreaped, Alive, Dead
<1>5. QED
  BY <1>3, <1>4

(* SIGKILL makes no process that was not there either.                     *)
LEMMA KillFrame ==
  ASSUME TypeOK, NEW t,
         (t \in Test /\ KillGroup(t)) \/ UNCHANGED <<proc, status, lock>>,
         UNCHANGED <<tests, env, overdue, late, parentVars, home, kids>>
  PROVE  TypeOK' /\ Unreaped' = Unreaped
<1>1. CASE UNCHANGED <<proc, status, lock>>
  BY <1>1 DEF TypeOK, parentVars, Unreaped
<1>2. CASE t \in Test /\ KillGroup(t)
  <2>1. [ResetResult EXCEPT !.signalNum = SIGKILL] \in Result
    BY CleanResult, ResultsAssumption DEF Result
  <2>2. /\ proc' \in [Test -> Alive \cup Dead \cup {"unborn", "reaped"}]
        /\ \A u \in Test : u # t => proc'[u] = proc[u]
        /\ proc'[t] = proc[t] \/ (proc[t] \in Alive /\ proc'[t] \in Dead)
    BY <1>2 DEF TypeOK, KillGroup, Dead
  <2>3. status' \in [Test -> Result] /\ lock' \in Test \cup {None}
    BY <1>2, <2>1 DEF TypeOK, KillGroup
  <2>4. TypeOK'
    BY <2>2, <2>3 DEF TypeOK, parentVars
  <2>5. Unreaped' = Unreaped
    BY <1>2, <2>2 DEF Unreaped
  <2>6. QED
    BY <2>4, <2>5
<1>3. QED
  BY <1>1, <1>2

(* A test goes on, and stays on the process table.                         *)
LEMMA ChildKeeps ==
  ASSUME TypeOK, Owned, NEW t \in Test, Child(t)
  PROVE  TypeOK' /\ Unreaped' = Unreaped /\ UNCHANGED <<parentVars, home>>
<1>1. /\ UNCHANGED <<parentVars, home>>
      /\ \A u \in Test : u # t => proc'[u] = proc[u]
      /\ proc'[t] = proc[t] \/ (proc[t] \in Alive /\ proc'[t] \in Alive \cup Dead)
  BY ChildFrame
<1>2. TypeOK'
  BY ChildType DEF Owned, Unreaped
<1>3. Unreaped' = Unreaped
  BY <1>1 DEF Unreaped
<1>4. QED
  BY <1>1, <1>2, <1>3

-----------------------------------------------------------------------------
(* The inductive invariant.                                                *)

LEMMA InitSig == SigInit => SigInv
<1>1. IInv => TypeOK
  BY DEF IInv
<1>2. SigInit => HandlerType /\ hpc = "off" /\ unset = None
  <2>1. 1 \in 1 .. NJobs + 1
    BY JobsAssumption
  <2>2. QED
    BY <2>1 DEF SigInit, HandlerType
<1>3. QED
  BY <1>1, <1>2, InitIInv DEF SigInit, SigInv

(* A signal arrives: the handler starts at the first slot.                 *)
LEMMA EnterSig ==
  ASSUME SigInv, Enter, TypeOK', unset' \in Job \cup {None}, Owned',
         unset' # None => fork'[unset'] = None
  PROVE  SigInv'
<1>1. Cleared'
  BY DEF Cleared, Enter, Job
<1>2. HandlerType'
  BY JobsAssumption DEF SigInv, HandlerType, Enter
<1>3. QED
  BY <1>1, <1>2 DEF SigInv, Enter

LEMMA InterruptSig == ASSUME SigInv, Interrupt PROVE SigInv'
<1>1. IInv /\ unset = None /\ UNCHANGED <<vars, unset>> /\ Enter
  BY DEF SigInv, Interrupt, Enter
<1>2. TypeOK' /\ Owned'
  BY <1>1, OwnedBefore DEF TypeOK, Owned, Unreaped, vars, parentVars, childVars
<1>3. QED
  BY <1>1, <1>2, EnterSig DEF None

LEMMA InterruptReapedSig == ASSUME SigInv, InterruptReaped PROVE SigInv'
<1>1. IInv /\ unset = None
  BY DEF SigInv, InterruptReaped, Enter
<1>2. /\ UNCHANGED <<tests, env, overdue, late, parentVars, home, kids, lock, unset>>
      /\ Enter
  BY DEF InterruptReaped
<1>3. PICK t \in Test : Reap(t)
  BY DEF InterruptReaped
<1>4. TypeOK' /\ Unreaped' \subseteq Unreaped
  BY <1>1, <1>2, <1>3, OwnedBefore, ReapFrame
<1>5. Owned'
  BY <1>1, <1>2, <1>4, OwnedBefore DEF Owned, parentVars
<1>6. QED
  BY <1>1, <1>2, <1>4, <1>5, EnterSig

LEMMA InterruptForkSig == ASSUME SigInv, InterruptFork PROVE SigInv'
<1>1. IInv /\ unset = None
  BY DEF SigInv, InterruptFork, Enter
<1>2. /\ UNCHANGED <<tests, env, overdue, late, parentVars, status, kids, lock>>
      /\ unset' = cur /\ Enter
  BY DEF InterruptFork
<1> DEFINE t == test[cur]
<1>3. cur \in Job /\ t \in Test /\ fork'[unset'] = None
  BY <1>1, <1>2 DEF InterruptFork, IInv, TypeOK, Control, Slots, parentVars
<1>4. CASE UNCHANGED <<proc, home>>
  <2>1. TypeOK' /\ Unreaped' = Unreaped
    BY <1>1, <1>2, <1>4 DEF IInv, TypeOK, parentVars, Unreaped
  <2>2. Owned'
    BY <1>1, <1>2, <1>4, <2>1, OwnedBefore DEF Owned, parentVars
  <2>3. QED
    BY <1>2, <1>3, <2>1, <2>2, EnterSig
<1>5. CASE proc' = [proc EXCEPT ![t] = "forked"] /\ home' = [home EXCEPT ![t] = cur]
  <2>1. TypeOK'
    BY <1>1, <1>2, <1>3, <1>5 DEF IInv, TypeOK, parentVars, Alive
  <2>2. \A u \in Test : u # t => proc'[u] = proc[u] /\ home'[u] = home[u]
    BY <1>1, <1>5 DEF IInv, TypeOK
  <2>3. home'[t] = cur
    BY <1>1, <1>3, <1>5 DEF IInv, TypeOK
  <2>4. cur # None
    BY <1>3 DEF Job, None
  <2>5. \A u \in Unreaped' : u # t => u \in Unreaped
    BY <2>2 DEF Unreaped
  <2>6. Owned'
    BY <1>1, <1>2, <1>3, <2>2, <2>3, <2>4, <2>5, OwnedBefore DEF Owned, Unreaped, parentVars
  <2>7. QED
    BY <1>2, <1>3, <2>1, <2>6, EnterSig
<1>6. QED
  BY <1>4, <1>5 DEF InterruptFork

(* Cleared and Owned only depend on who is on the process table.           *)
LEMMA StillSwept ==
  ASSUME Owned, Cleared, Unreaped' \subseteq Unreaped,
         UNCHANGED <<fork, home, unset>>, hj' <= hj, hj \in Int, hj' \in Int
  PROVE  Owned' /\ Cleared'
<1>1. Owned'
  BY DEF Owned
<1>2. Cleared'
  BY DEF Cleared, Job
<1>3. QED
  BY <1>1, <1>2

(* The slot the handler has just been at has no child left either.         *)
LEMMA SlotSwept ==
  ASSUME HandlerType, Owned, Cleared, hj \in Job, Unreaped' \subseteq Unreaped,
         UNCHANGED <<fork, home, unset>>, hj' = hj + 1,
         fork[hj] # None => fork[hj] \notin Unreaped'
  PROVE  Owned' /\ Cleared' /\ hj' \in 1 .. NJobs + 1
<1>1. Owned'
  BY DEF Owned
<1>2. Cleared'
  BY DEF Cleared, Job
<1>3. QED
  BY <1>1, <1>2, JobsAssumption DEF Job

LEMMA HandlerSig == ASSUME SigInv, Handler PROVE SigInv'
<1> USE DEF SigInv
<1>1. hpc \notin {"off", "dead"} /\ Owned /\ Cleared /\ TypeOK /\ HandlerType
  BY DEF Handler, SkipSlot, Terminate, TerminateReap, TerminateFail, TerminateKill, Raise
<1>2. CASE SkipSlot
  <2>1. /\ UNCHANGED <<vars, unset, again>> /\ hpc' = "slot" /\ hj' = hj + 1
        /\ hj \in Job /\ fork[hj] = None
    BY <1>1, <1>2 DEF SkipSlot, NextSlot, MoreSlots, HandlerType, Job
  <2>2. TypeOK' /\ Unreaped' = Unreaped /\ UNCHANGED <<fork, home>>
    BY <1>1, <2>1 DEF TypeOK, Unreaped, vars, parentVars, childVars
  <2>3. Owned' /\ Cleared' /\ hj' \in 1 .. NJobs + 1
    BY <1>1, <2>1, <2>2, SlotSwept
  <2>4. QED
    BY <1>1, <2>1, <2>2, <2>3 DEF HandlerType
<1>3. CASE Terminate \/ Raise
  <2>1. UNCHANGED <<vars, hj, unset, again>>
    BY <1>3 DEF Terminate, Raise
  <2>2. TypeOK' /\ Unreaped' = Unreaped /\ UNCHANGED <<fork, home>>
    BY <1>1, <2>1 DEF TypeOK, Unreaped, vars, parentVars, childVars
  <2>3. Owned' /\ Cleared'
    BY <1>1, <2>1, <2>2, StillSwept DEF HandlerType
  <2>4. CASE Terminate
    BY <1>1, <2>1, <2>2, <2>3, <2>4 DEF Terminate, MoreSlots, HandlerType, Job
  <2>5. CASE Raise
    BY <1>1, <2>1, <2>2, <2>3, <2>5, JobsAssumption DEF Raise, MoreSlots, HandlerType
  <2>6. QED
    BY <1>3, <2>4, <2>5
<1>4. CASE TerminateReap
  <2>1. /\ UNCHANGED <<tests, env, overdue, late, parentVars, home, kids, lock, unset, again>>
        /\ hpc' = "slot" /\ hj' = hj + 1 /\ hj \in Job
    BY <1>1, <1>4 DEF TerminateReap, NextSlot
  <2>2. PICK t \in Awaited : Ended(t) /\ Reap(t)
    BY <1>4 DEF TerminateReap
  <2>3. t \in Test
    BY <2>2 DEF Awaited, Unreaped
  <2>4. TypeOK' /\ Unreaped' \subseteq Unreaped
    BY <1>1, <2>1, <2>2, <2>3, ReapFrame
  <2>5. fork[hj] # None => fork[hj] \notin Unreaped'
    <3>1. CASE unset = hj
      BY <2>1, <3>1 DEF Job, None
    <3>2. CASE unset # hj
      <4>1. t = fork[hj]
        BY <2>2, <3>2 DEF Awaited
      <4>2. proc'[t] = "reaped"
        BY <1>1, <2>2, <2>3 DEF TypeOK, Reap, Ended
      <4>3. QED
        BY <4>1, <4>2 DEF Unreaped, Alive, Dead
    <3>3. QED
      BY <3>1, <3>2
  <2>6. Owned' /\ Cleared' /\ hj' \in 1 .. NJobs + 1
    BY <1>1, <2>1, <2>4, <2>5, SlotSwept DEF parentVars
  <2>7. QED
    BY <1>1, <2>1, <2>4, <2>6 DEF HandlerType, parentVars
<1>5. CASE TerminateFail
  <2>1. /\ UNCHANGED <<vars, unset, again>> /\ Awaited = {}
        /\ hpc' = "slot" /\ hj' = hj + 1 /\ hj \in Job
    BY <1>1, <1>5 DEF TerminateFail, NextSlot
  <2>2. TypeOK' /\ Unreaped' = Unreaped /\ UNCHANGED <<fork, home>>
    BY <1>1, <2>1 DEF TypeOK, Unreaped, vars, parentVars, childVars
  <2>3. fork[hj] # None => fork[hj] \notin Unreaped
    BY <2>1 DEF Awaited, Job, None
  <2>4. Owned' /\ Cleared' /\ hj' \in 1 .. NJobs + 1
    BY <1>1, <2>1, <2>2, <2>3, SlotSwept
  <2>5. QED
    BY <1>1, <2>1, <2>2, <2>4 DEF HandlerType
<1>6. CASE TerminateKill
  <2>1. /\ UNCHANGED <<tests, env, overdue, late, parentVars, home, kids, hj, unset, again>>
        /\ hpc' = "wait" /\ hj \in Job /\ (fork[hj] # None \/ unset = hj)
    BY <1>1, <1>6 DEF TerminateKill
  <2>2. fork[hj] \in Test \/ UNCHANGED <<proc, status, lock>>
    <3>1. CASE fork[hj] = None
      BY <1>6, <3>1 DEF TerminateKill
    <3>2. QED
      BY <1>1, <2>1, <3>1 DEF TypeOK
  <2>3. TypeOK' /\ Unreaped' = Unreaped
    BY <1>1, <1>6, <2>1, <2>2, KillFrame DEF TerminateKill
  <2>4. Owned' /\ Cleared'
    BY <1>1, <2>1, <2>3, StillSwept DEF HandlerType, parentVars
  <2>5. QED
    BY <1>1, <2>1, <2>3, <2>4 DEF HandlerType, parentVars
<1>7. QED
  BY <1>2, <1>3, <1>4, <1>5, <1>6 DEF Handler

LEMMA NextSig == SigInv /\ [SigNext]_svars => SigInv'
<1> SUFFICES ASSUME SigInv, [SigNext]_svars PROVE SigInv'
  OBVIOUS
<1>1. CASE hpc = "off" /\ Next /\ UNCHANGED handlerVars
  <2>1. IInv'
    BY <1>1, NextIInv DEF SigInv
  <2>2. QED
    BY <1>1, <2>1 DEF SigInv, handlerVars, HandlerType, IInv
<1>2. CASE Interrupt \/ InterruptFork \/ InterruptReaped
  BY <1>2, InterruptSig, InterruptForkSig, InterruptReapedSig
<1>3. CASE hpc # "off" /\ (\E t \in Test : Child(t)) /\ UNCHANGED handlerVars
  <2>1. PICK t \in Test : Child(t)
    BY <1>3
  <2>2. TypeOK' /\ Unreaped' = Unreaped /\ UNCHANGED <<parentVars, home>>
    BY <1>3, <2>1, ChildKeeps DEF SigInv
  <2>3. Owned' /\ Cleared'
    BY <1>3, <2>2, StillSwept DEF SigInv, HandlerType, handlerVars, parentVars
  <2>4. QED
    BY <1>3, <2>2, <2>3 DEF SigInv, HandlerType, handlerVars, parentVars
<1>4. CASE InterruptAgain
  <2>1. UNCHANGED <<vars, unset>> /\ hpc' = "slot" /\ hj' = 1 /\ again' = TRUE
    BY <1>4 DEF InterruptAgain
  <2>2. TypeOK /\ HandlerType /\ Owned /\ Cleared
    BY <1>4 DEF InterruptAgain, SigInv
  <2>3. TypeOK' /\ Unreaped' = Unreaped /\ UNCHANGED <<fork, home>>
    BY <2>1, <2>2 DEF TypeOK, Unreaped, vars, parentVars, childVars
  <2>4. Owned' /\ Cleared'
    BY <2>1, <2>2, <2>3, StillSwept DEF HandlerType
  <2>5. QED
    BY <2>1, <2>2, <2>3, <2>4, JobsAssumption DEF SigInv, HandlerType
<1>5. CASE Handler
  BY <1>5, HandlerSig
<1>6. CASE UNCHANGED svars
  <2>1. UNCHANGED vars /\ UNCHANGED handlerVars
    BY <1>6 DEF svars
  <2>2. IInv => IInv'
    BY <2>1, NextIInv
  <2>3. TypeOK' /\ Unreaped' = Unreaped /\ UNCHANGED <<fork, home>>
    BY <2>1 DEF SigInv, TypeOK, Unreaped, vars, parentVars, childVars
  <2>4. QED
    BY <2>1, <2>2, <2>3 DEF SigInv, HandlerType, handlerVars, Owned, Cleared
<1>7. QED
  BY <1>1, <1>2, <1>3, <1>4, <1>5, <1>6 DEF SigNext, Gone

(* From any state of Jobs::run a signal may interrupt, the handler clears  *)
(* slot after slot (Jobs::terminate, jobs.cpp:336).                        *)
THEOREM HandlerInductive == SigSpec => []SigInv
BY InitSig, NextSig, PTL DEF SigSpec

(* No test outlives an interrupted run, but one whose fork() had not yet   *)
(* returned its pid to the runner.                                         *)
THEOREM InterruptLeavesNoTest == SigSpec => []OnlyNewbornEscapes
<1>1. SigInv => OnlyNewbornEscapes
  <2>1. SUFFICES ASSUME SigInv, hpc = "dead", NEW t \in Test, proc[t] \in Alive
                 PROVE  unset # None /\ home[t] = unset
    BY DEF OnlyNewbornEscapes
  <2>2. t \in Unreaped
    BY <2>1 DEF Unreaped
  <2>3. ~ \E j \in Job : fork[j] = t
    BY <2>1, <2>2, JobsAssumption DEF SigInv, Cleared, Job, Test, None
  <2>4. QED
    BY <2>1, <2>2, <2>3 DEF SigInv, Owned
<1>2. QED
  BY <1>1, HandlerInductive, PTL
=============================================================================
