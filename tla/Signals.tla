------------------------------ MODULE Signals ------------------------------
(***************************************************************************)
(* SIGINT or SIGTERM while the forking runner is at work: _handler of      *)
(* signal.cpp, which calls Jobs::terminate (jobs.cpp) and through it       *)
(* Fork::terminate (fork.cpp) for every slot, and then lets the signal end *)
(* the program.                                                            *)
(*                                                                         *)
(* The handler never returns to what it interrupted.  An interrupt between *)
(* two actions of Jobs finds the slots as Jobs has them; one in the middle *)
(* of an action finds what the action has done so far, and three such      *)
(* prefixes show something that Jobs does not: a Fork whose pid_ is still  *)
(* -1, without or with its child, and a child that waitpid() has returned  *)
(* while fork_ still holds its pid, also during the user's cleanup         *)
(* function.  The tests go on while the handler runs.                      *)
(*                                                                         *)
(* The signal is sent to the program's process, not to its group: a        *)
(* terminal's Ctrl-C also reaches a child that is not in its own group and *)
(* has not given up the handler yet, whose copy of it is not modelled.     *)
(***************************************************************************)
EXTENDS Jobs

VARIABLES
  hpc,      \* where the handler is, "off" before a signal, "dead" after it
  hj,       \* the slot Jobs::terminate is at
  unset,    \* a slot whose Fork has no pid_ yet, or None
  again     \* the other of the two signals has arrived as well

handlerVars == <<hpc, hj, unset, again>>
svars == <<vars, handlerVars>>

HandlerType ==
  /\ hpc \in {"off", "slot", "polls", "wait", "dead"}
  /\ hj \in 1 .. NJobs + 1
  /\ unset \in Job \cup {None}
  /\ again \in BOOLEAN

SigInit == Init /\ hpc = "off" /\ hj = 1 /\ unset = None /\ again = FALSE

-----------------------------------------------------------------------------
(* A signal arrives.                                                       *)

Enter == hpc = "off" /\ hpc' = "slot" /\ hj' = 1 /\ UNCHANGED again

(* Between two actions of the parent, also while a fresh child is not in   *)
(* its group, and before ~Main has given the signals back.                 *)
Interrupt ==
  /\ pc # "crashed"
  /\ Enter /\ UNCHANGED <<vars, unset>>

(* In Fork::fork, before pid_ is assigned: the child may exist or not.     *)
InterruptFork ==
  /\ pc = "fork"
  /\ \/ UNCHANGED <<proc, home>>
     \/ /\ proc' = [proc EXCEPT ![test[cur]] = "forked"]
        /\ home' = [home EXCEPT ![test[cur]] = cur]
  /\ unset' = cur
  /\ Enter
  /\ UNCHANGED <<tests, env, overdue, late, parentVars, status, kids, lock>>

(* After waitpid() has reaped a child, before its fork_ is cleared.        *)
InterruptReaped ==
  /\ \E t \in Test :
       /\ \/ pc = "drain" /\ ~Done(rslts) /\ proc[t] \in Dead
          \/ pc \in {"term", "kill"} /\ t = fork[cur] /\ Ended(t)
       /\ Reap(t)
  /\ Enter
  /\ UNCHANGED <<tests, env, overdue, late, parentVars, home, kids, lock, unset>>

(* The other signal interrupts the handler, and its handler starts over;   *)
(* each is blocked while its own handler runs.                             *)
InterruptAgain ==
  /\ hpc \in {"slot", "polls", "wait"} /\ ~again
  /\ hpc' = "slot" /\ hj' = 1 /\ again' = TRUE
  /\ UNCHANGED <<vars, unset>>

-----------------------------------------------------------------------------
(* Jobs::terminate, slot by slot.                                          *)

AllButLast == hj < NJobs
MoreSlots  == hj <= NJobs

NextSlot == hpc' = "slot" /\ hj' = hj + 1

SkipSlot ==
  /\ hpc = "slot" /\ MoreSlots
  /\ fork[hj] = None /\ unset # hj
  /\ NextSlot
  /\ UNCHANGED <<vars, unset, again>>

(* killpg(SIGTERM): Crash(t) is a child dying of it.  Nobody is signalled  *)
(* with a pid_ of -1, which killpg() refuses, or a child without a group.  *)
Terminate ==
  /\ hpc = "slot" /\ MoreSlots
  /\ fork[hj] # None \/ unset = hj
  /\ hpc' = "polls"
  /\ UNCHANGED <<vars, hj, unset, again>>

(* The children waitpid(pid_) may return: any child for a pid_ of -1, none *)
(* if the slot's child has been reaped.                                    *)
Awaited == IF unset = hj THEN Unreaped ELSE {fork[hj]} \cap Unreaped

(* A poll or the last waitpid() returns a child.                           *)
TerminateReap ==
  /\ hpc \in {"polls", "wait"}
  /\ \E t \in Awaited : Ended(t) /\ Reap(t)
  /\ NextSlot
  /\ UNCHANGED <<tests, env, overdue, late, parentVars, home, kids, lock, unset, again>>

(* waitpid() fails.  A poll then reads a status nobody has set, and may    *)
(* take the child for ended or poll on.                                    *)
TerminateFail ==
  /\ hpc \in {"polls", "wait"}
  /\ Awaited = {}
  /\ NextSlot
  /\ UNCHANGED <<vars, unset, again>>

(* The polls are over: SIGKILL, and waitpid() blocks.                      *)
TerminateKill ==
  /\ hpc = "polls"
  /\ IF unset = hj THEN UNCHANGED <<proc, status, lock>> ELSE KillGroup(fork[hj])
  /\ hpc' = "wait"
  /\ UNCHANGED <<tests, env, overdue, late, parentVars, home, kids, hj, unset, again>>

(* signal(sig, SIG_DFL) and raise(sig): it strikes as the handler returns. *)
Raise ==
  /\ hpc = "slot" /\ ~MoreSlots
  /\ hpc' = "dead"
  /\ UNCHANGED <<vars, hj, unset, again>>

Handler == SkipSlot \/ Terminate \/ TerminateReap \/ TerminateFail \/ TerminateKill \/ Raise

(* The program is gone; its tests, if any, are nobody's.                   *)
Gone == hpc = "dead" /\ UNCHANGED svars

SigNext ==
  \/ hpc = "off" /\ Next /\ UNCHANGED handlerVars
  \/ Interrupt \/ InterruptFork \/ InterruptReaped
  \/ hpc # "off" /\ (\E t \in Test : Child(t)) /\ UNCHANGED handlerVars
  \/ InterruptAgain
  \/ Handler
  \/ Gone

(* The handler runs; nothing is assumed of the tests.                      *)
SigSpec == SigInit /\ [][SigNext]_svars
FairSigSpec == SigSpec /\ WF_svars(Handler)

-----------------------------------------------------------------------------

(* An interrupted run leaves no test behind ("to clean up children before  *)
(* exiting", jobs.hpp:280).                                                *)
NoOrphans == hpc = "dead" => \A t \in Test : proc[t] \notin Alive

(* The only test that can outlive an interrupted run is the one whose      *)
(* fork() has returned to no pid_ yet, if the handler's waitpid(-1) reaps  *)
(* another in its place; whatever the signal hit: a sweep, a half-reaped   *)
(* child, a child without its group or the handler itself.                 *)
OnlyNewbornEscapes ==
  hpc = "dead" => \A t \in Test : proc[t] \in Alive => unset # None /\ home[t] = unset

(* Behind the handler no slot has a child left.                            *)
Cleared == \A j \in Job : j < hj /\ fork[j] # None => fork[j] \notin Unreaped

(* Every process belongs to a slot, the newborn to the one without a pid.  *)
Owned ==
  \A t \in Unreaped :
    /\ home[t] \in Job
    /\ (\E j \in Job : fork[j] = t) \/ (unset # None /\ home[t] = unset)

(* The inductive invariant of the handler.                                 *)
SigInv ==
  /\ TypeOK /\ HandlerType
  /\ hpc = "off" => IInv /\ unset = None
  /\ unset # None => fork[unset] = None
  /\ hpc # "off" => Owned /\ Cleared
  /\ hpc = "dead" => hj = NJobs + 1
  /\ hpc \in {"polls", "wait"} => hj \in Job /\ (fork[hj] # None \/ unset = hj)

(* The handler comes to its end, even if tests hang and ignore SIGTERM, as *)
(* long as Fork::fork was not under way: it waits for no pid that is gone. *)
HandlerEnds ==
  hpc \notin {"off", "dead"} /\ pc # "await" /\ unset = None ~> hpc = "dead"
=============================================================================
