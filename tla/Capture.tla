------------------------------ MODULE Capture ------------------------------
(***************************************************************************)
(* How the output of a child gets into the report: the pipes of Fork       *)
(* (fork.cpp), the two loops that read them, that of Jobs::run (jobs.cpp)  *)
(* around the reaping and the timeouts and that of Fork::run around        *)
(* poll(), and what Result::finalize and Result::dump (results.cpp) then   *)
(* make of it.                                                             *)
(*                                                                         *)
(* A stream is the sequence of who wrote each unit of it; the parent has   *)
(* read its first units, and the pipe holds the others.  A write into a    *)
(* full pipe blocks: Write is not enabled.  A process the test started     *)
(* inherits its streams and may hold them open for longer.  The child has  *)
(* made the pipes its streams (setChild): before that it writes nothing.   *)
(***************************************************************************)
EXTENDS Results, Sequences

CONSTANTS
  Cap,       \* what a pipe holds
  Buff,      \* sizeof(buff) of Fork::flush
  Quota,     \* how much a process writes to a stream: it ends
  Decls      \* the declarations the test may have

Stream  == {"out", "err"}
Process == {"child", "kid"}

ASSUME CaptureAssumption ==
  /\ Cap \in Nat \ {0} /\ Buff \in Nat \ {0}
  /\ Quota \in [Process -> [Stream -> Nat]]
  /\ Decls \subseteq {d \in Decl : d.enabled}

VARIABLES
  reader,    \* "jobs" or "run": which loop reads
  log,       \* who wrote each unit of a stream
  read,      \* how many of them are in out_ and err_
  open,      \* the processes that hold the write end of a pipe
  child,     \* the child, "reaped" at the end
  kid,       \* the process it may leave behind
  late,      \* timeout_after_ has passed
  pc,        \* where the parent is
  at, then,  \* flushPipes(): the pipe it reads, and where it returns to
  seen,      \* flushPipes(): flushed
  report     \* what is recorded and printed in the end

parentVars == <<read, pc, at, then, seen, report>>
vars == <<reader, log, open, child, kid, late, parentVars>>

Unwritten == [verdict |-> "none", level |-> 0, line |-> FALSE, outs |-> [s \in Stream |-> 0]]

Init ==
  /\ reader \in {"jobs", "run"}
  /\ log = [s \in Stream |-> <<>>] /\ read = [s \in Stream |-> 0]
  /\ open = [s \in Stream |-> {"child"}]
  /\ child = "alive" /\ kid = "none"
  /\ late = FALSE
  /\ pc = IF reader = "jobs" THEN "wait" ELSE "poll"
  /\ at = "out" /\ then = "drain" /\ seen = FALSE
  /\ report = Unwritten

Held(s) == Len(log[s]) - read[s]
Full(s) == Held(s) >= Cap

-----------------------------------------------------------------------------
(* Fork::flushPipes.                                                       *)

StartFlush(back) == pc' = "read" /\ at' = "out" /\ seen' = FALSE /\ then' = back

Lesser(x, y) == IF x <= y THEN x ELSE y

(* read() of a non-blocking pipe: what there is, 0 once nobody holds the   *)
(* other end, and otherwise EAGAIN.                                        *)
Available(s) == Lesser(Buff, Held(s))
Err(s) == IF Available(s) > 0 THEN Available(s) ELSE IF open[s] = {} THEN 0 ELSE -1

(* OSErr throws.                                                           *)
Allowed == {"EAGAIN", "EWOULDBLOCK"}
Throws(err, eno) == err < 0 /\ eno \notin Allowed

(* s->append(buff, err).                                                   *)
AppendedBlindly(n) == n
Appended(n) == IF n > 0 THEN n ELSE 0

(* The condition of flush()'s loop, and what it returns.                   *)
Once(err)  == FALSE
Again(err) == err = Buff
OpenAnyway(err) == TRUE
StillOpen(err)  == err # 0

(* flush() of pipe s is back: stderr follows stdout, and then the caller.  *)
ShortCircuit(s, isOpen) ==
  /\ seen' = isOpen
  /\ IF s = "out" /\ ~isOpen THEN at' = "err" /\ UNCHANGED <<pc, then>>
     ELSE /\ pc' = IF then # "polled" THEN then ELSE IF isOpen THEN "poll" ELSE "waitpid"
          /\ UNCHANGED <<at, then>>
Flushed(s, isOpen) ==
  /\ seen' = (seen \/ isOpen)
  /\ IF s = "out" THEN at' = "err" /\ UNCHANGED <<pc, then>>
     ELSE /\ pc' = IF then # "polled" THEN then ELSE IF seen' THEN "poll" ELSE "waitpid"
          /\ UNCHANGED <<at, then>>

(* One turn of the loop of Fork::flush.                                    *)
Read ==
  /\ pc = "read"
  /\ IF Throws(Err(at), "EAGAIN")
       THEN pc' = "crashed" /\ UNCHANGED <<read, at, then, seen>>
       ELSE /\ read' = [read EXCEPT ![at] = @ + Appended(Err(at))]
            /\ IF Again(Err(at)) THEN UNCHANGED <<pc, at, then, seen>>
                                 ELSE Flushed(at, StillOpen(Err(at)))
  /\ UNCHANGED <<reader, log, open, child, kid, late, report>>

-----------------------------------------------------------------------------
(* The loop of Jobs::run, as far as this child is concerned.               *)

ChildWait ==
  /\ pc = "wait" /\ StartFlush("drain")
  /\ UNCHANGED <<reader, log, read, open, child, kid, late, report>>

(* waitpid(-1, WNOHANG): cleanupStatus() of the child flushes once more.   *)
Drain ==
  /\ pc = "drain"
  /\ IF child = "zombie" THEN child' = "reaped" /\ StartFlush("record")
     ELSE pc' = "sweep" /\ UNCHANGED <<child, at, then, seen>>
  /\ UNCHANGED <<reader, log, read, open, kid, late, report>>

Sweep ==
  /\ pc = "sweep"
  /\ pc' = IF late THEN "term" ELSE "wait"
  /\ UNCHANGED <<reader, log, read, open, child, kid, late, at, then, seen, report>>

(* A process ends, and its ends of the pipes are closed.                   *)
HangUp(p) == open' = [s \in Stream |-> open[s] \ {p}]

(* Fork::terminate, whose SIGTERM the child may die of (Die) or not.       *)
TermKill ==
  /\ pc = "term" /\ pc' = "kill"
  /\ child' = "zombie" /\ HangUp("child")
  /\ UNCHANGED <<reader, log, read, kid, late, at, then, seen, report>>

TermReap ==
  /\ pc \in {"term", "kill"} /\ child = "zombie"
  /\ child' = "reaped" /\ StartFlush("recordLate")
  /\ UNCHANGED <<reader, log, read, open, kid, late, report>>

-----------------------------------------------------------------------------
(* Result::finalize and Result::dump, of the finalized result f.           *)

PassedAnyTime(f) == f.skipped \/ ~(f.failed \/ f.error)
Passed(f) == f.skipped \/ ~(f.failed \/ f.error \/ f.timedout)

(* What finalize() keeps of the output, with so many -v.                   *)
Kept(f, v) == IF Passed(f) /\ v < 3 THEN [s \in Stream |-> 0] ELSE read

(* Whether dump() prints the line of the test, and its output.             *)
Dump(d, f, v) ==
  IF f.skipped THEN [line |-> v >= 2, outs |-> v >= 3]
  ELSE IF f.error \/ f.failed \/ f.timedout THEN [line |-> TRUE, outs |-> TRUE]
  ELSE [line |-> d.bench \/ v >= 1, outs |-> v >= 3]

(* moveOuts(), finish() and, once all tests are done, dump().  What the    *)
(* test left in its TestEnv, its status and the -v are read here only, and *)
(* so chosen here.                                                         *)
Record ==
  /\ pc \in {"record", "recordLate"} /\ pc' = "done"
  /\ \E d \in Decls, e \in TestEnv, r \in Result, v \in 0 .. 3 :
       LET f == Finalize(d, e, r)
       IN  /\ r.timedout = (pc = "recordLate") /\ (e.benched => d.bench)
           /\ report' = [verdict |-> Verdict(d, e, f), level |-> v, line |-> Dump(d, f, v).line,
                         outs |-> IF Dump(d, f, v).outs THEN Kept(f, v) ELSE Unwritten.outs]
  /\ UNCHANGED <<reader, log, read, open, child, kid, late, at, then, seen>>

-----------------------------------------------------------------------------
(* Fork::run.                                                              *)

Poll ==
  /\ pc = "poll" /\ \E s \in Stream : Held(s) > 0 \/ open[s] = {}
  /\ StartFlush("polled")
  /\ UNCHANGED <<reader, log, read, open, child, kid, late, report>>

WaitPid ==
  /\ pc = "waitpid" /\ child = "zombie"
  /\ child' = "reaped" /\ StartFlush("exit")
  /\ UNCHANGED <<reader, log, read, open, kid, late, report>>

(* Fork::Exit gets all of the output.                                      *)
Return ==
  /\ pc = "exit" /\ pc' = "done"
  /\ report' = [report EXCEPT !.outs = read]
  /\ UNCHANGED <<reader, log, read, open, child, kid, late, at, then, seen>>

Parent ==
  \/ Read \/ ChildWait \/ Drain \/ Sweep \/ TermKill \/ TermReap \/ Record
  \/ Poll \/ WaitPid \/ Return

-----------------------------------------------------------------------------
(* The child, and a process it started.                                    *)

Lives(p) == IF p = "child" THEN child = "alive" ELSE kid = "alive"
Wrote(p, s) == Cardinality({n \in DOMAIN log[s] : log[s][n] = p})

Write(p, s) ==
  /\ Lives(p) /\ p \in open[s] /\ ~Full(s)
  /\ Wrote(p, s) < Quota[p][s]
  /\ log' = [log EXCEPT ![s] = Append(@, p)]
  /\ UNCHANGED <<reader, open, child, kid, late, parentVars>>

(* close() of a stream, without an end.                                    *)
Close(p, s) ==
  /\ Lives(p) /\ p \in open[s]
  /\ open' = [open EXCEPT ![s] = @ \ {p}]
  /\ UNCHANGED <<reader, log, child, kid, late, parentVars>>

Spawn ==
  /\ child = "alive" /\ kid = "none" /\ kid' = "alive"
  /\ open' = [s \in Stream |-> open[s] \cup IF "child" \in open[s] THEN {"kid"} ELSE {}]
  /\ UNCHANGED <<reader, log, child, late, parentVars>>

(* The child exits or dies of a signal.                                    *)
Die ==
  /\ child = "alive" /\ child' = "zombie" /\ HangUp("child")
  /\ UNCHANGED <<reader, log, kid, late, parentVars>>

KidEnd ==
  /\ kid = "alive" /\ kid' = "gone" /\ HangUp("kid")
  /\ UNCHANGED <<reader, log, child, late, parentVars>>

Expire ==
  /\ reader = "jobs" /\ ~late
  /\ late' = TRUE
  /\ UNCHANGED <<reader, log, open, child, kid, parentVars>>

Over == pc \in {"done", "crashed"} /\ UNCHANGED vars

(* What others do once the report is written goes nowhere.                 *)
Next ==
  \/ Parent
  \/ /\ pc # "done"
     /\ \/ \E p \in Process, s \in Stream : Write(p, s) \/ Close(p, s)
        \/ Spawn \/ Die \/ KidEnd \/ Expire
  \/ Over

(* The kernel schedules the parent, and nothing is assumed of the others.  *)
Spec == Init /\ [][Next]_vars
FairSpec == Spec /\ WF_vars(Parent)

-----------------------------------------------------------------------------

TypeOK ==
  /\ reader \in {"jobs", "run"}
  /\ log \in [Stream -> Seq(Process)]
  /\ read \in [Stream -> Nat]
  /\ open \in [Stream -> SUBSET Process]
  /\ child \in {"alive", "zombie", "reaped"} /\ kid \in {"none", "alive", "gone"}
  /\ late \in BOOLEAN /\ seen \in BOOLEAN
  /\ pc \in {"wait", "read", "drain", "sweep", "term", "kill", "record", "recordLate",
             "poll", "waitpid", "exit", "done", "crashed"}
  /\ at \in Stream
  /\ then \in {"drain", "record", "recordLate", "polled", "exit"}
  /\ report \in [verdict : Verdicts \cup {"none"}, level : 0 .. 3, line : BOOLEAN,
                 outs : [Stream -> Nat]]

(* The parent has read what the child wrote to s: nothing of it is left in *)
(* the pipe, whatever others wrote behind it.                              *)
Drained(s) == \A n \in DOMAIN log[s] : log[s][n] = "child" => n <= read[s]

Settled == {"record", "recordLate", "exit"}   \* no flush follows

(* The output that is moved out of Fork is all the child ever wrote and    *)
(* nothing else than was written, although the pipe is read piecewise, a   *)
(* last time after the child was reaped, and others may still write to it  *)
(* (flush, cleanup, moveOuts and the end of Fork::run).                    *)
OutputTaken ==
  \A s \in Stream :
    /\ read[s] <= Len(log[s])
    /\ pc \in Settled \cup {"done"} => Drained(s)

(* The report of a bad test has its line and all of its output, that of    *)
(* any other has output only with -vvv, and then all of it: what finalize  *)
(* clears is never what dump prints.                                       *)
ReportRight ==
  report.verdict # "none" =>
    IF report.verdict \in BadVerdicts \/ report.level >= 3
      THEN /\ report.line
           /\ \A s \in Stream : \A n \in DOMAIN log[s] :
                log[s][n] = "child" => n <= report.outs[s]
      ELSE report.outs = Unwritten.outs

(* The inductive invariant of the capture.                                 *)
Ending == pc \in Settled \cup {"done"} \/ (pc = "read" /\ then \in Settled)
CaptureInv ==
  /\ TypeOK /\ OutputTaken /\ ReportRight
  /\ pc # "crashed"
  /\ pc # "done" => report = Unwritten
  /\ \A p \in Process, s \in Stream : p \in open[s] => Lives(p)
  /\ Ending => child = "reaped"
  /\ pc = "read" /\ then \in Settled /\ at = "err" => Drained("out")

(* A process that fills a pipe does not wait for good: it is read, also    *)
(* when the test hangs on it and whichever of the two it is.               *)
Unblocks ==
  \A s \in Stream : Full(s) /\ pc # "done" ~> ~Full(s) \/ pc = "done"

(* The end of the child is noticed: by Jobs also while others hold its     *)
(* pipes open, by Fork::run once they do not.                              *)
Collected == child = "zombie" /\ (reader = "jobs" \/ kid # "alive") ~> pc = "done"
=============================================================================
