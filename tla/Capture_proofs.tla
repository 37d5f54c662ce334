--------------------------- MODULE Capture_proofs ---------------------------
(***************************************************************************)
(* Proofs about the capture, for pipes and buffers of any size, any amount *)
(* of output and any declarations: all that a child wrote is taken, and    *)
(* the report of a bad test shows it.                                      *)
(*                                                                         *)
(* The argument is that of the last flush: it starts when the child is     *)
(* reaped, so that only others may still write, and it is done with a pipe *)
(* only after a read that left nothing in it.                              *)
(***************************************************************************)
EXTENDS Capture, TLAPS, SequenceTheorems

-----------------------------------------------------------------------------
(* Pipes.                                                                  *)

(* What one read() returns and what it takes.                              *)
LEMMA ReadTakes ==
  ASSUME TypeOK, OutputTaken, NEW s \in Stream
  PROVE  /\ Err(s) \in Int /\ ~Throws(Err(s), "EAGAIN")
         /\ Appended(Err(s)) \in Nat
         /\ read[s] + Appended(Err(s)) <= Len(log[s])
         /\ ~Again(Err(s)) => read[s] + Appended(Err(s)) = Len(log[s])
<1>1. read[s] \in Nat /\ Len(log[s]) \in Nat /\ Buff \in Nat \ {0} /\ read[s] <= Len(log[s])
  BY CaptureAssumption, LenProperties DEF TypeOK, OutputTaken
<1>2. Held(s) \in Nat /\ Held(s) = Len(log[s]) - read[s]
  BY <1>1 DEF Held
<1>3. /\ Available(s) \in Nat /\ Available(s) <= Held(s)
      /\ Available(s) # Buff => Available(s) = Held(s)
  BY <1>1, <1>2 DEF Available, Lesser
<1>4. Err(s) \in Int /\ Appended(Err(s)) = Available(s)
  BY <1>3 DEF Err, Appended
<1>5. ~Throws(Err(s), "EAGAIN")
  BY DEF Throws, Allowed
<1>6. ~Again(Err(s)) => Available(s) # Buff
  BY <1>1, <1>3 DEF Again, Err
<1>7. QED
  BY <1>1, <1>2, <1>3, <1>4, <1>5, <1>6

(* A pipe is drained when all of it is read, ...                           *)
LEMMA EmptyIsDrained ==
  ASSUME TypeOK', NEW s \in Stream, read'[s] = Len(log'[s])
  PROVE  Drained(s)'
<1>1. log'[s] \in Seq(Process)
  BY DEF TypeOK
<1>2. DOMAIN log'[s] = 1 .. Len(log'[s])
  BY <1>1, LenProperties
<1>3. QED
  BY <1>2 DEF Drained

(* ... stays it when more is read, ...                                     *)
LEMMA ReadKeepsDrained ==
  ASSUME TypeOK, TypeOK', NEW s \in Stream, Drained(s),
         log' = log, read[s] <= read'[s]
  PROVE  Drained(s)'
<1>1. read[s] \in Nat /\ read'[s] \in Nat /\ DOMAIN log[s] = 1 .. Len(log[s])
      /\ Len(log[s]) \in Nat
  BY LenProperties DEF TypeOK
<1>2. QED
  BY <1>1 DEF Drained

(* ... and when others write to it.                                        *)
LEMMA WriteKeepsDrained ==
  ASSUME TypeOK, NEW s \in Stream, NEW p \in Process, NEW w \in Stream, Drained(s),
         p # "child", log' = [log EXCEPT ![w] = Append(@, p)], read' = read
  PROVE  Drained(s)'
<1>1. log[s] \in Seq(Process) /\ read[s] \in Nat
  BY DEF TypeOK
<1>2. CASE w # s
  BY <1>2 DEF Drained, TypeOK
<1>3. CASE w = s
  <2>1. log'[s] = Append(log[s], p)
    BY <1>3 DEF TypeOK
  <2>2. \A n \in DOMAIN log'[s] : log'[s][n] = "child" => n \in DOMAIN log[s] /\ log[s][n] = "child"
    BY <1>1, <2>1, AppendProperties, LenProperties
  <2>3. QED
    BY <2>2 DEF Drained
<1>4. QED
  BY <1>2, <1>3

-----------------------------------------------------------------------------
(* The report.                                                             *)

LEMMA VerdictOf ==
  ASSUME NEW d \in Decls, NEW e \in TestEnv, NEW r \in Result
  PROVE  LET f == Finalize(d, e, r)
             v == Verdict(d, e, f)
         IN  /\ f.skipped \in BOOLEAN /\ f.error \in BOOLEAN
             /\ f.failed \in BOOLEAN /\ f.timedout \in BOOLEAN
             /\ v \in Verdicts
             /\ v \in BadVerdicts <=> ~Passed(f)
             /\ ~Passed(f) => ~f.skipped
<1> DEFINE f == Finalize(d, e, r)
<1>1. d.enabled /\ d.expectFail \in BOOLEAN
  BY CaptureAssumption DEF Decl
<1>2. e.skipped \in BOOLEAN /\ e.failed \in BOOLEAN /\ e.benched \in BOOLEAN
      /\ r.timedout \in BOOLEAN
  BY DEF TestEnv, Result
<1>3. Mismatch(d, r) \in BOOLEAN
  BY DEF Mismatch
<1>4. /\ f.skipped = e.skipped /\ f.timedout = r.timedout
      /\ f.failed = (~e.skipped /\ ~r.timedout /\ e.failed /\ ~d.expectFail)
      /\ f.error = (~e.skipped /\ ~r.timedout /\ ~e.failed /\ Mismatch(d, r))
  BY DEF Finalize
<1>5. /\ f.skipped \in BOOLEAN /\ f.timedout \in BOOLEAN
      /\ f.failed \in BOOLEAN /\ f.error \in BOOLEAN
      /\ f.error \/ f.failed => ~f.skipped
  BY <1>1, <1>2, <1>3, <1>4
<1> HIDE DEF f
<1>6. /\ f.skipped => Verdict(d, e, f) = "skipped"
      /\ ~f.skipped /\ f.error => Verdict(d, e, f) = "error"
      /\ ~f.skipped /\ ~f.error /\ f.failed => Verdict(d, e, f) = "failed"
      /\ ~f.skipped /\ ~f.error /\ ~f.failed /\ f.timedout => Verdict(d, e, f) = "timedout"
      /\ ~f.skipped /\ ~f.error /\ ~f.failed /\ ~f.timedout =>
           Verdict(d, e, f) = IF e.benched THEN "bench" ELSE "pass"
  <2>1. f.error /\ f.failed => FALSE
    BY <1>1, <1>2, <1>3, <1>4
  <2>2. f.timedout => ~f.error /\ ~f.failed
    BY <1>1, <1>2, <1>3, <1>4
  <2>3. QED
    BY <1>1, <1>2, <1>5, <2>1, <2>2 DEF Verdict
<1>7. Verdict(d, e, f) \in Verdicts /\ (Verdict(d, e, f) \in BadVerdicts <=> ~Passed(f))
  BY <1>5, <1>6 DEF Passed, Verdicts, BadVerdicts
<1>8. QED
  BY <1>5, <1>7 DEF f, Passed

LEMMA RecordShows ==
  ASSUME CaptureInv, Record
  PROVE  /\ report' \in [verdict : Verdicts \cup {"none"}, level : 0 .. 3, line : BOOLEAN,
                         outs : [Stream -> Nat]]
         /\ ReportRight'
<1>1. PICK d \in Decls, e \in TestEnv, r \in Result, v \in 0 .. 3 :
        LET f == Finalize(d, e, r)
        IN  report' = [verdict |-> Verdict(d, e, f), level |-> v, line |-> Dump(d, f, v).line,
                       outs |-> IF Dump(d, f, v).outs THEN Kept(f, v) ELSE Unwritten.outs]
  BY DEF Record
<1> DEFINE f == Finalize(d, e, r)
<1>2. /\ f.skipped \in BOOLEAN /\ f.error \in BOOLEAN
      /\ f.failed \in BOOLEAN /\ f.timedout \in BOOLEAN
      /\ Verdict(d, e, f) \in Verdicts
      /\ Verdict(d, e, f) \in BadVerdicts <=> ~Passed(f)
      /\ ~Passed(f) => ~f.skipped
  BY VerdictOf
<1>3. read \in [Stream -> Nat] /\ Unwritten.outs \in [Stream -> Nat] /\ d.bench \in BOOLEAN
  BY CaptureAssumption DEF CaptureInv, TypeOK, Unwritten, Decl
<1>4. log' = log /\ read' = read /\ \A s \in Stream : Drained(s)
  BY DEF Record, CaptureInv, OutputTaken, Settled
<1>5. /\ report'.verdict = Verdict(d, e, f) /\ report'.level = v
      /\ report'.line = Dump(d, f, v).line
      /\ report'.outs = IF Dump(d, f, v).outs THEN Kept(f, v) ELSE Unwritten.outs
  BY <1>1
<1>6. report' = [verdict |-> report'.verdict, level |-> report'.level, line |-> report'.line,
                 outs |-> report'.outs]
  BY <1>1
<1> HIDE DEF f
<1>7. /\ ~Passed(f) => Dump(d, f, v).line /\ Dump(d, f, v).outs /\ Kept(f, v) = read
      /\ v >= 3 => Dump(d, f, v).line /\ Dump(d, f, v).outs /\ Kept(f, v) = read
      /\ Passed(f) /\ ~(v >= 3) => ~Dump(d, f, v).outs
      /\ Dump(d, f, v).line \in BOOLEAN
  <2>1. Passed(f) <=> f.skipped \/ ~(f.error \/ f.failed \/ f.timedout)
    BY DEF Passed
  <2>2. ~Passed(f) => Dump(d, f, v) = [line |-> TRUE, outs |-> TRUE]
    BY <1>2, <2>1 DEF Dump
  <2>3. Passed(f) => \/ Dump(d, f, v) = [line |-> v >= 2, outs |-> v >= 3]
                     \/ Dump(d, f, v) = [line |-> d.bench \/ v >= 1, outs |-> v >= 3]
    BY <1>2, <2>1 DEF Dump
  <2>4. ~Passed(f) \/ v >= 3 => Kept(f, v) = read
    BY DEF Kept
  <2>5. v \in Int
    OBVIOUS
  <2>6. v >= 3 => v >= 2 /\ v >= 1
    BY <2>5
  <2>7. ~Passed(f) => Dump(d, f, v).line = TRUE /\ Dump(d, f, v).outs = TRUE
    BY <2>2
  <2>8. Passed(f) => /\ Dump(d, f, v).line \in BOOLEAN
                     /\ Dump(d, f, v).outs = (v >= 3)
                     /\ v >= 3 => Dump(d, f, v).line = TRUE
    <3>1. CASE Dump(d, f, v) = [line |-> v >= 2, outs |-> v >= 3]
      <4>1. Dump(d, f, v).line = (v >= 2) /\ Dump(d, f, v).outs = (v >= 3)
        BY <3>1
      <4>2. v >= 3 => (v >= 2) = TRUE
        BY <2>6
      <4>3. (v >= 2) \in BOOLEAN
        OBVIOUS
      <4>4. QED
        BY <4>1, <4>2, <4>3, Zenon
    <3>2. CASE Dump(d, f, v) = [line |-> d.bench \/ v >= 1, outs |-> v >= 3]
      <4>1. Dump(d, f, v).line = (d.bench \/ v >= 1) /\ Dump(d, f, v).outs = (v >= 3)
        BY <3>2
      <4>2. QED
        BY <2>6, <4>1, Zenon
    <3>3. QED
      BY <2>3, <3>1, <3>2
  <2>9. QED
    BY <2>4, <2>7, <2>8
<1>8. report'.outs \in [Stream -> Nat]
  BY <1>3, <1>5, <1>7
<1>9. ASSUME report'.verdict \in BadVerdicts \/ report'.level >= 3
      PROVE  ReportRight'
  <2>1. report'.line /\ report'.outs = read
    BY <1>2, <1>5, <1>7, <1>9
  <2>2. \A s \in Stream : \A n \in DOMAIN log'[s] :
          log'[s][n] = "child" => n <= report'.outs[s]
    BY <1>4, <2>1 DEF Drained
  <2>3. QED
    BY <1>9, <2>1, <2>2 DEF ReportRight
<1>10. ASSUME ~(report'.verdict \in BadVerdicts \/ report'.level >= 3)
       PROVE  ReportRight'
  <2>1. report'.outs = Unwritten.outs
    BY <1>2, <1>5, <1>7, <1>10
  <2>2. QED
    BY <1>10, <2>1 DEF ReportRight
<1>11. QED
  BY <1>2, <1>5, <1>6, <1>7, <1>8, <1>9, <1>10

-----------------------------------------------------------------------------
(* Every step keeps CaptureInv.                                            *)

(* The parent turns to the pipes.                                          *)
LEMMA StartFlushInv ==
  ASSUME CaptureInv, NEW back \in {"drain", "record", "recordLate", "polled", "exit"},
         StartFlush(back), pc # "done", child' \in {child, "reaped"},
         child = "alive" => child' = "alive",
         back \in Settled => child' = "reaped",
         UNCHANGED <<reader, log, read, open, kid, late, report>>
  PROVE  CaptureInv'
<1>1. TypeOK'
  BY DEF CaptureInv, TypeOK, StartFlush, Stream
<1>2. OutputTaken' /\ ReportRight'
  BY DEF CaptureInv, OutputTaken, ReportRight, Settled, StartFlush, Drained
<1>3. \A p \in Process, s \in Stream : p \in open'[s] => Lives(p)'
  BY DEF CaptureInv, Lives
<1>4. QED
  BY <1>1, <1>2, <1>3 DEF CaptureInv, StartFlush, Ending, Settled

LEMMA ReadInv ==
  ASSUME CaptureInv, Read
  PROVE  CaptureInv'
<1>1. TypeOK /\ OutputTaken /\ at \in Stream
  BY DEF CaptureInv, TypeOK
<1> DEFINE n == Appended(Err(at))
<1>2. /\ n \in Nat /\ read[at] + n <= Len(log[at]) /\ Err(at) \in Int
      /\ ~Again(Err(at)) => read[at] + n = Len(log[at])
      /\ ~Throws(Err(at), "EAGAIN")
  BY <1>1, ReadTakes
<1>3. /\ read' = [read EXCEPT ![at] = @ + n]
      /\ UNCHANGED <<reader, log, open, child, kid, late, report>>
      /\ \/ UNCHANGED <<pc, at, then, seen>>
         \/ ~Again(Err(at)) /\ Flushed(at, StillOpen(Err(at)))
  BY <1>2 DEF Read
<1> HIDE DEF n
<1>4. read \in [Stream -> Nat] /\ read' \in [Stream -> Nat] /\ pc = "read"
  BY <1>1, <1>2, <1>3 DEF TypeOK, Read
<1>5. \A s \in Stream : read[s] <= read'[s] /\ read'[s] <= Len(log'[s])
  BY <1>1, <1>2, <1>3, <1>4 DEF OutputTaken
<1>6. /\ pc' = "read" => then' = then
      /\ pc' \in {"read", "poll", "waitpid"} \/ (pc' = then /\ then # "polled")
      /\ at' \in Stream /\ then' = then /\ seen' \in BOOLEAN
  BY <1>1, <1>3, <1>4 DEF Flushed, StillOpen, TypeOK, Stream
<1>7. TypeOK'
  BY <1>1, <1>3, <1>4, <1>6 DEF TypeOK
<1>8. \A s \in Stream : Drained(s) => Drained(s)'
  BY <1>1, <1>3, <1>5, <1>7, ReadKeepsDrained
<1>9. \A s \in Stream : s = at /\ ~Again(Err(s)) => Drained(s)'
  <2>1. SUFFICES ASSUME NEW s \in Stream, s = at, ~Again(Err(s))
                 PROVE  Drained(s)'
    OBVIOUS
  <2>2. read'[s] = Len(log'[s])
    BY <1>1, <1>2, <1>3, <1>4, <2>1
  <2>3. QED
    BY <1>7, <2>2, EmptyIsDrained
<1>10. then \in Settled /\ (at' = "err" \/ pc' # "read") => Drained("out")'
  <2>1. CASE at = "out" /\ ~Again(Err(at))
    BY <1>9, <2>1 DEF Stream
  <2>2. CASE at = "out" /\ Again(Err(at))
    BY <1>3, <1>4, <2>2
  <2>3. CASE at = "err"
    BY <1>4, <1>8, <2>3 DEF CaptureInv, Stream
  <2>4. QED
    BY <1>1, <2>1, <2>2, <2>3 DEF Stream
<1>11. pc' # "read" => Drained("err")'
  BY <1>1, <1>3, <1>4, <1>9 DEF Flushed, Stream
<1>12. OutputTaken'
  <2>1. pc' \in Settled \cup {"done"} => then \in Settled /\ pc' # "read"
    BY <1>1, <1>6 DEF Settled, TypeOK
  <2>2. pc' \in Settled \cup {"done"} => \A s \in Stream : Drained(s)'
    BY <1>10, <1>11, <2>1 DEF Stream
  <2>3. QED
    BY <1>5, <2>2 DEF OutputTaken
<1>13. ReportRight'
  BY <1>3, <1>4 DEF CaptureInv, ReportRight, Unwritten
<1>14. \A p \in Process, s \in Stream : p \in open'[s] => Lives(p)'
  BY <1>3 DEF CaptureInv, Lives
<1>15. pc' # "crashed" /\ (pc' # "done" => report' = Unwritten) /\ (Ending' => child' = "reaped")
  BY <1>1, <1>3, <1>4, <1>6 DEF CaptureInv, Ending, Settled, TypeOK
<1>16. QED
  BY <1>6, <1>7, <1>10, <1>12, <1>13, <1>14, <1>15 DEF CaptureInv

LEMMA WriteInv ==
  ASSUME CaptureInv, NEW p \in Process, NEW s \in Stream, Write(p, s), pc # "done"
  PROVE  CaptureInv'
<1>1. TypeOK /\ log' = [log EXCEPT ![s] = Append(@, p)]
      /\ UNCHANGED <<reader, open, child, kid, late, read, pc, at, then, seen, report>>
  BY DEF CaptureInv, Write, parentVars
<1>2. TypeOK'
  <2>1. log' \in [Stream -> Seq(Process)]
    BY <1>1, AppendProperties DEF TypeOK
  <2>2. QED
    BY <1>1, <2>1 DEF TypeOK
<1>3. Ending => p # "child"
  BY DEF CaptureInv, Write, Lives
<1>4. \A w \in Stream : Ending /\ Drained(w) => Drained(w)'
  BY <1>1, <1>3, WriteKeepsDrained
<1>5. \A w \in Stream : read'[w] <= Len(log'[w])
  <2>1. \A w \in Stream : Len(log[w]) \in Nat /\ read[w] \in Nat /\ read[w] <= Len(log[w])
    BY <1>1, LenProperties DEF TypeOK, CaptureInv, OutputTaken
  <2>2. \A w \in Stream : Len(log[w]) <= Len(log'[w]) /\ Len(log'[w]) \in Nat
    <3>1. \A w \in Stream : log'[w] = IF w = s THEN Append(log[w], p) ELSE log[w]
      BY <1>1 DEF TypeOK
    <3>2. \A w \in Stream : Len(Append(log[w], p)) = Len(log[w]) + 1
      BY <1>1, AppendProperties DEF TypeOK
    <3>3. ASSUME NEW w \in Stream PROVE Len(log[w]) <= Len(log'[w]) /\ Len(log'[w]) \in Nat
      <4>1. Len(log'[w]) = Len(log[w]) \/ Len(log'[w]) = Len(log[w]) + 1
        BY <3>1, <3>2
      <4>2. QED
        BY <2>1, <4>1
    <3>4. QED
      BY <3>3
  <2>3. QED
    BY <1>1, <2>1, <2>2
<1>6. OutputTaken'
  BY <1>1, <1>4, <1>5 DEF CaptureInv, OutputTaken, Ending
<1>7. ReportRight'
  BY <1>1 DEF CaptureInv, ReportRight, Unwritten
<1>8. \A q \in Process, w \in Stream : q \in open'[w] => Lives(q)'
  BY <1>1 DEF CaptureInv, Lives
<1>9. pc' = "read" /\ then' \in Settled /\ at' = "err" => Drained("out")'
  BY <1>1, <1>4 DEF CaptureInv, Ending, Stream
<1>10. QED
  BY <1>1, <1>2, <1>6, <1>7, <1>8, <1>9 DEF CaptureInv, Ending

(* The others otherwise, and the parent between two flushes.               *)
LEMMA QuietInv ==
  ASSUME CaptureInv, TypeOK', pc # "done", UNCHANGED <<log, read, at, then, report>>,
         \/ pc' = pc
         \/ pc' \in {"wait", "sweep", "term", "kill"},
         child' = child \/ child = "alive" \/ pc' = "kill",
         \A p \in Process, s \in Stream : p \in open'[s] => Lives(p)'
  PROVE  CaptureInv'
<1>1. OutputTaken' /\ ReportRight'
  BY DEF CaptureInv, OutputTaken, ReportRight, Settled, Drained
<1>2. Ending' => Ending
  BY DEF Ending, Settled
<1>3. Ending' => child' = "reaped"
  BY <1>2 DEF CaptureInv, Ending, Settled
<1>4. QED
  BY <1>1, <1>3 DEF CaptureInv, Drained

(* The report is written.                                                  *)
LEMMA DoneInv ==
  ASSUME CaptureInv, Record \/ Return
  PROVE  CaptureInv'
<1>1. /\ pc \in Settled /\ pc' = "done"
      /\ UNCHANGED <<reader, log, read, open, child, kid, late, at, then, seen>>
  BY DEF Record, Return, Settled
<1>2. TypeOK /\ report = Unwritten /\ child = "reaped"
  BY <1>1 DEF CaptureInv, Ending, Settled
<1>3. /\ report' \in [verdict : Verdicts \cup {"none"}, level : 0 .. 3, line : BOOLEAN,
                        outs : [Stream -> Nat]]
      /\ ReportRight'
  <2>1. CASE Record
    BY <2>1, RecordShows
  <2>2. CASE Return
    BY <1>2, <2>2 DEF Return, ReportRight, Unwritten, TypeOK
  <2>3. QED
    BY <2>1, <2>2
<1>4. TypeOK'
  BY <1>1, <1>2, <1>3 DEF TypeOK
<1>5. OutputTaken'
  BY <1>1 DEF CaptureInv, OutputTaken, Drained
<1>6. QED
  BY <1>1, <1>2, <1>3, <1>4, <1>5 DEF CaptureInv, Lives, Settled

LEMMA CaptureStep ==
  ASSUME CaptureInv, [Next]_vars
  PROVE  CaptureInv'
<1> USE DEF Process
<1>1. TypeOK /\ \A p \in Process, s \in Stream : p \in open[s] => Lives(p)
  BY DEF CaptureInv
<1>2. CASE Read
  BY <1>2, ReadInv
<1>3. CASE ChildWait
  BY <1>3, StartFlushInv DEF ChildWait, Settled
<1>4. CASE Drain
  <2>1. CASE child = "zombie"
    BY <1>4, <2>1, StartFlushInv DEF Drain, Settled
  <2>2. CASE child # "zombie"
    <3>1. TypeOK'
      BY <1>1, <1>4, <2>2 DEF Drain, TypeOK
    <3>2. QED
      BY <1>1, <1>4, <2>2, <3>1, QuietInv DEF Drain, Lives
  <2>3. QED
    BY <2>1, <2>2
<1>5. CASE Sweep
  <2>1. TypeOK'
    BY <1>1, <1>5 DEF Sweep, TypeOK
  <2>2. QED
    BY <1>1, <1>5, <2>1, QuietInv DEF Sweep, Lives
<1>6. CASE TermKill
  <2>1. TypeOK' /\ \A p \in Process, s \in Stream : p \in open'[s] => Lives(p)'
    BY <1>1, <1>6 DEF TermKill, TypeOK, HangUp, Lives
  <2>2. QED
    BY <1>1, <1>6, <2>1, QuietInv DEF TermKill
<1>7. CASE TermReap
  BY <1>7, StartFlushInv DEF TermReap, Settled
<1>8. CASE Record \/ Return
  BY <1>8, DoneInv
<1>9. CASE Poll
  BY <1>9, StartFlushInv DEF Poll, Settled
<1>10. CASE WaitPid
  BY <1>10, StartFlushInv DEF WaitPid, Settled
<1>11. ASSUME NEW p \in Process, NEW s \in Stream, Write(p, s), pc # "done"
       PROVE  CaptureInv'
  BY <1>11, WriteInv
<1>12. ASSUME NEW p \in Process, NEW s \in Stream, Close(p, s), pc # "done"
       PROVE  CaptureInv'
  <2>1. TypeOK' /\ \A q \in Process, w \in Stream : q \in open'[w] => Lives(q)'
    BY <1>1, <1>12 DEF Close, TypeOK, Lives, parentVars
  <2>2. QED
    BY <1>12, <2>1, QuietInv DEF Close, parentVars
<1>13. ASSUME Spawn \/ Die \/ KidEnd \/ Expire, pc # "done"
       PROVE  CaptureInv'
  <2>1. TypeOK' /\ \A q \in Process, w \in Stream : q \in open'[w] => Lives(q)'
    <3>1. CASE Spawn
      BY <1>1, <3>1 DEF Spawn, TypeOK, Lives, parentVars
    <3>2. CASE Die
      BY <1>1, <3>2 DEF Die, HangUp, TypeOK, Lives, parentVars
    <3>3. CASE KidEnd
      BY <1>1, <3>3 DEF KidEnd, HangUp, TypeOK, Lives, parentVars
    <3>4. CASE Expire
      BY <1>1, <3>4 DEF Expire, TypeOK, Lives, parentVars
    <3>5. QED
      BY <1>13, <3>1, <3>2, <3>3, <3>4
  <2>2. QED
    BY <1>13, <2>1, QuietInv DEF Spawn, Die, KidEnd, Expire, parentVars
<1>14. CASE UNCHANGED vars
  BY <1>14 DEF CaptureInv, TypeOK, OutputTaken, ReportRight, Drained, Lives, Ending, vars, parentVars
<1>15. QED
  BY <1>2, <1>3, <1>4, <1>5, <1>6, <1>7, <1>8, <1>9, <1>10, <1>11, <1>12, <1>13, <1>14
     DEF Next, Parent, Over

LEMMA CaptureInit == Init => CaptureInv
<1> SUFFICES ASSUME Init PROVE CaptureInv
  OBVIOUS
<1>1. TypeOK
  <2>1. /\ log \in [Stream -> Seq(Process)] /\ read \in [Stream -> Nat]
        /\ open \in [Stream -> SUBSET Process]
    BY DEF Init, Process
  <2>2. report \in [verdict : Verdicts \cup {"none"}, level : 0 .. 3, line : BOOLEAN,
                    outs : [Stream -> Nat]]
    BY DEF Init, Unwritten
  <2>3. QED
    BY <2>1, <2>2 DEF Init, TypeOK, Stream
<1>2. OutputTaken /\ ReportRight
  BY DEF Init, OutputTaken, ReportRight, Unwritten, Settled
<1>3. QED
  BY <1>1, <1>2 DEF Init, CaptureInv, Lives, Ending, Settled

-----------------------------------------------------------------------------
(* The inductive invariant of the capture, with pipes and buffers of any   *)
(* size (Fork::flush, flushPipes, ForkingJob::cleanup, Fork::run).         *)
THEOREM CaptureInductive == Spec => []CaptureInv
BY CaptureInit, CaptureStep, PTL DEF Spec

(* No output of a child is lost, whoever else holds its pipes.             *)
THEOREM AllOutputTaken == Spec => []OutputTaken
<1>1. CaptureInv => OutputTaken
  BY DEF CaptureInv
<1>2. QED
  BY <1>1, CaptureInductive, PTL

(* What dump() prints is never what finalize() has cleared.                *)
THEOREM BadTestsAreShown == Spec => []ReportRight
<1>1. CaptureInv => ReportRight
  BY DEF CaptureInv
<1>2. QED
  BY <1>1, CaptureInductive, PTL
=============================================================================
