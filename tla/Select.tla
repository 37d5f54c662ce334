------------------------------- MODULE Select -------------------------------
(***************************************************************************)
(* Which tests a run is made of: the loops of Main::run (main.cpp) over    *)
(* the declared tests and their ranges, and Test::bindTo (test.cpp), which *)
(* matches a test with the filters one by one.  What it leaves behind is   *)
(* what the runners start from: the vector of tests and its counts.        *)
(*                                                                         *)
(* A name is a sequence of characters, because filters match prefixes of   *)
(* it and an index becomes a part of it: ":1" also selects index 10.       *)
(***************************************************************************)
EXTENDS Results, SequencesExt

CONSTANTS
  Declared,      \* the _paratec section: declared tests, in order
  FilterLists    \* the lists of filters a user may give

(* What bindTo() and getRange() read of a declaration; an index is low or  *)
(* more, and less than high.                                               *)
Declaration == [name : Seq(STRING), ranged : BOOLEAN, low : Int, high : Int,
                bench : BOOLEAN]

(* FilterOpt::F.                                                           *)
Filter == [neg : BOOLEAN, prefix : Seq(STRING)]

ASSUME SelectAssumption ==
  /\ Declared \in Seq(Declaration)
  /\ FilterLists \subseteq Seq(Filter)

VARIABLES
  filts,        \* opts_->filter_.filts_
  benchOn,      \* opts_->bench_
  d, i,         \* the test of the section, and its index
  k,            \* the filter bindTo() is at
  disable, enable, hasPosFilt,   \* bindTo()'s locals
  bound,        \* tests, the vector of bound tests
  rslts         \* the counters

locals == <<k, disable, enable, hasPosFilt>>
vars   == <<filts, benchOn, d, i, locals, bound, rslts>>

-----------------------------------------------------------------------------

(* getRange(); a test with no range is bound once, to index 0.             *)
Low(t)  == IF Declared[t].ranged THEN Declared[t].low ELSE 0
High(t) == IF Declared[t].ranged THEN Declared[t].high ELSE 1

(* std::to_string.                                                         *)
Digits[n \in Nat] ==
  IF n < 10 THEN <<ToString(n)>> ELSE Append(Digits[n \div 10], ToString(n % 10))
Decimal(n) == IF n < 0 THEN <<"-">> \o Digits[-n] ELSE Digits[n]

(* Test::name() of test t bound to index n.                                *)
Name(t, n) == Declared[t].name \o IF Declared[t].ranged THEN <<":">> \o Decimal(n) ELSE <<>>

(* Where bindTo() starts: nothing is disabled, and no filter at all        *)
(* enables everything.                                                     *)
Enter(fs) ==
  /\ k' = 1 /\ disable' = FALSE /\ enable' = (fs = <<>>) /\ hasPosFilt' = FALSE

(* Results::inc.                                                           *)
IncAlways(c, enabled) == [c EXCEPT !.total = @ + 1, !.enabled = @ + 1]
Inc(c, enabled) == [c EXCEPT !.total = @ + 1, !.enabled = @ + One(enabled)]

First(t) == IF t <= Len(Declared) THEN Low(t) ELSE 0

Init ==
  /\ filts \in FilterLists /\ benchOn \in BOOLEAN
  /\ d = 1 /\ i = First(1)
  /\ k = 1 /\ disable = FALSE /\ enable = (filts = <<>>) /\ hasPosFilt = FALSE
  /\ bound = <<>>
  /\ rslts = Counted(0, 0)

BindingInclusive == d <= Len(Declared) /\ i <= High(d)
Binding == d <= Len(Declared) /\ i < High(d)

(* One round of bindTo()'s loop over the filters.                          *)
Match ==
  /\ Binding /\ k <= Len(filts)
  /\ LET f == filts[k]
         matches == IsPrefix(f.prefix, Name(d, i))
     IN  /\ hasPosFilt' = (hasPosFilt \/ ~f.neg)
         /\ disable' = (disable \/ (matches /\ f.neg))
         /\ enable' = (enable \/ (matches /\ ~f.neg))
  /\ k' = k + 1
  /\ UNCHANGED <<filts, benchOn, d, i, bound, rslts>>

(* bindTo()'s enabled_, of a test that is a benchmark or not.              *)
PositiveWins(bench) ==
  /\ IF hasPosFilt THEN enable ELSE ~disable
  /\ bench => benchOn
Enabled(bench) ==
  /\ IF hasPosFilt THEN ~disable /\ enable ELSE ~disable
  /\ bench => benchOn

(* bindTo() returns, and addTest() counts and appends the test.            *)
Add ==
  /\ Binding /\ k > Len(filts)
  /\ LET e == Enabled(Declared[d].bench)
     IN  /\ bound' = Append(bound, [test |-> d, index |-> i, enabled |-> e])
         /\ rslts' = Inc(rslts, e)
  /\ i' = i + 1
  /\ Enter(filts)
  /\ UNCHANGED <<filts, benchOn, d>>

(* The range of a test is exhausted, or empty.                             *)
NextTest ==
  /\ d <= Len(Declared) /\ i >= High(d)
  /\ d' = d + 1 /\ i' = First(d + 1)
  /\ UNCHANGED <<filts, benchOn, locals, bound, rslts>>

Bound == d > Len(Declared)

Over == Bound /\ UNCHANGED vars

Next == Match \/ Add \/ NextTest \/ Over

Spec == Init /\ [][Next]_vars

-----------------------------------------------------------------------------

Positions == 1 .. Len(bound)
InRange(t, n) == t \in 1 .. Len(Declared) /\ Low(t) <= n /\ n < High(t)

(* What the filters ask for, in whatever order they were given: no         *)
(* negative filter matches; if there is a positive one at all, one of them *)
(* matches; and a benchmark needs -b.                                      *)
Wanted(t, n) ==
  LET Matching(f) == IsPrefix(f.prefix, Name(t, n))
  IN  /\ \A p \in 1 .. Len(filts) : filts[p].neg => ~Matching(filts[p])
      /\ (\E p \in 1 .. Len(filts) : ~filts[p].neg) =>
           \E p \in 1 .. Len(filts) : ~filts[p].neg /\ Matching(filts[p])
      /\ Declared[t].bench => benchOn

(* A bound test is enabled exactly when the filters and -b ask for it,     *)
(* although bindTo() decides it one filter at a time.                      *)
SelectsWanted ==
  \A p \in Positions : bound[p].enabled <=> Wanted(bound[p].test, bound[p].index)

(* In the end every index of every test is bound, and none twice.          *)
BindsEach ==
  Bound =>
    /\ \A p \in Positions : InRange(bound[p].test, bound[p].index)
    /\ \A t \in 1 .. Len(Declared) : \A n \in Low(t) .. High(t) - 1 :
         \E p \in Positions : bound[p].test = t /\ bound[p].index = n
    /\ \A p, q \in Positions :
         bound[p].test = bound[q].test /\ bound[p].index = bound[q].index => p = q

(* The counters are those the runners start with (Init of Jobs).           *)
CountsBound ==
  rslts = Counted(Len(bound), Cardinality({p \in Positions : bound[p].enabled}))

TypeOK ==
  /\ filts \in Seq(Filter) /\ benchOn \in BOOLEAN
  /\ d \in 1 .. Len(Declared) + 1
  /\ i \in Int
  /\ k \in 1 .. Len(filts) + 1
  /\ disable \in BOOLEAN /\ enable \in BOOLEAN /\ hasPosFilt \in BOOLEAN
  /\ bound \in Seq([test : 1 .. Len(Declared), index : Int, enabled : BOOLEAN])
  /\ rslts \in Counters

(* bindTo()'s locals sum up the filters before the k-th; between two calls *)
(* there is none.                                                          *)
Locals ==
  LET Seen == 1 .. k - 1
      Matching(p) == IsPrefix(filts[p].prefix, Name(d, i))
  IN  /\ disable <=> \E p \in Seen : filts[p].neg /\ Matching(p)
      /\ enable <=> filts = <<>> \/ \E p \in Seen : ~filts[p].neg /\ Matching(p)
      /\ hasPosFilt <=> \E p \in Seen : ~filts[p].neg
      /\ ~Binding => k = 1

(* The vector holds the tests and indices before (d, i), in order.         *)
Before(t, n, u, m) == t < u \/ (t = u /\ n < m)
SoFar ==
  /\ d <= Len(Declared) => Low(d) <= i
  /\ \A p \in Positions :
       /\ InRange(bound[p].test, bound[p].index)
       /\ Before(bound[p].test, bound[p].index, d, i)
  /\ \A p, q \in Positions :
       p < q => Before(bound[p].test, bound[p].index, bound[q].test, bound[q].index)
  /\ \A t \in 1 .. Len(Declared) : \A n \in Low(t) .. High(t) - 1 :
       Before(t, n, d, i) => \E p \in Positions : bound[p].test = t /\ bound[p].index = n

(* The inductive invariant of the selection.                               *)
SelectInv == TypeOK /\ Locals /\ SoFar /\ SelectsWanted /\ CountsBound
=============================================================================
