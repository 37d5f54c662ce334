----------------------------- MODULE MainRunMC -----------------------------
(* MainRun for TLC: one environment variable at most and two words, which  *)
(* is enough for every pair of sources to meet, and filter texts that tell *)
(* the declared tests and their indices apart.                             *)
EXTENDS MainRun

(* Two names with a prefix in common, one of a benchmark over a range, and *)
(* a range that is empty.                                                  *)
SomeTests == <<
  [name |-> <<"a", "b">>, ranged |-> FALSE, low |-> 0, high |-> 0, bench |-> FALSE],
  [name |-> <<"a">>, ranged |-> TRUE, low |-> 9, high |-> 11, bench |-> TRUE],
  [name |-> <<"b">>, ranged |-> TRUE, low |-> 3, high |-> 3, bench |-> FALSE],
  [name |-> <<"b">>, ranged |-> TRUE, low |-> -1, high |-> 1, bench |-> FALSE]>>

Numbers(o) == CASE o = "jobs"     -> {-60, -1, 0, 12, 70, Junk}
                [] o = "port"     -> {-60, 3, 12}
                [] o \in Doubles -> {-1, 2, Huge}
FilterTexts == {<<>>, <<"-">>, <<"a">>, <<"a", "b">>, <<"-", "a", "b">>, <<"a", ":", "1">>,
                <<" ", "a", ",", ",", "-", "b", ":", "-">>}

TextsFor(o) ==
  CASE o \in Unsigned \cup Doubles -> Numbers(o)
    [] o = "filter"  -> FilterTexts
    [] o = "verbose" -> 0 .. 2
    [] OTHER         -> {0}

AllOptions == Range(Options)
Words == {[opt |-> Unknown, text |-> 0]} \cup
         UNION {{[opt |-> o, text |-> x] : x \in TextsFor(o)} : o \in AllOptions}

(* The variable of -h has no name.                                         *)
SomeEnvironments ==
  {<<>>} \cup UNION {{(o :> x) : x \in TextsFor(o)} : o \in AllOptions \ {"help"}}

SomeCommandLines ==
  {<<>>} \cup {<<w>> : w \in Words} \cup {<<w, u>> : w, u \in Words}

(* The lists three texts can add up to.                                    *)
SomeFilters ==
  LET OfOne == {Split(text) : text \in FilterTexts}
      OfTwo == {fs \o gs : fs, gs \in OfOne}
  IN  {fs \o gs : fs \in OfTwo, gs \in OfOne}
=============================================================================
