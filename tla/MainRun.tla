------------------------------ MODULE MainRun ------------------------------
(***************************************************************************)
(* Main::main (main.cpp) up to the runners: Opts gets the options their    *)
(* values, and Select binds the declared tests by what the filters and -b  *)
(* then are.  The two share opts_, so that whatever a parse() stores is    *)
(* what bindTo() reads.                                                    *)
(***************************************************************************)
EXTENDS Select, Opts

allVars == <<vars, optVars>>

MainInit ==
  /\ OptsInit
  /\ filts = vals["filter"] /\ benchOn = vals["bench"]
  /\ d = 1 /\ i = First(1)
  /\ k = 1 /\ disable = FALSE /\ enable = (filts = <<>>) /\ hasPosFilt = FALSE
  /\ bound = <<>>
  /\ rslts = Counted(0, 0)

(* Opts::parse.                                                            *)
Parsing ==
  /\ FromEnv \/ EnvDone \/ FromArgs \/ ArgsDone
  /\ filts' = vals'["filter"] /\ benchOn' = vals'["bench"]
  /\ Enter(filts')
  /\ UNCHANGED <<d, i, bound, rslts>>

(* Main::run; its options are constant.                                    *)
Running ==
  /\ stage = "run"
  /\ Match \/ Add \/ NextTest
  /\ UNCHANGED optVars

MainOver ==
  /\ stage = "usage" \/ (stage = "run" /\ Bound)
  /\ UNCHANGED allVars

MainNext == Parsing \/ Running \/ MainOver

MainSpec == MainInit /\ [][MainNext]_allVars

-----------------------------------------------------------------------------

(* Every text that is given for an option, in either source.               *)
Said(o) ==
  {env[v] : v \in DOMAIN env \cap {o}} \cup {w.text : w \in {u \in Range(args) : u.opt = o}}

(* From the texts to the tests: a test is run exactly when no piece of any *)
(* filter text that has a dash matches its name, one without a dash does   *)
(* if any was given, wherever it was given, and a benchmark only if -b or  *)
(* PTBENCH was.                                                            *)
AsAsked ==
  LET Given == UNION {Range(Split(text)) : text \in Said("filter")}
      Hits(f, p) == IsPrefix(f.prefix, Name(bound[p].test, bound[p].index))
  IN  \A p \in Positions :
        bound[p].enabled <=>
          /\ \A f \in Given : f.neg => ~Hits(f, p)
          /\ (\E f \in Given : ~f.neg) => \E f \in Given : ~f.neg /\ Hits(f, p)
          /\ Declared[bound[p].test].bench => Said("bench") # {}
=============================================================================
