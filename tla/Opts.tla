-------------------------------- MODULE Opts --------------------------------
(***************************************************************************)
(* How the options get their values (opts.cpp): Opts::parse goes through   *)
(* the options and their environment variables, then through the command   *)
(* line, and either the program runs with what it has gathered or it       *)
(* prints its usage and exits with 1.                                      *)
(*                                                                         *)
(* A text is what parse() reads of its argument: a number that may be      *)
(* negative, Junk or Huge; for a filter its characters; for -v how many    *)
(* characters it has.                                                      *)
(***************************************************************************)
EXTENDS Integers, SequencesExt

CONSTANTS
  Environments,  \* functions from some of the options to texts
  CommandLines,  \* sequences of words [opt, text], as getopt_long reads them
  Cpus,          \* sysconf(_SC_NPROCESSORS_ONLN)
  UIntMax, PortMax,   \* the largest uint and uint16_t
  ULongWidth,    \* one more than the largest unsigned long
  Junk,          \* a text that is no number
  Huge,          \* a number too large for any type
  Unknown        \* an option that does not exist

(* getOpts(), in its order.                                                *)
Options == <<"bench", "bench-dur", "filter", "help", "jobs", "nocapture",
             "nofork", "port", "timeout", "verbose">>

Flags    == {"bench", "nocapture", "nofork"}
Unsigned == {"jobs", "port"}
Doubles  == {"bench-dur", "timeout"}

(* What may be given for an option, and the types of the constants.        *)
Text(o) == CASE o \in Unsigned \cup Doubles -> Int \cup {Junk, Huge}
             [] o = "filter"  -> Seq(STRING)
             [] o = "verbose" -> Nat
             [] OTHER -> {0}   \* is not read

ASSUME OptsAssumption ==
  /\ {Cpus, UIntMax, PortMax} \subseteq Nat /\ ULongWidth \in Nat \ {0}
  /\ Cpus <= UIntMax /\ 1 <= UIntMax
  /\ Unknown \notin Range(Options)
  /\ Junk \notin Int /\ Huge \notin Int
  /\ \A e \in Environments :
       /\ DOMAIN e \subseteq Range(Options)
       /\ \A o \in DOMAIN e : e[o] \in Text(o)
  /\ \A c \in CommandLines :
       /\ Len(c) \in Nat /\ DOMAIN c = 1 .. Len(c)
       /\ \A p \in DOMAIN c :
            c[p].opt \in Range(Options) \cup {Unknown} /\ c[p].text \in Text(c[p].opt)

VARIABLES
  env, args,  \* the environment and the command line
  stage,      \* "env", "args", "run" or "usage"
  at,         \* the option or the word that is next
  vals        \* v_ or filts_ of every option

optVars == <<env, args, stage, at, vals>>

-----------------------------------------------------------------------------

Largest(o) == IF o = "jobs" THEN UIntMax ELSE PortMax

Greater(x, y) == IF x >= y THEN x ELSE y

(* The constructors.                                                       *)
Default == [o \in Range(Options) |->
  IF o \in Flags \cup {"help"} THEN FALSE ELSE
  CASE o = "bench-dur" -> 1
    [] o = "timeout"   -> 5
    [] o = "filter"    -> <<>>
    [] o = "jobs"      -> Greater(1, Cpus)
    [] o = "port"      -> 23120 % (PortMax + 1)
    [] o = "verbose"   -> 0]

(* std::stoul takes a minus sign, and then counts down from its width.     *)
Stoul(x) == x % ULongWidth

(* strtok(): the pieces between separators, none of them empty, gathered   *)
(* one character after the other; a dash before a piece makes it negative. *)
Separators == {",", " "}
Longer(pieces, c) == [pieces EXCEPT ![Len(pieces)] = Append(@, c)]
WithNext(pieces, text, q) ==
  IF text[q] \in Separators THEN pieces
  ELSE IF q = 1 \/ text[q - 1] \in Separators THEN Append(pieces, <<text[q]>>)
  ELSE Longer(pieces, text[q])
PiecesUpTo(text) ==
  LET UpTo[q \in 0 .. Len(text)] == IF q = 0 THEN <<>> ELSE WithNext(UpTo[q - 1], text, q)
  IN  UpTo
PiecesWithBlanks(text) ==
  LET UpTo[q \in 0 .. Len(text)] ==
        IF q = 0 THEN <<(<<>>)>>
        ELSE IF text[q] \in Separators THEN Append(UpTo[q - 1], <<>>)
        ELSE Longer(UpTo[q - 1], text[q])
  IN  UpTo[Len(text)]
Pieces(text) == PiecesUpTo(text)[Len(text)]
AsFilter(p) ==
  LET neg == p # <<>> /\ Head(p) = "-" IN [neg |-> neg, prefix |-> IF neg THEN Tail(p) ELSE p]
Split(text) == [q \in DOMAIN Pieces(text) |-> AsFilter(Pieces(text)[q])]

(* parse() of an option throws an Err: a text that is no number or not of  *)
(* the type, and -h.                                                       *)
RefusedUnlimited(o, x) ==
  \/ o \in {"help", Unknown}
  \/ o \in Unsigned \cup Doubles /\ x \in {Junk, Huge}
  \/ o \in Doubles /\ x < 0
Refused(o, x) ==
  \/ o \in {"help", Unknown}
  \/ o \in Unsigned \cup Doubles /\ x \in {Junk, Huge}
  \/ o \in Unsigned /\ (x \notin 1 - ULongWidth .. ULongWidth - 1 \/ Stoul(x) > Largest(o))
  \/ o \in Doubles /\ x < 0

(* What parse() leaves in an option that holds v.                          *)
Parsed(o, x, v) ==
  CASE o \in Flags    -> TRUE
    [] o \in Unsigned -> Stoul(x)
    [] o \in Doubles  -> x
    [] o = "filter"   -> v \o Split(x)
    [] o = "verbose"  -> v + Greater(1, x)

OptsInit ==
  /\ env \in Environments /\ args \in CommandLines
  /\ stage = "env" /\ at = 1
  /\ vals = Default

(* One option of a source is parsed, or the usage is shown.                *)
ParseOnce(o, x) ==
  IF Refused(o, x)
    THEN stage' = "usage" /\ UNCHANGED <<at, vals>>
    ELSE /\ vals' = IF vals[o] = Default[o] THEN [vals EXCEPT ![o] = Parsed(o, x, @)] ELSE vals
         /\ at' = at + 1 /\ UNCHANGED stage
ParseAfresh(o, x) ==
  IF Refused(o, x)
    THEN stage' = "usage" /\ UNCHANGED <<at, vals>>
    ELSE /\ vals' = [vals EXCEPT ![o] = Parsed(o, x, Default[o])]
         /\ at' = at + 1 /\ UNCHANGED stage
Parse(o, x) ==
  IF Refused(o, x)
    THEN stage' = "usage" /\ UNCHANGED <<at, vals>>
    ELSE /\ vals' = [vals EXCEPT ![o] = Parsed(o, x, @)]
         /\ at' = at + 1 /\ UNCHANGED stage

(* The environment variable of the next option, if it is set.              *)
FromEnvForgiving ==
  /\ stage = "env" /\ at <= Len(Options)
  /\ LET o == Options[at]
     IN  IF o \in DOMAIN env /\ ~Refused(o, env[o])
           THEN Parse(o, env[o]) ELSE at' = at + 1 /\ UNCHANGED <<stage, vals>>
  /\ UNCHANGED <<env, args>>
FromEnv ==
  /\ stage = "env" /\ at <= Len(Options)
  /\ LET o == Options[at]
     IN  IF o \in DOMAIN env THEN Parse(o, env[o]) ELSE at' = at + 1 /\ UNCHANGED <<stage, vals>>
  /\ UNCHANGED <<env, args>>

EnvDone ==
  /\ stage = "env" /\ at > Len(Options)
  /\ stage' = "args" /\ at' = 1
  /\ UNCHANGED <<env, args, vals>>

(* The next word of the command line.                                      *)
FromArgs ==
  /\ stage = "args" /\ at <= Len(args)
  /\ Parse(args[at].opt, args[at].text)
  /\ UNCHANGED <<env, args>>

ArgsDone ==
  /\ stage = "args" /\ at > Len(args)
  /\ stage' = "run"
  /\ UNCHANGED <<env, args, at, vals>>

OptsOver == stage \in {"run", "usage"} /\ UNCHANGED optVars

OptsNext == FromEnv \/ EnvDone \/ FromArgs \/ ArgsDone \/ OptsOver

OptsSpec == OptsInit /\ [][OptsNext]_optVars

-----------------------------------------------------------------------------

(* Types; a number that is accepted is one of its type, although stoul()   *)
(* reads more of them.                                                     *)
OptsTypeOK ==
  /\ stage \in {"env", "args", "run", "usage"} /\ at \in Nat
  /\ DOMAIN vals = Range(Options)
  /\ \A o \in Flags \cup {"help"} : vals[o] \in BOOLEAN
  /\ \A o \in Unsigned : vals[o] \in 0 .. Largest(o)
  /\ \A o \in Doubles : vals[o] \in Nat
  /\ vals["verbose"] \in Nat

(* Option o has what the last of some sources said, the command line after *)
(* the environment and the environment after the default: the sources are  *)
(* some of the variables and some of the words.                            *)
Value(o, x) == IF o \in Unsigned THEN Stoul(x) ELSE x
HasLast(o, variables, words) ==
  \/ \E p \in words :
       /\ args[p].opt = o /\ vals[o] = Value(o, args[p].text)
       /\ \A q \in words : args[q].opt = o => q <= p
  \/ /\ \A p \in words : args[p].opt # o
     /\ vals[o] = IF o \in variables THEN Value(o, env[o]) ELSE Default[o]

(* A run has of each number the last value said, in the order of the       *)
(* sources; a flag stays set once any source sets it.                      *)
LastSourceWins ==
  stage = "run" =>
    /\ \A o \in Unsigned \cup Doubles : HasLast(o, DOMAIN env, DOMAIN args)
    /\ \A o \in Flags :
         vals[o] <=> o \in DOMAIN env \/ \E p \in DOMAIN args : args[p].opt = o

(* What an environment and the first words of a command line say of the    *)
(* filters, one text with commas, and of the verbosity.                    *)
AllFilters(e, c) ==
  LET UpTo[p \in 0 .. Len(c)] ==
        IF p = 0 THEN IF "filter" \in DOMAIN e THEN e["filter"] ELSE <<>>
        ELSE IF c[p].opt = "filter" THEN UpTo[p - 1] \o <<",">> \o c[p].text
        ELSE UpTo[p - 1]
  IN  UpTo
AllLevels(e, c) ==
  LET UpTo[p \in 0 .. Len(c)] ==
        IF p = 0 THEN IF "verbose" \in DOMAIN e THEN Greater(1, e["verbose"]) ELSE 0
        ELSE IF c[p].opt = "verbose" THEN UpTo[p - 1] + Greater(1, c[p].text)
        ELSE UpTo[p - 1]
  IN  UpTo

(* Filters may be comma-separated, given multiple times, or any            *)
(* combination thereof (README): it is as if all of them had been given at *)
(* once, with commas.  The levels of verbosity add up as well.             *)
SourcesAddUp ==
  stage = "run" =>
    /\ vals["filter"] = Split(AllFilters(env, args)[Len(args)])
    /\ vals["verbose"] = AllLevels(env, args)[Len(args)]

(* No positive filter is empty, whatever blanks, commas and empty texts    *)
(* are given: it would match every test.                                   *)
NoBlankFilter ==
  \A p \in DOMAIN vals["filter"] :
    LET f == vals["filter"][p]
    IN  (f.neg \/ f.prefix # <<>>) /\ Range(f.prefix) \cap Separators = {}

(* The program shows its usage exactly when some text of either source is  *)
(* refused, also one that a later text would override.                     *)
UsageExactly ==
  LET Given == {<<o, env[o]>> : o \in DOMAIN env} \cup {<<w.opt, w.text>> : w \in Range(args)}
      Bad   == \E g \in Given : Refused(g[1], g[2])
  IN  /\ stage = "usage" => Bad
      /\ stage = "run" => ~Bad
=============================================================================
