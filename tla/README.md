# Specifications of paratec

TLA+ modules, TLC configurations and TLAPS proofs about paratec, a parallel
unit-testing framework for C and C++. A paratec binary collects the tests
declared in it, forks one process per test, runs several at a time, kills the
ones that take too long, and reports one result for each.

Paths below are relative to the repository; the library is in `src/`.

## 1. The system

| Component | Code | State | Operations |
|---|---|---|---|
| Entry point and selection | `main.cpp`, `test.cpp` | the tests, each bound to an index and to the filters | `Main::run` (bind, count, shuffle, run, dump), `Test::bindTo` |
| Forking runner | `jobs.cpp` `Jobs`, `ForkingJob` | `tests_`, `testI_`; per slot `test_`, `fork_`, `res_`, `timeout_after_`, and a `TestEnv` in shared memory | `run`, `runNextTest`, `checkTimeouts`, `terminate`; `prep`, `finish`, `cleanup` |
| Child processes | `fork.cpp` | `pid_`, pipe ends, captured output | `fork`, `flushPipes`, `terminate` |
| Test side | `jobs.cpp` `pt_*`, `SharedJob` | the top of `_jobs`, its `TestEnv` | `pt_skip`, `_pt_fail`, `pt_get_port`, `_exit` under a `flock` |
| Results | `results.cpp`, `test_env.cpp` | eight counters, a list of `Result`s | `inc`, `record`, `finalize`, `done`, `exitCode`, `dump` |
| Signals | `signal.cpp` | `_jobs`, SIGCHLD's mask, two handlers | `takeover`, `reset`, `childWait`, `_handler` |
| Non-forking runner | `jobs.cpp` `BasicJob` | a stack `_jobs`, a `jmp_buf` per job | `run`, `_exit` (`longjmp`) |
| Benchmarks | `jobs.cpp` `runBench` | iteration counts | `_roundUp`, `_nearestPow10` |
| Options | `opts.cpp` | one value per option | `parse`: default, then environment, then arguments |
| Assertions, errors, time, formatting | `paratec.h`, `paratec.cpp`, `err.cpp`, `time.cpp`, `util.cpp` | none | stateless |

How they interact. `Main::run` counts the tests in `Results`, shuffles them and
hands them to `Jobs`. `Jobs` gives each slot the next test; the slot forks, and
the child shares the slot's `TestEnv` with the parent. The child reports through
that memory and through its exit status; the parent learns of its end by
`waitpid(-1)` and records both in `Results`, or kills it at its deadline and
records a timeout. When `Results::done()`, the program leaves with
`Results::exitCode()`.

What is hard in it:

* processes end in any order and at any time, also between a poll, the SIGTERM
  and the SIGKILL of a timeout;
* slots and their shared memory are reused, so an old test must be gone before
  the next one starts;
* a disabled test starts no process, so the loop that refills a slot must go on
  until it has one that does, or the parent waits for nobody;
* a child is in no process group of its own until it says so, and signalling the
  group before that does nothing;
* the exit code compares two counters, one of which is decremented as tests turn
  out to be skipped or to be benchmarks;
* a test process may do anything: hang, ignore SIGTERM, crash, call `exit()`
  itself, leave processes behind;
* an interrupt may hit the parent at any statement, the handler included, and
  what the handler works on is what the interrupted statement has left;
* a child may write more than a pipe holds, close its streams, or leave a process
  that holds them;
* without fork, a failed assertion jumps out of a test past whatever it called,
  runs nested in it included.

What makes each component correct: **results** - one verdict per test, that of
its own process, and an exit code that is 0 exactly when none is bad;
**forking runner** - no test or child lost, slots busy, isolation, progress;
**child processes** - termination reaches the child and is never waited for in
vain; **output** - all of it is in the report of the test that wrote it, and no
child hangs on a full pipe; **signals** - an interrupt leaves no test running;
**non-forking runner** - the stack is that of the tests under way; **benchmarks** - the count grows, the loop
ends and a count is stored; **ports** - unique amongst the running tests; **selection** - exactly the
tests the filters name; **options** - the last source wins.

## 2. Modules

| Module | Role |
|---|---|
| `Results` | The verdict of one test and the counters over all, as operators; no state. |
| `TestRun` | Abstract: what a run promises, whatever runner executes it. |
| `Jobs`, `JobsMC` | The forking runner with its child processes; declarations for TLC. |
| `Jobs_proofs` | The inductive invariant of `Jobs` and the safety theorems. |
| `Promise_proofs` | What the forking runner promises: `Jobs` implements `TestRun`, and its live tests have different ports. |
| `Ports` | The ports of the live tests of `Jobs`. |
| `Signals`, `SignalsMC`, `Signals_proofs` | `Jobs` interrupted by SIGINT or SIGTERM at any point; what outlives it. |
| `JobStack`, `JobStackMC`, `JobStack_proofs` | The non-forking runner; its stack, and that it implements `TestRun`. |
| `Capture`, `CaptureMC`, `Capture_proofs` | The output of a child on its way to the report; that none is lost. |
| `Opts` | How the options get their values. |
| `Select` | Which tests a run is made of. |
| `MainRun`, `MainRunMC` | `Opts` composed with `Select`, as `Main::run` does; declarations and texts for TLC. |
| `MainRun_proofs` | Of the options, the selection and both together: the tests that run are the ones asked for. |
| `Bench`, `BenchMC`, `Bench_proofs` | How a benchmark is scaled; durations for TLC; that the count grows to the least round number and when a zero is stored. |
| `NatRecursion` | Induction and recursion over the natural numbers, for the proofs; models no code. |

How they compose. `MainRun` runs `Opts` and then `Select` on the same `opts_`:
`filts` and `benchOn` of `Select` are what `Opts` has stored so far. `Select` ends
with what `Init` of `Jobs` and of `JobStack` take as given: a vector of tests and
counters that agree with it (`CountsBound`). The two runners are alternatives
(`--nofork`) and implement the same `TestRun`, both with the operators of `Results`.
`Ports` and `Signals` extend `Jobs`, so that ports are those of the processes `Jobs`
has alive at a time, and an interrupt finds the slots as `Jobs` leaves them.
`Capture` is one child with its pipes, in detail that `Jobs` leaves out; it uses
`Finalize` of `Results` for the verdict that decides what is printed. `Bench` is what
a benchmark does inside its process: that one that completes has stored a count is
what `Complete` of both runners takes as given.

### Results

`Decl` is what `PARATEC(...)` and the filters say of a test, `TestEnv` what the
test leaves in shared memory, `Result` how the runner saw it end. `Finalize` is
`Result::finalize`, `Verdict` the if-chain of `Results::record` (its summary
characters are the verdicts), and `Tally` what it does to the counters. Names,
messages, durations and output decide nothing and are left out; `bench_iters_`
is kept as "is it zero". A benchmark that completes has stored a count above
zero unless `-d` is 0 (`ZeroIffNoTime` of `Bench`); with `-d 0` it is recorded as
a plain test, so to the runners it is then a declaration without `bench`.

### TestRun

Tests wait, run, and have a verdict. They start in the order of the shuffled
vector, at most `NJobs` at a time; a disabled one goes straight to its verdict;
verdicts are final, and only a benchmark can be counted as one; the program
leaves once, when every test has a verdict, with 0 exactly when none is bad. Its
liveness is that it leaves.

### Jobs

The parent is sequential: `pc` is where it is, `cur` the slot it works on, `ret`
the loop that called `runNextTest()`. A step ends at a system call or where the
code decides, so that children move between any two.

| Action | Code |
|---|---|
| `RunDisabled`, `Prep`, `Exhausted` | `runNextTest` and `Job::prep`: a disabled test is recorded on the spot and the loop goes on; an enabled one takes the slot; no test is left |
| `ForkChild`, `AwaitGroup` | `Fork::fork`: `::fork()`, then polling `getpgid()` |
| `Finish`, `ChildWait` | the outer loop of `Jobs::run`; `sig::childWait` may wake for nothing |
| `DrainReap`, `DrainNone` | `waitpid(-1, WNOHANG)`: a child, no dead child, or ECHILD (`pc = "crashed"`) |
| `SweepIdle`, `SweepInTime`, `SweepLate` | `checkTimeouts` over the slots, with one reading of the clock |
| `TermKill`, `TermReap` | `Fork::terminate`: the polls after SIGTERM, SIGKILL, the final `waitpid` |
| `SetGroup` | the child's `setpgid` |
| `Complete`, `Fail`, `Skip`, `TakeLock`, `Exit` | the test returns, fails, skips; `_exit` takes the lock, `::exit` ends the process |
| `ExitItself`, `Crash` | the test calls `exit()`; a signal kills it, the runner's SIGTERM included |
| `Spawn`, `StrayFail`, `StrayEnd` | a process of the test's own, which may outlive it |
| `DieEarly`, `LoseBin` | the child dies before `setpgid`; `open(_bin)` fails |
| `Expire` | a deadline passes |

`Cleanup` is `ForkingJob::cleanup` with `Job::finish`: record, forget the test,
forget the child. `overdue` is the set of slots whose `timeout_after_` has
passed; `late` is that set at the moment `checkTimeouts` read the clock, less
the slots refilled since. Time is not measured: a deadline may pass at any step,
which includes every timeout and every speed of the tests.

`Mishaps` switches on what goes wrong outside the runner; the theorems hold for
every value of it (one needs stragglers to be absent).

Abstractions a reader should know of:

* `NJobs` is 1 or more, as `README.md:180` of the repository wants it, although
  `-j 0` is accepted (`opts.cpp:58`);
* SIGTERM changes nothing by itself: the child may die of it at once, late or
  never (`Crash`);
* the flock of processes that a test itself forked is left out; that a test which
  calls `exit()` takes no lock is `ExitItself`;
* `Fork::terminate` ends every process of the group; that stragglers may survive
  it (they can leave the group) or not is `StrayEnd` being free;
* system calls other than the ones above succeed; that no child blocks on a full
  pipe for good is shown in `Capture`;
* a forked test is one thread: after a failed assertion or `pt_skip()` it does nothing
  more than end.

### Ports

`GetPort` is the number `pt_get_port` returns in slot `j` for index `i`, computed in
`Width`. The runner keeps no record of ports, so `Ports` adds no variable to `Jobs`:
`PortsUnique` is about the slots of the tests `Jobs` has alive, each of which may ask
for every index.

### Signals

| Action | Code |
|---|---|
| `Interrupt` | `_handler` is entered between two actions of `Jobs` |
| `InterruptFork` | ... in `Fork::fork` while `pid_` is still -1, without or with its child (`unset` is that slot) |
| `InterruptReaped` | ... when `waitpid` has returned a child that `fork_` still holds, up to the end of `cleanup` and the user's cleanup function |
| `InterruptAgain` | the other of the two signals interrupts the handler: it starts over; each is blocked while its own handler runs |
| `SkipSlot`, `Terminate`, `TerminateReap`, `TerminateFail`, `TerminateKill` | `Jobs::terminate` over the slots, and in each `Fork::terminate`: the polls, SIGKILL, the blocking `waitpid` |
| `Raise` | `signal(sig, SIG_DFL); raise(sig)`: the program is gone |

The handler never returns, so nothing of `Jobs` follows it; the tests go on while it
runs. A `pid_` of -1 is refused by `killpg` and makes `waitpid` wait for any child
(`Awaited`). When `waitpid` fails, `status` is not set: the poll may return or go on,
and `TerminateFail` lets both happen. The signal is sent to the program's process. A
terminal's Ctrl-C goes to its whole process group, to which a child belongs until
`setpgid`; until `sig::reset()` it would run a handler of its own on its copy of the
slots, in which its own `pid_` is 0. That second handler is not modelled.

### JobStack

A frame stands for one `Main::run`, the `BasicJob` it has and that job's `TestEnv`; the
deepest one executes. `RunDisabled`, `Start`, `Complete`, `Finish` are `BasicJob::run`;
`Fail` and `Skip` change the `TestEnv` of the job on top of `_jobs` and `LongJmp` back
to its frame, whichever frame executes; `Nest` and `Unnest` enter and leave a run a
test starts ("It's possible for non-forking tests to run other non-forking tests",
`jobs.cpp:26`); `ElsewhereFail`, `ElsewhereSkip` are an assertion and `pt_skip()` in
another thread, which end the program, also when the stack is empty (what `top()`
then gives is undefined: the complaint or a crash). All levels have as many tests.
Left out: an exception that leaves a nested run and is caught by the test around it
(`_jobs` would keep the job), the string `underline`, assigned between `setjmp` and
`longjmp`, and an assertion in a cleanup function, which jumps into `finish` again.

### Capture

One child, the process it may leave behind (`kid`), and the pipes of its two streams.
`log` says who wrote each unit of a stream and `read` how much of it the parent has;
what is between them is in the pipe.

| Action | Code |
|---|---|
| `Read` | one turn of the loop of `Fork::flush`; `Flushed` is where `flushPipes` goes on |
| `ChildWait`, `Drain`, `Sweep`, `TermKill`, `TermReap` | the loop of `Jobs::run` as this child sees it: flush, reap, timeout; `cleanup` flushes once more |
| `Record` | `moveOuts`, `Result::finalize` (`Passed`, `Kept`) and `Result::dump` (`Dump`) |
| `Poll`, `WaitPid`, `Return` | `Fork::run`, the other loop |
| `Write`, `Close`, `Spawn`, `Die`, `KidEnd` | the child and its kid: a write into a full pipe blocks, that is, `Write` is not enabled |
| `Expire` | the deadline passes |

`Throws` is when an `OSErr` throws. The `TestEnv`, the status and the `-v` are read in
`Record` only and so chosen there. With `--nocapture` there are no pipes, and nothing
to say. The child has made the pipes its streams before it writes (`setChild`).

### Select

One action per turn of each loop of `Main::run` and `Test::bindTo`: `Match` is one
filter, `Add` the return of `bindTo` with `addTest`, `NextTest` the end of a range.
`d`, `i`, `k` are the loop variables, `disable`, `enable`, `hasPosFilt` the locals of
`bindTo`. Names are sequences of characters, since filters match prefixes and the
index is part of the name (`:1` also selects index 10). The pointers of vector tests and
the shuffle are left out (`Jobs` starts with any order).

### Opts

`FromEnv` is one turn of the loop over the options (with its variable, if set),
`FromArgs` one word that `getopt_long` delivers, `Parse` the option's own `parse()`:
`Refused` is when it throws, `Parsed` what it stores. A text is what its `parse()`
reads of it: an integer, `Junk` or `Huge`; the characters of a filter, which `Pieces`
splits as `strtok` does; the length of the text of `-v`. `getopt_long` is external: a
missing argument and an unknown option are the word `Unknown`. `-e`/`--exit-fast` of
the README's table is such a word: the code has no such option.

### MainRun

`Parsing` is `Opts::parse` with what it leaves in the filters and in `-b`, `Running` the
actions of `Select`, which may only start once `Opts` is done. `AsAsked` states the
composition from end to end, from texts to enabled tests.

### Bench

`Run` is one turn of the loop of `runBench`: the call takes any of `Durations`, then
`Predict`, `Clamp` and `RoundUp` give the next count, each modulo `Width` where the
code computes in `uint32_t`. `Store` is what follows the loop. The time a call takes
is independent of its iterations, which covers every benchmark. `max_dur` is any
`-d` that the option does not refuse, chosen at the start: it refuses what is negative
(`opts.cpp:71`), so 0 is one, as is anything below a nanosecond, which becomes 0. The
loop is then never entered and `Store` stores 0.

## 3. Runs

Every run uses `Signals = {6, 9, 15}` and the exit codes 0 and 255, the ones the
verdicts compare.

| Run | Instance | Checks |
|---|---|---|
| `jobs_safety` | 3 tests, 2 slots, each test enabled or not, no mishaps; 2 port indices in 2 bits | safety, ports, the refinement of `TestRun` |
| `jobs_verdicts` | 2 tests, 2 slots, filtered, benchmark with `PTFAIL`, `PTEXIT(255)`; all mishaps | the inductive invariant, verdicts |
| `jobs_live` | 2 tests, 2 slots, lost binary, fairness | late tests end; the run ends and keeps `TestRun`'s liveness |
| `signals` | 3 tests, 2 slots, children die early, fairness of the handler | who outlives an interrupt; the handler ends |
| `stack` | 2 tests per run, 2 levels, five declarations | the stack, nested runs, the refinement of `TestRun` |
| `capture` | pipes of 3, a buffer of 2, a child that writes 1 and 3, a kid that writes 1 | output, report, no hanging on pipes |
| `main_select` | any one variable, any two words of some 30, four declarations | sources of options, the selection |
| `bench_scaling` | widths and times a million times smaller, three values of `-d`, 83 durations, fairness | the count grows, the scaling ends, what is stored, rounding |
| `jobs_isolation` | 2 tests, 1 slot, stragglers | finds `Isolation` violated |
| `jobs_await` | 1 test, children die early, fairness | finds `AwaitEnds` violated |
| `signals_orphan` | 3 tests, 2 slots | finds `NoOrphans` violated |
| `stack_thread` | 2 tests, 2 levels | finds `ComplaintFails` violated |

Why the bounds are enough. Three tests on two slots is the smallest instance in
which a slot is reused while the other is busy, a disabled test lies between
enabled ones, a slot is refilled both by the drain loop and by the sweep, and an
interrupt finds one slot in `Fork::fork` or half reaped and another one running. With
two tests and two slots mishaps hit one test while the other runs. Verdicts meet only
in the counters. What does not depend on the bounds is proved.

`signals` leaves out what tests leave in their memory (`QuietTests`) and disabled
tests, of which the handler reads nothing. `stack` has two levels, so that a test
is jumped past and returned to, and two tests per level, so that a frame is reused;
the theorems hold for any depth. In `capture`, 3 is more than one buffer and less than
two: a full pipe needs two reads, the last of which is short; with the kid's unit it can
also just fill the buffer. Streams and the kid's lifetime are free.

`main_select` has prefixes that match everything, a name and the prefix of it,
two of three indices (`a:1` matches 10 and 11 but not 9), empty and negative ranges;
positive and negative filters in both orders, and no filter at all. Two words and a
variable let every two sources of every two options meet, and a filter be given three
times. `bench_scaling` keeps the ratios of the code: `Width` is
4.295 times `MaxIters`, as 2^32 is of 10^9, and with `-d` at 9 seconds the
prediction, the fifth, the hundredfold and the tenfold wrap; with `-d 0` nothing runs. For the real
widths `Bench_proofs` shows the same, but for the end of the loop.
The ports of `jobs_safety` fill
their width exactly, and pass zero.

### The properties

* `NothingLost`: a started test without a verdict is in exactly one slot, and a
  slot holds no other test.
* `ChildrenOwned`: the unreaped children are those the slots hold, neither more
  (zombies at the end) nor fewer (waiting for a pid that is gone).
* `NoWaitError`, `KeepsBusy`: the parent never waits without a child, and no slot
  is idle while tests wait.
* `GroupReady`: `terminate()` is only called for a child with a group.
* `SoleWriter`, `Isolation`: no live process shares memory with a slot that has
  gone on to another test; a test starts with a clean `TestEnv`.
* `TruthfulExit`, `FailureShows`, `OnlyLateTimedOut`: the report is right.
* `Implements`, `KeepsPromise`: the runner implements `TestRun`, without and with
  its liveness. The mapping: a test without a verdict is running once `testI_`
  is past it.
* `LateTestsEnd`: a test past its deadline is recorded.
* `SelectsWanted`: what three flags decide one filter at a time is what the
  filters ask for, whatever their order; `BindsEach`, `CountsBound`: no index is
  run twice or left out, and the counters count the vector.
* `LastSourceWins`, `SourcesAddUp`, `NoBlankFilter`, `UsageExactly`: later sources
  replace numbers and add filters and levels of `-v`; commas, words and variables are the same; blanks
  are no filters; no run starts with a text that was refused.
* `Grows`, `Ends`, `LeastRound`: benchmarks scale upwards and finish, with wrapping
  arithmetic; `BenchInv`: the last count is stored, and a zero, for which the report has
  a plain test, exactly if `-d` is 0.
* `PortsUnique`: no port belongs to two live tests, or to two indices of one.
* `AsAsked`: from the texts of both sources to the tests that are enabled.
* `OnlyNewbornEscapes`: after an interrupted run no test is alive, but for one whose
  `fork()` had not returned its pid: not one that was half reaped, not one in another
  slot, and not if the handler is itself interrupted. `HandlerEnds`: the handler does
  not wait for good, although tests hang and a `waitpid` may fail.
* `StackIsFrames`: the jobs on `_jobs` are those of the tests under way, in order, so
  that assertions, ports and cleanup functions are about the test that executes;
  `OuterUntouched`: what nested runs do stays in them; `RunsTruthful`: each of them
  ends with all verdicts and the right exit code; `Implements`: so does the outermost.
* `OutputTaken`: what is moved into the result is all the child has written;
  `ReportRight`: a bad test is printed with all of it, any other with none but with
  `-vvv`; `Unblocks`: a full pipe is emptied; `Collected`: the child's end is noticed,
  by `Jobs` even while others hold its pipes.

### Fairness

`WF(Parent)`, in `Jobs` and in `Capture`: the parent is a process the kernel schedules.
`WF(SetGroup(t))`: a fresh child runs its first two calls, which do not block.
`WF(Expire(j))`: time passes. `WF(Handler)` in `Signals`: the handler is scheduled; what
it interrupted is not. `WF(Run \/ Store)` in `Bench`: every call of the benchmark
returns (one that does not is a test that hangs, and ends by its timeout). Nothing is
assumed of tests: they may hang in their own code, at the lock, on a pipe or on the way
out, and the runner must end all the same. The end of the run is argued under "binLost"
but without "earlyDeath", for which it is false (below). `HandlerEnds` leaves out two
windows of `Fork::fork`: with `pid_` unset, `waitpid(-1)` may wait for another test that
hangs, and a child that is in no group yet is not killed and may never end. `Capture`
bounds what a process writes (`Quota`): one that writes without end, faster than it is
read, keeps `flush` in its loop, and no timeout can strike. `Collected` needs the kid to
end where `Fork::run` reads, since that waits for whoever holds the pipes.

### What the violated properties show

1. `Isolation` (`jobs.cpp:423`): memory belongs to the slot, and only the test's
   own process is waited for. A process left behind that fails an assertion later
   fails the next test of the slot.
2. `AwaitEnds` (`fork.cpp:158`): the loop is meant to end when the child dies, but
   `getpgid()` succeeds for a zombie. A child killed before its `setpgid` keeps
   the parent polling, and no timeout can help, because `timeout_after_` is only
   set after the wait. The model stops where the program spins, hence
   `CHECK_DEADLOCK FALSE` in `jobs_await.cfg` and `jobs_verdicts.cfg`.
3. `NoOrphans` (`fork.cpp:129`): a signal between `fork()` and the assignment of its
   result finds a child nobody knows. `killpg(-1)` is refused, and `terminate()` waits
   with `waitpid(-1)` for any child: if that reaps the child of another slot,
   it returns, and the program ends with the newborn still running (if there is no
   other, the handler waits until the newborn ends). The handler is there to "clean up
   children before exiting" (`jobs.hpp:279`). `OnlyNewbornEscapes` shows that this is
   the only way, for a signal sent to the process.
4. `ComplaintFails` (`jobs.cpp:151`): without fork, `pt_skip()` in another thread ends
   the program under a banner headed ERROR, with exit code 0 and the remaining tests
   never run.

Other disagreements with `README.md` met on the way, each plain from one line of
the model and so without a run:

* `-vv` is one `-v` with the text `v` and gives level 1, `-vvv` gives level 2
  (`opts.hpp:257`, `Parsed`); the README says that they print what levels 2 and 3 do;
* `-j` defaults to the number of CPUs (`opts.hpp:184`, `Default`); the README adds one;
* `-j 0` is accepted (`opts.cpp:58`, `Refused`), although `README.md:180` says "Any
  positive integer > 0 is fine": no test is started, and `waitpid(-1)` fails;
* with `-d 0`, which is accepted (`opts.cpp:71`), a benchmark is reported as a plain
  test with 0 iterations (`ZeroIffNoTime`); the README does not speak of 0;
* `-e`, `--exit-fast` does not exist (`opts.cpp:137`, `Options`);
* with 257 jobs, index 255 of slot 1 gives the port of index 0 of slot 0, modulo
  2^16 (`jobs.cpp:390`, `GetPort`): 255 * 257 + 1 = 65536. `PortsDiffer` proves that up
  to 256 jobs are safe;
* `PTFAIL()` excuses a failed assertion and requires none (`results.cpp:79`,
  `Finalize`); the README says "expect this test to fail";
* a test that calls `exit()` itself, as `PTEXIT` tests do, takes no lock
  (`jobs.cpp:203`, `ExitItself`), while the comment above it wants "only 1 process"
  to write coverage data;
* `flushPipes` returns whether the pipes are open, which `fork.hpp:66` equates with a
  running process: a child may close its streams and run on, or end and leave a
  process that holds them, for which `Fork::run` then waits (`Close`, `Spawn`, `Poll`);
* in the forking runner cleanup functions run in the parent, where `_jobs` is empty, so
  that `pt_get_port()`, allowed there by the README, reads the top of an empty stack
  (`jobs.cpp:127`);
* `sig::reset()` takes SIGCHLD out of the set before it unblocks the set
  (`signal.cpp:68`), which leaves it blocked in every test.

## 4. Proofs

All theorems are for all constants that the modules' assumptions allow; for `Jobs` that
is any `NTests`, `NJobs`, `Decls`, `Mishaps`, exit codes and signals allowed by
`JobsAssumption` and `ResultsAssumption`.

`Jobs_proofs`. The safety properties are not inductive: `NoWaitError` needs to
know that an unfinished test is in a slot (`NothingLost`), that the slot has a
child (`Slots`), that this child is unreaped (`Slots` again), and that `finished`
counts the verdicts (`Accounting`). `IInv` puts these together:

* `TypeOK`, `NoWaitError`;
* `Control`: what the loop variables mean at each `pc`;
* `Slots`: a slot's `fork_` and `test_` agree, its child is unreaped and lives in
  its memory;
* `Processes`: a process exists only while a slot holds it;
* `NothingLost`, `KeepsBusy`, `Recount`: tests against `testI_`;
* `Accounting`: the counters are what a recount of the verdicts gives.

The steps fall into three kinds, each with a lemma: the parent moves on and
touches no slot (`MoveIInv`), a child changes its own state (`ChildIInv`), a slot
takes or gives up a test (`PrepIInv`, `CleanupIInv`, `DisabledIInv`). `CleanupIInv`
is used by both ways to give one up; `RecordCounts` is the argument that one
verdict keeps `Accounting`, by cardinalities. `Inductive` then yields
`TypeCorrect`, `NoTestLost`, `AllChildrenOwned`, `WaitsForSomeone`, `SlotsBusy`,
`GroupExists`, `OneWriterPerSlot`. Four theorems need more:

* `ExitIsTruthful`: when finished equals total, every test has a verdict, and
  passes equals enabled exactly if the enabled, counted tests all passed;
* `FailuresReported` adds `FailedVerdict`: with the failure in the `TestEnv`, no wait
  status makes `finalize` give another verdict than a bad one or a skip;
* `TimeoutsAreLate` adds the invariant `Deadlines`: `late` is within `overdue`
  during a sweep;
* `TestsIsolated` adds `CleanSlots` and assumes no stragglers: without that it is
  false, as `jobs_isolation` shows.

`Promise_proofs`. `ImplementsTestRun`: `Init` maps to `TestRun`'s; `RunDisabled`
to `Disable`, `Prep` to `Start`, a cleanup to `Judged`, `Finish` to `Leave`; all else
is invisible. That at most `NJobs` tests run follows from the injection of
running tests into slots; that only benchmarks are counted as such from an
invariant on `env` (`BenchStep`).

`MainRun_proofs`, for any environment, command line, widths, declarations and ranges that
`OptsAssumption` and `SelectAssumption` allow. `MainInv` has four parts.

* `OptsInv` speaks of the variables and words read so far (`ReadVariables`, `ReadWords`):
  all of them were accepted, every number is the last of theirs (`HasLast`), and every
  flag that they set is set. When the program runs they are the whole of both sources,
  which gives `LastWins` and `UsageIff`; that the loop over `Options` leaves no variable
  out is `AllOptions`. `OptsTypeCorrect` rests on `AcceptedText`: what gets past `_stoul`
  is a number of the option's type.
* `TextsInv` says that the filters and the verbosity are those of the texts read so far.
  It rests on one fact about `strtok`: texts joined by a separator have the pieces of
  each, one after the other (`PiecesApart`). A step of `strtok` looks at the character
  before, which for the first character of the second text is the separator; by
  induction over the characters the pieces of the first text then stay as they are
  (`LongerApart`, `StartApart`). `PiecesType` says by another that no piece is empty or
  has a separator. `GivenAtOnce` and `NoneBlank` follow.
* `SelectInv`: `SelectsWanted` needs to know what the flags mean halfway through the
  filters (`Locals`: they sum up the filters before `k`); `BindsEach` needs what the
  vector holds halfway through the tests (`SoFar`: the indices before `(d, i)`, in order,
  hence none twice); `CountsBound` follows the vector by cardinalities.
  `FiltersDecide`, `EachBoundOnce` and `CountsAgree` are of `Select` alone, with any filters.
* `Linked`: what `bindTo` reads is what `parse` has stored, and while texts are parsed
  nothing is bound yet (`Fresh`).

`MainParses` shows that `MainSpec` implements `OptsSpec`, so the theorems on the options
hold of whole runs; `MainBinds` carries those on the selection over. `RunsWhatIsAsked`
is the end-to-end statement `AsAsked`: the filters `bindTo` goes through are those of the
texts of both sources (`FiltersSaid`, by induction over the command line in
`FiltersOfTexts`), and `-b` is set exactly if said. Whether a prefix matches
a name is left uninterpreted: the theorems hold whatever `Decimal` writes.

`NatRecursion`. The induction theorems of the library take operators and cannot be
instantiated by the provers used here. These take sets and functions: `LeastElement`
from the well-foundedness of `<`, then `StrongInduction`, `Induction`,
`BoundedInduction`. A recursive definition is a `CHOOSE` until it is known to have a
solution: `Recursion` shows that it has, by gluing the solutions below each
bound together (`SolutionBelow`, `SolutionsAgree`), and `Iteration` is the case of a loop
from 0 to `N`. `Bench_proofs` takes `NearestPow10` through the first and
`MainRun_proofs` takes `PiecesUpTo`, `AllFilters` and `AllLevels` through the second.

`Bench_proofs`, for any `-d`, 0 included, any durations, and any width and limit that
`BenchAssumption` allows: the limit is a power of ten, ten times as much does not fit in
the width, and what is left of it then is no less than the limit. The assumption
is what the argument needs of 10^9 and 2^32, and `LimitsOfTheCode` proves it of them.
`PowerBelow` and `PowersApart` say what `_nearestPow10` computes, and `RoundUpLeast` that
`_roundUp` then gives the least round number, without a wrap, of anything below the
limit. Above the limit the product may wrap; `RoundUpGrows` shows that the result is
larger than the last count all the same, which is where the third part of
the assumption is needed. With `ClampGrows` this makes `BenchInv` inductive (the next
count is larger than the last, and a call is made exactly if there is time for one).
`CountsGrow`, `NextIsLeastRound` and `BenchTypeCorrect` follow, and `StoresACount`: a
benchmark that is over has stored a zero, for which `Results::record` takes it for a plain
test, exactly if `-d` is 0.

Ports, in `Promise_proofs`. `PortsDiffer`: if the indices are below `K` and `K * NJobs` is at most
`Width`, the offsets `slot + index * NJobs` are below `Width` (`OffsetBound`), so equal
ports come from equal offsets (`SameRemainder`), and an offset has one slot and one
index (`OffsetDecides`). The assumption is sharp, as the example with 257 jobs shows.

`Signals_proofs`, for any number of tests and slots and all mishaps. While no signal has
come, `SigInv` is `IInv` of `Jobs`, and its steps are those of `Jobs_proofs`. At the
signal, `Owned` is all that is kept of it: every process that is not reaped is held by
a slot or is the newborn of the slot `unset`. `Cleared` grows with the handler: the slots
it has passed hold no unreaped child, because `Awaited` of a slot with a pid is that
child alone, and children of tests cannot come back. At the last slot both give
`OnlyNewbornEscapes`.

`JobStack_proofs`, for any number of tests and depth. `StackInv` adds to `StackIsFrames`
and `OuterUntouched` that every frame under way is `Balanced`: it has verdicts for
exactly the tests before its own, and counters that agree with them. The steps that
record share `RecordedFrame`, an argument on cardinalities; those that jump need
only that `Top` is the executing frame, which is `StackIsFrames`. `RunsAreTruthful` and
`StackImplements` follow; in the latter only steps of the outermost frame show.

`Capture_proofs`, for any capacity, buffer, quotas and declarations. That all output is
taken rests on an order: a last flush starts after the child was reaped (`Ending`), so
it cannot write any more, and a `read()` that does not fill the buffer has emptied the
pipe of what was in it (`Drained`), whoever goes on to write behind. Within the last
flush, `Drained("out")` must survive while stderr is read. `BadTestsAreShown` is the
agreement of `Kept` with `Dump`: both are functions of the same finalized result.

Only model-checked: what holds under fairness (`LateTestsEnd`, `KeepsPromise`,
`HandlerEnds`, `Unblocks`, `Collected`, `Ends`), which is out of the prover's reach.
Every other property of a passing run is a theorem. How an index is written
(`Decimal`) and what `IsPrefix` computes is left to TLC: no theorem depends on either.

## 5. Not modelled

* A failing `fork()`, `pipe()` or `poll()`: an `OSErr` leaves `Jobs::run` and the program
  (`Throws` is when), with the running tests left behind; nothing is promised there.
* What user code does in setup, teardown and cleanup functions, but for the point
  of time a signal may strike; the item of a vector test, which only its function reads.
* Sending the signal to the whole process group (see `Signals`), the mask of SIGCHLD,
  and an interrupted `sigtimedwait()` (`signal.cpp:85`), which ends the program.
* A run with `-j 0`, which the README excludes and the code accepts (section 3): it
  leaves nobody to wait for.
* The comparisons and messages behind the assertion macros (`paratec.h`,
  `paratec.cpp`), `_pt_mark`, and the wording, order and summary of the report: formatting.
* The text of the usage, and `Opts::clearEnv`, for the repository's own tests.
* `time.cpp`, `util.cpp`: wrappers without state; build and packaging.
