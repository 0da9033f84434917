# A TLA+ model of variant2

Variant turns a directory of HCL files into a command line application: every
`job` block is a command, jobs call other jobs, run shell commands, fetch
sources, keep logs, and can be driven from the command line, from Slack, from
tests and from a Kubernetes controller. This directory models the parts of it
that are concurrent, that fail half way, or whose order matters, and checks them
with TLC. TLAPS proves the safety properties of nearly all of them for instances
of any size: nested calls, the step executor, job contexts and the applications
they belong to, source checkout, the controller, the Slack bot, the removal of
log collectors and the matcher of tests.

All line numbers refer to `src/`. `PROJECT.json` maps each definition to the
lines it stands for, lists the runs, the mutants that show each property can
fail, the hazards of the code and the theorems.

## 1. Inventory

| component | code | state | operations |
|---|---|---|---|
| calling a job | `pkg/app/app.go` (`Run`, `run`, `Job`, `execMultiRun`, `execJob`, `execAssert`), `run.go`, `job.go`, `app_log.go`, `config_sources.go` | the Go stack of nested calls, each with a job context, a result and an error | call, configs from jobs, log block, depends_on with items, checkout, steps, exec, runs, asserts, unregister and forward, return or panic |
| step execution | `app.go` `execJobSteps`, `runJobAndUpdateContext` | waves of steps, a pool of goroutines, the wait group, mutexes `m` and `rsm`, flag `cancelled`, map `Variables` | plan, hand over, check the flag, evaluate, run, publish, record |
| event log | `log.go`, `app_log.go`, `trace.go` | `lastIndex`, the map of collectors, the events, two mutexes | register, append, deliver, write the file, forward, unregister |
| source checkout | `source.go`, `pkg/source/src.go` | two channels, an errgroup, the results map | send, extract, deliver, collect, wait |
| exec expectations | `app.go` `execCmd`, `execTestCase`, `execMatcher` | pending expectations, invocation count | check, pop, really run |
| test runner | `app.go` `RunTests`, `execTest`, `execTestCase` | the case that is run, its matcher, the verdicts | choose tests, start a case, judge it, report |
| configs and variables | `app.go` `addConfigsAndVariables`, `config_sources.go` | the DAG of `conf`, `sec` and `var` blocks, the evaluation context | plan, evaluate a wave, publish its fields |
| parameters and options | `app.go` `createJobContext`, `values.go`, `survey.go` | pending options, the functions that ask for them | argument, default, import, ask, validate |
| loading and importing | `load.go` `newApp`, `mergeParamsAndOpts` | `JobByName`, the functions of each job, the globals of libraries | import a module, rename its jobs, merge options |
| command runner | `variant.go`, `main.go` | `Runner.mut`, `SetOpts`, the cobra commands and their flags | build the commands, lock, parse or refuse, run, unlock |
| Slack bot | `slack.go`, `pkg/slack/*` | handlers of dialogs, one `done` channel per dialog | command, open a dialog, submit, cancel, answer |
| controller | `pkg/controller/*` | the Resource and the Reconciliation objects on the API server | apply, destroy, record, retry, finalize |
| the rest | export, shims, file functions, conversions, Kubernetes client | none that matters here | pure I/O and data |

How they interact. The command line, a slash command, a test case and the
controller all end in `App.Run`, which calls `App.Job`. `App.Job` registers a
log collector with the `EventLogger` shared by all calls under one command,
checks out the sources, and executes steps, which call `App.run` again from
several goroutines at the same time. Concurrent calls share the event logger,
the `Variables` map of the job context of the steps, the source client and the
matcher of the test. The Slack bot runs every command in a goroutine and all
of them share one `Runner`; a command that needs an option waits for a callback
in another goroutine. The controller calls the runner from a work queue that
retries.

What is hard, and the properties that make each part right:

* **Calling a job.** Each call has a dozen places where it can fail, with
  results and errors combined in different ways. Right means: never neither a
  result nor an error (callers dereference the one or the other); no failure
  swallowed on its way up; after a failed command nothing but the forwarding of
  logs; the output and the log of a call are those of the whole tree of calls
  below it that share its event logger, in order.
* **Configs, variables, options.** Values come from four places and blocks refer
  to each other. Right means: a block is evaluated with everything it refers to
  in the context; a context that is handed out is complete; a failure has a
  reason; a called job agrees with its caller on the global options; nobody is
  asked twice.
* **Loading.** A job may be declared by several files and libraries, an option by
  several jobs. Right means: what is loaded is what the files say, in whatever
  order they are read; a job knows the options of its own module; the flags of
  a command are enough to run it.
* **Step execution.** Up to `concurrency` goroutines per wave, cancelled by a
  flag read under one mutex, publishing under another, evaluating under none.
  Right means: needs respected, concurrency respected, definition order kept
  when sequential, nothing still running after the return, errors kept, and
  always an end.
* **Event log.** Registration, delivery and removal from concurrent jobs. Right
  means: each collector gets its job's events once, all collectors agree on the
  order, no collector outlives its job, nobody waits forever.
* **Source checkout.** A pipeline of two unbuffered channels and two wait
  groups, in which a worker that fails stops receiving. Right means: complete on
  success, no send on a closed channel, nothing lost, failures reported.
* **Tests.** A list of expectations that steps share, checked and popped. Right
  means: under test nothing is executed for real, every expectation is used
  once, and the verdict on a case is about that case.
* **Slack bot and runner.** One mutex held across a conversation with a human.
  Right means: answers reach the command they belong to and no other, an option
  is missing only if its user cancelled, every command is answered.
* **Controller.** Handlers that fail and are retried, restarts, a resource that
  changes meanwhile. Right means: destroyed before gone, no apply after destroy,
  the last generation is recorded in the end.

## 2. Modules

| module | models | checked or proved by |
|---|---|---|
| `StepWorkflow` | what a job of steps promises, without machinery (abstract) | implemented by `JobSteps` |
| `JobSteps` | `execJobSteps` and `runJobAndUpdateContext` | `MCJobSteps`, `JobSteps_proofs` |
| `JobCall` | `App.run`, `App.Job`, `execMultiRun`, `execJob`, `runJobInBody`, the jobs of config sources, the deferred unregister | `MCJobCall`, `JobCall_proofs` |
| `JobContext` | `createJobContext`, `addConfigsAndVariables`, `setValues`, `buildArgsFromExpr` | `MCAppContext`, `JobContext_proofs` |
| `Imports` | `newApp`, `mergeParamsAndOpts`: the application that modules make | `MCAppContext`, `JobContext_proofs` |
| `CommandLine` | the flags of the cobra commands and how they are read | `MCAppContext`, `JobContext_proofs` |
| `AppContext` | the contexts of the jobs of an application: composes the three above | `MCAppContext`, `JobContext_proofs` |
| `EventLog` | `EventLogger`, `LogCollector` | `MCEventLog`, `EventLog_proofs` |
| `FetchAll` | what a checkout promises, without machinery (abstract) | implemented by `SourceCheckout` |
| `SourceCheckout` | `checkoutSources` | itself, `SourceCheckout_proofs` |
| `ExecMatch` | `execMatcher` in `execCmd` | `TestRun`, `TestRun_proofs` |
| `TestRun` | `RunTests`, `execTest`, `execTestCase`: composes test cases with `ExecMatch` | itself, `TestRun_proofs` |
| `SlackBot` | `StartSlackbot`, `Connection`, `Runner.Run` | itself, `SlackBot_proofs` |
| `Reconciliation` | `pkg/controller` | itself, `Reconciliation_proofs` |

The modules named `MC...` give the constants of a run their values; the modules
named `..._proofs` hold the theorems of section 5. `SourceCheckout`, `TestRun`,
`SlackBot` and `Reconciliation` need no `MC` module: their configurations do.

Correspondence of state and actions with the code:

* **JobSteps.** `phase`, `finished` and `wave` are where the dispatching
  goroutine is in its loop over the plan; `wg` the steps added to the wait
  group; `work` which step each goroutine of the pool holds; `pc` how far the
  closure of each step is; `rs`, `cancelled` and `mutex` are the variables of
  those names (`mutex` is `m`); `stepVar` the steps in `Variables["step"]`. A
  section under `rsm` is one action, as it contains nothing but the access it
  guards. A read or a write of `Variables` is two actions, begin and end, so
  that they can overlap: `MapRace` says when the Go runtime may stop the
  process, and `Die` that it does. The job a step runs is one action that
  succeeds or fails. The waves are computed by an external library: `Ready`
  and `Plannable` say what its `Plan` returns (waves in topological order, an
  error on a cycle or on an undeclared dependency).
* **JobCall.** `stack` holds a frame per call of `App.Job`; the `pc` of a frame
  is the stage it is in (`prepare`, `log`, `deps`, `checkout`, `steps`, `exec`
  or `runs`, `asserts`, `finish`, `unregister`). `Call` is `app.run`: it logs the
  call, which may fail, and pushes a frame; `ret` is what a call that returned
  has given back, and the next action is that of its caller (`DepReturned`,
  `StepReturned`, `RunReturned`, ..., or `PassError`). Evaluating an expression
  is a choice between success and `Fail`. However `App.Job` leaves (`Leave`), a
  call that has registered a collector then unregisters it: the file may not be
  written (`UnregisterFails`), the jobs of `log.forward.run` are called one after
  the other (`Forward`, `ForwardReturned`), and the first error is a panic
  (`PanicTop`), which replaces what the call was about to return; `end` says how
  a call left (`ok`, `error`, `panic`). A panic goes through the callers and
  their own unregisters, until a pool goroutine of `execJobSteps` ends the
  process (`Crash`). The jobs of config sources (`CallConfig`, in `prepare`) and
  of log forwards are called with no logger (`CallAside`): they make one of
  their own, which `level` numbers, and only the collectors of the same level
  get an event (`Listens`). Commands print their own number, which
  makes `Stdout` a sequence to compare with the history `cmds`. A name
  without a job resolves to the root job, as in `App.Job`; `"root"` stands for
  the empty name. Fields `from`, `before`, `level`, `logged`, `called` and
  `asserted` of a frame, and `failures` and `broken`, only record what happened.
* **JobContext.** `pc` is where `createJobContext` is; `values` the maps
  `globalOpts` and `localOpts`; `fields` is `varFields`, `confFields` and
  `secFields` together, and `visible` what `ctx.Variables` holds of them, which
  the loop over the waves assigns before each wave and once after the last. Of
  a value only the origin is kept (given, default, answer, argument of a call).
  `SetOptions` is `setValues`: it fails on a wrong type, default or value, or asks for all
  missing options at once. `refs`
  holds the references as `dynamicDependencyName` sees them, by attribute.
  `Call` starts the context of a job that is called, from a context that is
  complete or by a config that is being evaluated; the caller is not followed
  any further. `given`, `inherited`, `asked`, `declined`, `saw` and `broke`
  only record what happened.
* **Imports.** `Load` is pure: `NewApp` is `newApp` for one module, and the
  module of an import is the application `newApp` has made of it. `jobs` is
  `JobByName` (a name is a sequence of words), `funcs` the local functions, by
  the module whose files they are in, `globals` the jobs collected for the root
  job. Of an option its type and whether it has a default are kept, of a job
  who declared its body (`by`). Parameters follow the same rules as options.
  The loops of the loader over jobs, sources, globals and modules are recursive
  functions (`Declare`, `MergeGlobals`, `NewApp`, `Apps`). `Declared`, `Loaded`
  and `GlobalOptionLists` are no code: they read off the program what the
  properties compare the result with, and follow none of those loops.
* **CommandLine.** `Accepted` is what cobra takes, from the persistent flags at
  and above a command; `Read` what `getMergedParamsAndOpts` finds `Changed`.
* **AppContext.** `app` is what `Load` returned; `target` the name of the job
  whose context is created. Init chooses a program, a job and who calls it: the
  command line with flags that cobra accepts, or a test or a Go program with any
  options. `WellFormed` is what files can say: a module has a root job and other
  jobs with names, and imports modules that do not import it. `CallByName` is
  `Call` of `JobContext`, with the options that the job of a name has.
  Everything else is `JobContext` unchanged, which is why its theorems hold here
  (`RunsJobContext`).
* **EventLog.** A job registers in three actions (`ReadIndex`, `WriteIndex`,
  `Insert`: only the last one is under the mutex), appends in `Store` and
  `BeginDelivery`/`Visit`/`EndDelivery`, and unregisters in `WriteFile`,
  `Forward`, `Delete`. `holder` holds `collectorsMutex`. `Torn` stands for what
  `WriteFile` writes when it reads lines that are being appended. A failing
  unregister panics (`Panic`).
* **SourceCheckout.** Every send on an unbuffered channel is one action of the
  sender and the receiver together; `sourceClosed` and `resultClosed` are the
  two `close` calls.
* **ExecMatch.** Each thread is a step of the job under test; checking the
  list, comparing, reading it to pop it and storing the rest are separate
  actions because no lock spans them. `popped` is the slice read;
  `planned` what each step is to execute, `ran` what was executed for real.
* **TestRun.** `stage` is where `execTestCase` is with the case `case`. A case
  cannot start (`CannotStart`) or runs its job (`RunCase`, then the actions of
  `ExecMatch`, then `JobEnds`) and is judged by its asserts or by the error of
  the job (`EndCase`). `RunCase` gives it a matcher, a job and commands of its
  own. `Judge` records the verdict, or, as a failing test without case blocks
  does (`app.go:649`), ends the process. A process that died goes on nowhere.
* **SlackBot.** A session is a slash command and the goroutine that serves it;
  `mut`, `setOpts` and `flags` are the fields of the runner (`flags`: the cobra
  flags that are `Changed`, and whose value they have); `handlers` and `done`
  are those of the dialogs. A command line that is refused (`ParseFails`) has set
  some of its flags. `Entry` says whether the bot was started by the
  command line, which holds the mutex for as long as it runs.
* **Reconciliation.** `resource` is what the API server has, `obj` what the
  handler was called with, `st` what it read after the job. The work queue, the
  finalizer and the API server are external.

## 3. Runs

| run | instance | what it shows |
|---|---|---|
| `job_steps` | 3 steps, concurrency 1..3, every need relation with cycles and undeclared names | all invariants, refinement of `StepWorkflow`, termination |
| `job_steps_race` | 2 independent steps, concurrency 2 | finding: a job none of whose steps failed can die of a concurrent map access |
| `job_call` | each job made of a config or none, a log block, forwarded or not, depends_on, body and assert; 8 jobs it calls; 2 root jobs | results, errors, panics, output and log of nested calls |
| `job_context` | directories with any two options, or with 3 blocks under 27 reference relations; up to two libraries imported in every position; 1 nested call | what is loaded is what is declared, the flags suffice; complete contexts, references, agreement on globals, no deadlock |
| `event_log` | 2 jobs with 2 events each | collection, order, removal, no deadlock |
| `event_log_collision` | 2 jobs with 1 event each | finding: two collectors under one index |
| `source_checkout` | 4 sources, 3 workers | completeness, refinement of `FetchAll`, no hang but one |
| `reconciliation` | 4 generations, 2 failures or restarts | destruction, records |
| `exec_match` | 2 test cases, each of 1 or 2 steps, up to 2 expectations and 2 commands per step | nothing inherited is executed, one step meets expectations in order, a case is judged by its own commands |
| `slack_bot` | 2 commands, 2 options, 1 invalid submission per dialog, 1 restart, started through the API | privacy of answers, no option silently missing, every command answered |
| `slack_bot_cli` | the same, started from the command line | finding: no command is ever answered |
| `slack_bot_flags` | as `slack_bot` | finding: a command runs with the option of an earlier one |

Bounds and why they are enough. Three steps give every shape of two and three
waves, two steps in one wave with a third before or after it, one failing while
another is running and a third is not yet handed over, and more steps than
goroutines; the theorems of section 5 remove the bound. Two jobs with two
events are needed for collectors to disagree on an order, for deliveries to
overlap and for indexes to collide; a third job adds no new pair of accesses.
Four sources and three workers allow one, two or all workers to fail with
sources left, with a free worker, or after the last source. Four
generations let an update fall before, during and after a run and its record,
followed by a deletion. Two commands and two options make every pair of
sessions overlap, with an option typed, missing, and both.
Job trees of depth three cover every way a frame resumes after a call, and a
call of a call; one of the called jobs has a forwarded log of its own, so that
an unregister meets a panic or an error from below while another is pending. Only
the main job has a config that is the output of a job: one in the root job would
be evaluated again by the job it calls, without end. Two options cover every pair of origins; each is global, local
or both, and given, defaulted or neither. The 27 relations over three blocks
contain chains, forks, joins, cycles of one, two and three blocks, and an
undeclared name. Two libraries are enough for a library that imports one, for
two that declare the same job or the same option with equal or different types
and defaults, and for one that is imported twice; the user's directory redefines
an imported job before and after its import, as files are read in any order.
Two cases and two steps let one case leave behind expectations that the next one
must not see, and two steps of either overlap in the matcher. The
theorems of section 5 remove the bounds of every safety property.
Every other bound (`MaxInvalid`, `MaxRestarts`, `MaxFailures`)
allows the event to occur at every point at least once.

Deadlock is checked everywhere but in the Slack runs, where the system may
really stop (a dialog nobody answers). Where a system is over, an explicit
`Stop` step says so.

**What the violations say.** Each contradicts a sentence of the repository,
quoted in `findings`: the step executor reads a Go map while another step
writes it (`app.go:982`); `Register` picks an index outside its mutex
(`log.go:149`); `variant start slackbot` holds the mutex its own commands need
(`main.go:39`); the cobra flags of one slash command leak into the next
(`variant.go:206`).

**Where the code departs from its documentation without a run.**
`README.md:506` says a job contains one of assert, exec, run and step; the code
accepts any combination and a job with steps silently ignores the others. That is why
`DoesAllItDeclares` excepts jobs with steps. `OutputInOrder` excepts jobs whose
steps form several waves from being complete, since only the last wave's output
is kept. `README.md:393` says that a log block collects all the `run` and `exec`
that are executed as part of the job; those of the jobs that its config sources
and its log forwards run are not collected, as these get no logger of the caller
(`config_sources.go:99`, `app_log.go:78`): `LogIsComplete` and `OutputInOrder`
speak of the commands a call executes with its own logger (`Own`). The log of a
call that failed is forwarded as well, so that jobs execute commands after the
one that failed, and an error of theirs panics (`app.go:158`): the exception of
`FailStop` (`ForwardsFailure`). A test without case blocks that fails panics with
a nil dereference (`app.go:649`) instead of being reported as failed. A record
of the controller may hold the spec of one generation and the logs of an older
one, as the Resource is read again after the job (`controller.go:72`);
`NoLogsFromTheFuture` and `EventuallyRecorded` are what remains true.
Two steps of a wave under test can have two commands validated by one
expectation (`app.go:340`), as no lock spans the check and the pop: that is why
`MetOnceByOneStep` restricts `EachExpectationMetOnce` to jobs of one step. An
expectation that is not met fails no test, and a panic of a case ends all tests:
`failOnPanic` (`app.go:605`) is deferred in another goroutine than the job. The
root job asks its user twice for an option without a value, since its options
are the global ones (`app.go:1330`, `app.go:1335`): `AskedOnce` excepts it. A
`key` with dots of a `text` source sets the last part beside the first instead
of below it (`app.go:1493`); what sources merge to is not modelled. A list flag
of the Slack bot keeps the items of earlier commands and adds those of the next
one, which `slack_bot_flags` shows for plain flags.

Importing departs from `README.md:297-330` in several ways, each of which is an
exception of a property or a case it is silent about:

* A job that imports a library whose root job has options, as in the example of
  `README.md:297-311`, gets those options twice, as its own and as global ones.
  It is refused when it is called, as one shadows the other (`app.go:1346`):
  `Shadowing` in `FlagsSuffice` and `FailureHasReason`.
* The body of the root job of a library is lost: the job that imports it keeps
  its own (`load.go:375`). `Declared` lists no job for it.
* A root job that imports several libraries (`README.md:314`) keeps the globals
  of the last one only: `LosesGlobals`.
* A default that the user gives to an option of a library does not make the flag
  of the nested command optional: `DefaultsDiffer`.
* The local functions a job finds are those of the library that was merged
  last, so a job reached through two imports gets the functions of the one in
  the middle, and a user's job gets those of the library it imports:
  `LoadsWhatIsDeclared` says so of the other jobs only.
* Run blocks of an imported job use the names of the library, which the
  application does not know; they resolve to the root job (`app.go:101`).

## 4. Fairness

Safety is checked and proved without fairness. Liveness uses weak fairness only:

* `JobSteps`: of the dispatcher and of each goroutine of the pool. The Go
  scheduler runs what can run; a wave's sends and mutexes have at most finitely
  many competitors; a job called by a step is assumed to end.
* `EventLog`: of each job. The mutex is taken a bounded number of times in
  total, so that a goroutine that waits is in the end alone.
* `SourceCheckout`: of the caller, each worker and the collector; an extraction
  ends because the download has a timeout of 30 seconds.
* `Reconciliation`: of the controller's worker, none of users or resyncs;
  failures are bounded, as a job that always fails is never recorded.
* `SlackBot`: of each session, none of the users: `EveryCommandAnswered`
  assumes that each dialog shown is in the end answered.

## 5. Proofs

Each module of proofs states the assumptions of its module, an inductive
invariant `IInv`, one lemma per action or group of actions, `Invariance`
(`Spec => []IInv`), and the theorems. `PROJECT.json` lists the theorems. Type
correctness is proved of every state machine; but for that of applications, the
runs do not check it again.

**`JobSteps_proofs`**, for every `NumSteps`, `MaxConcurrency` and `NeedsChoices`
(naturals, and a set of need relations over the steps and `Undeclared`):
`TypeCorrect`, `NeedsSatisfiedAlways`, `QuietAfterReturnAlways`,
`FaithfulReturnAlways`, `SequentialInOrderAlways`, and `Refinement`,
`Spec => ImplementsWorkflow`. No safety invariant is inductive alone. `IInv` adds
what the code relies on without writing it down: `Pool` (a goroutine holds
exactly one step in flight and every step in flight is held), `Group` (the wait
group covers all steps in flight, so that the wait can end only between waves),
`Waves` (a wave needs only earlier waves, whose steps are all done and
published), `Outcomes` (what is known of a step at each place of its closure),
`Recorded` (a result is recorded once, with its own outcome; the flag is up
exactly if a step of the wave has recorded an error) and `Returned` (an answer has
a reason). `SequentialInOrder` is inductive relative to `IInv`. The refinement
reads the status of a step off `rs`, `finished` and `pc`; `RoomForOneMore` is
the lemma that the pool bounds the running steps, by an injection of running
steps into goroutines.

**`JobCall_proofs`**, for any configuration of jobs, any nesting and any number of
commands: `TypeCorrect` and all six properties of run `job_call`. The calls under
way and the one that has just returned form one chain, `Live`, and `IInv` speaks
of every frame of it: `Good` (what the job has done at its stage, what its
collector has got, and that all commands since it began are at its level or
above), `Writes` (the output of each frame is that of its own commands, up to
where the frame after it begins), `Nested` (every frame but the last waits for
the next one, at the level the place of the call implies) and `Failing` (nothing
has failed in the last frame but what it knows of, and nothing in a frame that
was called by one that knows of none). A step without a command cuts the chain
somewhere and adds a frame (`ByChanging`, and from it `BySettling`,
`ByProceeding`, `ByLeaving`, `ByFailing`, `ByPushing`); a command changes the
frames that listen (`ByExecuting`). What is left for the lemma of an action is to
show `Good` and `Writes` of one frame. `FailStopAlways` follows from `Failing`: a
command is executed only by a frame that knows of no failure (`OnlyExec`), so
that a failed command below it takes a call in between that knows of one, and
such a call only forwards its log.

**`JobContext_proofs`**, for any `Options`, `Blocks`, `RefChoices` and
`MaxCalls` (`Undeclared` is no block, the choices are relations over the blocks
and `Undeclared`, `MaxCalls` is a natural): `TypeCorrect`,
`BlocksSeeTheirRefsAlways`, `CompleteOnSuccessAlways`, `FailureHasReasonAlways`,
`GlobalsAgreeAlways`, and `AskedOnceAlways`, which no run checks (nobody is
asked twice for an option, except by the root job). `IInv` consists of `Asking`
(being asked twice takes being in both groups), `Settled` (what has a value
after each stage, and that an option with a default is never left out), `Agreed`
(a called job is given what its caller has, so that neither a default nor a user
can come in between) and `Waves` (a wave refers to what is visible; with it, an
undeclared name never gets that far). `RunsJobContext` shows that an
application, whatever it imports, is a behaviour of `JobContext`, so that the
theorems hold of its jobs (`AppContextsComplete`); `AppTypeCorrect` that a
context has the options of the job that was named.

The same module proves, of applications made of any `Programs` that are
`WellFormed` (any number of modules, jobs, options and nested imports):
`LoadsWhatIsDeclaredAlways`, `ModuleOptionsKnownAlways` and
`FlagsSufficeAlways`. What the loader computes is shown in three steps. Each of
its folds equals its own step applied to the previous result
(`DeclareRecursion` to `DeclaredRecursion`), and what holds at the start of a
fold and is kept by each step holds at its end: both by `UpTo`, that is, by the
least number where it would fail. `Sound` is the invariant of `newApp` between
two imports, `Has` what is there of a job from the moment it is declared
(`HasStays`, `AllDeclared`), and `Made`, which the merge of the globals keeps
true (`NewAppMade`), what the application of a module is in terms of those of
its imports; `AppsMade` has it for every module of a program. From `Made` alone
follow, by induction over the modules (`LoadedInduction`), that the jobs are
those `Declared` (`DeclaredCallable`), that a failure has two lists of options
that disagree (`FailedDisagrees`) and that a disagreement fails
(`DisagreementFails`): a global option of any loaded file reaches the root job,
where all are compared. `Running` adds to `IInv` that the context is of an
application that `Load` returned and that the first call has the flags cobra
accepted; `GlobalsAreFlags` and `ReadsWhatIsTyped`, that each global option is a
flag of each command and that what is typed is what is read, then give
`FlagsSuffice`.

**`SourceCheckout_proofs`**, for any numbers of sources and workers: `TypeCorrect`,
`NoSendOnClosedChannelAlways`, `AllSourcesOnSuccessAlways`, and `Refinement`, that
goroutines, channels and wait groups implement `FetchAll`. `IInv` is `Held` (who
must hold a source), `Accounted` (a source that was sent is in the map, in
somebody's hand, or lost with a worker that failed) and `Closing` (what each
`close` rests on). The refinement needs two more: `Placed` (a source is in one
hand only, so that its status is well defined) and `Settled` (when the calling
goroutine may answer).

**`Reconciliation_proofs`**, for any number of generations and failures:
`TypeCorrect`, `DestroyedBeforeGoneAlways`, `NoApplyAfterDestroyAlways`,
`NoLogsFromTheFutureAlways`. `IInv` orders the three copies of the Resource
there are (`Copies`) and says how far a deletion has come (`Deletion`).

**`SlackBot_proofs`**, for any commands, options, entry and numbers of restarts:
`TypeCorrect`, `AsksItsOwnUserAlways`, `SubmissionsStayPrivateAlways`,
`MissingOnlyIfCancelledAlways`. `IInv`: a command past the lock finds itself in
`SetOpts` (`Exclusive`), a value was typed by its owner (`Owned`), and a dialog,
its handler and the channel of its command stay in step (`InStep`).

**`EventLog_proofs`**, for any jobs and any number of events: `TypeCorrect`,
`NoCollectorLeftAlways`, `SameOrderAlways` and `CollectsOwnEventsIfAloneAlways`.
`IInv` says who holds the mutex (`Exclusive`), whose collectors there can be
(`Owned`) and that a job that logs has an event to count (`Counted`); it does
not need the indexes to differ. The orders need `Gathered`: a job has an index
before it has events (`Numbered`); the event that is being delivered is the last
one of every collector that has it, and the mutex is not passed on before that
(`Delivered`), so that appending keeps `SameOrder`; and a job whose index no
other job has stays registered under it and has all its own events, in order,
but for the one that has not reached it yet (`Collected`).

**`TestRun_proofs`**, for any cases, steps (finitely many) and commands:
`TypeCorrect`, `MockedAlways`, `MetOnceAlways` and `JudgedAlways`. `IInv`: an
invocation is counted before anything is popped (`Counted`), so that an empty
list is never mistaken for a test without expectations, however the steps
overlap; and a step that has the matcher for itself finds the list as it left it
(`Alone`). `JudgedAlways` needs `Obeyed`: a script is the end of what the step
was to execute (`Remaining`); without expectations the matcher is never looked
at (`Unmatched`); and the commands that the only step of a case has executed are
those that were validated, the one it failed at being no match (`Followed`).
`Judging` carries that over to the verdict: a case in its asserts has a step
that failed exactly if its error is that of an unexpected exec, and every
earlier case has been judged (`Staged`).

Only model-checked: all liveness (TLAPS handles neither fairness nor ENABLED
here), and the disagreements of section 3, which are counterexamples. Every
safety invariant and action property of a passing run is proved. Nothing proved
depends on TLC.

## 6. Not modelled

* Finding, downloading and parsing files; modules that import each other in a
  circle, which `newApp` follows without end, and jobs that are given the name
  of the root job, `""` (`WellFormed` excludes both). Evaluation of expressions, merging
  of config sources, conversion and validation of values: data. `JobCall` calls the
  jobs of config sources in the order of their declaration; the rest of
  `createJobContext` is one choice there (each call may fail before it, too).
* Two config, secret or variable blocks of one name, and references by index,
  which the code does not recognise as dependencies (`app.go:1578`).
* Two steps of the same name: the code keeps one closure for both.
* The branch `res.Cancelled` of `runJobAndUpdateContext` (`app.go:965`): no
  caller passes a cancelled result there.
* Goroutines left behind on the channel of a wave, handlers of dialogs that are
  never removed: leaks nobody observes through the modelled interface.
* In `JobCall`: concurrent steps (in `JobSteps`), the order of config sources by
  their references (in `JobContext`), matching of expectations (in `ExecMatch`).
* Export, shims, file and JSON functions, value conversions, the Kubernetes
  client, output capture, the `testing` glue: pure I/O or data.

## 7. Plan

Done: all modules of section 2, with the theorems of section 5. What is left,
most useful first:

1. The composition of `JobContext` with `JobCall` as its `Prepare`: the jobs of
   config sources are calls of `JobCall` already, but the blocks they belong to
   and the values they are given are in `JobContext` only.
2. The validation of answers: what an omitted or a malformed value becomes in
   the dialog, which leaves out the validators (`survey.go:55`). Composed with
   `SlackBot`, whose `Submit` then chooses texts instead of validity.
3. An abstract `Mailbox` specification (an event reaches each registered
   collector once, in one order) that `EventLog` implements while indexes are
   distinct. `SameOrderAlways` and `CollectsOwnEventsIfAloneAlways` are the two
   halves of the argument.
4. The capture of a job's output by the controller (`capture.go:13`).
