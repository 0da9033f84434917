-------------------------------- MODULE JobCall --------------------------------
(***************************************************************************)
(* What happens when a job is called: App.run, App.Job, execMultiRun and   *)
(* execJob of pkg/app/app.go, runJobInBody of pkg/app/run.go.              *)
(*                                                                         *)
(* Jobs call jobs: the stack holds one frame for each call of App.Job that *)
(* has not returned, the innermost last, and `ret' is the frame of the call*)
(* that has just returned to the one on top.  A job prepares its           *)
(* parameters, options and configs, some of which are the output of jobs,  *)
(* registers its log collector, calls the jobs it depends on, fetches its  *)
(* sources and then does one of: its steps, its exec, its runs.  However it*)
(* leaves, the collector is then unregistered: its file is written and     *)
(* forwarded to jobs, and what fails in doing so panics.                   *)
(*                                                                         *)
(* The jobs a config stems from and those a log is forwarded to are called *)
(* without the event logger of the caller and get one of their own, one    *)
(* level up.                                                               *)
(*                                                                         *)
(* Commands are numbered as they are executed and print their number, so   *)
(* that the output of a job is the sequence of the commands it stems from. *)
(* Steps run one at a time here: JobSteps has the others, EventLog the     *)
(* concurrent use of the logger, SourceCheckout the sources.               *)
(***************************************************************************)
EXTENDS Naturals, SequencesExt

CONSTANTS
    Names,       \* the names by which jobs are called
    Entries,     \* those given on the command line
    Configs      \* the configurations considered: functions from names to jobs

\* A name without a job resolves to the root job, which always exists.
Root == "root"

\* A job.  A job has a log block or none; a log block without a collect block
\* is found out when the job is called.  `configs' are the jobs of the sources
\* of its configs and secrets, `forwards' those its log is forwarded to.  The
\* steps of a job either all need nothing or each needs the one before.  The
\* runs of a job are all of the form `run "job" {}' or all of the form
\* `run { job = .., condition = .. }'.
Job ==
    [configs : Seq(Names),
     log : {"none", "empty", "collects"},
     forwards : Seq(Names),
     deps : Seq([job : Names, items : Nat]),
     steps : Seq(Names),
     chained : BOOLEAN,
     exec : BOOLEAN,
     runs : Seq(Names),
     conditional : BOOLEAN,
     asserts : Nat]

ASSUME EntriesAssumption == Entries \subseteq Names
ASSUME ConfigsAssumption ==
    \A c \in Configs : Root \in DOMAIN c /\ \A n \in DOMAIN c : c[n] \in Job

VARIABLES
    jobs,        \* app.JobByName; never changes
    stack,       \* the calls of App.Job that have not returned
    ret,         \* the last one to return, until its caller has looked at it
    cmds,        \* the commands executed: by which job, at which level, how
    failures,    \* how many things have failed so far
    broken       \* whether an event could not be delivered to a collector

vars == <<jobs, stack, ret, cmds, failures, broken>>

NoReturn == [job |-> "none"]

Places == {"prepare", "log", "deps", "checkout", "steps", "exec", "runs",
           "asserts", "finish", "unregister"}

\* A call.  A *Result is nil or set; its Stdout is `out'.  From `from' on, the
\* fields say what was before the call (commands, failures), at which level it
\* is, and what it has done: the commands its collector got (if it registered
\* one), the runs it called or skipped, the asserts that held, how it left.
Frames ==
    [job : DOMAIN jobs, pc : Places, i : Nat, item : Nat, depRes : BOOLEAN,
     depOut : Seq(Nat), execOk : BOOLEAN, res : {"nil", "set"}, out : Seq(Nat),
     from : Nat, before : Nat, level : Nat, collects : BOOLEAN,
     logged : Seq(Nat), called : Nat, asserted : Nat,
     end : {"ok", "error", "panic"}]

TypeOK ==
    /\ jobs \in Configs
    /\ stack \in Seq(Frames)
    /\ ret \in Frames \cup {NoReturn}
    /\ cmds \in Seq([by : DOMAIN jobs, level : Nat, ok : BOOLEAN])
    /\ failures \in Nat
    /\ broken \in BOOLEAN

Resolve(name) == IF name \in DOMAIN jobs THEN name ELSE Root

\* The frame of a new call.
Frame(name, level) ==
    [job |-> Resolve(name), pc |-> "prepare", i |-> 1, item |-> 0,
     depRes |-> FALSE, depOut |-> <<>>, execOk |-> TRUE, res |-> "nil",
     out |-> <<>>, from |-> Len(cmds), before |-> failures, level |-> level,
     collects |-> FALSE, logged |-> <<>>, called |-> 0, asserted |-> 0,
     end |-> "ok"]

\* app.Run, with the name given on the command line.
Init ==
    /\ jobs \in Configs
    /\ cmds = <<>>
    /\ failures = 0
    /\ \E name \in Entries : stack = <<Frame(name, 0)>>
    /\ ret = NoReturn
    /\ broken = FALSE

-------------------------------------------------------------------------------
(* Calls and returns *)

Top == Last(stack)
JobOf(f) == jobs[f.job]

At(place) == stack # <<>> /\ Top.pc = place /\ ret = NoReturn

Becomes(f) == stack' = Append(Front(stack), f)

\* App.Job returns or panics: what it deferred is run, if it got so far as to
\* register a collector.
Leave(f, end, res, out) ==
    LET left == [f EXCEPT !.pc = "unregister", !.i = 1, !.end = end,
                          !.res = res, !.out = out]
    IN  IF f.collects
        THEN Becomes(left) /\ ret' = NoReturn
        ELSE stack' = Front(stack) /\ ret' = left

FailAs(f) ==
    /\ Leave(f, "error", "nil", <<>>)
    /\ failures' = failures + 1
    /\ UNCHANGED jobs

Fail == FailAs(Top) /\ UNCHANGED cmds

FailUnbroken == Fail /\ UNCHANGED broken

\* The calls whose collectors get what the innermost call logs.
Listens(f) == f.collects /\ f.level = Top.level

\* A collector fails on an event: the others may miss it.
EventLost == (\E d \in DOMAIN stack : Listens(stack[d])) /\ broken' = TRUE

Push(f) == stack' = Append(stack, f) /\ UNCHANGED <<jobs, ret, cmds, failures, broken>>

\* app.run: the call is logged, which a collector may refuse, ...
Call(name) == Push(Frame(name, Top.level)) \/ (EventLost /\ Fail)

\* ... unless there is no logger: the job makes one.
CallAside(name) == Push(Frame(name, Top.level + 1))

\* What the innermost call has given back to the one at `place'.
Returned(place) == stack # <<>> /\ Top.pc = place /\ ret # NoReturn

Succeeded(place) == Returned(place) /\ ret.end = "ok"

\* Steps are run by goroutines of a pool, in which nothing recovers: a panic in
\* one ends the process, with nothing deferred by the jobs that wait for it.
Crash ==
    /\ Returned("steps")
    /\ ret.end = "panic"
    /\ stack' = <<>>
    /\ UNCHANGED <<jobs, ret, cmds, failures, broken>>

\* An error of a job that was called is one of the caller, and so is a panic.
PassError ==
    /\ stack # <<>>
    /\ ret # NoReturn
    /\ \/ ret.end = "error" /\ Top.pc # "unregister"
       \/ ret.end = "panic" /\ Top.pc \notin {"steps", "unregister"}
    /\ Leave(Top, ret.end, "nil", <<>>)
    /\ UNCHANGED <<jobs, cmds, failures, broken>>

Resume(f) ==
    /\ Becomes(f)
    /\ ret' = NoReturn
    /\ UNCHANGED <<jobs, cmds, failures, broken>>

Proceed(f) == Becomes(f) /\ UNCHANGED <<jobs, ret, cmds, failures, broken>>

-------------------------------------------------------------------------------
(* The stages of App.Job, before the body *)

\* createJobContext: the configs and secrets of the root job and its own.
ConfigsOf(f) == jobs[Root].configs \o JobOf(f).configs

CallConfig ==
    /\ At("prepare")
    /\ Top.i <= Len(ConfigsOf(Top))
    /\ CallAside(ConfigsOf(Top)[Top.i]) \/ FailUnbroken

ConfigReturned == Succeeded("prepare") /\ Resume([Top EXCEPT !.i = @ + 1])

\* A parameter, option, config or variable may be wrong.
Prepare ==
    /\ At("prepare")
    /\ Top.i > Len(ConfigsOf(Top))
    /\ Proceed([Top EXCEPT !.pc = "log", !.i = 1]) \/ FailUnbroken

\* The log block and the concurrency.  The name of the log file is evaluated
\* before the collector is registered, the stream and the concurrency after.
StartLog ==
    /\ At("log")
    /\ LET next == [Top EXCEPT !.pc = "deps", !.collects = JobOf(Top).log = "collects"]
       IN  \/ JobOf(Top).log # "empty" /\ Proceed(next)
           \/ FailUnbroken
           \/ next.collects /\ FailAs(next) /\ UNCHANGED <<cmds, broken>>

\* execMultiRun: a depends_on block calls its job once, or once per item.
CallDep ==
    /\ At("deps")
    /\ Top.i <= Len(JobOf(Top).deps)
    /\ Call(JobOf(Top).deps[Top.i].job) \/ FailUnbroken

\* Mutant of DepReturned: each depends_on block starts the output anew.
DepReturnedAnew ==
    /\ Succeeded("deps")
    /\ LET more == Top.item + 1 < JobOf(Top).deps[Top.i].items
       IN  Resume([Top EXCEPT !.depRes = TRUE,
                              !.depOut = ret.out,
                              !.item = IF more THEN @ + 1 ELSE 0,
                              !.i = IF more THEN @ ELSE @ + 1])

\* Mutant of DepReturned: the error of the job is not looked at.
DepReturnedAnyway ==
    /\ Returned("deps")
    /\ Resume([Top EXCEPT !.depRes = TRUE, !.i = @ + 1])

DepReturned ==
    /\ Succeeded("deps")
    /\ LET more == Top.item + 1 < JobOf(Top).deps[Top.i].items
       IN  Resume([Top EXCEPT !.depRes = TRUE,
                              !.depOut = @ \o ret.out,
                              !.item = IF more THEN @ + 1 ELSE 0,
                              !.i = IF more THEN @ ELSE @ + 1])

DepsDone ==
    /\ At("deps")
    /\ Top.i > Len(JobOf(Top).deps)
    /\ Proceed([Top EXCEPT !.pc = "checkout", !.i = 1])

\* checkoutSources.
Checkout ==
    /\ At("checkout")
    /\ Proceed([Top EXCEPT !.pc = "steps"]) \/ FailUnbroken

-------------------------------------------------------------------------------
(* The body of the job *)

\* execJobSteps, with a concurrency of one.
CallStep ==
    /\ At("steps")
    /\ Top.i <= Len(JobOf(Top).steps)
    /\ Call(JobOf(Top).steps[Top.i]) \/ FailUnbroken

\* Each wave makes a slice of results of its own: the output of a job with
\* chained steps is that of the last step.
StepReturned ==
    /\ Succeeded("steps")
    /\ Resume([Top EXCEPT !.i = @ + 1,
                          !.res = "set",
                          !.out = IF JobOf(Top).chained THEN ret.out ELSE @ \o ret.out])

\* A job with steps does nothing else, its asserts included.  The runs of a
\* job without exec are decoded before the first of them is looked at.
StepsDone ==
    /\ At("steps")
    /\ Top.i > Len(JobOf(Top).steps)
    /\ IF JobOf(Top).steps # <<>>
       THEN Proceed([Top EXCEPT !.pc = "finish"])
       ELSE IF JobOf(Top).exec
       THEN Proceed([Top EXCEPT !.pc = "exec"])
       ELSE Proceed([Top EXCEPT !.pc = "runs", !.i = 1]) \/ FailUnbroken

Command(ok) == [by |-> Top.job, level |-> Top.level, ok |-> ok]

\* A command is executed and, if it is `heard', logged.
Executed(done, ok, heard) ==
    /\ cmds' = Append(cmds, Command(ok))
    /\ failures' = IF ok THEN failures ELSE failures + 1
    /\ stack' = [d \in DOMAIN stack |->
                   LET f == IF d = Len(stack) THEN done ELSE stack[d]
                   IN  IF heard /\ Listens(f)
                       THEN [f EXCEPT !.logged = Append(@, Len(cmds) + 1)] ELSE f]
    /\ UNCHANGED <<jobs, ret, broken>>

AfterExec(ok) ==
    [Top EXCEPT !.pc = "asserts", !.res = "set", !.execOk = ok, !.out = <<Len(cmds) + 1>>]

\* Mutant of Exec: only commands that succeed are logged.
ExecLogsSuccess ==
    /\ At("exec")
    /\ \E ok \in BOOLEAN : Executed(AfterExec(ok), ok, ok)

\* The exec block: the command is executed, then logged, whether it succeeded
\* or not.  An event that cannot be delivered hides the error of the command.
Exec ==
    /\ At("exec")
    /\ \/ FailUnbroken
       \/ \E ok \in BOOLEAN : Executed(AfterExec(ok), ok, TRUE)
       \/ /\ EventLost
          /\ FailAs(Top)
          /\ \E ok \in BOOLEAN : cmds' = Append(cmds, Command(ok))

MoreRuns == At("runs") /\ Top.i <= Len(JobOf(Top).runs)

CallRun ==
    /\ MoreRuns
    /\ Call(JobOf(Top).runs[Top.i]) \/ FailUnbroken

\* The condition of the run is false, which is logged too.
SkipRun ==
    /\ MoreRuns
    /\ JobOf(Top).conditional
    /\ \/ Proceed([Top EXCEPT !.i = @ + 1, !.called = @ + 1])
       \/ EventLost /\ Fail

\* Mutant of RunReturned: the first run that was not skipped ends the body.
RunReturnedFirst ==
    /\ Succeeded("runs")
    /\ Resume([Top EXCEPT !.i = Len(JobOf(Top).runs) + 1, !.called = @ + 1,
                          !.res = "set", !.out = @ \o ret.out])

\* The results of the runs that were not skipped are aggregated.
RunReturned ==
    /\ Succeeded("runs")
    /\ Resume([Top EXCEPT !.i = @ + 1, !.called = @ + 1,
                          !.res = "set", !.out = @ \o ret.out])

RunsDone ==
    /\ At("runs")
    /\ Top.i > Len(JobOf(Top).runs)
    /\ Proceed([Top EXCEPT !.pc = "asserts"])

\* The asserts follow an exec that failed, too, but not a run that did.
ExecAssert ==
    /\ At("asserts")
    /\ Top.asserted < JobOf(Top).asserts
    /\ Proceed([Top EXCEPT !.asserted = @ + 1]) \/ FailUnbroken

HasBody(j) == j.exec \/ j.runs # <<>>

\* A job of nothing but asserts has an empty result.
AssertsDone ==
    /\ At("asserts")
    /\ Top.asserted = JobOf(Top).asserts
    /\ LET only == ~HasBody(JobOf(Top)) /\ JobOf(Top).asserts > 0
       IN  Proceed([Top EXCEPT !.pc = "finish", !.res = IF only THEN "set" ELSE @])

-------------------------------------------------------------------------------
(* The end of App.Job *)

\* Mutant of Finish: a job with an error gives its caller only the result.
FinishNoError ==
    /\ At("finish")
    /\ Leave(Top, "ok", "set", Top.depOut \o Top.out)
    /\ UNCHANGED <<jobs, cmds, failures, broken>>

\* Mutant of Finish: nobody looks whether the job did anything.
FinishAnyhow ==
    /\ At("finish")
    /\ \/ /\ Top.execOk
          /\ Leave(Top, "ok", Top.res, Top.depOut \o Top.out)
          /\ UNCHANGED <<jobs, cmds, failures, broken>>
       \/ ~Top.execOk /\ FailUnbroken

\* The output of the jobs it depends on precedes that of the job, and stands
\* for it when there is nothing else; a job without a result is an error.
Finish ==
    /\ At("finish")
    /\ IF Top.execOk /\ (Top.res = "set" \/ Top.depRes)
       THEN /\ Leave(Top, "ok", "set", Top.depOut \o Top.out)
            /\ UNCHANGED <<jobs, cmds, failures, broken>>
       ELSE FailUnbroken

-------------------------------------------------------------------------------
(* The deferred unregister *)

ForwardsOf(f) == JobOf(f).forwards

\* A panic leaves the call, whatever it was about to return.
PanicTop == stack' = Front(stack) /\ ret' = [Top EXCEPT !.end = "panic"]

\* The file cannot be written or, later, the arguments of a job evaluated.
UnregisterFails ==
    /\ At("unregister")
    /\ Top.i = 1 \/ Top.i <= Len(ForwardsOf(Top))
    /\ PanicTop
    /\ failures' = failures + 1
    /\ UNCHANGED <<jobs, cmds, broken>>

Forward ==
    /\ At("unregister")
    /\ Top.i <= Len(ForwardsOf(Top))
    /\ CallAside(ForwardsOf(Top)[Top.i])

\* The error of a job a log is forwarded to is one of unregister, and panics.
ForwardReturned ==
    \/ Succeeded("unregister") /\ Resume([Top EXCEPT !.i = @ + 1])
    \/ /\ Returned("unregister")
       /\ ret.end # "ok"
       /\ PanicTop
       /\ UNCHANGED <<jobs, cmds, failures, broken>>

Unregistered ==
    /\ At("unregister")
    /\ Top.i > Len(ForwardsOf(Top))
    /\ stack' = Front(stack)
    /\ ret' = Top
    /\ UNCHANGED <<jobs, cmds, failures, broken>>

-------------------------------------------------------------------------------
Stop == stack = <<>> /\ UNCHANGED vars

Next ==
    \/ CallConfig \/ ConfigReturned \/ Prepare \/ StartLog
    \/ CallDep \/ DepReturned \/ DepsDone \/ Checkout
    \/ CallStep \/ StepReturned \/ StepsDone
    \/ Exec \/ CallRun \/ SkipRun \/ RunReturned \/ RunsDone
    \/ ExecAssert \/ AssertsDone \/ Finish
    \/ UnregisterFails \/ Forward \/ ForwardReturned \/ Unregistered
    \/ PassError \/ Crash \/ Stop

Spec == Init /\ [][Next]_vars

-------------------------------------------------------------------------------
(* Properties *)

Handed == ret # NoReturn

\* Callers read res.Stdout, or err.Error() when there is no result, without
\* looking further: a call never gives back neither, however many of its runs
\* were skipped and whatever it declares.
ResultOrError == Handed /\ ret.end = "ok" => ret.res = "set"

\* A call in which anything has failed (a command, an assert, an expression,
\* the delivery of an event, the forwarding of a log, a job without anything to
\* run) does not succeed: no error is lost between the calls.
FailureReported == Handed /\ ret.end = "ok" => failures = ret.before

\* The call at d or one above it has failed and forwards its log.
ForwardsFailure(d) ==
    \E e \in d..Len(stack) : stack[e].pc = "unregister" /\ stack[e].end # "ok"

\* After a command that failed, neither its job nor those that called it
\* execute another, but for the jobs to which the log of a call that failed is
\* forwarded: their commands follow, and stop at the first that fails, too.
FailStop ==
    [][cmds' # cmds =>
         \A d \in DOMAIN stack :
            ForwardsFailure(d) \/ \A n \in (stack[d].from + 1)..Len(cmds) : cmds[n].ok]_vars

\* The commands executed by a call and those it called with its logger: not
\* the ones of the jobs its configs stem from or its logs are forwarded to.
Own(f) == {n \in (f.from + 1)..Len(cmds) : cmds[n].level = f.level}

Ascending(s) == \A m, n \in DOMAIN s : m < n => s[m] < s[n]

Chained(j) == jobs[j].chained /\ Len(jobs[j].steps) > 1

\* The output of a call that succeeded is that of its own commands, in the
\* order of their execution: of all of them, unless some job chains its steps
\* (execJobSteps drops the output of all waves but the last).
OutputInOrder ==
    Handed /\ ret.end = "ok" =>
        /\ Ascending(ret.out)
        /\ Range(ret.out) \subseteq Own(ret)
        /\ (\A j \in DOMAIN jobs : ~Chained(j)) => Own(ret) \subseteq Range(ret.out)

\* A log block collects the own commands of a job, once each and in order,
\* however the job ends, unless an event could not be delivered: those of the
\* jobs its configs stem from or its log is forwarded to are not among them,
\* although they are executed on its behalf, too.
LogIsComplete ==
    Handed /\ ret.collects /\ ~broken =>
        Ascending(ret.logged) /\ Range(ret.logged) = Own(ret)

\* A job that succeeds has done all it declares (called or skipped each run,
\* executed its command, evaluated each assert), unless it has steps, beside
\* which everything else but depends_on is ignored; its asserts then hold of
\* a job nothing of which failed.
DoesAllItDeclares ==
    Handed /\ ret.end = "ok" /\ jobs[ret.job].steps = <<>> =>
        /\ ret.asserted = jobs[ret.job].asserts
        /\ jobs[ret.job].exec => \E n \in Own(ret) : cmds[n].by = ret.job
        /\ jobs[ret.job].exec \/ ret.called = Len(jobs[ret.job].runs)
===============================================================================
