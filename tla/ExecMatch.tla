------------------------------- MODULE ExecMatch -------------------------------
(***************************************************************************)
(* The `expect exec' blocks of a test: the execMatcher of pkg/app/app.go.  *)
(*                                                                         *)
(* A test case runs a job with a matcher that holds the expected commands. *)
(* Every job called from there inherits the matcher, so that execCmd, when *)
(* a job executes a command, compares the command with the first pending   *)
(* expectation instead of running it.  The job a config source names is    *)
(* called with a context of its own, which has no matcher.                 *)
(*                                                                         *)
(* The threads are the concurrent steps of the job under test; all share   *)
(* the one matcher, under no lock.  An `exec' is a command together with   *)
(* how its job was called.  TestRun runs test cases one after the other.   *)
(***************************************************************************)
EXTENDS Naturals, SequencesExt

CONSTANTS
    Threads,       \* steps of the job under test that run concurrently
    Commands,      \* commands jobs execute
    MaxExpected,   \* bound on the expectations of the test
    MaxExecs       \* bound on the commands a step executes

ASSUME ThreadsAssumption == IsFiniteSet(Threads)
ASSUME MaxExpectedAssumption == MaxExpected \in Nat
ASSUME MaxExecsAssumption == MaxExecs \in Nat

\* "called": run by a job that was called by a run block, a step or a
\* depends_on block; "config": run by the job of a config source.
Origins == {"called", "config"}

Exec == [cmd : Commands, from : Origins]

VARIABLES
    steps,           \* the steps of the job under test that execute commands
    initial,         \* the expectations of the test case
    planned,         \* what each step is to execute
    expected,        \* expectedExecs, those not yet met
    invocations,     \* execInvocationCount
    script,          \* what each step has still to execute
    pc,              \* where each step is in execCmd
    popped,          \* the slice each step read in order to pop it
    validated,       \* the expectations that validated a command, in order
    ran,             \* the execs that were really run
    died             \* whether the process panicked

test == <<steps, initial, planned>>
vars == <<test, expected, invocations, script, pc, popped, validated, ran, died>>

TypeOK ==
    /\ steps \subseteq Threads
    /\ initial \in Seq(Commands)
    /\ planned \in [Threads -> Seq(Exec)]
    /\ expected \in Seq(Commands)
    /\ invocations \in Nat
    /\ script \in [Threads -> Seq(Exec)]
    /\ pc \in [Threads -> {"next", "match", "pop", "store", "failed"}]
    /\ popped \in [Threads -> Seq(Commands)]
    /\ validated \in Seq(Commands)
    /\ ran \subseteq Exec
    /\ died \in BOOLEAN

\* Before the first test case.
Init ==
    /\ steps = {}
    /\ initial = <<>>
    /\ planned = [t \in Threads |-> <<>>]
    /\ expected = <<>>
    /\ invocations = 0
    /\ script = [t \in Threads |-> <<>>]
    /\ pc = [t \in Threads |-> "next"]
    /\ popped = [t \in Threads |-> <<>>]
    /\ validated = <<>>
    /\ ran = {}
    /\ died = FALSE

\* Any job that executes commands, and any expectations.
AnyJob ==
    /\ steps' \in (SUBSET Threads) \ {{}}
    /\ initial' \in BoundedSeq(Commands, MaxExpected)
    /\ planned' \in [Threads -> BoundedSeq(Exec, MaxExecs)]
    /\ \A t \in Threads \ steps' : planned'[t] = <<>>
    /\ script' = planned'
    /\ pc' = [t \in Threads |-> "next"]
    /\ popped' = [t \in Threads |-> <<>>]
    /\ validated' = <<>>
    /\ ran' = {}
    /\ UNCHANGED died

\* Mutant of StartCase: the cases of a test share their matcher.
StartCaseSharing ==
    /\ AnyJob
    /\ expected' = initial'
    /\ UNCHANGED invocations

\* Each case gets a matcher of its own.
StartCase ==
    /\ AnyJob
    /\ expected' = initial'
    /\ invocations' = 0

\* Nothing refers to the job any more; what was in its matcher is left there.
EndOfCase ==
    /\ steps' = {}
    /\ initial' = <<>>
    /\ planned' = [t \in Threads |-> <<>>]
    /\ script' = planned'
    /\ pc' = [t \in Threads |-> "next"]
    /\ popped' = planned'
    /\ validated' = <<>>
    /\ ran' = {}
    /\ UNCHANGED <<expected, invocations>>

-------------------------------------------------------------------------------
(* execCmd, called by step t *)

At(t, place) == ~died /\ pc[t] = place

Goto(t, place) == pc' = [pc EXCEPT ![t] = place]

Current(t) == Head(script[t])

Advance(t) == script' = [script EXCEPT ![t] = Tail(@)]

HasMore(t) == At(t, "next") /\ script[t] # <<>>

Inherits(t) == Current(t).from = "called"

\* The command is run for real.
ReallyRun(t) ==
    /\ ran' = ran \cup {Current(t)}
    /\ Advance(t)
    /\ UNCHANGED <<test, expected, invocations, pc, popped, validated, died>>

\* The job of a config source has an empty matcher of its own.
RunForConfig(t) == HasMore(t) /\ ~Inherits(t) /\ ReallyRun(t)

\* Mutant of RunUnmatched: the invocation count is not looked at.
RunUnmatchedAlways(t) ==
    /\ HasMore(t)
    /\ Inherits(t)
    /\ expected = <<>>
    /\ ReallyRun(t)

RunUnmatched(t) ==
    /\ HasMore(t)
    /\ Inherits(t)
    /\ expected = <<>>
    /\ invocations = 0
    /\ ReallyRun(t)

RejectExtra(t) ==
    /\ HasMore(t)
    /\ Inherits(t)
    /\ expected = <<>>
    /\ invocations > 0
    /\ Goto(t, "failed")
    /\ UNCHANGED <<test, expected, invocations, script, popped, validated,
                   ran, died>>

Count(t) ==
    /\ HasMore(t)
    /\ Inherits(t)
    /\ expected # <<>>
    /\ invocations' = invocations + 1
    /\ Goto(t, "match")
    /\ UNCHANGED <<test, expected, script, popped, validated, ran, died>>

\* expectedExecs[0], which another step may have popped since: a panic.
Match(t) ==
    /\ At(t, "match")
    /\ died' = (expected = <<>>)
    /\ Goto(t, IF ~died' /\ Head(expected) = Current(t).cmd
               THEN "pop" ELSE "failed")
    /\ UNCHANGED <<test, expected, invocations, script, popped, validated,
                   ran>>

\* expectedExecs[1:] of an empty slice is a panic too.
Pop(t) ==
    /\ At(t, "pop")
    /\ died' = (expected = <<>>)
    /\ popped' = [popped EXCEPT ![t] = expected]
    /\ Goto(t, "store")
    /\ UNCHANGED <<test, expected, invocations, script, validated, ran>>

\* Mutant of StorePopped: the expectation that was met stays.
StoreKept(t) ==
    /\ At(t, "store")
    /\ validated' = Append(validated, Current(t).cmd)
    /\ Advance(t)
    /\ Goto(t, "next")
    /\ UNCHANGED <<test, expected, invocations, popped, ran, died>>

StorePopped(t) ==
    /\ At(t, "store")
    /\ expected' = Tail(popped[t])
    /\ validated' = Append(validated, Current(t).cmd)
    /\ Advance(t)
    /\ Goto(t, "next")
    /\ UNCHANGED <<test, invocations, popped, ran, died>>

-------------------------------------------------------------------------------
ExecCmd(t) ==
    \/ RunForConfig(t)
    \/ RunUnmatched(t)
    \/ RejectExtra(t)
    \/ Count(t)
    \/ Match(t)
    \/ Pop(t)
    \/ StorePopped(t)

\* execJobSteps has waited for all of its steps.
Over == \A t \in Threads : pc[t] = "failed" \/ (pc[t] = "next" /\ script[t] = <<>>)

-------------------------------------------------------------------------------
(* Properties *)

\* "If we have one ore more pending exec expectations, never run the actual
\* command", as far as it holds: in a test with expectations, the jobs that inherit the
\* matcher execute nothing for real, before or after the last expectation is
\* met, and however their checks interleave.
MockedWhenInherited ==
    initial # <<>> => \A e \in ran : e.from = "config"

\* "Pop the successful command expectation so that on next execCmd call, we
\* can use expectedExecs[0] as the next expectation to be checked": the
\* commands that were validated are the expectations that are gone.
EachExpectationMetOnce ==
    ~died => validated \o expected = initial

\* What holds of it: steps that run one after the other, and so execute their
\* commands as one, meet the expectations one by one and never panic.
MetOnceByOneStep ==
    Cardinality(steps) = 1 => ~died /\ EachExpectationMetOnce
===============================================================================
