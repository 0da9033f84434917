------------------------------- MODULE JobSteps -------------------------------
(***************************************************************************)
(* How a job runs its `step' blocks: execJobSteps of pkg/app/app.go, with  *)
(* runJobAndUpdateContext, which every step calls.                         *)
(*                                                                         *)
(* The steps are sorted into waves by their needs.  A wave's steps are     *)
(* handed over an unbuffered channel to `concurrency' fresh goroutines,    *)
(* which share four things with the goroutine that dispatches them:        *)
(*   - the hcl variables of the job (Variables["run"], Variables["step"]), *)
(*     written under the mutex m and read, while a step's arguments are    *)
(*     evaluated, under no lock;                                           *)
(*   - the results array rs and the flag `cancelled', under the mutex rsm; *)
(*   - the wait group wg.                                                  *)
(* Steps are numbered in the order of their definition.                    *)
(*                                                                         *)
(* A section guarded by rsm does nothing but the access it guards, so it   *)
(* is one action.  A read or a write of the variables takes two actions,   *)
(* its begin and its end, so that two accesses can overlap.                *)
(***************************************************************************)
EXTENDS Naturals, FiniteSets

CONSTANTS
    NumSteps,         \* the job's steps are 1..NumSteps
    MaxConcurrency,   \* bound on the `concurrency' attribute
    NeedsChoices      \* the `need' attributes that are explored

Steps == 1..NumSteps

\* A name in a need list that is no step of the job.
Undeclared == 0

\* An idle worker; a mutex nobody holds.
Idle == 0
Free == 0

ASSUME NumStepsAssumption == NumSteps \in Nat
ASSUME MaxConcurrencyAssumption == MaxConcurrency \in Nat
ASSUME NeedsAssumption ==
    NeedsChoices \subseteq [Steps -> SUBSET (Steps \cup {Undeclared})]

VARIABLES
    needs,         \* the steps each step needs; never changes
    concurrency,   \* the job's concurrency; never changes
    phase,         \* where the dispatching goroutine is
    ret,           \* what execJobSteps returned
    finished,      \* the steps of the waves that are over
    wave,          \* the steps of the current wave
    wg,            \* the steps added to the wait group and not yet done
    work,          \* the step each goroutine of the wave's pool is executing
    pc,            \* how far each step's closure is
    outcome,       \* whether the step's f succeeds, once it is known
    rs,            \* the results array of the wave
    cancelled,     \* the wave's cancellation flag
    mutex,         \* the step whose closure holds m
    stepVar        \* the steps whose results are in Variables["step"]

inputs == <<needs, concurrency>>
dispatcher == <<phase, ret, finished, wave>>
vars == <<needs, concurrency, phase, ret, finished, wave, wg, work, pc,
          outcome, rs, cancelled, mutex, stepVar>>

Workers == 1..concurrency

-------------------------------------------------------------------------------
\* Where a step's closure is.

Reading == {"eval"}                 \* evaluating the arguments of the run block
Writing == {"inRun", "inStep"}      \* inside a section guarded by m

\* Past the cancellation check, result not yet recorded.
Started == {"eval", "job", "setRun", "inRun", "setStep", "inStep", "toRecord"}

\* In the hands of a goroutine of the pool.
InFlight == {"sent", "recorded"} \cup Started

Places == {"unsent", "done"} \cup InFlight

Phases == {"plan", "wave", "feed", "send", "returned", "died"}

Results == {"none", "ok", "err", "cancelled"}

TypeOK ==
    /\ needs \in [Steps -> SUBSET (Steps \cup {Undeclared})]
    /\ concurrency \in 1..MaxConcurrency
    /\ phase \in Phases
    /\ ret \in {"none", "ok", "error"}
    /\ finished \subseteq Steps
    /\ wave \subseteq Steps
    /\ wg \subseteq wave
    /\ work \in [Workers -> Steps \cup {Idle}]
    /\ pc \in [Steps -> Places]
    /\ outcome \in [Steps -> {"none", "ok", "err"}]
    /\ rs \in [Steps -> Results]
    /\ cancelled \in BOOLEAN
    /\ mutex \in Steps \cup {Free}
    /\ stepVar \subseteq Steps

-------------------------------------------------------------------------------
\* A concurrency below 1 is an error before any step is looked at.
Init ==
    /\ needs \in NeedsChoices
    /\ concurrency \in 1..MaxConcurrency
    /\ phase = "plan"
    /\ ret = "none"
    /\ finished = {}
    /\ wave = {}
    /\ wg = {}
    /\ work = [w \in Workers |-> Idle]
    /\ pc = [s \in Steps |-> "unsent"]
    /\ outcome = [s \in Steps |-> "none"]
    /\ rs = [s \in Steps |-> "none"]
    /\ cancelled = FALSE
    /\ mutex = Free
    /\ stepVar = {}

-------------------------------------------------------------------------------
(* The dispatching goroutine *)

\* The dag library sorts the steps, or reports a cycle or an undeclared name:
\* some set of steps each of which waits for the set itself or for nothing real.
Plannable ==
    \A S \in (SUBSET Steps) \ {{}} : \E s \in S : needs[s] \subseteq Steps \ S

\* The next group of the sorted steps.
Ready == {s \in Steps \ finished : needs[s] \subseteq finished}

Plan ==
    /\ phase = "plan"
    /\ IF Plannable
       THEN /\ phase' = "wave"
            /\ UNCHANGED ret
       ELSE /\ phase' = "returned"
            /\ ret' = "error"
    /\ UNCHANGED <<inputs, finished, wave, wg, work, pc, outcome, rs,
                   cancelled, mutex, stepVar>>

\* Every wave has its own channel, goroutines, results and cancellation flag.
\* The goroutines of an earlier wave wait on a channel nobody sends to again.
BeginWave ==
    /\ phase = "wave"
    /\ Ready # {}
    /\ phase' = "feed"
    /\ wave' = Ready
    /\ work' = [w \in Workers |-> Idle]
    /\ rs' = [s \in Steps |-> "none"]
    /\ cancelled' = FALSE
    /\ UNCHANGED <<inputs, ret, finished, wg, pc, outcome, mutex, stepVar>>

\* wave is never empty when it is read: rs has one entry for each of its steps.
ReturnOk ==
    /\ phase = "wave"
    /\ Ready = {}
    /\ phase' = "returned"
    /\ ret' = "ok"
    /\ UNCHANGED <<inputs, finished, wave, wg, work, pc, outcome, rs,
                   cancelled, mutex, stepVar>>

Unsent == {s \in wave : pc[s] = "unsent"}

\* Mutant of IsNext: the ids of a wave are not sorted.
IsNextUnsorted(s) == s \in Unsent /\ \A t \in Unsent : s >= t

IsNext(s) == s \in Unsent /\ \A t \in Unsent : s <= t

\* Mutant of AddToGroup: wg.Add is left out.
AddToGroupNever(s) ==
    /\ phase = "feed"
    /\ IsNext(s)
    /\ phase' = "send"
    /\ UNCHANGED <<inputs, ret, finished, wave, wg, work, pc, outcome, rs,
                   cancelled, mutex, stepVar>>

\* wg.Add(1) comes before the send, which waits for an idle goroutine.
AddToGroup(s) ==
    /\ phase = "feed"
    /\ IsNext(s)
    /\ wg' = wg \cup {s}
    /\ phase' = "send"
    /\ UNCHANGED <<inputs, ret, finished, wave, work, pc, outcome, rs,
                   cancelled, mutex, stepVar>>

HandOver(w, s) ==
    /\ phase = "send"
    /\ IsNext(s)
    /\ work[w] = Idle
    /\ work' = [work EXCEPT ![w] = s]
    /\ pc' = [pc EXCEPT ![s] = "sent"]
    /\ phase' = "feed"
    /\ UNCHANGED <<inputs, ret, finished, wave, wg, outcome, rs, cancelled,
                   mutex, stepVar>>

\* Mutant of EndWave: wg.Wait is left out.
EndWaveAtOnce ==
    /\ phase = "feed"
    /\ Unsent = {}
    /\ phase' = "wave"
    /\ finished' = finished \cup wave
    /\ UNCHANGED <<inputs, ret, wave, wg, work, pc, outcome, rs, cancelled,
                   mutex, stepVar>>

\* Mutant of EndWave: only the last result of the wave is looked at.
EndWaveLastOnly ==
    /\ phase = "feed"
    /\ Unsent = {}
    /\ wg = {}
    /\ IF \E s \in wave : rs[s] = "err" /\ \A t \in wave : t <= s
       THEN /\ phase' = "returned"
            /\ ret' = "error"
            /\ UNCHANGED finished
       ELSE /\ phase' = "wave"
            /\ finished' = finished \cup wave
            /\ UNCHANGED ret
    /\ UNCHANGED <<inputs, wave, wg, work, pc, outcome, rs, cancelled, mutex,
                   stepVar>>

\* wg.Wait(), then the errors of the wave are collected.
EndWave ==
    /\ phase = "feed"
    /\ Unsent = {}
    /\ wg = {}
    /\ IF \E s \in wave : rs[s] = "err"
       THEN /\ phase' = "returned"
            /\ ret' = "error"
            /\ UNCHANGED finished
       ELSE /\ phase' = "wave"
            /\ finished' = finished \cup wave
            /\ UNCHANGED ret
    /\ UNCHANGED <<inputs, wave, wg, work, pc, outcome, rs, cancelled, mutex,
                   stepVar>>

-------------------------------------------------------------------------------
(* The closure of step s, executed by goroutine w *)

At(w, s, place) == phase # "died" /\ work[w] = s /\ pc[s] = place

Goto(s, place) == pc' = [pc EXCEPT ![s] = place]

\* Mutant of SkipCancelled: the early return skips wg.Done.
SkipCancelledForever(w, s) ==
    /\ At(w, s, "sent")
    /\ cancelled
    /\ rs' = [rs EXCEPT ![s] = "cancelled"]
    /\ Goto(s, "done")
    /\ UNCHANGED <<inputs, dispatcher, wg, work, outcome, cancelled, mutex,
                   stepVar>>

SkipCancelled(w, s) ==
    /\ At(w, s, "sent")
    /\ cancelled
    /\ rs' = [rs EXCEPT ![s] = "cancelled"]
    /\ Goto(s, "recorded")
    /\ UNCHANGED <<inputs, dispatcher, wg, work, outcome, cancelled, mutex,
                   stepVar>>

\* Mutant of BeginRead: the cancellation flag is not looked at.
BeginReadUnchecked(w, s) ==
    /\ At(w, s, "sent")
    /\ Goto(s, "eval")
    /\ UNCHANGED <<inputs, dispatcher, wg, work, outcome, rs, cancelled,
                   mutex, stepVar>>

\* The arguments of the run block are evaluated: the variables are read.
BeginRead(w, s) ==
    /\ At(w, s, "sent")
    /\ ~cancelled
    /\ Goto(s, "eval")
    /\ UNCHANGED <<inputs, dispatcher, wg, work, outcome, rs, cancelled,
                   mutex, stepVar>>

EndRead(w, s) ==
    /\ At(w, s, "eval")
    /\ Goto(s, "job")
    /\ UNCHANGED <<inputs, dispatcher, wg, work, outcome, rs, cancelled, mutex,
                   stepVar>>

\* An argument that cannot be evaluated fails the step like its job would.
FailRead(w, s) ==
    /\ At(w, s, "eval")
    /\ outcome' = [outcome EXCEPT ![s] = "err"]
    /\ Goto(s, "setRun")
    /\ UNCHANGED <<inputs, dispatcher, wg, work, rs, cancelled, mutex, stepVar>>

\* The job the step names runs, and succeeds or fails.
RunJob(w, s) ==
    /\ At(w, s, "job")
    /\ \E o \in {"ok", "err"} : outcome' = [outcome EXCEPT ![s] = o]
    /\ Goto(s, "setRun")
    /\ UNCHANGED <<inputs, dispatcher, wg, work, rs, cancelled, mutex, stepVar>>

\* Variables["run"] is set whatever the outcome,
BeginSetRun(w, s) ==
    /\ At(w, s, "setRun")
    /\ mutex = Free
    /\ mutex' = s
    /\ Goto(s, "inRun")
    /\ UNCHANGED <<inputs, dispatcher, wg, work, outcome, rs, cancelled, stepVar>>

EndSetRun(w, s) ==
    /\ At(w, s, "inRun")
    /\ mutex' = Free
    /\ Goto(s, IF outcome[s] = "ok" THEN "setStep" ELSE "toRecord")
    /\ UNCHANGED <<inputs, dispatcher, wg, work, outcome, rs, cancelled, stepVar>>

\* and Variables["step"] gains the result of a step that succeeded.
BeginSetStep(w, s) ==
    /\ At(w, s, "setStep")
    /\ mutex = Free
    /\ mutex' = s
    /\ Goto(s, "inStep")
    /\ UNCHANGED <<inputs, dispatcher, wg, work, outcome, rs, cancelled, stepVar>>

EndSetStep(w, s) ==
    /\ At(w, s, "inStep")
    /\ mutex' = Free
    /\ stepVar' = stepVar \cup {s}
    /\ Goto(s, "toRecord")
    /\ UNCHANGED <<inputs, dispatcher, wg, work, outcome, rs, cancelled>>

Record(w, s) ==
    /\ At(w, s, "toRecord")
    /\ rs' = [rs EXCEPT ![s] = outcome[s]]
    /\ cancelled' = (cancelled \/ outcome[s] = "err")
    /\ Goto(s, "recorded")
    /\ UNCHANGED <<inputs, dispatcher, wg, work, outcome, mutex, stepVar>>

\* The deferred wg.Done(); the goroutine goes back to the channel.
Done(w, s) ==
    /\ At(w, s, "recorded")
    /\ wg' = wg \ {s}
    /\ work' = [work EXCEPT ![w] = Idle]
    /\ Goto(s, "done")
    /\ UNCHANGED <<inputs, dispatcher, outcome, rs, cancelled, mutex, stepVar>>

-------------------------------------------------------------------------------
\* Variables is a Go map: a read that overlaps a write may go unnoticed, or
\* the runtime stops the process ("concurrent map read and map write").
MapRace ==
    /\ \E s \in Steps : pc[s] \in Reading
    /\ \E s \in Steps : pc[s] \in Writing

Die ==
    /\ phase # "died"
    /\ MapRace
    /\ phase' = "died"
    /\ UNCHANGED <<inputs, ret, finished, wave, wg, work, pc, outcome, rs,
                   cancelled, mutex, stepVar>>

Dispatch ==
    \/ Plan
    \/ BeginWave
    \/ ReturnOk
    \/ \E s \in Steps : AddToGroup(s)
    \/ \E w \in Workers, s \in Steps : HandOver(w, s)
    \/ EndWave

Execute(w) ==
    \E s \in Steps :
        \/ SkipCancelled(w, s)
        \/ BeginRead(w, s)
        \/ EndRead(w, s)
        \/ FailRead(w, s)
        \/ RunJob(w, s)
        \/ BeginSetRun(w, s)
        \/ EndSetRun(w, s)
        \/ BeginSetStep(w, s)
        \/ EndSetStep(w, s)
        \/ Record(w, s)
        \/ Done(w, s)

Over == phase \in {"returned", "died"}

Stop == Over /\ UNCHANGED vars

Next ==
    \/ Dispatch
    \/ \E w \in Workers : Execute(w)
    \/ Die
    \/ Stop

Spec == Init /\ [][Next]_vars

\* The Go scheduler runs every goroutine that can run, and every job a step
\* runs comes to an end.
Fairness ==
    /\ WF_vars(Dispatch)
    /\ \A w \in 1..MaxConcurrency : WF_vars(w \in Workers /\ Execute(w))

FairSpec == Spec /\ Fairness

-------------------------------------------------------------------------------
(* Properties *)

\* A step is past its cancellation check, so its arguments are evaluated and
\* its job runs, only when every step it needs has succeeded and has its
\* result in the `step' variable the arguments refer to.
NeedsSatisfied ==
    \A s \in Steps : pc[s] \in Started =>
        \A t \in needs[s] : t \in stepVar /\ outcome[t] = "ok"

\* When execJobSteps has returned, no goroutine still executes a step, and
\* none can: what the caller reads is final.
QuietAfterReturn ==
    phase = "returned" =>
        /\ wg = {}
        /\ \A s \in Steps : pc[s] \notin InFlight

\* execJobSteps succeeds only if every step ran and succeeded, and fails only
\* if some step failed or the needs cannot be ordered.  An error of a step is
\* never lost among the waves and the other steps' results.
FaithfulReturn ==
    /\ ret = "ok" => \A s \in Steps : outcome[s] = "ok" /\ s \in stepVar
    /\ ret = "error" =>
        \/ \E s \in Steps : outcome[s] = "err"
        \/ ~Plannable

\* "Preserve the order of definitions": with a concurrency of one the steps
\* of a wave run one after the other in the order the job defines them.
SequentialInOrder ==
    concurrency = 1 =>
        \A s, t \in wave : s < t /\ pc[t] # "unsent" => pc[s] = "done"

\* The `concurrency' example runs its two steps with a concurrency of two and
\* expects no error: a job whose steps' jobs all succeed survives their being
\* run concurrently.
SurvivesConcurrency ==
    phase = "died" => \E s \in Steps : outcome[s] = "err"

\* The steps run to an end: no goroutine waits forever for the channel, the
\* wait group or one of the mutexes.
Termination == <>Over

-------------------------------------------------------------------------------
\* The abstract status of a step.
StatusOf(s) ==
    CASE s \in finished \/ rs[s] = "ok" -> "ok"
      [] s \notin finished /\ rs[s] = "err" -> "failed"
      [] s \notin finished /\ rs[s] = "cancelled" -> "cancelled"
      [] s \notin finished /\ rs[s] = "none" ->
            IF pc[s] \in Started THEN "running" ELSE "pending"

Answer ==
    IF phase = "died" THEN "died" ELSE ret

Workflow == INSTANCE StepWorkflow WITH
    status <- [s \in Steps |-> StatusOf(s)],
    answer <- Answer

\* The dispatcher, its waves, channels and locks implement the workflow: needs,
\* the concurrency limit, no step begun after a failure is recorded, one answer.
ImplementsWorkflow == Workflow!Spec
===============================================================================
