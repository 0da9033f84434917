----------------------------- MODULE StepWorkflow -----------------------------
(***************************************************************************)
(* What a job made of steps promises, whatever machinery runs it.          *)
(*                                                                         *)
(* A job declares steps.  Each step names the steps it needs.  The job     *)
(* runs its steps, at most `concurrency' of them at a time, each one after *)
(* all the steps it needs have succeeded.  Once a step has failed no other *)
(* one begins.  The job answers once: with success when every step has     *)
(* succeeded, with an error otherwise, and never while a step still runs.  *)
(* The process that runs the job may die before it answers.                *)
(*                                                                         *)
(* JobSteps implements this specification.                                 *)
(***************************************************************************)
EXTENDS Naturals, FiniteSets

CONSTANTS
    Steps,          \* the steps the job declares
    Undeclared      \* a name in a `need' list that no step of the job has

VARIABLES
    needs,          \* [Steps -> SUBSET (Steps \cup {Undeclared})], fixed
    concurrency,    \* how many steps may run at the same time, fixed
    status,         \* [Steps -> {"pending", "running", "ok", "failed", "cancelled"}]
    answer          \* "none" | "ok" | "error" | "died"

vars == <<needs, concurrency, status, answer>>

Status == {"pending", "running", "ok", "failed", "cancelled"}

Answer == {"none", "ok", "error", "died"}

With(x) == {s \in Steps : status[s] = x}

Init ==
    /\ needs \in [Steps -> SUBSET (Steps \cup {Undeclared})]
    /\ concurrency \in Nat \ {0}
    /\ status = [s \in Steps |-> "pending"]
    /\ answer = "none"

Begin(s) ==
    /\ answer = "none"
    /\ status[s] = "pending"
    /\ needs[s] \subseteq With("ok")
    /\ With("failed") = {}
    /\ Cardinality(With("running")) < concurrency
    /\ status' = [status EXCEPT ![s] = "running"]
    /\ UNCHANGED <<needs, concurrency, answer>>

End(s) ==
    /\ answer = "none"
    /\ status[s] = "running"
    /\ \E r \in {"ok", "failed"} : status' = [status EXCEPT ![s] = r]
    /\ UNCHANGED <<needs, concurrency, answer>>

\* A step that was next in line when another one failed is cancelled.
Cancel(s) ==
    /\ answer = "none"
    /\ status[s] = "pending"
    /\ needs[s] \subseteq With("ok")
    /\ With("failed") # {}
    /\ status' = [status EXCEPT ![s] = "cancelled"]
    /\ UNCHANGED <<needs, concurrency, answer>>

AnswerOk ==
    /\ answer = "none"
    /\ With("ok") = Steps
    /\ answer' = "ok"
    /\ UNCHANGED <<needs, concurrency, status>>

\* The job answers with an error after a step failed, or, before any step
\* has begun, because its needs cannot be ordered.
AnswerError ==
    /\ answer = "none"
    /\ With("running") = {}
    /\ \/ With("failed") # {}
       \/ With("pending") = Steps /\ Steps # {}
    /\ answer' = "error"
    /\ UNCHANGED <<needs, concurrency, status>>

Die ==
    /\ answer = "none"
    /\ answer' = "died"
    /\ UNCHANGED <<needs, concurrency, status>>

Next ==
    \/ \E s \in Steps : Begin(s) \/ End(s) \/ Cancel(s)
    \/ AnswerOk
    \/ AnswerError
    \/ Die

Spec == Init /\ [][Next]_vars
===============================================================================
