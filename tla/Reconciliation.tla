---------------------------- MODULE Reconciliation ----------------------------
(***************************************************************************)
(* The Kubernetes controller a Variant command can be turned into:         *)
(* pkg/controller.  It runs the on-apply job when a Resource is created or *)
(* updated, the on-destroy job when it is deleted, and then records what   *)
(* it did in a Reconciliation object named after the generation of the     *)
(* Resource.                                                               *)
(*                                                                         *)
(* One Resource is modelled.  The queue, which hands an object to one      *)
(* worker at a time and again after an error, the finalizer, which keeps   *)
(* the object until its handler has succeeded, and the API server are      *)
(* outside the repository: they are modelled from how pkg/controller uses  *)
(* them.  The spec of the Resource is the number of its last update.       *)
(***************************************************************************)
EXTENDS Naturals

CONSTANTS
    MaxGeneration,   \* bound on the generations of the Resource
    MaxFailures      \* bound on failed jobs, failed API calls and restarts

ASSUME MaxGenerationAssumption == MaxGeneration \in Nat \ {0}
ASSUME MaxFailuresAssumption == MaxFailures \in Nat

Generations == 1..MaxGeneration

VARIABLES
    resource,     \* the Resource on the API server
    exists,       \* whether it is there
    queued,       \* whether the queue holds a request for it
    pc,           \* where the controller's worker is
    obj,          \* the object the handler was called with
    st,           \* the object logReconciliation got after the job
    records,      \* the Reconciliation objects, by generation
    destroyed,    \* the spec the last successful on-destroy job ran with
    failures      \* how many calls have failed

vars == <<resource, exists, queued, pc, obj, st, records, destroyed, failures>>

Object == [gen : Generations, spec : Generations, deleting : BOOLEAN]

Jobs == {"apply", "destroy"}

\* A record says which spec was reconciled and holds the logs of a job that
\* ran with some spec.
Record == [spec : Generations, logsOf : Generations, job : Jobs]

TypeOK ==
    /\ resource \in Object
    /\ exists \in BOOLEAN
    /\ queued \in BOOLEAN
    /\ pc \in {"idle", "run", "get", "write", "finalize"}
    /\ obj \in Object
    /\ st \in Object
    /\ DOMAIN records \subseteq Generations
    /\ \A g \in DOMAIN records : records[g] \in Record
    /\ destroyed \in 0..MaxGeneration
    /\ failures \in 0..MaxFailures

FirstVersion == [gen |-> 1, spec |-> 1, deleting |-> FALSE]

Init ==
    /\ resource = FirstVersion
    /\ exists = TRUE
    /\ queued = TRUE
    /\ pc = "idle"
    /\ obj = FirstVersion
    /\ st = FirstVersion
    /\ records = <<>>
    /\ destroyed = 0
    /\ failures = 0

-------------------------------------------------------------------------------
(* The user *)

Update ==
    /\ exists
    /\ resource.gen < MaxGeneration
    /\ resource' = [gen |-> resource.gen + 1, spec |-> resource.spec + 1,
                    deleting |-> resource.deleting]
    /\ queued' = TRUE
    /\ UNCHANGED <<exists, pc, obj, st, records, destroyed, failures>>

\* The object gets a deletion time and a new generation, and stays until its
\* finalizer is removed.
Delete ==
    /\ exists
    /\ ~resource.deleting
    /\ resource.gen < MaxGeneration
    /\ resource' = [gen |-> resource.gen + 1, spec |-> resource.spec, deleting |-> TRUE]
    /\ queued' = TRUE
    /\ UNCHANGED <<exists, pc, obj, st, records, destroyed, failures>>

-------------------------------------------------------------------------------
(* The worker *)

\* Mutant of Take: a retry gets the object as it was first listed.
TakeStale ==
    /\ pc = "idle"
    /\ queued
    /\ exists
    /\ queued' = FALSE
    /\ obj' = IF failures = 0 THEN resource ELSE FirstVersion
    /\ pc' = "run"
    /\ UNCHANGED <<resource, exists, st, records, destroyed, failures>>

\* The request is taken off the queue and the handler called with the object.
Take ==
    /\ pc = "idle"
    /\ queued
    /\ exists
    /\ queued' = FALSE
    /\ obj' = resource
    /\ pc' = "run"
    /\ UNCHANGED <<resource, exists, st, records, destroyed, failures>>

Job(o) == IF o.deleting THEN "destroy" ELSE "apply"

\* do: `variant run' with the spec of the object as the options of the job.
RunJob ==
    /\ pc = "run"
    /\ destroyed' = IF Job(obj) = "destroy" THEN obj.spec ELSE destroyed
    /\ pc' = "get"
    /\ UNCHANGED <<resource, exists, queued, obj, st, records, failures>>

\* Mutant of GetResource: the two objects change places.
GetResourceSwapped ==
    /\ pc = "get"
    /\ exists
    /\ st' = obj
    /\ obj' = resource
    /\ pc' = "write"
    /\ UNCHANGED <<resource, exists, queued, records, destroyed, failures>>

\* logReconciliation reads the Resource again: this is the object whose
\* generation names the record and whose spec it stores.
GetResource ==
    /\ pc = "get"
    /\ exists
    /\ st' = resource
    /\ pc' = "write"
    /\ UNCHANGED <<resource, exists, queued, obj, records, destroyed, failures>>

\* The record of a reconciliation, and its creation or update on the server.
Reconciled == [spec |-> st.spec, logsOf |-> obj.spec, job |-> Job(obj)]

Put(g) == [h \in DOMAIN records \cup {g} |-> IF h = g THEN Reconciled ELSE records[h]]

\* Mutant of WriteRecord: a record that exists is left as it is.
WriteRecordOnce ==
    /\ pc = "write"
    /\ records' = IF st.gen \in DOMAIN records THEN records ELSE Put(st.gen)
    /\ pc' = IF obj.deleting THEN "finalize" ELSE "idle"
    /\ UNCHANGED <<resource, exists, queued, obj, st, destroyed, failures>>

\* Mutant of WriteRecord: the object that was read last decides what is next.
WriteRecordFresh ==
    /\ pc = "write"
    /\ records' = Put(st.gen)
    /\ pc' = IF st.deleting THEN "finalize" ELSE "idle"
    /\ UNCHANGED <<resource, exists, queued, obj, st, destroyed, failures>>

\* The record of that generation is created, or updated if there is one.
WriteRecord ==
    /\ pc = "write"
    /\ records' = Put(st.gen)
    /\ pc' = IF obj.deleting THEN "finalize" ELSE "idle"
    /\ UNCHANGED <<resource, exists, queued, obj, st, destroyed, failures>>

\* The on-destroy handler has succeeded: the finalizer is removed.
Finalize ==
    /\ pc = "finalize"
    /\ exists' = FALSE
    /\ pc' = "idle"
    /\ UNCHANGED <<resource, queued, obj, st, records, destroyed, failures>>

\* The job fails, or a call to the API server does: the handler returns an
\* error and is called again later.  So it is when the controller restarts.
Retry ==
    /\ pc # "idle"
    /\ failures < MaxFailures
    /\ failures' = failures + 1
    /\ queued' = TRUE
    /\ pc' = "idle"
    /\ UNCHANGED <<resource, exists, obj, st, records, destroyed>>

\* The resync period is over.
Resync ==
    /\ exists
    /\ queued' = TRUE
    /\ UNCHANGED <<resource, exists, pc, obj, st, records, destroyed, failures>>

-------------------------------------------------------------------------------
Controller == Take \/ RunJob \/ GetResource \/ WriteRecord \/ Finalize

Gone == ~exists /\ pc = "idle"

Stop == Gone /\ UNCHANGED vars

Next ==
    \/ Update
    \/ Delete
    \/ Controller
    \/ Retry
    \/ Resync
    \/ Stop

Spec == Init /\ [][Next]_vars

\* The controller works on as long as it has something to do, whether or not
\* resyncs come; nothing obliges the user to do anything.
Fairness == WF_vars(Controller)

FairSpec == Spec /\ Fairness

-------------------------------------------------------------------------------
(* Properties *)

\* The Resource goes away only after the on-destroy job has succeeded and its
\* logs are recorded, through every failure, retry and restart.
DestroyedBeforeGone ==
    ~exists =>
        /\ destroyed # 0
        /\ \E g \in DOMAIN records : records[g].job = "destroy"

\* Once an on-destroy job has succeeded no on-apply job brings the stack back.
NoApplyAfterDestroy ==
    destroyed # 0 /\ pc \in {"run", "get", "write"} => Job(obj) = "destroy"

\* The logs filed under a generation are never those of a later spec.
NoLogsFromTheFuture ==
    \A g \in DOMAIN records : records[g].logsOf <= records[g].spec

\* The generation the user left the Resource in is, in the end, recorded with
\* the job that ran for it and its spec, even if a run that straddled the last
\* update filed the wrong logs there first.
EventuallyRecorded ==
    [](resource.gen = MaxGeneration =>
        <>(\/ ~exists
           \/ /\ MaxGeneration \in DOMAIN records
              /\ records[MaxGeneration].logsOf = resource.spec
              /\ records[MaxGeneration].job = Job(resource)))
===============================================================================
