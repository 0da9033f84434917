------------------------------- MODULE EventLog -------------------------------
(***************************************************************************)
(* The event logger of pkg/app/log.go, shared by every job that runs under *)
(* one top-level job, and the log collectors of the jobs with a `log'      *)
(* block: app.Job registers one before the job's steps and unregisters it, *)
(* in a defer, when the job has run.                                       *)
(*                                                                         *)
(* The jobs of this module run concurrently, each as a step of the same    *)
(* wave of one job.  Each logs NumEvents events ("run" and "exec" alike)   *)
(* and collects the events that are logged while its collector is          *)
(* registered, those of the other jobs too.                                *)
(*                                                                         *)
(* Register takes the next index under no lock; the collectors map is      *)
(* guarded by collectorsMutex, which is held during a whole delivery; the  *)
(* lines a collector has gathered are written to its file under no lock.   *)
(***************************************************************************)
EXTENDS Naturals, SequencesExt

CONSTANTS
    Jobs,        \* the jobs with a log block
    NumEvents,   \* bound on the events a job logs
    Nobody,      \* the value of an unused collector index, of a free mutex
    Torn         \* what a read that overlaps a write of the same slice gives

ASSUME NumEventsAssumption == NumEvents \in Nat
ASSUME NobodyAssumption == Nobody \notin Jobs

VARIABLES
    pc,           \* where each job is
    id,           \* the index Register computed for the job's collector
    lastIndex,    \* the last index given out
    collectors,   \* the collectors map: index -> the job that collects
    events,       \* the events of the logger, oldest first
    logged,       \* how many events each job has logged
    holder,       \* the job whose append holds collectorsMutex
    todo,         \* the indexes the delivery in progress has not visited
    lines,        \* the events each collector has gathered
    file,         \* what was written to each job's log file
    failed,       \* the jobs one of whose appends returned an error
    died          \* whether the process panicked

vars == <<pc, id, lastIndex, collectors, events, logged, holder, todo, lines,
          file, failed, died>>

Event == Jobs \X (1..NumEvents)

Registered == DOMAIN collectors

Places == {"start", "indexed", "inserting", "running", "appended",
           "delivering", "closing", "forwarding", "deleting", "done"}

TypeOK ==
    /\ pc \in [Jobs -> Places]
    /\ id \in [Jobs -> Nat]
    /\ lastIndex \in Nat
    /\ Registered \subseteq {id[j] : j \in Jobs}
    /\ \A i \in Registered : collectors[i] \in Jobs
    /\ events \in Seq(Event)
    /\ logged \in [Jobs -> 0..NumEvents]
    /\ holder \in Jobs \cup {Nobody}
    /\ todo \subseteq Registered
    /\ lines \in [Jobs -> Seq(Event)]
    /\ file \in [Jobs -> {Torn} \cup Seq(Event)]
    /\ failed \subseteq Jobs
    /\ died \in BOOLEAN

Init ==
    /\ pc = [j \in Jobs |-> "start"]
    /\ id = [j \in Jobs |-> 0]
    /\ lastIndex = 0
    /\ collectors = <<>>
    /\ events = <<>>
    /\ logged = [j \in Jobs |-> 0]
    /\ holder = Nobody
    /\ todo = {}
    /\ lines = [j \in Jobs |-> <<>>]
    /\ file = [j \in Jobs |-> <<>>]
    /\ failed = {}
    /\ died = FALSE

-------------------------------------------------------------------------------
(* Register: the index is read, then written, then used under the mutex *)

Goto(j, place) == pc' = [pc EXCEPT ![j] = place]

At(j, place) == ~died /\ pc[j] = place

ReadIndex(j) ==
    /\ At(j, "start")
    /\ id' = [id EXCEPT ![j] = lastIndex + 1]
    /\ Goto(j, "indexed")
    /\ UNCHANGED <<lastIndex, collectors, events, logged, holder, todo, lines,
                   file, failed, died>>

WriteIndex(j) ==
    /\ At(j, "indexed")
    /\ lastIndex' = id[j]
    /\ Goto(j, "inserting")
    /\ UNCHANGED <<id, collectors, events, logged, holder, todo, lines, file,
                   failed, died>>

Insert(j) ==
    /\ At(j, "inserting")
    /\ holder = Nobody
    /\ collectors' = [i \in Registered \cup {id[j]} |->
                          IF i = id[j] THEN j ELSE collectors[i]]
    /\ Goto(j, "running")
    /\ UNCHANGED <<id, lastIndex, events, logged, holder, todo, lines, file,
                   failed, died>>

-------------------------------------------------------------------------------
(* append: the event is stored under one mutex, delivered under another *)

Store(j) ==
    /\ At(j, "running")
    /\ logged[j] < NumEvents
    /\ logged' = [logged EXCEPT ![j] = @ + 1]
    /\ events' = Append(events, <<j, logged'[j]>>)
    /\ Goto(j, "appended")
    /\ UNCHANGED <<id, lastIndex, collectors, holder, todo, lines, file,
                   failed, died>>

\* Mutant of BeginDelivery: collectorsMutex is not waited for.
BeginDeliveryUnlocked(j) ==
    /\ At(j, "appended")
    /\ holder' = j
    /\ todo' = Registered
    /\ Goto(j, "delivering")
    /\ UNCHANGED <<id, lastIndex, collectors, events, logged, lines, file,
                   failed, died>>

BeginDelivery(j) ==
    /\ At(j, "appended")
    /\ holder = Nobody
    /\ holder' = j
    /\ todo' = Registered
    /\ Goto(j, "delivering")
    /\ UNCHANGED <<id, lastIndex, collectors, events, logged, lines, file,
                   failed, died>>

\* The collectors are visited in no particular order.
Visit(j) ==
    /\ At(j, "delivering")
    /\ \E i \in todo :
        /\ lines' = [lines EXCEPT ![collectors[i]] =
                        Append(@, <<j, logged[j]>>)]
        /\ todo' = todo \ {i}
    /\ UNCHANGED <<pc, id, lastIndex, collectors, events, logged, holder, file,
                   failed, died>>

\* Mutant of VisitFails: the error path keeps collectorsMutex.
VisitFailsLocked(j) ==
    /\ At(j, "delivering")
    /\ todo # {}
    /\ todo' = {}
    /\ failed' = failed \cup {j}
    /\ Goto(j, "closing")
    /\ UNCHANGED <<id, lastIndex, collectors, events, logged, holder, lines,
                   file, died>>

\* The first collector whose condition or format cannot be evaluated ends the
\* delivery: the other collectors miss the event and the job that logged it,
\* whosever the collector is, fails.
VisitFails(j) ==
    /\ At(j, "delivering")
    /\ todo # {}
    /\ todo' = {}
    /\ holder' = Nobody
    /\ failed' = failed \cup {j}
    /\ Goto(j, "closing")
    /\ UNCHANGED <<id, lastIndex, collectors, events, logged, lines, file, died>>

EndDelivery(j) ==
    /\ At(j, "delivering")
    /\ todo = {}
    /\ holder' = Nobody
    /\ Goto(j, "running")
    /\ UNCHANGED <<id, lastIndex, collectors, events, logged, todo, lines, file,
                   failed, died>>

Finish(j) ==
    /\ At(j, "running")
    /\ Goto(j, "closing")
    /\ UNCHANGED <<id, lastIndex, collectors, events, logged, holder, todo,
                   lines, file, failed, died>>

-------------------------------------------------------------------------------
(* The function Register returned, deferred by the job *)

\* A delivery is about to append to the lines of job j.
BeingAppended(j) == \E i \in todo : collectors[i] = j

WriteFile(j) ==
    /\ At(j, "closing")
    /\ \E content \in {lines[j]} \cup (IF BeingAppended(j) THEN {Torn} ELSE {}) :
           file' = [file EXCEPT ![j] = content]
    /\ Goto(j, "forwarding")
    /\ UNCHANGED <<id, lastIndex, collectors, events, logged, holder, todo,
                   lines, failed, died>>

\* Mutant of Forward: nothing deletes the collector.
ForwardOnly(j) ==
    /\ At(j, "forwarding")
    /\ Goto(j, "done")
    /\ UNCHANGED <<id, lastIndex, collectors, events, logged, holder, todo,
                   lines, file, failed, died>>

\* The forward blocks run jobs with a logger of their own.
Forward(j) ==
    /\ At(j, "forwarding")
    /\ Goto(j, "deleting")
    /\ UNCHANGED <<id, lastIndex, collectors, events, logged, holder, todo,
                   lines, file, failed, died>>

\* Mutant of Delete: the last collector to be registered is deleted.
DeleteLast(j) ==
    /\ At(j, "deleting")
    /\ holder = Nobody
    /\ collectors' = Restrict(collectors, Registered \ {lastIndex})
    /\ Goto(j, "done")
    /\ UNCHANGED <<id, lastIndex, events, logged, holder, todo, lines, file,
                   failed, died>>

\* The deferred delete.
Delete(j) ==
    /\ At(j, "deleting")
    /\ holder = Nobody
    /\ collectors' = Restrict(collectors, Registered \ {id[j]})
    /\ Goto(j, "done")
    /\ UNCHANGED <<id, lastIndex, events, logged, holder, todo, lines, file,
                   failed, died>>

\* The file cannot be written or a forward job fails: app.Job panics with the
\* error, which ends the process, whatever the other jobs are doing.
Panic(j) ==
    /\ At(j, "closing") \/ At(j, "forwarding")
    /\ died' = TRUE
    /\ UNCHANGED <<pc, id, lastIndex, collectors, events, logged, holder, todo,
                   lines, file, failed>>

\* ForwardFn sets the `log' variable of the job, with or without forward blocks,
\* while the collector is still registered.  A delivery copies the same
\* variables, a Go map: the runtime may stop the process.
MapRace(j) ==
    /\ At(j, "forwarding")
    /\ BeingAppended(j)
    /\ died' = TRUE
    /\ UNCHANGED <<pc, id, lastIndex, collectors, events, logged, holder, todo,
                   lines, file, failed>>

-------------------------------------------------------------------------------
Step(j) ==
    \/ ReadIndex(j)
    \/ WriteIndex(j)
    \/ Insert(j)
    \/ Store(j)
    \/ BeginDelivery(j)
    \/ Visit(j)
    \/ VisitFails(j)
    \/ EndDelivery(j)
    \/ Finish(j)
    \/ WriteFile(j)
    \/ Forward(j)
    \/ Delete(j)

AllDone == \A j \in Jobs : pc[j] = "done"

Stop == (died \/ AllDone) /\ UNCHANGED vars

Next == (\E j \in Jobs : Step(j) \/ Panic(j) \/ MapRace(j)) \/ Stop

Spec == Init /\ [][Next]_vars

\* Every goroutine that can run does run.  The mutex is taken finitely often,
\* so a goroutine that waits for it can in the end take it and keep able to.
Fairness == \A j \in Jobs : WF_vars(Step(j))

FairSpec == Spec /\ Fairness

-------------------------------------------------------------------------------
(* Properties *)

\* The events of job j in s are those it logged, each once and in its order.
OwnEvents(s, j) ==
    LET own == {p \in DOMAIN s : s[p][1] = j}
    IN  /\ {s[p][2] : p \in own} = 1..logged[j]
        /\ \A p, q \in own : p < q => s[p][2] < s[q][2]

\* "Collecting all the `run` and `exec` that are executed as part of this
\* `job`": a job none of whose appends failed finds in its log file each of
\* the events it logged.
CollectsOwnEvents ==
    \A j \in Jobs :
        pc[j] = "done" /\ j \notin failed /\ file[j] # Torn => OwnEvents(file[j], j)

\* The collector of job j has an index of its own.
Alone(j) == \A k \in Jobs \ {j} : id[k] # id[j]

\* What is left of it when registrations race: the promise is kept for a job
\* whose collector got an index of its own.
CollectsOwnEventsIfAlone ==
    \A j \in Jobs :
        pc[j] = "done" /\ j \notin failed /\ file[j] # Torn /\ Alone(j) =>
            OwnEvents(file[j], j)

\* Deliveries never interleave: two collectors that gathered the same two
\* events gathered them in the same order, and none gathered one twice.
SameOrder ==
    \A j, k \in Jobs :
        \A a, b \in DOMAIN lines[j], c, d \in DOMAIN lines[k] :
            lines[j][a] = lines[k][c] /\ lines[j][b] = lines[k][d] =>
                (a < b <=> c < d)

\* Whatever indexes the registrations got, no collector outlives its job.
NoCollectorLeft == AllDone => Registered = {}

\* Every job gets past its log: none waits forever for the collectors' mutex.
AllJobsEnd == <>(died \/ AllDone)
===============================================================================
