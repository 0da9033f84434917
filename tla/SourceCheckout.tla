---------------------------- MODULE SourceCheckout ----------------------------
(***************************************************************************)
(* How a job fetches its `source' blocks: checkoutSources of               *)
(* pkg/app/source.go.                                                      *)
(*                                                                         *)
(* The calling goroutine sends the sources over an unbuffered channel to   *)
(* `concurrency' workers of an errgroup.  A worker extracts a source and   *)
(* sends the result over another unbuffered channel to a collector, which  *)
(* fills a map.  A worker whose extraction fails stops; the others go on.  *)
(*                                                                         *)
(* The context the errgroup cancels on the first error is one more reason  *)
(* for an extraction to fail: extractions fail here at any time.           *)
(***************************************************************************)
EXTENDS Naturals

CONSTANTS
    NumSources,     \* the job's sources are 1..NumSources, in order
    NumWorkers      \* the job's concurrency

ASSUME NumSourcesAssumption == NumSources \in Nat
ASSUME NumWorkersAssumption == NumWorkers \in Nat \ {0}

Sources == 1..NumSources
Workers == 1..NumWorkers

None == 0

VARIABLES
    main,           \* where the calling goroutine is
    ret,            \* what checkoutSources returned
    next,           \* the source to send next
    worker,         \* where each worker is
    holding,        \* the source each worker is extracting or delivering
    collector,      \* where the collector is
    received,       \* the result the collector has received, not yet added
    results,        \* the sources in the results map
    sourceClosed,   \* whether sourceCh is closed
    resultClosed    \* whether resultCh is closed

vars == <<main, ret, next, worker, holding, collector, received, results,
          sourceClosed, resultClosed>>

MainPlaces == {"client", "send", "waitWorkers", "waitCollector", "returned"}

WorkerPlaces == {"unborn", "recv", "extract", "deliver", "exited", "failed"}

TypeOK ==
    /\ main \in MainPlaces
    /\ ret \in {"none", "ok", "error"}
    /\ next \in 1..(NumSources + 1)
    /\ worker \in [Workers -> WorkerPlaces]
    /\ holding \in [Workers -> Sources \cup {None}]
    /\ collector \in {"unborn", "recv", "add", "exited"}
    /\ received \in Sources \cup {None}
    /\ results \subseteq Sources
    /\ sourceClosed \in BOOLEAN
    /\ resultClosed \in BOOLEAN

Init ==
    /\ main = "client"
    /\ ret = "none"
    /\ next = 1
    /\ worker = [w \in Workers |-> "unborn"]
    /\ holding = [w \in Workers |-> None]
    /\ collector = "unborn"
    /\ received = None
    /\ results = {}
    /\ sourceClosed = FALSE
    /\ resultClosed = FALSE

channels == <<sourceClosed, resultClosed>>

-------------------------------------------------------------------------------
(* The calling goroutine *)

Return(r) == main' = "returned" /\ ret' = r

\* A job without sources is done at once; for the others the client of the
\* source controller may be impossible to create.
ReturnEarly ==
    /\ main = "client"
    /\ Return(IF NumSources = 0 THEN "ok" ELSE "error")
    /\ UNCHANGED <<next, worker, holding, collector, received, results, channels>>

StartWorkers ==
    /\ main = "client"
    /\ NumSources > 0
    /\ main' = "send"
    /\ worker' = [w \in Workers |-> "recv"]
    /\ collector' = "recv"
    /\ UNCHANGED <<ret, next, holding, received, results, channels>>

\* The send and the receive are one step; it waits for an idle worker.
Send(w) ==
    /\ main = "send"
    /\ next <= NumSources
    /\ worker[w] = "recv"
    /\ next' = next + 1
    /\ worker' = [worker EXCEPT ![w] = "extract"]
    /\ holding' = [holding EXCEPT ![w] = next]
    /\ UNCHANGED <<main, ret, collector, received, results, channels>>

\* Mutant of CloseSources: the channel is not closed.
CloseSourcesNot ==
    /\ main = "send"
    /\ next > NumSources
    /\ main' = "waitWorkers"
    /\ UNCHANGED <<ret, next, worker, holding, collector, received, results,
                   channels>>

CloseSources ==
    /\ main = "send"
    /\ next > NumSources
    /\ sourceClosed' = TRUE
    /\ main' = "waitWorkers"
    /\ UNCHANGED <<ret, next, worker, holding, collector, received, results,
                   resultClosed>>

\* Mutant of WaitWorkers: nothing waits for the workers.
WaitWorkersNot ==
    /\ main = "waitWorkers"
    /\ resultClosed' = TRUE
    /\ main' = "waitCollector"
    /\ UNCHANGED <<ret, next, worker, holding, collector, received, results,
                   sourceClosed>>

\* An error leaves the results channel open and the collector waiting.
WaitWorkers ==
    /\ main = "waitWorkers"
    /\ \A w \in Workers : worker[w] \in {"exited", "failed"}
    /\ IF \E w \in Workers : worker[w] = "failed"
       THEN Return("error") /\ UNCHANGED resultClosed
       ELSE /\ resultClosed' = TRUE
            /\ main' = "waitCollector"
            /\ UNCHANGED ret
    /\ UNCHANGED <<next, worker, holding, collector, received, results,
                   sourceClosed>>

\* Mutant of WaitCollector: nothing waits for the collector.
WaitCollectorNot ==
    /\ main = "waitCollector"
    /\ Return("ok")
    /\ UNCHANGED <<next, worker, holding, collector, received, results, channels>>

WaitCollector ==
    /\ main = "waitCollector"
    /\ collector = "exited"
    /\ Return("ok")
    /\ UNCHANGED <<next, worker, holding, collector, received, results, channels>>

-------------------------------------------------------------------------------
(* A worker *)

\* Mutant of Extract: an error is logged and the next source received.
ExtractLogged(w) ==
    /\ worker[w] = "extract"
    /\ \E outcome \in {"deliver", "recv"} :
           worker' = [worker EXCEPT ![w] = outcome]
    /\ UNCHANGED <<main, ret, next, holding, collector, received, results, channels>>

Extract(w) ==
    /\ worker[w] = "extract"
    /\ \E outcome \in {"deliver", "failed"} :
           worker' = [worker EXCEPT ![w] = outcome]
    /\ UNCHANGED <<main, ret, next, holding, collector, received, results, channels>>

Deliver(w) ==
    /\ worker[w] = "deliver"
    /\ collector = "recv"
    /\ ~resultClosed
    /\ received' = holding[w]
    /\ collector' = "add"
    /\ worker' = [worker EXCEPT ![w] = "recv"]
    /\ UNCHANGED <<main, ret, next, holding, results, channels>>

WorkerEnds(w) ==
    /\ worker[w] = "recv"
    /\ sourceClosed
    /\ worker' = [worker EXCEPT ![w] = "exited"]
    /\ UNCHANGED <<main, ret, next, holding, collector, received, results, channels>>

-------------------------------------------------------------------------------
(* The collector *)

Add ==
    /\ collector = "add"
    /\ results' = results \cup {received}
    /\ received' = None
    /\ collector' = "recv"
    /\ UNCHANGED <<main, ret, next, worker, holding, channels>>

CollectorEnds ==
    /\ collector = "recv"
    /\ resultClosed
    /\ collector' = "exited"
    /\ UNCHANGED <<main, ret, next, worker, holding, received, results, channels>>

-------------------------------------------------------------------------------
Main ==
    \/ ReturnEarly
    \/ StartWorkers
    \/ \E w \in Workers : Send(w)
    \/ CloseSources
    \/ WaitWorkers
    \/ WaitCollector

Worker(w) == Extract(w) \/ Deliver(w) \/ WorkerEnds(w)

Collector == Add \/ CollectorEnds

\* Every worker has failed and there are sources left: the send waits forever.
NobodyToSendTo ==
    /\ main = "send"
    /\ next <= NumSources
    /\ \A w \in Workers : worker[w] = "failed"

Stop ==
    /\ main = "returned" \/ NobodyToSendTo
    /\ UNCHANGED vars

Next ==
    \/ Main
    \/ \E w \in Workers : Worker(w)
    \/ Collector
    \/ Stop

Spec == Init /\ [][Next]_vars

\* The scheduler is fair and an extraction ends: the tarball has 30 seconds.
Fairness ==
    /\ WF_vars(Main)
    /\ \A w \in Workers : WF_vars(Worker(w))
    /\ WF_vars(Collector)

FairSpec == Spec /\ Fairness

-------------------------------------------------------------------------------
(* Properties *)

\* A job goes on to its steps with every one of its sources extracted and in
\* the map behind the `source' variable, which nobody writes any more.  So a
\* failed extraction is reported whenever checkoutSources returns.
AllSourcesOnSuccess ==
    ret = "ok" =>
        /\ results = Sources
        /\ collector # "add"

\* Where a source is, for FetchAll.
Status(s) ==
    CASE s >= next -> "waiting"
      [] s < next /\ s \in results -> "fetched"
      [] s < next /\ s \notin results ->
             IF \E w \in Workers : worker[w] = "failed" /\ holding[w] = s
             THEN "lost" ELSE "busy"

Fetching == INSTANCE FetchAll WITH
    status <- [s \in Sources |-> Status(s)],
    answer <- ret

\* Sources, workers, channels and the map make up a FetchAll: no source is
\* handed out twice, is lost once it is in the map or gets into the map of a
\* job that already goes on, and the answer is right.
ImplementsFetchAll == Fetching!Spec

\* No result is sent over the closed channel, which would panic.
NoSendOnClosedChannel ==
    resultClosed => \A w \in Workers : worker[w] # "deliver"

\* checkoutSources returns, unless every one of its workers has failed while
\* it still has a source to send: then the job hangs without an error.
ReturnsUnlessAllWorkersFail == <>(main = "returned" \/ NobodyToSendTo)
===============================================================================
