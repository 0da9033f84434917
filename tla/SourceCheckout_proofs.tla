------------------------- MODULE SourceCheckout_proofs -------------------------
(***************************************************************************)
(* Proofs about SourceCheckout, for any numbers of sources and workers.    *)
(*                                                                         *)
(* The inductive invariant follows a source from hand to hand (Accounted)  *)
(* and says what each `close' call of checkoutSources rests on (Closing).  *)
(***************************************************************************)
EXTENDS SourceCheckout, TLAPS

\* A worker that extracts or delivers has a source, and so has the collector
\* that adds one.
Held ==
    /\ \A w \in Workers : worker[w] \in {"extract", "deliver"} => holding[w] # None
    /\ collector = "add" => received # None

\* A source that was sent is in the map, on its way there, or was lost with the
\* worker that failed to extract it.
Accounted ==
    \A s \in Sources :
        s < next =>
            \/ s \in results
            \/ collector = "add" /\ received = s
            \/ \E w \in Workers :
                  worker[w] \in {"extract", "deliver", "failed"} /\ holding[w] = s

\* What is known where the calling goroutine is, and after each close.
Closing ==
    /\ main = "client" => next = 1
    /\ main = "waitWorkers" => sourceClosed
    /\ main = "waitCollector" => resultClosed
    /\ sourceClosed => next = NumSources + 1
    /\ resultClosed => sourceClosed /\ \A w \in Workers : worker[w] = "exited"
    /\ collector = "exited" => resultClosed
    /\ main \in {"client", "send"} => ~resultClosed
    /\ ret = "ok" => NumSources = 0 \/ collector = "exited"
    /\ ret = "ok" => main = "returned"
    /\ NumSources = 0 => collector = "unborn"

IInv == TypeOK /\ Held /\ Accounted /\ Closing

USE NumSourcesAssumption, NumWorkersAssumption

-------------------------------------------------------------------------------
LEMMA InitHolds == Init => IInv
<1> SUFFICES ASSUME Init PROVE IInv
  OBVIOUS
<1>1. TypeOK
  <2>1. /\ worker \in [Workers -> WorkerPlaces]
        /\ holding \in [Workers -> Sources \cup {None}]
    BY DEF Init, WorkerPlaces
  <2>2. next \in 1..(NumSources + 1) /\ received \in Sources \cup {None}
    BY DEF Init
  <2> QED
    BY <2>1, <2>2 DEF Init, TypeOK, MainPlaces
<1>2. Held /\ Accounted /\ Closing
  BY DEF Init, Held, Accounted, Closing, Sources
<1> QED
  BY <1>1, <1>2 DEF IInv

LEMMA MainKeeps == IInv /\ (ReturnEarly \/ StartWorkers \/ CloseSources) => IInv'
<1> SUFFICES ASSUME IInv, ReturnEarly \/ StartWorkers \/ CloseSources PROVE IInv'
  OBVIOUS
<1> USE DEF IInv
<1>1. CASE ReturnEarly
  <2>1. TypeOK' /\ Held'
    BY <1>1 DEF ReturnEarly, Return, TypeOK, MainPlaces, Held, channels
  <2>2. Accounted' /\ Closing'
    BY <1>1 DEF ReturnEarly, Return, Accounted, Closing, channels
  <2> QED
    BY <2>1, <2>2
<1>2. CASE StartWorkers
  <2>1. TypeOK' /\ Held'
    BY <1>2 DEF StartWorkers, TypeOK, MainPlaces, WorkerPlaces, Held, channels
  <2>2. Accounted'
    BY <1>2 DEF StartWorkers, Closing, Accounted, Sources
  <2>3. Closing'
    BY <1>2 DEF StartWorkers, Closing, channels
  <2> QED
    BY <2>1, <2>2, <2>3
<1>3. CASE CloseSources
  <2>1. next = NumSources + 1
    BY <1>3 DEF CloseSources, TypeOK
  <2>2. TypeOK' /\ Held'
    BY <1>3 DEF CloseSources, TypeOK, MainPlaces, Held
  <2>3. Accounted' /\ Closing'
    BY <1>3, <2>1 DEF CloseSources, Accounted, Closing
  <2> QED
    BY <2>2, <2>3
<1> QED
  BY <1>1, <1>2, <1>3

\* The source that is sent is accounted for by the worker that receives it; the
\* worker's last one was delivered, and is accounted for elsewhere.
LEMMA SendKeeps == ASSUME IInv, NEW w \in Workers, Send(w) PROVE IInv'
<1> USE DEF IInv
<1>1. /\ next \in Sources /\ next' = next + 1
      /\ worker' = [worker EXCEPT ![w] = "extract"]
      /\ holding' = [holding EXCEPT ![w] = next]
      /\ worker[w] = "recv" /\ main = "send"
      /\ worker \in [Workers -> WorkerPlaces]
      /\ holding \in [Workers -> Sources \cup {None}]
      /\ UNCHANGED <<main, ret, collector, received, results, sourceClosed, resultClosed>>
  BY DEF Send, TypeOK, Sources, channels
<1>2. TypeOK'
  BY <1>1 DEF TypeOK, WorkerPlaces, Sources
<1>3. Held'
  BY <1>1 DEF Held, Sources, None
<1>4. Accounted'
  <2> SUFFICES ASSUME NEW s \in Sources, s < next'
               PROVE  \/ s \in results
                      \/ collector = "add" /\ received = s
                      \/ \E v \in Workers : worker'[v] \in {"extract", "deliver", "failed"}
                                            /\ holding'[v] = s
    BY <1>1 DEF Accounted
  <2>1. CASE s = next
    BY <1>1, <2>1
  <2>2. CASE s < next
    BY <1>1, <2>2 DEF Accounted
  <2> QED
    BY <1>1, <2>1, <2>2 DEF Sources
<1>5. Closing'
  BY <1>1 DEF Closing, Sources
<1> QED
  BY <1>2, <1>3, <1>4, <1>5

LEMMA WaitKeeps == IInv /\ (WaitWorkers \/ WaitCollector) => IInv'
<1> SUFFICES ASSUME IInv, WaitWorkers \/ WaitCollector PROVE IInv'
  OBVIOUS
<1> USE DEF IInv
<1>1. CASE WaitWorkers
  <2>1. CASE \E w \in Workers : worker[w] = "failed"
    BY <1>1, <2>1 DEF WaitWorkers, Return, TypeOK, MainPlaces, Held, Accounted, Closing
  <2>2. CASE ~ \E w \in Workers : worker[w] = "failed"
    BY <1>1, <2>2 DEF WaitWorkers, TypeOK, MainPlaces, Held, Accounted, Closing
  <2> QED
    BY <2>1, <2>2
<1>2. CASE WaitCollector
  BY <1>2 DEF WaitCollector, Return, TypeOK, MainPlaces, Held, Accounted, Closing, channels
<1> QED
  BY <1>1, <1>2

LEMMA WorkerKeeps == ASSUME IInv, NEW w \in Workers, Worker(w) PROVE IInv'
<1> USE DEF IInv
<1>1. /\ worker \in [Workers -> WorkerPlaces]
      /\ holding \in [Workers -> Sources \cup {None}]
  BY DEF TypeOK
<1>2. CASE Extract(w)
  <2>1. PICK outcome \in {"deliver", "failed"} : worker' = [worker EXCEPT ![w] = outcome]
    BY <1>2 DEF Extract
  <2>2. TypeOK' /\ Held'
    BY <1>1, <1>2, <2>1 DEF Extract, TypeOK, WorkerPlaces, Held, channels
  <2>3. Accounted'
    BY <1>1, <1>2, <2>1 DEF Extract, Accounted
  <2>4. Closing'
    BY <1>1, <1>2, <2>1 DEF Extract, Closing, channels
  <2> QED
    BY <2>2, <2>3, <2>4
<1>3. CASE Deliver(w)
  <2>1. holding[w] \in Sources
    BY <1>1, <1>3 DEF Deliver, Held
  <2>2. TypeOK' /\ Held'
    BY <1>1, <1>3, <2>1 DEF Deliver, TypeOK, WorkerPlaces, Held, Sources, None, channels
  <2>3. Accounted'
    BY <1>1, <1>3 DEF Deliver, Accounted
  <2>4. Closing'
    BY <1>1, <1>3 DEF Deliver, Closing, channels
  <2> QED
    BY <2>2, <2>3, <2>4
<1>4. CASE WorkerEnds(w)
  <2>1. TypeOK' /\ Held'
    BY <1>1, <1>4 DEF WorkerEnds, TypeOK, WorkerPlaces, Held, channels
  <2>2. Accounted' /\ Closing'
    BY <1>1, <1>4 DEF WorkerEnds, Accounted, Closing, channels
  <2> QED
    BY <2>1, <2>2
<1> QED
  BY <1>2, <1>3, <1>4 DEF Worker

LEMMA CollectorKeeps == IInv /\ Collector => IInv'
<1> SUFFICES ASSUME IInv, Collector PROVE IInv'
  OBVIOUS
<1> USE DEF IInv
<1>1. CASE Add
  <2>1. TypeOK' /\ Held'
    BY <1>1 DEF Add, TypeOK, Held, channels
  <2>2. Accounted' /\ Closing'
    BY <1>1 DEF Add, Accounted, Closing, channels
  <2> QED
    BY <2>1, <2>2
<1>2. CASE CollectorEnds
  BY <1>2 DEF CollectorEnds, TypeOK, Held, Accounted, Closing, channels
<1> QED
  BY <1>1, <1>2 DEF Collector

LEMMA NextKeeps == IInv /\ [Next]_vars => IInv'
<1> SUFFICES ASSUME IInv, [Next]_vars PROVE IInv'
  OBVIOUS
<1>1. CASE Main
  BY <1>1, MainKeeps, SendKeeps, WaitKeeps DEF Main
<1>2. CASE \E w \in Workers : Worker(w)
  BY <1>2, WorkerKeeps
<1>3. CASE Collector
  BY <1>3, CollectorKeeps
<1>4. CASE UNCHANGED vars
  BY <1>4 DEF vars, IInv, TypeOK, Held, Accounted, Closing
<1> QED
  BY <1>1, <1>2, <1>3, <1>4 DEF Next, Stop

LEMMA Invariance == Spec => []IInv
BY InitHolds, NextKeeps, PTL DEF Spec

-------------------------------------------------------------------------------
(* Theorems *)

\* The types of the variables of checkoutSources.
THEOREM TypeCorrect == Spec => []TypeOK
<1>1. IInv => TypeOK
  BY DEF IInv
<1> QED
  BY <1>1, Invariance, PTL

\* A worker never sends over the results channel once it is closed, which would
\* panic: the errgroup is waited for before (source.go:86).
THEOREM NoSendOnClosedChannelAlways == Spec => []NoSendOnClosedChannel
<1>1. IInv => NoSendOnClosedChannel
  BY DEF IInv, Closing, NoSendOnClosedChannel
<1> QED
  BY <1>1, Invariance, PTL

\* A success has an empty list of sources, or a collector that has ended, and
\* then no worker holds a source any more.
LEMMA OkIsComplete == IInv /\ ret = "ok" => results = Sources /\ collector # "add"
<1> SUFFICES ASSUME IInv, ret = "ok" PROVE results = Sources /\ collector # "add"
  OBVIOUS
<1>1. CASE NumSources = 0
  BY <1>1 DEF IInv, TypeOK, Closing, Sources
<1>2. CASE collector = "exited"
  <2>1. next = NumSources + 1 /\ \A w \in Workers : worker[w] = "exited"
    BY <1>2 DEF IInv, Closing
  <2>2. \A s \in Sources : s \in results
    BY <1>2, <2>1 DEF IInv, Accounted, Sources
  <2> QED
    BY <1>2, <2>2 DEF IInv, TypeOK
<1> QED
  BY <1>1, <1>2 DEF IInv, Closing

\* A checkout that succeeds has every source in its map, however many workers
\* and sources there are and whichever extractions fail.
THEOREM AllSourcesOnSuccessAlways == Spec => []AllSourcesOnSuccess
<1>1. IInv => AllSourcesOnSuccess
  BY OkIsComplete DEF AllSourcesOnSuccess
<1> QED
  BY <1>1, Invariance, PTL

-------------------------------------------------------------------------------
(* Refinement of FetchAll *)

AtWork == {"extract", "deliver", "failed"}

\* A source is in one place only.
Placed ==
    /\ \A w \in Workers : worker[w] \in AtWork =>
          holding[w] \in Sources /\ holding[w] < next /\ holding[w] \notin results
    /\ \A v, w \in Workers :
          v # w /\ worker[v] \in AtWork /\ worker[w] \in AtWork => holding[v] # holding[w]
    /\ collector = "add" =>
          /\ received \in Sources /\ received < next /\ received \notin results
          /\ \A w \in Workers : worker[w] \in AtWork => holding[w] # received
    /\ \A s \in results : s < next

\* When checkoutSources has returned, or waits for the collector only, no worker
\* is at work.
Settled ==
    /\ main # "returned" => ret = "none"
    /\ main \in {"waitCollector", "returned"} =>
          \A w \in Workers : worker[w] \in {"unborn", "exited", "failed"}
    /\ main = "client" => \A w \in Workers : worker[w] = "unborn"

RInv == IInv /\ Placed /\ Settled

LEMMA RefinementInit == Init => RInv
BY InitHolds DEF Init, RInv, Placed, Settled, AtWork

LEMMA MainKeepsPlaces ==
    RInv /\ (ReturnEarly \/ StartWorkers \/ CloseSources \/ WaitWorkers \/ WaitCollector)
        => Placed' /\ Settled'
<1> SUFFICES ASSUME RInv,
                    ReturnEarly \/ StartWorkers \/ CloseSources \/ WaitWorkers \/ WaitCollector
             PROVE  Placed' /\ Settled'
  OBVIOUS
<1> USE DEF RInv
<1>1. CASE ReturnEarly
  BY <1>1 DEF ReturnEarly, Return, Placed, Settled, channels
<1>2. CASE StartWorkers
  BY <1>2 DEF StartWorkers, Placed, Settled, AtWork, channels
<1>3. CASE CloseSources
  BY <1>3 DEF CloseSources, Placed, Settled
<1>4. CASE WaitWorkers
  BY <1>4 DEF WaitWorkers, Return, Placed, Settled
<1>5. CASE WaitCollector
  BY <1>5 DEF WaitCollector, Return, Placed, Settled, channels
<1> QED
  BY <1>1, <1>2, <1>3, <1>4, <1>5

LEMMA SendKeepsPlaces == ASSUME RInv, NEW w \in Workers, Send(w) PROVE Placed' /\ Settled'
<1> USE DEF RInv
<1>1. /\ next \in Sources /\ next' = next + 1 /\ next \in Nat
      /\ worker' = [worker EXCEPT ![w] = "extract"]
      /\ holding' = [holding EXCEPT ![w] = next]
      /\ worker[w] = "recv" /\ main = "send"
      /\ worker \in [Workers -> WorkerPlaces]
      /\ holding \in [Workers -> Sources \cup {None}]
      /\ UNCHANGED <<main, ret, collector, received, results>>
  BY DEF Send, IInv, TypeOK, Sources, channels
<1>2. \A s \in Sources : s < next => s < next' /\ s # next
  BY <1>1 DEF Sources
<1>3. /\ worker'[w] = "extract" /\ holding'[w] = next /\ next < next' /\ next \notin results
      /\ \A v \in Workers : v # w => worker'[v] = worker[v] /\ holding'[v] = holding[v]
  BY <1>1 DEF Placed
<1>4. results \subseteq Sources
  BY DEF IInv, TypeOK
<1>5. Placed'
  <2>1. \A v \in Workers : worker'[v] \in AtWork =>
            holding'[v] \in Sources /\ holding'[v] < next' /\ holding'[v] \notin results'
    BY <1>1, <1>2, <1>3 DEF Placed
  <2>2. \A u, v \in Workers :
            u # v /\ worker'[u] \in AtWork /\ worker'[v] \in AtWork => holding'[u] # holding'[v]
    BY <1>1, <1>2, <1>3 DEF Placed
  <2>3. collector' = "add" =>
            /\ received' \in Sources /\ received' < next' /\ received' \notin results'
            /\ \A v \in Workers : worker'[v] \in AtWork => holding'[v] # received'
    BY <1>1, <1>2, <1>3 DEF Placed
  <2>4. \A s \in results' : s < next'
    BY <1>1, <1>2, <1>4 DEF Placed
  <2> QED
    BY <2>1, <2>2, <2>3, <2>4 DEF Placed
<1>6. Settled'
  BY <1>1 DEF Settled
<1> QED
  BY <1>5, <1>6

LEMMA WorkerKeepsPlaces == ASSUME RInv, NEW w \in Workers, Worker(w) PROVE Placed' /\ Settled'
<1> USE DEF RInv
<1>1. worker \in [Workers -> WorkerPlaces]
  BY DEF IInv, TypeOK
<1>2. CASE Extract(w)
  <2>1. PICK outcome \in {"deliver", "failed"} : worker' = [worker EXCEPT ![w] = outcome]
    BY <1>2 DEF Extract
  <2>2. /\ worker[w] = "extract"
        /\ UNCHANGED <<main, ret, next, holding, collector, received, results>>
    BY <1>2 DEF Extract
  <2> QED
    BY <1>1, <2>1, <2>2 DEF Placed, Settled, AtWork
<1>3. CASE Deliver(w)
  <2>1. /\ worker[w] = "deliver" /\ received' = holding[w] /\ collector' = "add"
        /\ worker' = [worker EXCEPT ![w] = "recv"]
        /\ UNCHANGED <<main, ret, next, holding, results>>
    BY <1>3 DEF Deliver
  <2> QED
    BY <1>1, <2>1 DEF Placed, Settled, AtWork
<1>4. CASE WorkerEnds(w)
  <2>1. /\ worker[w] = "recv" /\ worker' = [worker EXCEPT ![w] = "exited"]
        /\ UNCHANGED <<main, ret, next, holding, collector, received, results>>
    BY <1>4 DEF WorkerEnds
  <2> QED
    BY <1>1, <2>1 DEF Placed, Settled, AtWork
<1> QED
  BY <1>2, <1>3, <1>4 DEF Worker

LEMMA RefinementNext == RInv /\ [Next]_vars => RInv'
<1> SUFFICES ASSUME RInv, [Next]_vars PROVE Placed' /\ Settled'
  BY NextKeeps DEF RInv
<1>1. CASE Main
  BY <1>1, MainKeepsPlaces, SendKeepsPlaces DEF Main
<1>2. CASE \E w \in Workers : Worker(w)
  BY <1>2, WorkerKeepsPlaces
<1>3. CASE Add
  BY <1>3 DEF Add, RInv, Placed, Settled, channels
<1>4. CASE CollectorEnds
  BY <1>4 DEF CollectorEnds, RInv, Placed, Settled, channels
<1>5. CASE UNCHANGED vars
  BY <1>5 DEF vars, RInv, Placed, Settled
<1> QED
  BY <1>1, <1>2, <1>3, <1>4, <1>5 DEF Next, Stop, Collector

LEMMA RefinementInvariance == Spec => []RInv
BY RefinementInit, RefinementNext, PTL DEF Spec

\* The status of each source is a matter of next, results and failed workers.
LEMMA StatusIs ==
    ASSUME NEW s \in Sources, TypeOK
    PROVE  /\ Status(s) = "waiting" <=> s >= next
           /\ Status(s) = "fetched" <=> s < next /\ s \in results
           /\ Status(s) = "lost" <=>
                  /\ s < next /\ s \notin results
                  /\ \E w \in Workers : worker[w] = "failed" /\ holding[w] = s
           /\ Status(s) = "busy" <=>
                  /\ s < next /\ s \notin results
                  /\ ~ \E w \in Workers : worker[w] = "failed" /\ holding[w] = s
<1>1. s \in Nat /\ next \in Nat
  BY DEF Sources, TypeOK
<1> QED
  BY <1>1 DEF Status

Stat == [s \in Sources |-> Status(s)]

LEMMA StatUnchanged ==
    ASSUME RInv, RInv', UNCHANGED <<next, results>>,
           \A s \in Sources :
              (\E w \in Workers : worker[w] = "failed" /\ holding[w] = s) <=>
              (\E w \in Workers : worker'[w] = "failed" /\ holding'[w] = s)
    PROVE  Stat' = Stat
<1> SUFFICES ASSUME NEW s \in Sources PROVE Status(s)' = Status(s)
  BY DEF Stat
<1> QED
  BY DEF Status

LEMMA SendBegins ==
    ASSUME RInv, RInv', NEW w \in Workers, Send(w)
    PROVE  Fetching!Begin(next)
<1>1. /\ next \in Sources /\ next' = next + 1 /\ next \in Nat
      /\ worker[w] = "recv" /\ worker'[w] = "extract"
      /\ \A v \in Workers : v # w => worker'[v] = worker[v] /\ holding'[v] = holding[v]
      /\ results' = results /\ ret' = ret /\ ret = "none"
  BY DEF Send, RInv, IInv, TypeOK, Sources, Settled, channels
<1>2. TypeOK /\ TypeOK'
  BY DEF RInv, IInv
<1>3. Status(next) = "waiting" /\ \A s \in Sources : Status(s) = "waiting" => next <= s
  BY <1>1, <1>2, StatusIs DEF Sources
<1>4. \A s \in Sources : Status(s)' = IF s = next THEN "busy" ELSE Status(s)
  <2> SUFFICES ASSUME NEW s \in Sources
               PROVE  Status(s)' = IF s = next THEN "busy" ELSE Status(s)
    OBVIOUS
  <2>1. (\E v \in Workers : worker[v] = "failed" /\ holding[v] = s) <=>
        (\E v \in Workers : worker'[v] = "failed" /\ holding'[v] = s)
    BY <1>1
  <2>2. CASE s = next
    <3>1. s \notin results /\ ~ \E v \in Workers : worker[v] = "failed" /\ holding[v] = s
      BY <1>1, <2>2 DEF RInv, Placed, AtWork
    <3> QED
      BY <1>1, <2>1, <2>2, <3>1 DEF Status
  <2>3. CASE s # next
    <3>1. s \in Nat /\ (s >= next <=> s >= next') /\ (s < next <=> s < next')
      BY <1>1, <2>3 DEF Sources
    <3> QED
      BY <1>1, <2>1, <2>3, <3>1 DEF Status
  <2> QED
    BY <2>2, <2>3
<1>5. Stat' = [Stat EXCEPT ![next] = "busy"]
  BY <1>1, <1>4 DEF Stat
<1> QED
  BY <1>1, <1>3, <1>5 DEF Fetching!Begin, Fetching!With, Fetching!Sources, Stat, Sources

LEMMA ExtractLoses ==
    ASSUME RInv, RInv', NEW w \in Workers, Extract(w), Stat' # Stat
    PROVE  Fetching!Lose(holding[w])
<1>1. PICK outcome \in {"deliver", "failed"} : worker' = [worker EXCEPT ![w] = outcome]
  BY DEF Extract
<1>2. /\ worker[w] = "extract" /\ worker \in [Workers -> WorkerPlaces]
      /\ UNCHANGED <<main, ret, next, holding, collector, received, results>>
  BY DEF Extract, RInv, IInv, TypeOK
<1>3. outcome = "failed"
  BY <1>1, <1>2, StatUnchanged
<1>4. /\ holding[w] \in Sources /\ holding[w] < next /\ holding[w] \notin results
      /\ \A v \in Workers : v # w /\ worker[v] = "failed" => holding[v] # holding[w]
      /\ ret = "none"
  BY <1>2 DEF RInv, Placed, Settled, AtWork, IInv, TypeOK, Closing
<1>5. Status(holding[w]) = "busy"
  BY <1>2, <1>4, StatusIs DEF RInv, IInv
<1>6. \A s \in Sources : Status(s)' = IF s = holding[w] THEN "lost" ELSE Status(s)
  <2> SUFFICES ASSUME NEW s \in Sources
               PROVE  Status(s)' = IF s = holding[w] THEN "lost" ELSE Status(s)
    OBVIOUS
  <2>0. s \in Nat /\ next \in Nat
    BY DEF Sources, RInv, IInv, TypeOK
  <2>1. CASE s = holding[w]
    <3>1. worker'[w] = "failed" /\ holding'[w] = s
      BY <1>1, <1>2, <1>3, <2>1
    <3> QED
      BY <1>2, <1>4, <2>0, <2>1, <3>1 DEF Status
  <2>2. CASE s # holding[w]
    <3>1. (\E v \in Workers : worker[v] = "failed" /\ holding[v] = s) <=>
          (\E v \in Workers : worker'[v] = "failed" /\ holding'[v] = s)
      BY <1>1, <1>2, <2>2
    <3> QED
      BY <1>2, <2>0, <2>2, <3>1 DEF Status
  <2> QED
    BY <2>1, <2>2
<1>7. Stat' = [Stat EXCEPT ![holding[w]] = "lost"]
  BY <1>4, <1>6 DEF Stat
<1>8. Stat[holding[w]] = "busy"
  BY <1>4, <1>5 DEF Stat
<1> QED
  BY <1>2, <1>4, <1>7, <1>8 DEF Fetching!Lose, Stat

LEMMA AddFetches == ASSUME RInv, RInv', Add PROVE Fetching!Fetch(received)
<1>1. /\ collector = "add" /\ results' = results \cup {received}
      /\ UNCHANGED <<main, ret, next, worker, holding>>
  BY DEF Add
<1>2. /\ received \in Sources /\ received < next /\ received \notin results
      /\ ~ \E w \in Workers : worker[w] = "failed" /\ holding[w] = received
  BY <1>1 DEF RInv, Placed, AtWork
<1>3. ret # "ok"
  BY <1>1 DEF RInv, IInv, Closing
<1>4. Status(received) = "busy"
  BY <1>2, StatusIs DEF RInv, IInv
<1>5. \A s \in Sources : Status(s)' = IF s = received THEN "fetched" ELSE Status(s)
  <2> SUFFICES ASSUME NEW s \in Sources
               PROVE  Status(s)' = IF s = received THEN "fetched" ELSE Status(s)
    OBVIOUS
  <2>0. s \in Nat /\ next \in Nat
    BY DEF Sources, RInv, IInv, TypeOK
  <2>1. CASE s = received
    BY <1>1, <1>2, <2>0, <2>1 DEF Status
  <2>2. CASE s # received
    <3>1. s \in results' <=> s \in results
      BY <1>1, <2>2
    <3> QED
      BY <1>1, <2>0, <2>2, <3>1 DEF Status
  <2> QED
    BY <2>1, <2>2
<1>6. Stat' = [Stat EXCEPT ![received] = "fetched"]
  BY <1>2, <1>5 DEF Stat
<1>7. Stat[received] = "busy"
  BY <1>2, <1>4 DEF Stat
<1> QED
  BY <1>1, <1>3, <1>6, <1>7 DEF Fetching!Fetch, Stat

LEMMA AnswersAreRight ==
    ASSUME RInv, RInv', ReturnEarly \/ WaitWorkers \/ WaitCollector, ret' # ret
    PROVE  Fetching!AnswerOk \/ Fetching!AnswerError
<1>1. ret = "none" /\ ret' \in {"ok", "error"}
  BY DEF ReturnEarly, WaitWorkers, WaitCollector, Return, RInv, Settled
<1>2. UNCHANGED <<next, worker, holding, results>>
  BY DEF ReturnEarly, WaitWorkers, WaitCollector
<1>3. Stat' = Stat
  BY <1>2, StatUnchanged
<1>4. TypeOK /\ TypeOK'
  BY DEF RInv, IInv
<1>5. CASE ret' = "ok"
  <2>1. results = Sources
    <3>1. CASE NumSources = 0
      BY <3>1 DEF RInv, IInv, TypeOK, Sources
    <3>2. CASE NumSources # 0
      <4>1. resultClosed /\ collector = "exited"
        BY <1>5, <3>2 DEF ReturnEarly, WaitWorkers, WaitCollector, Return, RInv, IInv, Closing
      <4>2. next = NumSources + 1 /\ \A w \in Workers : worker[w] = "exited"
        BY <4>1 DEF RInv, IInv, Closing
      <4>3. \A s \in Sources : s \in results
        BY <4>1, <4>2 DEF RInv, IInv, Accounted, Sources
      <4> QED
        BY <4>3 DEF RInv, IInv, TypeOK
    <3> QED
      BY <3>1, <3>2
  <2>2. \A s \in Sources : Status(s) = "fetched"
    <3> SUFFICES ASSUME NEW s \in Sources PROVE Status(s) = "fetched"
      OBVIOUS
    <3>1. s \in results /\ s < next
      BY <1>2, <2>1 DEF RInv, Placed
    <3> QED
      BY <1>4, <3>1, StatusIs
  <2>3. {s \in Sources : Stat[s] = "fetched"} = Sources
    BY <2>2 DEF Stat
  <2> QED
    BY <1>1, <1>3, <1>5, <2>3 DEF Fetching!AnswerOk, Fetching!With, Fetching!Sources, Stat, Sources
<1>6. CASE ret' = "error"
  <2>1. \/ \A s \in Sources : Status(s) = "waiting"
        \/ \E s \in Sources : Status(s) = "lost"
    <3>1. CASE ReturnEarly
      <4>1. next = 1
        BY <3>1 DEF ReturnEarly, RInv, IInv, Closing
      <4> QED
        BY <1>4, <4>1, StatusIs DEF Sources
    <3>2. CASE WaitWorkers
      <4>1. PICK w \in Workers : worker[w] = "failed"
        BY <1>1, <3>2 DEF WaitWorkers
      <4>2. /\ holding[w] \in Sources /\ holding[w] < next /\ holding[w] \notin results
        BY <4>1 DEF RInv, Placed, AtWork
      <4> QED
        BY <1>4, <4>1, <4>2, StatusIs
    <3>3. CASE WaitCollector
      BY <1>6, <3>3 DEF WaitCollector, Return
    <3> QED
      BY <3>1, <3>2, <3>3
  <2>2. \/ {s \in Sources : Stat[s] = "lost"} # {}
        \/ {s \in Sources : Stat[s] = "waiting"} = Sources
    BY <2>1 DEF Stat
  <2> QED
    BY <1>1, <1>3, <1>6, <2>2 DEF Fetching!AnswerError, Fetching!With, Fetching!Sources, Stat, Sources
<1> QED
  BY <1>1, <1>5, <1>6

\* The goroutines, channels and wait groups of checkoutSources together are a
\* FetchAll: every step of theirs is one step of it, or none (source.go:15-99).
THEOREM Refinement == Spec => ImplementsFetchAll
<1>1. Init => Fetching!Init
  <2> SUFFICES ASSUME Init PROVE Fetching!Init
    OBVIOUS
  <2>1. \A s \in Sources : Status(s) = "waiting"
    BY InitHolds, StatusIs DEF IInv, Init, Sources
  <2> QED
    BY <2>1 DEF Init, Fetching!Init, Fetching!Sources, Sources
<1>2. RInv /\ RInv' /\ [Next]_vars => [Fetching!Next]_(Fetching!vars)
  <2> SUFFICES ASSUME RInv, RInv', [Next]_vars
               PROVE  Fetching!Next \/ (Stat' = Stat /\ ret' = ret)
    BY DEF Fetching!vars, Stat
  <2>1. ASSUME NEW w \in Workers, Send(w) PROVE Fetching!Next
    <3>1. next \in Fetching!Sources
      BY <2>1 DEF Send, RInv, IInv, TypeOK, Fetching!Sources
    <3> QED
      BY <2>1, <3>1, SendBegins DEF Fetching!Next
  <2>2. CASE ReturnEarly \/ WaitWorkers \/ WaitCollector
    <3>1. CASE ret' = ret
      <4>1. UNCHANGED <<next, worker, holding, results>>
        BY <2>2 DEF ReturnEarly, WaitWorkers, WaitCollector
      <4> QED
        BY <3>1, <4>1, StatUnchanged
    <3> QED
      BY <2>2, <3>1, AnswersAreRight DEF Fetching!Next
  <2>3. CASE StartWorkers \/ CloseSources
    <3>1. UNCHANGED <<next, results, holding, ret>>
      BY <2>3 DEF StartWorkers, CloseSources
    <3>2. \A w \in Workers : worker[w] = "failed" <=> worker'[w] = "failed"
      BY <2>3 DEF StartWorkers, CloseSources, RInv, Settled
    <3> QED
      BY <3>1, <3>2, StatUnchanged
  <2>4. ASSUME NEW w \in Workers, Worker(w)
        PROVE  Fetching!Next \/ (Stat' = Stat /\ ret' = ret)
    <3>1. CASE Extract(w)
      <4>1. worker[w] = "extract" /\ ret' = ret
        BY <3>1 DEF Extract
      <4>2. holding[w] \in Fetching!Sources
        BY <4>1 DEF RInv, Placed, AtWork, Sources, Fetching!Sources
      <4> QED
        BY <3>1, <4>1, <4>2, ExtractLoses DEF Fetching!Next
    <3>2. CASE Deliver(w) \/ WorkerEnds(w)
      <4>1. UNCHANGED <<next, results, holding, ret>>
        BY <3>2 DEF Deliver, WorkerEnds
      <4>2. \A v \in Workers : worker[v] = "failed" <=> worker'[v] = "failed"
        BY <3>2 DEF Deliver, WorkerEnds, RInv, IInv, TypeOK
      <4> QED
        BY <4>1, <4>2, StatUnchanged
    <3> QED
      BY <2>4, <3>1, <3>2 DEF Worker
  <2>5. CASE Add
    <3>1. received \in Fetching!Sources
      BY <2>5 DEF Add, RInv, Placed, Sources, Fetching!Sources
    <3> QED
      BY <2>5, <3>1, AddFetches DEF Fetching!Next
  <2>6. CASE CollectorEnds
    BY <2>6, StatUnchanged DEF CollectorEnds
  <2>7. CASE UNCHANGED vars
    BY <2>7, StatUnchanged DEF vars
  <2> QED
    BY <2>1, <2>2, <2>3, <2>4, <2>5, <2>6, <2>7 DEF Next, Main, Collector, Stop
<1> QED
  BY <1>1, <1>2, RefinementInvariance, PTL DEF Spec, ImplementsFetchAll, Fetching!Spec
===============================================================================
