------------------------- MODULE Reconciliation_proofs -------------------------
(***************************************************************************)
(* Proofs about Reconciliation, for any number of generations, failures    *)
(* and restarts.                                                           *)
(*                                                                         *)
(* The inductive invariant orders the three copies of the Resource there   *)
(* are: the object the handler was called with, the one it reads after the *)
(* job, and the one on the API server (Copies); and it says how far a      *)
(* deletion has come (Deletion).                                           *)
(***************************************************************************)
EXTENDS Reconciliation, TLAPS

\* No copy is of a later spec than the Resource, or of one that is deleted if
\* the Resource is not; a copy is never older than the one made before it.
Copies ==
    /\ resource.spec <= resource.gen
    /\ obj.spec <= resource.spec
    /\ st.spec <= resource.spec
    /\ obj.deleting => resource.deleting
    /\ pc = "write" => obj.spec <= st.spec

\* A destroy job ran for a deleted Resource, and every later job is one too.
\* Only a recorded one lets the Resource go.
Deletion ==
    /\ destroyed # 0 => resource.deleting
    /\ destroyed # 0 /\ pc \in {"run", "get", "write"} => obj.deleting
    /\ obj.deleting /\ pc \in {"get", "write"} => destroyed # 0
    /\ pc = "finalize" \/ ~exists =>
          /\ destroyed # 0
          /\ \E g \in DOMAIN records : records[g].job = "destroy"
    /\ ~exists => pc = "idle"

IInv == TypeOK /\ Copies /\ Deletion /\ NoLogsFromTheFuture

USE MaxGenerationAssumption, MaxFailuresAssumption

-------------------------------------------------------------------------------
(* Adding a record *)

LEMMA RecordAdded ==
    ASSUME NEW g
    PROVE  /\ DOMAIN Put(g) = DOMAIN records \cup {g}
           /\ Put(g)[g] = Reconciled
           /\ \A h \in DOMAIN records : h # g => Put(g)[h] = records[h]
BY DEF Put

-------------------------------------------------------------------------------
LEMMA InitHolds == Init => IInv
<1> SUFFICES ASSUME Init PROVE IInv
  OBVIOUS
<1>1. FirstVersion \in Object
  BY DEF FirstVersion, Object, Generations
<1>2. DOMAIN records = {}
  BY DEF Init
<1>3. TypeOK
  BY <1>1, <1>2 DEF Init, TypeOK
<1> QED
  BY <1>2, <1>3 DEF Init, IInv, Copies, Deletion, NoLogsFromTheFuture, FirstVersion

LEMMA UserKeeps == IInv /\ (Update \/ Delete \/ Resync) => IInv'
<1> SUFFICES ASSUME IInv, Update \/ Delete \/ Resync PROVE IInv'
  OBVIOUS
<1> USE DEF IInv
<1>1. CASE Update
  <2>1. /\ resource' \in Object
        /\ resource'.spec = resource.spec + 1 /\ resource'.gen = resource.gen + 1
        /\ resource'.deleting = resource.deleting
    BY <1>1 DEF Update, TypeOK, Copies, Object, Generations
  <2>2. TypeOK'
    BY <1>1, <2>1 DEF Update, TypeOK
  <2>3. Copies'
    BY <1>1, <2>1 DEF Update, TypeOK, Copies, Object, Generations
  <2> QED
    BY <1>1, <2>1, <2>2, <2>3 DEF Update, Deletion, NoLogsFromTheFuture
<1>2. CASE Delete
  <2>1. /\ resource' \in Object
        /\ resource'.spec = resource.spec /\ resource'.gen = resource.gen + 1
        /\ resource'.deleting
    BY <1>2 DEF Delete, TypeOK, Object, Generations
  <2>2. TypeOK'
    BY <1>2, <2>1 DEF Delete, TypeOK
  <2>3. Copies'
    BY <1>2, <2>1 DEF Delete, TypeOK, Copies, Object, Generations
  <2> QED
    BY <1>2, <2>1, <2>2, <2>3 DEF Delete, Deletion, NoLogsFromTheFuture
<1>3. CASE Resync
  BY <1>3 DEF Resync, TypeOK, Copies, Deletion, NoLogsFromTheFuture
<1> QED
  BY <1>1, <1>2, <1>3

\* Only the record itself is of interest where one is written: obj is not newer
\* than st, whose spec the record stores next to the logs of obj.
LEMMA WriteKeeps == IInv /\ WriteRecord => IInv'
<1> SUFFICES ASSUME IInv, WriteRecord PROVE IInv'
  OBVIOUS
<1> USE DEF IInv
<1> DEFINE r == Reconciled
<1>1. /\ records' = Put(st.gen)
      /\ pc = "write" /\ pc' = IF obj.deleting THEN "finalize" ELSE "idle"
      /\ UNCHANGED <<resource, exists, queued, obj, st, destroyed, failures>>
  BY DEF WriteRecord
<1>2. r \in Record /\ r.logsOf <= r.spec /\ st.gen \in Generations
  BY <1>1 DEF TypeOK, Object, Record, Jobs, Job, Copies, Reconciled
<1>3. /\ DOMAIN records' = DOMAIN records \cup {st.gen}
      /\ records'[st.gen] = r
      /\ \A h \in DOMAIN records : h # st.gen => records'[h] = records[h]
  BY <1>1, RecordAdded
<1>4. TypeOK'
  BY <1>1, <1>2, <1>3 DEF TypeOK
<1>5. NoLogsFromTheFuture'
  BY <1>2, <1>3 DEF NoLogsFromTheFuture
<1>6. Copies'
  BY <1>1 DEF Copies
<1>7. Deletion'
  <2>1. obj.deleting => r.job = "destroy" /\ destroyed # 0
    BY <1>1 DEF Job, Deletion, Reconciled
  <2> QED
    BY <1>1, <1>3, <2>1 DEF Deletion
<1> QED
  BY <1>4, <1>5, <1>6, <1>7

LEMMA ControllerKeeps == IInv /\ (Controller \/ Retry) => IInv'
<1> SUFFICES ASSUME IInv, Controller \/ Retry PROVE IInv'
  OBVIOUS
<1> USE DEF IInv
<1>1. CASE Take
  <2>1. TypeOK' /\ NoLogsFromTheFuture'
    BY <1>1 DEF Take, TypeOK, NoLogsFromTheFuture
  <2>2. Copies' /\ Deletion'
    BY <1>1 DEF Take, TypeOK, Copies, Deletion, Object, Generations
  <2> QED
    BY <2>1, <2>2
<1>2. CASE RunJob
  <2>1. destroyed' \in 0..MaxGeneration /\ (obj.deleting => destroyed' # 0)
    BY <1>2 DEF RunJob, TypeOK, Object, Generations, Job
  <2>2. ~obj.deleting => destroyed' = destroyed
    BY <1>2 DEF RunJob, Job
  <2>3. TypeOK' /\ Copies' /\ NoLogsFromTheFuture'
    BY <1>2, <2>1 DEF RunJob, TypeOK, Copies, NoLogsFromTheFuture
  <2>4. Deletion'
    BY <1>2, <2>1, <2>2 DEF RunJob, Deletion, Copies
  <2> QED
    BY <2>3, <2>4
<1>3. CASE GetResource
  BY <1>3 DEF GetResource, TypeOK, Copies, Deletion, NoLogsFromTheFuture, Object, Generations
<1>4. CASE WriteRecord
  BY <1>4, WriteKeeps
<1>5. CASE Finalize
  BY <1>5 DEF Finalize, TypeOK, Copies, Deletion, NoLogsFromTheFuture
<1>6. CASE Retry
  BY <1>6 DEF Retry, TypeOK, Copies, Deletion, NoLogsFromTheFuture
<1> QED
  BY <1>1, <1>2, <1>3, <1>4, <1>5, <1>6 DEF Controller

LEMMA NextKeeps == IInv /\ [Next]_vars => IInv'
<1> SUFFICES ASSUME IInv, [Next]_vars PROVE IInv'
  OBVIOUS
<1>1. CASE UNCHANGED vars
  BY <1>1 DEF vars, IInv, TypeOK, Copies, Deletion, NoLogsFromTheFuture
<1> QED
  BY <1>1, UserKeeps, ControllerKeeps DEF Next, Stop

LEMMA Invariance == Spec => []IInv
BY InitHolds, NextKeeps, PTL DEF Spec

-------------------------------------------------------------------------------
(* Theorems *)

\* The types of the controller's state, and of the records it has written.
THEOREM TypeCorrect == Spec => []TypeOK
<1>1. IInv => TypeOK
  BY DEF IInv
<1> QED
  BY <1>1, Invariance, PTL

\* The finalizer is removed only after an on-destroy job has succeeded and been
\* recorded (controller.go:33-63), whatever fails or restarts in between.
THEOREM DestroyedBeforeGoneAlways == Spec => []DestroyedBeforeGone
<1>1. IInv => DestroyedBeforeGone
  BY DEF IInv, Deletion, DestroyedBeforeGone
<1> QED
  BY <1>1, Invariance, PTL

\* No on-apply job runs after an on-destroy job has succeeded (run.go:59-94).
THEOREM NoApplyAfterDestroyAlways == Spec => []NoApplyAfterDestroy
<1>1. IInv => NoApplyAfterDestroy
  BY DEF IInv, Deletion, NoApplyAfterDestroy, Job
<1> QED
  BY <1>1, Invariance, PTL

\* The logs in a record are not of a later spec than the record's
\* (controller.go:72, which reads the Resource again).
THEOREM NoLogsFromTheFutureAlways == Spec => []NoLogsFromTheFuture
<1>1. IInv => NoLogsFromTheFuture
  BY DEF IInv
<1> QED
  BY <1>1, Invariance, PTL
===============================================================================
