---------------------------- MODULE JobSteps_proofs ----------------------------
(***************************************************************************)
(* Proofs about JobSteps, for any number of steps, any concurrency and any *)
(* need relation, and that it implements StepWorkflow.                     *)
(*                                                                         *)
(* The inductive invariant says, besides the types, which step each        *)
(* goroutine of the pool holds (Pool), that the wait group covers every    *)
(* step in flight (Group), how the waves advance (Waves), and what is      *)
(* known of a step at each place of its closure (Outcomes, Recorded).      *)
(***************************************************************************)
EXTENDS JobSteps, FiniteSetTheorems, TLAPS

\* A goroutine that is not idle holds a step in flight, and no two hold the same.
Pool ==
    /\ \A w \in Workers : work[w] # Idle => pc[work[w]] \in InFlight
    /\ \A v, w \in Workers : work[v] = work[w] /\ work[v] # Idle => v = w
    /\ \A s \in Steps : pc[s] \in InFlight => \E w \in Workers : work[w] = s

\* wg.Wait() can only return between two waves.
Group ==
    /\ \A s \in Steps : pc[s] \in InFlight => s \in wg
    /\ phase = "send" => \A s \in Steps : IsNext(s) => s \in wg
    /\ phase \in {"plan", "wave", "returned"} => wg = {}

\* The steps of a wave need only steps of earlier waves.
Waves ==
    /\ \A s \in wave : needs[s] \subseteq finished
    /\ phase \in {"feed", "send"} => wave \cap finished = {}
    /\ phase = "plan" => finished = {}
    /\ phase \in {"plan", "wave"} => wave \subseteq finished
    /\ phase \in {"wave", "feed", "send"} => Plannable
    /\ ret = "none" <=> phase # "returned"
    /\ \A s \in Steps : s \notin wave \cup finished => pc[s] = "unsent"
    /\ \A s \in finished :
          pc[s] = "done" /\ outcome[s] = "ok" /\ s \in stepVar

\* What is known of the outcome of a step at each place.
Outcomes ==
    \A s \in Steps :
        /\ pc[s] \in {"unsent", "sent", "eval", "job"} => outcome[s] = "none"
        /\ pc[s] \in {"setRun", "inRun", "toRecord"} => outcome[s] # "none"
        /\ pc[s] \in {"setStep", "inStep"} => outcome[s] = "ok"
        /\ pc[s] = "toRecord" /\ outcome[s] = "ok" => s \in stepVar

\* A step of the wave is recorded once, with its own outcome, unless it was
\* cancelled, which takes the failure of another one.
Recorded ==
    /\ \A s \in Steps :
        /\ rs[s] # "none" => s \in wave /\ pc[s] \in {"recorded", "done"}
        /\ rs[s] = "ok" => outcome[s] = "ok" /\ s \in stepVar
        /\ rs[s] = "err" => outcome[s] = "err"
        /\ rs[s] = "cancelled" => cancelled
        /\ s \in wave /\ pc[s] \in {"recorded", "done"} => rs[s] # "none"
    /\ cancelled <=> \E s \in wave : rs[s] = "err"

\* Success is returned when nothing is left to do, an error for a reason.
Returned ==
    /\ ret = "ok" => finished = Steps
    /\ ret = "error" => ~Plannable \/ \E s \in wave : rs[s] = "err"

IInv ==
    /\ TypeOK
    /\ Pool
    /\ Group
    /\ Waves
    /\ Outcomes
    /\ Recorded
    /\ Returned

USE DEF inputs, dispatcher, Steps, Workers, Idle, Free

-------------------------------------------------------------------------------
\* The needs never change, so neither does whether they can be ordered.
LEMMA PlannableFixed == ASSUME needs' = needs PROVE Plannable' = Plannable
BY DEF Plannable

\* The invariant holds before any step is looked at.
LEMMA InitIInv == Init => IInv
<1> SUFFICES ASSUME Init PROVE IInv
  OBVIOUS
<1>1. TypeOK
  BY MaxConcurrencyAssumption, NeedsAssumption DEF Init, TypeOK, Phases, Places, Results
<1>2. Pool /\ Group /\ Waves /\ Outcomes /\ Recorded /\ Returned
  BY DEF Init, Pool, Group, Waves, Outcomes, Recorded, Returned, InFlight, Started
<1> QED
  BY <1>1, <1>2 DEF IInv

\* Planning the waves, or failing to, keeps the invariant.
LEMMA PlanKeeps ==
    ASSUME IInv, Plan
    PROVE  IInv'
<1> USE DEF IInv, Plan
<1>1. TypeOK'
  BY DEF TypeOK, Phases
<1>2. Pool'
  BY DEF TypeOK, Pool
<1>3. Group'
  BY DEF TypeOK, Group
<1>4. Waves'
  <2>1. CASE Plannable
    BY <2>1, PlannableFixed DEF TypeOK, Group, Waves, Returned
  <2>2. CASE ~Plannable
    BY <2>2, PlannableFixed DEF TypeOK, Group, Waves, Returned
  <2> QED
    BY <2>1, <2>2
<1>5. Outcomes'
  BY DEF TypeOK, Outcomes
<1>6. Recorded'
  BY DEF TypeOK, Recorded
<1>7. Returned'
  BY PlannableFixed DEF TypeOK, Returned
<1> QED
  BY <1>1, <1>2, <1>3, <1>4, <1>5, <1>6, <1>7

\* A new wave starts from steps whose needs are finished, with results unset.
LEMMA BeginWaveKeeps ==
    ASSUME IInv, BeginWave
    PROVE  IInv'
<1> USE DEF IInv, BeginWave
<1>1. TypeOK'
  BY DEF TypeOK, Group, Ready, Phases, Results
<1>2. Pool'
  BY DEF TypeOK, Pool, Group
<1>3. Group'
  BY DEF TypeOK, Group
<1>4. Waves'
  BY PlannableFixed DEF TypeOK, Waves, Ready
<1>5. Outcomes'
  BY DEF TypeOK, Outcomes
<1>6. Recorded'
  BY DEF TypeOK, Waves, Recorded, Ready
<1>7. Returned'
  BY PlannableFixed DEF TypeOK, Waves, Returned
<1> QED
  BY <1>1, <1>2, <1>3, <1>4, <1>5, <1>6, <1>7

\* No step is left when none is ready: what is left would be a cycle.
LEMMA ReturnOkKeeps ==
    ASSUME IInv, ReturnOk
    PROVE  IInv'
<1> USE DEF IInv, ReturnOk
<1>1. TypeOK'
  BY DEF TypeOK, Phases
<1>2. Pool'
  BY DEF TypeOK, Pool
<1>3. Group'
  BY DEF TypeOK, Group
<1>4. Waves'
  BY PlannableFixed DEF TypeOK, Waves
<1>5. Outcomes'
  BY DEF TypeOK, Outcomes
<1>6. Recorded'
  BY DEF TypeOK, Recorded
<1>7. Returned'
  <2>1. finished = Steps
    <3> DEFINE Left == Steps \ finished
    <3>1. Left # {} => \E s \in Left : needs[s] \subseteq Steps \ Left
      BY DEF Waves, Plannable
    <3>2. finished \subseteq Steps /\ \A s \in Left : ~(needs[s] \subseteq finished)
      BY DEF TypeOK, Ready
    <3> QED
      BY <3>1, <3>2
  <2> QED
    BY <2>1 DEF Returned
<1> QED
  BY <1>1, <1>2, <1>3, <1>4, <1>5, <1>6, <1>7

\* The wait group knows a step before the step is handed over.
LEMMA AddToGroupKeeps ==
    ASSUME NEW s \in Steps, IInv, AddToGroup(s)
    PROVE  IInv'
<1> USE DEF IInv, AddToGroup
<1>1. TypeOK'
  BY DEF TypeOK, Unsent, IsNext, Phases
<1>2. Pool'
  BY DEF TypeOK, Pool
<1>3. Group'
  BY DEF TypeOK, Group, Unsent, IsNext
<1>4. Waves'
  BY PlannableFixed DEF TypeOK, Waves
<1>5. Outcomes'
  BY DEF TypeOK, Outcomes
<1>6. Recorded'
  BY DEF TypeOK, Recorded
<1>7. Returned'
  BY PlannableFixed DEF TypeOK, Returned
<1> QED
  BY <1>1, <1>2, <1>3, <1>4, <1>5, <1>6, <1>7

\* A step goes to one goroutine, which was idle.
LEMMA HandOverKeeps ==
    ASSUME NEW w \in Workers, NEW s \in Steps, IInv, HandOver(w, s)
    PROVE  IInv'
<1> USE DEF IInv, HandOver
<1>1. TypeOK'
  BY DEF TypeOK, InFlight, Places, Phases
<1>2. Pool'
  <2>1. pc[s] = "unsent"
    BY DEF IsNext, Unsent
  <2>2. \A v \in Workers : work[v] # s
    BY <2>1 DEF TypeOK, Pool, InFlight, Started
  <2> QED
    BY <2>1, <2>2 DEF TypeOK, Pool, InFlight
<1>3. Group'
  BY DEF TypeOK, Group
<1>4. Waves'
  BY PlannableFixed DEF TypeOK, Group, Waves
<1>5. Outcomes'
  BY DEF TypeOK, Outcomes, Unsent, IsNext
<1>6. Recorded'
  BY DEF TypeOK, Recorded, Unsent, IsNext
<1>7. Returned'
  BY PlannableFixed DEF TypeOK, Returned
<1> QED
  BY <1>1, <1>2, <1>3, <1>4, <1>5, <1>6, <1>7

\* After wg.Wait() every step of the wave is done, and has succeeded unless an
\* error is returned.
LEMMA EndWaveKeeps ==
    ASSUME IInv, EndWave
    PROVE  IInv'
<1> USE DEF IInv, EndWave
<1>1. TypeOK'
  <2>1. CASE \E s \in wave : rs[s] = "err"
    BY <2>1 DEF TypeOK, Phases
  <2>2. CASE ~ \E s \in wave : rs[s] = "err"
    BY <2>2 DEF TypeOK, Phases
  <2> QED
    BY <2>1, <2>2
<1>2. Pool'
  BY DEF TypeOK, Pool
<1>3. Group'
  BY DEF TypeOK, Group
<1>4. Waves'
  <2>1. CASE \E s \in wave : rs[s] = "err"
    BY <2>1, PlannableFixed DEF TypeOK, Waves
  <2>2. CASE ~ \E s \in wave : rs[s] = "err"
    <3>1. \A s \in wave : pc[s] = "done"
      BY DEF TypeOK, Group, Unsent, Places
    <3>2. ~cancelled
      BY <2>2 DEF Recorded
    <3>3. \A s \in wave : rs[s] = "ok"
      BY <2>2, <3>1, <3>2 DEF TypeOK, Recorded, Results
    <3>4. \A s \in finished' : pc'[s] = "done" /\ outcome'[s] = "ok" /\ s \in stepVar'
      BY <2>2, <3>1, <3>3 DEF TypeOK, Waves, Recorded
    <3> QED
      BY <2>2, <3>4, PlannableFixed DEF TypeOK, Waves
  <2> QED
    BY <2>1, <2>2
<1>5. Outcomes'
  BY DEF TypeOK, Outcomes
<1>6. Recorded'
  BY DEF TypeOK, Recorded
<1>7. Returned'
  BY PlannableFixed DEF TypeOK, Waves, Returned
<1> QED
  BY <1>1, <1>2, <1>3, <1>4, <1>5, <1>6, <1>7

\* A step that is skipped was cancelled by the failure of another one.
LEMMA SkipCancelledKeeps ==
    ASSUME NEW w \in Workers, NEW s \in Steps, IInv, SkipCancelled(w, s)
    PROVE  IInv'
<1> USE DEF IInv, SkipCancelled, At, Goto
<1>1. TypeOK'
  BY DEF TypeOK, InFlight, Places, Results
<1>2. Pool'
  BY DEF TypeOK, Pool, InFlight
<1>3. Group'
  BY DEF TypeOK, Group, InFlight, Unsent, IsNext
<1>4. Waves'
  BY PlannableFixed DEF TypeOK, Waves
<1>5. Outcomes'
  BY DEF TypeOK, Outcomes
<1>6. Recorded'
  BY DEF TypeOK, Group, Recorded, InFlight
<1>7. Returned'
  BY PlannableFixed DEF TypeOK, Group, Waves, Returned, InFlight
<1> QED
  BY <1>1, <1>2, <1>3, <1>4, <1>5, <1>6, <1>7

\* A step that is not cancelled starts.
LEMMA BeginReadKeeps ==
    ASSUME NEW w \in Workers, NEW s \in Steps, IInv, BeginRead(w, s)
    PROVE  IInv'
<1> USE DEF IInv, BeginRead, At, Goto
<1>1. TypeOK'
  BY DEF TypeOK, InFlight, Started, Places
<1>2. Pool'
  BY DEF TypeOK, Pool, InFlight, Started
<1>3. Group'
  BY DEF TypeOK, Group, InFlight, Unsent, IsNext
<1>4. Waves'
  BY PlannableFixed DEF TypeOK, Waves
<1>5. Outcomes'
  BY DEF TypeOK, Outcomes
<1>6. Recorded'
  BY DEF TypeOK, Recorded
<1>7. Returned'
  BY PlannableFixed DEF TypeOK, Returned
<1> QED
  BY <1>1, <1>2, <1>3, <1>4, <1>5, <1>6, <1>7

\* Evaluating the arguments of a step keeps the invariant.
LEMMA EndReadKeeps ==
    ASSUME NEW w \in Workers, NEW s \in Steps, IInv, EndRead(w, s)
    PROVE  IInv'
<1> USE DEF IInv, EndRead, At, Goto
<1>1. TypeOK'
  BY DEF TypeOK, InFlight, Started, Places
<1>2. Pool'
  BY DEF TypeOK, Pool, InFlight, Started
<1>3. Group'
  BY DEF TypeOK, Group, InFlight, Started, Unsent, IsNext
<1>4. Waves'
  BY PlannableFixed DEF TypeOK, Waves
<1>5. Outcomes'
  BY DEF TypeOK, Outcomes
<1>6. Recorded'
  BY DEF TypeOK, Recorded
<1>7. Returned'
  BY PlannableFixed DEF TypeOK, Returned
<1> QED
  BY <1>1, <1>2, <1>3, <1>4, <1>5, <1>6, <1>7

\* A step whose arguments cannot be evaluated fails like one whose job fails.
LEMMA FailReadKeeps ==
    ASSUME NEW w \in Workers, NEW s \in Steps, IInv, FailRead(w, s)
    PROVE  IInv'
<1> USE DEF IInv, FailRead, At, Goto
<1>1. TypeOK'
  BY DEF TypeOK, InFlight, Started, Places
<1>2. Pool'
  BY DEF TypeOK, Pool, InFlight, Started
<1>3. Group'
  BY DEF TypeOK, Group, InFlight, Started, Unsent, IsNext
<1>4. Waves'
  BY PlannableFixed DEF TypeOK, Waves
<1>5. Outcomes'
  BY DEF TypeOK, Outcomes
<1>6. Recorded'
  BY DEF TypeOK, Recorded
<1>7. Returned'
  BY PlannableFixed DEF TypeOK, Returned
<1> QED
  BY <1>1, <1>2, <1>3, <1>4, <1>5, <1>6, <1>7

\* The outcome of a job is known before the step goes on.
LEMMA RunJobKeeps ==
    ASSUME NEW w \in Workers, NEW s \in Steps, IInv, RunJob(w, s)
    PROVE  IInv'
<1> USE DEF IInv, RunJob, At, Goto
<1>1. TypeOK'
  BY DEF TypeOK, InFlight, Started, Places
<1>2. Pool'
  BY DEF TypeOK, Pool, InFlight, Started
<1>3. Group'
  BY DEF TypeOK, Group, InFlight, Started, Unsent, IsNext
<1>4. Waves'
  BY PlannableFixed DEF TypeOK, Waves
<1>5. Outcomes'
  BY DEF TypeOK, Outcomes
<1>6. Recorded'
  BY DEF TypeOK, Recorded
<1>7. Returned'
  BY PlannableFixed DEF TypeOK, Returned
<1> QED
  BY <1>1, <1>2, <1>3, <1>4, <1>5, <1>6, <1>7

\* Entering the first section of m keeps the invariant.
LEMMA BeginSetRunKeeps ==
    ASSUME NEW w \in Workers, NEW s \in Steps, IInv, BeginSetRun(w, s)
    PROVE  IInv'
<1> USE DEF IInv, BeginSetRun, At, Goto
<1>1. TypeOK'
  BY DEF TypeOK, InFlight, Started, Places
<1>2. Pool'
  BY DEF TypeOK, Pool, InFlight, Started
<1>3. Group'
  BY DEF TypeOK, Group, InFlight, Started, Unsent, IsNext
<1>4. Waves'
  BY PlannableFixed DEF TypeOK, Waves
<1>5. Outcomes'
  BY DEF TypeOK, Outcomes
<1>6. Recorded'
  BY DEF TypeOK, Recorded
<1>7. Returned'
  BY PlannableFixed DEF TypeOK, Returned
<1> QED
  BY <1>1, <1>2, <1>3, <1>4, <1>5, <1>6, <1>7

\* Only a step that succeeded goes on to the second section of m.
LEMMA EndSetRunKeeps ==
    ASSUME NEW w \in Workers, NEW s \in Steps, IInv, EndSetRun(w, s)
    PROVE  IInv'
<1> USE DEF IInv, EndSetRun, At, Goto
<1>1. TypeOK'
  BY DEF TypeOK, InFlight, Started, Places
<1>2. Pool'
  BY DEF TypeOK, Pool, InFlight, Started
<1>3. Group'
  BY DEF TypeOK, Group, InFlight, Started, Unsent, IsNext
<1>4. Waves'
  BY PlannableFixed DEF TypeOK, Waves
<1>5. Outcomes'
  BY DEF TypeOK, Outcomes
<1>6. Recorded'
  BY DEF TypeOK, Recorded
<1>7. Returned'
  BY PlannableFixed DEF TypeOK, Returned
<1> QED
  BY <1>1, <1>2, <1>3, <1>4, <1>5, <1>6, <1>7

\* Entering the second section of m keeps the invariant.
LEMMA BeginSetStepKeeps ==
    ASSUME NEW w \in Workers, NEW s \in Steps, IInv, BeginSetStep(w, s)
    PROVE  IInv'
<1> USE DEF IInv, BeginSetStep, At, Goto
<1>1. TypeOK'
  BY DEF TypeOK, InFlight, Started, Places
<1>2. Pool'
  BY DEF TypeOK, Pool, InFlight, Started
<1>3. Group'
  BY DEF TypeOK, Group, InFlight, Started, Unsent, IsNext
<1>4. Waves'
  BY PlannableFixed DEF TypeOK, Waves
<1>5. Outcomes'
  BY DEF TypeOK, Outcomes
<1>6. Recorded'
  BY DEF TypeOK, Recorded
<1>7. Returned'
  BY PlannableFixed DEF TypeOK, Returned
<1> QED
  BY <1>1, <1>2, <1>3, <1>4, <1>5, <1>6, <1>7

\* The result of a step is in the variables before the step is recorded.
LEMMA EndSetStepKeeps ==
    ASSUME NEW w \in Workers, NEW s \in Steps, IInv, EndSetStep(w, s)
    PROVE  IInv'
<1> USE DEF IInv, EndSetStep, At, Goto
<1>1. TypeOK'
  BY DEF TypeOK, InFlight, Started, Places
<1>2. Pool'
  BY DEF TypeOK, Pool, InFlight, Started
<1>3. Group'
  BY DEF TypeOK, Group, InFlight, Started, Unsent, IsNext
<1>4. Waves'
  BY PlannableFixed DEF TypeOK, Waves
<1>5. Outcomes'
  BY DEF TypeOK, Outcomes
<1>6. Recorded'
  BY DEF TypeOK, Recorded
<1>7. Returned'
  BY PlannableFixed DEF TypeOK, Returned
<1> QED
  BY <1>1, <1>2, <1>3, <1>4, <1>5, <1>6, <1>7

\* A step is recorded with its own outcome, and cancels the wave if it failed.
LEMMA RecordKeeps ==
    ASSUME NEW w \in Workers, NEW s \in Steps, IInv, Record(w, s)
    PROVE  IInv'
<1> USE DEF IInv, Record, At, Goto
<1>1. TypeOK'
  BY DEF TypeOK, InFlight, Places, Results
<1>2. Pool'
  BY DEF TypeOK, Pool, InFlight
<1>3. Group'
  BY DEF TypeOK, Group, InFlight, Started, Unsent, IsNext
<1>4. Waves'
  BY PlannableFixed DEF TypeOK, Waves
<1>5. Outcomes'
  BY DEF TypeOK, Outcomes
<1>6. Recorded'
  <2>1. s \in wave /\ outcome[s] \in {"ok", "err"}
    BY DEF TypeOK, Group, Outcomes, InFlight, Started
  <2>2. \A t \in Steps \ {s} : rs'[t] = rs[t] /\ pc'[t] = pc[t]
    BY DEF TypeOK
  <2>3. rs'[s] = outcome[s] /\ pc'[s] = "recorded" /\ rs[s] = "none"
    BY DEF TypeOK, Recorded
  <2>4. outcome[s] = "ok" => s \in stepVar
    BY DEF Outcomes
  <2>5. CASE outcome[s] = "ok"
    <3>1. cancelled' <=> cancelled
      BY <2>5
    <3>2. (\E t \in wave : rs'[t] = "err") <=> \E t \in wave : rs[t] = "err"
      BY <2>2, <2>3, <2>5 DEF TypeOK
    <3> QED
      BY <2>1, <2>2, <2>3, <2>4, <2>5, <3>1, <3>2 DEF TypeOK, Recorded
  <2>6. CASE outcome[s] = "err"
    <3>1. cancelled'
      BY <2>6
    <3>2. \E t \in wave : rs'[t] = "err"
      BY <2>1, <2>3, <2>6
    <3> QED
      BY <2>1, <2>2, <2>3, <2>6, <3>1, <3>2 DEF TypeOK, Recorded
  <2> QED
    BY <2>1, <2>5, <2>6
<1>7. Returned'
  BY PlannableFixed DEF TypeOK, Group, Waves, Returned, InFlight, Started
<1> QED
  BY <1>1, <1>2, <1>3, <1>4, <1>5, <1>6, <1>7

\* A step leaves the wait group once it is recorded.
LEMMA DoneKeeps ==
    ASSUME NEW w \in Workers, NEW s \in Steps, IInv, Done(w, s)
    PROVE  IInv'
<1> USE DEF IInv, Done, At, Goto
<1>1. TypeOK'
  BY DEF TypeOK, Places
<1>2. Pool'
  BY DEF TypeOK, Pool, InFlight, Started
<1>3. Group'
  BY DEF TypeOK, Group, InFlight, Started, Unsent, IsNext
<1>4. Waves'
  BY PlannableFixed DEF TypeOK, Waves
<1>5. Outcomes'
  BY DEF TypeOK, Outcomes
<1>6. Recorded'
  BY DEF TypeOK, Recorded
<1>7. Returned'
  BY PlannableFixed DEF TypeOK, Returned
<1> QED
  BY <1>1, <1>2, <1>3, <1>4, <1>5, <1>6, <1>7

\* The end of the process keeps the invariant.
LEMMA DieKeeps ==
    ASSUME IInv, Die
    PROVE  IInv'
<1> USE DEF IInv, Die
<1>1. TypeOK'
  BY DEF TypeOK, Phases
<1>2. Pool'
  BY DEF TypeOK, Pool
<1>3. Group'
  BY DEF TypeOK, Group
<1>4. Waves'
  <2>1. phase # "returned"
    BY DEF MapRace, Group, InFlight, Started, Reading
  <2> QED
    BY <2>1, PlannableFixed DEF TypeOK, Waves
<1>5. Outcomes'
  BY DEF TypeOK, Outcomes
<1>6. Recorded'
  BY DEF TypeOK, Recorded
<1>7. Returned'
  BY PlannableFixed DEF TypeOK, Returned
<1> QED
  BY <1>1, <1>2, <1>3, <1>4, <1>5, <1>6, <1>7

-------------------------------------------------------------------------------
\* Every step of the specification keeps the invariant, and so does stuttering.
LEMMA NextKeeps == IInv /\ [Next]_vars => IInv'
<1> SUFFICES ASSUME IInv, [Next]_vars PROVE IInv'
  OBVIOUS
<1>1. CASE UNCHANGED vars
  BY <1>1, PlannableFixed DEF vars, IInv, TypeOK, Pool, Group, Waves, Outcomes,
     Recorded, Returned, IsNext, Unsent
<1>2. CASE Dispatch
  BY <1>2, PlanKeeps, BeginWaveKeeps, ReturnOkKeeps, AddToGroupKeeps,
     HandOverKeeps, EndWaveKeeps DEF Dispatch
<1>3. CASE \E w \in Workers : Execute(w)
  BY <1>3, SkipCancelledKeeps, BeginReadKeeps, EndReadKeeps, FailReadKeeps,
     RunJobKeeps, BeginSetRunKeeps, EndSetRunKeeps, BeginSetStepKeeps,
     EndSetStepKeeps, RecordKeeps, DoneKeeps DEF Execute
<1>4. CASE Die
  BY <1>4, DieKeeps
<1>5. CASE Stop
  BY <1>1, <1>5 DEF Stop
<1> QED
  BY <1>1, <1>2, <1>3, <1>4, <1>5 DEF Next

\* The invariant holds in every state execJobSteps can reach.
THEOREM Invariance == Spec => []IInv
<1> QED
  BY InitIInv, NextKeeps, PTL DEF Spec

\* Every variable keeps its type; in particular the wait group never counts a
\* step that is not of the current wave.
THEOREM TypeCorrect == Spec => []TypeOK
<1>1. IInv => TypeOK
  BY DEF IInv
<1> QED
  BY <1>1, Invariance, PTL

-------------------------------------------------------------------------------
(* The safety properties *)

\* A step whose cancellation check has passed belongs to the current wave, so
\* what it needs finished in earlier ones, successfully.
LEMMA StartedHasNeeds == IInv => NeedsSatisfied
<1> SUFFICES ASSUME IInv, NEW s \in Steps, pc[s] \in Started, NEW t \in needs[s]
             PROVE  t \in stepVar /\ outcome[t] = "ok"
  BY DEF NeedsSatisfied
<1>1. s \in wave
  BY DEF IInv, TypeOK, Group, InFlight
<1>2. t \in finished
  BY <1>1 DEF IInv, Waves
<1> QED
  BY <1>2 DEF IInv, TypeOK, Waves

\* For every needs relation and every concurrency, no step of a job starts
\* before the steps it needs have succeeded and published their results.
THEOREM NeedsSatisfiedAlways == Spec => []NeedsSatisfied
<1> QED
  BY StartedHasNeeds, Invariance, PTL

\* The wait group is empty when execJobSteps returns, and it covers whatever
\* a goroutine still executes.
THEOREM QuietAfterReturnAlways == Spec => []QuietAfterReturn
<1>1. IInv => QuietAfterReturn
  BY DEF IInv, Group, QuietAfterReturn
<1> QED
  BY <1>1, Invariance, PTL

\* Success means that every step succeeded, an error that some step failed or
\* that the needs have no order.
THEOREM FaithfulReturnAlways == Spec => []FaithfulReturn
<1>1. IInv => FaithfulReturn
  <2> SUFFICES ASSUME IInv PROVE FaithfulReturn
    OBVIOUS
  <2>1. ret = "ok" => \A s \in Steps : outcome[s] = "ok" /\ s \in stepVar
    BY DEF IInv, Waves, Returned
  <2>2. ret = "error" => (\E s \in Steps : outcome[s] = "err") \/ ~Plannable
    BY DEF IInv, TypeOK, Recorded, Returned
  <2> QED
    BY <2>1, <2>2 DEF FaithfulReturn
<1> QED
  BY <1>1, Invariance, PTL

-------------------------------------------------------------------------------
(* A concurrency of one *)

\* What a single goroutine can be handed: the first step of the wave that is
\* unsent, when all the ones before it are done.
LEMMA HandOverInOrder ==
    ASSUME NEW w \in Workers, NEW t \in Steps, IInv, HandOver(w, t),
           concurrency = 1, NEW s \in wave, s < t
    PROVE  pc[s] = "done"
<1>1. s \in Steps /\ pc[s] # "unsent"
  BY DEF IInv, TypeOK, HandOver, IsNext, Unsent
<1>2. pc[s] \notin InFlight
  BY <1>1 DEF IInv, TypeOK, Pool, HandOver
<1> QED
  BY <1>1, <1>2 DEF IInv, TypeOK, Places

\* A step that is done stays done, and a step that another one waits for is
\* done, so no step of the wave moves out of order.
LEMMA OrderKept == IInv /\ SequentialInOrder /\ [Next]_vars => SequentialInOrder'
<1> SUFFICES ASSUME IInv, SequentialInOrder, [Next]_vars,
                    concurrency' = 1, NEW s \in wave', NEW t \in wave', s < t,
                    pc'[t] # "unsent"
             PROVE  pc'[s] = "done"
  BY DEF SequentialInOrder
<1>1. concurrency = 1
  BY DEF Next, Dispatch, Execute, Die, Stop, vars, Plan, BeginWave, ReturnOk,
     AddToGroup, HandOver, EndWave, SkipCancelled, BeginRead, EndRead, FailRead,
     RunJob, BeginSetRun, EndSetRun, BeginSetStep, EndSetStep, Record, Done
<1>2. CASE BeginWave
  <2>1. t \in Steps \ finished /\ wave \subseteq finished
    BY <1>2 DEF BeginWave, Ready, IInv, Waves
  <2> QED
    BY <1>2, <2>1 DEF BeginWave, IInv, Waves
<1>3. ASSUME NEW w \in Workers, NEW x \in Steps, HandOver(w, x)
      PROVE  pc'[s] = "done"
  <2> USE DEF IInv, TypeOK, HandOver
  <2>1. CASE x = t
    <3>1. s \in wave /\ pc[s] = "done"
      BY <1>1, <1>3, <2>1, HandOverInOrder
    <3> QED
      BY <1>3, <2>1, <3>1
  <2>2. CASE x # t
    <3>1. pc[s] = "done" /\ s # x
      BY <1>1, <1>3, <2>2 DEF SequentialInOrder, IsNext, Unsent
    <3> QED
      BY <1>3, <3>1
  <2> QED
    BY <2>1, <2>2
<1>4. ASSUME NEW w \in Workers, NEW x \in Steps, NEW p \in InFlight,
             At(w, x, p), UNCHANGED wave, NEW q \in Places, Goto(x, q)
      PROVE  pc'[s] = "done"
  <2>1. pc[t] # "unsent"
    BY <1>4 DEF At, Goto, InFlight, Started, IInv, TypeOK
  <2>2. pc[s] = "done"
    BY <1>1, <1>4, <2>1 DEF SequentialInOrder
  <2> QED
    BY <1>4, <2>2 DEF At, Goto, InFlight, Started, IInv, TypeOK
<1>5. CASE UNCHANGED <<wave, pc>>
  BY <1>1, <1>5 DEF SequentialInOrder
<1>6. ASSUME NEW w \in Workers, Execute(w) PROVE pc'[s] = "done"
  <2> PICK x \in Steps :
        \/ SkipCancelled(w, x) \/ BeginRead(w, x) \/ EndRead(w, x)
        \/ FailRead(w, x) \/ RunJob(w, x) \/ BeginSetRun(w, x)
        \/ EndSetRun(w, x) \/ BeginSetStep(w, x) \/ EndSetStep(w, x)
        \/ Record(w, x) \/ Done(w, x)
    BY <1>6 DEF Execute
  <2>1. UNCHANGED wave
    BY DEF dispatcher, SkipCancelled, BeginRead, EndRead, FailRead, RunJob,
       BeginSetRun, EndSetRun, BeginSetStep, EndSetStep, Record, Done
  <2>2. \E p \in InFlight, q \in Places : At(w, x, p) /\ Goto(x, q)
    BY DEF SkipCancelled, BeginRead, EndRead, FailRead, RunJob, BeginSetRun,
       EndSetRun, BeginSetStep, EndSetStep, Record, Done, InFlight, Started,
       Places
  <2> QED
    BY <1>4, <2>1, <2>2
<1>7. CASE Dispatch
  <2>1. CASE Plan \/ ReturnOk \/ EndWave \/ \E x \in Steps : AddToGroup(x)
    BY <1>5, <2>1 DEF Plan, ReturnOk, EndWave, AddToGroup
  <2> QED
    BY <1>2, <1>3, <1>7, <2>1 DEF Dispatch
<1>8. CASE Die \/ Stop \/ UNCHANGED vars
  BY <1>5, <1>8 DEF Die, Stop, vars
<1> QED
  BY <1>6, <1>7, <1>8 DEF Next

\* With a concurrency of one the steps of every wave run one after the other,
\* in the order of their definition.
THEOREM SequentialInOrderAlways == Spec => []SequentialInOrder
<1>1. Init => SequentialInOrder
  BY DEF Init, SequentialInOrder
<1> QED
  BY <1>1, OrderKept, Invariance, PTL DEF Spec

-------------------------------------------------------------------------------
(***************************************************************************)
(* JobSteps implements StepWorkflow.                                       *)
(*                                                                         *)
(* Every step of the machinery is one step of the workflow or none: a step *)
(* begins when it passes its cancellation check, ends when its result is   *)
(* recorded, is cancelled when it is skipped, and the job answers when     *)
(* execJobSteps returns.  Handing a step over, waiting for the wait group, *)
(* the accesses to the variables and the change of waves are stutters.     *)
(***************************************************************************)

USE DEF inputs, dispatcher, Steps, Workers, Idle, Free

\* The status of the workflow's steps, in a state of the machinery.
Statuses == [s \in Steps |-> StatusOf(s)]

-------------------------------------------------------------------------------
(* The abstract status of a step *)

\* What StatusOf returns in each of the situations a step can be in.
StatusTable(s) ==
    /\ s \in finished => StatusOf(s) = "ok"
    /\ rs[s] = "ok" => StatusOf(s) = "ok"
    /\ s \notin finished /\ rs[s] = "err" => StatusOf(s) = "failed"
    /\ s \notin finished /\ rs[s] = "cancelled" => StatusOf(s) = "cancelled"
    /\ s \notin finished /\ rs[s] = "none" =>
         /\ pc[s] \in Started => StatusOf(s) = "running"
         /\ pc[s] \notin Started => StatusOf(s) = "pending"

\* The table holds of every step that has a type.
LEMMA StatusTableHolds ==
    ASSUME NEW s \in Steps, TypeOK PROVE StatusTable(s)
BY DEF TypeOK, Results, StatusTable, StatusOf

\* So does it after a step.
LEMMA StatusTableNext ==
    ASSUME NEW s \in Steps, TypeOK' PROVE StatusTable(s)'
BY DEF TypeOK, Results, StatusTable, StatusOf

\* A step whose result, place and wave do not change keeps its status.
LEMMA StatusKept ==
    ASSUME NEW s \in Steps, TypeOK, TypeOK',
           rs'[s] = rs[s], s \in finished' <=> s \in finished,
           pc'[s] \in Started <=> pc[s] \in Started
    PROVE  StatusOf(s)' = StatusOf(s)
<1>1. StatusTable(s) /\ StatusTable(s)'
  BY StatusTableHolds, StatusTableNext
<1> QED
  BY <1>1 DEF StatusTable, TypeOK, Results

\* When only step s moves, the statuses change at s or nowhere.
LEMMA OnlyOneMoves ==
    ASSUME NEW s \in Steps, TypeOK, TypeOK', finished' = finished,
           \A t \in Steps \ {s} : rs'[t] = rs[t] /\ pc'[t] = pc[t]
    PROVE  Statuses' = [Statuses EXCEPT ![s] = StatusOf(s)']
<1>1. \A t \in Steps \ {s} : StatusOf(t)' = StatusOf(t)
  BY StatusKept
<1> QED
  BY <1>1 DEF Statuses

-------------------------------------------------------------------------------
(* What a goroutine may rely on *)

\* A step in the hands of a goroutine belongs to the current wave, has a
\* result only once it is recorded, and needs only steps that succeeded.
LEMMA StepInHand ==
    ASSUME IInv, NEW w \in Workers, NEW s \in Steps, NEW p \in InFlight,
           At(w, s, p)
    PROVE  /\ phase \in {"feed", "send"}
           /\ Answer = "none"
           /\ s \in wave
           /\ s \notin finished
           /\ p # "recorded" => rs[s] = "none"
           /\ needs[s] \subseteq {t \in Steps : StatusOf(t) = "ok"}
<1>1. s \in wg /\ s \in wave
  BY DEF IInv, TypeOK, Group, At
<1>2. phase \in {"feed", "send"} /\ ret = "none" /\ s \notin finished
  BY <1>1 DEF IInv, TypeOK, Phases, Group, Waves, At
<1>3. p # "recorded" => rs[s] = "none"
  BY DEF IInv, TypeOK, Recorded, At, InFlight, Started
<1>4. needs[s] \subseteq {t \in Steps : StatusOf(t) = "ok"}
  <2>1. needs[s] \subseteq finished /\ finished \subseteq Steps
    BY <1>1 DEF IInv, TypeOK, Waves
  <2> QED
    BY <2>1, StatusTableHolds DEF IInv, StatusTable
<1> QED
  BY <1>1, <1>2, <1>3, <1>4 DEF Answer

\* While a wave is fed, a step failed exactly when the wave is cancelled.
LEMMA CancelledMeansFailed ==
    ASSUME IInv, phase \in {"feed", "send"}
    PROVE  cancelled <=> {t \in Steps : StatusOf(t) = "failed"} # {}
<1>1. ASSUME NEW t \in wave, rs[t] = "err"
      PROVE  t \in Steps /\ StatusOf(t) = "failed"
  BY <1>1, StatusTableHolds DEF IInv, TypeOK, Waves, StatusTable
<1>2. ASSUME NEW t \in Steps, StatusOf(t) = "failed"
      PROVE  rs[t] = "err" /\ t \in wave
  BY <1>2, StatusTableHolds DEF IInv, TypeOK, Results, Recorded, StatusTable
<1> QED
  BY <1>1, <1>2 DEF IInv, Recorded

\* The steps that run are held by goroutines that are not idle, so there are
\* fewer of them than goroutines as long as one goroutine is not running any.
LEMMA RoomForOneMore ==
    ASSUME IInv, NEW w \in Workers, NEW s \in Steps, At(w, s, "sent")
    PROVE  Cardinality({t \in Steps : StatusOf(t) = "running"}) < concurrency
<1> DEFINE Running == {t \in Steps : StatusOf(t) = "running"}
           Others == Workers \ {w}
<1>1. concurrency \in Nat /\ w \in 1..concurrency
  BY MaxConcurrencyAssumption DEF IInv, TypeOK
<1>2. IsFiniteSet(Workers) /\ Cardinality(Workers) = concurrency
  BY <1>1, FS_Interval
<1>3. IsFiniteSet(Others) /\ Cardinality(Others) = concurrency - 1
  BY <1>1, <1>2, FS_RemoveElement
<1>4. \A t \in Running : \E v \in Others : work[v] = t
  <2> SUFFICES ASSUME NEW t \in Running PROVE \E v \in Others : work[v] = t
    OBVIOUS
  <2>1. pc[t] \in Started
    BY StatusTableHolds DEF IInv, TypeOK, Results, StatusTable
  <2>2. t # s /\ work[w] = s
    BY <2>1 DEF At, Started
  <2> QED
    BY <2>1, <2>2 DEF IInv, Pool, InFlight
<1>5. Cardinality(Running) <= Cardinality(Others)
  <2> DEFINE f == [t \in Running |-> CHOOSE v \in Others : work[v] = t]
  <2>1. \A t \in Running : f[t] \in Others /\ work[f[t]] = t
    BY <1>4
  <2>2. f \in [Running -> Others]
    BY <2>1
  <2>3. \A t, u \in Running : f[t] = f[u] => t = u
    BY <2>1
  <2> HIDE DEF f
  <2>4. f \in Injection(Running, Others)
    BY <2>2, <2>3 DEF Injection, IsInjective
  <2> QED
    BY <1>3, <2>4, FS_Injection
<1>6. Cardinality(Running) \in Nat
  <2>1. IsFiniteSet(Steps)
    BY FS_Interval, NumStepsAssumption
  <2>2. IsFiniteSet(Running)
    BY <2>1, FS_Subset
  <2> QED
    BY <2>2, FS_CardinalityType
<1> QED
  BY <1>1, <1>3, <1>5, <1>6

-------------------------------------------------------------------------------
(* Every step maps to a step or to a stutter *)

\* The dispatcher answers once, when nothing runs, and otherwise stutters.
LEMMA DispatchMaps ==
    ASSUME IInv, IInv', Dispatch
    PROVE  \/ Workflow!AnswerOk \/ Workflow!AnswerError
           \/ UNCHANGED <<needs, concurrency, Statuses, Answer>>
<1> USE DEF Dispatch, Workflow!AnswerOk, Workflow!AnswerError, Workflow!With
<1>1. UNCHANGED <<needs, concurrency>> /\ phase # "died"
  BY DEF Plan, BeginWave, ReturnOk, AddToGroup, HandOver, EndWave
<1>2. Answer = "none"
  BY DEF Answer, IInv, Waves, Plan, BeginWave, ReturnOk, AddToGroup, HandOver, EndWave
<1>3. CASE Plan
  <2>1. \A s \in Steps : StatusOf(s)' = StatusOf(s) /\ StatusOf(s) = "pending"
    BY <1>3, StatusTableHolds, StatusTableNext
       DEF Plan, IInv, TypeOK, Waves, Recorded, StatusTable, Results, Started
  <2>2. CASE Plannable
    BY <1>1, <1>2, <1>3, <2>1, <2>2 DEF Plan, Statuses, Answer, IInv, Waves
  <2>3. CASE ~Plannable
    <3>1. Steps # {}
      BY <2>3 DEF Plannable
    <3>2. Answer' = "error"
      BY <1>3, <2>3 DEF Plan, Answer
    <3>3. {s \in Steps : Statuses[s] = "running"} = {}
      BY <2>1 DEF Statuses
    <3>4. {s \in Steps : Statuses[s] = "pending"} = Steps
      BY <2>1 DEF Statuses
    <3>5. Statuses' = Statuses
      BY <2>1 DEF Statuses
    <3>6. Workflow!AnswerError
      BY <1>1, <1>2, <3>1, <3>2, <3>3, <3>4, <3>5 DEF Statuses
    <3> QED
      BY <3>6
  <2> QED
    BY <2>2, <2>3
<1>4. CASE BeginWave
  <2>1. \A s \in Steps : StatusOf(s)' = StatusOf(s)
    <3> SUFFICES ASSUME NEW s \in Steps PROVE StatusOf(s)' = StatusOf(s)
      OBVIOUS
    <3>1. StatusTable(s) /\ StatusTable(s)'
      BY StatusTableHolds, StatusTableNext DEF IInv
    <3>2. s \notin finished => rs[s] = "none"
      BY <1>4 DEF BeginWave, IInv, TypeOK, Waves, Recorded
    <3> QED
      BY <1>4, <3>1, <3>2 DEF BeginWave, StatusTable
  <2> QED
    BY <1>1, <1>2, <1>4, <2>1 DEF BeginWave, Statuses, Answer
<1>5. CASE ReturnOk
  <2>1. \A s \in Steps : StatusOf(s) = "ok" /\ StatusOf(s)' = "ok"
    BY <1>5, StatusTableHolds, StatusTableNext
       DEF ReturnOk, IInv, Returned, StatusTable
  <2>2. Answer' = "ok"
    BY <1>5 DEF ReturnOk, Answer
  <2> QED
    BY <1>1, <1>2, <2>1, <2>2 DEF Statuses
<1>6. CASE \E s \in Steps : AddToGroup(s) \/ \E w \in Workers : HandOver(w, s)
  <2>1. PICK x \in Steps : AddToGroup(x) \/ \E w \in Workers : HandOver(w, x)
    BY <1>6
  <2>2. UNCHANGED <<rs, finished, ret>> /\ phase' # "died"
    BY <2>1 DEF AddToGroup, HandOver
  <2>3. \A s \in Steps : pc'[s] \in Started <=> pc[s] \in Started
    BY <2>1 DEF AddToGroup, HandOver, IsNext, Unsent, Started, IInv, TypeOK
  <2>4. Statuses' = Statuses
    BY <2>2, <2>3, StatusKept DEF IInv, Statuses
  <2> QED
    BY <1>1, <1>2, <2>2, <2>4 DEF Answer
<1>7. CASE EndWave
  <2>1. \A s \in Steps : pc[s] \notin Started
    BY <1>7 DEF EndWave, IInv, Group, InFlight
  <2>2. \A s \in Steps : StatusOf(s) # "running"
    BY <2>1, StatusTableHolds DEF IInv, TypeOK, Results, StatusTable
  <2>3. CASE \E s \in wave : rs[s] = "err"
    <3>1. Statuses' = Statuses
      BY <1>7, <2>3, StatusKept DEF EndWave, IInv, Statuses
    <3>2. \E s \in Steps : StatusOf(s) = "failed"
      BY <1>7, <2>3, StatusTableHolds DEF EndWave, IInv, TypeOK, Waves, StatusTable
    <3>3. Answer' = "error"
      BY <1>7, <2>3 DEF EndWave, Answer
    <3> QED
      BY <1>1, <1>2, <2>2, <3>1, <3>2, <3>3 DEF Statuses
  <2>4. CASE ~ \E s \in wave : rs[s] = "err"
    <3>1. \A s \in Steps : StatusOf(s)' = StatusOf(s)
      <4> SUFFICES ASSUME NEW s \in Steps PROVE StatusOf(s)' = StatusOf(s)
        OBVIOUS
      <4>1. StatusTable(s) /\ StatusTable(s)'
        BY StatusTableHolds, StatusTableNext DEF IInv
      <4>2. s \in wave => rs[s] = "ok"
        <5>1. s \in wave => pc[s] = "done"
          BY <1>7 DEF EndWave, IInv, TypeOK, Group, Unsent, Places
        <5>2. ~cancelled
          BY <2>4 DEF IInv, Recorded
        <5> QED
          BY <2>4, <5>1, <5>2 DEF IInv, TypeOK, Recorded, Results
      <4>3. s \notin wave => rs[s] = "none" /\ pc'[s] = pc[s]
        BY <1>7 DEF EndWave, IInv, TypeOK, Recorded
      <4> QED
        BY <1>7, <2>4, <4>1, <4>2, <4>3, StatusKept DEF EndWave, IInv, StatusTable
    <3> QED
      BY <1>1, <1>2, <1>7, <2>4, <3>1 DEF EndWave, Statuses, Answer
  <2> QED
    BY <2>3, <2>4
<1> QED
  BY <1>3, <1>4, <1>5, <1>6, <1>7

\* A step's closure begins, ends or cancels the step, and otherwise stutters.
LEMMA ExecuteMaps ==
    ASSUME IInv, IInv', NEW w \in Workers, Execute(w)
    PROVE  \/ \E s \in Steps : Workflow!Begin(s) \/ Workflow!End(s) \/ Workflow!Cancel(s)
           \/ UNCHANGED <<needs, concurrency, Statuses, Answer>>
<1> USE DEF Workflow!With
<1>1. PICK s \in Steps :
        \/ SkipCancelled(w, s) \/ BeginRead(w, s) \/ EndRead(w, s)
        \/ FailRead(w, s) \/ RunJob(w, s) \/ BeginSetRun(w, s)
        \/ EndSetRun(w, s) \/ BeginSetStep(w, s) \/ EndSetStep(w, s)
        \/ Record(w, s) \/ Done(w, s)
  BY DEF Execute
<1>2. UNCHANGED <<needs, concurrency, phase, ret, finished, wave, Answer>>
  BY <1>1 DEF Answer, SkipCancelled, BeginRead, EndRead, FailRead, RunJob,
     BeginSetRun, EndSetRun, BeginSetStep, EndSetStep, Record, Done
<1>3. PICK p \in InFlight : At(w, s, p)
  BY <1>1 DEF SkipCancelled, BeginRead, EndRead, FailRead, RunJob, BeginSetRun,
     EndSetRun, BeginSetStep, EndSetStep, Record, Done, InFlight, Started
<1>4. \A t \in Steps \ {s} : rs'[t] = rs[t] /\ pc'[t] = pc[t]
  BY <1>1 DEF Goto, IInv, TypeOK, SkipCancelled, BeginRead, EndRead, FailRead,
     RunJob, BeginSetRun, EndSetRun, BeginSetStep, EndSetStep, Record, Done
<1>5. Statuses' = [Statuses EXCEPT ![s] = StatusOf(s)']
  BY <1>2, <1>4, OnlyOneMoves DEF IInv
<1>6. Answer = "none" /\ s \in wave /\ s \notin finished
  BY <1>3, StepInHand
<1>7. needs[s] \subseteq {t \in Steps : Statuses[t] = "ok"}
  BY <1>3, StepInHand DEF Statuses
<1>8. cancelled <=> {t \in Steps : Statuses[t] = "failed"} # {}
  BY <1>3, StepInHand, CancelledMeansFailed DEF Statuses
<1>9. StatusTable(s) /\ StatusTable(s)'
  BY StatusTableHolds, StatusTableNext DEF IInv
<1>10. CASE SkipCancelled(w, s)
  <2>1. rs[s] = "none" /\ pc[s] = "sent"
    BY <1>10, StepInHand DEF SkipCancelled, InFlight, At
  <2>2. Statuses[s] = "pending"
    BY <1>6, <1>9, <2>1 DEF StatusTable, Statuses, Started
  <2>3. StatusOf(s)' = "cancelled"
    BY <1>2, <1>6, <1>9, <1>10 DEF SkipCancelled, StatusTable, IInv, TypeOK
  <2>4. Workflow!Cancel(s)
    BY <1>2, <1>5, <1>6, <1>7, <1>8, <1>10, <2>2, <2>3
       DEF SkipCancelled, Statuses, Workflow!Cancel
  <2> QED
    BY <2>4
<1>11. CASE BeginRead(w, s)
  <2>1. rs[s] = "none" /\ pc[s] = "sent" /\ At(w, s, "sent")
    BY <1>11, StepInHand DEF BeginRead, InFlight, At
  <2>2. Statuses[s] = "pending"
    BY <1>6, <1>9, <2>1 DEF StatusTable, Statuses, Started
  <2>3. StatusOf(s)' = "running"
    BY <1>2, <1>6, <1>9, <1>11, <2>1
       DEF BeginRead, Goto, StatusTable, Started, IInv, TypeOK
  <2>4. Cardinality({t \in Steps : Statuses[t] = "running"}) < concurrency
    BY <2>1, RoomForOneMore DEF Statuses
  <2>5. Workflow!Cardinality({t \in Steps : Statuses[t] = "running"}) < concurrency
    BY <2>4 DEF Workflow!Cardinality, Cardinality
  <2>6. Workflow!Begin(s)
    BY <1>2, <1>5, <1>6, <1>7, <1>8, <1>11, <2>2, <2>3, <2>5
       DEF BeginRead, Statuses, Workflow!Begin
  <2> QED
    BY <2>6
<1>12. CASE Record(w, s)
  <2>1. rs[s] = "none" /\ pc[s] = "toRecord"
    BY <1>12, StepInHand DEF Record, InFlight, Started, At
  <2>2. Statuses[s] = "running"
    BY <1>6, <1>9, <2>1 DEF StatusTable, Statuses, Started
  <2>3. StatusOf(s)' \in {"ok", "failed"}
    <3>1. rs'[s] \in {"ok", "err"}
      BY <1>12, <2>1 DEF Record, IInv, TypeOK, Outcomes
    <3> QED
      BY <1>2, <1>6, <1>9, <3>1 DEF StatusTable
  <2>4. Workflow!End(s)
    BY <1>2, <1>5, <1>6, <2>2, <2>3 DEF Statuses, Workflow!End
  <2> QED
    BY <2>4
<1>13. CASE Done(w, s)
  <2>1. pc[s] = "recorded" /\ rs'[s] = rs[s] /\ pc'[s] = "done"
    BY <1>13 DEF Done, At, Goto, IInv, TypeOK
  <2>2. StatusOf(s)' = StatusOf(s)
    BY <1>2, <2>1, StatusKept DEF IInv, Started
  <2> QED
    BY <1>2, <1>5, <2>2 DEF Statuses
<1>14. CASE \/ EndRead(w, s) \/ FailRead(w, s) \/ RunJob(w, s)
            \/ BeginSetRun(w, s) \/ EndSetRun(w, s)
            \/ BeginSetStep(w, s) \/ EndSetStep(w, s)
  <2>1. rs'[s] = rs[s] /\ pc[s] \in Started /\ pc'[s] \in Started
    BY <1>14 DEF EndRead, FailRead, RunJob, BeginSetRun, EndSetRun,
       BeginSetStep, EndSetStep, At, Goto, Started, IInv, TypeOK
  <2>2. StatusOf(s)' = StatusOf(s)
    BY <1>2, <2>1, StatusKept DEF IInv
  <2> QED
    BY <1>2, <1>5, <2>2 DEF Statuses
<1> QED
  BY <1>1, <1>10, <1>11, <1>12, <1>13, <1>14

\* The end of the process is the end of the workflow.
LEMMA DieMaps ==
    ASSUME IInv, IInv', Die PROVE Workflow!Die
<1>1. Answer = "none" /\ Answer' = "died"
  BY DEF Die, MapRace, Answer, IInv, Group, Waves, InFlight, Started, Reading
<1>2. Statuses' = Statuses
  BY StatusKept DEF Die, IInv, Statuses
<1> QED
  BY <1>1, <1>2 DEF Die, Statuses, Workflow!Die

\* The machinery starts where the workflow does.
LEMMA InitMaps == Init => Workflow!Init
<1> SUFFICES ASSUME Init PROVE Workflow!Init
  OBVIOUS
<1>1. \A s \in Steps : StatusOf(s) = "pending"
  BY InitIInv, StatusTableHolds DEF Init, IInv, StatusTable, Started
<1> QED
  BY <1>1, MaxConcurrencyAssumption, NeedsAssumption
     DEF Init, Answer, Workflow!Init

\* Every step of the machinery is a step of the workflow or none.
LEMMA StepMaps == IInv /\ IInv' /\ [Next]_vars => [Workflow!Next]_(Workflow!vars)
<1> SUFFICES ASSUME IInv, IInv', [Next]_vars
             PROVE  Workflow!Next \/ UNCHANGED Workflow!vars
  OBVIOUS
<1> USE DEF Statuses, Workflow!Next, Workflow!vars
<1>1. CASE Dispatch
  BY <1>1, DispatchMaps
<1>2. ASSUME NEW w \in Workers, Execute(w)
      PROVE  Workflow!Next \/ UNCHANGED Workflow!vars
  BY <1>2, ExecuteMaps
<1>3. CASE Die
  BY <1>3, DieMaps
<1>4. CASE Stop \/ UNCHANGED vars
  <2>1. UNCHANGED vars
    BY <1>4 DEF Stop
  <2>2. Statuses' = Statuses
    BY <2>1, StatusKept DEF vars, IInv
  <2> QED
    BY <2>1, <2>2 DEF vars, Answer
<1> QED
  BY <1>1, <1>2, <1>3, <1>4 DEF Next

\* For every job, needs and concurrency: waves, channels, mutexes and wait
\* group implement the workflow, with its limit on concurrency, its order of
\* needs, its cancellation and its single answer.
THEOREM Refinement == Spec => ImplementsWorkflow
<1> QED
  BY InitMaps, StepMaps, Invariance, PTL DEF Spec, ImplementsWorkflow, Workflow!Spec
===============================================================================
