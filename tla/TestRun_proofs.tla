----------------------------- MODULE TestRun_proofs -----------------------------
(***************************************************************************)
(* Proofs about TestRun and the matcher of ExecMatch, for any test cases,  *)
(* any steps of the jobs under test and any number of commands.            *)
(*                                                                         *)
(* IInv says that the invocations are counted before the expectations are  *)
(* popped (Counted), whatever the steps do at the same time, and what a    *)
(* step may rely on that has the matcher for itself (Alone).  Obeyed says  *)
(* what such a step has executed (Followed), by the numbers its commands   *)
(* have among those that are subject to the expectations.  Judging says    *)
(* how an error comes about and which cases have been judged (Staged).     *)
(***************************************************************************)
EXTENDS TestRun, FiniteSetTheorems, SequenceTheorems, TLAPS

InExec == {"match", "pop", "store"}

\* A thread that is no step of the job under test does nothing.
Outside == \A t \in Threads \ steps : pc[t] = "next" /\ script[t] = <<>>

\* An empty list of a test with expectations has been popped, after a command
\* that was counted.  What a step has popped was not empty, or it died of it.
Counted ==
    /\ \A t \in Threads : pc[t] \in InExec => script[t] # <<>> /\ invocations > 0
    /\ \A t \in Threads : pc[t] = "store" /\ ~died => popped[t] # <<>>
    /\ initial # <<>> => expected # <<>> \/ invocations > 0

\* The only step of a job finds the expectations as it left them.
Alone ==
    \A t \in Threads : steps = {t} =>
        /\ ~died
        /\ validated \o expected = initial
        /\ pc[t] \in InExec => expected # <<>>
        /\ pc[t] \in {"pop", "store"} => Head(expected) = Current(t).cmd
        /\ pc[t] = "store" => popped[t] = expected

IInv == TypeOK /\ Outside /\ Counted /\ Alone /\ MockedWhenInherited

-------------------------------------------------------------------------------
(* Lemmas *)

LEMMA BoundedIsSeq ==
    ASSUME NEW S, NEW n \in Nat PROVE BoundedSeq(S, n) \subseteq Seq(S)
BY SeqDef DEF BoundedSeq, SeqOf

\* What is popped from the expectations is validated.
LEMMA PoppedIsValidated ==
    ASSUME NEW S, NEW v \in Seq(S), NEW e \in Seq(S), e # <<>>
    PROVE  Append(v, Head(e)) \o Tail(e) = v \o e
<1>1. Head(e) \in S /\ Tail(e) \in Seq(S) /\ <<Head(e)>> \in Seq(S)
  BY HeadTailProperties
<1>2. Append(v, Head(e)) = v \o <<Head(e)>>
  BY <1>1, AppendIsConcat
<1>3. <<Head(e)>> \o Tail(e) = e
  BY SubSeqRecursiveFirst, SubSeqFull, TailIsSubSeq, EmptySeq, HeadTailProperties
<1> QED
  BY <1>1, <1>2, <1>3, ConcatAssociative

\* Only a step of the job is in execCmd, with a command to execute.
LEMMA OnlySteps ==
    ASSUME IInv, NEW t \in Threads, ExecCmd(t)
    PROVE  /\ t \in steps /\ ~died /\ script[t] # <<>>
           /\ Current(t) \in Exec /\ Tail(script[t]) \in Seq(Exec)
<1>1. /\ ~died /\ script[t] # <<>>
      /\ pc[t] \in InExec \/ script[t] # <<>>
  BY DEF IInv, TypeOK, Counted, InExec, ExecCmd, RunForConfig, RunUnmatched, RejectExtra,
         Count, Match, Pop, StorePopped, HasMore, At
<1>2. t \in steps
  BY <1>1 DEF IInv, Outside
<1>3. script[t] \in Seq(Exec)
  BY DEF IInv, TypeOK
<1> QED
  BY <1>1, <1>2, <1>3, HeadTailProperties DEF Current

\* A state like the one before it, as far as the invariant is concerned.
LEMMA StutterKeeps == IInv /\ UNCHANGED vars => IInv'
BY DEF IInv, TypeOK, Outside, Counted, Alone, MockedWhenInherited, Current, vars, test

-------------------------------------------------------------------------------
(* The steps *)

LEMMA InitHolds == TestInit => IInv
<1> SUFFICES ASSUME TestInit PROVE IInv
  OBVIOUS
<1> USE DEF TestInit, Init
<1>1. /\ <<>> \in Seq(Commands) /\ <<>> \in Seq(Exec)
  OBVIOUS
<1>2. TypeOK
  BY <1>1 DEF TypeOK
<1>3. Outside /\ Counted /\ Alone /\ MockedWhenInherited
  BY DEF Outside, Counted, InExec, Alone, MockedWhenInherited
<1> QED
  BY <1>2, <1>3 DEF IInv

\* A case starts with nothing executed and all of its expectations.
LEMMA StartCaseKeeps == IInv /\ ~died /\ StartCase => IInv'
<1> SUFFICES ASSUME IInv, ~died, StartCase PROVE IInv'
  OBVIOUS
<1>1. /\ steps' \subseteq Threads
      /\ initial' \in Seq(Commands)
      /\ planned' \in [Threads -> Seq(Exec)]
      /\ \A t \in Threads \ steps' : planned'[t] = <<>>
  <2>1. /\ BoundedSeq(Commands, MaxExpected) \subseteq Seq(Commands)
        /\ BoundedSeq(Exec, MaxExecs) \subseteq Seq(Exec)
    BY BoundedIsSeq, MaxExpectedAssumption, MaxExecsAssumption
  <2> QED
    BY <2>1 DEF StartCase, AnyJob
<1>2. /\ expected' = initial' /\ invocations' = 0 /\ script' = planned'
      /\ pc' = [t \in Threads |-> "next"] /\ popped' = [t \in Threads |-> <<>>]
      /\ validated' = <<>> /\ ran' = {} /\ ~died' /\ died' \in BOOLEAN
  BY DEF StartCase, AnyJob, IInv, TypeOK
<1>3. <<>> \in Seq(Commands)
  OBVIOUS
<1>4. TypeOK'
  BY <1>1, <1>2, <1>3 DEF TypeOK
<1>5. validated' \o expected' = initial'
  BY <1>1, <1>2, ConcatEmptySeq
<1>6. Outside' /\ Counted' /\ Alone' /\ MockedWhenInherited'
  BY <1>1, <1>2, <1>5 DEF Outside, Counted, InExec, Alone, MockedWhenInherited
<1> QED
  BY <1>4, <1>6 DEF IInv

LEMMA JudgeMatches == IInv /\ (\E v \in {"pass", "fail"} : Judge(v)) => IInv'
<1> SUFFICES ASSUME IInv, NEW v \in {"pass", "fail"}, Judge(v) PROVE IInv'
  OBVIOUS
<1> USE DEF EndOfCase, Judge
<1>1. <<>> \in Seq(Commands) /\ <<>> \in Seq(Exec)
  OBVIOUS
<1>2. TypeOK'
  BY <1>1 DEF IInv, TypeOK
<1>3. Outside' /\ Counted' /\ Alone' /\ MockedWhenInherited'
  BY DEF Outside, Counted, InExec, Alone, MockedWhenInherited
<1> QED
  BY <1>2, <1>3 DEF IInv

\* A command is executed for real only if it is not subject to the matcher, or
\* if there was nothing to expect.
LEMMA RunKeeps ==
    ASSUME IInv, NEW t \in Threads, RunForConfig(t) \/ RunUnmatched(t)
    PROVE  IInv'
<1> USE DEF IInv
<1>1. /\ t \in steps /\ Current(t) \in Exec /\ Tail(script[t]) \in Seq(Exec)
      /\ pc[t] = "next"
  BY OnlySteps DEF ExecCmd, RunForConfig, RunUnmatched, HasMore, At
<1>2. /\ ran' = ran \cup {Current(t)}
      /\ script' = [script EXCEPT ![t] = Tail(@)]
      /\ UNCHANGED <<test, expected, invocations, pc, popped, validated, died>>
  BY DEF RunForConfig, RunUnmatched, ReallyRun, Advance
<1>3. TypeOK'
  BY <1>1, <1>2 DEF TypeOK, test
<1>4. Outside'
  BY <1>1, <1>2 DEF Outside, TypeOK, test
<1>5. Counted'
  BY <1>1, <1>2 DEF Counted, InExec, TypeOK, test
<1>6. Alone'
  BY <1>1, <1>2 DEF Alone, InExec, TypeOK, test
<1>7. initial # <<>> => Current(t).from = "config"
  BY <1>1 DEF RunForConfig, RunUnmatched, Inherits, Counted, TypeOK, Exec, Origins
<1>8. MockedWhenInherited'
  BY <1>2, <1>7 DEF MockedWhenInherited, test
<1> QED
  BY <1>3, <1>4, <1>5, <1>6, <1>8

LEMMA CheckKeeps ==
    ASSUME IInv, NEW t \in Threads, RejectExtra(t) \/ Count(t)
    PROVE  IInv'
<1> USE DEF IInv
<1>1. t \in steps /\ script[t] # <<>>
  BY OnlySteps DEF ExecCmd
<1>2. PICK place \in {"failed", "match"} :
          /\ pc' = [pc EXCEPT ![t] = place]
          /\ invocations' \in Nat /\ invocations' >= invocations
          /\ place = "match" => expected # <<>> /\ invocations' > 0
  BY DEF RejectExtra, Count, Goto, TypeOK
<1>3. UNCHANGED <<test, expected, script, popped, validated, ran, died>>
  BY DEF RejectExtra, Count
<1>4. TypeOK'
  BY <1>2, <1>3 DEF TypeOK, test
<1>5. Outside'
  BY <1>1, <1>2, <1>3 DEF Outside, TypeOK, test
<1>6. Counted'
  BY <1>1, <1>2, <1>3 DEF Counted, InExec, TypeOK, test
<1>7. Alone'
  BY <1>1, <1>2, <1>3 DEF Alone, InExec, TypeOK, test, Current
<1>8. MockedWhenInherited'
  BY <1>3 DEF MockedWhenInherited, test
<1> QED
  BY <1>4, <1>5, <1>6, <1>7, <1>8

\* The list a step finds empty, and panics, another step has popped.
LEMMA MatchKeeps ==
    ASSUME IInv, NEW t \in Threads, Match(t) \/ Pop(t)
    PROVE  IInv'
<1> USE DEF IInv
<1>1. t \in steps /\ script[t] # <<>> /\ pc[t] \in InExec /\ pc[t] # "store"
  BY OnlySteps DEF ExecCmd, Match, Pop, At, InExec
<1>2. PICK place \in {"failed", "pop", "store"} :
          /\ pc' = [pc EXCEPT ![t] = place]
          /\ died' = (expected = <<>>)
          /\ place = "pop" => ~died' /\ Head(expected) = Current(t).cmd
          /\ place = "store" => pc[t] = "pop" /\ popped' = [popped EXCEPT ![t] = expected]
          /\ place # "store" => popped' = popped
  BY DEF Match, Pop, Goto, At
<1>3. UNCHANGED <<test, expected, invocations, script, validated, ran>>
  BY DEF Match, Pop
<1>4. TypeOK'
  BY <1>2, <1>3 DEF TypeOK, test
<1>5. Outside'
  BY <1>1, <1>2, <1>3 DEF Outside, TypeOK, test
<1>6. Counted'
  <2>1. \A r \in Threads : pc'[r] \in InExec => script'[r] # <<>> /\ invocations' > 0
    BY <1>1, <1>2, <1>3 DEF Counted, InExec, TypeOK
  <2>2. \A r \in Threads \ {t} : pc'[r] = pc[r] /\ popped'[r] = popped[r]
    BY <1>2 DEF TypeOK
  <2>3. pc'[t] = "store" /\ ~died' => popped'[t] # <<>>
    BY <1>2 DEF TypeOK
  <2>4. ~died
    BY OnlySteps DEF ExecCmd
  <2> QED
    BY <1>2, <1>3, <2>1, <2>2, <2>3, <2>4 DEF Counted, test
<1>7. Alone'
  <2> SUFFICES ASSUME steps' = {t}
               PROVE  /\ ~died'
                      /\ validated' \o expected' = initial'
                      /\ pc'[t] \in InExec => expected' # <<>>
                      /\ pc'[t] \in {"pop", "store"} => Head(expected') = Current(t)'.cmd
                      /\ pc'[t] = "store" => popped'[t] = expected'
    BY <1>1, <1>3 DEF Alone, test
  <2>1. /\ expected # <<>> /\ validated \o expected = initial
        /\ pc[t] = "pop" => Head(expected) = Current(t).cmd
    BY <1>1, <1>3 DEF Alone, test
  <2>2. pc'[t] = place /\ Current(t)' = Current(t)
    BY <1>2, <1>3 DEF TypeOK, Current
  <2>3. place = "store" => popped'[t] = expected
    BY <1>2 DEF TypeOK
  <2> QED
    BY <1>2, <1>3, <2>1, <2>2, <2>3 DEF test
<1>8. MockedWhenInherited'
  BY <1>3 DEF MockedWhenInherited, test
<1> QED
  BY <1>4, <1>5, <1>6, <1>7, <1>8

LEMMA StoreKeeps == ASSUME IInv, NEW t \in Threads, StorePopped(t) PROVE IInv'
<1> USE DEF IInv
<1>1. /\ t \in steps /\ Current(t) \in Exec /\ Tail(script[t]) \in Seq(Exec)
      /\ pc[t] = "store" /\ ~died
  BY OnlySteps DEF ExecCmd, StorePopped, At
<1>2. /\ expected' = Tail(popped[t])
      /\ validated' = Append(validated, Current(t).cmd)
      /\ script' = [script EXCEPT ![t] = Tail(@)]
      /\ pc' = [pc EXCEPT ![t] = "next"]
      /\ UNCHANGED <<test, invocations, popped, ran, died>>
  BY DEF StorePopped, Advance, Goto
<1>3. TypeOK'
  <2>1. Current(t).cmd \in Commands
    BY <1>1 DEF Exec
  <2>2. popped[t] \in Seq(Commands) /\ popped[t] # <<>>
    BY <1>1 DEF Counted, TypeOK
  <2>3. expected' \in Seq(Commands)
    BY <1>2, <2>2, HeadTailProperties
  <2>4. validated' \in Seq(Commands)
    BY <1>2, <2>1, AppendProperties DEF TypeOK
  <2> QED
    BY <1>1, <1>2, <2>3, <2>4 DEF TypeOK, test
<1>4. Outside'
  BY <1>1, <1>2 DEF Outside, TypeOK, test
<1>5. Counted'
  BY <1>1, <1>2 DEF Counted, InExec, TypeOK, test
<1>6. Alone'
  <2> SUFFICES ASSUME steps' = {t}
               PROVE  ~died' /\ validated' \o expected' = initial' /\ pc'[t] = "next"
    BY <1>1, <1>2 DEF Alone, InExec, test
  <2>1. /\ ~died /\ validated \o expected = initial /\ expected # <<>>
        /\ Head(expected) = Current(t).cmd /\ popped[t] = expected
    BY <1>1, <1>2 DEF Alone, InExec, test
  <2>2. validated' \o expected' = validated \o expected
    BY <1>2, <2>1, PoppedIsValidated DEF TypeOK
  <2> QED
    BY <1>2, <2>1, <2>2 DEF TypeOK, test
<1>7. MockedWhenInherited'
  BY <1>2 DEF MockedWhenInherited, test
<1> QED
  BY <1>3, <1>4, <1>5, <1>6, <1>7

-------------------------------------------------------------------------------
(* All steps *)

LEMMA NextKeeps == IInv /\ [TestNext]_testVars => IInv'
<1> SUFFICES ASSUME IInv, [TestNext]_testVars PROVE IInv'
  OBVIOUS
<1>1. CASE JobEnds \/ NotChosen \/ Report \/ TestStop \/ UNCHANGED testVars
  BY <1>1, StutterKeeps
  DEF JobEnds, NotChosen, Report, TestStop, testVars
<1>2. CASE RunCase
  BY <1>2, StartCaseKeeps DEF RunCase, Due
<1>3. ASSUME NEW t \in Threads, Execute(t) PROVE IInv'
  BY <1>3, RunKeeps, CheckKeeps, MatchKeeps, StoreKeeps DEF Execute, ExecCmd
<1>4. CASE CannotStart \/ EndCase
  BY <1>4, JudgeMatches DEF CannotStart, EndCase
<1> QED
  BY <1>1, <1>2, <1>3, <1>4 DEF TestNext

LEMMA Invariance == TestSpec => []IInv
BY InitHolds, NextKeeps, PTL DEF TestSpec

-------------------------------------------------------------------------------
(* What a job of one step has done, and how a case is judged *)

\* How many of its commands step t is done with.
Executed(t) == Len(planned[t]) - Len(script[t])

\* What a step has still to execute is the end of what it was to execute.
Remaining ==
    \A t \in Threads :
        /\ Executed(t) \in Nat
        /\ \A n \in 1..Len(script[t]) : script[t][n] = planned[t][Executed(t) + n]

\* Without expectations, the matcher is never looked at.
Unmatched ==
    steps # {} /\ initial = <<>> =>
        /\ expected = <<>>
        /\ invocations = 0
        /\ \A t \in Threads : pc[t] = "next"

\* The commands that the only step has executed under the expectations are
\* those that were validated; the one it failed at was not the next expectation.
Followed ==
    \A t \in Threads : steps = {t} /\ initial # <<>> =>
        /\ Len(validated) = Cardinality(Subject(t, Executed(t)))
        /\ \A i \in Subject(t, Executed(t)) :
               planned[t][i].cmd = validated[Cardinality(Subject(t, i))]
        /\ pc[t] # "next" => script[t] # <<>> /\ Inherits(t)
        /\ pc[t] = "failed" => expected = <<>> \/ Head(expected) # Current(t).cmd

Obeyed == Remaining /\ Unmatched /\ Followed

LEMMA SubjectFinite ==
    ASSUME NEW t, NEW i \in Nat
    PROVE  /\ IsFiniteSet(Subject(t, i))
           /\ Cardinality(Subject(t, i)) \in Nat
<1>1. IsFiniteSet(1..i)
  BY FS_Interval
<1>2. IsFiniteSet(Subject(t, i))
  BY <1>1, FS_Subset DEF Subject
<1> QED
  BY <1>2, FS_CardinalityType

LEMMA SubjectNext ==
    ASSUME NEW t, NEW i \in Nat
    PROVE  /\ planned[t][i + 1].from # "called" => Subject(t, i + 1) = Subject(t, i)
           /\ planned[t][i + 1].from = "called" =>
                 /\ Subject(t, i + 1) = Subject(t, i) \cup {i + 1}
                 /\ Cardinality(Subject(t, i + 1)) = Cardinality(Subject(t, i)) + 1
<1>1. 1..(i + 1) = (1..i) \cup {i + 1} /\ i + 1 \notin 1..i
  OBVIOUS
<1>2. planned[t][i + 1].from # "called" => Subject(t, i + 1) = Subject(t, i)
  BY <1>1 DEF Subject
<1>3. planned[t][i + 1].from = "called" => Subject(t, i + 1) = Subject(t, i) \cup {i + 1}
  BY <1>1 DEF Subject
<1>4. i + 1 \notin Subject(t, i) /\ IsFiniteSet(Subject(t, i))
  BY <1>1, SubjectFinite DEF Subject
<1>5. Cardinality(Subject(t, i) \cup {i + 1}) = Cardinality(Subject(t, i)) + 1
  BY <1>4, FS_AddElement
<1> QED
  BY <1>2, <1>3, <1>5

\* The commands executed so far come with numbers up to how many there are.
LEMMA SubjectGrows ==
    ASSUME NEW t, NEW i \in Nat, NEW k \in Subject(t, i)
    PROVE  Cardinality(Subject(t, k)) \in 1..Cardinality(Subject(t, i))
<1>1. k \in 1..i /\ k \in Nat
  BY DEF Subject
<1>2. Subject(t, k) \subseteq Subject(t, i) /\ k \in Subject(t, k)
  BY <1>1 DEF Subject
<1>3. /\ IsFiniteSet(Subject(t, i)) /\ Cardinality(Subject(t, i)) \in Nat
      /\ IsFiniteSet(Subject(t, k)) /\ Cardinality(Subject(t, k)) \in Nat
  BY <1>1, SubjectFinite
<1>4. Cardinality(Subject(t, k)) <= Cardinality(Subject(t, i))
  BY <1>2, <1>3, FS_Subset
<1>5. Cardinality(Subject(t, k)) # 0
  BY <1>2, <1>3, FS_EmptySet
<1> QED
  BY <1>3, <1>4, <1>5

\* A step is done with one more command.
LEMMA AdvanceRemains ==
    ASSUME IInv, Remaining, NEW t \in Threads, script[t] # <<>>, Advance(t), UNCHANGED planned
    PROVE  /\ Remaining'
           /\ Executed(t)' = Executed(t) + 1
           /\ planned[t][Executed(t) + 1] = Current(t)
           /\ \A r \in Threads \ {t} : script'[r] = script[r]
<1>1. script[t] \in Seq(Exec) /\ script \in [Threads -> Seq(Exec)]
  BY DEF IInv, TypeOK
<1>2. /\ script'[t] = Tail(script[t])
      /\ \A r \in Threads \ {t} : script'[r] = script[r]
  BY <1>1 DEF Advance
<1>3. /\ Len(script[t]) \in Nat /\ Len(script[t]) >= 1
      /\ Len(script'[t]) = Len(script[t]) - 1
      /\ \A n \in 1..Len(script'[t]) : script'[t][n] = script[t][n + 1]
      /\ Current(t) = script[t][1]
  BY <1>1, <1>2, EmptySeq, HeadTailProperties DEF Current
<1>4. Executed(t) \in Nat /\ \A n \in 1..Len(script[t]) : script[t][n] = planned[t][Executed(t) + n]
  BY DEF Remaining
<1>5. Len(planned[t]) \in Nat
  BY DEF IInv, TypeOK
<1>6. Executed(t)' = Executed(t) + 1
  BY <1>3, <1>5 DEF Executed
<1>7. planned[t][Executed(t) + 1] = Current(t)
  BY <1>3, <1>4
<1>8. \A n \in 1..Len(script'[t]) : script'[t][n] = planned[t][Executed(t)' + n]
  <2> SUFFICES ASSUME NEW n \in 1..Len(script'[t])
               PROVE  script'[t][n] = planned[t][Executed(t)' + n]
    OBVIOUS
  <2>1. n + 1 \in 1..Len(script[t])
    BY <1>3
  <2>2. script'[t][n] = planned[t][Executed(t) + (n + 1)]
    BY <1>3, <1>4, <2>1
  <2> QED
    BY <1>4, <1>6, <2>2
<1>9. ASSUME NEW r \in Threads
      PROVE  /\ Executed(r)' \in Nat
             /\ \A n \in 1..Len(script'[r]) : script'[r][n] = planned[r][Executed(r)' + n]
  <2>1. CASE r = t
    BY <1>4, <1>6, <1>8, <2>1
  <2>2. CASE r # t
    BY <1>2, <2>2 DEF Remaining, Executed
  <2> QED
    BY <2>1, <2>2
<1> QED
  BY <1>2, <1>6, <1>7, <1>9 DEF Remaining

\* A case begins with nothing executed.
LEMMA BoundsObey ==
    ASSUME IInv', (StartCase \/ EndOfCase)
    PROVE  Obeyed'
<1>1. /\ script' = planned' /\ pc' = [t \in Threads |-> "next"]
      /\ validated' = <<>>
      /\ steps' # {} => expected' = initial' /\ invocations' = 0
  BY DEF StartCase, EndOfCase, AnyJob
<1>2. planned' \in [Threads -> Seq(Exec)]
  BY DEF IInv, TypeOK
<1>3. \A t \in Threads : Executed(t)' = 0 /\ Len(planned'[t]) \in Nat
  BY <1>1, <1>2 DEF Executed
<1>4. Remaining'
  BY <1>1, <1>3 DEF Remaining
<1>5. Unmatched'
  BY <1>1 DEF Unmatched
<1>6. \A t \in Threads : Subject(t, Executed(t))' = {}
  BY <1>3 DEF Subject
<1>7. Followed'
  BY <1>1, <1>3, <1>6, FS_EmptySet DEF Followed
<1> QED
  BY <1>4, <1>5, <1>7 DEF Obeyed

\* A command that is run for real is not subject to the expectations, if there
\* are any.
LEMMA RunObeys ==
    ASSUME IInv, Obeyed, NEW t \in Threads, RunForConfig(t) \/ RunUnmatched(t)
    PROVE  Obeyed'
<1>1. /\ t \in steps /\ script[t] # <<>> /\ Current(t) \in Exec /\ pc[t] = "next"
      /\ Advance(t)
      /\ UNCHANGED <<test, expected, invocations, pc, validated>>
  BY OnlySteps DEF ExecCmd, RunForConfig, RunUnmatched, HasMore, At, ReallyRun
<1>2. initial # <<>> => Current(t).from # "called"
  BY DEF RunForConfig, RunUnmatched, Inherits, IInv, Counted
<1>3. /\ Remaining'
      /\ Executed(t)' = Executed(t) + 1
      /\ planned[t][Executed(t) + 1] = Current(t)
  BY <1>1, AdvanceRemains DEF Obeyed, test
<1>4. Unmatched'
  BY <1>1 DEF Obeyed, Unmatched, test
<1>5. ASSUME NEW r \in Threads, steps' = {r}, initial' # <<>>
      PROVE  /\ Len(validated') = Cardinality(Subject(r, Executed(r))')
             /\ \A i \in Subject(r, Executed(r))' :
                    planned'[r][i].cmd = validated'[Cardinality(Subject(r, i)')]
             /\ pc'[r] = "next"
  <2>1. r = t /\ planned' = planned /\ validated' = validated /\ pc'[r] = "next"
    BY <1>1, <1>5 DEF test
  <2>2. Executed(t) \in Nat
    BY DEF Obeyed, Remaining
  <2>3. Subject(t, Executed(t) + 1) = Subject(t, Executed(t))
    BY <1>1, <1>2, <1>3, <1>5, <2>2, SubjectNext DEF test
  <2>4. Subject(r, Executed(r))' = Subject(t, Executed(t))
    BY <1>3, <2>1, <2>3 DEF Subject
  <2>5. \A i \in Nat : Subject(r, i)' = Subject(t, i)
    BY <2>1 DEF Subject
  <2>6. Subject(t, Executed(t)) \subseteq Nat
    BY DEF Subject
  <2>7. /\ Len(validated) = Cardinality(Subject(t, Executed(t)))
        /\ \A i \in Subject(t, Executed(t)) :
               planned[t][i].cmd = validated[Cardinality(Subject(t, i))]
    BY <1>1, <1>5, <2>1 DEF Obeyed, Followed, test
  <2> QED
    BY <2>1, <2>4, <2>5, <2>6, <2>7
<1>6. Followed'
  BY <1>5 DEF Followed
<1> QED
  BY <1>3, <1>4, <1>6 DEF Obeyed

\* Until the command is matched nothing is executed; a step that fails leaves
\* the expectations as they are.
LEMMA CheckObeys ==
    ASSUME IInv, Obeyed, NEW t \in Threads,
           RejectExtra(t) \/ Count(t) \/ Match(t) \/ Pop(t)
    PROVE  Obeyed'
<1>1. /\ t \in steps /\ script[t] # <<>>
      /\ UNCHANGED <<test, expected, script, validated>>
      /\ pc \in [Threads -> {"next", "match", "pop", "store", "failed"}]
  BY OnlySteps DEF ExecCmd, RejectExtra, Count, Match, Pop, IInv, TypeOK
<1>2. initial # <<>>
  BY <1>1 DEF RejectExtra, Count, Match, Pop, At, Obeyed, Unmatched
<1>3. PICK place \in {"failed", "match", "pop", "store"} : pc' = [pc EXCEPT ![t] = place]
  BY DEF RejectExtra, Count, Match, Pop, Goto
<1>4. pc[t] # "next" \/ Inherits(t)
  BY DEF RejectExtra, Count, Match, Pop, At
<1>5. steps = {t} /\ place = "failed" =>
          expected = <<>> \/ Head(expected) # Current(t).cmd
  <2> SUFFICES ASSUME steps = {t}, place = "failed"
               PROVE  expected = <<>> \/ Head(expected) # Current(t).cmd
    OBVIOUS
  <2>1. pc'[t] = "failed"
    BY <1>1, <1>3
  <2> QED
    BY <1>1, <2>1 DEF RejectExtra, Count, Match, Pop, Goto
<1>6. Remaining'
  BY <1>1 DEF Obeyed, Remaining, Executed, test
<1>7. Unmatched'
  BY <1>1, <1>2 DEF Unmatched, test
<1>8. ASSUME NEW r \in Threads, steps' = {r}, initial' # <<>>
      PROVE  /\ Len(validated') = Cardinality(Subject(r, Executed(r))')
             /\ \A i \in Subject(r, Executed(r))' :
                    planned'[r][i].cmd = validated'[Cardinality(Subject(r, i)')]
             /\ pc'[r] # "next" => script'[r] # <<>> /\ Inherits(r)'
             /\ pc'[r] = "failed" => expected' = <<>> \/ Head(expected') # Current(r)'.cmd
  <2>1. r = t /\ steps = {t} /\ planned' = planned /\ validated' = validated /\ pc'[t] = place
    BY <1>1, <1>3, <1>8 DEF test
  <2>2. Executed(t)' = Executed(t) /\ Current(t)' = Current(t)
    BY <1>1 DEF Executed, Current, test
  <2>3. Subject(r, Executed(r))' = Subject(t, Executed(t))
    BY <2>1, <2>2 DEF Subject
  <2>4. \A i \in Nat : Subject(r, i)' = Subject(t, i)
    BY <2>1 DEF Subject
  <2>5. Subject(t, Executed(t)) \subseteq Nat
    BY DEF Subject
  <2>6. /\ Len(validated) = Cardinality(Subject(t, Executed(t)))
        /\ \A i \in Subject(t, Executed(t)) :
               planned[t][i].cmd = validated[Cardinality(Subject(t, i))]
        /\ pc[t] # "next" => Inherits(t)
    BY <1>2, <2>1 DEF Obeyed, Followed
  <2>7. Inherits(r)'
    BY <1>4, <2>1, <2>2, <2>6 DEF Inherits
  <2> QED
    BY <1>1, <1>5, <2>1, <2>2, <2>3, <2>4, <2>5, <2>6, <2>7
<1>9. Followed'
  BY <1>8 DEF Followed
<1> QED
  BY <1>6, <1>7, <1>9 DEF Obeyed

\* What is validated is the command that is executed.
LEMMA StoreObeys ==
    ASSUME IInv, Obeyed, NEW t \in Threads, StorePopped(t)
    PROVE  Obeyed'
<1>1. /\ t \in steps /\ script[t] # <<>> /\ Current(t) \in Exec /\ pc[t] = "store"
      /\ Advance(t)
      /\ validated' = Append(validated, Current(t).cmd)
      /\ pc' = [pc EXCEPT ![t] = "next"]
      /\ UNCHANGED <<test, invocations>>
  BY OnlySteps DEF ExecCmd, StorePopped, At, Goto
<1>2. initial # <<>>
  BY <1>1 DEF Obeyed, Unmatched
<1>3. /\ Remaining'
      /\ Executed(t)' = Executed(t) + 1
      /\ planned[t][Executed(t) + 1] = Current(t)
  BY <1>1, AdvanceRemains DEF Obeyed, test
<1>4. Unmatched'
  BY <1>1, <1>2 DEF Unmatched, test
<1>5. ASSUME NEW r \in Threads, steps' = {r}, initial' # <<>>
      PROVE  /\ Len(validated') = Cardinality(Subject(r, Executed(r))')
             /\ \A i \in Subject(r, Executed(r))' :
                    planned'[r][i].cmd = validated'[Cardinality(Subject(r, i)')]
             /\ pc'[r] = "next"
  <2> DEFINE i0 == Executed(t)
  <2>1. r = t /\ steps = {t} /\ planned' = planned /\ pc'[r] = "next"
    BY <1>1, <1>5 DEF test, IInv, TypeOK
  <2>2. i0 \in Nat
    BY DEF Obeyed, Remaining
  <2>3. /\ Len(validated) = Cardinality(Subject(t, i0))
        /\ \A i \in Subject(t, i0) :
               planned[t][i].cmd = validated[Cardinality(Subject(t, i))]
        /\ Inherits(t)
    BY <1>1, <1>2, <2>1 DEF Obeyed, Followed
  <2>4. /\ Subject(t, i0 + 1) = Subject(t, i0) \cup {i0 + 1}
        /\ Cardinality(Subject(t, i0 + 1)) = Cardinality(Subject(t, i0)) + 1
    BY <1>3, <2>2, <2>3, SubjectNext DEF Inherits
  <2>5. /\ validated \in Seq(Commands) /\ Current(t).cmd \in Commands
        /\ Len(validated) \in Nat
    BY <1>1 DEF IInv, TypeOK, Exec
  <2>6. /\ Len(validated') = Len(validated) + 1
        /\ validated'[Len(validated) + 1] = Current(t).cmd
        /\ \A n \in 1..Len(validated) : validated'[n] = validated[n]
    BY <1>1, <2>5
  <2>7. ASSUME NEW i \in Subject(t, i0 + 1)
        PROVE  planned[t][i].cmd = validated'[Cardinality(Subject(t, i))]
    <3>1. CASE i = i0 + 1
      BY <1>3, <2>3, <2>4, <2>6, <3>1
    <3>2. CASE i \in Subject(t, i0)
      <4>1. Cardinality(Subject(t, i)) \in 1..Len(validated)
        BY <2>2, <2>3, <3>2, SubjectGrows
      <4> QED
        BY <2>3, <2>6, <3>2, <4>1
    <3> QED
      BY <2>4, <3>1, <3>2
  <2>8. Subject(r, Executed(r))' = Subject(t, i0 + 1)
    BY <1>3, <2>1 DEF Subject
  <2>9. \A i \in Nat : Subject(r, i)' = Subject(t, i)
    BY <2>1 DEF Subject
  <2>10. Subject(t, i0 + 1) \subseteq Nat
    BY <2>2 DEF Subject
  <2> QED
    BY <2>1, <2>3, <2>4, <2>6, <2>7, <2>8, <2>9, <2>10
<1>6. Followed'
  BY <1>5 DEF Followed
<1> QED
  BY <1>3, <1>4, <1>6 DEF Obeyed

-------------------------------------------------------------------------------
(* How the cases are judged *)

CasesTyped ==
    /\ chosen \subseteq Cases
    /\ case \in 1..(NumCases + 1)
    /\ stage \in {"idle", "job", "asserts"}
    /\ asserts \in Asserts
    /\ err \in {"none", "", "unexpected exec", "failed"}
    /\ verdict \in [Cases -> {"none", "pass", "fail"}]
    /\ ret \in {"none", "ok", "error"}

\* A case is judged when its job is over, by an error that a step made or that
\* the job came to otherwise; the cases before it have been judged.
Staged ==
    /\ stage # "idle" => case \in chosen
    /\ stage = "asserts" =>
           /\ Over
           /\ err # "none"
           /\ err = "unexpected exec" <=> \E t \in Threads : pc[t] = "failed"
    /\ \A c \in chosen : c < case => verdict[c] # "none"
    /\ \A c \in Cases \ chosen : verdict[c] = "none"
    /\ \A c \in Cases : case <= c => verdict[c] = "none"

Judging == CasesTyped /\ Staged

LEMMA InitJudges == TestInit => Obeyed /\ Judging
<1> SUFFICES ASSUME TestInit PROVE Obeyed /\ Judging
  OBVIOUS
<1> USE DEF TestInit, Init
<1>1. Remaining
  BY DEF Remaining, Executed
<1>2. Unmatched /\ Followed
  BY DEF Unmatched, Followed
<1>3. CasesTyped
  BY NumCasesAssumption DEF CasesTyped, Asserts, Cases
<1>4. Staged
  BY DEF Staged, Cases
<1> QED
  BY <1>1, <1>2, <1>3, <1>4 DEF Obeyed, Judging

LEMMA CaseNumbers ==
    /\ \A c : c \in Cases <=> c \in Nat /\ 1 <= c /\ c <= NumCases
    /\ NumCases \in Nat
BY NumCasesAssumption DEF Cases

\* The case is judged and the next one is due, or the process has panicked.
LEMMA JudgeKeeps ==
    ASSUME Judging, case \in chosen, NEW v \in {"pass", "fail"}, Judge(v), UNCHANGED <<chosen, ret>>
    PROVE  Judging'
<1> USE DEF Judging, Judge
<1>1. case \in Cases /\ case \in Nat /\ case <= NumCases /\ NumCases \in Nat
  BY CaseNumbers DEF CasesTyped
<1>2. CASE UNCHANGED <<case, verdict>>
  BY <1>2 DEF CasesTyped, Staged, Asserts
<1>3. CASE case' = case + 1 /\ verdict' = [verdict EXCEPT ![case] = v]
  <2>1. case + 1 \in 1..(NumCases + 1)
    BY <1>1
  <2>2. \A c \in Cases : verdict'[c] = IF c = case THEN v ELSE verdict[c]
    BY <1>3 DEF CasesTyped
  <2>3. ASSUME NEW c \in Cases
        PROVE  c < case + 1 <=> c = case \/ c < case
    BY <1>1, CaseNumbers
  <2>4. ASSUME NEW c \in Cases, case + 1 <= c PROVE c # case /\ case <= c
    BY <1>1, <2>4, CaseNumbers
  <2>5. CasesTyped'
    BY <1>3, <2>1 DEF CasesTyped, Asserts
  <2>6. Staged'
    BY <1>1, <1>3, <2>2, <2>3, <2>4 DEF Staged, CasesTyped
  <2> QED
    BY <2>5, <2>6
<1> QED
  BY <1>2, <1>3

LEMMA NextJudges == IInv /\ Judging /\ [TestNext]_testVars => Judging'
<1> SUFFICES ASSUME IInv, Judging, [TestNext]_testVars PROVE Judging'
  OBVIOUS
<1> USE DEF Judging
<1>1. CASE CannotStart
  BY <1>1, JudgeKeeps DEF CannotStart, Due
<1>2. CASE RunCase
  <2>1. CasesTyped'
    BY <1>2 DEF RunCase, Due, CasesTyped
  <2>2. Staged'
    BY <1>2 DEF RunCase, Due, Staged
  <2> QED
    BY <2>1, <2>2
<1>3. ASSUME NEW t \in Threads, Execute(t) PROVE Judging'
  <2>1. stage = "job" /\ UNCHANGED <<chosen, caseVars>>
    BY <1>3 DEF Execute
  <2> QED
    BY <2>1 DEF CasesTyped, Staged, caseVars
<1>4. CASE JobEnds
  <2>1. CasesTyped'
    BY <1>4 DEF JobEnds, CasesTyped
  <2>2. /\ Over' /\ err' # "none"
        /\ err' = "unexpected exec" <=> \E t \in Threads : pc'[t] = "failed"
    BY <1>4 DEF JobEnds, Over, vars
  <2>3. Staged'
    BY <1>4, <2>2 DEF JobEnds, Staged
  <2> QED
    BY <2>1, <2>3
<1>5. CASE EndCase
  <2>1. PICK v \in {"pass", "fail"} : Judge(v)
    BY <1>5 DEF EndCase
  <2> QED
    BY <1>5, <2>1, JudgeKeeps DEF EndCase, Staged
<1>6. CASE NotChosen
  <2>1. case \in Nat /\ case <= NumCases /\ case \notin chosen /\ NumCases \in Nat
    BY <1>6, CaseNumbers DEF NotChosen
  <2>2. ASSUME NEW c \in chosen, c < case + 1 PROVE c < case
    <3>1. c \in Nat /\ c # case
      BY <2>1, CaseNumbers DEF CasesTyped
    <3> QED
      BY <2>1, <2>2, <3>1
  <2>3. CasesTyped'
    <3>1. case + 1 \in 1..(NumCases + 1)
      BY <2>1
    <3> QED
      BY <1>6, <3>1 DEF NotChosen, CasesTyped
  <2>4. \A c \in Cases : case + 1 <= c => case <= c
    BY <2>1, CaseNumbers
  <2>5. Staged'
    BY <1>6, <2>2, <2>4 DEF NotChosen, Staged, Over, vars
  <2> QED
    BY <2>3, <2>5
<1>7. CASE Report
  BY <1>7 DEF Report, CasesTyped, Staged
<1>8. CASE TestStop \/ UNCHANGED testVars
  BY <1>8 DEF TestStop, testVars, caseVars, vars, CasesTyped, Staged, Over
<1> QED
  BY <1>1, <1>2, <1>3, <1>4, <1>5, <1>6, <1>7, <1>8 DEF TestNext

LEMMA NextObeys == IInv /\ Obeyed /\ [TestNext]_testVars => Obeyed'
<1> SUFFICES ASSUME IInv, Obeyed, [TestNext]_testVars PROVE Obeyed'
  OBVIOUS
<1>1. CASE JobEnds \/ NotChosen \/ Report \/ TestStop \/ UNCHANGED testVars
  <2>1. UNCHANGED vars
    BY <1>1 DEF JobEnds, NotChosen, Report, TestStop, testVars
  <2>2. Remaining' /\ Unmatched'
    BY <2>1 DEF Obeyed, Remaining, Executed, Unmatched, vars, test
  <2>3. /\ \A t \in Threads : Subject(t, Executed(t))' = Subject(t, Executed(t))
        /\ \A t \in Threads : \A i \in Nat : Subject(t, i)' = Subject(t, i)
        /\ \A t \in Threads : Subject(t, Executed(t)) \subseteq Nat
    <3>1. \A t \in Threads : Executed(t)' = Executed(t)
      BY <2>1 DEF Executed, vars, test
    <3>2. planned' = planned
      BY <2>1 DEF vars, test
    <3>3. ASSUME NEW t \in Threads
          PROVE  /\ Subject(t, Executed(t))' = Subject(t, Executed(t))
                 /\ \A i \in Nat : Subject(t, i)' = Subject(t, i)
                 /\ Subject(t, Executed(t)) \subseteq Nat
      BY <3>1, <3>2 DEF Subject
    <3> QED
      BY <3>3
  <2>4. /\ \A t \in Threads : Inherits(t)' <=> Inherits(t)
        /\ \A t \in Threads : Current(t)' = Current(t)
        /\ UNCHANGED <<steps, initial, planned, validated, script, pc, expected>>
    BY <2>1 DEF Inherits, Current, vars, test
  <2>5. Followed'
    BY <2>3, <2>4 DEF Obeyed, Followed
  <2> QED
    BY <2>2, <2>5 DEF Obeyed
<1>2. CASE RunCase \/ CannotStart \/ EndCase
  BY <1>2, NextKeeps, BoundsObey DEF RunCase, CannotStart, EndCase, Judge
<1>3. ASSUME NEW t \in Threads, Execute(t) PROVE Obeyed'
  BY <1>3, RunObeys, CheckObeys, StoreObeys DEF Execute, ExecCmd
<1> QED
  BY <1>1, <1>2, <1>3 DEF TestNext

LEMMA JudgingInvariance == TestSpec => [](IInv /\ Obeyed /\ Judging)
BY InitHolds, InitJudges, NextKeeps, NextObeys, NextJudges, PTL DEF TestSpec

\* The only step of a job that ended without an unexpected command executed
\* what was expected.
LEMMA CompletedAsExpected ==
    ASSUME IInv, Obeyed, Over, NEW t \in Threads, steps = {t}, pc[t] # "failed"
    PROVE  AsExpected
<1> SUFFICES ASSUME initial # <<>>, NEW i \in Subject(t, Len(planned[t]))
             PROVE  /\ Cardinality(Subject(t, i)) <= Len(initial)
                    /\ planned[t][i].cmd = initial[Cardinality(Subject(t, i))]
  BY DEF AsExpected
<1>1. script[t] = <<>> /\ Len(planned[t]) \in Nat
  BY DEF Over, IInv, TypeOK
<1>2. Executed(t) = Len(planned[t])
  BY <1>1 DEF Executed
<1>3. /\ Len(validated) = Cardinality(Subject(t, Executed(t)))
      /\ planned[t][i].cmd = validated[Cardinality(Subject(t, i))]
  BY <1>2 DEF Obeyed, Followed
<1>4. Cardinality(Subject(t, i)) \in 1..Len(validated)
  BY <1>1, <1>2, <1>3, SubjectGrows
<1>5. /\ validated \in Seq(Commands) /\ expected \in Seq(Commands)
      /\ initial = validated \o expected
  BY DEF IInv, TypeOK, Alone
<1> QED
  BY <1>3, <1>4, <1>5

\* One that failed in execCmd did not.
LEMMA FailedNotAsExpected ==
    ASSUME IInv, Obeyed, NEW t \in Threads, steps = {t}, pc[t] = "failed"
    PROVE  ~AsExpected
<1> DEFINE i == Executed(t) + 1
           n == Cardinality(Subject(t, i))
<1>1. initial # <<>>
  BY DEF Obeyed, Unmatched
<1>2. /\ Len(validated) = Cardinality(Subject(t, Executed(t)))
      /\ script[t] # <<>> /\ Inherits(t)
      /\ expected = <<>> \/ Head(expected) # Current(t).cmd
  BY <1>1 DEF Obeyed, Followed
<1>3. /\ Executed(t) \in Nat
      /\ \A k \in 1..Len(script[t]) : script[t][k] = planned[t][Executed(t) + k]
  BY DEF Obeyed, Remaining
<1>4. script[t] \in Seq(Exec) /\ planned[t] \in Seq(Exec)
  BY DEF IInv, TypeOK
<1>5. Len(script[t]) \in Nat /\ Len(script[t]) >= 1 /\ Current(t) = script[t][1]
  BY <1>2, <1>4, EmptySeq DEF Current
<1>6. i \in 1..Len(planned[t]) /\ planned[t][i] = Current(t)
  <2>1. Len(planned[t]) \in Nat /\ Executed(t) = Len(planned[t]) - Len(script[t])
    BY <1>4 DEF Executed
  <2>2. i \in 1..Len(planned[t])
    <3> HIDE DEF i
    <3>1. i = Executed(t) + 1
      BY DEF i
    <3>2. Executed(t) \in Nat
      BY <1>3
    <3>3. i >= 1 /\ i <= Len(planned[t]) /\ i \in Nat
      BY <1>5, <2>1, <3>1, <3>2
    <3> QED
      BY <2>1, <3>3
  <2>3. 1 \in 1..Len(script[t])
    BY <1>5
  <2> QED
    BY <1>3, <1>5, <2>2, <2>3
<1>7. i \in Subject(t, Len(planned[t]))
  BY <1>2, <1>6 DEF Subject, Inherits
<1>8. n = Len(validated) + 1
  BY <1>2, <1>3, <1>6, SubjectNext DEF Inherits
<1>9. /\ validated \in Seq(Commands) /\ expected \in Seq(Commands)
      /\ initial = validated \o expected
  BY DEF IInv, TypeOK, Alone
<1>10. ASSUME n <= Len(initial) PROVE planned[t][i].cmd # initial[n]
  <2>1. Len(expected) >= 1
    BY <1>8, <1>9, <1>10
  <2>2. expected # <<>> /\ Head(expected) = expected[1] /\ initial[n] = expected[1]
    BY <1>8, <1>9, <2>1, EmptySeq
  <2> QED
    BY <1>2, <1>6, <2>2
<1> QED
  BY <1>1, <1>7, <1>10 DEF AsExpected

-------------------------------------------------------------------------------
(* Theorems *)

\* In a case with expectations no job that inherits the matcher executes anything
\* for real, however many steps share the matcher and however their unlocked
\* checks and pops overlap (execCmd).
THEOREM MockedAlways == TestSpec => []MockedWhenInherited
<1>1. IInv => MockedWhenInherited
  BY DEF IInv
<1> QED
  BY <1>1, Invariance, PTL

\* A job whose commands come from one step meets the expectations of its case
\* one by one, in order, and does not panic (execCmd, execTestCase).
THEOREM MetOnceAlways == TestSpec => []MetOnceByOneStep
<1>1. ASSUME IInv PROVE MetOnceByOneStep
  <2> SUFFICES ASSUME Cardinality(steps) = 1 PROVE ~died /\ EachExpectationMetOnce
    BY DEF MetOnceByOneStep
  <2>1. IsFiniteSet(steps)
    BY <1>1, ThreadsAssumption, FS_Subset DEF IInv, TypeOK
  <2>2. PICK t : steps = {t}
    BY <2>1, FS_Singleton
  <2> QED
    BY <1>1, <2>2 DEF IInv, TypeOK, Alone, EachExpectationMetOnce
<1> QED
  BY <1>1, Invariance, PTL

\* The types of a test run: a case that is judged exists, whatever becomes of
\* its job (RunTests, execTest, execTestCase).
THEOREM TypeCorrect == TestSpec => []TestTypeOK
<1>1. IInv /\ Judging => TestTypeOK
  BY DEF IInv, Judging, CasesTyped, TestTypeOK
<1> QED
  BY <1>1, JudgingInvariance, PTL

\* Each case is judged by its own commands: one whose job has one step passes
\* only if the step did what was expected of it, and fails of the matcher only
\* if it did not; the tests are reported when all chosen cases are judged, and
\* as failed exactly if one of them is (execCmd, execTestCase, RunTests).
THEOREM JudgedAlways == TestSpec => JudgedByItsCommands
<1>1. ASSUME IInv, Obeyed, Judging, [TestNext]_testVars,
             stage = "asserts", stage' = "idle",
             Cardinality(steps) = 1, asserts \in {"none", "success"}
      PROVE  /\ verdict'[case] = "pass" => AsExpected
             /\ verdict'[case] = "fail" /\ err # "failed" => ~AsExpected
  <2>1. EndCase
    BY <1>1 DEF TestNext, CannotStart, Due, RunCase, Execute, JobEnds, NotChosen, Report,
                TestStop, testVars, caseVars
  <2>2. /\ Over /\ err \in {"", "unexpected exec", "failed"}
        /\ err = "unexpected exec" <=> \E r \in Threads : pc[r] = "failed"
    BY <1>1 DEF Judging, CasesTyped, Staged
  <2>3. case \in Cases /\ verdict \in [Cases -> {"none", "pass", "fail"}]
    BY <1>1 DEF Judging, CasesTyped, Staged
  <2>4. verdict'[case] # "none" => verdict'[case] = IF err = "" THEN "pass" ELSE "fail"
    <3>1. case <= case
      BY <2>3, CaseNumbers
    <3>2. verdict[case] = "none"
      BY <1>1, <2>3, <3>1 DEF Judging, Staged
    <3> QED
      BY <1>1, <2>1, <2>2, <2>3, <3>2 DEF EndCase, Judge, Holds
  <2>5. IsFiniteSet(steps) /\ steps \subseteq Threads
    BY <1>1, ThreadsAssumption, FS_Subset DEF IInv, TypeOK
  <2>6. PICK t \in Threads : steps = {t}
    BY <1>1, <2>5, FS_Singleton
  <2>7. \A r \in Threads : pc[r] = "failed" => r = t
    BY <1>1, <2>6 DEF IInv, Outside
  <2>8. CASE pc[t] = "failed"
    BY <1>1, <2>2, <2>4, <2>6, <2>8, FailedNotAsExpected
  <2>9. CASE pc[t] # "failed"
    BY <1>1, <2>2, <2>4, <2>6, <2>7, <2>9, CompletedAsExpected
  <2> QED
    BY <2>8, <2>9
<1>2. ASSUME Judging, [TestNext]_testVars, ret' # ret
      PROVE  /\ \A c \in chosen : verdict[c] # "none"
             /\ ret' = "ok" <=> \A c \in chosen : verdict[c] = "pass"
  <2>1. Report
    BY <1>2 DEF TestNext, CannotStart, RunCase, Execute, JobEnds, EndCase, NotChosen,
                TestStop, testVars, caseVars
  <2>2. /\ chosen \subseteq Cases /\ case > NumCases /\ NumCases \in Nat
        /\ case \in 1..(NumCases + 1)
        /\ verdict \in [Cases -> {"none", "pass", "fail"}]
    BY <1>2, <2>1, NumCasesAssumption DEF Report, Judging, CasesTyped
  <2>3. \A c \in chosen : verdict[c] # "none"
    <3> SUFFICES ASSUME NEW c \in chosen PROVE verdict[c] # "none"
      OBVIOUS
    <3>1. c < case
      BY <2>2, CaseNumbers
    <3> QED
      BY <1>2, <3>1 DEF Judging, Staged
  <2>4. \A c \in Cases \ chosen : verdict[c] = "none"
    BY <1>2 DEF Judging, Staged
  <2>5. ret' = IF \E c \in Cases : verdict[c] = "fail" THEN "error" ELSE "ok"
    BY <2>1 DEF Report
  <2> QED
    BY <2>2, <2>3, <2>4, <2>5
<1> QED
  BY <1>1, <1>2, JudgingInvariance, PTL DEF JudgedByItsCommands, TestSpec
===============================================================================
