-------------------------------- MODULE TestRun --------------------------------
(***************************************************************************)
(* `variant test': RunTests, execTest and execTestCase of pkg/app/app.go,  *)
(* composed with the matcher of ExecMatch.                                 *)
(*                                                                         *)
(* The cases of the tests that are chosen on the command line run one      *)
(* after the other, each with a job context and a matcher of its own.  The *)
(* job under test may fail; what becomes of its error is up to the asserts *)
(* of the test, if it has any.  The process does not survive a panic: the  *)
(* deferred failOnPanic is in another goroutine than the job.              *)
(***************************************************************************)
EXTENDS ExecMatch

CONSTANT NumCases      \* the cases of all tests, in order

ASSUME NumCasesAssumption == NumCases \in Nat

Cases == 1..NumCases

VARIABLES
    chosen,      \* the cases of the tests that match the argument; never changes
    case,        \* the case that is run, or that is next
    stage,       \* where execTestCase is
    asserts,     \* what the asserts of the case are about
    err,         \* the field `run.err', as it came about
    verdict,     \* of each case
    ret          \* what RunTests returned

caseVars == <<case, stage, asserts, err, verdict, ret>>
testVars == <<vars, chosen, caseVars>>

\* No assert; `run.err == ""'; another `run.err'; something else, which holds
\* or not.
Asserts == {"none", "success", "error", "other"}

TestTypeOK ==
    /\ TypeOK
    /\ chosen \subseteq Cases
    /\ case \in 1..(NumCases + 1)
    /\ stage \in {"idle", "job", "asserts"}
    /\ asserts \in Asserts
    /\ err \in {"none", "", "unexpected exec", "failed"}
    /\ verdict \in [Cases -> {"none", "pass", "fail"}]
    /\ ret \in {"none", "ok", "error"}

TestInit ==
    /\ Init
    /\ chosen \in SUBSET Cases
    /\ case = 1
    /\ stage = "idle"
    /\ asserts = "none"
    /\ err = "none"
    /\ verdict = [c \in Cases |-> "none"]
    /\ ret = "none"

-------------------------------------------------------------------------------
(* One case *)

Due == ~died /\ stage = "idle" /\ case \in chosen

\* The case is over.  A test without case blocks is one case without a source,
\* which the message that it failed dereferences: the process panics.  It does
\* not matter before that whether the case is such a one.
Judge(v) ==
    /\ EndOfCase
    /\ \/ /\ verdict' = [verdict EXCEPT ![case] = v]
          /\ case' = case + 1
          /\ UNCHANGED died
       \/ /\ v = "fail"
          /\ died' = TRUE
          /\ UNCHANGED <<case, verdict>>
    /\ stage' = "idle"
    /\ err' = "none"
    /\ asserts' = "none"

\* A variable, a field of the case or an expectation cannot be evaluated, or
\* the fields refer to each other in a cycle.
CannotStart ==
    /\ Due
    /\ Judge("fail")
    /\ UNCHANGED <<chosen, ret>>

\* The job is called.
RunCase ==
    /\ Due
    /\ StartCase
    /\ asserts' \in Asserts
    /\ stage' = "job"
    /\ UNCHANGED <<chosen, case, err, verdict, ret>>

Execute(t) ==
    /\ stage = "job"
    /\ ExecCmd(t)
    /\ UNCHANGED <<chosen, caseVars>>

\* The error of a step is that of its job.  A job may fail for other reasons.
JobEnds ==
    /\ stage = "job"
    /\ ~died
    /\ Over
    /\ err' \in IF \E t \in Threads : pc[t] = "failed" THEN {"unexpected exec"}
                ELSE {"", "failed"}
    /\ stage' = "asserts"
    /\ UNCHANGED <<vars, chosen, case, asserts, verdict, ret>>

\* The asserts decide, also if the job failed; without any its error does.
Holds(v) ==
    CASE asserts = "other" -> v
      [] asserts \in {"none", "success"} -> err = ""
      [] asserts = "error" -> err # ""

EndCase ==
    /\ stage = "asserts"
    /\ \E v \in BOOLEAN : Judge(IF Holds(v) THEN "pass" ELSE "fail")
    /\ UNCHANGED <<chosen, ret>>

-------------------------------------------------------------------------------
(* All cases *)

NotChosen ==
    /\ stage = "idle"
    /\ case \in Cases \ chosen
    /\ case' = case + 1
    /\ UNCHANGED <<vars, chosen, stage, asserts, err, verdict, ret>>

Report ==
    /\ stage = "idle"
    /\ case > NumCases
    /\ ret = "none"
    /\ ret' = IF \E c \in Cases : verdict[c] = "fail" THEN "error" ELSE "ok"
    /\ UNCHANGED <<vars, chosen, case, stage, asserts, err, verdict>>

TestStop == (died \/ ret # "none") /\ UNCHANGED testVars

TestNext ==
    \/ CannotStart
    \/ RunCase
    \/ \E t \in Threads : Execute(t)
    \/ JobEnds
    \/ EndCase
    \/ NotChosen
    \/ Report
    \/ TestStop

TestSpec == TestInit /\ [][TestNext]_testVars

-------------------------------------------------------------------------------
(* Properties *)

\* The positions, up to i, of the commands of step t that are subject to the
\* expectations.
Subject(t, i) == {k \in 1..i : planned[t][k].from = "called"}

\* What a test with expectations says about a job of one step: its n-th such
\* command is the n-th expected one.
AsExpected ==
    initial # <<>> =>
        \E t \in steps : \A i \in Subject(t, Len(planned[t])) :
            LET n == Cardinality(Subject(t, i))
            IN  n <= Len(initial) /\ planned[t][i].cmd = initial[n]

\* A case whose asserts do not put up with an error passes only if its job did
\* what the expectations of this very case say, whatever was left of those of
\* the cases before it; and of the matcher's errors only a true one fails it.
\* (Expectations that are not met do not fail it: nobody looks.)  Every chosen
\* case is judged before the tests are reported, those after a failed one too.
JudgedByItsCommands ==
    [][/\ stage = "asserts" /\ stage' = "idle"
             /\ Cardinality(steps) = 1 /\ asserts \in {"none", "success"} =>
             /\ verdict'[case] = "pass" => AsExpected
             /\ verdict'[case] = "fail" /\ err # "failed" => ~AsExpected
       /\ ret' # ret =>
             /\ \A c \in chosen : verdict[c] # "none"
             /\ ret' = "ok" <=> \A c \in chosen : verdict[c] = "pass"]_testVars
===============================================================================
