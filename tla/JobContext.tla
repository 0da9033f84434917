------------------------------ MODULE JobContext ------------------------------
(***************************************************************************)
(* The context a job is evaluated in: createJobContext and                 *)
(* addConfigsAndVariables of pkg/app/app.go, setValues of values.go.       *)
(*                                                                         *)
(* A called job first gets the values of the global options, then of its   *)
(* own, from its caller, from their defaults or by asking the user.  Then  *)
(* its config, secret and variable blocks, which refer to each other, are  *)
(* evaluated in waves; the fields of a wave are visible to the next one.   *)
(* A job that is called from there gets the values of the global options   *)
(* along with the arguments of the call.                                   *)
(*                                                                         *)
(* Of a value only its origin counts.  Parameters are options nobody is    *)
(* asked for.  A block that is listed twice, as those of the root job are, *)
(* counts once.                                                            *)
(***************************************************************************)
EXTENDS Naturals

CONSTANTS
    Options,       \* the names of options
    Blocks,        \* the config, secret and variable blocks
    Undeclared,    \* a name blocks refer to that no block has
    RefChoices,    \* the references among blocks that are explored
    MaxCalls       \* bound on the depth of calls

ASSUME UndeclaredAssumption == Undeclared \notin Blocks
ASSUME RefsAssumption == RefChoices \subseteq [Blocks -> SUBSET (Blocks \cup {Undeclared})]
ASSUME MaxCallsAssumption == MaxCalls \in Nat

VARIABLES
    globals,    \* the global options; never changes
    refs,       \* the blocks each block refers to; never changes
    locals,     \* the options of the job
    defaults,   \* the global and local options with a default
    root,       \* whether the job is the root job, which declares the globals
    canAsk,     \* whether there is a user to ask (a SetOptsFunc)
    given,      \* the values the caller passes
    depth,      \* how many calls led to the job
    inherited,  \* the values of the global options of the caller
    pc,         \* where createJobContext is
    values,     \* the values of the global and of the local options so far
    asked,      \* how often the user was asked for each option
    declined,   \* whether the user was asked and gave no answer
    wave,       \* the blocks of the current wave that are not evaluated yet
    fields,     \* the blocks that are evaluated
    visible,    \* those whose fields are in the variables of the context
    saw,        \* what was visible when each block was evaluated
    broke       \* whether evaluating, asking or fetching something failed

config == <<globals, refs>>
job == <<locals, defaults, root, canAsk, given, depth, inherited>>
blocks == <<wave, fields, visible, saw>>
vars == <<globals, refs, locals, defaults, root, canAsk, given, depth,
          inherited, pc, values, asked, declined, wave, fields, visible, saw,
          broke>>

None == "none"
Origin == {None, "given", "default", "answer", "call"}

Nothing == [o \in Options |-> None]
Unevaluated == [b \in Blocks |-> {}]

TypeOK ==
    /\ globals \cup locals \cup defaults \subseteq Options
    /\ refs \in [Blocks -> SUBSET (Blocks \cup {Undeclared})]
    /\ {root, canAsk, declined, broke} \subseteq BOOLEAN
    /\ given \in [Options -> Origin]
    /\ inherited \in [Options -> Origin]
    /\ values \in [global : [Options -> Origin], local : [Options -> Origin]]
    /\ depth \in 0..MaxCalls
    /\ pc \in {"params", "globals", "locals", "module", "plan", "wave", "eval",
               "ok", "error"}
    /\ asked \in [Options -> 0..2]
    /\ fields \subseteq Blocks
    /\ wave \subseteq Blocks \ fields
    /\ visible \subseteq fields
    /\ saw \in [Blocks -> SUBSET Blocks]

\* The command line, a slash command or a test calls a job.
Init ==
    /\ globals \in SUBSET Options
    /\ defaults \in SUBSET Options
    /\ refs \in RefChoices
    /\ root \in BOOLEAN
    /\ locals \in IF root THEN {globals} ELSE SUBSET Options
    /\ canAsk \in BOOLEAN
    /\ given \in [Options -> {None, "given"}]
    /\ depth = 0
    /\ inherited = Nothing
    /\ pc = "params"
    /\ values = [global |-> Nothing, local |-> Nothing]
    /\ asked = [o \in Options |-> 0]
    /\ declined = FALSE
    /\ wave = {}
    /\ fields = {}
    /\ visible = {}
    /\ saw = Unevaluated
    /\ broke = FALSE

-------------------------------------------------------------------------------
(* Parameters and options *)

\* A stage of createJobContext is left, for the next one or with an error.
Leave(stage, next) ==
    /\ pc = stage
    /\ pc' = next
    /\ UNCHANGED <<config, job, values, asked, declined, blocks, broke>>

Break(stage) ==
    /\ pc = stage
    /\ pc' = "error"
    /\ broke' = TRUE
    /\ UNCHANGED <<config, job, values, asked, declined, blocks>>

\* setParameterValues, twice: a parameter may be missing or shadow another.
Params == Leave("params", "globals") \/ Break("params")

\* getValueFor: what is given, or else the default.
ValueOf(o) ==
    IF given[o] # None THEN given[o] ELSE IF o \in defaults THEN "default" ELSE None

Settle(specs) == [o \in Options |-> IF o \in specs THEN ValueOf(o) ELSE None]

Missing(specs) == {o \in specs : ValueOf(o) = None}

Answered(specs) ==
    [o \in Options |-> IF o \in Missing(specs) THEN "answer" ELSE Settle(specs)[o]]

\* setOptionValues for one group of options: a type, a default or the conversion
\* of a value may be wrong.  The user is asked for all options that are missing
\* at once, and answers, or does not, or something fails.
SetOptions(stage, group, specs, next) ==
    /\ pc = stage
    /\ \/ /\ specs # {}
          /\ pc' = "error"
          /\ broke' = TRUE
          /\ UNCHANGED <<values, asked, declined>>
       \/ /\ Missing(specs) = {}
          /\ pc' = next
          /\ values' = [values EXCEPT ![group] = Settle(specs)]
          /\ UNCHANGED <<asked, declined, broke>>
       \/ /\ Missing(specs) # {}
          /\ ~canAsk
          /\ pc' = "error"
          /\ UNCHANGED <<values, asked, declined, broke>>
       \/ /\ Missing(specs) # {}
          /\ canAsk
          /\ asked' = [o \in Options |-> IF o \in Missing(specs) THEN asked[o] + 1
                                         ELSE asked[o]]
          /\ \/ /\ values' = [values EXCEPT ![group] = Answered(specs)]
                /\ pc' = next
                /\ UNCHANGED <<declined, broke>>
             \/ /\ values' = [values EXCEPT ![group] = Settle(specs)]
                /\ declined' = TRUE
                /\ pc' = next
                /\ UNCHANGED broke
             \/ /\ pc' = "error"
                /\ broke' = TRUE
                /\ UNCHANGED <<values, declined>>
    /\ UNCHANGED <<config, job, blocks>>

GlobalOptions == SetOptions("globals", "global", globals, "locals")

\* The local options of the root job are the global ones, settled once more.
LocalOptions == SetOptions("locals", "local", locals, "module")

\* The options of the job: what the root job has settled again is dropped.
Opt(o) == IF o \in globals THEN values.global[o] ELSE values.local[o]

\* Mutant of Shadowing: the options of the root job shadow themselves.
ShadowingInRoot == locals \cap globals # {}

Shadowing == ~root /\ locals \cap globals # {}

\* A local option may not have the name of a global one.  Fetching the module
\* and converting the values may fail.
Module ==
    \/ Shadowing /\ Leave("module", "error")
    \/ ~Shadowing /\ Leave("module", "plan")
    \/ Break("module")

-------------------------------------------------------------------------------
(* Configs, secrets and variables *)

RefersTo(b) == refs[b] \cap Blocks

\* The references of the blocks can be ordered.
Orderable ==
    \A S \in SUBSET Blocks : S # {} => \E b \in S : RefersTo(b) \cap S = {}

\* A reference to nothing, and a cycle, are errors.  A source block may be
\* impossible to read.
Plan ==
    \/ /\ \E b \in Blocks : Undeclared \in refs[b]
       /\ Leave("plan", "error")
    \/ /\ \A b \in Blocks : Undeclared \notin refs[b]
       /\ Leave("plan", IF Orderable THEN "wave" ELSE "error")
    \/ Break("plan")

\* Mutant of Sorted: a wave is all that is left.
SortedAnyhow == Blocks \ fields

\* The next wave of the dag library: the blocks that refer to earlier waves.
Sorted == {b \in Blocks \ fields : RefersTo(b) \subseteq fields}

BeginWave ==
    /\ pc = "wave"
    /\ Sorted # {}
    /\ wave' = Sorted
    /\ visible' = fields
    /\ pc' = "eval"
    /\ UNCHANGED <<config, job, values, asked, declined, fields, saw, broke>>

\* Mutant of Evaluate: the block stays in the wave.
EvaluateAgain(b) ==
    /\ pc = "eval"
    /\ b \in wave
    /\ fields' = fields \cup {b}
    /\ saw' = [saw EXCEPT ![b] = visible]
    /\ UNCHANGED <<config, job, pc, values, asked, declined, wave, visible, broke>>

\* evaluateConfig or evaluateVariable.  A config may run jobs to get its data.
Evaluate(b) ==
    /\ pc = "eval"
    /\ b \in wave
    /\ wave' = wave \ {b}
    /\ fields' = fields \cup {b}
    /\ saw' = [saw EXCEPT ![b] = visible]
    /\ UNCHANGED <<config, job, pc, values, asked, declined, visible, broke>>

EvaluationFails == wave # {} /\ Break("eval")

EndWave == wave = {} /\ Leave("eval", "wave")

\* Mutant of Publish: what the last wave evaluated stays invisible.
PublishNot == fields = Blocks /\ Leave("wave", "ok")

Publish ==
    /\ pc = "wave"
    /\ fields = Blocks
    /\ visible' = fields
    /\ pc' = "ok"
    /\ UNCHANGED <<config, job, values, asked, declined, wave, fields, saw, broke>>

-------------------------------------------------------------------------------
(* Calls *)

\* The job, or the config it evaluates, calls another one, which starts afresh
\* with what it is given; an unknown name is the root job.  What the caller
\* does when the call is over is not followed.
Enter(passed) ==
    /\ \/ pc = "ok"
       \/ pc = "eval" /\ wave # {}
    /\ depth < MaxCalls
    /\ depth' = depth + 1
    /\ inherited' = values.global
    /\ \E overrides \in SUBSET Options :
          given' = [o \in Options |-> IF o \in overrides THEN "call" ELSE passed[o]]
    /\ root' \in BOOLEAN
    /\ locals' \in IF root' THEN {globals} ELSE SUBSET Options
    /\ \E chosen \in SUBSET (Options \ globals) :
          defaults' = (defaults \cap globals) \cup chosen
    /\ canAsk' = FALSE
    /\ pc' = "params"
    /\ values' = [global |-> Nothing, local |-> Nothing]
    /\ asked' = [o \in Options |-> 0]
    /\ declined' = FALSE
    /\ wave' = {} /\ fields' = {} /\ visible' = {} /\ saw' = Unevaluated
    /\ UNCHANGED <<config, broke>>

\* Mutant of Call: only the arguments of the call are passed.
CallBare == Enter(Nothing)

\* buildArgsFromExpr, staticRunToJob and dynamicRunToJob: the arguments of the
\* call override the values of the global options.  The user is not asked.
Call == Enter(values.global)

-------------------------------------------------------------------------------
Create ==
    \/ Params
    \/ GlobalOptions
    \/ LocalOptions
    \/ Module
    \/ Plan
    \/ BeginWave
    \/ \E b \in Blocks : Evaluate(b)
    \/ EvaluationFails
    \/ EndWave
    \/ Publish

Over == pc \in {"ok", "error"}

Stop == Over /\ UNCHANGED vars

Next == Create \/ Call \/ Stop

Spec == Init /\ [][Next]_vars

-------------------------------------------------------------------------------
(* Properties *)

\* A job-local variable may refer to a global one (examples/variables):
\* whatever the kinds of two blocks and whoever declares them, a block is
\* evaluated with the fields of all blocks it refers to in the context.
BlocksSeeTheirRefs ==
    \A b \in fields : refs[b] \subseteq saw[b]

\* A context that is handed out is complete: the fields of all blocks are
\* visible, and every option has a value unless the user left it out.
CompleteOnSuccess ==
    pc = "ok" =>
        /\ visible = Blocks
        /\ declined \/ \A o \in globals \cup locals : Opt(o) # None

\* There is no context only for a reason: something failed, an option has no
\* value and there is nobody to ask, a name is taken or missing, or references
\* form a cycle.
FailureHasReason ==
    pc = "error" =>
        \/ broke
        \/ ~canAsk /\ Missing(globals \cup locals) # {}
        \/ ~root /\ globals \cap locals # {}
        \/ \E b \in Blocks : Undeclared \in refs[b]
        \/ ~Orderable

\* A job that is called sees the global options as its caller does, wherever
\* the caller had them from, except those the call itself overrides.
GlobalsAgree ==
    depth > 0 /\ pc = "ok" =>
        \A o \in globals : values.global[o] \in {inherited[o], "call"}

\* A user is asked for an option once.  Excepted are the root job, whose
\* options are settled twice, and a name that turns out to be taken.
AskedOnce ==
    ~root => \A o \in Options : asked[o] <= 1 \/ o \in globals \cap locals
===============================================================================
