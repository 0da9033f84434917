------------------------------ MODULE AppContext ------------------------------
(***************************************************************************)
(* The contexts of the jobs of an application: JobContext composed with    *)
(* Imports, which loads the application, and CommandLine, which says what  *)
(* a user may pass to its jobs.  The global options of every context are   *)
(* those of the root job of the application (app.Config.JobSpec), and its  *)
(* local options those of the job that is called (app.JobByName).          *)
(***************************************************************************)
EXTENDS JobContext, Imports, CommandLine

CONSTANT Programs    \* the programs explored, each with the references of its blocks

IsSeq(s) == s \in Seq(Range(s))

\* Each module has a root job, which all of its files declare together, and
\* other jobs, whose names may be equal; it imports earlier modules.
WellFormed(modules) ==
    /\ IsSeq(modules) /\ modules # <<>>
    /\ \A m \in 1..Len(modules) :
          /\ IsSeq(modules[m]) /\ modules[m] # <<>>
          /\ \A i \in 1..Len(modules[m]) :
                /\ modules[m][i].name \in Seq(STRING)
                /\ modules[m][i].name = Root <=> i = 1
                /\ modules[m][i].imports \in Seq(1..m - 1)

ASSUME ProgramsAssumption ==
    \A p \in Programs : WellFormed(p.modules) /\ p.refs \in RefChoices

VARIABLES
    program,    \* the modules the user's one imports, and that one; never changes
    app,        \* what Load makes of them; never changes
    entry,      \* "cli" if the command line calls the first job, else "api"
    target      \* the name of the job whose context is created

appVars == <<program, app, entry, target, vars>>

OptionsOf(name) == DOMAIN app.jobs[name].options

\* The options with a default.  A local option that shadows a global one counts
\* with the latter's: its context is refused in any case.
DefaultsFor(name) ==
    {o \in OptionsOf(Root) : app.jobs[Root].options[o].default} \cup
    {o \in OptionsOf(name) \ OptionsOf(Root) : app.jobs[name].options[o].default}

\* A command line passes the flags the command accepts; a test or a program
\* that calls Run passes any options, and there is nobody to ask.
FirstCall ==
    \/ /\ entry = "cli"
       /\ \E typed \in Accepted(app.jobs, target, canAsk) :
             given = [o \in Options |->
                         IF o \in Read(app.jobs, target, typed) THEN "given" ELSE None]
    \/ /\ entry = "api"
       /\ ~canAsk
       /\ given \in [Options -> {None, "given"}]

AppInit ==
    /\ \E p \in Programs : program = p.modules /\ refs = p.refs
    /\ app = Load(program)
    /\ entry \in {"cli", "api"}
    /\ target \in IF app.failed THEN {Root} ELSE DOMAIN app.jobs
    /\ globals = OptionsOf(Root)
    /\ locals = OptionsOf(target)
    /\ defaults = DefaultsFor(target)
    /\ root = (target = Root)
    /\ canAsk \in BOOLEAN
    /\ FirstCall
    /\ Init

\* Another job is called by its name; one that no job has is the root job's.
CallByName ==
    /\ target' \in DOMAIN app.jobs
    /\ root' = (target' = Root)
    /\ locals' = OptionsOf(target')
    /\ defaults' = DefaultsFor(target')
    /\ Call

\* What cannot be loaded is not run.
AppNext ==
    \/ /\ ~app.failed
       /\ Create \/ Stop
       /\ UNCHANGED <<program, app, entry, target>>
    \/ /\ ~app.failed
       /\ CallByName
       /\ UNCHANGED <<program, app, entry>>
    \/ /\ app.failed
       /\ UNCHANGED appVars

AppSpec == AppInit /\ [][AppNext]_appVars

-------------------------------------------------------------------------------
(* Properties *)

\* The options of a context are those of the job it is created for.
OfItsTarget ==
    /\ ~app.failed => target \in DOMAIN app.jobs
    /\ globals = OptionsOf(Root)
    /\ locals = OptionsOf(target)

AppTypeOK == TypeOK /\ OfItsTarget

\* The files whose functions the job of a name may call (createJobContext).
FunctionsOf(name) ==
    IF name # Root /\ name \in DOMAIN app.funcs THEN app.funcs[name] ELSE app.module

ImportsSome(name) ==
    \E j \in Jobs(program, Len(program)) : j.name = name /\ j.imports # <<>>

\* What is loaded is what the files say, in whatever order they are read.  A
\* job that is declared once, by the user or, without its prefix, by a library
\* ("import ... can be used to load all the *.variant files in the directory
\* into the current job"), is there with its own body, its own options and
\* the functions of its own files.  A global option of the user replaces those
\* of libraries, if the types agree: loading fails exactly if they do not.
LoadsWhatIsDeclared ==
    LET declared == Declared(program)
        sameName(d) == {e \in declared : e.name = d.name}
        lists == GlobalOptionLists(program)
    IN  pc = "params" /\ depth = 0 =>
        /\ ~app.failed =>
              /\ DOMAIN app.jobs = {d.name : d \in declared}
              /\ \A d \in declared : sameName(d) = {d} =>
                    /\ app.jobs[d.name].by = d.by
                    /\ \E j \in Jobs(program, d.by), n \in 0..Len(d.name) :
                          /\ SubSeq(d.name, n + 1, Len(d.name)) = j.name
                          /\ \A o \in DOMAIN j.options :
                                app.jobs[d.name].options[o] = j.options[o]
                    /\ Len(d.via) <= 1 /\ ~ImportsSome(d.name) => FunctionsOf(d.name) = d.by
        /\ app.failed =>
              \E a, b \in lists : \E o \in DOMAIN a \cap DOMAIN b : a[o].type # b[o].type
        /\ ~app.failed /\ ~LosesGlobals(program) =>
              \A a, b \in lists : \A o \in DOMAIN a \cap DOMAIN b : a[o].type = b[o].type

\* A job finds in its context every global option of the files that declare it,
\* though these are a library's.  Excepted are root jobs that import several
\* libraries, of which only the last one's globals are kept.
ModuleOptionsKnown ==
    pc = "ok" /\ ~LosesGlobals(program) =>
        \A o \in DOMAIN RootOptions(program, app.jobs[target].by) :
            o \in globals /\ (declined \/ Opt(o) # None)

\* Two commands above that of the target disagree on whether an option has a
\* default: the nearest one decides about the flag, the root job about the value.
DefaultsDiffer ==
    \E o \in globals \cap Flags(app.jobs, target) :
        o \in Required(app.jobs, target, FALSE) <=> o \in defaults

\* Where there is nobody to ask, the flags cobra insists on are all the job
\* needs: no command it accepts fails for an option without a value.  Excepted
\* are options whose library and user disagree on a default.
FlagsSuffice ==
    entry = "cli" /\ depth = 0 /\ ~canAsk /\ pc = "error" =>
        \/ broke
        \/ Shadowing
        \/ ~Orderable
        \/ \E b \in Blocks : Undeclared \in refs[b]
        \/ DefaultsDiffer
===============================================================================
