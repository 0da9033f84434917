-------------------------------- MODULE Imports --------------------------------
(***************************************************************************)
(* How the jobs of a directory and of those it imports become one          *)
(* application: newApp and mergeParamsAndOpts of pkg/app/load.go.          *)
(*                                                                         *)
(* A program is a sequence of modules, each of which imports earlier ones; *)
(* the last one is the user's.  A module is the sequence of its jobs in    *)
(* the order of its files, which load.go:58 leaves to chance; the first is *)
(* its root job, whose options are global.  Job names are sequences of     *)
(* words.  Parameters are treated like options and not modelled apart.     *)
(***************************************************************************)
EXTENDS Naturals, Sequences, Functions

\* A job of a module: options maps names to a type and to whether there is a
\* default; imports are the modules of `imports' and `import' in that order.
JobSpec(name, options, imports) ==
    [name |-> name, options |-> options, imports |-> imports]

Root == <<>>

-------------------------------------------------------------------------------
(* Merging *)

\* f, and g where f is not defined.
Prefer(f, g) == [x \in DOMAIN f \cup DOMAIN g |-> IF x \in DOMAIN f THEN f[x] ELSE g[x]]

\* Mutant of Merge: the imported declaration wins.
MergeOver(src, dst) == [dst EXCEPT !.options = Prefer(src.options, dst.options)]

\* mergeParamsAndOpts: dst, with the options of src it does not have itself.
\* Everything but the options is that of dst, the body included.
Merge(src, dst) == [dst EXCEPT !.options = Prefer(dst.options, src.options)]

\* It fails if the two declare an option with different types.
Mergeable(src, dst) ==
    \A o \in DOMAIN src.options \cap DOMAIN dst.options :
        src.options[o].type = dst.options[o].type

-------------------------------------------------------------------------------
(* Importing *)

\* The jobs of an imported application under the name of the job j that imports
\* them.  The root job of the library becomes j, with j's own body.
Renamed(j, by, jobs) ==
    [n \in {j.name \o x : x \in DOMAIN jobs} |->
        IF n = j.name
        THEN Merge(jobs[Root], [options |-> j.options, by |-> by])
        ELSE jobs[SubSeq(n, Len(j.name) + 1, Len(n))]]

\* Mutant of Import: globals of libraries are not collected.
ImportLocally(acc, j, by, lib) ==
    LET jobs == Renamed(j, by, lib.jobs)
    IN  [acc EXCEPT
            !.jobs = Prefer(jobs, @),
            !.funcs = Prefer([n \in DOMAIN jobs |-> lib.module], @),
            !.failed = @ \/ lib.failed \/ ~Mergeable(lib.jobs[Root], j)]

\* One source of one job: its jobs replace those of the same name, they get
\* the functions of the library, and its globals are kept for the root job.
Import(acc, j, by, lib) ==
    LET jobs == Renamed(j, by, lib.jobs)
    IN  [acc EXCEPT
            !.jobs = Prefer(jobs, @),
            !.funcs = Prefer([n \in DOMAIN jobs |-> lib.module], @),
            !.globals = IF j.name = Root THEN @ ELSE Append(@, jobs[j.name]),
            !.failed = @ \/ lib.failed \/ ~Mergeable(lib.jobs[Root], j)]

\* One iteration of newApp: the job replaces one of its name that an earlier
\* job imported, and then its sources are imported.
Declare(acc, j, by, libs) ==
    LET declared == [n \in {j.name} |-> [options |-> j.options, by |-> by]]
        imported[i \in 0..Len(j.imports)] ==
            IF i = 0 THEN [acc EXCEPT !.jobs = Prefer(declared, @)]
            ELSE Import(imported[i - 1], j, by, libs[j.imports[i]])
    IN  imported[Len(j.imports)]

MergeGlobal(app, g) ==
    [app EXCEPT !.jobs[Root] = Merge(g, @),
                !.failed = @ \/ ~Mergeable(g, app.jobs[Root])]

\* The globals of all libraries are merged into the root job at the end.
MergeGlobals(app) ==
    LET merged[i \in 0..Len(app.globals)] ==
            IF i = 0 THEN app ELSE MergeGlobal(merged[i - 1], app.globals[i])
    IN  merged[Len(app.globals)]

NoJobs(m) ==
    [module |-> m, jobs |-> <<>>, funcs |-> <<>>, globals |-> <<>>, failed |-> FALSE]

\* newApp for module m, given the applications of those before it.
NewApp(m, module, libs) ==
    LET acc[i \in 0..Len(module)] ==
            IF i = 0 THEN NoJobs(m) ELSE Declare(acc[i - 1], module[i], m, libs)
    IN  MergeGlobals(acc[Len(module)])

\* The applications of all modules, each made of those before it.
Apps(program) ==
    LET apps[m \in 0..Len(program)] ==
            IF m = 0 THEN <<>>
            ELSE Append(apps[m - 1], NewApp(m, program[m], apps[m - 1]))
    IN  apps[Len(program)]

\* The application that New loads for the user.
Load(program) == Apps(program)[Len(program)]

-------------------------------------------------------------------------------
(* What is declared, read off the program *)

Jobs(program, m) == Range(program[m])

RootOptions(program, m) == program[m][1].options

\* What a user of module m can call, given what there is of the modules before
\* it: the name, the module whose file declares the job and the libraries it is
\* imported through.  Root jobs of libraries have no name.
DeclaredBy(program, m, names) ==
    LET own == {[name |-> j.name, by |-> m, via |-> <<>>] : j \in Jobs(program, m)}
        under(j, source) ==
            {[name |-> j.name \o d.name, by |-> d.by, via |-> <<source>> \o d.via] :
                d \in {e \in names[source] : e.name # Root}}
    IN  own \cup UNION {UNION {under(j, source) : source \in Range(j.imports)} :
                            j \in Jobs(program, m)}

\* The jobs the user can call.
Declared(program) ==
    LET names[m \in 0..Len(program)] ==
            IF m = 0 THEN <<>>
            ELSE Append(names[m - 1], DeclaredBy(program, m, names[m - 1]))
    IN  names[Len(program)][Len(program)]

\* The modules that are loaded: the user's, and all that those import.
Loaded(program) ==
    LET closed(S) ==
            /\ Len(program) \in S
            /\ \A m \in S : \A j \in Jobs(program, m) : Range(j.imports) \subseteq S
    IN  {m \in 1..Len(program) : \A S \in SUBSET (1..Len(program)) : closed(S) => m \in S}

\* The lists of options that become global: those of root jobs, and those of
\* jobs that import a library.
GlobalOptionLists(program) ==
    UNION {{j.options : j \in {k \in Jobs(program, m) : k.name = Root \/ k.imports # <<>>}} :
           m \in Loaded(program)}

\* The root job of a module imports several libraries: only the last one's
\* globals are kept.
LosesGlobals(program) ==
    \E m \in Loaded(program) : Len(program[m][1].imports) > 1
===============================================================================
