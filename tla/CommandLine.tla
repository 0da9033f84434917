------------------------------ MODULE CommandLine ------------------------------
(***************************************************************************)
(* The flags of the commands of an application: Cobra, configureCommand,   *)
(* createCobraFlagsFromVariantOptions and getMergedParamsAndOpts of        *)
(* variant.go.                                                             *)
(*                                                                         *)
(* There is a command for each job, below those of the jobs whose names    *)
(* are prefixes of its name.  A command has the flags of its job and those *)
(* of the commands above it; of two with one name the nearest one counts.  *)
(***************************************************************************)
EXTENDS Naturals, Sequences

\* The jobs at or above the command of job n, by the length of their names.
Above(jobs, n) == {i \in 0..Len(n) : SubSeq(n, 1, i) \in DOMAIN jobs}

\* Those that declare option o.
Declaring(jobs, n, o) ==
    {i \in Above(jobs, n) : o \in DOMAIN jobs[SubSeq(n, 1, i)].options}

Flags(jobs, n) ==
    UNION {DOMAIN jobs[SubSeq(n, 1, i)].options : i \in Above(jobs, n)}

\* The command whose flag cobra sets: the nearest one.
Nearest(jobs, n, o) ==
    CHOOSE i \in Declaring(jobs, n, o) : \A k \in Declaring(jobs, n, o) : k <= i

\* Mutant of ReadFrom: the getters of outer commands replace those of inner ones.
ReadFromOutermost(jobs, n, o) ==
    CHOOSE i \in Declaring(jobs, n, o) : \A k \in Declaring(jobs, n, o) : i <= k

\* The command whose flag is read: the getters are collected from the root
\* job inwards, each one replacing those before it.
ReadFrom(jobs, n, o) ==
    CHOOSE i \in Declaring(jobs, n, o) : \A k \in Declaring(jobs, n, o) : k <= i

\* Without a terminal to ask at, cobra insists on the flags without a default.
Required(jobs, n, interactive) ==
    IF interactive THEN {}
    ELSE {o \in Flags(jobs, n) :
             ~jobs[SubSeq(n, 1, Nearest(jobs, n, o))].options[o].default}

\* The sets of flags a user may type.
Accepted(jobs, n, interactive) ==
    {typed \in SUBSET Flags(jobs, n) : Required(jobs, n, interactive) \subseteq typed}

\* The options the job gets a value for: a flag is read if it is `Changed'.
Read(jobs, n, typed) ==
    {o \in typed : ReadFrom(jobs, n, o) = Nearest(jobs, n, o)}
===============================================================================
