----------------------------- MODULE MCAppContext -----------------------------
(* AppContext with two options, three blocks and up to two libraries. *)
EXTENDS AppContext, TLC

CONSTANTS o1, o2

Option(type, default) == [type |-> type, default |-> default]

Strings == {Option("string", d) : d \in BOOLEAN}

\* The lists of options that have some of the options in names.
Lists(names, specs) == UNION {[S -> specs] : S \in SUBSET names}

Empty == [o \in {} |-> Option("string", FALSE)]

\* Blocks that refer to nothing, a chain, a fork, a join, a cycle with a block
\* that is not part of it, a block that refers to itself, and one to nothing.
MCRefChoices ==
    {1 :> a @@ 2 :> b @@ 3 :> c :
        a \in {{}, {2}, {2, 3}}, b \in {{}, {3}, {2}}, c \in {{}, {1}, {Undeclared}}}

NoRefs == [b \in Blocks |-> {}]

\* A directory without imports: a root job and a job, with any options, or with
\* blocks that refer to each other.
Plain ==
    LET directory(g, l, r) ==
            [modules |-> <<<<JobSpec(<<>>, g, <<>>), JobSpec(<<"j">>, l, <<>>)>>>>, refs |-> r]
    IN  {directory(g, l, NoRefs) :
            g \in Lists({o1, o2}, Strings), l \in Lists({o1, o2}, Strings)}
        \cup {directory(g, l, r) :
            g \in Lists({o1}, Strings), l \in Lists({o2}, Strings), r \in MCRefChoices}

\* Libraries: 1 has any global option o1, and a job s.  2 imports 1 as its job
\* k, or for its root job, and may declare o2.
Lib1 ==
    {<<JobSpec(<<>>, g, <<>>), JobSpec(<<"s">>, l, <<>>)>> :
        g \in Lists({o1}, Strings \cup {Option("number", TRUE)}),
        l \in {Empty, o2 :> Option("string", FALSE)}}

Lib2 ==
    {<<JobSpec(<<>>, g, <<>>), JobSpec(<<"k">>, Empty, <<1>>)>> :
        g \in {Empty, o2 :> Option("string", TRUE)}}
    \cup {<<JobSpec(<<>>, Empty, <<1>>)>>,
          <<JobSpec(<<>>, Empty, <<>>), JobSpec(<<"s">>, Empty, <<>>)>>}

\* What the user may write: jobs that import, or the root job, one library, or
\* two, or the same one under two names; a job of the name of an imported one,
\* before or after it.
MainJobs ==
    LET j(imports) == JobSpec(<<"j">>, Empty, imports)
        js == JobSpec(<<"j", "s">>, Empty, <<>>)
    IN  {<<j(<<1>>)>>, <<j(<<2>>)>>, <<j(<<1, 2>>)>>, <<j(<<1>>), js>>, <<js, j(<<1>>)>>,
         <<j(<<1>>), JobSpec(<<"s">>, Empty, <<2>>)>>,
         <<JobSpec(<<"j">>, o1 :> Option("string", FALSE), <<1>>)>>}

MainModules ==
    {<<JobSpec(<<>>, g, <<>>)>> \o jobs :
        g \in Lists({o1}, Strings), jobs \in MainJobs}
    \cup {<<JobSpec(<<>>, g, imports), JobSpec(<<"j">>, Empty, <<>>)>> :
        g \in Lists({o1}, Strings), imports \in {<<1>>, <<2>>, <<1, 2>>}}

Importing ==
    {[modules |-> <<a, b, c>>, refs |-> NoRefs] : a \in Lib1, b \in Lib2, c \in MainModules}

\* Library 2 counts only if it is used.
OneOfEach ==
    {p \in Importing : 2 \in Loaded(p.modules) \/ Len(p.modules[2]) = 1}

MCPrograms == Plain \cup OneOfEach
===============================================================================
