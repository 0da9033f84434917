------------------------------- MODULE MCJobCall -------------------------------
(* JobCall on a job that depends on one job, calls another one, and so on. *)
EXTENDS JobCall

MCNames == {"main", "dep", "sub", "root", "missing"}
MCEntries == {"main", "missing"}

\* A job that calls none.
Leaf(log, exec, asserts) ==
    [configs |-> <<>>, log |-> log, forwards |-> <<>>, deps |-> <<>>,
     steps |-> <<>>, chained |-> FALSE, exec |-> exec, runs |-> <<>>,
     conditional |-> FALSE, asserts |-> asserts]

Plain == Leaf("none", TRUE, 0)
Nothing == Leaf("none", FALSE, 0)

NoDeps == {<<>>}
SomeDeps == {<<[job |-> "dep", items |-> n]>> : n \in {0, 2}}

\* Nothing, an exec, steps with an exec that is ignored, runs, or a call of a
\* job that does not exist.
Bodies ==
    {[exec |-> TRUE, steps |-> s, runs |-> <<>>] : s \in {<<>>, <<"sub", "dep">>}}
    \cup {[exec |-> FALSE, steps |-> <<>>, runs |-> r] :
            r \in {<<>>, <<"sub", "dep">>, <<"missing">>}}

\* Neither, or a config that is the output of a job, or a log that is
\* forwarded to two.
Around ==
    {[configs |-> c, forwards |-> f] :
        c \in {<<>>, <<"sub">>}, f \in {<<>>, <<"sub", "dep">>}}

MCMains ==
    {b @@ e @@ [log |-> l, deps |-> d, chained |-> c, conditional |-> c, asserts |-> a] :
        b \in Bodies, e \in Around, l \in {"none", "empty", "collects"},
        d \in NoDeps \cup SomeDeps, c \in BOOLEAN, a \in 0..1}

Subs ==
    {Leaf("none", e, a) : e \in BOOLEAN, a \in 0..1}
    \cup {[Leaf("collects", TRUE, 1) EXCEPT !.forwards = <<"dep">>],
          [Nothing EXCEPT !.runs = <<"dep", "dep">>, !.conditional = TRUE],
          [Nothing EXCEPT !.steps = <<"dep", "dep">>],
          [Nothing EXCEPT !.deps = <<[job |-> "dep", items |-> 0]>>]}

Roots == {Nothing, Plain}

MCConfigs ==
    {[n \in MCNames \ {"missing"} |->
        CASE n = "main" -> m [] n = "dep" -> Plain
          [] n = "sub" -> s [] n = "root" -> r] :
        m \in MCMains, s \in Subs, r \in Roots}
===============================================================================
