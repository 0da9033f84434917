------------------------------ MODULE MCJobSteps ------------------------------
(* JobSteps on small jobs. *)
EXTENDS JobSteps

\* Every need relation of the steps, cyclic and undeclared ones included.
EveryNeeds == [Steps -> SUBSET (Steps \cup {Undeclared})]

\* Four steps in three waves: the two in the middle need nothing, the last one
\* needs both of them and the first one needs the last one.
Diamond == {<<{4}, {}, {}, {2, 3}>>}

\* Steps that need nothing, like those of examples/concurrency.
Independent == {[s \in Steps |-> {}]}
===============================================================================
