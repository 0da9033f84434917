-------------------------------- MODULE FetchAll --------------------------------
(***************************************************************************)
(* What the checkout of a job's sources promises, whatever machinery does  *)
(* it.  Each source is begun at most once, in the order of the job, and is *)
(* either fetched or lost.  The answer is given once: success when every   *)
(* source has been fetched, an error when one was lost or before the first *)
(* one was begun.  A fetch may come to an end after an error, but nothing  *)
(* happens after a success.                                                *)
(*                                                                         *)
(* SourceCheckout implements this specification.                           *)
(***************************************************************************)
EXTENDS Naturals

CONSTANT NumSources

VARIABLES
    status,     \* of each source: "waiting", "busy", "fetched" or "lost"
    answer      \* "none" | "ok" | "error"

vars == <<status, answer>>

Sources == 1..NumSources

With(x) == {s \in Sources : status[s] = x}

Init ==
    /\ status = [s \in Sources |-> "waiting"]
    /\ answer = "none"

Begin(s) ==
    /\ answer = "none"
    /\ status[s] = "waiting"
    /\ \A r \in With("waiting") : s <= r
    /\ status' = [status EXCEPT ![s] = "busy"]
    /\ UNCHANGED answer

Fetch(s) ==
    /\ answer # "ok"
    /\ status[s] = "busy"
    /\ status' = [status EXCEPT ![s] = "fetched"]
    /\ UNCHANGED answer

Lose(s) ==
    /\ answer = "none"
    /\ status[s] = "busy"
    /\ status' = [status EXCEPT ![s] = "lost"]
    /\ UNCHANGED answer

AnswerOk ==
    /\ answer = "none"
    /\ With("fetched") = Sources
    /\ answer' = "ok"
    /\ UNCHANGED status

AnswerError ==
    /\ answer = "none"
    /\ With("lost") # {} \/ With("waiting") = Sources
    /\ answer' = "error"
    /\ UNCHANGED status

Next ==
    \/ \E s \in Sources : Begin(s) \/ Fetch(s) \/ Lose(s)
    \/ AnswerOk
    \/ AnswerError

Spec == Init /\ [][Next]_vars
===============================================================================
