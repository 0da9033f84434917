---------------------------- MODULE SlackBot_proofs ----------------------------
(***************************************************************************)
(* Proofs about SlackBot, for any commands, options, entry and restarts.   *)
(*                                                                         *)
(* The inductive invariant has three parts: the mutex of the runner keeps  *)
(* the SetOpts field to the command that holds it (Exclusive), a value     *)
(* that reaches a command was typed by its owner (Owned), and a dialog, its*)
(* handler and the channel of its command stay in step (InStep).           *)
(***************************************************************************)
EXTENDS SlackBot, TLAPS

Locked == {"parse", "ask", "open", "wait", "job", "failed"}

Asking == {"ask", "open", "wait"}

\* A command past the lock holds the mutex and finds itself in SetOpts.
Exclusive ==
    /\ \A s \in Sessions : pc[s] \in Locked => mut = s /\ setOpts = s
    /\ \A s \in Sessions : pc[s] \in Asking => asker[s] = s

\* A flag that is `Changed' was typed by the command whose value it has.  A
\* command that nobody has sent yet has no values and is in no flag.
Owned ==
    /\ \A o \in Options :
          flags[o] # None => flags[o] \in Sessions /\ o \in typed[flags[o]]
    /\ \A s \in Sessions, o \in Options :
          values[s][o] \notin {None, s}
              => values[s][o] \in Sessions /\ o \in typed[values[s][o]]
    /\ \A s \in Sessions : pc[s] = "idle" => typed[s] = {}

\* A dialog is open between the moment its command waits for it and the one its
\* user answers it, which is put into the channel.
InStep ==
    /\ \A d \in Sessions : handlers[d] \in {None, d}
    /\ \A s \in Sessions :
          pc[s] \in {"idle", "lock", "parse", "ask", "open"} => dialog[s] = "none"
    /\ \A s \in Sessions : dialog[s] \in {"none", "open"} => done[s] = 0
    /\ \A s \in Sessions :
          dialog[s] = "submitted" /\ pc[s] = "wait" => \A o \in Options : values[s][o] # None

IInv == TypeOK /\ Exclusive /\ Owned /\ InStep /\ MissingOnlyIfCancelled

USE EntryAssumption, BoundsAssumption, NoneAssumption

-------------------------------------------------------------------------------
LEMMA InitHolds == Init => IInv
<1> SUFFICES ASSUME Init PROVE IInv
  OBVIOUS
<1>1. /\ flags \in [Options -> Sessions \cup {None}]
      /\ pc \in [Sessions -> Running \cup {"idle", "dropped", "answered", "lost"}]
      /\ typed \in [Sessions -> SUBSET Options]
  BY DEF Init, Unset
<1>2. values \in [Sessions -> [Options -> Sessions \cup {None}]]
  BY DEF Init, Unset
<1>3. /\ asker \in [Sessions -> Sessions \cup {None}]
      /\ handlers \in [Sessions -> Sessions \cup {None}]
      /\ dialog \in [Sessions -> {"none", "open", "cancelled", "submitted"}]
  BY DEF Init
<1>4. done \in [Sessions -> 0..1] /\ invalid \in [Sessions -> 0..MaxInvalid]
  BY DEF Init
<1>5. TypeOK
  BY <1>1, <1>2, <1>3, <1>4 DEF Init, TypeOK, FirstHolder
<1>6. Exclusive /\ Owned
  BY DEF Init, Exclusive, Owned, Unset, Locked, Asking
<1>7. InStep /\ MissingOnlyIfCancelled
  BY DEF Init, InStep, MissingOnlyIfCancelled
<1> QED
  BY <1>5, <1>6, <1>7 DEF IInv

\* The commands that come and those that are dropped.
LEMMA ArriveKeeps == ASSUME IInv, NEW s \in Sessions, Arrive(s) \/ Drop(s) PROVE IInv'
<1> USE DEF IInv
<1>1. /\ pc \in [Sessions -> Running \cup {"idle", "dropped", "answered", "lost"}]
      /\ typed \in [Sessions -> SUBSET Options]
      /\ pc[s] = "idle"
  BY DEF TypeOK, Arrive, Drop
<1>2. PICK place \in {"lock", "dropped"} : pc' = [pc EXCEPT ![s] = place]
  BY DEF Arrive, Drop, Goto
<1>3. PICK given \in SUBSET Options : typed' = [typed EXCEPT ![s] = given]
  <2>1. CASE Arrive(s)
    BY <2>1 DEF Arrive
  <2>2. CASE Drop(s)
    BY <1>1, <2>2 DEF Drop
  <2> QED
    BY <2>1, <2>2
<1>4. UNCHANGED <<runner, values, asker, handlers, dialog, done, invalid, restarts>>
  BY DEF Arrive, Drop
<1>5. pc' \in [Sessions -> Running \cup {"idle", "dropped", "answered", "lost"}]
  BY <1>1, <1>2 DEF Running
<1>6. typed' \in [Sessions -> SUBSET Options]
  BY <1>1, <1>3
<1>7. TypeOK'
  BY <1>4, <1>5, <1>6 DEF TypeOK, runner
<1>8. Exclusive'
  BY <1>1, <1>2, <1>4 DEF Exclusive, Locked, Asking, runner
<1>9. Owned'
  <2>1. typed[s] = {}
    BY <1>1 DEF Owned
  <2>2. \A r \in Sessions : typed[r] \subseteq typed'[r]
    BY <1>1, <1>3, <2>1
  <2>3. \A r \in Sessions : pc'[r] = "idle" => typed'[r] = {}
    BY <1>1, <1>2, <1>3 DEF Owned
  <2> QED
    BY <1>4, <2>2, <2>3 DEF Owned, runner
<1>10. InStep' /\ MissingOnlyIfCancelled'
  BY <1>1, <1>2, <1>4 DEF InStep, MissingOnlyIfCancelled
<1> QED
  BY <1>7, <1>8, <1>9, <1>10

LEMMA LockKeeps == ASSUME IInv, NEW s \in Sessions, Lock(s) PROVE IInv'
<1> USE DEF IInv
<1>1. /\ pc \in [Sessions -> Running \cup {"idle", "dropped", "answered", "lost"}]
      /\ pc[s] = "lock" /\ mut = None /\ mut' = s /\ setOpts' = s
      /\ pc' = [pc EXCEPT ![s] = "parse"]
      /\ UNCHANGED <<flags, typed, values, asker, handlers, dialog, done, invalid, restarts>>
  BY DEF TypeOK, Lock, Goto
<1>2. pc' \in [Sessions -> Running \cup {"idle", "dropped", "answered", "lost"}]
  BY <1>1 DEF Running
<1>3. TypeOK'
  BY <1>1, <1>2 DEF TypeOK
<1>4. Exclusive'
  BY <1>1 DEF Exclusive, Locked, Asking
<1>5. Owned' /\ InStep' /\ MissingOnlyIfCancelled'
  BY <1>1 DEF Owned, InStep, MissingOnlyIfCancelled
<1> QED
  BY <1>3, <1>4, <1>5

\* cobra leaves every flag with a value somebody typed.
LEMMA ParseKeeps == ASSUME IInv, NEW s \in Sessions, Parse(s) PROVE IInv'
<1> USE DEF IInv
<1> DEFINE given == [o \in Options |-> IF o \in typed[s] THEN s ELSE flags[o]]
<1>1. /\ pc \in [Sessions -> Running \cup {"idle", "dropped", "answered", "lost"}]
      /\ values \in [Sessions -> [Options -> Sessions \cup {None}]]
      /\ asker \in [Sessions -> Sessions \cup {None}]
      /\ flags \in [Options -> Sessions \cup {None}]
      /\ setOpts \in Sessions \cup {None}
  BY DEF TypeOK
<1>2. /\ pc[s] = "parse" /\ mut = s /\ setOpts = s
      /\ flags' = given /\ values' = [values EXCEPT ![s] = given]
      /\ asker' = [asker EXCEPT ![s] = s]
      /\ UNCHANGED <<mut, setOpts, typed, handlers, dialog, done, invalid, restarts>>
  BY DEF Parse, Exclusive, Locked
<1>3. PICK place \in {"job", "failed", "ask"} :
          /\ pc' = [pc EXCEPT ![s] = place]
          /\ place = "job" => \A o \in Options : given[o] # None
  BY <1>2 DEF Parse, Goto
<1>4. given \in [Options -> Sessions \cup {None}]
  BY <1>1
<1>5. TypeOK'
  <2>1. pc' \in [Sessions -> Running \cup {"idle", "dropped", "answered", "lost"}]
    BY <1>1, <1>3 DEF Running
  <2>2. values' \in [Sessions -> [Options -> Sessions \cup {None}]]
    BY <1>1, <1>2, <1>4
  <2>3. asker' \in [Sessions -> Sessions \cup {None}]
    BY <1>1, <1>2
  <2> QED
    BY <1>2, <1>4, <2>1, <2>2, <2>3 DEF TypeOK
<1>6. Exclusive'
  BY <1>1, <1>2, <1>3 DEF Exclusive, Locked, Asking
<1>7. \A o \in Options : given[o] # None => given[o] \in Sessions /\ o \in typed[given[o]]
  BY DEF Owned
<1>8. Owned'
  <2>1. \A o \in Options :
            flags'[o] # None => flags'[o] \in Sessions /\ o \in typed'[flags'[o]]
    BY <1>2, <1>7
  <2>2. \A r \in Sessions, o \in Options :
            values'[r][o] \notin {None, r}
                => values'[r][o] \in Sessions /\ o \in typed'[values'[r][o]]
    <3> SUFFICES ASSUME NEW r \in Sessions, NEW o \in Options, values'[r][o] \notin {None, r}
                 PROVE  values'[r][o] \in Sessions /\ o \in typed'[values'[r][o]]
      OBVIOUS
    <3>1. CASE r = s
      BY <1>1, <1>2, <1>7, <3>1
    <3>2. CASE r # s
      BY <1>1, <1>2, <3>2 DEF Owned
    <3> QED
      BY <3>1, <3>2
  <2>3. \A r \in Sessions : pc'[r] = "idle" => typed'[r] = {}
    BY <1>1, <1>2, <1>3 DEF Owned
  <2> QED
    BY <2>1, <2>2, <2>3 DEF Owned
<1>9. InStep'
  BY <1>1, <1>2, <1>3 DEF InStep
<1>10. MissingOnlyIfCancelled'
  BY <1>1, <1>2, <1>3 DEF MissingOnlyIfCancelled, InStep
<1> QED
  BY <1>5, <1>6, <1>8, <1>9, <1>10

LEMMA ParseFailsKeeps == ASSUME IInv, NEW s \in Sessions, ParseFails(s) PROVE IInv'
<1> USE DEF IInv
<1>1. PICK set \in SUBSET typed[s] :
          flags' = [o \in Options |-> IF o \in set THEN s ELSE flags[o]]
  BY DEF ParseFails
<1>2. /\ pc \in [Sessions -> Running \cup {"idle", "dropped", "answered", "lost"}]
      /\ flags \in [Options -> Sessions \cup {None}]
      /\ pc[s] = "parse" /\ pc' = [pc EXCEPT ![s] = "failed"]
      /\ UNCHANGED <<mut, setOpts, typed, values, asker, handlers, dialog, done,
                     invalid, restarts>>
  BY DEF TypeOK, ParseFails, Goto
<1>3. TypeOK'
  <2>1. /\ pc' \in [Sessions -> Running \cup {"idle", "dropped", "answered", "lost"}]
        /\ flags' \in [Options -> Sessions \cup {None}]
    BY <1>1, <1>2 DEF Running
  <2> QED
    BY <1>2, <2>1 DEF TypeOK
<1>4. Exclusive' /\ InStep' /\ MissingOnlyIfCancelled'
  BY <1>2 DEF Exclusive, Locked, Asking, InStep, MissingOnlyIfCancelled
<1>5. Owned'
  BY <1>1, <1>2 DEF Owned
<1> QED
  BY <1>3, <1>4, <1>5

\* The steps of a command that asks its user: the dialog is its own.
LEMMA AskKeeps ==
    ASSUME IInv, NEW s \in Sessions, Ask(s) \/ OpenDialog(s) \/ OpenFails(s) \/ Wake(s)
    PROVE  IInv'
<1> USE DEF IInv
<1>1. /\ pc \in [Sessions -> Running \cup {"idle", "dropped", "answered", "lost"}]
      /\ handlers \in [Sessions -> Sessions \cup {None}]
      /\ dialog \in [Sessions -> {"none", "open", "cancelled", "submitted"}]
      /\ done \in [Sessions -> 0..1]
      /\ asker[s] = s
  BY DEF TypeOK, Exclusive, Asking, Ask, OpenDialog, OpenFails, Wake
<1>2. CASE Ask(s)
  <2>1. /\ pc[s] = "ask" /\ pc' = [pc EXCEPT ![s] = "open"]
        /\ handlers' = [handlers EXCEPT ![s] = s]
        /\ UNCHANGED <<runner, typed, values, asker, dialog, done, invalid, restarts>>
    BY <1>1, <1>2 DEF Ask, Goto
  <2>2. TypeOK'
    BY <1>1, <2>1 DEF TypeOK, runner, Running
  <2>3. Exclusive' /\ Owned'
    BY <1>1, <2>1 DEF Exclusive, Owned, Locked, Asking, runner
  <2>4. InStep' /\ MissingOnlyIfCancelled'
    BY <1>1, <2>1 DEF InStep, MissingOnlyIfCancelled
  <2> QED
    BY <2>2, <2>3, <2>4
<1>3. CASE OpenDialog(s)
  <2>1. /\ pc[s] = "open" /\ pc' = [pc EXCEPT ![s] = "wait"]
        /\ dialog' = [dialog EXCEPT ![s] = "open"]
        /\ UNCHANGED <<runner, typed, values, asker, handlers, done, invalid, restarts>>
    BY <1>1, <1>3 DEF OpenDialog, Goto
  <2>2. TypeOK'
    BY <1>1, <2>1 DEF TypeOK, runner, Running
  <2>3. Exclusive' /\ Owned'
    BY <1>1, <2>1 DEF Exclusive, Owned, Locked, Asking, runner
  <2>4. InStep' /\ MissingOnlyIfCancelled'
    BY <1>1, <2>1 DEF InStep, MissingOnlyIfCancelled
  <2> QED
    BY <2>2, <2>3, <2>4
<1>4. CASE OpenFails(s)
  <2>1. /\ pc[s] = "open" /\ pc' = [pc EXCEPT ![s] = "job"]
        /\ UNCHANGED <<runner, typed, values, asker, handlers, dialog, done, invalid, restarts>>
    BY <1>4 DEF OpenFails, Goto
  <2>2. TypeOK'
    BY <1>1, <2>1 DEF TypeOK, runner, Running
  <2>3. Exclusive' /\ Owned'
    BY <1>1, <2>1 DEF Exclusive, Owned, Locked, Asking, runner
  <2>4. InStep' /\ MissingOnlyIfCancelled'
    BY <1>1, <2>1 DEF InStep, MissingOnlyIfCancelled
  <2> QED
    BY <2>2, <2>3, <2>4
<1>5. CASE Wake(s)
  <2>1. /\ pc[s] = "wait" /\ pc' = [pc EXCEPT ![s] = "job"]
        /\ done[s] = 1 /\ done' = [done EXCEPT ![s] = 0]
        /\ UNCHANGED <<runner, typed, values, asker, handlers, dialog, invalid, restarts>>
    <3>1. done[s] \in 0..1 /\ done[s] > 0
      BY <1>1, <1>5 DEF Wake
    <3>2. done[s] = 1 /\ done[s] - 1 = 0
      BY <3>1
    <3> QED
      BY <1>5, <3>2 DEF Wake, Goto
  <2>2. TypeOK'
    BY <1>1, <2>1 DEF TypeOK, runner, Running
  <2>3. Exclusive' /\ Owned'
    BY <1>1, <2>1 DEF Exclusive, Owned, Locked, Asking, runner
  <2>4. dialog[s] \in {"cancelled", "submitted"}
    BY <1>1, <2>1 DEF InStep
  <2>5. InStep' /\ MissingOnlyIfCancelled'
    BY <1>1, <2>1, <2>4 DEF InStep, MissingOnlyIfCancelled
  <2> QED
    BY <2>2, <2>3, <2>5
<1> QED
  BY <1>2, <1>3, <1>4, <1>5

LEMMA FinishKeeps == ASSUME IInv, NEW s \in Sessions, Finish(s) PROVE IInv'
<1> USE DEF IInv
<1>1. /\ pc \in [Sessions -> Running \cup {"idle", "dropped", "answered", "lost"}]
      /\ pc[s] \in {"job", "failed"} /\ mut = s /\ mut' = None /\ setOpts' = None
      /\ pc' = [pc EXCEPT ![s] = "answered"]
      /\ UNCHANGED <<flags, typed, values, asker, handlers, dialog, done, invalid, restarts>>
  BY DEF TypeOK, Finish, Goto, Exclusive, Locked
<1>2. TypeOK'
  BY <1>1 DEF TypeOK, Running
<1>3. Exclusive'
  BY <1>1 DEF Exclusive, Locked, Asking
<1>4. Owned' /\ InStep' /\ MissingOnlyIfCancelled'
  BY <1>1 DEF Owned, InStep, MissingOnlyIfCancelled
<1> QED
  BY <1>2, <1>3, <1>4

\* What users do with their dialogs.
LEMMA InteractionKeeps ==
    ASSUME IInv, NEW d \in Sessions, Cancel(d) \/ SubmitInvalid(d) \/ Submit(d)
    PROVE  IInv'
<1> USE DEF IInv
<1>1. /\ dialog \in [Sessions -> {"none", "open", "cancelled", "submitted"}]
      /\ done \in [Sessions -> 0..1] /\ invalid \in [Sessions -> 0..MaxInvalid]
      /\ values \in [Sessions -> [Options -> Sessions \cup {None}]]
      /\ dialog[d] = "open" /\ handlers[d] = d /\ done[d] = 0
      /\ pc[d] \notin {"idle", "lock", "parse", "ask", "open"}
  BY DEF TypeOK, InStep, Cancel, SubmitInvalid, Submit, Interact
<1>2. CASE Cancel(d)
  <2>1. /\ dialog' = [dialog EXCEPT ![d] = "cancelled"] /\ done' = [done EXCEPT ![d] = 1]
        /\ UNCHANGED <<runner, pc, typed, values, asker, handlers, invalid, restarts>>
    BY <1>1, <1>2 DEF Cancel
  <2>2. TypeOK' /\ Exclusive' /\ Owned'
    BY <1>1, <2>1 DEF TypeOK, Exclusive, Owned, runner
  <2>3. InStep' /\ MissingOnlyIfCancelled'
    BY <1>1, <2>1 DEF InStep, MissingOnlyIfCancelled
  <2> QED
    BY <2>2, <2>3
<1>3. CASE SubmitInvalid(d)
  <2>1. /\ invalid' = [invalid EXCEPT ![d] = @ + 1] /\ invalid[d] < MaxInvalid
        /\ UNCHANGED <<runner, pc, typed, values, asker, handlers, dialog, done, restarts>>
    BY <1>1, <1>3 DEF SubmitInvalid
  <2>2. invalid' \in [Sessions -> 0..MaxInvalid]
    BY <1>1, <2>1
  <2>3. TypeOK' /\ Exclusive' /\ Owned'
    BY <2>1, <2>2 DEF TypeOK, Exclusive, Owned, runner
  <2>4. InStep' /\ MissingOnlyIfCancelled'
    BY <2>1 DEF InStep, MissingOnlyIfCancelled
  <2> QED
    BY <2>3, <2>4
<1>4. CASE Submit(d)
  <2> DEFINE filled == [o \in Options |-> IF values[d][o] = None THEN d ELSE values[d][o]]
  <2>1. /\ dialog' = [dialog EXCEPT ![d] = "submitted"] /\ done' = [done EXCEPT ![d] = 1]
        /\ values' = [values EXCEPT ![d] = filled]
        /\ UNCHANGED <<runner, pc, typed, asker, handlers, invalid, restarts>>
    BY <1>1, <1>4 DEF Submit
  <2>2. /\ filled \in [Options -> Sessions \cup {None}]
        /\ \A o \in Options : filled[o] # None /\ filled[o] \in {d, values[d][o]}
    BY <1>1
  <2>3. values' \in [Sessions -> [Options -> Sessions \cup {None}]]
    BY <1>1, <2>1, <2>2
  <2>4. TypeOK'
    BY <1>1, <2>1, <2>3 DEF TypeOK, runner
  <2>5. Exclusive'
    BY <2>1 DEF Exclusive, runner
  <2>6. /\ values'[d] = filled
        /\ \A r \in Sessions : r # d => values'[r] = values[r]
    BY <1>1, <2>1
  <2>7. Owned'
    BY <2>1, <2>2, <2>6 DEF Owned, runner
  <2>8. InStep'
    BY <1>1, <2>1, <2>2, <2>6 DEF InStep
  <2>9. MissingOnlyIfCancelled'
    BY <1>1, <2>1, <2>2, <2>6 DEF MissingOnlyIfCancelled
  <2> QED
    BY <2>4, <2>5, <2>7, <2>8, <2>9
<1> QED
  BY <1>2, <1>3, <1>4

\* The new process has no handlers and no commands; the dialogs stay.
LEMMA RestartKeeps == IInv /\ Restart => IInv'
<1> SUFFICES ASSUME IInv, Restart PROVE IInv'
  OBVIOUS
<1> USE DEF IInv
<1>1. /\ pc' = [s \in Sessions |-> IF pc[s] \in Running THEN "lost" ELSE pc[s]]
      /\ mut' = FirstHolder /\ setOpts' = None /\ flags' = [o \in Options |-> None]
      /\ handlers' = [s \in Sessions |-> None] /\ done' = [s \in Sessions |-> 0]
      /\ restarts' \in 0..MaxRestarts
      /\ UNCHANGED <<typed, values, asker, dialog, invalid>>
  BY DEF Restart, Unset, TypeOK
<1>2. \A s \in Sessions :
          pc'[s] \in {"idle", "dropped", "answered", "lost"} /\ (pc'[s] = "idle" => pc[s] = "idle")
  <2> SUFFICES ASSUME NEW s \in Sessions
               PROVE  pc'[s] \in {"idle", "dropped", "answered", "lost"}
                      /\ (pc'[s] = "idle" => pc[s] = "idle")
    OBVIOUS
  <2>1. pc[s] \in Running \cup {"idle", "dropped", "answered", "lost"}
    BY DEF TypeOK
  <2> QED
    BY <1>1, <2>1
<1>3. TypeOK'
  <2>1. pc' \in [Sessions -> Running \cup {"idle", "dropped", "answered", "lost"}]
    BY <1>1, <1>2
  <2>2. /\ flags' \in [Options -> Sessions \cup {None}]
        /\ handlers' \in [Sessions -> Sessions \cup {None}]
        /\ done' \in [Sessions -> 0..1]
    BY <1>1
  <2> QED
    BY <1>1, <2>1, <2>2 DEF TypeOK, FirstHolder
<1>4. Exclusive'
  BY <1>2 DEF Exclusive, Locked, Asking
<1>5. Owned'
  BY <1>1, <1>2 DEF Owned
<1>6. InStep' /\ MissingOnlyIfCancelled'
  BY <1>1, <1>2 DEF InStep, MissingOnlyIfCancelled
<1> QED
  BY <1>3, <1>4, <1>5, <1>6

LEMMA NextKeeps == IInv /\ [Next]_vars => IInv'
<1> SUFFICES ASSUME IInv, [Next]_vars PROVE IInv'
  OBVIOUS
<1>1. CASE UNCHANGED vars
  BY <1>1 DEF vars, runner, IInv, TypeOK, Exclusive, Owned, InStep, MissingOnlyIfCancelled
<1>2. ASSUME NEW s \in Sessions, Arrive(s) \/ Drop(s) \/ Session(s) PROVE IInv'
  BY <1>2, ArriveKeeps, LockKeeps, ParseKeeps, ParseFailsKeeps, AskKeeps,
     FinishKeeps DEF Session
<1>3. ASSUME NEW d \in Sessions, Cancel(d) \/ SubmitInvalid(d) \/ Submit(d) PROVE IInv'
  BY <1>3, InteractionKeeps
<1> QED
  BY <1>1, <1>2, <1>3, RestartKeeps DEF Next

LEMMA Invariance == Spec => []IInv
BY InitHolds, NextKeeps, PTL DEF Spec

-------------------------------------------------------------------------------
(* Theorems *)

\* The types of the state of the bot and of Slack's dialogs; in particular the
\* channel of a command never holds more than the one value it has room for.
THEOREM TypeCorrect == Spec => []TypeOK
<1>1. IInv => TypeOK
  BY DEF IInv
<1> QED
  BY <1>1, Invariance, PTL

\* The mutex of the runner (variant.go:709) keeps one command from asking with
\* the SetOpts function of another, however many there are.
THEOREM AsksItsOwnUserAlways == Spec => []AsksItsOwnUser
<1>1. IInv => AsksItsOwnUser
  BY DEF IInv, Exclusive, Asking, AsksItsOwnUser
<1> QED
  BY <1>1, Invariance, PTL

\* A submission (slack.go:85-150) reaches nobody but the command of its user.
THEOREM SubmissionsStayPrivateAlways == Spec => []SubmissionsStayPrivate
<1>1. IInv => SubmissionsStayPrivate
  BY DEF IInv, Owned, SubmissionsStayPrivate
<1> QED
  BY <1>1, Invariance, PTL

\* A job starts without the value of an option only if its user cancelled the
\* dialog or there was none (slack.go:79-83 and 153-157).
THEOREM MissingOnlyIfCancelledAlways == Spec => []MissingOnlyIfCancelled
<1>1. IInv => MissingOnlyIfCancelled
  BY DEF IInv
<1> QED
  BY <1>1, Invariance, PTL
===============================================================================
