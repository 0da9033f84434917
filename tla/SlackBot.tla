------------------------------- MODULE SlackBot -------------------------------
(***************************************************************************)
(* The Slack bot: StartSlackbot of slack.go, Connection of pkg/slack, and  *)
(* Runner.Run of variant.go, which every command goes through.             *)
(*                                                                         *)
(* Each slash command is a session, a goroutine of its own, and so is each *)
(* interaction a user has with a dialog.  They share the Runner (its mutex,*)
(* its SetOpts function, the cobra commands it builds once) and the        *)
(* handlers registered for the dialogs.  A command that lacks the value of *)
(* an option asks its user for it in a dialog, while it holds the mutex.   *)
(*                                                                         *)
(* All that matters of the value of an option is whose it is: values are   *)
(* the sessions whose user typed or submitted them.                        *)
(***************************************************************************)
EXTENDS Naturals

CONSTANTS
    Sessions,      \* the slash commands
    Options,       \* the options of the job; none has a default
    Entry,         \* how the bot is started
    MaxInvalid,    \* bound on the submissions that fail validation, per dialog
    MaxRestarts,   \* bound on the restarts of the bot
    None

\* "cli": by `variant start slackbot', a command that Runner.Run itself runs.
\* "api": by a program that calls StartSlackbot.
ASSUME EntryAssumption == Entry \in {"cli", "api"}
ASSUME BoundsAssumption == MaxInvalid \in Nat /\ MaxRestarts \in Nat
ASSUME NoneAssumption == None \notin Sessions /\ "start" \notin Sessions

VARIABLES
    mut,        \* who holds the mutex of the runner
    setOpts,    \* the session whose function is in Runner.SetOpts
    flags,      \* the cobra flags that are `Changed', and whose value they have
    pc,         \* where each session is
    typed,      \* the options each command gives a value to
    values,     \* the option values the job of each session gets
    asker,      \* the session whose SetOpts function each session called
    handlers,   \* the session each dialog's handler answers to
    dialog,     \* what Slack shows of each session's dialog
    done,       \* the contents of each session's done channel
    invalid,    \* the invalid submissions of each dialog
    restarts

runner == <<mut, setOpts, flags>>
vars == <<mut, setOpts, flags, pc, typed, values, asker, handlers, dialog,
          done, invalid, restarts>>

Unset == [o \in Options |-> None]

\* Between the moment a session waits for the mutex and its answer.
Running == {"lock", "parse", "ask", "open", "wait", "job", "failed"}

TypeOK ==
    /\ mut \in Sessions \cup {None, "start"}
    /\ setOpts \in Sessions \cup {None}
    /\ flags \in [Options -> Sessions \cup {None}]
    /\ pc \in [Sessions -> Running \cup {"idle", "dropped", "answered", "lost"}]
    /\ typed \in [Sessions -> SUBSET Options]
    /\ values \in [Sessions -> [Options -> Sessions \cup {None}]]
    /\ asker \in [Sessions -> Sessions \cup {None}]
    /\ handlers \in [Sessions -> Sessions \cup {None}]
    /\ dialog \in [Sessions -> {"none", "open", "cancelled", "submitted"}]
    /\ done \in [Sessions -> 0..1]
    /\ invalid \in [Sessions -> 0..MaxInvalid]
    /\ restarts \in 0..MaxRestarts

\* A bot that the command line starts runs inside Runner.Run, which locks.
FirstHolder == IF Entry = "cli" THEN "start" ELSE None

Init ==
    /\ mut = FirstHolder
    /\ setOpts = None
    /\ flags = Unset
    /\ pc = [s \in Sessions |-> "idle"]
    /\ typed = [s \in Sessions |-> {}]
    /\ values = [s \in Sessions |-> Unset]
    /\ asker = [s \in Sessions |-> None]
    /\ handlers = [s \in Sessions |-> None]
    /\ dialog = [s \in Sessions |-> "none"]
    /\ done = [s \in Sessions |-> 0]
    /\ invalid = [s \in Sessions |-> 0]
    /\ restarts = 0

Goto(s, place) == pc' = [pc EXCEPT ![s] = place]

-------------------------------------------------------------------------------
(* The goroutine of a slash command *)

\* Two messages announce the command before it is run,
Arrive(s) ==
    /\ pc[s] = "idle"
    /\ \E given \in SUBSET Options : typed' = [typed EXCEPT ![s] = given]
    /\ Goto(s, "lock")
    /\ UNCHANGED <<runner, values, asker, handlers, dialog, done, invalid, restarts>>

\* and a message that cannot be sent drops the command.
Drop(s) ==
    /\ pc[s] = "idle"
    /\ Goto(s, "dropped")
    /\ UNCHANGED <<runner, typed, values, asker, handlers, dialog, done, invalid,
                   restarts>>

\* Mutant of Lock: commands run with locking disabled.
LockDisabled(s) ==
    /\ pc[s] = "lock"
    /\ mut' = s
    /\ setOpts' = s
    /\ Goto(s, "parse")
    /\ UNCHANGED <<flags, typed, values, asker, handlers, dialog, done, invalid,
                   restarts>>

Lock(s) ==
    /\ pc[s] = "lock"
    /\ mut = None
    /\ mut' = s
    /\ setOpts' = s
    /\ Goto(s, "parse")
    /\ UNCHANGED <<flags, typed, values, asker, handlers, dialog, done, invalid,
                   restarts>>

\* cobra sets the flags that are on the command line and never resets one, so
\* the commands after this one find it `Changed' too.
Parse(s) ==
    LET given == [o \in Options |-> IF o \in typed[s] THEN s ELSE flags[o]]
    IN  /\ pc[s] = "parse"
        /\ flags' = given
        /\ values' = [values EXCEPT ![s] = given]
        /\ asker' = [asker EXCEPT ![s] = setOpts]
        /\ Goto(s, CASE \A o \in Options : given[o] # None -> "job"
                     [] \E o \in Options : given[o] = None ->
                            IF setOpts = None THEN "failed" ELSE "ask")
        /\ UNCHANGED <<mut, setOpts, typed, handlers, dialog, done, invalid, restarts>>

\* A command that names no job, or has a flag or an argument that is refused,
\* fails, but the flags before that one stay set.
ParseFails(s) ==
    /\ pc[s] = "parse"
    /\ \E set \in SUBSET typed[s] :
          flags' = [o \in Options |-> IF o \in set THEN s ELSE flags[o]]
    /\ Goto(s, "failed")
    /\ UNCHANGED <<mut, setOpts, typed, values, asker, handlers, dialog, done,
                   invalid, restarts>>

\* Mutant of Ask: every dialog has the same callback id.
AskAnonymous(s) ==
    /\ pc[s] = "ask"
    /\ handlers' = [d \in Sessions |-> s]
    /\ Goto(s, "open")
    /\ UNCHANGED <<runner, typed, values, asker, dialog, done, invalid, restarts>>

\* The SetOpts function registers the handler of its dialog, which sets the
\* options of whoever called it,
Ask(s) ==
    /\ pc[s] = "ask"
    /\ handlers' = [handlers EXCEPT ![asker[s]] = s]
    /\ Goto(s, "open")
    /\ UNCHANGED <<runner, typed, values, asker, dialog, done, invalid, restarts>>

\* opens the dialog and waits for the channel,
OpenDialog(s) ==
    /\ pc[s] = "open"
    /\ dialog' = [dialog EXCEPT ![asker[s]] = "open"]
    /\ Goto(s, "wait")
    /\ UNCHANGED <<runner, typed, values, asker, handlers, done, invalid, restarts>>

\* or returns no error if the dialog cannot be opened.
OpenFails(s) ==
    /\ pc[s] = "open"
    /\ Goto(s, "job")
    /\ UNCHANGED <<runner, typed, values, asker, handlers, dialog, done, invalid,
                   restarts>>

Wake(s) ==
    /\ pc[s] = "wait"
    /\ done[s] > 0
    /\ done' = [done EXCEPT ![s] = @ - 1]
    /\ Goto(s, "job")
    /\ UNCHANGED <<runner, typed, values, asker, handlers, dialog, invalid, restarts>>

\* The job is over: the deferred functions of Run take SetOpts back and unlock.
Finish(s) ==
    /\ pc[s] \in {"job", "failed"}
    /\ mut' = None
    /\ setOpts' = None
    /\ Goto(s, "answered")
    /\ UNCHANGED <<flags, typed, values, asker, handlers, dialog, done, invalid,
                   restarts>>

-------------------------------------------------------------------------------
(* The goroutines of the interactions *)

\* The user of dialog d does something, and a handler of this process knows it.
Interact(d) == dialog[d] = "open" /\ handlers[d] # None

\* Mutant of Cancel: nobody is told.
CancelUnnoticed(d) ==
    /\ Interact(d)
    /\ dialog' = [dialog EXCEPT ![d] = "cancelled"]
    /\ UNCHANGED <<runner, pc, typed, values, asker, handlers, done, invalid, restarts>>

Cancel(d) ==
    /\ Interact(d)
    /\ dialog' = [dialog EXCEPT ![d] = "cancelled"]
    /\ done' = [done EXCEPT ![handlers[d]] = @ + 1]
    /\ UNCHANGED <<runner, pc, typed, values, asker, handlers, invalid, restarts>>

\* Mutant of SubmitInvalid: the waiting session is woken up all the same.
SubmitInvalidDone(d) ==
    /\ Interact(d)
    /\ invalid[d] < MaxInvalid
    /\ invalid' = [invalid EXCEPT ![d] = @ + 1]
    /\ done' = [done EXCEPT ![handlers[d]] = 1]
    /\ UNCHANGED <<runner, pc, typed, values, asker, handlers, dialog, restarts>>

\* The errors are shown in the dialog, which stays open.
SubmitInvalid(d) ==
    /\ Interact(d)
    /\ invalid[d] < MaxInvalid
    /\ invalid' = [invalid EXCEPT ![d] = @ + 1]
    /\ UNCHANGED <<runner, pc, typed, values, asker, handlers, dialog, done, restarts>>

Submit(d) ==
    /\ Interact(d)
    /\ dialog' = [dialog EXCEPT ![d] = "submitted"]
    /\ values' = [values EXCEPT ![handlers[d]] =
                     [o \in Options |-> IF @[o] = None THEN d ELSE @[o]]]
    /\ done' = [done EXCEPT ![handlers[d]] = @ + 1]
    /\ UNCHANGED <<runner, pc, typed, asker, handlers, invalid, restarts>>

-------------------------------------------------------------------------------
\* The process stops and another one takes over.  What Slack shows stays, and
\* a dialog of the old process finds no handler.
Restart ==
    /\ restarts < MaxRestarts
    /\ restarts' = restarts + 1
    /\ mut' = FirstHolder
    /\ setOpts' = None
    /\ flags' = Unset
    /\ handlers' = [s \in Sessions |-> None]
    /\ done' = [s \in Sessions |-> 0]
    /\ pc' = [s \in Sessions |-> IF pc[s] \in Running THEN "lost" ELSE pc[s]]
    /\ UNCHANGED <<typed, values, asker, dialog, invalid>>

Session(s) ==
    \/ Lock(s)
    \/ Parse(s)
    \/ ParseFails(s)
    \/ Ask(s)
    \/ OpenDialog(s)
    \/ OpenFails(s)
    \/ Wake(s)
    \/ Finish(s)

Next ==
    \/ \E s \in Sessions : Arrive(s) \/ Drop(s) \/ Session(s)
    \/ \E d \in Sessions : Cancel(d) \/ SubmitInvalid(d) \/ Submit(d)
    \/ Restart

Spec == Init /\ [][Next]_vars

\* Goroutines that can go on do, and a job ends.  Users owe the bot nothing.
FairSpec == Spec /\ \A s \in Sessions : WF_vars(Session(s))

-------------------------------------------------------------------------------
(* Properties *)

\* The SetOpts function a session calls is its own, although it is found in a
\* field that all sessions write: the dialog goes to the user who needs it.
AsksItsOwnUser ==
    \A s \in Sessions : pc[s] \in {"ask", "open", "wait"} => asker[s] = s

\* What a user submits in a dialog is used by that user's command only, the
\* dialogs of other commands and of other processes notwithstanding.
SubmissionsStayPrivate ==
    \A s \in Sessions, o \in Options :
        values[s][o] \notin {None, s} => o \in typed[values[s][o]]

\* A job starts with an option unset only after its user cancelled the dialog
\* or if Slack did not open it; in particular not after an invalid submission.
MissingOnlyIfCancelled ==
    \A s \in Sessions :
        pc[s] = "job" /\ (\E o \in Options : values[s][o] = None)
            => dialog[s] \in {"cancelled", "none"}

\* The bot "interprets /mycmd <CMD> <FLAGS> as variant run <CMD> <FLAGS>": the
\* job of a command sees no value that another command was given.
RunsWithItsOwnFlags ==
    \A s \in Sessions :
        pc[s] = "job" => \A o \in Options : values[s][o] \in {None, s}

\* "... and runs it": every command is answered, as long as the users answer
\* the dialogs they are shown and the bot is not restarted meanwhile.
EveryCommandAnswered ==
    (\A s \in Sessions : []<>~(pc[s] = "wait" /\ dialog[s] = "open"))
        => \A s \in Sessions :
               pc[s] = "lock" ~> pc[s] \in {"answered", "lost"}
===============================================================================
