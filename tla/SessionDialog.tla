--------------------------- MODULE SessionDialog ---------------------------
(***************************************************************************)
(* t630-session-manager.py between the desktop's clients, which ask for a  *)
(* logout, a restart or a power-off, and GNOME Shell, which shows the      *)
(* confirmation.  The manager keeps one pending action; Open is an         *)
(* asynchronous call with a timeout of its own; what the shell sends       *)
(* (replies and signals) arrives in the order it was sent.                 *)
(***************************************************************************)
EXTENDS Naturals, Sequences

CONSTANTS Actions,      \* logout, poweroff, reboot
          MaxRequests,  \* bound: accepted requests
          None

\* A call or a dialog: the action and the number of the request it is for.
Calls == [action : Actions, id : 1..MaxRequests]

ASSUME SessionDialogConstants == None \notin Actions \cup Calls /\ MaxRequests \in Nat

VARIABLES pending,   \* pending_action
          idle,      \* open_end_session_dialog callbacks not yet run
          opens,     \* Open calls on their way to the shell
          waiting,   \* Open calls whose reply has neither come nor timed out
          dialog,    \* what the shell shows
          wire,      \* messages from the shell
          requests,  \* requests accepted so far
          done       \* actions carried out, with the dialog that was confirmed

dialogs == <<pending, idle, opens, waiting, dialog, wire, requests, done>>

\* A reply or a signal of the shell.
Messages == [kind : {"opened", "failed", "Canceled", "Closed", "Confirmed"}, call : Calls]

DialogTypeOK ==
    /\ pending \in Actions \cup {None}
    /\ idle \in Seq(Calls) /\ opens \in Seq(Calls) /\ waiting \subseteq Calls
    /\ dialog \in Calls \cup {None}
    /\ wire \in Seq(Messages)
    /\ requests \in 0..MaxRequests
    /\ done \subseteq Calls

DialogInit == /\ pending = None /\ idle = <<>> /\ opens = <<>> /\ waiting = {}
              /\ dialog = None /\ wire = <<>> /\ requests = 0 /\ done = {}

\* manager_method: Busy while an action is pending, else it is recorded and the
\* dialog is opened from the main loop.
Request(a) ==
    /\ pending = None /\ requests < MaxRequests
    /\ pending' = a /\ requests' = requests + 1
    /\ idle' = Append(idle, [action |-> a, id |-> requests + 1])
    /\ UNCHANGED <<opens, waiting, dialog, wire, done>>

OpenDialog ==
    /\ idle # <<>>
    /\ idle' = Tail(idle) /\ opens' = Append(opens, Head(idle))
    /\ waiting' = waiting \cup {Head(idle)}
    /\ UNCHANGED <<pending, dialog, wire, requests, done>>

Tell(kind, call) == wire' = Append(wire, [kind |-> kind, call |-> call])

\* The shell shows the dialog, in place of one that is open, or refuses.
ShellOpens ==
    /\ opens # <<>> /\ opens' = Tail(opens)
    /\ \/ dialog' = Head(opens) /\ Tell("opened", Head(opens))
       \/ UNCHANGED dialog /\ Tell("failed", Head(opens))
    /\ UNCHANGED <<pending, idle, waiting, requests, done>>

\* The button, or the countdown of a minute.
Confirm ==
    /\ dialog # None /\ dialog' = None /\ Tell("Confirmed", dialog)
    /\ UNCHANGED <<pending, idle, opens, waiting, requests, done>>

Cancel ==
    /\ dialog # None /\ dialog' = None
    /\ wire' = wire \o <<[kind |-> "Canceled", call |-> dialog],
                         [kind |-> "Closed", call |-> dialog]>>
    /\ UNCHANGED <<pending, idle, opens, waiting, requests, done>>

\* Mutant: the pending action is left to the dialog, which may never come.
OpenTimeoutWaits ==
    /\ \E c \in waiting : waiting' = waiting \ {c}
    /\ UNCHANGED <<pending, idle, opens, dialog, wire, requests, done>>

\* end_session_dialog_opened with an error: no answer within five seconds.
OpenTimeout ==
    /\ \E c \in waiting : waiting' = waiting \ {c}
    /\ pending' = None
    /\ UNCHANGED <<idle, opens, dialog, wire, requests, done>>

\* Mutant: a dialog that could not be opened is logged and nothing else.
ReplyLogs(m) ==
    /\ m.kind \in {"opened", "failed"}
    /\ waiting' = waiting \ {m.call}
    /\ UNCHANGED <<pending, done>>

\* A message reaches the manager: the reply of a call still waited for, or a signal
\* (whichever dialog it is about: a signal does not say).
Reply(m) ==
    /\ m.kind \in {"opened", "failed"}
    /\ waiting' = waiting \ {m.call}
    /\ pending' = IF m.kind = "failed" /\ m.call \in waiting THEN None ELSE pending
    /\ UNCHANGED done

Closes(m) ==
    /\ m.kind \in {"Canceled", "Closed"}
    /\ pending' = None
    /\ UNCHANGED <<waiting, done>>

\* confirmed_dialog: a confirmation of something else than the pending action is
\* dropped; a logout locks the screen, the others go to t630-display power.
Confirmed(m) ==
    /\ m.kind = "Confirmed"
    /\ IF pending = m.call.action
       THEN pending' = None /\ done' = done \cup {m.call}
       ELSE UNCHANGED <<pending, done>>
    /\ UNCHANGED waiting

Receive ==
    /\ wire # <<>> /\ wire' = Tail(wire)
    /\ Reply(Head(wire)) \/ Closes(Head(wire)) \/ Confirmed(Head(wire))
    /\ UNCHANGED <<idle, opens, dialog, requests>>

DialogNext == \/ \E a \in Actions : Request(a)
              \/ OpenDialog \/ ShellOpens \/ Confirm \/ Cancel \/ OpenTimeout \/ Receive

\* The main loops run and a dialog resolves itself by its countdown; a request, a
\* cancellation and a timeout need not happen.
DialogFairness == /\ WF_dialogs(OpenDialog) /\ WF_dialogs(ShellOpens)
                  /\ WF_dialogs(Receive) /\ WF_dialogs(Confirm)
DialogSpec == DialogInit /\ [][DialogNext]_dialogs /\ DialogFairness

-----------------------------------------------------------------------------
\* A call is in a queue; a message of one of these kinds about it is on the wire.
In(call, calls) == \E i \in 1..Len(calls) : calls[i] = call
Sent(kinds, call) == \E i \in 1..Len(wire) : wire[i].kind \in kinds /\ wire[i].call = call

(* A manager that is busy is owed an answer to its newest request: the     *)
(* dialog is to be opened, is shown, or what became of it is on the wire.  *)
(* No timeout, late reply or signal about an older dialog takes that away  *)
(* and leaves the action pending (end_session_dialog_opened,               *)
(* closed_dialog, confirmed_dialog).                                       *)
StillOwed ==
    pending # None =>
        LET newest == [action |-> pending, id |-> requests]
        IN \/ In(newest, idle)
           \/ newest \in waiting /\ (In(newest, opens) \/ Sent({"failed"}, newest))
           \/ dialog = newest
           \/ Sent({"Canceled", "Closed", "Confirmed"}, newest)

\* The manager does not stay busy: whatever replies and signals come late or get
\* lost to a timeout, a pending action is acted on or given up.
NeverBusyForever == pending # None ~> pending = None
=============================================================================
