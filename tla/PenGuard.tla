------------------------------ MODULE PenGuard ------------------------------
(***************************************************************************)
(* The pen touch guard: t630-pen-touch-guard.py follows the proximity of   *)
(* the S Pen and switches the touchscreen off while the pen is near.  The  *)
(* kernel keeps a bounded queue of the pen's events for the guard; an      *)
(* overflow leaves SYN_DROPPED and the newest event in it, and the query   *)
(* of the keys (EVIOCGKEY) removes the key events that wait, because its   *)
(* answer is newer than they are.  Coordinates and the rubber are left     *)
(* out: the guard treats both tools alike.                                 *)
(***************************************************************************)
EXTENDS Naturals, Sequences, SequencesExt

CONSTANTS QueueMax,     \* events the kernel keeps
          Chunk,        \* events of one read
          MaxMishaps    \* bound: failing writes, signals and kills

ASSUME PenGuardConstants ==
    QueueMax \in Nat \ {0, 1} /\ Chunk \in Nat \ {0} /\ MaxMishaps \in Nat

VARIABLES
    near,       \* the pen is in proximity
    touch,      \* the touchscreen's enabled file
    queue,      \* the guard's events in the kernel
    guard,      \* pc, events read and not handled, state to be written
    mishaps     \* what went wrong: guard "killed", "left" with a failing
                \* clean-up, "crossed" (below); and the number of faults

pen == <<near, touch, queue, guard, mishaps>>

Events == {"in", "out", "dropped"}

PenTypeOK ==
    /\ near \in BOOLEAN /\ touch \in BOOLEAN
    /\ queue \in Seq(Events) /\ Len(queue) <= QueueMax
    /\ guard \in [pc : {"gone", "open", "query", "write", "wait", "leave"},
                  pending : Seq(Events), wanted : BOOLEAN]
    /\ mishaps \in [what : SUBSET {"killed", "left", "crossed"}, faults : 0..MaxMishaps]

PenInit ==
    /\ near \in BOOLEAN /\ touch = TRUE
    /\ queue = <<>>
    /\ guard = [pc |-> "open", pending |-> <<>>, wanted |-> TRUE]
    /\ mishaps = [what |-> {}, faults |-> 0]

-----------------------------------------------------------------------------
GuardAt(pc) == guard.pc = pc
GuardRunning == guard.pc \notin {"gone", "open"}

\* The pen comes or goes; the kernel queues the event for an open descriptor.
MovePen ==
    /\ near' = ~near
    /\ LET event == IF near THEN "out" ELSE "in"
       IN queue' = IF ~GuardRunning THEN queue
                   ELSE IF Len(queue) = QueueMax THEN <<"dropped", event>>
                   ELSE Append(queue, event)
    /\ UNCHANGED <<touch, guard, mishaps>>

Faulty(what) == /\ mishaps.faults < MaxMishaps
                /\ mishaps' = [what |-> mishaps.what \cup what, faults |-> mishaps.faults + 1]

\* The lock, the descriptor, the handlers, the entry of the try block.
Open ==
    /\ GuardAt("open")
    /\ guard' = [guard EXCEPT !.pc = "query"]
    /\ UNCHANGED <<near, touch, queue, mishaps>>

\* tool_in_proximity: the answer is of now, the key events that wait are gone; what
\* stays is a SYN_DROPPED, which an overflow puts first and nothing comes before.
Query ==
    /\ GuardAt("query")
    /\ guard' = [guard EXCEPT !.pc = "write", !.wanted = ~near]
    /\ queue' = IF queue # <<>> /\ Head(queue) = "dropped" THEN <<"dropped">> ELSE <<>>
    /\ mishaps' = IF Contains(queue, "out") /\ Contains(guard.pending, "in")
                  THEN [mishaps EXCEPT !.what = @ \cup {"crossed"}] ELSE mishaps
    /\ UNCHANGED <<near, touch>>

\* Mutant: what is not an arrival is a departure, lost events too.
ContinueBelieves(pending) ==
    IF pending = <<>> THEN [guard EXCEPT !.pc = "wait", !.pending = <<>>]
    ELSE [pc |-> "write", pending |-> Tail(pending), wanted |-> Head(pending) # "in"]

\* Where the loop goes with these events left: an "out" is checked against
\* the keys, an "in" is believed.
Continue(pending) ==
    IF pending = <<>> THEN [guard EXCEPT !.pc = "wait", !.pending = <<>>]
    ELSE [pc |-> IF Head(pending) = "in" THEN "write" ELSE "query",
          pending |-> Tail(pending), wanted |-> FALSE]

\* set_touch_enabled and its readback.
WriteTouch ==
    /\ GuardAt("write")
    /\ touch' = guard.wanted
    /\ guard' = Continue(guard.pending)
    /\ UNCHANGED <<near, queue, mishaps>>

WriteFails ==
    /\ GuardAt("write")
    /\ Faulty({})
    /\ guard' = [guard EXCEPT !.pc = "leave"]
    /\ UNCHANGED <<near, touch, queue>>

\* Mutant: what one read does not take is thrown away.
ReadDrains ==
    /\ GuardAt("wait") /\ queue # <<>>
    /\ guard' = Continue(SubSeq(queue, 1, IF Len(queue) < Chunk THEN Len(queue) ELSE Chunk))
    /\ queue' = <<>>
    /\ UNCHANGED <<near, touch, mishaps>>

ReadEvents ==
    /\ GuardAt("wait") /\ queue # <<>>
    /\ LET n == IF Len(queue) < Chunk THEN Len(queue) ELSE Chunk
       IN /\ guard' = Continue(SubSeq(queue, 1, n))
          /\ queue' = SubSeq(queue, n + 1, Len(queue))
    /\ UNCHANGED <<near, touch, mishaps>>

\* SIGTERM or SIGINT: SystemExit wherever the guard is, in the finally clause too.
Terminate ==
    /\ GuardRunning
    /\ Faulty(IF GuardAt("leave") THEN {"left"} ELSE {})
    /\ guard' = [guard EXCEPT !.pc = IF GuardAt("leave") THEN "gone" ELSE "leave"]
    /\ UNCHANGED <<near, touch, queue>>

\* The finally clause; its own write may fail.
LeaveGuard ==
    /\ GuardAt("leave")
    /\ guard' = [guard EXCEPT !.pc = "gone"] /\ queue' = <<>>
    /\ \/ touch' = TRUE /\ UNCHANGED mishaps
       \/ Faulty({"left"}) /\ UNCHANGED touch
    /\ UNCHANGED near

KillGuard ==
    /\ guard.pc # "gone"
    /\ Faulty({"killed"})
    /\ guard' = [guard EXCEPT !.pc = "gone"] /\ queue' = <<>>
    /\ UNCHANGED <<near, touch>>

-----------------------------------------------------------------------------
Guard == Open \/ Query \/ WriteTouch \/ ReadEvents \/ LeaveGuard
PenNext == MovePen \/ Guard \/ WriteFails \/ Terminate \/ KillGuard

\* The guard is scheduled; the pen owes nothing.
PenSpec == PenInit /\ [][PenNext]_pen /\ WF_pen(Guard)

(* A guard that waits with nothing to read has the touchscreen as the pen  *)
(* has it, and one that ended has it enabled: no departure is left behind  *)
(* in a chunk, an overflow (SYN_DROPPED) or a query of the keys            *)
(* (handle_event, tool_in_proximity).  Exempted as below.                  *)
TouchAgrees ==
    mishaps.what = {} => /\ GuardAt("wait") /\ queue = <<>> => touch = ~near
                         /\ GuardAt("gone") => touch

(* The touchscreen comes back: when the pen is away for good, touch ends   *)
(* up enabled, and when it stays near, touch ends up disabled, however     *)
(* many events were lost (SYN_DROPPED), arrived late or were handled       *)
(* across a query; a guard that ended by a signal or an error left it      *)
(* enabled.  Not promised: after a kill, after a clean-up that failed, and *)
(* after a "crossed" query, which removed an "out" from the kernel's queue *)
(* while an older "in" waited to be believed.                              *)
TouchBack ==
    \A n \in BOOLEAN :
        <>[](near = n) => <>[](mishaps.what # {} \/ touch = (~n \/ guard.pc = "gone"))
=============================================================================
