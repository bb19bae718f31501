-------------------------- MODULE PowerMonitorProofs --------------------------
(***************************************************************************)
(* Proofs about PowerMonitor, for any brightness levels, any length of the *)
(* event queue and either policy.                                          *)
(***************************************************************************)
EXTENDS PowerMonitor, SequenceTheorems, TLAPS

\* TypeOK in three parts, and what the properties need of it at each place of the
\* monitor.
Flags == dirty \in BOOLEAN /\ recent \in BOOLEAN /\ auto \in BOOLEAN /\ asleep \in BOOLEAN

Queues == queue \in Seq(Event) /\ Len(queue) <= QueueMax

Values ==
    /\ light \in Levels \cup {Dark} /\ saved \in Levels \cup {None, Hollow}
    /\ wanted \in Levels /\ value \in Levels

Places ==
    /\ pc \in {"down", "settings", "loop", "write", "blank", "rewrite",
               "suspending", "unlink", "shift", "reread", "finally"}
    /\ caller \in {"start", "finally", "key", "idle", "auto", "autoKey"}
    /\ result \in {"none", "slept", "power", "refused"}
    /\ faults \subseteq {"killed", "shift"}

Marks ==
    /\ torch \in {"off", "leased", "overdue"}
    /\ pressed \in {"none", "fresh", "old"}
    /\ autoAt \in {"none", "armed", "due"}

Records ==
    /\ prefs \in [level : Levels \cup {None}, auto : BOOLEAN]
    /\ key \in [down : BOOLEAN, long : BOOLEAN, wake : BOOLEAN]

\* The brightness, its file and the user's wish, at each place.
Held ==
    /\ saved \in {None, Hollow, wanted}
    /\ light = Dark => saved # None
    /\ pc = "settings" => saved = None
    /\ pc = "loop" => \/ saved = None /\ light = wanted
                      \/ saved = wanted /\ light = Dark
    /\ pc = "write" => saved = Hollow /\ value = wanted /\ light = wanted
    /\ pc = "blank" => saved = wanted /\ light = wanted
    /\ pc = "rewrite" => saved = Hollow /\ light = Dark
    /\ pc = "suspending" => saved = wanted /\ light = Dark
    /\ pc = "unlink" => saved = wanted /\ light = wanted
    /\ pc \in {"shift", "reread"} => saved = None /\ light = wanted

\* Who called, and what the helper said, at each place.
Answered ==
    /\ pc = "suspending" => caller \in {"key", "auto", "autoKey"}
    /\ result # "none" => pc \in {"suspending", "unlink", "shift"} /\ caller \in {"key", "auto", "autoKey"}
    /\ pc \in {"unlink", "shift"} => result \in {"none", "power"}
    /\ asleep => pc = "suspending" /\ result = "none"

\* What a monitor that ends in order leaves behind.
Leaves ==
    /\ pc = "unlink" /\ caller = "finally" => torch = "off"
    /\ pc = "down" /\ "killed" \notin faults =>
            saved = Hollow \/ (saved = None /\ torch = "off")

LEMMA Lit == /\ Levels \subseteq Nat /\ Dark \notin Levels /\ None \notin Levels
             /\ Hollow \notin Levels /\ None # Hollow
  BY LevelsLit DEF Dark, None, Hollow

LEMMA FlagsStep == TypeOK /\ [Next]_vars => Flags'
<1> SUFFICES ASSUME TypeOK, [Next]_vars PROVE Flags'
  OBVIOUS
<1> USE DEF TypeOK, Flags, settings, keys, helper
<1>1. CASE Writing \/ Waking
  BY <1>1 DEF Writing, Waking, ReadAfterDrain, Drained, WriteSaved, Blank, RewriteSaved, Unlink, WakeDrains, WakeShiftFails
<1>2. CASE Process
  BY <1>2 DEF Process, Start, StartFails, LoadSettings, Finally, vars
<1>3. CASE Timers
  BY <1>3 DEF Timers, Flush, AutoDisarm, AutoArm, AutoDue, AutoSuspend
<1>4. CASE Reading
  BY <1>4 DEF Reading, ReadDown, ReleaseIgnored, ReleaseWakes, ReleaseBlanks, Accepted, Read
<1>5. CASE Suspending
  BY <1>5 DEF Suspending, FallAsleep, HelperRefuses, AlarmWakes, KeyWakes, HelperReturns, HelperTimeout
<1>6. CASE Requests
  BY <1>6 DEF Requests, SetBrightness, SetSaved, SetAuto, SetTorch, SystemAction, IdleBlank, IdleWake
<1>7. CASE LeaseEnds \/ TorchExpires \/ Killed \/ Terminated
  BY <1>7 DEF LeaseEnds, TorchExpires, Killed, Terminated
<1>8. CASE KeyPress \/ KeyHeld \/ KeyRelease \/ PressAges \/ Settle
  BY <1>8 DEF KeyPress, KeyHeld, KeyRelease, PressAges, Settle
<1>9. CASE UNCHANGED vars
  BY <1>9 DEF vars
<1>10. QED
  BY <1>1, <1>2, <1>3, <1>4, <1>5, <1>6, <1>7, <1>8, <1>9 DEF Next

\* The queue only grows at its end and is only read at its head.
Moves ==
    \/ queue' = queue
    \/ queue' = <<>>
    \/ queue # <<>> /\ queue' = Tail(queue)
    \/ \E kind \in {"down", "up"} : Queue(kind)

LEMMA QueueMoves == [Next]_vars => Moves
<1> SUFFICES ASSUME [Next]_vars PROVE Moves
  OBVIOUS
<1> USE DEF Moves, keys
<1>1. CASE Writing \/ Waking
  BY <1>1 DEF Writing, Waking, ReadAfterDrain, Drained, WriteSaved, Blank, RewriteSaved, Unlink, WakeDrains, WakeShiftFails
<1>2. CASE Process
  BY <1>2 DEF Process, Start, StartFails, LoadSettings, Finally, vars
<1>3. CASE Timers
  BY <1>3 DEF Timers, Flush, AutoDisarm, AutoArm, AutoDue, AutoSuspend
<1>4. CASE Reading
  BY <1>4 DEF Reading, ReadDown, ReleaseIgnored, ReleaseWakes, ReleaseBlanks, Accepted, Read
<1>5. CASE Suspending
  BY <1>5 DEF Suspending, FallAsleep, HelperRefuses, AlarmWakes, KeyWakes, HelperReturns, HelperTimeout
<1>6. CASE Requests
  BY <1>6 DEF Requests, SetBrightness, SetSaved, SetAuto, SetTorch, SystemAction, IdleBlank, IdleWake
<1>7. CASE LeaseEnds \/ TorchExpires \/ Killed \/ Terminated
  BY <1>7 DEF LeaseEnds, TorchExpires, Killed, Terminated
<1>8. CASE KeyPress \/ KeyHeld \/ KeyRelease \/ PressAges \/ Settle
  BY <1>8 DEF KeyPress, KeyHeld, KeyRelease, PressAges, Settle
<1>9. CASE UNCHANGED vars
  BY <1>9 DEF vars
<1>10. QED
  BY <1>1, <1>2, <1>3, <1>4, <1>5, <1>6, <1>7, <1>8, <1>9 DEF Next

LEMMA ValuesStep == Values /\ Held /\ Records /\ [Next]_vars => Values'
<1> SUFFICES ASSUME Values, Held, Records, [Next]_vars PROVE Values'
  OBVIOUS
<1> USE Lit DEF Values, Held, Records, panel, settings, thread, At, Blanked, Restoring, LockAndOpen
<1>1. CASE Writing \/ Waking
  BY <1>1 DEF Writing, Waking, ReadAfterDrain, Drained, WriteSaved, Blank, RewriteSaved, Unlink, WakeDrains, WakeShiftFails
<1>2. CASE Process
  BY <1>2 DEF Process, Start, StartFails, LoadSettings, Finally, vars
<1>3. CASE Timers
  BY <1>3 DEF Timers, Flush, AutoDisarm, AutoArm, AutoDue, AutoSuspend
<1>4. CASE Reading
  BY <1>4 DEF Reading, ReadDown, ReleaseIgnored, ReleaseWakes, ReleaseBlanks, Accepted, Read
<1>5. CASE Suspending
  BY <1>5 DEF Suspending, FallAsleep, HelperRefuses, AlarmWakes, KeyWakes, HelperReturns, HelperTimeout
<1>6. CASE Requests
  BY <1>6 DEF Requests, SetBrightness, SetSaved, SetAuto, SetTorch, SystemAction, IdleBlank, IdleWake
<1>7. CASE LeaseEnds \/ TorchExpires \/ Killed \/ Terminated
  BY <1>7 DEF LeaseEnds, TorchExpires, Killed, Terminated
<1>8. CASE KeyPress \/ KeyHeld \/ KeyRelease \/ PressAges \/ Settle
  BY <1>8 DEF KeyPress, KeyHeld, KeyRelease, PressAges, Settle
<1>9. CASE UNCHANGED vars
  BY <1>9 DEF vars
<1>10. QED
  BY <1>1, <1>2, <1>3, <1>4, <1>5, <1>6, <1>7, <1>8, <1>9 DEF Next

LEMMA PlacesStep == Places /\ [Next]_vars => Places'
<1> SUFFICES ASSUME Places, [Next]_vars PROVE Places'
  OBVIOUS
<1> USE DEF Places, panel, settings, thread, keys, helper, At, Goto, Restoring, LockAndOpen
<1>1. CASE Writing \/ Waking
  BY <1>1 DEF Writing, Waking, ReadAfterDrain, Drained, WriteSaved, Blank, RewriteSaved, Unlink, WakeDrains, WakeShiftFails
<1>2. CASE Process
  BY <1>2 DEF Process, Start, StartFails, LoadSettings, Finally, vars
<1>3. CASE Timers
  BY <1>3 DEF Timers, Flush, AutoDisarm, AutoArm, AutoDue, AutoSuspend
<1>4. CASE Reading
  BY <1>4 DEF Reading, ReadDown, ReleaseIgnored, ReleaseWakes, ReleaseBlanks, Accepted, Read
<1>5. CASE Suspending
  BY <1>5 DEF Suspending, FallAsleep, HelperRefuses, AlarmWakes, KeyWakes, HelperReturns, HelperTimeout
<1>6. CASE Requests
  BY <1>6 DEF Requests, SetBrightness, SetSaved, SetAuto, SetTorch, SystemAction, IdleBlank, IdleWake
<1>7. CASE LeaseEnds \/ TorchExpires \/ Killed \/ Terminated
  BY <1>7 DEF LeaseEnds, TorchExpires, Killed, Terminated
<1>8. CASE KeyPress \/ KeyHeld \/ KeyRelease \/ PressAges \/ Settle
  BY <1>8 DEF KeyPress, KeyHeld, KeyRelease, PressAges, Settle
<1>9. CASE UNCHANGED vars
  BY <1>9 DEF vars
<1>10. QED
  BY <1>1, <1>2, <1>3, <1>4, <1>5, <1>6, <1>7, <1>8, <1>9 DEF Next

LEMMA MarksStep == Marks /\ [Next]_vars => Marks'
<1> SUFFICES ASSUME Marks, [Next]_vars PROVE Marks'
  OBVIOUS
<1> USE DEF Marks, panel, settings, thread, keys, helper
<1>1. CASE Writing \/ Waking
  BY <1>1 DEF Writing, Waking, ReadAfterDrain, Drained, WriteSaved, Blank, RewriteSaved, Unlink, WakeDrains, WakeShiftFails
<1>2. CASE Process
  BY <1>2 DEF Process, Start, StartFails, LoadSettings, Finally, vars
<1>3. CASE Timers
  BY <1>3 DEF Timers, Flush, AutoDisarm, AutoArm, AutoDue, AutoSuspend
<1>4. CASE Reading
  BY <1>4 DEF Reading, ReadDown, ReleaseIgnored, ReleaseWakes, ReleaseBlanks, Accepted, Read
<1>5. CASE Suspending
  BY <1>5 DEF Suspending, FallAsleep, HelperRefuses, AlarmWakes, KeyWakes, HelperReturns, HelperTimeout
<1>6. CASE Requests
  BY <1>6 DEF Requests, SetBrightness, SetSaved, SetAuto, SetTorch, SystemAction, IdleBlank, IdleWake
<1>7. CASE LeaseEnds \/ TorchExpires \/ Killed \/ Terminated
  BY <1>7 DEF LeaseEnds, TorchExpires, Killed, Terminated
<1>8. CASE KeyPress \/ KeyHeld \/ KeyRelease \/ PressAges \/ Settle
  BY <1>8 DEF KeyPress, KeyHeld, KeyRelease, PressAges, Settle
<1>9. CASE UNCHANGED vars
  BY <1>9 DEF vars
<1>10. QED
  BY <1>1, <1>2, <1>3, <1>4, <1>5, <1>6, <1>7, <1>8, <1>9 DEF Next

\* The preferences are written from what is shown, the key is pressed, held or released.
Writes ==
    /\ \/ prefs' = prefs
       \/ /\ prefs' = [level |-> Shown, auto |-> auto]
          /\ pc = "loop" \/ (pc = "finally" /\ saved # Hollow)
    /\ \/ key' \in {key, KeyUp, [KeyUp EXCEPT !.down = TRUE], [key EXCEPT !.long = TRUE]}
       \/ key' = [down |-> TRUE, long |-> FALSE, wake |-> result' = "power"]

LEMMA WritesStep == [Next]_vars => Writes
<1> SUFFICES ASSUME [Next]_vars PROVE Writes
  OBVIOUS
<1> USE DEF Writes, settings, keys, At
<1>1. CASE Writing \/ Waking
  BY <1>1 DEF Writing, Waking, ReadAfterDrain, Drained, WriteSaved, Blank, RewriteSaved, Unlink, WakeDrains, WakeShiftFails
<1>2. CASE Process
  BY <1>2 DEF Process, Start, StartFails, LoadSettings, Finally, vars
<1>3. CASE Timers
  BY <1>3 DEF Timers, Flush, AutoDisarm, AutoArm, AutoDue, AutoSuspend
<1>4. CASE Reading
  BY <1>4 DEF Reading, ReadDown, ReleaseIgnored, ReleaseWakes, ReleaseBlanks, Accepted, Read
<1>5. CASE Suspending
  BY <1>5 DEF Suspending, FallAsleep, HelperRefuses, AlarmWakes, KeyWakes, HelperReturns, HelperTimeout
<1>6. CASE Requests
  BY <1>6 DEF Requests, SetBrightness, SetSaved, SetAuto, SetTorch, SystemAction, IdleBlank, IdleWake
<1>7. CASE LeaseEnds \/ TorchExpires \/ Killed \/ Terminated
  BY <1>7 DEF LeaseEnds, TorchExpires, Killed, Terminated
<1>8. CASE KeyPress \/ KeyHeld \/ KeyRelease \/ PressAges \/ Settle
  BY <1>8 DEF KeyPress, KeyHeld, KeyRelease, PressAges, Settle
<1>9. CASE UNCHANGED vars
  BY <1>9 DEF vars
<1>10. QED
  BY <1>1, <1>2, <1>3, <1>4, <1>5, <1>6, <1>7, <1>8, <1>9 DEF Next

LEMMA RecordsStep == Records /\ Values /\ Flags /\ Held /\ [Next]_vars => Records'
<1> SUFFICES ASSUME Records, Values, Flags, Held, [Next]_vars PROVE Records'
  OBVIOUS
<1>1. prefs' \in [level : Levels \cup {None}, auto : BOOLEAN]
  <2>1. pc = "loop" \/ (pc = "finally" /\ saved # Hollow) => Shown \in Levels
    BY Lit DEF Values, Held, Shown, Blanked
  <2>2. auto \in BOOLEAN
    BY DEF Flags
  <2>3. QED
    BY <2>1, <2>2, WritesStep DEF Records, Writes
<1>2. key' \in [down : BOOLEAN, long : BOOLEAN, wake : BOOLEAN]
  <2>1. (result' = "power") \in BOOLEAN /\ TRUE \in BOOLEAN /\ FALSE \in BOOLEAN
    OBVIOUS
  <2>2. CASE key' = [down |-> TRUE, long |-> FALSE, wake |-> result' = "power"]
    BY <2>1, <2>2
  <2>3. CASE key' = [key EXCEPT !.long = TRUE]
    <3>1. key.down \in BOOLEAN /\ key.wake \in BOOLEAN
      BY DEF Records
    <3>2. key' = [down |-> key.down, long |-> TRUE, wake |-> key.wake]
      BY <2>3 DEF Records
    <3>3. QED
      BY <2>1, <3>1, <3>2
  <2>4. CASE key' = [KeyUp EXCEPT !.down = TRUE]
    <3>1. key' = [down |-> TRUE, long |-> FALSE, wake |-> FALSE]
      BY <2>4 DEF KeyUp
    <3>2. QED
      BY <2>1, <3>1
  <2>5. CASE key' = KeyUp \/ key' = key
    <3>1. KeyUp \in [down : BOOLEAN, long : BOOLEAN, wake : BOOLEAN]
      BY <2>1 DEF KeyUp
    <3>2. QED
      BY <2>5, <3>1 DEF Records
  <2>6. QED
    BY <2>2, <2>3, <2>4, <2>5, WritesStep DEF Writes
<1>3. QED
  BY <1>1, <1>2 DEF Records


LEMMA HeldStep == TypeOK /\ Held /\ [Next]_vars => Held'
<1> SUFFICES ASSUME TypeOK, Held, [Next]_vars PROVE Held'
  OBVIOUS
<1> USE Lit DEF TypeOK, Held, panel, settings, thread, keys, helper, At, Goto, Blanked,
                Shown, Restoring, LockAndOpen
<1>1. CASE Writing \/ Waking
  BY <1>1 DEF Writing, Waking, ReadAfterDrain, Drained, WriteSaved, Blank, RewriteSaved, Unlink, WakeDrains, WakeShiftFails
<1>2. CASE Process
  BY <1>2 DEF Process, Start, StartFails, LoadSettings, Finally, vars
<1>3. CASE Timers
  BY <1>3 DEF Timers, Flush, AutoDisarm, AutoArm, AutoDue, AutoSuspend
<1>4. CASE Reading
  BY <1>4 DEF Reading, ReadDown, ReleaseIgnored, ReleaseWakes, ReleaseBlanks, Accepted, Read
<1>5. CASE Suspending
  BY <1>5 DEF Suspending, FallAsleep, HelperRefuses, AlarmWakes, KeyWakes, HelperReturns, HelperTimeout
<1>6. CASE Requests
  BY <1>6 DEF Requests, SetBrightness, SetSaved, SetAuto, SetTorch, SystemAction, IdleBlank, IdleWake
<1>7. CASE LeaseEnds \/ TorchExpires \/ Killed \/ Terminated
  BY <1>7 DEF LeaseEnds, TorchExpires, Killed, Terminated
<1>8. CASE KeyPress \/ KeyHeld \/ KeyRelease \/ PressAges \/ Settle
  BY <1>8 DEF KeyPress, KeyHeld, KeyRelease, PressAges, Settle
<1>9. CASE UNCHANGED vars
  BY <1>9 DEF vars
<1>10. QED
  BY <1>1, <1>2, <1>3, <1>4, <1>5, <1>6, <1>7, <1>8, <1>9 DEF Next

LEMMA AnsweredStep == Answered /\ [Next]_vars => Answered'
<1> SUFFICES ASSUME Answered, [Next]_vars PROVE Answered'
  OBVIOUS
<1> USE DEF Answered, panel, settings, thread, keys, helper, At, Goto, Blanked,
            Restoring, LockAndOpen
<1>1. CASE Writing \/ Waking
  <2>1. CASE Unlink
    <3>1. result # "none" => pc' = "shift"
      BY <2>1 DEF Unlink
    <3>2. pc' \in {"settings", "down", "shift", "loop"}
      BY <2>1 DEF Unlink
    <3>3. QED
      BY <2>1, <3>1, <3>2 DEF Unlink
  <2>2. QED
    BY <1>1, <2>1 DEF Writing, Waking, ReadAfterDrain, Drained, WriteSaved, Blank, RewriteSaved, WakeDrains, WakeShiftFails
<1>2. CASE Process
  BY <1>2 DEF Process, Start, StartFails, LoadSettings, Finally, vars
<1>3. CASE Timers
  BY <1>3 DEF Timers, Flush, AutoDisarm, AutoArm, AutoDue, AutoSuspend
<1>4. CASE Reading
  BY <1>4 DEF Reading, ReadDown, ReleaseIgnored, ReleaseWakes, ReleaseBlanks, Accepted, Read
<1>5. CASE Suspending
  BY <1>5 DEF Suspending, FallAsleep, HelperRefuses, AlarmWakes, KeyWakes, HelperReturns, HelperTimeout
<1>6. CASE Requests
  BY <1>6 DEF Requests, SetBrightness, SetSaved, SetAuto, SetTorch, SystemAction, IdleBlank, IdleWake
<1>7. CASE LeaseEnds \/ TorchExpires \/ Killed \/ Terminated
  BY <1>7 DEF LeaseEnds, TorchExpires, Killed, Terminated
<1>8. CASE KeyPress \/ KeyHeld \/ KeyRelease \/ PressAges \/ Settle
  BY <1>8 DEF KeyPress, KeyHeld, KeyRelease, PressAges, Settle
<1>9. CASE UNCHANGED vars
  BY <1>9 DEF vars
<1>10. QED
  BY <1>1, <1>2, <1>3, <1>4, <1>5, <1>6, <1>7, <1>8, <1>9 DEF Next

LEMMA LeavesStep == TypeOK /\ Held /\ Answered /\ Leaves /\ [Next]_vars => Leaves'
<1> SUFFICES ASSUME TypeOK, Held, Answered, Leaves, [Next]_vars PROVE Leaves'
  OBVIOUS
<1> USE Lit DEF TypeOK, Held, Answered, Leaves, panel, settings, thread, keys, helper, At, Goto,
                Blanked, Restoring, LockAndOpen
<1>1. CASE Writing \/ Waking
  BY <1>1 DEF Writing, Waking, ReadAfterDrain, Drained, WriteSaved, Blank, RewriteSaved, Unlink, WakeDrains, WakeShiftFails
<1>2. CASE Process
  BY <1>2 DEF Process, Start, StartFails, LoadSettings, Finally, vars
<1>3. CASE Timers
  BY <1>3 DEF Timers, Flush, AutoDisarm, AutoArm, AutoDue, AutoSuspend
<1>4. CASE Reading
  BY <1>4 DEF Reading, ReadDown, ReleaseIgnored, ReleaseWakes, ReleaseBlanks, Accepted, Read
<1>5. CASE Suspending
  BY <1>5 DEF Suspending, FallAsleep, HelperRefuses, AlarmWakes, KeyWakes, HelperReturns, HelperTimeout
<1>6. CASE Requests
  BY <1>6 DEF Requests, SetBrightness, SetSaved, SetAuto, SetTorch, SystemAction, IdleBlank, IdleWake
<1>7. CASE LeaseEnds \/ TorchExpires \/ Killed \/ Terminated
  BY <1>7 DEF LeaseEnds, TorchExpires, Killed, Terminated
<1>8. CASE KeyPress \/ KeyHeld \/ KeyRelease \/ PressAges \/ Settle
  BY <1>8 DEF KeyPress, KeyHeld, KeyRelease, PressAges, Settle
<1>9. CASE UNCHANGED vars
  BY <1>9 DEF vars
<1>10. QED
  BY <1>1, <1>2, <1>3, <1>4, <1>5, <1>6, <1>7, <1>8, <1>9 DEF Next

\* The press that ended a sleep, by the time the loop reads keys again.
Cleared ==
    \/ result = "power"
    \/ pc \in {"finally", "down", "settings"}
    \/ pc = "unlink" /\ caller \in {"start", "finally"}

Consumed ==
    /\ key.wake => queue = <<>> /\ pressed # "fresh"
    /\ \A i \in 1..Len(queue) :
            queue[i].wake => i = 1 /\ queue[i].kind = "up" /\ pressed # "fresh"

Woken ==
    /\ key.wake => key.down
    /\ "shift" \in faults \/ Cleared \/ Consumed

MonitorInv == TypeOK /\ Held /\ Answered /\ Leaves /\ Woken

LEMMA TypeStep == TypeOK /\ Held /\ [Next]_vars => TypeOK'
<1> SUFFICES ASSUME TypeOK, Held, [Next]_vars PROVE TypeOK'
  OBVIOUS
<1>1. Flags' /\ Values' /\ Places' /\ Marks' /\ Records'
  BY FlagsStep, ValuesStep, PlacesStep, MarksStep, RecordsStep
     DEF TypeOK, Flags, Values, Places, Marks, Records
<1>2. Queues'
  <2>1. ASSUME NEW kind \in {"down", "up"}, Queue(kind) PROVE Queues'
    <3>1. (key'.wake \/ key.wake) \in BOOLEAN /\ key.long \in BOOLEAN
      BY DEF TypeOK
    <3>2. [kind |-> kind, wake |-> key'.wake \/ key.wake, long |-> key.long] \in Event
      BY <3>1 DEF Event
    <3>3. QED
      BY <2>1, <3>2, QueueRoom DEF Queue, Queues, TypeOK
  <2>2. CASE queue # <<>> /\ queue' = Tail(queue)
    BY <2>2, QueueRoom, HeadTailProperties DEF Queues, TypeOK
  <2>3. CASE queue' = queue
    BY <2>3 DEF Queues, TypeOK
  <2>e. CASE queue' = <<>>
    BY <2>e, QueueRoom DEF Queues
  <2>4. QED
    BY <2>1, <2>2, <2>3, <2>e, QueueMoves DEF Moves
<1>3. QED
  BY <1>1, <1>2 DEF TypeOK, Flags, Values, Places, Marks, Records, Queues


\* What a step makes of a queue in which the wake press is consumed.
LEMMA ConsumedKept ==
    ASSUME Consumed, key' = key, queue' = queue, pressed' \in {pressed, "old", "none"}
    PROVE  Consumed'
  BY DEF Consumed

LEMMA ConsumedRead ==
    ASSUME Consumed, TypeOK, key' = key, queue # <<>>, queue' = Tail(queue),
           Head(queue).kind = "up" => pressed' = "none"
    PROVE  Consumed'
<1>1. Tail(queue) \in Seq(Event) /\ Len(queue) \in Nat
      /\ Len(Tail(queue)) = Len(queue) - 1
      /\ \A i \in 1..Len(Tail(queue)) : Tail(queue)[i] = queue[i + 1]
  BY HeadTailProperties DEF TypeOK
<1>2. \A i \in 1..Len(queue') : ~queue'[i].wake
  <2> SUFFICES ASSUME NEW i \in 1..Len(queue') PROVE ~queue'[i].wake
    OBVIOUS
  <2>1. i + 1 \in 1..Len(queue) /\ i + 1 # 1 /\ queue'[i] = queue[i + 1]
    BY <1>1
  <2>2. QED
    BY <2>1 DEF Consumed
<1>3. QED
  BY <1>2 DEF Consumed

LEMMA ConsumedQueued ==
    ASSUME Consumed, TypeOK, NEW kind \in {"down", "up"}, Queue(kind), pressed' = pressed,
           ~key'.wake, kind = "down" => ~key.wake
    PROVE  Consumed'
<1> DEFINE e == [kind |-> kind, wake |-> key'.wake \/ key.wake, long |-> key.long]
<1>1. /\ queue' = Append(queue, e) /\ Len(queue') = Len(queue) + 1 /\ Len(queue) \in Nat
      /\ queue'[Len(queue) + 1] = e /\ \A i \in 1..Len(queue) : queue'[i] = queue[i]
  BY DEF Queue, TypeOK
<1>2. key.wake => queue = <<>> /\ Len(queue) = 0 /\ kind = "up" /\ pressed # "fresh"
  BY DEF Consumed
<1>3. e.kind = kind /\ (e.wake <=> key.wake)
  OBVIOUS
<1>4. ASSUME NEW i \in 1..Len(queue'), queue'[i].wake
      PROVE  i = 1 /\ queue'[i].kind = "up" /\ pressed' # "fresh"
  <2>1. CASE i = Len(queue) + 1
    BY <1>1, <1>2, <1>3, <1>4, <2>1
  <2>2. CASE i \in 1..Len(queue)
    BY <1>1, <1>4, <2>2 DEF Consumed
  <2>3. QED
    BY <1>1, <2>1, <2>2
<1>5. QED
  BY <1>4 DEF Consumed

LEMMA WokenStep == MonitorInv /\ [Next]_vars => Woken'
<1> SUFFICES ASSUME MonitorInv, [Next]_vars PROVE Woken'
  OBVIOUS
<1> DEFINE Free == "shift" \in faults \/ Cleared \/ Consumed
<1>w. key'.wake => key'.down
  BY WritesStep DEF MonitorInv, Woken, Writes, TypeOK, KeyUp
<1>k. UNCHANGED <<key, queue, pressed>> /\ Consumed => Consumed'
  BY ConsumedKept
<1>a. Free /\ Answered /\ (key.wake => key.down) /\ TypeOK
  BY DEF MonitorInv, Woken
<1> USE DEF Cleared, Answered, keys, helper, thread, At, Goto, Restoring, LockAndOpen
<1>1. CASE Writing \/ Waking
  <2>1. CASE WakeDrains
    BY <1>a, <2>1, <1>w DEF WakeDrains, Woken, Consumed
  <2>2. CASE Unlink
    <3>1. /\ result = "power" => result' = "power"
          /\ faults' = faults /\ UNCHANGED <<key, queue, pressed>>
      BY <2>2 DEF Unlink
    <3>2. caller = "start" /\ result # "power" => pc' = "settings"
      BY <2>2 DEF Unlink
    <3>3. caller = "finally" /\ result # "power" => pc' = "down"
      BY <2>2 DEF Unlink
    <3>4. pc = "unlink"
      BY <2>2 DEF Unlink
    <3>5. QED
      BY <1>a, <1>k, <1>w, <3>1, <3>2, <3>3, <3>4 DEF Woken
  <2>3. QED
    BY <1>1, <1>a, <1>k, <1>w, <2>1, <2>2
       DEF Writing, Waking, ReadAfterDrain, Drained, Woken, WriteSaved, Blank, RewriteSaved, WakeShiftFails
<1>2. CASE Process
  <2>1. CASE LoadSettings
    BY <2>1, <1>w DEF LoadSettings, Woken, Consumed
  <2>2. QED
    BY <1>2, <1>a, <1>k, <1>w, <2>1 DEF Process, Woken, Start, StartFails, Finally, vars
<1>3. CASE Timers
  BY <1>3, <1>a, <1>k, <1>w DEF Timers, Woken, Flush, AutoDisarm, AutoArm, AutoDue, AutoSuspend
<1>4. CASE Reading
  <2>1. /\ key' = key /\ queue # <<>> /\ queue' = Tail(queue) /\ faults' = faults
        /\ Head(queue).kind = "up" => pressed' = "none"
        /\ pc = "loop"
    BY <1>4 DEF Reading, ReadDown, ReleaseIgnored, ReleaseWakes, ReleaseBlanks, Accepted, Read
  <2>2. ~Cleared
    BY <1>a, <2>1
  <2>3. Consumed => Consumed'
    BY <1>a, <2>1, ConsumedRead
  <2>4. QED
    BY <1>a, <1>w, <2>1, <2>2, <2>3 DEF Woken
<1>5. CASE Suspending
  <2>1. CASE KeyWakes
    <3>1. /\ ~key.down /\ Queue("down") /\ pressed' = pressed /\ faults' = faults
          /\ key' = [down |-> TRUE, long |-> FALSE, wake |-> result' = "power"]
          /\ pc' = pc /\ asleep
      BY <2>1 DEF KeyWakes
    <3>2. ~key.wake /\ ~Cleared
      BY <1>a, <3>1
    <3>3. CASE result' = "power"
      BY <1>w, <3>3 DEF Woken
    <3>4. CASE result' # "power"
      <4>1. ~key'.wake
        BY <3>1, <3>4
      <4>2. Consumed => Consumed'
        BY <1>a, <3>1, <3>2, <4>1, ConsumedQueued
      <4>3. QED
        BY <1>a, <1>w, <3>1, <3>2, <4>2 DEF Woken
    <3>5. QED
      BY <3>3, <3>4
  <2>2. QED
    BY <1>5, <1>a, <1>k, <1>w, <2>1
       DEF Suspending, Woken, FallAsleep, HelperRefuses, AlarmWakes, HelperReturns, HelperTimeout
<1>6. CASE Requests
  BY <1>6, <1>a, <1>k, <1>w DEF Requests, Woken, SetBrightness, SetSaved, SetAuto, SetTorch,
                            SystemAction, IdleBlank, IdleWake
<1>7. CASE LeaseEnds \/ TorchExpires \/ Killed \/ Terminated
  BY <1>7, <1>a, <1>k, <1>w DEF Woken, LeaseEnds, TorchExpires, Killed, Terminated
<1>8. CASE KeyPress \/ KeyHeld \/ KeyRelease \/ PressAges \/ Settle
  <2>0. (Cleared => Cleared') /\ faults' = faults
    BY <1>8 DEF KeyPress, KeyHeld, KeyRelease, PressAges, Settle
  <2>1. CASE KeyPress
    <3>1. /\ ~key.wake /\ key' = [KeyUp EXCEPT !.down = TRUE] /\ Queue("down") /\ pressed' = pressed
      BY <2>1, <1>a DEF KeyPress
    <3>2. ~key'.wake
      BY <3>1 DEF KeyUp
    <3>3. QED
      BY <1>a, <1>w, <2>0, <3>1, <3>2, ConsumedQueued DEF Woken
  <2>2. CASE KeyRelease
    <3>1. key' = KeyUp /\ Queue("up") /\ pressed' = pressed
      BY <2>2 DEF KeyRelease
    <3>2. ~key'.wake
      BY <3>1 DEF KeyUp
    <3>3. QED
      BY <1>a, <1>w, <2>0, <3>1, <3>2, ConsumedQueued DEF Woken
  <2>3. CASE KeyHeld
    <3>1. /\ queue' = queue /\ key' = [key EXCEPT !.long = TRUE]
          /\ pressed' \in {pressed, "old"} /\ (pressed # "fresh" => pressed' = pressed)
      BY <2>3 DEF KeyHeld
    <3>2. key'.wake = key.wake
      BY <1>a, <3>1 DEF TypeOK
    <3>3. Consumed => Consumed'
      BY <3>1, <3>2 DEF Consumed
    <3>4. QED
      BY <1>a, <1>w, <2>0, <3>3 DEF Woken
  <2>4. CASE PressAges \/ Settle
    <3>1. key' = key /\ queue' = queue /\ pressed' \in {pressed, "old"}
      BY <2>4 DEF PressAges, Settle
    <3>2. QED
      BY <1>a, <1>w, <2>0, <3>1, ConsumedKept DEF Woken
  <2>5. QED
    BY <1>8, <2>1, <2>2, <2>3, <2>4
<1>9. CASE UNCHANGED vars
  BY <1>9, <1>a, <1>k, <1>w DEF vars, Woken
<1>10. QED
  BY <1>1, <1>2, <1>3, <1>4, <1>5, <1>6, <1>7, <1>8, <1>9 DEF Next


-----------------------------------------------------------------------------
LEMMA MonitorInvInit == Init => MonitorInv
<1> SUFFICES ASSUME Init PROVE MonitorInv
  OBVIOUS
<1>1. TypeOK
  <2>1. FALSE \in BOOLEAN
    OBVIOUS
  <2>2. key \in [down : BOOLEAN, long : BOOLEAN, wake : BOOLEAN]
        /\ prefs \in [level : Levels \cup {None}, auto : BOOLEAN]
    BY <2>1 DEF Init, KeyUp
  <2>3. queue \in Seq(Event) /\ Len(queue) <= QueueMax
    BY QueueRoom DEF Init
  <2>4. dirty \in BOOLEAN /\ recent \in BOOLEAN /\ auto \in BOOLEAN /\ asleep \in BOOLEAN
    BY DEF Init
  <2>5. QED
    BY <2>2, <2>3, <2>4 DEF Init, TypeOK
<1>2. Held /\ Answered /\ Leaves
  BY Lit DEF Init, Held, Answered, Leaves
<1>3. Woken
  BY DEF Init, Woken, Cleared, KeyUp
<1>4. QED
  BY <1>1, <1>2, <1>3 DEF MonitorInv

LEMMA MonitorInvariant == Spec => []MonitorInv
<1>1. MonitorInv /\ [Next]_vars => MonitorInv'
  BY TypeStep, HeldStep, AnsweredStep, LeavesStep, WokenStep DEF MonitorInv
<1>2. QED
  BY <1>1, MonitorInvInit, PTL DEF Spec

(* Type correctness of the monitor, for any brightness levels, any length  *)
(* of the event queue, with and without the suspend policy and kills.      *)
THEOREM TypeInvariant == Spec => []TypeOK
<1>1. MonitorInv => TypeOK
  BY DEF MonitorInv
<1>2. QED
  BY <1>1, MonitorInvariant, PTL

(* The brightness the user chose is on the panel or in the file, wherever  *)
(* the monitor is killed (the order of writes in lock_and_blank, restore   *)
(* and set_brightness), and the suspend helper is called only on a dark    *)
(* panel with that brightness in the file, by the key as by the automatic  *)
(* suspend.                                                                *)
THEOREM BrightnessIsKept == Spec => []BrightnessKept
<1>1. MonitorInv => BrightnessKept
  BY Lit DEF MonitorInv, Held, BrightnessKept, SleepsRestorable, Shown, Blanked
<1>2. QED
  BY <1>1, MonitorInvariant, PTL

(* A monitor that ends in order leaves a lit panel and no torch, or the    *)
(* hollow file of a write it was stopped in (the finally clauses).         *)
THEOREM ExitIsClean == Spec => []CleanExit
<1>1. MonitorInv => CleanExit
  BY Lit DEF MonitorInv, Held, Leaves, CleanExit
<1>2. QED
  BY <1>1, MonitorInvariant, PTL

\* Only the release of a fresh press starts a blanking with the event it reads.
LEMMA BlankingReads ==
    TypeOK /\ [Next]_vars /\ WakeReleaseBlanks => pc = "loop" /\ pressed = "fresh"
<1> SUFFICES ASSUME TypeOK, [Next]_vars, WakeReleaseBlanks
             PROVE  pc = "loop" /\ pressed = "fresh"
  OBVIOUS
<1>1. /\ Len(queue') < Len(queue) /\ queue' # queue /\ pc' = "write"
      /\ \A kind \in {"down", "up"} : ~Queue(kind)
  <2>1. Len(Tail(queue)) = Len(queue) - 1 /\ Len(queue) \in Nat
    BY HeadTailProperties DEF TypeOK, WakeReleaseBlanks
  <2>2. \A kind \in {"down", "up"} : Queue(kind) => Len(queue') = Len(queue) + 1
    BY DEF Queue, TypeOK
  <2>3. queue' = Tail(queue) /\ pc' = "write" /\ Len(queue') = Len(queue) - 1
    BY <2>1 DEF WakeReleaseBlanks
  <2>4. queue' # queue /\ Len(queue') < Len(queue) /\ Len(queue') # Len(queue) + 1
    BY <2>1, <2>3
  <2>5. QED
    BY <2>2, <2>3, <2>4
<1> HIDE DEF WakeReleaseBlanks
<1> USE <1>1 DEF keys, thread, At, Goto, Restoring
<1>11. CASE Writing \/ Waking
  BY <1>11 DEF Writing, Waking, ReadAfterDrain, Drained, WriteSaved, Blank, RewriteSaved, Unlink, WakeDrains, WakeShiftFails
<1>2. CASE Process
  BY <1>2 DEF Process, Start, StartFails, LoadSettings, Finally, vars
<1>3. CASE Timers
  BY <1>3 DEF Timers, Flush, AutoDisarm, AutoArm, AutoDue, AutoSuspend
<1>4. CASE Reading
  BY <1>4 DEF Reading, ReadDown, ReleaseIgnored, ReleaseWakes, ReleaseBlanks, Accepted, Read
<1>5. CASE Suspending
  BY <1>5 DEF Suspending, FallAsleep, HelperRefuses, AlarmWakes, KeyWakes, HelperReturns, HelperTimeout
<1>6. CASE Requests
  BY <1>6 DEF Requests, SetBrightness, SetSaved, SetAuto, SetTorch, SystemAction, IdleBlank, IdleWake
<1>7. CASE LeaseEnds \/ TorchExpires \/ Killed \/ Terminated
  BY <1>7 DEF LeaseEnds, TorchExpires, Killed, Terminated
<1>8. CASE KeyPress \/ KeyHeld \/ KeyRelease \/ PressAges \/ Settle
  BY <1>8 DEF KeyPress, KeyHeld, KeyRelease, PressAges, Settle
<1>9. CASE UNCHANGED vars
  BY <1>9 DEF vars
<1>10. QED
  BY <1>11, <1>2, <1>3, <1>4, <1>5, <1>6, <1>7, <1>8, <1>9 DEF Next

(* The release of the press that ended a sleep never blanks the panel: the *)
(* wake drains the queue and forgets the press, or the Shift key failed.   *)
THEOREM WakeIsConsumed == Spec => WakePressConsumed
<1>1. MonitorInv /\ [Next]_vars => (WakeReleaseBlanks => "shift" \in faults)
  <2> SUFFICES ASSUME MonitorInv, [Next]_vars, WakeReleaseBlanks PROVE "shift" \in faults
    OBVIOUS
  <2>1. pc = "loop" /\ pressed = "fresh"
    BY BlankingReads DEF MonitorInv
  <2>2. ~Cleared
    BY <2>1 DEF MonitorInv, Answered, Cleared
  <2>3. ~Consumed
    <3>1. Head(queue) = queue[1] /\ 1 \in 1..Len(queue)
      BY DEF MonitorInv, TypeOK, WakeReleaseBlanks
    <3>2. QED
      BY <2>1, <3>1 DEF Consumed, WakeReleaseBlanks
  <2>4. QED
    BY <2>2, <2>3 DEF MonitorInv, Woken
<1>2. QED
  BY <1>1, MonitorInvariant, PTL DEF Spec, WakePressConsumed

=============================================================================
