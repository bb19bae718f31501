---------------------------- MODULE PowerMonitor ----------------------------
(***************************************************************************)
(* The power-key monitor (ubuntu/t630-power-button.py) with the display    *)
(* and torch settings it owns (ubuntu/t630_display.py): one process, one   *)
(* loop, that locks the session, darkens the panel, waits for the suspend  *)
(* helper and lights the panel again.                                      *)
(*                                                                         *)
(* The value to restore lives in a file of /run (STATE in the source), so  *)
(* the order of the writes to that file and to the backlight decides what  *)
(* a killed monitor leaves behind.  Clocks are abstracted: a deadline is   *)
(* ahead or has passed.  What the helper does while it runs is the subject *)
(* of SuspendHelper; here it only blocks the loop.                         *)
(***************************************************************************)
EXTENDS Integers, Sequences

CONSTANTS
    Levels,         \* the brightness values of a lit panel
    SuspendPolicy,  \* /etc/t630/suspend.enabled exists
    Kills,          \* the monitor may be killed or terminated
    QueueMax        \* bound: unread key events

ASSUME LevelsLit == Levels # {} /\ Levels \subseteq Nat \ {0}
ASSUME Switches  == {SuspendPolicy, Kills} \subseteq BOOLEAN
ASSUME QueueRoom == QueueMax \in Nat \ {0}

Dark == 0
None == -1      \* the file does not exist
Hollow == -2    \* the file exists and is empty

\* A key event as the input device queues it.  "wake": it belongs to the press
\* the helper reports as the one that ended the sleep; "long": the key was held
\* for more than 1.5 seconds.
Event == [kind : {"down", "up"}, wake : BOOLEAN, long : BOOLEAN]

VARIABLES
    light,      \* what the backlight shows
    saved,      \* the file with the brightness to restore
    prefs,      \* the preferences file: [level, auto]
    wanted,     \* history: the brightness the user asked for last
    dirty,      \* preferences wait for a flush
    torch,      \* the torch: "off", "leased" or on past its lease, "overdue"
    pc,         \* where the monitor is
    caller,     \* who called lock_and_blank, restore or the helper; "autoKey" is
                \* the automatic path of a turn whose select saw key events
    value,      \* the local variable of lock_and_blank and set_brightness
    queue,      \* key events not yet read
    key,        \* the physical key: [down, long, wake]
    pressed,    \* pressed_at: "none", "fresh" or "old" (above 1.5 s)
    recent,     \* last_action is less than half a second ago
    auto,       \* the automatic suspend setting
    autoAt,     \* auto_suspend_at: "none", "armed" or "due"
    asleep,     \* the helper has the tablet suspended
    result,     \* what the helper answered, until it is dealt with
    faults      \* history: what has gone wrong in this run of the monitor

panel    == <<light, saved>>
settings == <<prefs, wanted, dirty, auto, torch>>
thread   == <<pc, caller, value>>
keys     == <<queue, key, pressed, recent>>
helper   == <<asleep, result, faults>>
vars     == <<light, saved, prefs, wanted, dirty, auto, torch, pc, caller, value,
              queue, key, pressed, recent, autoAt, asleep, result, faults>>

KeyUp == [down |-> FALSE, long |-> FALSE, wake |-> FALSE]

Init ==
    /\ light \in Levels /\ saved = None
    /\ wanted = light /\ prefs = [level |-> None, auto |-> FALSE] /\ dirty = FALSE
    /\ torch = "off"
    /\ pc = "down" /\ caller = "start" /\ value = light
    /\ queue = <<>> /\ key = KeyUp /\ pressed = "none" /\ recent = FALSE
    /\ auto = FALSE /\ autoAt = "none"
    /\ asleep = FALSE /\ result = "none" /\ faults = {}

At(l) == pc = l /\ ~asleep
Goto(l) == pc' = l
Blanked == saved # None                         \* STATE.exists()
Shown == IF Blanked THEN saved ELSE light       \* the brightness of status()

-----------------------------------------------------------------------------
(***************************************************************************)
(* restore() and lock_and_blank().                                         *)
(***************************************************************************)

\* The first half of restore(): the light; the second: the file is removed.
Restoring(who) ==
    /\ saved \in Levels
    /\ light' = saved
    /\ Goto("unlink") /\ caller' = who

\* After a wake by the key, a Shift key is sent to the desktop first.
Unlink ==
    /\ At("unlink")
    /\ saved' = None
    /\ Goto(CASE caller = "start"   -> "settings"
              [] caller = "finally" -> "down"
              [] result = "power"   -> "shift"
              [] OTHER              -> "loop")
    /\ autoAt' = IF result = "power" THEN autoAt ELSE "none"
    /\ UNCHANGED <<light, settings, caller, value, keys, helper>>

\* The lock is verified, the brightness read, the file created ...
LockAndOpen(who) ==
    /\ light # Dark
    /\ value' = light
    /\ saved' = Hollow
    /\ Goto("write") /\ caller' = who

\* ... written ...
WriteSaved ==
    /\ At("write") /\ Goto("blank")
    /\ saved' = value
    /\ UNCHANGED <<light, settings, caller, value, keys, autoAt, helper>>

\* ... and only then is the panel dark.  A key press goes on to the suspend
\* helper, which answers at once when the policy is off; the idle check arms
\* the automatic suspend.
Blank ==
    /\ At("blank")
    /\ light' = Dark
    /\ Goto(IF caller = "key" /\ SuspendPolicy THEN "suspending" ELSE "loop")
    /\ autoAt' = IF auto /\ ~(caller = "key" /\ SuspendPolicy) THEN "armed" ELSE autoAt
    /\ UNCHANGED <<saved, settings, caller, value, keys, helper>>

-----------------------------------------------------------------------------
(***************************************************************************)
(* Start and end of the process.                                           *)
(***************************************************************************)

\* Startup repairs a previous abnormal exit: restore() comes first.
Start ==
    /\ At("down") /\ saved # Hollow
    /\ IF Blanked THEN Restoring("start")
                  ELSE Goto("settings") /\ UNCHANGED <<light, caller>>
    /\ UNCHANGED <<saved, settings, value, keys, autoAt, helper>>

\* int('') ends the new monitor at once.
StartFails == At("down") /\ saved = Hollow /\ UNCHANGED vars

\* Mutant: missing preferences are not looked for.
LoadSettingsBlindly ==
    /\ At("settings") /\ Goto("loop")
    /\ torch' = "off"
    /\ light' = prefs.level /\ wanted' = light' /\ auto' = prefs.auto
    /\ queue' = <<>> /\ pressed' = "none" /\ recent' = FALSE
    /\ dirty' = FALSE /\ autoAt' = "none" /\ faults' = {}
    /\ UNCHANGED <<saved, prefs, caller, value, key, asleep, result>>

\* The torch is switched off, the stored brightness applied, the event device
\* opened: the loop starts afresh.
LoadSettings ==
    /\ At("settings") /\ Goto("loop")
    /\ torch' = "off"
    /\ light' = IF prefs.level = None THEN light ELSE prefs.level
    /\ wanted' = light'
    /\ auto' = prefs.auto
    /\ queue' = <<>> /\ pressed' = "none" /\ recent' = FALSE
    /\ dirty' = FALSE /\ autoAt' = "none" /\ faults' = {}
    /\ UNCHANGED <<saved, prefs, caller, value, key, asleep, result>>

\* SIGKILL, or SIGTERM before the handler is set and inside the last restore:
\* nothing is cleaned up.
Killed ==
    /\ Kills /\ pc # "down" /\ ~asleep
    /\ Goto("down") /\ result' = "none"
    /\ faults' = faults \cup {"killed"}
    /\ UNCHANGED <<panel, settings, caller, value, keys, autoAt, asleep>>

\* SIGTERM raises SystemExit wherever the loop is.
Terminated ==
    /\ Kills /\ pc \notin {"down", "settings", "finally"} /\ ~asleep
    /\ ~(pc = "unlink" /\ caller \in {"start", "finally"})
    /\ Goto("finally") /\ result' = "none"
    /\ UNCHANGED <<panel, settings, caller, value, keys, autoAt, asleep, faults>>

\* A confirmed restart or power-off was handed to the outer helper.
SystemAction ==
    /\ At("loop") /\ Goto("finally")
    /\ UNCHANGED <<panel, settings, caller, value, keys, autoAt, helper>>

\* Mutant: the last restore is missing.
FinallyDark ==
    /\ At("finally") /\ Goto("down")
    /\ torch' = "off" /\ dirty' = FALSE
    /\ UNCHANGED <<panel, prefs, wanted, auto, caller, value, keys, autoAt, helper>>

\* flush(force=True), which may fail; the torch goes off; the panel comes back.
\* A hollow file makes the forced flush or the last restore raise.
Finally ==
    /\ At("finally")
    /\ \/ dirty /\ saved # Hollow /\ prefs' = [level |-> Shown, auto |-> auto]
       \/ UNCHANGED prefs
    /\ torch' = IF dirty /\ saved = Hollow THEN torch ELSE "off"
    /\ IF saved \in Levels THEN Restoring("finally")
                           ELSE Goto("down") /\ UNCHANGED <<light, caller>>
    /\ dirty' = FALSE
    /\ UNCHANGED <<saved, wanted, auto, value, keys, autoAt, helper>>

-----------------------------------------------------------------------------
(***************************************************************************)
(* The loop: requests, the tick, the flush, the timers, the idle check.    *)
(***************************************************************************)

\* Mutant: a request while blanked goes to the backlight.
SetBrightnessAlways(v) ==
    /\ At("loop")
    /\ light' = v /\ wanted' = v /\ dirty' = TRUE
    /\ UNCHANGED <<saved, prefs, auto, torch, thread, keys, autoAt, helper>>

\* BRIGHTNESS on a lit panel writes the backlight ...
SetBrightness(v) ==
    /\ At("loop") /\ ~Blanked
    /\ light' = v /\ wanted' = v /\ dirty' = TRUE
    /\ UNCHANGED <<saved, prefs, auto, torch, thread, keys, autoAt, helper>>

\* ... on a dark one it truncates and rewrites the file.
SetSaved(v) ==
    /\ At("loop") /\ Blanked
    /\ saved' = Hollow
    /\ value' = v /\ Goto("rewrite")
    /\ UNCHANGED <<light, settings, caller, keys, autoAt, helper>>

RewriteSaved ==
    /\ At("rewrite") /\ Goto("loop")
    /\ saved' = value /\ wanted' = value /\ dirty' = TRUE
    /\ UNCHANGED <<light, prefs, auto, torch, caller, value, keys, autoAt, helper>>

SetAuto(b) ==
    /\ At("loop") /\ auto # b /\ auto' = b /\ dirty' = TRUE
    /\ UNCHANGED <<panel, prefs, wanted, torch, thread, keys, autoAt, helper>>

\* FLASHLIGHT ON and RENEW, FLASHLIGHT OFF.
SetTorch(t) ==
    /\ At("loop") /\ torch' = t
    /\ UNCHANGED <<panel, prefs, wanted, dirty, auto, thread, keys, autoAt, helper>>

\* The lease runs out, by the clock on the wall ...
LeaseEnds ==
    /\ torch = "leased" /\ torch' = "overdue"
    /\ UNCHANGED <<panel, prefs, wanted, dirty, auto, thread, keys, autoAt, helper>>

\* ... and the tick of a later turn of the loop notices.
TorchExpires ==
    /\ At("loop") /\ torch = "overdue" /\ torch' = "off"
    /\ UNCHANGED <<panel, prefs, wanted, dirty, auto, thread, keys, autoAt, helper>>

Flush ==
    /\ At("loop") /\ dirty
    /\ prefs' = [level |-> Shown, auto |-> auto] /\ dirty' = FALSE
    /\ UNCHANGED <<panel, wanted, auto, torch, thread, keys, autoAt, helper>>

AutoDisarm ==
    /\ At("loop") /\ autoAt # "none" /\ (~auto \/ ~Blanked)
    /\ autoAt' = "none"
    /\ UNCHANGED <<panel, settings, thread, keys, helper>>

\* Mutant: the deadline is set at a blanking only.
AutoArmNever == FALSE /\ UNCHANGED vars

AutoArm ==
    /\ At("loop") /\ auto /\ Blanked /\ autoAt = "none"
    /\ autoAt' = "armed"
    /\ UNCHANGED <<panel, settings, thread, keys, helper>>

AutoDue ==
    /\ autoAt = "armed" /\ ~asleep /\ autoAt' = "due"
    /\ UNCHANGED <<panel, settings, thread, keys, helper>>

\* Mutant: the deadline counts on a lit panel.
AutoSuspendLit ==
    /\ At("loop") /\ auto /\ autoAt = "due"
    /\ Goto("suspending") /\ caller' = "auto"
    /\ UNCHANGED <<panel, settings, value, keys, autoAt, helper>>

\* The helper is asked; without the policy it refuses at once.  The select at
\* the start of the turn may have seen the events that are queued now.
AutoSuspend ==
    /\ At("loop") /\ auto /\ Blanked /\ autoAt = "due"
    /\ IF SuspendPolicy
       THEN /\ Goto("suspending") /\ UNCHANGED autoAt
            /\ caller' = "auto" \/ (queue # <<>> /\ caller' = "autoKey")
       ELSE autoAt' = "armed" /\ UNCHANGED <<pc, caller>>
    /\ UNCHANGED <<panel, settings, value, keys, helper>>

\* The idle monitor reports a long idle time: lock and darken.
IdleBlank ==
    /\ At("loop") /\ ~Blanked
    /\ LockAndOpen("idle")
    /\ UNCHANGED <<light, settings, keys, autoAt, helper>>

\* It reports activity while blanked: only the light comes back.
IdleWake ==
    /\ At("loop") /\ Blanked
    /\ Restoring("idle")
    /\ UNCHANGED <<saved, settings, value, keys, autoAt, helper>>

-----------------------------------------------------------------------------
(***************************************************************************)
(* The power key.  The user presses, holds and releases it whatever the    *)
(* monitor does; the time of a press is measured when its events are read. *)
(***************************************************************************)

Queue(kind) ==
    /\ Len(queue) < QueueMax
    /\ queue' = Append(queue, [kind |-> kind, wake |-> key'.wake \/ key.wake,
                               long |-> key.long])

KeyPress ==
    /\ ~asleep /\ ~key.down
    /\ key' = [KeyUp EXCEPT !.down = TRUE]
    /\ Queue("down")
    /\ UNCHANGED <<panel, settings, thread, pressed, recent, autoAt, helper>>

\* Unless the helper blocks the loop, a press is read long before it counts as
\* held.
KeyHeld ==
    /\ ~asleep /\ key.down /\ ~key.long
    /\ pc # "suspending" => queue = <<>>
    /\ key' = [key EXCEPT !.long = TRUE]
    /\ pressed' = IF pressed = "fresh" THEN "old" ELSE pressed
    /\ UNCHANGED <<panel, settings, thread, queue, recent, autoAt, helper>>

KeyRelease ==
    /\ ~asleep /\ key.down
    /\ key' = KeyUp
    /\ Queue("up")
    /\ UNCHANGED <<panel, settings, thread, pressed, recent, autoAt, helper>>

\* Time passes: a remembered press ages, the last action becomes old.
PressAges ==
    /\ pressed = "fresh" /\ pressed' = "old"
    /\ UNCHANGED <<panel, settings, thread, queue, key, recent, autoAt, helper>>

Settle ==
    /\ recent /\ recent' = FALSE
    /\ UNCHANGED <<panel, settings, thread, queue, key, pressed, autoAt, helper>>

Read(kind) ==
    /\ At("loop") /\ queue # <<>> /\ Head(queue).kind = kind
    /\ queue' = Tail(queue)

ReadDown ==
    /\ Read("down") /\ pressed' = "fresh"
    /\ UNCHANGED <<panel, settings, thread, key, recent, autoAt, helper>>

\* No press is remembered, it was long, or the last action is too recent.
ReleaseIgnored ==
    /\ Read("up") /\ (pressed # "fresh" \/ recent)
    /\ pressed' = "none"
    /\ UNCHANGED <<panel, settings, thread, key, recent, autoAt, helper>>

Accepted == Read("up") /\ pressed = "fresh" /\ ~recent /\ pressed' = "none" /\ recent' = TRUE

ReleaseWakes ==
    /\ Accepted /\ Blanked
    /\ Restoring("key")
    /\ UNCHANGED <<saved, settings, value, key, autoAt, helper>>

\* When the lock cannot be verified the display stays on.
ReleaseBlanks ==
    /\ Accepted /\ ~Blanked
    /\ LockAndOpen("key") \/ UNCHANGED <<saved, thread>>
    /\ UNCHANGED <<light, settings, key, autoAt, helper>>

-----------------------------------------------------------------------------
(***************************************************************************)
(* The blocked loop: the suspend helper runs.                              *)
(***************************************************************************)

FallAsleep ==
    /\ At("suspending") /\ result = "none"
    /\ asleep' = TRUE
    /\ UNCHANGED <<panel, settings, thread, keys, autoAt, result, faults>>

\* A guard refuses or a step of the helper fails.
HelperRefuses ==
    /\ At("suspending") /\ result = "none"
    /\ result' = "refused"
    /\ UNCHANGED <<panel, settings, thread, keys, autoAt, asleep, faults>>

\* The RTC safety alarm, or a wake source that is not the key.
AlarmWakes ==
    /\ asleep /\ asleep' = FALSE /\ result' \in {"slept", "refused"}
    /\ UNCHANGED <<panel, settings, thread, keys, autoAt, faults>>

\* The key: its press is queued like any other.
KeyWakes ==
    /\ asleep /\ ~key.down
    /\ asleep' = FALSE /\ result' \in {"power", "refused"}
    /\ key' = [down |-> TRUE, long |-> FALSE, wake |-> result' = "power"]
    /\ Queue("down")
    /\ UNCHANGED <<panel, settings, thread, pressed, recent, autoAt, faults>>

\* The helper answers: only a wake by the key lights the panel.
HelperReturns ==
    /\ At("suspending") /\ result # "none"
    /\ IF result = "power"
       THEN Restoring(caller) /\ UNCHANGED <<autoAt, result>>
       ELSE /\ Goto("loop") /\ result' = "none"
            /\ autoAt' = IF caller # "key" \/ auto THEN "armed" ELSE autoAt
            /\ UNCHANGED <<light, caller>>
    /\ UNCHANGED <<saved, settings, value, keys, asleep, faults>>

\* Mutant: the queued events of the wake press stay.
WakeKeepsQueue ==
    /\ At("shift") /\ Goto("loop") /\ result' = "none"
    /\ autoAt' = "none"
    /\ UNCHANGED <<panel, settings, caller, value, keys, asleep, faults>>

\* The Shift key was sent: the queued events are drained, the press forgotten.
\* A turn of the loop that selected the events still has its read to do.
WakeDrains ==
    /\ At("shift") /\ Goto(IF caller = "autoKey" THEN "reread" ELSE "loop")
    /\ result' = "none"
    /\ queue' = <<>> /\ pressed' = "none" /\ recent' = TRUE
    /\ autoAt' = "none"
    /\ UNCHANGED <<panel, settings, caller, value, key, asleep, faults>>

\* The read of that turn, outside every try: with nothing queued since the drain
\* it raises BlockingIOError, which ends the monitor.
Drained == pc = "reread" /\ queue = <<>>

ReadAfterDrain ==
    /\ At("reread") /\ Goto(IF Drained THEN "finally" ELSE "loop")
    /\ UNCHANGED <<panel, settings, caller, value, keys, autoAt, helper>>

\* It was not: the exception handlers restore a lit panel or set a new time.
WakeShiftFails ==
    /\ At("shift") /\ Goto("loop") /\ result' = "none"
    /\ faults' = faults \cup {"shift"}
    /\ autoAt' = IF caller # "key" THEN "armed" ELSE autoAt
    /\ UNCHANGED <<panel, settings, caller, value, keys, asleep>>

\* Mutant: the helper runs without a timeout.
HelperTimeoutNever == FALSE /\ UNCHANGED vars

\* The helper exceeds its 350 seconds: after a key press the exception handler
\* restores the light, the automatic path only tries again later.
HelperTimeout ==
    /\ At("suspending") /\ result = "none"
    /\ IF caller = "key"
       THEN Restoring("key") /\ UNCHANGED autoAt
       ELSE Goto("loop") /\ autoAt' = "armed" /\ UNCHANGED <<light, caller>>
    /\ UNCHANGED <<saved, settings, value, keys, helper>>

-----------------------------------------------------------------------------
Writing    == WriteSaved \/ Blank \/ RewriteSaved \/ Unlink
Waking     == WakeDrains \/ WakeShiftFails \/ ReadAfterDrain
Process    == Start \/ StartFails \/ LoadSettings \/ Finally
Timers     == Flush \/ AutoDisarm \/ AutoArm \/ AutoDue \/ AutoSuspend
Reading    == ReadDown \/ ReleaseIgnored \/ ReleaseWakes \/ ReleaseBlanks
Suspending == FallAsleep \/ HelperRefuses \/ AlarmWakes \/ KeyWakes \/ HelperReturns \/ HelperTimeout

Requests ==
    \/ \E v \in Levels : SetBrightness(v) \/ SetSaved(v)
    \/ \E b \in BOOLEAN : SetAuto(b)
    \/ \E t \in {"off", "leased"} : SetTorch(t)
    \/ SystemAction \/ IdleBlank \/ IdleWake

Next ==
    \/ Writing \/ Waking \/ Process \/ Timers \/ Reading \/ Suspending \/ Requests
    \/ LeaseEnds \/ TorchExpires \/ Killed \/ Terminated
    \/ KeyPress \/ KeyHeld \/ KeyRelease \/ PressAges \/ Settle

Spec == Init /\ [][Next]_vars

\* The loop turns at least once a second; every turn ticks and looks at the
\* timers.  The helper runs under a timeout and sleeps under an RTC alarm.
Fairness ==
    /\ WF_vars(Writing \/ Waking) /\ WF_vars(Start \/ LoadSettings \/ Finally)
    /\ WF_vars(AlarmWakes \/ KeyWakes)
    /\ WF_vars(HelperReturns \/ HelperTimeout)
    /\ WF_vars(AutoDue) /\ SF_vars(AutoArm) /\ SF_vars(AutoSuspend)
    /\ SF_vars(TorchExpires)

FairSpec == Spec /\ Fairness

-----------------------------------------------------------------------------
(***************************************************************************)
(* Properties.                                                             *)
(***************************************************************************)

\* Every variable has a value of its kind.
TypeOK ==
    /\ light \in Levels \cup {Dark} /\ saved \in Levels \cup {None, Hollow}
    /\ prefs \in [level : Levels \cup {None}, auto : BOOLEAN]
    /\ wanted \in Levels /\ dirty \in BOOLEAN
    /\ torch \in {"off", "leased", "overdue"}
    /\ pc \in {"down", "settings", "loop", "write", "blank", "rewrite",
               "suspending", "unlink", "shift", "reread", "finally"}
    /\ caller \in {"start", "finally", "key", "idle", "auto", "autoKey"}
    /\ value \in Levels
    /\ queue \in Seq(Event) /\ Len(queue) <= QueueMax
    /\ key \in [down : BOOLEAN, long : BOOLEAN, wake : BOOLEAN]
    /\ pressed \in {"none", "fresh", "old"} /\ recent \in BOOLEAN
    /\ auto \in BOOLEAN /\ autoAt \in {"none", "armed", "due"}
    /\ asleep \in BOOLEAN /\ result \in {"none", "slept", "power", "refused"}
    /\ faults \subseteq {"killed", "shift"}

\* The helper may sleep only on a dark panel whose brightness can be restored,
\* whatever requests and key presses came before (the file is what the helper's
\* blanked guard looks at).
SleepsRestorable == pc = "suspending" => light = Dark /\ saved = wanted

\* The brightness the user chose last is never lost while the monitor lives: it
\* is on the panel, or in the file, or about to be written by set_brightness;
\* wherever the process is killed, a dark panel has the file next to it, and
\* across a sleep it is the file that has the brightness.
BrightnessKept ==
    /\ light = Dark => saved \in {wanted, Hollow}
    /\ pc = "loop" => Shown = wanted
    /\ SleepsRestorable

\* Whoever stops the monitor in order, even in the middle of a blanking, gets a
\* lit panel and no torch back (the finally clauses, 317-325).
CleanExit ==
    pc = "down" /\ "killed" \notin faults =>
        saved = Hollow \/ (light # Dark /\ saved = None /\ torch = "off")

\* The release of the press that ended a sleep never blanks the panel again, as
\* long as the Shift key could be sent.
WakeReleaseBlanks ==
    /\ queue # <<>> /\ queue' = Tail(queue)
    /\ Head(queue).kind = "up" /\ Head(queue).wake
    /\ pc' = "write"
WakePressConsumed == [][WakeReleaseBlanks => "shift" \in faults]_vars

\* Claimed by lines 295-297 ("do not interpret its queued release as another
\* request to blank/suspend again"): it never does, whatever failed before.
WakePressAlwaysConsumed == [][~WakeReleaseBlanks]_vars

\* Whatever the helper does, the monitor is back in its loop, with the one
\* exception of an automatic wake whose drain took the events from a read that
\* its turn of the loop still had to do.
MonitorReturns == pc = "suspending" ~> pc = "loop" \/ Drained

\* A tablet that stays blanked with automatic suspend on keeps trying: no
\* answer of the helper leaves the deadline unset.
AutoRetries ==
    <>[](auto /\ Blanked) => []<>(pc = "suspending")

\* Claimed by line 155 ("Repair a previous abnormal monitor exit while
\* blanked"): whatever ended a monitor, the next one can start.
RepairAlwaysPossible == pc = "down" => saved # Hollow
=============================================================================
