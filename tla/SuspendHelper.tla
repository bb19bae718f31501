--------------------------- MODULE SuspendHelper ---------------------------
(***************************************************************************)
(* The guarded suspend helper (ubuntu/t630-suspend.py): it reads the       *)
(* guards, takes a lock, quiesces the sensor bridge, installs the Wi-Fi    *)
(* wake pattern, freezes the tablet under an RTC alarm and undoes all of   *)
(* it.  The power monitor runs one helper; an operator may run another.    *)
(*                                                                         *)
(* While the tablet is frozen no process takes a step.  A helper that is   *)
(* killed leaves its rtcwake behind: an orphan.                            *)
(*                                                                         *)
(* The sensor bridge is two processes, stopped with SIGTERM and started    *)
(* again by a script of its own (ubuntu/t630-sensors-start) that outlives  *)
(* the helper and runs beside the next one.                                *)
(***************************************************************************)
EXTENDS Naturals, FiniteSets

CONSTANTS
    Helpers,  \* the processes that may run the helper
    Nobody    \* the lock is free

ASSUME NobodyIsNoHelper == Nobody \notin Helpers

VARIABLES
    pc,        \* where each helper is
    restart,   \* its variable restart_sensors
    installed, \* its variable installed
    lock,      \* who holds /run/t630-wake-pattern-test.lock
    orphans,   \* rtcwake processes whose helper was killed
    bridge,    \* the processes of the sensor bridge that pgrep sees
    dying,     \* those of them that got a SIGTERM
    script,    \* where the start script is that each helper launched last
    pattern,   \* the Wi-Fi wake pattern is installed
    alarm,     \* the RTC alarm is set
    frozen,    \* the tablet is suspended
    plugged,   \* external power or USB
    playing,   \* an audio stream is not corked
    secured,   \* locked, and the panel is dark
    faults     \* history: what went wrong that the helper cannot make up for

sensors == <<bridge, dying, script>>
hw      == <<sensors, pattern, alarm, frozen>>
guarded == <<plugged, playing, secured>>
world   == <<guarded, faults>>
local   == <<restart, installed>>
vars    == <<pc, restart, installed, lock, orphans, bridge, dying, script, pattern,
             alarm, frozen, plugged, playing, secured, faults>>

Both == {"hexagonrpcd", "iio-sensor-proxy"}

Init ==
    /\ pc = [h \in Helpers |-> "idle"]
    /\ restart = [h \in Helpers |-> FALSE]
    /\ installed = [h \in Helpers |-> FALSE]
    /\ lock = Nobody /\ orphans = {}
    /\ bridge = Both /\ dying = {} /\ script = [h \in Helpers |-> "none"]
    /\ pattern = FALSE /\ alarm = FALSE /\ frozen = FALSE
    /\ plugged \in BOOLEAN /\ playing \in BOOLEAN /\ secured \in BOOLEAN
    /\ faults = {}

At(h, l)   == ~frozen /\ pc[h] = l
Goto(h, l) == pc' = [pc EXCEPT ![h] = l]

\* The answer is given and the lock, if it was taken, is free again.
Return(h) == /\ Goto(h, "idle")
             /\ lock' = IF lock = h THEN Nobody ELSE lock

-----------------------------------------------------------------------------
(***************************************************************************)
(* The guards, each read at its own time.                                  *)
(***************************************************************************)

\* Bound: a helper begins when the start script of its last run has ended; the
\* script of the other one may still run.
Begin(h) ==
    /\ At(h, "idle") /\ script[h] = "none" /\ Goto(h, "power")
    /\ restart' = [restart EXCEPT ![h] = FALSE]
    /\ installed' = [installed EXCEPT ![h] = FALSE]
    /\ UNCHANGED <<lock, orphans, hw, world>>

ReadPower(h) ==
    /\ At(h, "power") /\ Goto(h, IF plugged THEN "idle" ELSE "session")
    /\ UNCHANGED <<local, lock, orphans, hw, world>>

\* Lock, panel and audio; any of the queries may fail.
ReadSession(h) ==
    /\ At(h, "session")
    /\ \/ secured /\ ~playing /\ Goto(h, "alarm")
       \/ Goto(h, "idle")
    /\ UNCHANGED <<local, lock, orphans, hw, world>>

ReadAlarm(h) ==
    /\ At(h, "alarm") /\ Goto(h, IF alarm THEN "idle" ELSE "lock")
    /\ UNCHANGED <<local, lock, orphans, hw, world>>

-----------------------------------------------------------------------------
(***************************************************************************)
(* The quiescing, under the lock.  A failing step goes to the clean-up.    *)
(***************************************************************************)

\* Mutant: the lock is not tested.
TakeLockAnyway(h) ==
    /\ At(h, "lock") /\ lock' = h /\ Goto(h, "sensors")
    /\ UNCHANGED <<local, orphans, hw, world>>

\* LOCK_NB: a second helper gives up.
TakeLock(h) ==
    /\ At(h, "lock")
    /\ IF lock = Nobody THEN lock' = h /\ Goto(h, "sensors")
                        ELSE Goto(h, "idle") /\ UNCHANGED lock
    /\ UNCHANGED <<local, orphans, hw, world>>

\* Any process counts; a start script that has launched none is not seen.
ReadSensors(h) ==
    /\ At(h, "sensors")
    /\ restart' = [restart EXCEPT ![h] = bridge # {}]
    /\ Goto(h, IF bridge # {} THEN "quiet" ELSE "pattern")
    /\ UNCHANGED <<installed, lock, orphans, hw, world>>

\* Mutant: the helper waits at a place of its own.
StopSensorsHalf(h) ==
    /\ At(h, "quiet")
    /\ dying' = bridge /\ Goto(h, "stopping")
    /\ UNCHANGED <<local, lock, orphans, bridge, script, pattern, alarm, frozen, world>>

\* A helper that gives up the stop leaves processes behind that still die: the
\* start script of its clean-up sees them and launches nothing in their place.
StopFails == faults' = IF dying' = {} THEN faults ELSE faults \cup {"stop"}

\* stop_sensor_bridge: a SIGTERM for every process; the process may be gone, or
\* pgrep fail.  A start script is not stopped.
StopSensors(h) ==
    /\ At(h, "quiet")
    /\ \E sent \in SUBSET bridge :
          /\ dying' = dying \cup sent
          /\ \/ sent = bridge /\ Goto(h, "gone") /\ UNCHANGED faults
             \/ Goto(h, "disable") /\ StopFails
    /\ UNCHANGED <<local, lock, orphans, bridge, script, pattern, alarm, frozen, guarded>>

\* They all go, which five seconds of draining follow, or 20 looks were in vain.
SensorsStopped(h) ==
    /\ At(h, "gone")
    /\ \/ bridge = {} /\ Goto(h, "pattern") /\ UNCHANGED <<dying, faults>>
       \/ Goto(h, "disable") /\ UNCHANGED dying /\ StopFails
    /\ UNCHANGED <<local, lock, orphans, bridge, script, pattern, alarm, frozen, guarded>>

\* Mutant: installed is not set.
AddPatternForgets(h) ==
    /\ At(h, "pattern")
    /\ pattern' = TRUE /\ Goto(h, "rtcwake")
    /\ UNCHANGED <<local, lock, orphans, sensors, alarm, frozen, world>>

AddPattern(h) ==
    /\ At(h, "pattern")
    /\ \/ /\ pattern' = TRUE /\ Goto(h, "rtcwake")
          /\ installed' = [installed EXCEPT ![h] = TRUE]
       \/ Goto(h, "disable") /\ UNCHANGED <<pattern, installed>>
    /\ UNCHANGED <<restart, lock, orphans, sensors, alarm, frozen, world>>

\* Mutant: the freeze goes on without the alarm.
SetAlarmUnchecked(h) ==
    /\ At(h, "rtcwake") /\ Goto(h, "enter")
    /\ alarm' \in {alarm, TRUE}
    /\ UNCHANGED <<local, lock, orphans, sensors, pattern, frozen, world>>

\* rtcwake sets the alarm, or cannot.
SetAlarm(h) ==
    /\ At(h, "rtcwake")
    /\ \/ alarm' = TRUE /\ Goto(h, "enter")
       \/ Goto(h, "disable") /\ UNCHANGED alarm
    /\ UNCHANGED <<local, lock, orphans, sensors, pattern, frozen, world>>

Freeze(h) ==
    /\ At(h, "enter") /\ frozen' = TRUE /\ Goto(h, "asleep")
    /\ UNCHANGED <<local, lock, orphans, sensors, pattern, alarm, world>>

\* The timeout of 330 seconds kills an rtcwake that never froze the tablet.
RtcwakeHangs(h) ==
    /\ At(h, "enter") /\ Goto(h, "disable")
    /\ UNCHANGED <<local, lock, orphans, hw, world>>

\* The alarm, the key, a matching packet or a plug: rtcwake clears its alarm.
Wake ==
    /\ frozen /\ frozen' = FALSE /\ alarm' = FALSE
    /\ pc' = [h \in Helpers |-> IF pc[h] = "asleep" THEN "disable" ELSE pc[h]]
    /\ UNCHANGED <<local, lock, orphans, sensors, pattern, world>>

-----------------------------------------------------------------------------
(***************************************************************************)
(* The clean-up: two nested finally clauses.                               *)
(***************************************************************************)

CleanupFails == faults' = faults \cup {"cleanup"}

DisableAlarm(h) ==
    /\ At(h, "disable") /\ Goto(h, "unpattern")
    /\ \/ alarm' = FALSE /\ UNCHANGED faults
       \/ UNCHANGED alarm /\ CleanupFails
    /\ UNCHANGED <<local, lock, orphans, sensors, pattern, frozen, guarded>>

\* The interface may be gone: the write raises past the restart of the bridge.
RemovePattern(h) ==
    /\ At(h, "unpattern")
    /\ \/ /\ pattern' = IF installed[h] THEN FALSE ELSE pattern
          /\ Goto(h, "resensor") /\ UNCHANGED <<lock, faults>>
       \/ installed[h] /\ CleanupFails /\ Return(h) /\ UNCHANGED pattern
    /\ UNCHANGED <<local, orphans, sensors, alarm, frozen, guarded>>

\* Mutant: the bridge is started only by a helper that came to the pattern.
RestartSensorsLate(h) ==
    /\ At(h, "resensor") /\ Return(h)
    /\ script' = IF restart[h] /\ installed[h] THEN [script EXCEPT ![h] = "tests"] ELSE script
    /\ UNCHANGED <<local, orphans, bridge, dying, pattern, alarm, frozen, world>>

\* The start script runs in the background, in a session of its own.
RestartSensors(h) ==
    /\ At(h, "resensor") /\ Return(h)
    /\ script' = IF restart[h] THEN [script EXCEPT ![h] = "tests"] ELSE script
    /\ UNCHANGED <<local, orphans, bridge, dying, pattern, alarm, frozen, world>>

-----------------------------------------------------------------------------
(***************************************************************************)
(* The bridge and its start script.                                        *)
(***************************************************************************)

ProcessEnds(p) ==
    /\ ~frozen /\ p \in dying
    /\ bridge' = bridge \ {p} /\ dying' = dying \ {p}
    /\ UNCHANGED <<pc, local, lock, orphans, script, pattern, alarm, frozen, world>>

Script(h, from, to) ==
    /\ ~frozen /\ script[h] = from
    /\ script' = [script EXCEPT ![h] = to]
    /\ UNCHANGED <<pc, local, lock, orphans, dying, pattern, alarm, frozen, guarded>>

StartFails == faults' = faults \cup {"start"}

\* The tests, the wait for the audio, the copies under set -e.
ScriptTests(h) ==
    /\ UNCHANGED bridge
    /\ \/ Script(h, "tests", "daemon") /\ UNCHANGED faults
       \/ Script(h, "tests", "none") /\ StartFails

\* A process that pgrep sees is taken for granted, a dying one too; one that is
\* launched may end at once.
Launches(p) ==
    \/ bridge' = bridge \cup {p} /\ UNCHANGED faults
    \/ p \notin bridge /\ UNCHANGED bridge /\ StartFails

ScriptDaemon(h) == Script(h, "daemon", "wait") /\ Launches("hexagonrpcd")

\* Ten looks for the daemon, whoever launched it and whoever stopped it since.
ScriptWaits(h) ==
    /\ IF "hexagonrpcd" \in bridge THEN Script(h, "wait", "proxy") ELSE Script(h, "wait", "none")
    /\ UNCHANGED <<bridge, faults>>

\* What follows waits for the accelerometer and tells the desktop.
ScriptProxy(h) == Script(h, "proxy", "none") /\ Launches("iio-sensor-proxy")

Starter(h) == ScriptTests(h) \/ ScriptDaemon(h) \/ ScriptWaits(h) \/ ScriptProxy(h)

-----------------------------------------------------------------------------
(***************************************************************************)
(* The world around the helper.                                            *)
(***************************************************************************)

\* A left-over alarm just fires.
AlarmFires ==
    /\ ~frozen /\ alarm /\ alarm' = FALSE
    /\ \A h \in Helpers : pc[h] # "enter"
    /\ UNCHANGED <<pc, local, lock, orphans, sensors, pattern, frozen, world>>

\* SIGTERM of the monitor or its 350 seconds end the helper with SIGKILL.
KillHelper(h) ==
    /\ ~frozen /\ pc[h] # "idle"
    /\ Return(h)
    /\ faults' = faults \cup {"killed"}
    /\ orphans' = IF pc[h] = "enter" THEN orphans \cup {h} ELSE orphans
    /\ UNCHANGED <<local, hw, guarded>>

OrphanFreezes(h) ==
    /\ ~frozen /\ h \in orphans
    /\ orphans' = orphans \ {h} /\ frozen' = TRUE
    /\ UNCHANGED <<pc, local, lock, sensors, pattern, alarm, world>>

\* The user plugs, plays and unlocks whenever he likes; a cable works in sleep.
Plug == plugged' = ~plugged /\ UNCHANGED <<pc, local, lock, orphans, hw, playing, secured, faults>>

Desktop ==
    /\ ~frozen
    /\ \/ playing' = ~playing /\ UNCHANGED secured
       \/ secured' = ~secured /\ UNCHANGED playing
    /\ UNCHANGED <<pc, local, lock, orphans, hw, plugged, faults>>

Helper(h) ==
    \/ Begin(h) \/ ReadPower(h) \/ ReadSession(h) \/ ReadAlarm(h) \/ TakeLock(h)
    \/ ReadSensors(h) \/ StopSensors(h) \/ SensorsStopped(h) \/ AddPattern(h) \/ SetAlarm(h)
    \/ Freeze(h) \/ RtcwakeHangs(h)
    \/ DisableAlarm(h) \/ RemovePattern(h) \/ RestartSensors(h)

Next ==
    \/ \E h \in Helpers : Helper(h) \/ Starter(h) \/ KillHelper(h) \/ OrphanFreezes(h)
    \/ \E p \in Both : ProcessEnds(p)
    \/ Wake \/ AlarmFires \/ Plug \/ Desktop

Spec == Init /\ [][Next]_vars

-----------------------------------------------------------------------------
(***************************************************************************)
(* Properties.                                                             *)
(***************************************************************************)

\* Every variable has a value of its kind.
TypeOK ==
    /\ pc \in [Helpers -> {"idle", "power", "session", "alarm", "lock", "sensors",
                           "quiet", "gone", "pattern", "rtcwake", "enter", "asleep",
                           "disable", "unpattern", "resensor"}]
    /\ restart \in [Helpers -> BOOLEAN] /\ installed \in [Helpers -> BOOLEAN]
    /\ lock \in Helpers \cup {Nobody} /\ orphans \subseteq Helpers
    /\ dying \subseteq bridge /\ bridge \subseteq Both
    /\ script \in [Helpers -> {"none", "tests", "daemon", "wait", "proxy"}]
    /\ faults \subseteq {"killed", "cleanup", "stop", "start"}
    /\ {pattern, alarm, frozen, plugged, playing, secured} \subseteq BOOLEAN

\* As long as no helper is killed, the tablet never sleeps without both ways
\* back: the Wi-Fi wake pattern and the alarm of at most five minutes (lines
\* 134-143), whatever a second helper adds, removes or disables meanwhile.
WakeNets == frozen /\ "killed" \notin faults => pattern /\ alarm

\* Even when helpers are killed at any step and leave their orphans, a helper
\* on its way into the freeze still has the wake pattern it installed.
PatternHeld ==
    \A h \in Helpers : pc[h] \in {"rtcwake", "enter", "asleep"} => pattern

Quiet == \A h \in Helpers : pc[h] = "idle"

\* The helpers undo what they did: when none runs, no wake pattern and no
\* alarm is left, whichever step before the clean-up failed.
NothingLeft == Quiet /\ faults \cap {"killed", "cleanup"} = {} => ~pattern /\ ~alarm

\* The bridge is complete and stays, or a start script is at work that has not
\* failed.
BridgeBack == \/ bridge = Both /\ dying = {}
              \/ \E h \in Helpers : script[h] # "none"

\* When no helper runs, both processes of the bridge are there or a start script
\* is still at work (lines 128-133, 158-159), although a second helper stops
\* what the script of the first one is just starting, and that script gives up;
\* except after a stop that ran out of time, or a script whose own tests or
\* launches failed.
SensorsBack == Quiet /\ faults = {} => BridgeBack

\* Claimed by t630-power-button.py 228-229 ("Sensor services restart after
\* every freeze return"): also when a step of the clean-up failed.
SensorsAlwaysBack == Quiet /\ faults \subseteq {"cleanup"} => BridgeBack
=============================================================================
