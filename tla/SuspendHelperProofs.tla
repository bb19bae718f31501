------------------------ MODULE SuspendHelperProofs ------------------------
(***************************************************************************)
(* Proofs about SuspendHelper, for any set of helpers in competition: the  *)
(* tablet never sleeps without its ways back, and what the helpers did is  *)
(* undone.                                                                 *)
(***************************************************************************)
EXTENDS SuspendHelper, TLAPS

LEMMA TypeInit == Init => TypeOK
<1> SUFFICES ASSUME Init PROVE TypeOK
  OBVIOUS
<1>1. {pattern, alarm, frozen, plugged, playing, secured} \subseteq BOOLEAN
  BY Zenon DEF Init
<1>2. QED
  BY <1>1 DEF Init, TypeOK

Places == {"idle", "power", "session", "alarm", "lock", "sensors", "quiet", "gone",
           "pattern", "rtcwake", "enter", "asleep", "disable", "unpattern", "resensor"}

\* A helper that goes somewhere keeps the types of the program counters and the lock.
LEMMA GotoType ==
    ASSUME TypeOK, NEW h \in Helpers, NEW l \in Places, Goto(h, l)
    PROVE  pc' \in [Helpers -> Places]
  BY DEF TypeOK, Goto, Places

LEMMA ReturnType ==
    ASSUME TypeOK, NEW h \in Helpers, Return(h)
    PROVE  pc' \in [Helpers -> Places] /\ lock' \in Helpers \cup {Nobody}
  BY DEF TypeOK, Return, Goto, Places

SensorTypes ==
    /\ dying \subseteq bridge /\ bridge \subseteq Both
    /\ script \in [Helpers -> {"none", "tests", "daemon", "wait", "proxy"}]

Faults == {"killed", "cleanup", "stop", "start"}

\* What a step leaves alone keeps its type.
LEMMA RestKeepsType ==
    ASSUME TypeOK, UNCHANGED <<hw, world>>
    PROVE  /\ SensorTypes' /\ faults' \subseteq Faults
           /\ {pattern, alarm, frozen, plugged, playing, secured}' \subseteq BOOLEAN
  BY DEF TypeOK, hw, sensors, world, guarded, SensorTypes, Faults

LEMMA TypeStep == TypeOK /\ [Next]_vars => TypeOK'
<1> SUFFICES ASSUME TypeOK, [Next]_vars PROVE TypeOK'
  OBVIOUS
<1> USE DEF Places, SensorTypes, Faults, sensors
<1>a. /\ pattern \in BOOLEAN /\ alarm \in BOOLEAN /\ frozen \in BOOLEAN
      /\ plugged \in BOOLEAN /\ playing \in BOOLEAN /\ secured \in BOOLEAN
  BY Zenon DEF TypeOK
<1>b. (/\ pattern' \in BOOLEAN /\ alarm' \in BOOLEAN /\ frozen' \in BOOLEAN
       /\ plugged' \in BOOLEAN /\ playing' \in BOOLEAN /\ secured' \in BOOLEAN)
      => {pattern', alarm', frozen', plugged', playing', secured'} \subseteq BOOLEAN
  BY Zenon
<1>1. CASE UNCHANGED vars
  BY <1>1 DEF vars, TypeOK
<1>2. ASSUME NEW h \in Helpers, Begin(h) PROVE TypeOK'
  BY <1>2, GotoType, RestKeepsType DEF Begin, TypeOK
<1>3. ASSUME NEW h \in Helpers, ReadPower(h) PROVE TypeOK'
  BY <1>3, GotoType, RestKeepsType DEF ReadPower, TypeOK, local
<1>4. ASSUME NEW h \in Helpers, ReadSession(h) PROVE TypeOK'
  BY <1>4, GotoType, RestKeepsType DEF ReadSession, TypeOK, local
<1>5. ASSUME NEW h \in Helpers, ReadAlarm(h) PROVE TypeOK'
  BY <1>5, GotoType, RestKeepsType DEF ReadAlarm, TypeOK, local
<1>6. ASSUME NEW h \in Helpers, TakeLock(h) PROVE TypeOK'
  BY <1>6, GotoType, RestKeepsType DEF TakeLock, TypeOK, local
<1>7. ASSUME NEW h \in Helpers, ReadSensors(h) PROVE TypeOK'
  <2>1. (bridge # {}) \in BOOLEAN
    OBVIOUS
  <2>2. restart' \in [Helpers -> BOOLEAN]
    BY <1>7, <2>1 DEF ReadSensors, TypeOK
  <2>3. pc' \in [Helpers -> Places]
    BY <1>7, GotoType DEF ReadSensors
  <2>4. QED
    BY <1>7, <2>2, <2>3, RestKeepsType DEF ReadSensors, TypeOK
<1>8. ASSUME NEW h \in Helpers, StopSensors(h) PROVE TypeOK'
  <2>1. PICK sent \in SUBSET bridge :
            /\ dying' = dying \cup sent
            /\ \/ Goto(h, "gone") /\ UNCHANGED faults
               \/ Goto(h, "disable") /\ StopFails
    BY <1>8 DEF StopSensors
  <2>2. dying' \subseteq bridge /\ faults' \subseteq Faults
    BY <2>1 DEF TypeOK, StopFails
  <2>3. pc' \in [Helpers -> Places]
    BY <2>1, GotoType
  <2>4. QED
    BY <1>8, <2>2, <2>3, <1>a, <1>b DEF StopSensors, TypeOK, local, guarded
<1>8a. ASSUME NEW h \in Helpers, SensorsStopped(h) PROVE TypeOK'
  <2>1. faults' \subseteq Faults /\ dying' = dying
    BY <1>8a DEF SensorsStopped, TypeOK, StopFails
  <2>2. pc' \in [Helpers -> Places]
    BY <1>8a, GotoType DEF SensorsStopped
  <2>3. QED
    BY <1>8a, <2>1, <2>2, <1>a, <1>b DEF SensorsStopped, TypeOK, local, guarded
<1>9. ASSUME NEW h \in Helpers, AddPattern(h) PROVE TypeOK'
  <2>1. pattern' \in BOOLEAN
    BY <1>9, <1>a, Zenon DEF AddPattern
  <2>2. installed' \in [Helpers -> BOOLEAN]
    BY <1>9 DEF AddPattern, TypeOK
  <2>3. QED
    BY <1>9, <2>1, <2>2, <1>a, <1>b, GotoType DEF AddPattern, TypeOK, world, guarded
<1>10. ASSUME NEW h \in Helpers, SetAlarm(h) PROVE TypeOK'
  <2>1. alarm' \in BOOLEAN
    BY <1>10, <1>a, Zenon DEF SetAlarm
  <2>2. QED
    BY <1>10, <2>1, <1>a, <1>b, GotoType DEF SetAlarm, TypeOK, local, world, guarded
<1>11. ASSUME NEW h \in Helpers, Freeze(h) PROVE TypeOK'
  <2>1. frozen' \in BOOLEAN
    BY <1>11, Zenon DEF Freeze
  <2>2. QED
    BY <1>11, <2>1, <1>a, <1>b, GotoType DEF Freeze, TypeOK, local, world, guarded
<1>12. ASSUME NEW h \in Helpers, RtcwakeHangs(h) PROVE TypeOK'
  BY <1>12, GotoType, RestKeepsType DEF RtcwakeHangs, TypeOK, local
<1>13. ASSUME NEW h \in Helpers, DisableAlarm(h) PROVE TypeOK'
  <2>1. alarm' \in BOOLEAN
    BY <1>13, <1>a, Zenon DEF DisableAlarm
  <2>2. faults' \subseteq Faults
    BY <1>13 DEF DisableAlarm, CleanupFails, TypeOK
  <2>3. QED
    BY <1>13, <2>1, <2>2, <1>a, <1>b, GotoType DEF DisableAlarm, TypeOK, local, guarded
<1>14. ASSUME NEW h \in Helpers, RemovePattern(h) PROVE TypeOK'
  <2>1. pattern' \in BOOLEAN
    BY <1>14, <1>a, Zenon DEF RemovePattern
  <2>2. faults' \subseteq Faults
    BY <1>14 DEF RemovePattern, CleanupFails, TypeOK
  <2>3. pc' \in [Helpers -> Places] /\ lock' \in Helpers \cup {Nobody}
    BY <1>14, GotoType, ReturnType DEF RemovePattern, TypeOK
  <2>4. QED
    BY <1>14, <2>1, <2>2, <2>3, <1>a, <1>b DEF RemovePattern, TypeOK, local, guarded
<1>15. ASSUME NEW h \in Helpers, RestartSensors(h) PROVE TypeOK'
  <2>1. script' \in [Helpers -> {"none", "tests", "daemon", "wait", "proxy"}]
    BY <1>15 DEF RestartSensors, TypeOK
  <2>2. QED
    BY <1>15, <2>1, <1>a, <1>b, ReturnType
       DEF RestartSensors, TypeOK, local, world, guarded
<1>16. ASSUME NEW h \in Helpers, KillHelper(h) PROVE TypeOK'
  <2>1. faults' \subseteq Faults /\ orphans' \subseteq Helpers
    BY <1>16 DEF KillHelper, TypeOK
  <2>2. QED
    BY <1>16, <2>1, <1>a, <1>b, ReturnType DEF KillHelper, TypeOK, local, hw, guarded
<1>17. ASSUME NEW h \in Helpers, OrphanFreezes(h) PROVE TypeOK'
  <2>1. frozen' \in BOOLEAN
    BY <1>17, Zenon DEF OrphanFreezes
  <2>2. QED
    BY <1>17, <2>1, <1>a, <1>b DEF OrphanFreezes, TypeOK, local, world, guarded
<1>18. CASE Wake
  <2>1. frozen' \in BOOLEAN /\ alarm' \in BOOLEAN
    BY <1>18, Zenon DEF Wake
  <2>2. QED
    BY <1>18, <2>1, <1>a, <1>b DEF Wake, TypeOK, local, world, guarded
<1>19. ASSUME NEW p \in Both, ProcessEnds(p) PROVE TypeOK'
  BY <1>19, <1>a, <1>b DEF ProcessEnds, TypeOK, local, world, guarded
<1>19a. ASSUME NEW h \in Helpers, Starter(h) PROVE TypeOK'
  <2>1. /\ script' \in [Helpers -> {"none", "tests", "daemon", "wait", "proxy"}]
        /\ UNCHANGED <<pc, local, lock, orphans, dying, pattern, alarm, frozen, guarded>>
    BY <1>19a DEF Starter, ScriptTests, ScriptDaemon, ScriptWaits, ScriptProxy, Script, TypeOK
  <2>2. bridge \subseteq bridge' /\ bridge' \subseteq Both /\ faults' \subseteq Faults
    BY <1>19a DEF Starter, ScriptTests, ScriptDaemon, ScriptWaits, ScriptProxy, Launches,
                  StartFails, Both, TypeOK
  <2>3. QED
    BY <2>1, <2>2, <1>a, <1>b DEF TypeOK, local, guarded
<1>20. CASE AlarmFires
  <2>1. alarm' \in BOOLEAN
    BY <1>20, Zenon DEF AlarmFires
  <2>2. QED
    BY <1>20, <2>1, <1>a, <1>b DEF AlarmFires, TypeOK, local, world, guarded
<1>21. CASE Plug
  <2>1. plugged' \in BOOLEAN
    BY <1>21, <1>a, Zenon DEF Plug
  <2>2. QED
    BY <1>21, <2>1, <1>a, <1>b DEF Plug, TypeOK, local, hw
<1>22. CASE Desktop
  <2>1. playing' \in BOOLEAN /\ secured' \in BOOLEAN
    BY <1>22, <1>a, Zenon DEF Desktop
  <2>2. QED
    BY <1>22, <2>1, <1>a, <1>b DEF Desktop, TypeOK, local, hw
<1>23. QED
  BY <1>1, <1>2, <1>3, <1>4, <1>5, <1>6, <1>7, <1>8, <1>8a, <1>9, <1>10, <1>11, <1>12, <1>13,
     <1>14, <1>15, <1>16, <1>17, <1>18, <1>19, <1>19a, <1>20, <1>21, <1>22 DEF Next, Helper

\* Every step of any number of helpers, and of the world around them, keeps the
\* variables in their types.
THEOREM TypeInvariant == Spec => []TypeOK
  BY TypeInit, TypeStep, PTL DEF Spec

-----------------------------------------------------------------------------
(***************************************************************************)
(* The four properties together are not inductive: they must say where the *)
(* helper is that will undo what is installed, and that only one helper    *)
(* can be there, the one that holds the lock.                              *)
(***************************************************************************)

\* Between taking the lock and returning.
Holding == {"sensors", "quiet", "gone", "pattern", "rtcwake", "enter", "asleep", "disable",
            "unpattern", "resensor"}

\* The helper with the lock is at one of these places.
HolderAt(places) == lock \in Helpers /\ pc[lock] \in places

Exclusive ==
    /\ \A h \in Helpers : pc[h] \in Holding <=> lock = h
    /\ \A h \in Helpers : pc[h] \in {"quiet", "gone"} => restart[h]
    /\ \A h \in Helpers : pc[h] \in {"rtcwake", "enter", "asleep"} => pattern
    /\ \A h \in Helpers : pc[h] = "asleep" => frozen

\* A killed helper leaves its rtcwake, which sleeps and wakes on its own.
Awakes ==
    "killed" \notin faults =>
        /\ orphans = {}
        /\ frozen => HolderAt({"asleep"})
        /\ HolderAt({"enter", "asleep"}) => alarm

\* Somebody will undo it.
Undone ==
    faults \cap {"killed", "cleanup"} = {} =>
        /\ pattern => /\ HolderAt({"rtcwake", "enter", "asleep", "disable", "unpattern"})
                      /\ installed[lock]
        /\ alarm => HolderAt({"enter", "asleep", "disable"})

Guarded == Exclusive /\ Awakes /\ Undone

\* Where the helpers are after one of them has moved.
LEMMA GotoPlaces ==
    ASSUME TypeOK, NEW h \in Helpers, NEW l, Goto(h, l)
    PROVE  pc'[h] = l /\ \A g \in Helpers \ {h} : pc'[g] = pc[g]
  BY DEF TypeOK, Goto

LEMMA ReturnPlaces ==
    ASSUME TypeOK, NEW h \in Helpers, Return(h)
    PROVE  /\ pc'[h] = "idle" /\ \A g \in Helpers \ {h} : pc'[g] = pc[g]
           /\ lock' = IF lock = h THEN Nobody ELSE lock
  BY DEF TypeOK, Return, Goto

LEMMA GuardedInit == Init => Guarded
  BY NobodyIsNoHelper DEF Init, Guarded, Exclusive, Awakes, Undone, HolderAt, Holding

LEMMA GuardedStep == TypeOK /\ Guarded /\ [Next]_vars => Guarded'
<1> SUFFICES ASSUME TypeOK, Guarded, [Next]_vars PROVE Guarded'
  OBVIOUS
<1> USE NobodyIsNoHelper DEF Guarded, Exclusive, Awakes, Undone, HolderAt, Holding, At,
        local, hw, world, guarded
<1>1. CASE UNCHANGED vars
  BY <1>1 DEF vars
<1>2. ASSUME NEW h \in Helpers, Begin(h) PROVE Guarded'
  BY <1>2, GotoPlaces, ReturnPlaces DEF Begin, CleanupFails
<1>3. ASSUME NEW h \in Helpers, ReadPower(h) PROVE Guarded'
  BY <1>3, GotoPlaces, ReturnPlaces DEF ReadPower, CleanupFails
<1>4. ASSUME NEW h \in Helpers, ReadSession(h) PROVE Guarded'
  BY <1>4, GotoPlaces, ReturnPlaces DEF ReadSession, CleanupFails
<1>5. ASSUME NEW h \in Helpers, ReadAlarm(h) PROVE Guarded'
  BY <1>5, GotoPlaces, ReturnPlaces DEF ReadAlarm, CleanupFails
<1>6. ASSUME NEW h \in Helpers, TakeLock(h) PROVE Guarded'
  BY <1>6, GotoPlaces, ReturnPlaces DEF TakeLock, CleanupFails
<1>7. ASSUME NEW h \in Helpers, ReadSensors(h) PROVE Guarded'
  <2>1. /\ restart'[h] = (bridge # {}) /\ \A g \in Helpers \ {h} : restart'[g] = restart[g]
        /\ pc'[h] = (IF bridge # {} THEN "quiet" ELSE "pattern")
        /\ \A g \in Helpers \ {h} : pc'[g] = pc[g]
    BY <1>7, GotoPlaces DEF ReadSensors, TypeOK
  <2>2. lock = h /\ ~frozen /\ UNCHANGED <<installed, lock, orphans, hw, world>>
    BY <1>7 DEF ReadSensors
  <2>3. Exclusive'
    BY <2>1, <2>2
  <2>4. Awakes'
    BY <2>1, <2>2
  <2>5. Undone'
    BY <1>7, <2>1, <2>2 DEF ReadSensors
  <2>6. QED
    BY <2>3, <2>4, <2>5
<1>8. ASSUME NEW h \in Helpers, StopSensors(h) PROVE Guarded'
  <2>1. /\ pc'[h] \in {"gone", "disable"} /\ \A g \in Helpers \ {h} : pc'[g] = pc[g]
        /\ faults \subseteq faults'
    BY <1>8, GotoPlaces DEF StopSensors, StopFails
  <2>2. QED
    BY <1>8, <2>1 DEF StopSensors
<1>8a. ASSUME NEW h \in Helpers, SensorsStopped(h) PROVE Guarded'
  <2>1. /\ pc'[h] \in {"pattern", "disable"} /\ \A g \in Helpers \ {h} : pc'[g] = pc[g]
        /\ faults \subseteq faults'
    BY <1>8a, GotoPlaces DEF SensorsStopped, StopFails
  <2>2. QED
    BY <1>8a, <2>1 DEF SensorsStopped
<1>9. ASSUME NEW h \in Helpers, AddPattern(h) PROVE Guarded'
  <2>1. CASE /\ pattern' = TRUE /\ Goto(h, "rtcwake")
             /\ installed' = [installed EXCEPT ![h] = TRUE]
    <3>1. installed'[h] /\ \A g \in Helpers \ {h} : installed'[g] = installed[g]
      BY <2>1 DEF TypeOK
    <3>2. QED
      BY <1>9, <2>1, <3>1, GotoPlaces DEF AddPattern
  <2>2. CASE Goto(h, "disable") /\ UNCHANGED <<pattern, installed>>
    BY <1>9, <2>2, GotoPlaces DEF AddPattern
  <2>3. QED
    BY <1>9, <2>1, <2>2, Zenon DEF AddPattern
<1>10. ASSUME NEW h \in Helpers, SetAlarm(h) PROVE Guarded'
  BY <1>10, GotoPlaces, ReturnPlaces DEF SetAlarm, CleanupFails
<1>11. ASSUME NEW h \in Helpers, Freeze(h) PROVE Guarded'
  BY <1>11, GotoPlaces, ReturnPlaces DEF Freeze, CleanupFails
<1>12. ASSUME NEW h \in Helpers, RtcwakeHangs(h) PROVE Guarded'
  BY <1>12, GotoPlaces, ReturnPlaces DEF RtcwakeHangs, CleanupFails
<1>13. ASSUME NEW h \in Helpers, DisableAlarm(h) PROVE Guarded'
  BY <1>13, GotoPlaces, ReturnPlaces DEF DisableAlarm, CleanupFails
<1>14. ASSUME NEW h \in Helpers, RemovePattern(h) PROVE Guarded'
  <2>1. CASE /\ pattern' = IF installed[h] THEN FALSE ELSE pattern
             /\ Goto(h, "resensor") /\ UNCHANGED <<lock, faults>>
    BY <1>14, <2>1, GotoPlaces DEF RemovePattern
  <2>2. CASE installed[h] /\ CleanupFails /\ Return(h) /\ UNCHANGED pattern
    BY <1>14, <2>2, ReturnPlaces DEF RemovePattern, CleanupFails
  <2>3. QED
    BY <1>14, <2>1, <2>2, Zenon DEF RemovePattern
<1>15. ASSUME NEW h \in Helpers, RestartSensors(h) PROVE Guarded'
  BY <1>15, GotoPlaces, ReturnPlaces DEF RestartSensors, CleanupFails
<1>16. ASSUME NEW h \in Helpers, KillHelper(h) PROVE Guarded'
  BY <1>16, GotoPlaces, ReturnPlaces DEF KillHelper, CleanupFails
<1>17. ASSUME NEW h \in Helpers, OrphanFreezes(h) PROVE Guarded'
  BY <1>17, GotoPlaces, ReturnPlaces DEF OrphanFreezes, CleanupFails
<1>18. CASE Wake
  BY <1>18 DEF Wake, TypeOK
<1>19. ASSUME NEW p \in Both, ProcessEnds(p) PROVE Guarded'
  BY <1>19 DEF ProcessEnds, TypeOK
<1>19a. ASSUME NEW h \in Helpers, Starter(h) PROVE Guarded'
  <2>1. /\ UNCHANGED <<pc, local, lock, orphans, dying, pattern, alarm, frozen, guarded>>
        /\ faults \subseteq faults'
    BY <1>19a DEF Starter, ScriptTests, ScriptDaemon, ScriptWaits, ScriptProxy, Script,
                  Launches, StartFails
  <2>2. QED
    BY <2>1 DEF TypeOK
<1>20. CASE AlarmFires
  BY <1>20 DEF AlarmFires, TypeOK
<1>21. CASE Plug
  BY <1>21 DEF Plug, TypeOK
<1>22. CASE Desktop
  BY <1>22 DEF Desktop, TypeOK
<1>23. QED
  BY <1>1, <1>2, <1>3, <1>4, <1>5, <1>6, <1>7, <1>8, <1>8a, <1>9, <1>10, <1>11, <1>12, <1>13, <1>14,
     <1>15, <1>16, <1>17, <1>18, <1>19, <1>19a, <1>20, <1>21, <1>22 DEF Next, Helper

-----------------------------------------------------------------------------
(***************************************************************************)
(* The bridge: a start script that finds no daemon gives up, so not every  *)
(* script at work will complete it.                                        *)
(***************************************************************************)

Completes(h) == \/ script[h] \in {"tests", "daemon"}
                \/ script[h] \in {"wait", "proxy"} /\ "hexagonrpcd" \in bridge

WillRestart == HolderAt(Holding \ {"sensors"}) /\ restart[lock]

\* Processes only die in the hands of a helper that looks after them, and an
\* incomplete bridge has somebody who will complete it.
Kept ==
    faults = {} =>
        /\ dying # {} => HolderAt({"gone"})
        /\ bridge = Both \/ WillRestart \/ \E h \in Helpers : Completes(h)

LEMMA KeptInit == Init => Kept
  BY DEF Init, Kept

\* The helpers' own steps outside the sensors.
LEMMA KeptElsewhere ==
    ASSUME TypeOK, Exclusive, Kept, UNCHANGED sensors, faults \subseteq faults',
           faults' = {} => /\ WillRestart => WillRestart'
                           /\ HolderAt({"gone"}) => HolderAt({"gone"})'
    PROVE  Kept'
  BY DEF Kept, Completes, sensors

LEMMA KeptByScript ==
    ASSUME TypeOK, Kept, NEW h \in Helpers, Starter(h)
    PROVE  Kept'
<1>1. /\ UNCHANGED <<pc, local, lock, dying>> /\ bridge \subseteq bridge' /\ bridge' \subseteq Both
      /\ faults \subseteq faults'
      /\ \A g \in Helpers \ {h} : script'[g] = script[g]
  BY DEF Starter, ScriptTests, ScriptDaemon, ScriptWaits, ScriptProxy, Script, Launches,
         StartFails, Both, TypeOK
<1>2. faults' = {} /\ Completes(h) => Completes(h)' \/ bridge' = Both
  BY DEF Starter, ScriptTests, ScriptDaemon, ScriptWaits, ScriptProxy, Script, Launches,
         StartFails, Both, TypeOK, Completes
<1>3. \A g \in Helpers \ {h} : Completes(g) => Completes(g)'
  BY <1>1 DEF Completes
<1>4. (WillRestart => WillRestart') /\ (HolderAt({"gone"}) => HolderAt({"gone"})')
  BY <1>1 DEF WillRestart, HolderAt, local
<1>5. bridge = Both => bridge' = Both
  BY <1>1
<1>6. QED
  BY <1>1, <1>2, <1>3, <1>4, <1>5 DEF Kept

LEMMA KeptStep == TypeOK /\ Exclusive /\ Kept /\ [Next]_vars => Kept'
<1> SUFFICES ASSUME TypeOK, Exclusive, Kept, [Next]_vars PROVE Kept'
  OBVIOUS
<1> USE NobodyIsNoHelper DEF Holding, local, hw, world, guarded
<1>a. ASSUME NEW h \in Helpers, UNCHANGED <<restart, sensors, faults>>, h = lock,
             pc[h] \in Holding \ {"sensors", "gone"}, lock' = lock,
             NEW l \in Holding \ {"sensors"}, Goto(h, l)
      PROVE  Kept'
  BY <1>a, GotoPlaces, KeptElsewhere DEF WillRestart, HolderAt
<1>b. ASSUME NEW h \in Helpers, UNCHANGED <<sensors, faults>>, h # lock,
             \A g \in Helpers \ {h} : pc'[g] = pc[g] /\ restart'[g] = restart[g],
             lock' = lock \/ (lock' = h /\ lock = Nobody)
      PROVE  Kept'
  BY <1>b, KeptElsewhere DEF WillRestart, HolderAt, Exclusive
<1>c. ASSUME faults' # {} PROVE Kept'
  BY <1>c DEF Kept
<1>1. CASE UNCHANGED <<pc, restart, lock, sensors, faults>>
  BY <1>1, KeptElsewhere DEF WillRestart, HolderAt
<1>2. ASSUME NEW h \in Helpers, Begin(h) \/ ReadPower(h) \/ ReadSession(h) \/ ReadAlarm(h) \/ TakeLock(h)
      PROVE  Kept'
  <2>1. /\ UNCHANGED <<sensors, faults>> /\ h # lock
        /\ lock' = lock \/ (lock' = h /\ lock = Nobody)
    BY <1>2 DEF Begin, ReadPower, ReadSession, ReadAlarm, TakeLock, At, Exclusive
  <2>2. \A g \in Helpers \ {h} : restart'[g] = restart[g]
    BY <1>2 DEF Begin, ReadPower, ReadSession, ReadAlarm, TakeLock, TypeOK
  <2>3. \A g \in Helpers \ {h} : pc'[g] = pc[g]
    BY <1>2, GotoPlaces DEF Begin, ReadPower, ReadSession, ReadAlarm, TakeLock
  <2>4. QED
    BY <2>1, <2>2, <2>3, <1>b
<1>3. ASSUME NEW h \in Helpers, ReadSensors(h) PROVE Kept'
  <2>1. lock = h /\ ~WillRestart /\ ~HolderAt({"gone"}) /\ UNCHANGED <<lock, sensors, faults>>
    BY <1>3 DEF ReadSensors, At, Exclusive, WillRestart, HolderAt
  <2>2. QED
    BY <2>1, KeptElsewhere
<1>4. ASSUME NEW h \in Helpers, StopSensors(h) PROVE Kept'
  <2>1. /\ lock = h /\ lock' = lock /\ restart[h] /\ restart' = restart
        /\ pc'[h] \in {"gone", "disable"} /\ faults \subseteq faults'
        /\ (pc'[h] = "disable" /\ faults' = {} => dying' = {})
    BY <1>4, GotoPlaces DEF StopSensors, StopFails, At, Exclusive
  <2>2. WillRestart' /\ (pc'[h] = "gone" => HolderAt({"gone"})')
    BY <2>1 DEF WillRestart, HolderAt
  <2>3. QED
    BY <2>1, <2>2 DEF Kept
<1>5. ASSUME NEW h \in Helpers, SensorsStopped(h) PROVE Kept'
  <2>1. /\ lock = h /\ lock' = lock /\ restart[h] /\ restart' = restart
        /\ pc'[h] \in {"pattern", "disable"} /\ faults \subseteq faults'
        /\ (faults' = {} => dying' = {})
    BY <1>5, GotoPlaces DEF SensorsStopped, StopFails, At, Exclusive, TypeOK
  <2>2. WillRestart'
    BY <2>1 DEF WillRestart, HolderAt
  <2>3. QED
    BY <2>1, <2>2 DEF Kept
<1>6. ASSUME NEW h \in Helpers, AddPattern(h) \/ SetAlarm(h) \/ Freeze(h) \/ RtcwakeHangs(h)
      PROVE  Kept'
  <2>1. /\ UNCHANGED <<restart, sensors, faults, lock>> /\ h = lock
        /\ pc[h] \in Holding \ {"sensors", "gone"}
        /\ \E l \in Holding \ {"sensors"} : Goto(h, l)
    BY <1>6, Zenon DEF AddPattern, SetAlarm, Freeze, RtcwakeHangs, At, Exclusive
  <2>2. QED
    BY <2>1, <1>a
<1>7. ASSUME NEW h \in Helpers, DisableAlarm(h) \/ RemovePattern(h) PROVE Kept'
  <2>1. CASE faults' = {}
    <3>1. /\ UNCHANGED <<restart, sensors, faults, lock>> /\ h = lock
          /\ pc[h] \in Holding \ {"sensors", "gone"}
          /\ \E l \in Holding \ {"sensors"} : Goto(h, l)
      BY <1>7, <2>1 DEF DisableAlarm, RemovePattern, CleanupFails, At, Exclusive
    <3>2. QED
      BY <3>1, <1>a
  <2>2. QED
    BY <2>1, <1>c
<1>8. ASSUME NEW h \in Helpers, RestartSensors(h) PROVE Kept'
  <2>1. /\ lock = h /\ pc[h] = "resensor" /\ faults' = faults
        /\ UNCHANGED <<bridge, dying>> /\ ~HolderAt({"gone"})
    BY <1>8 DEF RestartSensors, At, Exclusive, HolderAt
  <2>2. restart[h] => script'[h] = "tests"
    BY <1>8 DEF RestartSensors, TypeOK
  <2>3. restart[h] => Completes(h)'
    BY <2>2 DEF Completes
  <2>4. ~restart[h] => ~WillRestart /\ script' = script
    BY <1>8, <2>1 DEF WillRestart, RestartSensors
  <2>5. QED
    BY <2>1, <2>3, <2>4 DEF Kept, Completes
<1>9. ASSUME NEW h \in Helpers, KillHelper(h) PROVE Kept'
  BY <1>9, <1>c DEF KillHelper
<1>10. ASSUME NEW h \in Helpers, OrphanFreezes(h) PROVE Kept'
  BY <1>10, <1>1 DEF OrphanFreezes
<1>11. CASE Wake
  <2>1. UNCHANGED <<restart, lock, sensors, faults>>
    BY <1>11 DEF Wake
  <2>2. \A h \in Helpers : pc'[h] = pc[h] \/ (pc[h] = "asleep" /\ pc'[h] = "disable")
    BY <1>11 DEF Wake
  <2>3. QED
    BY <2>1, <2>2, KeptElsewhere DEF WillRestart, HolderAt
<1>12. ASSUME NEW p \in Both, ProcessEnds(p) PROVE Kept'
  <2>1. /\ p \in dying /\ UNCHANGED <<pc, restart, lock, faults>>
    BY <1>12 DEF ProcessEnds
  <2>2. faults = {} => HolderAt({"gone"})
    BY <2>1 DEF Kept
  <2>3. HolderAt({"gone"}) => WillRestart
    BY DEF HolderAt, WillRestart, Exclusive
  <2>4. QED
    BY <2>1, <2>2, <2>3 DEF Kept, WillRestart, HolderAt
<1>13. CASE AlarmFires \/ Plug \/ Desktop \/ UNCHANGED vars
  BY <1>13, <1>1 DEF AlarmFires, Plug, Desktop, vars, sensors
<1>14. QED
  BY <1>2, <1>3, <1>4, <1>5, <1>6, <1>7, <1>8, <1>9, <1>10, <1>11, <1>12, <1>13, KeptByScript
     DEF Next, Helper

LEMMA GuardedInvariant == Spec => []Guarded
  BY TypeInit, TypeStep, GuardedInit, GuardedStep, PTL DEF Spec

LEMMA KeptInvariant == Spec => []Kept
<1>1. Guarded => Exclusive
  BY DEF Guarded
<1>2. QED
  BY <1>1, TypeInvariant, GuardedInvariant, KeptInit, KeptStep, PTL DEF Spec

\* As long as no helper is killed, the tablet never sleeps without the wake
\* pattern and the alarm, however many helpers interfere.
THEOREM NeverAsleepForGood == Spec => []WakeNets
<1>1. TypeOK /\ Guarded => WakeNets
  BY DEF Guarded, Exclusive, Awakes, HolderAt, WakeNets
<1>2. QED
  BY <1>1, TypeInvariant, GuardedInvariant, PTL

\* Even with killed helpers and their orphans, a helper on its way into the
\* freeze still has its wake pattern.
THEOREM FreezerKeepsPattern == Spec => []PatternHeld
<1>1. Guarded => PatternHeld
  BY DEF Guarded, Exclusive, PatternHeld
<1>2. QED
  BY <1>1, GuardedInvariant, PTL

\* When no helper runs and none was killed or failed in its clean-up, no wake
\* pattern and no alarm is left.
THEOREM EverythingUndone == Spec => []NothingLeft
<1>1. Guarded => NothingLeft
  BY DEF Guarded, Undone, HolderAt, NothingLeft, Quiet
<1>2. QED
  BY <1>1, GuardedInvariant, PTL

\* Both processes of the sensor bridge are there, or a start script is at work,
\* when no helper runs: whatever the helpers and the scripts did to each other, as
\* long as no stop ran out of time and no script failed by itself.
THEOREM SensorsReturn == Spec => []SensorsBack
<1>1. TypeOK /\ Guarded /\ Kept => SensorsBack
  <2> SUFFICES ASSUME TypeOK, Guarded, Kept, Quiet, faults = {} PROVE BridgeBack
    BY DEF SensorsBack
  <2>1. \A places \in SUBSET Holding : ~HolderAt(places)
    BY DEF HolderAt, Holding, Quiet
  <2>2. ~HolderAt({"gone"}) /\ ~HolderAt(Holding \ {"sensors"})
    BY <2>1 DEF Holding
  <2>3. QED
    BY <2>2 DEF Kept, WillRestart, Completes, BridgeBack
<1>2. QED
  BY <1>1, TypeInvariant, GuardedInvariant, KeptInvariant, PTL
=============================================================================
