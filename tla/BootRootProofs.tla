--------------------------- MODULE BootRootProofs ---------------------------
(***************************************************************************)
(* Proofs about BootRoot, for every set of core services, with or without  *)
(* the optional helpers, and for any number of boots.                      *)
(***************************************************************************)
EXTENDS BootRoot, TLAPS

\* What sync and a power loss do to a file: only one that was not synced can be
\* emptied, and none appears or goes away.
LEMMA TornMarker ==
    ASSUME NEW m \in Marker, NEW lost
    PROVE  /\ Settled(m) \in Marker /\ Torn(m, lost) \in Marker
           /\ (Settled(m) = "absent") <=> (m = "absent")
           /\ (Torn(m, lost) = "absent") <=> (m = "absent")
           /\ m = "good" => Settled(m) = "good" /\ Torn(m, lost) = "good"
           /\ Settled(m) # "dirty" /\ Torn(m, lost) # "dirty"
  BY DEF Settled, Torn, Marker

\* What they do to a namespace: they keep its type and which selector files exist.
LEMMA SyncedType ==
    ASSUME NEW f \in Namespace
    PROVE  /\ Synced(f) \in Namespace
           /\ (Synced(f).selector = "absent") <=> (f.selector = "absent")
  BY TornMarker DEF Synced, Namespace, BootEntry

LEMMA CrashedType ==
    ASSUME NEW f \in Namespace, NEW lost, NEW torn
    PROVE  /\ Crashed(f, lost, torn) \in Namespace
           /\ (Crashed(f, lost, torn).selector = "absent") <=> (f.selector = "absent")
<1>1. /\ Torn(f.selector, lost) \in Marker /\ Torn(f.consumed, lost) \in Marker
      /\ Torn(f.last.text, torn) \in Marker /\ Torn(f.previous.text, torn) \in Marker
      /\ (Torn(f.selector, lost) = "absent") <=> (f.selector = "absent")
  BY TornMarker DEF Namespace, BootEntry
<1> HIDE DEF Torn
<1>2. QED
  BY <1>1 DEF Crashed, Namespace, BootEntry

\* The changes the scripts make to a namespace keep its type.
LEMMA MarkerUpdate ==
    ASSUME NEW f \in Namespace, NEW m \in Marker
    PROVE  [f EXCEPT !.selector = m] \in Namespace
  BY DEF Namespace

LEMMA MarkerMoves ==
    ASSUME NEW f \in Namespace
    PROVE  /\ [f EXCEPT !.consumed = f.selector, !.selector = "absent"] \in Namespace
           /\ [f EXCEPT !.selector = f.consumed, !.consumed = "absent"] \in Namespace
  BY DEF Namespace, Marker

LEMMA BootUpdates ==
    ASSUME NEW f \in Namespace
    PROVE  /\ [f EXCEPT !.bootTemp = FALSE] \in Namespace
           /\ [f EXCEPT !.bootTemp = TRUE] \in Namespace
           /\ [f EXCEPT !.previous = f.last, !.last = NoBootEntry] \in Namespace
  <1>1. NoBootEntry \in BootEntry
    BY DEF NoBootEntry, BootEntry, Marker
  <1>2. QED
    BY <1>1 DEF Namespace

LEMMA StageUpdate ==
    ASSUME NEW f \in Namespace, NEW e \in BootEntry
    PROVE  [f EXCEPT !.bootTemp = FALSE, !.last = e] \in Namespace
  BY DEF Namespace

LEMMA ActionFlag ==
    ASSUME NEW f \in Namespace
    PROVE  [f EXCEPT !.actionTemp = TRUE] \in Namespace
  BY DEF Namespace

LEMMA ActionUpdate ==
    ASSUME NEW f \in Namespace, NEW a \in ActionEntry
    PROVE  [f EXCEPT !.actionTemp = FALSE, !.action = a] \in Namespace
  BY DEF Namespace

LEMMA OwnerUpdate ==
    ASSUME NEW f \in Namespace
    PROVE  [f EXCEPT !.owned = @ \cup {Cand}] \in Namespace
  BY DEF Namespace, Roots

\* A tablet that went down is in a state of the right types.
LEMMA DownType ==
    ASSUME NEW f \in Namespace, TypeOK, Down(f)
    PROVE  TypeOK'
  <1>1. /\ up' \in BOOLEAN /\ charger' \in BOOLEAN /\ mounted' \in BOOLEAN
        /\ mounts' \in BOOLEAN /\ stopping' \in BOOLEAN
    BY Zenon DEF Down
  <1>2. svc' \in [Services -> {"off", "check", "enter", "wait", "done"}]
    BY DEF Down
  <1>3. QED
    BY <1>1, <1>2 DEF Down, TypeOK, Roots

LEMMA TypeInit == Init => TypeOK
<1>1. ASSUME NEW m \in Marker PROVE Provisioned(m) \in Namespace
  BY DEF Provisioned, Namespace, BootEntry, ActionEntry, NoBootEntry,
         NoActionEntry, Roots, Marker
<1> SUFFICES ASSUME Init PROVE TypeOK
  OBVIOUS
<1>2. disk \in Namespace
  BY <1>1 DEF Init, Marker
<1>3. /\ up \in BOOLEAN /\ charger \in BOOLEAN /\ mounted \in BOOLEAN
      /\ mounts \in BOOLEAN /\ stopping \in BOOLEAN
  BY Zenon DEF Init
<1>4. QED
  BY <1>2, <1>3 DEF Init, TypeOK, Roots

LEMMA TypeStep == TypeOK /\ [Next]_vars => TypeOK'
<1> SUFFICES ASSUME TypeOK, [Next]_vars PROVE TypeOK'
  OBVIOUS
<1> USE DEF TypeOK, store, power, startup, live, stop
<1>0. CASE UNCHANGED vars
  BY <1>0 DEF vars
<1>1. CASE Boot
  <2>1. up' \in BOOLEAN /\ charger' \in BOOLEAN
    BY <1>1, Zenon DEF Boot
  <2>2. QED
    BY <1>1, <2>1 DEF Boot
<1>2. CASE ChargerReboot
  BY <1>2, DownType DEF ChargerReboot
<1>3. CASE PowerLoss
  BY <1>3, DownType, CrashedType DEF PowerLoss
<1>4. CASE Commit
  BY <1>4 DEF Commit
<1>5. CASE StayOff
  BY <1>5 DEF StayOff, vars
<1>6. CASE StartFails
  <2>1. mounts' \in BOOLEAN
    BY <1>6, Zenon DEF StartFails
  <2>2. procs' \subseteq Procs
    BY <1>6 DEF StartFails, Procs
  <2>3. QED
    BY <1>6, <2>1, <2>2 DEF StartFails
<1>7. CASE StartMount
  <2>1. mounted' \in BOOLEAN
    BY <1>7, Zenon DEF StartMount
  <2>2. QED
    BY <1>7, <2>1 DEF StartMount, At, Goto
<1>8. CASE StartClean
  <2>1. fs' \in Namespace
    BY <1>8, BootUpdates DEF StartClean
  <2>2. QED
    BY <1>8, <2>1 DEF StartClean, At, Goto, Record
<1>9. CASE StartRotate
  <2>1. fs' \in Namespace
    BY <1>9, BootUpdates DEF StartRotate
  <2>2. QED
    BY <1>9, <2>1 DEF StartRotate, At, Goto, Record
<1>10. CASE StageWrite
  <2>1. fs' \in Namespace
    BY <1>10, BootUpdates DEF StageWrite
  <2>2. QED
    BY <1>10, <2>1 DEF StageWrite
<1>11. CASE StageRename
  <2>1. [boot |-> boot, text |-> "dirty"] \in BootEntry
    BY DEF BootEntry, Marker
  <2>2. fs' \in Namespace
    BY <1>11, <2>1, StageUpdate DEF StageRename
  <2>3. QED
    BY <1>11, <2>2 DEF StageRename
<1>12. CASE StageSync
  BY <1>12, SyncedType DEF StageSync, Sync
<1>13. CASE StartNoSelector
  BY <1>13 DEF StartNoSelector, At, Goto, Record
<1>14. CASE StartBadSelector
  BY <1>14 DEF StartBadSelector, At, Goto, Record
<1>15. CASE StartConsume
  <2>1. fs' \in Namespace
    BY <1>15, MarkerMoves DEF StartConsume
  <2>2. QED
    BY <1>15, <2>1 DEF StartConsume, At, Goto, Record
<1>16. CASE StartConsumeSync
  BY <1>16, SyncedType DEF StartConsumeSync, At, Goto, Record, Sync, Roots
<1>17. CASE StartPublish
  BY <1>17 DEF StartPublish, At, Goto, Record
<1>18. CASE StartMounts
  <2>1. mounts' \in BOOLEAN
    BY <1>18, Zenon DEF StartMounts
  <2>2. QED
    BY <1>18, <2>1 DEF StartMounts, At, Goto, Record
<1>19. CASE StartUdev
  BY <1>19 DEF StartUdev, At, Goto, Record, Procs
<1>20. CASE StartServices
  BY <1>20 DEF StartServices, At, Goto, Record
<1>21. CASE StartWeston
  <2>1. svc' \in [Services -> {"off", "check", "enter", "wait", "done"}]
    BY <1>21 DEF StartWeston
  <2>2. QED
    BY <1>21, <2>1 DEF StartWeston, At, Goto, Record
<1>22. CASE StartTerminal
  BY <1>22 DEF StartTerminal, At, Goto, Record, Procs
<1>23. ASSUME NEW s \in Services, ServiceCheck(s) PROVE TypeOK'
  BY <1>23 DEF ServiceCheck, Procs
<1>24. ASSUME NEW s \in Services, ServiceEnter(s) PROVE TypeOK'
  BY <1>24 DEF ServiceEnter, Procs
<1>25. ASSUME NEW s \in Services, ServiceEnded(s) PROVE TypeOK'
  BY <1>25 DEF ServiceEnded, Procs
<1>26. CASE PollEnter
  BY <1>26 DEF PollEnter, Procs
<1>27. CASE PollEnded
  BY <1>27 DEF PollEnded, Procs
<1>28. CASE AppStart
  BY <1>28 DEF AppStart, Procs
<1>29. CASE ContainerStart
  BY <1>29 DEF ContainerStart, Procs
<1>30. CASE ContainerFreeze
  BY <1>30 DEF ContainerFreeze, Procs
<1>31. CASE ContainerThaw
  BY <1>31 DEF ContainerThaw, Procs
<1>32. CASE CoordinatorExit
  BY <1>32 DEF CoordinatorExit, Procs
<1>33. ASSUME NEW p \in Procs, ProcExit(p) PROVE TypeOK'
  BY <1>33 DEF ProcExit
<1>34. CASE Personalize
  <2>1. fs' \in Namespace
    BY <1>34, OwnerUpdate DEF Personalize
  <2>2. QED
    BY <1>34, <2>1 DEF Personalize
<1>35. CASE Arm
  <2>1. fs' \in Namespace
    BY <1>35, MarkerUpdate DEF Arm, Marker
  <2>2. QED
    BY <1>35, <2>1 DEF Arm, Procs
<1>36. CASE ArmSync
  BY <1>36, SyncedType DEF ArmSync, Sync
<1>37. CASE StopRequest
  <2>1. stopping' \in BOOLEAN
    BY <1>37, Zenon DEF StopRequest
  <2>2. QED
    BY <1>37, <2>1 DEF StopRequest, HaltAt
<1>38. CASE StopGate
  BY <1>38 DEF StopGate, Halting, HaltAt, Roots
<1>39. CASE StopRecordStarting
  <2>1. CASE ActionWrite("startingWrite", "startingRename")
    <3>1. fs' \in Namespace
      BY <2>1, ActionFlag DEF ActionWrite
    <3>2. QED
      BY <2>1, <3>1 DEF ActionWrite, Halting, HaltAt
  <2>2. CASE ActionRename("startingRename", "starting", "startingSync")
    <3>1. [boot |-> boot, root |-> stopRoot, stage |-> "starting"] \in ActionEntry
      BY DEF ActionEntry
    <3>2. fs' \in Namespace
      BY <2>2, <3>1, ActionUpdate DEF ActionRename
    <3>3. QED
      BY <2>2, <3>2 DEF ActionRename, Halting, HaltAt
  <2>3. CASE ActionSync("startingSync", "owner")
    <3>1. fs' \in Namespace /\ disk' \in Namespace
      BY <2>3, SyncedType DEF ActionSync, Sync
    <3>2. QED
      BY <2>3, <3>1 DEF ActionSync, Halting, HaltAt
  <2>4. QED
    BY <1>39, <2>1, <2>2, <2>3 DEF StopRecordStarting
<1>40. CASE StopOwner
  BY <1>40 DEF StopOwner, Halting, HaltAt
<1>41. CASE StopContainer
  BY <1>41 DEF StopContainer, Halting, HaltAt
<1>42. CASE StopLxcStop
  BY <1>42 DEF StopLxcStop, Halting, HaltAt
<1>43. CASE StopContainerTest
  BY <1>43 DEF StopContainerTest, Halting, HaltAt
<1>44. CASE StopSweep
  BY <1>44, SyncedType DEF StopSweep, Halting, HaltAt, Sync
<1>45. CASE StopSweepRefuse
  BY <1>45 DEF StopSweepRefuse, Halting, HaltAt
<1>46. CASE StopNested
  <2>1. mounts' \in BOOLEAN
    BY <1>46, Zenon DEF StopNested
  <2>2. QED
    BY <1>46, <2>1 DEF StopNested, Halting, HaltAt
<1>47. CASE StopNestedRefuse
  BY <1>47 DEF StopNestedRefuse, Halting, HaltAt
<1>48. CASE StopRearm
  <2>1. fs' \in Namespace
    BY <1>48, MarkerMoves DEF StopRearm
  <2>2. QED
    BY <1>48, <2>1 DEF StopRearm, Halting, HaltAt
<1>49. CASE StopRearmRefuse
  BY <1>49 DEF StopRearmRefuse, Halting, HaltAt
<1>50. CASE StopRearmSync
  BY <1>50, SyncedType DEF StopRearmSync, Halting, HaltAt, Sync
<1>51. CASE StopRecordReady
  <2>1. CASE ActionWrite("readyWrite", "readyRename")
    <3>1. fs' \in Namespace
      BY <2>1, ActionFlag DEF ActionWrite
    <3>2. QED
      BY <2>1, <3>1 DEF ActionWrite, Halting, HaltAt
  <2>2. CASE ActionRename("readyRename", "ready-to-unmount", "readySync")
    <3>1. [boot |-> boot, root |-> stopRoot, stage |-> "ready-to-unmount"] \in ActionEntry
      BY DEF ActionEntry
    <3>2. fs' \in Namespace
      BY <2>2, <3>1, ActionUpdate DEF ActionRename
    <3>3. QED
      BY <2>2, <3>2 DEF ActionRename, Halting, HaltAt
  <2>3. CASE ActionSync("readySync", "unmount")
    <3>1. fs' \in Namespace /\ disk' \in Namespace
      BY <2>3, SyncedType DEF ActionSync, Sync
    <3>2. QED
      BY <2>3, <3>1 DEF ActionSync, Halting, HaltAt
  <2>4. QED
    BY <1>51, <2>1, <2>2, <2>3 DEF StopRecordReady
<1>52. CASE StopUnmount
  <2>1. mounted' \in BOOLEAN
    BY <1>52, Zenon DEF StopUnmount
  <2>2. QED
    BY <1>52, <2>1, SyncedType DEF StopUnmount, Sync, Halting, HaltAt
<1>53. CASE StopUnmountRefuse
  BY <1>53 DEF StopUnmountRefuse, Halting, HaltAt
<1>54. CASE StopAct
  BY <1>54, DownType DEF StopAct, Halting, HaltAt
<1>c. CASE StopCut
  BY <1>c DEF StopCut, HaltAt
<1>55. QED
  BY <1>c, <1>0, <1>1, <1>2, <1>3, <1>4, <1>5, <1>6, <1>7, <1>8, <1>9, <1>10, <1>11, <1>12, <1>13, <1>14, <1>15, <1>16, <1>17, <1>18, <1>19, <1>20, <1>21, <1>22, <1>23, <1>24, <1>25, <1>26, <1>27, <1>28, <1>29, <1>30, <1>31, <1>32, <1>33, <1>34, <1>35, <1>36, <1>37, <1>38, <1>39, <1>40, <1>41, <1>42, <1>43, <1>44, <1>45, <1>46, <1>47, <1>48, <1>49, <1>50, <1>51, <1>52, <1>53, <1>54
     DEF Next, StartStep, RuntimeStep, StopStep

\* Every behaviour of the scripts keeps the variables in their types.
THEOREM TypeInvariant == Spec => []TypeOK
  BY TypeInit, TypeStep, PTL DEF Spec

-----------------------------------------------------------------------------
(***************************************************************************)
(* How the selector, the published root and the stop helper belong         *)
(* together: the strengthening that makes CandidateFallsBack inductive.    *)
(***************************************************************************)
NoSelector(f) == f.selector = "absent"

Discipline ==
    \* The published root is the one start-ubuntu took, and is not published
    \* before the selector was looked at.
    /\ selected # NoRoot => selected = root
    /\ ~up \/ charger => startPc = "off"
    /\ charger => up
    /\ startPc \in {"off", "probe", "clean", "rotate", "select", "consumed", "publish"}
          => selected = NoRoot
    \* Kernel and storage disagree on the selector only while a consumption
    \* waits for its sync or was cut off before it, while the operator arms the clean root from the
    \* normal one, or while a stop helper rearms it.
    /\ startPc = "consumed" => NoSelector(fs)
    /\ NoSelector(fs) /\ ~NoSelector(disk)
          => startPc \in {"consumed", "failed"} /\ selected = NoRoot
    /\ NoSelector(disk) /\ ~NoSelector(fs)
          => selected = Host \/ (stopping /\ selected = Cand)
    \* The stop helper works on the published root, under the stop marker.
    /\ stopRoot = Cand => selected = Cand
    /\ stopPc \notin {"idle", "gate", "cut"} => stopRoot \in Roots
    /\ stopPc = "rearm" => stopRoot = Cand
    /\ stopPc # "idle" => stopping
    \* The clean root is entered, and runs until a stop is asked for, without
    \* a selector.
    /\ root = Cand /\ (~stopping \/ selected = NoRoot)
          => NoSelector(fs) /\ NoSelector(disk)

\* Which namespaces have a selector after the changes that do not name it.
LEMMA SelectorKept ==
    ASSUME NEW f \in Namespace
    PROVE  /\ NoSelector(Synced(f)) <=> NoSelector(f)
           /\ \A lost, torn : NoSelector(Crashed(f, lost, torn)) <=> NoSelector(f)
  BY SyncedType, CrashedType DEF NoSelector

LEMMA OtherFieldsKeepSelector ==
    /\ StartClean \/ StartRotate \/ StageWrite \/ StageRename \/ Personalize
       \/ (\E pc, then : ActionWrite(pc, then))
       \/ (\E pc, name, then : ActionRename(pc, name, then))
    /\ fs \in Namespace
    => NoSelector(fs') <=> NoSelector(fs)
  BY DEF StartClean, StartRotate, StageWrite, StageRename, Personalize, ActionWrite,
         ActionRename, Namespace, NoSelector

LEMMA SyncKeepsSelector ==
    ASSUME Sync, fs \in Namespace
    PROVE  /\ NoSelector(fs') <=> NoSelector(fs)
           /\ NoSelector(disk') <=> NoSelector(fs)
  BY SelectorKept DEF Sync

LEMMA DisciplineInit == Init => Discipline
  BY RootsDiffer DEF Init, Discipline, NoSelector

LEMMA DisciplineStep ==
    ASSUME TypeOK, Discipline, [Next]_vars
    PROVE  Discipline'
<1> USE RootsDiffer DEF Discipline, Roots, store, power, startup, live, stop
<1>a. fs \in Namespace /\ disk \in Namespace /\ root \in Roots
      /\ selected \in Roots \cup {NoRoot} /\ stopRoot \in Roots \cup {NoRoot}
  BY DEF TypeOK
<1>1. CASE UNCHANGED vars
  BY <1>1, <1>a DEF vars, NoSelector
<1>b. CASE Boot
  <2>1. startPc' \in {"off", "probe"} /\ up'
    BY <1>b DEF Boot
  <2>2. QED
    BY <1>b, <1>a, <2>1 DEF Boot, NoSelector
<1>2. CASE ChargerReboot
  BY <1>2, <1>a DEF ChargerReboot, Down
<1>3. CASE PowerLoss
  BY <1>3, <1>a, SelectorKept DEF PowerLoss, Down
<1>4. CASE Commit
  BY <1>4, <1>a DEF Commit
<1>5. CASE StayOff
  BY <1>5, <1>a DEF StayOff, vars, NoSelector
<1>6. CASE StartFails
  BY <1>6, <1>a DEF StartFails, NoSelector
<1>7. CASE StartMount
  BY <1>7, <1>a DEF StartMount, At, Goto, Record, NoSelector
<1>8. CASE StartNoSelector
  BY <1>8, <1>a DEF StartNoSelector, At, Goto, Record, NoSelector
<1>9. CASE StartBadSelector
  BY <1>9, <1>a DEF StartBadSelector, At, Goto, Record, NoSelector
<1>10. CASE StartPublish
  BY <1>10, <1>a DEF StartPublish, At, Goto, Record, NoSelector
<1>11. CASE StartMounts
  BY <1>11, <1>a DEF StartMounts, At, Goto, Record, NoSelector
<1>12. CASE StartUdev
  BY <1>12, <1>a DEF StartUdev, At, Goto, Record, NoSelector
<1>13. CASE StartServices
  BY <1>13, <1>a DEF StartServices, At, Goto, Record, NoSelector
<1>14. CASE StartWeston
  BY <1>14, <1>a DEF StartWeston, At, Goto, Record, NoSelector
<1>15. CASE StartTerminal
  BY <1>15, <1>a DEF StartTerminal, At, Goto, Record, NoSelector
<1>16. CASE StartClean
  BY <1>16, <1>a, OtherFieldsKeepSelector DEF StartClean, At, Goto, Record, NoSelector
<1>17. CASE StartRotate
  BY <1>17, <1>a, OtherFieldsKeepSelector DEF StartRotate, At, Goto, Record, NoSelector
<1>18. CASE StageWrite
  BY <1>18, <1>a, OtherFieldsKeepSelector DEF StageWrite, At, Goto, Record, NoSelector
<1>19. CASE StageRename
  BY <1>19, <1>a, OtherFieldsKeepSelector DEF StageRename, At, Goto, Record, NoSelector
<1>20. CASE StageSync
  BY <1>20, <1>a, SyncKeepsSelector DEF StageSync
<1>21. CASE StartConsume
  BY <1>21, <1>a DEF StartConsume, At, Goto, Namespace, NoSelector
<1>22. CASE StartConsumeSync
  BY <1>22, <1>a, SyncKeepsSelector DEF StartConsumeSync, At, Goto, Record
<1>23. ASSUME NEW s \in Services, ServiceCheck(s) PROVE Discipline'
  BY <1>23, <1>a DEF ServiceCheck, NoSelector
<1>24. ASSUME NEW s \in Services, ServiceEnter(s) PROVE Discipline'
  BY <1>24, <1>a DEF ServiceEnter, NoSelector
<1>25. ASSUME NEW s \in Services, ServiceEnded(s) PROVE Discipline'
  BY <1>25, <1>a DEF ServiceEnded, NoSelector
<1>26. CASE PollEnter
  BY <1>26, <1>a DEF PollEnter, NoSelector
<1>27. CASE PollEnded
  BY <1>27, <1>a DEF PollEnded, NoSelector
<1>28. CASE AppStart
  BY <1>28, <1>a DEF AppStart, NoSelector
<1>29. CASE ContainerStart
  BY <1>29, <1>a DEF ContainerStart, NoSelector
<1>30. CASE ContainerFreeze
  BY <1>30, <1>a DEF ContainerFreeze, NoSelector
<1>31. CASE ContainerThaw
  BY <1>31, <1>a DEF ContainerThaw, NoSelector
<1>32. CASE CoordinatorExit
  BY <1>32, <1>a DEF CoordinatorExit, NoSelector
<1>33. ASSUME NEW p \in Procs, ProcExit(p) PROVE Discipline'
  BY <1>33, <1>a DEF ProcExit, NoSelector
<1>34. CASE Personalize
  BY <1>34, <1>a, OtherFieldsKeepSelector DEF Personalize, NoSelector
<1>35. CASE Arm
  BY <1>35, <1>a DEF Arm, NoSelector
<1>36. CASE ArmSync
  BY <1>36, <1>a, SyncKeepsSelector DEF ArmSync
<1>37. CASE StopRequest
  BY <1>37, <1>a DEF StopRequest, Halting, HaltAt, NoSelector
<1>38. CASE StopGate
  BY <1>38, <1>a DEF StopGate, Halting, HaltAt, NoSelector
<1>39. CASE StopOwner
  BY <1>39, <1>a DEF StopOwner, Halting, HaltAt, NoSelector
<1>40. CASE StopContainer
  BY <1>40, <1>a DEF StopContainer, Halting, HaltAt, NoSelector
<1>41. CASE StopLxcStop
  BY <1>41, <1>a DEF StopLxcStop, Halting, HaltAt, NoSelector
<1>42. CASE StopContainerTest
  BY <1>42, <1>a DEF StopContainerTest, Halting, HaltAt, NoSelector
<1>43. CASE StopSweepRefuse
  BY <1>43, <1>a DEF StopSweepRefuse, Halting, HaltAt, NoSelector
<1>44. CASE StopNested
  BY <1>44, <1>a DEF StopNested, Halting, HaltAt, NoSelector
<1>45. CASE StopNestedRefuse
  BY <1>45, <1>a DEF StopNestedRefuse, Halting, HaltAt, NoSelector
<1>46. CASE StopRearmRefuse
  BY <1>46, <1>a DEF StopRearmRefuse, Halting, HaltAt, NoSelector
<1>47. CASE StopUnmountRefuse
  BY <1>47, <1>a DEF StopUnmountRefuse, Halting, HaltAt, NoSelector
<1>48. CASE StopSweep
  BY <1>48, <1>a, SyncKeepsSelector DEF StopSweep, Halting, HaltAt
<1>49. CASE StopRearmSync
  BY <1>49, <1>a, SyncKeepsSelector DEF StopRearmSync, Halting, HaltAt
<1>50. CASE StopUnmount
  BY <1>50, <1>a, SyncKeepsSelector DEF StopUnmount, Halting, HaltAt
<1>c. ASSUME NEW pc \in {"startingWrite", "readyWrite"},
             NEW then \in {"startingRename", "readyRename"}, ActionWrite(pc, then)
      PROVE  Discipline'
  <2>1. NoSelector(fs') <=> NoSelector(fs)
    BY <1>c, <1>a, OtherFieldsKeepSelector
  <2>2. QED
    BY <1>c, <1>a, <2>1 DEF ActionWrite, Halting, HaltAt, NoSelector
<1>d. ASSUME NEW pc \in {"startingRename", "readyRename"}, NEW name,
             NEW then \in {"startingSync", "readySync"}, ActionRename(pc, name, then)
      PROVE  Discipline'
  <2>1. NoSelector(fs') <=> NoSelector(fs)
    BY <1>d, <1>a, OtherFieldsKeepSelector
  <2>2. QED
    BY <1>d, <1>a, <2>1 DEF ActionRename, Halting, HaltAt, NoSelector
<1>e. ASSUME NEW pc \in {"startingSync", "readySync"},
             NEW then \in {"owner", "unmount"}, ActionSync(pc, then)
      PROVE  Discipline'
  BY <1>e, <1>a, SyncKeepsSelector DEF ActionSync, Halting, HaltAt
<1>51. CASE StopRecordStarting
  BY <1>51, <1>c, <1>d, <1>e DEF StopRecordStarting
<1>52. CASE StopRecordReady
  BY <1>52, <1>c, <1>d, <1>e DEF StopRecordReady
<1>53. CASE StopRearm
  BY <1>53, <1>a DEF StopRearm, Halting, HaltAt, Namespace, NoSelector
<1>54. CASE StopAct
  BY <1>54, <1>a DEF StopAct, Down
<1>f. CASE StopCut
  BY <1>f, <1>a DEF StopCut, HaltAt, NoSelector
<1>55. QED
  BY <1>b, <1>f, <1>1, <1>2, <1>3, <1>4, <1>5, <1>6, <1>7, <1>8, <1>9, <1>10, <1>11, <1>12, <1>13, <1>14, <1>15, <1>16, <1>17, <1>18, <1>19, <1>20, <1>21, <1>22, <1>23, <1>24, <1>25, <1>26, <1>27, <1>28, <1>29, <1>30, <1>31, <1>32, <1>33, <1>34, <1>35, <1>36, <1>37, <1>38, <1>39, <1>40, <1>41, <1>42, <1>43, <1>44, <1>45, <1>46, <1>47, <1>48, <1>49, <1>50, <1>51, <1>52, <1>53, <1>54
     DEF Next, StartStep, RuntimeStep, StopStep

\* The scripts keep the discipline: from the consumption of the selector on, none exists
\* until the stop helper of the clean root puts one back.
THEOREM DisciplineInvariant == Spec => [](TypeOK /\ Discipline)
  BY TypeInit, TypeStep, DisciplineInit, DisciplineStep, PTL DEF Spec

\* A power loss in the clean root falls back to the normal root, for any number
\* of boots and any interleaving of the scripts.
THEOREM FallBack == Spec => []CandidateFallsBack
<1>1. Discipline => CandidateFallsBack
  BY DEF Discipline, CandidateFallsBack, NoSelector
<1>2. QED
  BY <1>1, DisciplineInvariant, PTL

-----------------------------------------------------------------------------
(***************************************************************************)
(* The scripts implement the promise of OneShotRoot.                       *)
(***************************************************************************)
Kept == UNCHANGED <<disk.selector # "absent", selected, stopping, charger>>

LEMMA PromiseInit == Init => Promise!Init
  BY DEF Init, Promise!Init

\* A step of the scripts is a step of the promise or changes nothing of it.
LEMMA PromiseStep ==
    ASSUME TypeOK, Discipline, [Next]_vars
    PROVE  [Promise!Next]_(Promise!vars)
<1> USE RootsDiffer DEF Roots, store, power, startup, live, stop
<1>a. fs \in Namespace /\ disk \in Namespace /\ root \in Roots
      /\ selected \in Roots \cup {NoRoot} /\ stopRoot \in Roots \cup {NoRoot}
  BY DEF TypeOK
<1>b. ASSUME Kept PROVE [Promise!Next]_(Promise!vars)
  BY <1>b DEF Kept, Promise!vars
\* Storage takes over what the kernel sees, by a commit or a sync.
<1>c. ASSUME NoSelector(disk') <=> NoSelector(fs),
             selected' = selected, stopping' = stopping, charger' = charger
      PROVE  [Promise!Next]_(Promise!vars)
  <2>1. CASE NoSelector(disk') <=> NoSelector(disk)
    BY <2>1, <1>c DEF NoSelector, Promise!vars
  <2>2. CASE NoSelector(disk') /\ ~NoSelector(disk)
    <3>1. selected = NoRoot /\ ~charger
      BY <2>2, <1>c DEF Discipline
    <3>2. Promise!Take
      BY <3>1, <2>2, <1>c DEF Promise!Take, NoSelector
    <3>3. QED
      BY <3>2 DEF Promise!Next
  <2>3. CASE ~NoSelector(disk') /\ NoSelector(disk)
    <3>1. selected = Host \/ (stopping /\ selected = Cand)
      BY <2>3, <1>c DEF Discipline
    <3>2. Promise!Arm \/ Promise!Rearm
      BY <3>1, <2>3, <1>c DEF Promise!Arm, Promise!Rearm, NoSelector
    <3>3. QED
      BY <3>2 DEF Promise!Next
  <2>4. QED
    BY <2>1, <2>2, <2>3
\* The tablet goes down, whatever is torn on storage.
<1>d. ASSUME NEW f \in Namespace, Down(f), NoSelector(f) <=> NoSelector(disk)
      PROVE  [Promise!Next]_(Promise!vars)
  <2>1. Promise!Down
    BY <1>d DEF Down, Promise!Down, NoSelector
  <2>2. QED
    BY <2>1 DEF Promise!Next
<1>1. CASE ChargerReboot
  BY <1>1, <1>a, <1>d DEF ChargerReboot
<1>2. CASE PowerLoss
  BY <1>2, <1>a, <1>d, SelectorKept, CrashedType DEF PowerLoss
<1>3. CASE Commit
  BY <1>3, <1>a, <1>c DEF Commit
<1>4. CASE StopAct
  BY <1>4, <1>a, <1>d DEF StopAct
<1>5. CASE StageSync
  BY <1>5, <1>a, <1>c, SyncKeepsSelector DEF StageSync
<1>6. CASE ArmSync
  BY <1>6, <1>a, <1>c, SyncKeepsSelector DEF ArmSync
<1>7. CASE StartConsumeSync
  BY <1>7, <1>a, <1>c, SyncKeepsSelector DEF StartConsumeSync
<1>8. CASE StopSweep
  BY <1>8, <1>a, <1>c, SyncKeepsSelector DEF StopSweep
<1>9. CASE StopRearmSync
  BY <1>9, <1>a, <1>c, SyncKeepsSelector DEF StopRearmSync
<1>10. CASE StopUnmount
  BY <1>10, <1>a, <1>c, SyncKeepsSelector DEF StopUnmount
<1>11. CASE StopRecordStarting
  BY <1>11, <1>a, <1>b, <1>c, SyncKeepsSelector
     DEF StopRecordStarting, ActionWrite, ActionRename, ActionSync, Kept
<1>12. CASE StopRecordReady
  BY <1>12, <1>a, <1>b, <1>c, SyncKeepsSelector
     DEF StopRecordReady, ActionWrite, ActionRename, ActionSync, Kept
<1>p. CASE StartPublish
  <2>1. /\ selected = NoRoot /\ selected' = root
        /\ UNCHANGED <<disk, stopping, charger>> /\ ~charger
    BY <1>p, <1>a DEF StartPublish, At, Discipline
  <2>2. root = Cand => NoSelector(disk)
    BY <2>1 DEF Discipline
  <2>3. Promise!Enter
    BY <2>1, <2>2, <1>a DEF Promise!Enter, NoSelector
  <2>4. QED
    BY <2>3 DEF Promise!Next
<1>q. CASE StopRequest
  <2>1. Promise!Close
    BY <1>q DEF StopRequest, Promise!Close
  <2>2. QED
    BY <2>1 DEF Promise!Next
<1>13. CASE UNCHANGED vars
  BY <1>13, <1>a, <1>b DEF vars, Kept
<1>14. CASE StayOff
  BY <1>14, <1>a, <1>b DEF StayOff, vars, Kept
<1>15. CASE Boot
  <2>1. UNCHANGED <<disk, selected, stopping>> /\ selected = NoRoot
    BY <1>15 DEF Boot, Discipline
  <2>2. CASE charger'
    <3>1. Promise!Charge
      BY <2>1, <2>2 DEF Promise!Charge
    <3>2. QED
      BY <3>1 DEF Promise!Next
  <2>3. CASE ~charger'
    <3>1. ~charger
      BY <1>15 DEF Boot, Discipline
    <3>2. charger = FALSE /\ charger' = FALSE
      BY <2>3, <3>1, <1>15, Zenon DEF TypeOK, Boot
    <3>3. QED
      BY <2>1, <3>2, <1>b DEF Kept
  <2>4. QED
    BY <2>2, <2>3
<1>16. CASE StartFails
  BY <1>16, <1>a, <1>b DEF StartFails, Kept
<1>17. CASE StartMount
  BY <1>17, <1>a, <1>b DEF StartMount, Kept
<1>18. CASE StartClean
  BY <1>18, <1>a, <1>b DEF StartClean, Kept
<1>19. CASE StartRotate
  BY <1>19, <1>a, <1>b DEF StartRotate, Kept
<1>20. CASE StageWrite
  BY <1>20, <1>a, <1>b DEF StageWrite, Kept
<1>21. CASE StageRename
  BY <1>21, <1>a, <1>b DEF StageRename, Kept
<1>22. CASE StartNoSelector
  BY <1>22, <1>a, <1>b DEF StartNoSelector, Kept
<1>23. CASE StartBadSelector
  BY <1>23, <1>a, <1>b DEF StartBadSelector, Kept
<1>24. CASE StartConsume
  BY <1>24, <1>a, <1>b DEF StartConsume, Kept
<1>25. CASE StartMounts
  BY <1>25, <1>a, <1>b DEF StartMounts, Kept
<1>26. CASE StartUdev
  BY <1>26, <1>a, <1>b DEF StartUdev, Kept
<1>27. CASE StartServices
  BY <1>27, <1>a, <1>b DEF StartServices, Kept
<1>28. CASE StartWeston
  BY <1>28, <1>a, <1>b DEF StartWeston, Kept
<1>29. CASE StartTerminal
  BY <1>29, <1>a, <1>b DEF StartTerminal, Kept
<1>30. CASE PollEnter
  BY <1>30, <1>a, <1>b DEF PollEnter, Kept
<1>31. CASE PollEnded
  BY <1>31, <1>a, <1>b DEF PollEnded, Kept
<1>32. CASE AppStart
  BY <1>32, <1>a, <1>b DEF AppStart, Kept
<1>33. CASE ContainerStart
  BY <1>33, <1>a, <1>b DEF ContainerStart, Kept
<1>34. CASE ContainerFreeze
  BY <1>34, <1>a, <1>b DEF ContainerFreeze, Kept
<1>35. CASE ContainerThaw
  BY <1>35, <1>a, <1>b DEF ContainerThaw, Kept
<1>36. CASE CoordinatorExit
  BY <1>36, <1>a, <1>b DEF CoordinatorExit, Kept
<1>37. CASE Personalize
  BY <1>37, <1>a, <1>b DEF Personalize, Kept
<1>38. CASE Arm
  BY <1>38, <1>a, <1>b DEF Arm, Kept
<1>39. CASE StopGate
  BY <1>39, <1>a, <1>b DEF StopGate, Kept
<1>40. CASE StopOwner
  BY <1>40, <1>a, <1>b DEF StopOwner, Kept
<1>41. CASE StopContainer
  BY <1>41, <1>a, <1>b DEF StopContainer, Kept
<1>42. CASE StopLxcStop
  BY <1>42, <1>a, <1>b DEF StopLxcStop, Kept
<1>43. CASE StopContainerTest
  BY <1>43, <1>a, <1>b DEF StopContainerTest, Kept
<1>44. CASE StopSweepRefuse
  BY <1>44, <1>a, <1>b DEF StopSweepRefuse, Kept
<1>45. CASE StopNested
  BY <1>45, <1>a, <1>b DEF StopNested, Kept
<1>46. CASE StopNestedRefuse
  BY <1>46, <1>a, <1>b DEF StopNestedRefuse, Kept
<1>47. CASE StopRearm
  BY <1>47, <1>a, <1>b DEF StopRearm, Kept
<1>48. CASE StopRearmRefuse
  BY <1>48, <1>a, <1>b DEF StopRearmRefuse, Kept
<1>49. CASE StopUnmountRefuse
  BY <1>49, <1>a, <1>b DEF StopUnmountRefuse, Kept
<1>50. ASSUME NEW s \in Services, ServiceCheck(s) PROVE Kept
  BY <1>50, <1>a, <1>b DEF ServiceCheck, Kept
<1>51. ASSUME NEW s \in Services, ServiceEnter(s) PROVE Kept
  BY <1>51, <1>a, <1>b DEF ServiceEnter, Kept
<1>52. ASSUME NEW s \in Services, ServiceEnded(s) PROVE Kept
  BY <1>52, <1>a, <1>b DEF ServiceEnded, Kept
<1>53. ASSUME NEW p \in Procs, ProcExit(p) PROVE Kept
  BY <1>53, <1>a, <1>b DEF ProcExit, Kept
<1>r. CASE StopCut
  BY <1>r, <1>a, <1>b DEF StopCut, Kept
<1>54. QED
  BY <1>r, <1>b, <1>p, <1>q, <1>1, <1>2, <1>3, <1>4, <1>5, <1>6, <1>7, <1>8, <1>9, <1>10, <1>11, <1>12, <1>13, <1>14, <1>15, <1>16, <1>17, <1>18, <1>19, <1>20, <1>21, <1>22, <1>23, <1>24, <1>25, <1>26, <1>27, <1>28, <1>29, <1>30, <1>31, <1>32, <1>33, <1>34, <1>35, <1>36, <1>37, <1>38, <1>39, <1>40, <1>41, <1>42, <1>43, <1>44, <1>45, <1>46, <1>47, <1>48, <1>49, <1>50, <1>51, <1>52, <1>53
     DEF Next, StartStep, RuntimeStep, StopStep

\* Every behaviour of the scripts is one the promise allows: the clean root is
\* entered only after its selector left storage, and only an orderly action in
\* it puts the selector back.
THEOREM Implements == Spec => KeepsPromise
  BY PromiseInit, PromiseStep, DisciplineInvariant, PTL
     DEF KeepsPromise, Spec, Promise!Spec
=============================================================================
