--------------------------- MODULE BootJournalProofs ---------------------------
(***************************************************************************)
(* Proofs about the journals of BootRoot and about charger boots, for any  *)
(* number of boots: what a boot, a stop or a crash may do to the records.  *)
(***************************************************************************)
EXTENDS BootRootProofs

\* A namespace that a power loss leaves as it is.
NotDirty(f) == "dirty" \notin {f.selector, f.consumed, f.last.text, f.previous.text}

Early == {"off", "probe", "clean", "rotate"}    \* nothing of this boot is recorded yet

\* A powered-off tablet and a charger boot touch nothing; userdata is mounted once per
\* boot, and away when the helper acts; a start that ended records nothing more.
Calm ==
    /\ charger \/ ~up => /\ startPc = "off" /\ jstep = "idle" /\ procs = {} /\ stopPc = "idle"
                         /\ NotDirty(disk)
    /\ ~up => fs = disk
    /\ startPc \in {"off", "probe"} => ~mounted
    /\ startPc \in Early \cup {"failed"} => jstep = "idle"
    /\ stopPc \notin {"idle", "gate", "refused", "cut"} => startPc \notin {"off", "probe"}
    /\ stopPc = "act" => ~mounted /\ NotDirty(disk)

\* What a sync, and what a power loss, does to the records and the selector: no durable
\* text is lost, an empty one stays empty, and no record comes or goes.
Weathered(g, f) ==
    /\ NotDirty(g) /\ g.action = f.action
    /\ g.last.boot = f.last.boot /\ g.previous.boot = f.previous.boot
    /\ g.last = NoBootEntry <=> f.last = NoBootEntry
    /\ f.last.text = "absent" <=> g.last.text = "absent"
    /\ f.last.text = "good" => g.last = f.last
    /\ f.previous.text = "good" => g.previous = f.previous
    /\ f.previous.text = "empty" => g.previous = f.previous
    /\ f.selector = "good" => g.selector = "good"

LEMMA Cleaned ==
    ASSUME NEW f \in Namespace
    PROVE  /\ NotDirty(Synced(f))
           /\ Synced(f).action = f.action /\ Synced(f).actionTemp = f.actionTemp
           /\ f.selector = "good" => Synced(f).selector = "good"
           /\ f.selector = "empty" => Synced(f).selector = "empty"
           /\ f.selector = "dirty" => Synced(f).selector = "good"
           /\ f.consumed = "good" => Synced(f).consumed = "good"
           /\ f.consumed = "dirty" => Synced(f).consumed = "good"
  BY DEF NotDirty, Synced, Settled, Namespace, BootEntry, Marker

LEMMA SyncedRecords ==
    ASSUME NEW f \in Namespace
    PROVE  Weathered(Synced(f), f)
  BY DEF Weathered, NotDirty, Synced, Settled, Namespace, BootEntry, NoBootEntry, Marker

LEMMA TornOnly ==
    ASSUME NEW m \in Marker, NEW lost
    PROVE  /\ Torn(m, lost) \in Marker \ {"dirty"}
           /\ m # "dirty" => Torn(m, lost) = m
           /\ (Torn(m, lost) = "absent") <=> (m = "absent")
  BY TornMarker DEF Torn, Settled, Marker

LEMMA CrashedFields ==
    ASSUME NEW f \in Namespace, NEW lost, NEW torn
    PROVE  LET g == Crashed(f, lost, torn)
           IN /\ g.action = f.action
              /\ g.selector = Torn(f.selector, lost) /\ g.consumed = Torn(f.consumed, lost)
              /\ g.last = [boot |-> f.last.boot, text |-> Torn(f.last.text, torn)]
              /\ g.previous = [boot |-> f.previous.boot, text |-> Torn(f.previous.text, torn)]
  BY DEF Crashed, Namespace, BootEntry

LEMMA FilesTyped ==
    ASSUME NEW f \in Namespace
    PROVE  /\ f.selector \in Marker /\ f.consumed \in Marker
           /\ f.last.text \in Marker /\ f.previous.text \in Marker
           /\ f.last = [boot |-> f.last.boot, text |-> f.last.text]
           /\ f.previous = [boot |-> f.previous.boot, text |-> f.previous.text]
  BY DEF Namespace, BootEntry

LEMMA Fallen ==
    ASSUME NEW f \in Namespace, NEW lost, NEW torn
    PROVE  /\ NotDirty(Crashed(f, lost, torn))
           /\ Crashed(f, lost, torn).action = f.action
           /\ f.selector = "good" => Crashed(f, lost, torn).selector = "good"
<1> DEFINE g == Crashed(f, lost, torn)
<1>1. /\ g.action = f.action
      /\ g.selector = Torn(f.selector, lost) /\ g.consumed = Torn(f.consumed, lost)
      /\ g.last = [boot |-> f.last.boot, text |-> Torn(f.last.text, torn)]
      /\ g.previous = [boot |-> f.previous.boot, text |-> Torn(f.previous.text, torn)]
  BY CrashedFields
<1> HIDE DEF g
<1>2. g.last.text = Torn(f.last.text, torn) /\ g.previous.text = Torn(f.previous.text, torn)
  BY <1>1
<1>3. /\ Torn(f.selector, lost) # "dirty" /\ Torn(f.consumed, lost) # "dirty"
      /\ Torn(f.last.text, torn) # "dirty" /\ Torn(f.previous.text, torn) # "dirty"
      /\ f.selector = "good" => Torn(f.selector, lost) = "good"
  BY FilesTyped, TornOnly
<1>4. NotDirty(g)
  BY <1>1, <1>2, <1>3 DEF NotDirty
<1>5. QED
  BY <1>1, <1>3, <1>4 DEF g

LEMMA FallenSame ==
    ASSUME NEW f \in Namespace, NEW lost, NEW torn, NotDirty(f)
    PROVE  Crashed(f, lost, torn) = f
<1>1. /\ Torn(f.selector, lost) = f.selector /\ Torn(f.consumed, lost) = f.consumed
      /\ Torn(f.last.text, torn) = f.last.text
      /\ Torn(f.previous.text, torn) = f.previous.text
  BY FilesTyped, TornOnly DEF NotDirty
<1>2. QED
  BY <1>1 DEF Crashed, Namespace, BootEntry

LEMMA FallenRecords ==
    ASSUME NEW f \in Namespace, NEW lost, NEW torn
    PROVE  Weathered(Crashed(f, lost, torn), f)
<1> DEFINE g == Crashed(f, lost, torn)
<1>1. /\ g.action = f.action /\ g.selector = Torn(f.selector, lost)
      /\ g.last = [boot |-> f.last.boot, text |-> Torn(f.last.text, torn)]
      /\ g.previous = [boot |-> f.previous.boot, text |-> Torn(f.previous.text, torn)]
  BY CrashedFields
<1>2. NotDirty(g)
  BY Fallen
<1> HIDE DEF g
<1>3. /\ g.last.boot = f.last.boot /\ g.last.text = Torn(f.last.text, torn)
      /\ g.previous.boot = f.previous.boot /\ g.previous.text = Torn(f.previous.text, torn)
  BY <1>1
<1>4. /\ f.selector # "dirty" => Torn(f.selector, lost) = f.selector
      /\ f.last.text # "dirty" => Torn(f.last.text, torn) = f.last.text
      /\ f.previous.text # "dirty" => Torn(f.previous.text, torn) = f.previous.text
      /\ (Torn(f.last.text, torn) = "absent") <=> (f.last.text = "absent")
  BY FilesTyped, TornOnly
<1>a. f.last.text # "dirty" => g.last = f.last
  BY <1>1, <1>4, FilesTyped
<1>b. f.previous.text # "dirty" => g.previous = f.previous
  BY <1>1, <1>4, FilesTyped
<1>5. /\ f.selector = "good" => g.selector = "good"
      /\ f.last.text = "absent" <=> g.last.text = "absent"
  BY <1>1, <1>3, <1>4
<1>6. g.last = NoBootEntry <=> f.last = NoBootEntry
  <2>2. f.last = NoBootEntry => f.last.text = "absent"
    BY DEF NoBootEntry
  <2>3. g.last = NoBootEntry => g.last.text = "absent"
    BY DEF NoBootEntry
  <2>4. QED
    BY <1>5, <1>a, <2>2, <2>3
<1>7. QED
  BY <1>1, <1>2, <1>3, <1>5, <1>6, <1>a, <1>b DEF Weathered, g

\* start-ubuntu ended: the files, the published root and the helper are as they were.
LEMMA Failed ==
    ASSUME StartFails
    PROVE  /\ up /\ startPc \notin {"off", "failed"} /\ startPc' = "failed" /\ jstep' = "idle"
           /\ UNCHANGED <<disk, fs, up, boot, charger, root, selected, mounted>>
           /\ UNCHANGED <<svc, poll, container, stopping, stopPc, stopRoot>>
  BY Zenon DEF StartFails, store, power, stop

LEMMA CalmStep == TypeOK /\ Calm /\ [Next]_vars => Calm'
<1> SUFFICES ASSUME TypeOK, Calm, [Next]_vars PROVE Calm'
  OBVIOUS
<1>t. fs \in Namespace /\ disk \in Namespace
  BY DEF TypeOK
<1> USE <1>t, Cleaned, Fallen DEF Calm, Early, store, power, startup, live, stop, At, Goto, Record, Halting, HaltAt, Sync, Down
<1>1. CASE Boot
  BY <1>1 DEF Boot
<1>2. CASE ChargerReboot
  BY <1>2 DEF ChargerReboot
<1>3. CASE PowerLoss
  BY <1>3 DEF PowerLoss
<1>4. CASE Commit
  BY <1>4 DEF Commit
<1>5. CASE StartFails
  BY <1>5, Failed
<1>0. CASE StartMount \/ StartClean
  BY <1>0 DEF StartMount, StartClean
<1>6. CASE StartRotate
  BY <1>6 DEF StartRotate
<1>7. CASE StageWrite
  BY <1>7 DEF StageWrite
<1>8. CASE StageSync
  BY <1>8 DEF StageSync
<1>9. CASE StageRename
  BY <1>9 DEF StageRename
<1>10. CASE StartNoSelector \/ StartBadSelector
  BY <1>10 DEF StartNoSelector, StartBadSelector
<1>11. CASE StartPublish
  BY <1>11 DEF StartPublish
<1>12. CASE StartConsume
  BY <1>12 DEF StartConsume
<1>13. CASE StartConsumeSync
  BY <1>13 DEF StartConsumeSync
<1>14. CASE StartMounts \/ StartUdev \/ StartServices \/ StartWeston \/ StartTerminal
  BY <1>14 DEF StartMounts, StartUdev, StartServices, StartWeston, StartTerminal
<1>15. CASE \E s \in Services : ServiceCheck(s) \/ ServiceEnter(s) \/ ServiceEnded(s)
  BY <1>15 DEF ServiceCheck, ServiceEnter, ServiceEnded
<1>16. CASE PollEnter \/ PollEnded \/ AppStart \/ ContainerStart \/ ContainerFreeze \/ ContainerThaw
  BY <1>16 DEF PollEnter, PollEnded, AppStart, ContainerStart, ContainerFreeze, ContainerThaw
<1>17. CASE CoordinatorExit \/ \E p \in Procs : ProcExit(p)
  BY <1>17 DEF CoordinatorExit, ProcExit
<1>18. CASE Personalize
  BY <1>18 DEF Personalize
<1>19. CASE ArmSync
  BY <1>19 DEF ArmSync
<1>20. CASE Arm
  BY <1>20 DEF Arm
<1>21. CASE StopRequest \/ StopGate \/ StopCut
  BY <1>21 DEF StopRequest, StopGate, StopCut
<1>22. CASE StopRecordStarting \/ StopRecordReady
  BY <1>22 DEF StopRecordStarting, StopRecordReady, ActionWrite, ActionRename, ActionSync
<1>23. CASE StopOwner \/ StopContainer \/ StopLxcStop \/ StopContainerTest
  BY <1>23 DEF StopOwner, StopContainer, StopLxcStop, StopContainerTest
<1>24. CASE StopSweep
  BY <1>24 DEF StopSweep
<1>25. CASE StopSweepRefuse \/ StopNested \/ StopNestedRefuse
  BY <1>25 DEF StopSweepRefuse, StopNested, StopNestedRefuse
<1>26. CASE StopRearm
  BY <1>26 DEF StopRearm
<1>27. CASE StopRearmRefuse
  BY <1>27 DEF StopRearmRefuse
<1>28. CASE StopRearmSync
  BY <1>28 DEF StopRearmSync
<1>29. CASE StopUnmount \/ StopUnmountRefuse \/ StopAct
  BY <1>29 DEF StopUnmount, StopUnmountRefuse, StopAct
<1>30. CASE StayOff \/ UNCHANGED vars
  BY <1>30 DEF StayOff, vars
<1>31. QED
  BY <1>0, <1>1, <1>2, <1>3, <1>4, <1>5, <1>6, <1>7, <1>8, <1>9, <1>10, <1>11, <1>12, <1>13, <1>14, <1>15, <1>16, <1>17, <1>18, <1>19, <1>20, <1>21, <1>22, <1>23, <1>24, <1>25, <1>26, <1>27, <1>28, <1>29, <1>30
     DEF Next, StartStep, RuntimeStep, StopStep

\* What the edits of a namespace leave alone.
LEMMA Edits ==
    ASSUME NEW f \in Namespace
    PROVE  /\ \A b \in BOOLEAN : /\ [f EXCEPT !.bootTemp = b].action = f.action
                              /\ [f EXCEPT !.bootTemp = b].actionTemp = f.actionTemp
                              /\ [f EXCEPT !.bootTemp = b].selector = f.selector
                              /\ [f EXCEPT !.bootTemp = b].consumed = f.consumed
           /\ [f EXCEPT !.actionTemp = TRUE].action = f.action
           /\ [f EXCEPT !.actionTemp = TRUE].selector = f.selector
           /\ [f EXCEPT !.actionTemp = TRUE].consumed = f.consumed
           /\ [f EXCEPT !.actionTemp = TRUE].actionTemp
  BY DEF Namespace

LEMMA Moved ==
    ASSUME NEW f \in Namespace, fs = f, StopRearm
    PROVE  /\ fs'.action = fs.action /\ fs'.actionTemp = fs.actionTemp /\ disk' = disk
           /\ fs'.selector \in {"dirty", "good"} /\ fs.selector # "empty"
           /\ fs.selector \in {"dirty", "good"} => fs' = fs
           /\ fs.selector = "absent" => fs'.selector = fs.consumed
           /\ stopPc = "rearm" /\ stopPc' = "rearmSync" /\ UNCHANGED <<power, startup, live, stopRoot>>
  BY DEF StopRearm, Halting, HaltAt, Namespace

\* A call of system_action_stage: the temporary, the rename, the sync.
Temporary == /\ stopPc \in {"startingWrite", "readyWrite"}
             /\ stopPc' = IF stopPc = "readyWrite" THEN "readyRename" ELSE "startingRename"
             /\ fs'.action = fs.action /\ disk' = disk
             /\ fs'.selector = fs.selector /\ fs'.consumed = fs.consumed

Renamed == /\ stopPc \in {"startingRename", "readyRename"}
           /\ stopPc' = IF stopPc = "readyRename" THEN "readySync" ELSE "startingSync"
           /\ fs'.action = [boot |-> boot, root |-> stopRoot,
                            stage |-> IF stopPc = "readyRename" THEN "ready-to-unmount"
                                      ELSE "starting"]
           /\ ~fs'.actionTemp /\ disk' = disk
           /\ fs'.selector = fs.selector /\ fs'.consumed = fs.consumed

RecordSynced == /\ stopPc \in {"startingSync", "readySync"}
                /\ stopPc' = IF stopPc = "readySync" THEN "unmount" ELSE "owner"
                /\ Sync

LEMMA Recorded ==
    ASSUME fs \in Namespace, StopRecordStarting \/ StopRecordReady
    PROVE  /\ Temporary \/ Renamed \/ RecordSynced
           /\ UNCHANGED <<power, startup, live, stopping, stopRoot>>
<1>1. ASSUME NEW a, fs' = [fs EXCEPT !.actionTemp = FALSE, !.action = a]
      PROVE  /\ fs'.action = a /\ ~fs'.actionTemp
             /\ fs'.selector = fs.selector /\ fs'.consumed = fs.consumed
  BY <1>1 DEF Namespace
<1>2. \/ ActionWrite("startingWrite", "startingRename") \/ ActionWrite("readyWrite", "readyRename")
      \/ ActionRename("startingRename", "starting", "startingSync")
      \/ ActionRename("readyRename", "ready-to-unmount", "readySync")
      \/ ActionSync("startingSync", "owner") \/ ActionSync("readySync", "unmount")
  BY DEF StopRecordStarting, StopRecordReady
<1>3. CASE \/ ActionWrite("startingWrite", "startingRename")
           \/ ActionWrite("readyWrite", "readyRename")
  BY <1>3, Edits DEF ActionWrite, Halting, HaltAt, Temporary
<1>4. CASE \/ ActionRename("startingRename", "starting", "startingSync")
           \/ ActionRename("readyRename", "ready-to-unmount", "readySync")
  BY <1>4, <1>1 DEF ActionRename, Halting, HaltAt, Renamed
<1>5. CASE ActionSync("startingSync", "owner") \/ ActionSync("readySync", "unmount")
  BY <1>5 DEF ActionSync, Halting, HaltAt, RecordSynced
<1>6. QED
  BY <1>2, <1>3, <1>4, <1>5

\* The action journal is of this boot or an older one; a helper past the journal gate has
\* a temporary only while it is about to rename it.
Actions ==
    /\ fs.action.boot <= boot /\ disk.action.boot <= boot
    /\ stopPc \notin {"idle", "gate", "refused", "cut", "startingRename", "readyRename"}
            => ~fs.actionTemp

LEMMA ActionsStep == TypeOK /\ Actions /\ [Next]_vars => Actions'
<1> SUFFICES ASSUME TypeOK, Actions, [Next]_vars PROVE Actions'
  OBVIOUS
<1>t. fs \in Namespace /\ disk \in Namespace
  BY DEF TypeOK
<1>u. /\ fs.action.boot \in Nat /\ disk.action.boot \in Nat /\ boot \in Nat
      /\ selected \in Roots \cup {NoRoot} /\ stopRoot \in Roots \cup {NoRoot}
  BY DEF TypeOK, Namespace, ActionEntry
<1> USE <1>t, <1>u, RootsDiffer, Cleaned, Fallen, Edits DEF Actions, Namespace, ActionEntry, store, power, startup, live, stop, At, Goto, Record, Halting, HaltAt, Sync, Down
<1>1. CASE Boot
  BY <1>1 DEF Boot
<1>2. CASE ChargerReboot
  BY <1>2 DEF ChargerReboot
<1>3. CASE PowerLoss
  BY <1>3 DEF PowerLoss
<1>4. CASE Commit
  BY <1>4 DEF Commit
<1>5. CASE StartFails
  BY <1>5, Failed
<1>0. CASE StartMount \/ StartClean
  BY <1>0 DEF StartMount, StartClean
<1>6. CASE StartRotate
  BY <1>6 DEF StartRotate
<1>7. CASE StageWrite
  BY <1>7 DEF StageWrite
<1>8. CASE StageSync
  BY <1>8 DEF StageSync
<1>9. CASE StageRename
  BY <1>9 DEF StageRename
<1>10. CASE StartNoSelector \/ StartBadSelector
  BY <1>10 DEF StartNoSelector, StartBadSelector
<1>11. CASE StartPublish
  BY <1>11 DEF StartPublish
<1>12. CASE StartConsume
  BY <1>12 DEF StartConsume
<1>13. CASE StartConsumeSync
  BY <1>13 DEF StartConsumeSync
<1>14. CASE StartMounts \/ StartUdev \/ StartServices \/ StartWeston \/ StartTerminal
  BY <1>14 DEF StartMounts, StartUdev, StartServices, StartWeston, StartTerminal
<1>15. CASE \E s \in Services : ServiceCheck(s) \/ ServiceEnter(s) \/ ServiceEnded(s)
  BY <1>15 DEF ServiceCheck, ServiceEnter, ServiceEnded
<1>16. CASE PollEnter \/ PollEnded \/ AppStart \/ ContainerStart \/ ContainerFreeze \/ ContainerThaw
  BY <1>16 DEF PollEnter, PollEnded, AppStart, ContainerStart, ContainerFreeze, ContainerThaw
<1>17. CASE CoordinatorExit \/ \E p \in Procs : ProcExit(p)
  BY <1>17 DEF CoordinatorExit, ProcExit
<1>18. CASE Personalize
  BY <1>18 DEF Personalize
<1>19. CASE ArmSync
  BY <1>19 DEF ArmSync
<1>20. CASE Arm
  BY <1>20 DEF Arm
<1>21. CASE StopRequest \/ StopGate \/ StopCut
  BY <1>21 DEF StopRequest, StopGate, StopCut
<1>22. CASE StopRecordStarting \/ StopRecordReady
  <2>1. UNCHANGED <<power, startup, live, stopping, stopRoot>>
    BY <1>22, Recorded
  <2>2. CASE Temporary
    BY <2>1, <2>2 DEF Temporary
  <2>3. CASE Renamed
    BY <2>1, <2>3 DEF Renamed
  <2>4. CASE RecordSynced
    BY <2>1, <2>4 DEF RecordSynced
  <2>5. QED
    BY <1>22, <2>2, <2>3, <2>4, Recorded
<1>23. CASE StopOwner \/ StopContainer \/ StopLxcStop \/ StopContainerTest
  BY <1>23 DEF StopOwner, StopContainer, StopLxcStop, StopContainerTest
<1>24. CASE StopSweep
  BY <1>24 DEF StopSweep
<1>25. CASE StopSweepRefuse \/ StopNested \/ StopNestedRefuse
  BY <1>25 DEF StopSweepRefuse, StopNested, StopNestedRefuse
<1>26. CASE StopRearm
  BY <1>26, Moved
<1>27. CASE StopRearmRefuse
  BY <1>27 DEF StopRearmRefuse
<1>28. CASE StopRearmSync
  BY <1>28 DEF StopRearmSync
<1>29. CASE StopUnmount \/ StopUnmountRefuse \/ StopAct
  BY <1>29 DEF StopUnmount, StopUnmountRefuse, StopAct
<1>30. CASE StayOff \/ UNCHANGED vars
  BY <1>30 DEF StayOff, vars
<1>31. QED
  BY <1>0, <1>1, <1>2, <1>3, <1>4, <1>5, <1>6, <1>7, <1>8, <1>9, <1>10, <1>11, <1>12, <1>13, <1>14, <1>15, <1>16, <1>17, <1>18, <1>19, <1>20, <1>21, <1>22, <1>23, <1>24, <1>25, <1>26, <1>27, <1>28, <1>29, <1>30
     DEF Next, StartStep, RuntimeStep, StopStep

\* The clean root is entered with a whole marker, which then only moves.
Returnable ==
    /\ startPc = "consumed" => fs.consumed \in {"dirty", "good"}
    /\ root = Cand => /\ "good" \in {fs.selector, fs.consumed}
                     /\ startPc \notin Early \cup {"select", "consumed"}

LEMMA ReturnableStep == TypeOK /\ Discipline /\ Returnable /\ [Next]_vars => Returnable'
<1> SUFFICES ASSUME TypeOK, Discipline, Returnable, [Next]_vars PROVE Returnable'
  OBVIOUS
<1>t. fs \in Namespace /\ disk \in Namespace
  BY DEF TypeOK
<1>u. /\ fs.action.boot \in Nat /\ disk.action.boot \in Nat /\ boot \in Nat
      /\ selected \in Roots \cup {NoRoot} /\ stopRoot \in Roots \cup {NoRoot}
  BY DEF TypeOK, Namespace, ActionEntry
<1> USE <1>t, <1>u, RootsDiffer, Cleaned, Fallen, Edits DEF Returnable, Discipline, Early, Roots, Namespace, store, power, startup, live, stop, At, Goto, Record, Halting, HaltAt, Sync, Down
<1>1. CASE Boot
  BY <1>1 DEF Boot
<1>2. CASE ChargerReboot
  BY <1>2 DEF ChargerReboot
<1>3. CASE PowerLoss
  BY <1>3 DEF PowerLoss
<1>4. CASE Commit
  BY <1>4 DEF Commit
<1>5. CASE StartFails
  BY <1>5, Failed
<1>0. CASE StartMount \/ StartClean
  BY <1>0 DEF StartMount, StartClean
<1>6. CASE StartRotate
  BY <1>6 DEF StartRotate
<1>7. CASE StageWrite
  BY <1>7 DEF StageWrite
<1>8. CASE StageSync
  BY <1>8 DEF StageSync
<1>9. CASE StageRename
  BY <1>9 DEF StageRename
<1>10. CASE StartNoSelector \/ StartBadSelector
  BY <1>10 DEF StartNoSelector, StartBadSelector
<1>11. CASE StartPublish
  BY <1>11 DEF StartPublish
<1>12. CASE StartConsume
  BY <1>12 DEF StartConsume
<1>13. CASE StartConsumeSync
  BY <1>13 DEF StartConsumeSync
<1>14. CASE StartMounts \/ StartUdev \/ StartServices \/ StartWeston \/ StartTerminal
  BY <1>14 DEF StartMounts, StartUdev, StartServices, StartWeston, StartTerminal
<1>15. CASE \E s \in Services : ServiceCheck(s) \/ ServiceEnter(s) \/ ServiceEnded(s)
  BY <1>15 DEF ServiceCheck, ServiceEnter, ServiceEnded
<1>16. CASE PollEnter \/ PollEnded \/ AppStart \/ ContainerStart \/ ContainerFreeze \/ ContainerThaw
  BY <1>16 DEF PollEnter, PollEnded, AppStart, ContainerStart, ContainerFreeze, ContainerThaw
<1>17. CASE CoordinatorExit \/ \E p \in Procs : ProcExit(p)
  BY <1>17 DEF CoordinatorExit, ProcExit
<1>18. CASE Personalize
  BY <1>18 DEF Personalize
<1>19. CASE ArmSync
  BY <1>19 DEF ArmSync
<1>20. CASE Arm
  BY <1>20 DEF Arm
<1>21. CASE StopRequest \/ StopGate \/ StopCut
  BY <1>21 DEF StopRequest, StopGate, StopCut
<1>22. CASE StopRecordStarting \/ StopRecordReady
  <2>1. UNCHANGED <<power, startup, live, stopping, stopRoot>>
    BY <1>22, Recorded
  <2>2. CASE Temporary
    BY <2>1, <2>2 DEF Temporary
  <2>3. CASE Renamed
    BY <2>1, <2>3 DEF Renamed
  <2>4. CASE RecordSynced
    BY <2>1, <2>4 DEF RecordSynced
  <2>5. QED
    BY <1>22, <2>2, <2>3, <2>4, Recorded
<1>23. CASE StopOwner \/ StopContainer \/ StopLxcStop \/ StopContainerTest
  BY <1>23 DEF StopOwner, StopContainer, StopLxcStop, StopContainerTest
<1>24. CASE StopSweep
  BY <1>24 DEF StopSweep
<1>25. CASE StopSweepRefuse \/ StopNested \/ StopNestedRefuse
  BY <1>25 DEF StopSweepRefuse, StopNested, StopNestedRefuse
<1>26. CASE StopRearm
  <2>1. /\ fs'.selector \in {"dirty", "good"} /\ (fs.selector = "absent" => fs'.selector = fs.consumed)
        /\ fs.selector \in {"dirty", "good"} => fs' = fs
        /\ fs.selector # "empty" /\ stopPc = "rearm" /\ UNCHANGED <<startPc, root>>
    BY <1>26, Moved
  <2>2. fs.selector \in {"absent", "dirty", "good"}
    BY <2>1 DEF Marker
  <2>3. startPc # "consumed"
    BY <2>1
  <2>4. root = Cand => "good" \in {fs'.selector, fs'.consumed}
    BY <2>1, <2>2
  <2>5. QED
    BY <2>1, <2>3, <2>4
<1>27. CASE StopRearmRefuse
  BY <1>27 DEF StopRearmRefuse
<1>28. CASE StopRearmSync
  BY <1>28 DEF StopRearmSync
<1>29. CASE StopUnmount \/ StopUnmountRefuse \/ StopAct
  BY <1>29 DEF StopUnmount, StopUnmountRefuse, StopAct
<1>30. CASE StayOff \/ UNCHANGED vars
  BY <1>30 DEF StayOff, vars
<1>31. QED
  BY <1>0, <1>1, <1>2, <1>3, <1>4, <1>5, <1>6, <1>7, <1>8, <1>9, <1>10, <1>11, <1>12, <1>13, <1>14, <1>15, <1>16, <1>17, <1>18, <1>19, <1>20, <1>21, <1>22, <1>23, <1>24, <1>25, <1>26, <1>27, <1>28, <1>29, <1>30
     DEF Next, StartStep, RuntimeStep, StopStep

\* What the clean root's action has promised: from the rearming on the selector is
\* complete, for the kernel and on storage, and nobody takes it.
Ready(f) == f.action.boot = boot /\ f.action.root = Cand /\ f.action.stage = "ready-to-unmount"

Rearmed ==
    /\ stopPc = "rearmSync" => fs.selector \in {"dirty", "good"} /\ stopRoot = Cand
    /\ stopPc \in {"readyWrite", "readyRename", "readySync", "unmount", "act"} /\ stopRoot = Cand
            => fs.selector = "good" /\ disk.selector = "good"
    /\ Ready(fs) => /\ fs.selector = "good" /\ disk.selector = "good"
                    /\ up => selected = Cand
    /\ Ready(disk) => disk.selector = "good"


LEMMA RearmedStep == TypeOK /\ Calm /\ Discipline /\ Actions /\ Rearmed /\ [Next]_vars => Rearmed'
<1> SUFFICES ASSUME TypeOK, Calm, Discipline, Actions, Rearmed, [Next]_vars PROVE Rearmed'
  OBVIOUS
<1>t. fs \in Namespace /\ disk \in Namespace
  BY DEF TypeOK
<1>u. /\ fs.action.boot \in Nat /\ disk.action.boot \in Nat /\ boot \in Nat
      /\ selected \in Roots \cup {NoRoot} /\ stopRoot \in Roots \cup {NoRoot}
  BY DEF TypeOK, Namespace, ActionEntry
<1> USE <1>t, <1>u, RootsDiffer, Cleaned, Fallen, Edits DEF Rearmed, Calm, Discipline, Actions, Ready, Namespace, ActionEntry, store, power, startup, live, stop, At, Goto, Record, Halting, HaltAt, Sync, Down
<1>1. CASE Boot
  BY <1>1 DEF Boot
<1>2. CASE ChargerReboot
  BY <1>2 DEF ChargerReboot
<1>3. CASE PowerLoss
  BY <1>3 DEF PowerLoss
<1>4. CASE Commit
  BY <1>4 DEF Commit
<1>5. CASE StartFails
  BY <1>5, Failed
<1>0. CASE StartMount \/ StartClean
  BY <1>0 DEF StartMount, StartClean
<1>6. CASE StartRotate
  BY <1>6 DEF StartRotate
<1>7. CASE StageWrite
  BY <1>7 DEF StageWrite
<1>8. CASE StageSync
  BY <1>8 DEF StageSync
<1>9. CASE StageRename
  BY <1>9 DEF StageRename
<1>10. CASE StartNoSelector \/ StartBadSelector
  BY <1>10 DEF StartNoSelector, StartBadSelector
<1>11. CASE StartPublish
  BY <1>11 DEF StartPublish
<1>12. CASE StartConsume
  BY <1>12 DEF StartConsume
<1>13. CASE StartConsumeSync
  BY <1>13 DEF StartConsumeSync
<1>14. CASE StartMounts \/ StartUdev \/ StartServices \/ StartWeston \/ StartTerminal
  BY <1>14 DEF StartMounts, StartUdev, StartServices, StartWeston, StartTerminal
<1>15. CASE \E s \in Services : ServiceCheck(s) \/ ServiceEnter(s) \/ ServiceEnded(s)
  BY <1>15 DEF ServiceCheck, ServiceEnter, ServiceEnded
<1>16. CASE PollEnter \/ PollEnded \/ AppStart \/ ContainerStart \/ ContainerFreeze \/ ContainerThaw
  BY <1>16 DEF PollEnter, PollEnded, AppStart, ContainerStart, ContainerFreeze, ContainerThaw
<1>17. CASE CoordinatorExit \/ \E p \in Procs : ProcExit(p)
  BY <1>17 DEF CoordinatorExit, ProcExit
<1>18. CASE Personalize
  BY <1>18 DEF Personalize
<1>19. CASE ArmSync
  BY <1>19 DEF ArmSync
<1>20. CASE Arm
  BY <1>20 DEF Arm
<1>21. CASE StopRequest \/ StopGate \/ StopCut
  BY <1>21 DEF StopRequest, StopGate, StopCut
<1>22. CASE StopRecordStarting \/ StopRecordReady
  <2>1. UNCHANGED <<power, startup, live, stopping, stopRoot>>
    BY <1>22, Recorded
  <2>2. CASE Temporary
    BY <2>1, <2>2 DEF Temporary
  <2>3. CASE Renamed
    BY <2>1, <2>3 DEF Renamed
  <2>4. CASE RecordSynced
    BY <2>1, <2>4 DEF RecordSynced
  <2>5. QED
    BY <1>22, <2>2, <2>3, <2>4, Recorded
<1>23. CASE StopOwner \/ StopContainer \/ StopLxcStop \/ StopContainerTest
  BY <1>23 DEF StopOwner, StopContainer, StopLxcStop, StopContainerTest
<1>24. CASE StopSweep
  BY <1>24 DEF StopSweep
<1>25. CASE StopSweepRefuse \/ StopNested \/ StopNestedRefuse
  BY <1>25 DEF StopSweepRefuse, StopNested, StopNestedRefuse
<1>26. CASE StopRearm
  BY <1>26, Moved
<1>27. CASE StopRearmRefuse
  BY <1>27 DEF StopRearmRefuse
<1>28. CASE StopRearmSync
  BY <1>28 DEF StopRearmSync
<1>29. CASE StopUnmount \/ StopUnmountRefuse \/ StopAct
  BY <1>29 DEF StopUnmount, StopUnmountRefuse, StopAct
<1>30. CASE StayOff \/ UNCHANGED vars
  BY <1>30 DEF StayOff, vars
<1>31. QED
  BY <1>0, <1>1, <1>2, <1>3, <1>4, <1>5, <1>6, <1>7, <1>8, <1>9, <1>10, <1>11, <1>12, <1>13, <1>14, <1>15, <1>16, <1>17, <1>18, <1>19, <1>20, <1>21, <1>22, <1>23, <1>24, <1>25, <1>26, <1>27, <1>28, <1>29, <1>30
     DEF Next, StartStep, RuntimeStep, StopStep

-----------------------------------------------------------------------------
(***************************************************************************)
(* The boot journal.                                                       *)
(***************************************************************************)
\* The records are no newer than this boot and in order.  Until the rotation the kernel
\* sees what storage has; after it only this boot writes the last record; and what an
\* earlier boot left durable on storage the kernel still has in one not older, unless the
\* rotation put an emptied record over it.
Durable(f) == {e \in Records(f) : e.text = "good" /\ e.boot < boot}

InOrder(f) ==
    /\ f.last.boot <= boot /\ f.previous.boot <= boot
    /\ f.last # NoBootEntry => f.previous.boot <= f.last.boot /\ f.last.text # "absent"

BootRecords ==
    /\ InOrder(fs) /\ InOrder(disk)
    /\ up /\ startPc \in Early =>
            /\ fs.last = disk.last /\ fs.previous = disk.previous
            /\ fs.last.text # "dirty"
            /\ fs.last.boot < boot /\ fs.previous.boot < boot
    /\ up /\ mounted /\ startPc \notin Early \cup {"failed"} =>
            fs.last = NoBootEntry \/ fs.last.boot = boot
    /\ up => \/ fs.previous.text = "empty" /\ startPc \notin Early
             \/ \A e \in Durable(disk) : \E g \in Durable(fs) : e.boot <= g.boot

\* What a step makes of the clock of the boot and of the two journals.
SameRecords(f, g) == f.last = g.last /\ f.previous = g.previous

Runs == /\ UNCHANGED <<up, boot>>
        /\ startPc' \in Early => startPc \in Early
        /\ mounted' /\ startPc' \notin Early \cup {"failed"} =>
                mounted /\ startPc \notin Early \cup {"failed"}

Stops == ~up' /\ boot' = boot

Keeps == /\ SameRecords(fs', fs)
         /\ SameRecords(disk', disk) \/ SameRecords(disk', fs)

Falls == ~up' /\ boot' = boot /\ fs' = disk' /\ (disk' = disk \/ Weathered(disk', disk))

LEMMA ClockMoves == TypeOK /\ Calm /\ [Next]_vars => Runs \/ Stops \/ Boot \/ StartRotate
<1> SUFFICES ASSUME TypeOK, Calm, [Next]_vars PROVE Runs \/ Stops \/ Boot \/ StartRotate
  OBVIOUS
<1> USE DEF Runs, Stops, Calm, Early, store, power, startup, live, stop,
           At, Goto, Record, Halting, HaltAt, Down
<1>1. CASE Boot
  BY <1>1 DEF Boot
<1>2. CASE ChargerReboot
  BY <1>2 DEF ChargerReboot
<1>3. CASE PowerLoss
  BY <1>3 DEF PowerLoss
<1>4. CASE Commit
  BY <1>4 DEF Commit
<1>5. CASE StartFails
  BY <1>5, Failed
<1>0. CASE StartMount \/ StartClean
  BY <1>0 DEF StartMount, StartClean
<1>6. CASE StartRotate
  BY <1>6
<1>7. CASE StageWrite
  BY <1>7 DEF StageWrite
<1>8. CASE StageSync
  BY <1>8 DEF StageSync
<1>9. CASE StageRename
  BY <1>9 DEF StageRename
<1>10. CASE StartNoSelector \/ StartBadSelector
  BY <1>10 DEF StartNoSelector, StartBadSelector
<1>11. CASE StartPublish
  BY <1>11 DEF StartPublish
<1>12. CASE StartConsume
  BY <1>12 DEF StartConsume
<1>13. CASE StartConsumeSync
  BY <1>13 DEF StartConsumeSync
<1>14. CASE StartMounts \/ StartUdev \/ StartServices \/ StartWeston \/ StartTerminal
  BY <1>14 DEF StartMounts, StartUdev, StartServices, StartWeston, StartTerminal
<1>15. CASE \E s \in Services : ServiceCheck(s) \/ ServiceEnter(s) \/ ServiceEnded(s)
  BY <1>15 DEF ServiceCheck, ServiceEnter, ServiceEnded
<1>16. CASE PollEnter \/ PollEnded \/ AppStart \/ ContainerStart \/ ContainerFreeze \/ ContainerThaw
  BY <1>16 DEF PollEnter, PollEnded, AppStart, ContainerStart, ContainerFreeze, ContainerThaw
<1>17. CASE CoordinatorExit \/ \E p \in Procs : ProcExit(p)
  BY <1>17 DEF CoordinatorExit, ProcExit
<1>18. CASE Personalize
  BY <1>18 DEF Personalize
<1>19. CASE ArmSync
  BY <1>19 DEF ArmSync
<1>20. CASE Arm
  BY <1>20 DEF Arm
<1>21. CASE StopRequest \/ StopGate \/ StopCut
  BY <1>21 DEF StopRequest, StopGate, StopCut
<1>22. CASE StopRecordStarting \/ StopRecordReady
  BY <1>22 DEF StopRecordStarting, StopRecordReady, ActionWrite, ActionRename, ActionSync
<1>23. CASE StopOwner \/ StopContainer \/ StopLxcStop \/ StopContainerTest
  BY <1>23 DEF StopOwner, StopContainer, StopLxcStop, StopContainerTest
<1>24. CASE StopSweep
  BY <1>24 DEF StopSweep
<1>25. CASE StopSweepRefuse \/ StopNested \/ StopNestedRefuse
  BY <1>25 DEF StopSweepRefuse, StopNested, StopNestedRefuse
<1>26. CASE StopRearm
  BY <1>26 DEF StopRearm
<1>27. CASE StopRearmRefuse
  BY <1>27 DEF StopRearmRefuse
<1>28. CASE StopRearmSync
  BY <1>28 DEF StopRearmSync
<1>29. CASE StopUnmount \/ StopUnmountRefuse \/ StopAct
  BY <1>29 DEF StopUnmount, StopUnmountRefuse, StopAct
<1>30. CASE StayOff \/ UNCHANGED vars
  BY <1>30 DEF StayOff, vars
<1>31. QED
  BY <1>0, <1>1, <1>2, <1>3, <1>4, <1>5, <1>6, <1>7, <1>8, <1>9, <1>10, <1>11, <1>12, <1>13, <1>14, <1>15, <1>16, <1>17, <1>18, <1>19, <1>20, <1>21, <1>22, <1>23, <1>24, <1>25, <1>26, <1>27, <1>28, <1>29, <1>30
     DEF Next, StartStep, RuntimeStep, StopStep

\* Which edits leave the records alone.
LEMMA RecordsAside ==
    ASSUME NEW f \in Namespace
    PROVE  /\ \A b : SameRecords([f EXCEPT !.bootTemp = b], f)
           /\ \A b : SameRecords([f EXCEPT !.owned = b], f)
           /\ \A b : SameRecords([f EXCEPT !.selector = b], f)
           /\ \A b, c : SameRecords([f EXCEPT !.selector = b, !.consumed = c], f)
           /\ \A b, c : SameRecords([f EXCEPT !.consumed = b, !.selector = c], f)
           /\ \A b : SameRecords([f EXCEPT !.actionTemp = b], f)
           /\ \A b, c : SameRecords([f EXCEPT !.actionTemp = b, !.action = c], f)
<1>1. \A b : SameRecords([f EXCEPT !.bootTemp = b], f)
  BY DEF Namespace, SameRecords
<1>2. \A b : SameRecords([f EXCEPT !.owned = b], f)
  BY DEF Namespace, SameRecords
<1>3. \A b : SameRecords([f EXCEPT !.selector = b], f)
  BY DEF Namespace, SameRecords
<1>4. \A b, c : SameRecords([f EXCEPT !.selector = b, !.consumed = c], f)
  BY DEF Namespace, SameRecords
<1>5. \A b, c : SameRecords([f EXCEPT !.consumed = b, !.selector = c], f)
  BY DEF Namespace, SameRecords
<1>6. \A b : SameRecords([f EXCEPT !.actionTemp = b], f)
  BY DEF Namespace, SameRecords
<1>7. \A b, c : SameRecords([f EXCEPT !.actionTemp = b, !.action = c], f)
  BY DEF Namespace, SameRecords
<1>8. QED
  BY <1>1, <1>2, <1>3, <1>4, <1>5, <1>6, <1>7

LEMMA KeepsEdits ==
    ASSUME TypeOK
    PROVE  /\ SameRecords(fs', fs) /\ disk' = disk => Keeps
           /\ disk' \in {disk, fs} /\ fs' = fs => Keeps
  BY DEF Keeps, SameRecords

LEMMA StoreMoves ==
    TypeOK /\ [Next]_vars => Keeps \/ Sync \/ Falls \/ StartRotate \/ StageRename
<1> SUFFICES ASSUME TypeOK, [Next]_vars
             PROVE  Keeps \/ Sync \/ Falls \/ StartRotate \/ StageRename
  OBVIOUS
<1>f. ASSUME Down(disk) \/ \E lost, torn : Down(Crashed(disk, lost, torn)) PROVE Falls
  <2>1. disk \in Namespace
    BY DEF TypeOK
  <2>2. QED
    BY <1>f, <2>1, FallenRecords DEF Falls, Down
<1>t. fs \in Namespace
  BY DEF TypeOK
<1> USE <1>f, <1>t, KeepsEdits, RecordsAside DEF store
<1>1. CASE Boot
  BY <1>1 DEF Boot
<1>2. CASE ChargerReboot
  BY <1>2 DEF ChargerReboot
<1>3. CASE PowerLoss
  BY <1>3 DEF PowerLoss
<1>4. CASE Commit
  BY <1>4 DEF Commit
<1>5. CASE StartFails
  BY <1>5, Failed
<1>0. CASE StartMount \/ StartClean
  BY <1>0 DEF StartMount, StartClean
<1>6. CASE StartRotate
  BY <1>6 DEF StartRotate
<1>7. CASE StageWrite
  BY <1>7 DEF StageWrite
<1>8. CASE StageSync
  BY <1>8 DEF StageSync
<1>9. CASE StageRename
  BY <1>9 DEF StageRename
<1>10. CASE StartNoSelector \/ StartBadSelector
  BY <1>10 DEF StartNoSelector, StartBadSelector
<1>11. CASE StartPublish
  BY <1>11 DEF StartPublish
<1>12. CASE StartConsume
  BY <1>12 DEF StartConsume
<1>13. CASE StartConsumeSync
  BY <1>13 DEF StartConsumeSync
<1>14. CASE StartMounts \/ StartUdev \/ StartServices \/ StartWeston \/ StartTerminal
  BY <1>14 DEF StartMounts, StartUdev, StartServices, StartWeston, StartTerminal
<1>15. CASE \E s \in Services : ServiceCheck(s) \/ ServiceEnter(s) \/ ServiceEnded(s)
  BY <1>15 DEF ServiceCheck, ServiceEnter, ServiceEnded
<1>16. CASE PollEnter \/ PollEnded \/ AppStart \/ ContainerStart \/ ContainerFreeze \/ ContainerThaw
  BY <1>16 DEF PollEnter, PollEnded, AppStart, ContainerStart, ContainerFreeze, ContainerThaw
<1>17. CASE CoordinatorExit \/ \E p \in Procs : ProcExit(p)
  BY <1>17 DEF CoordinatorExit, ProcExit
<1>18. CASE Personalize
  BY <1>18 DEF Personalize
<1>19. CASE ArmSync
  BY <1>19 DEF ArmSync
<1>20. CASE Arm
  BY <1>20 DEF Arm
<1>21. CASE StopRequest \/ StopGate \/ StopCut
  BY <1>21 DEF StopRequest, StopGate, StopCut
<1>22. CASE StopRecordStarting \/ StopRecordReady
  <2>1. \/ disk' = disk /\ fs' = [fs EXCEPT !.actionTemp = TRUE]
        \/ disk' = disk /\ \E a : fs' = [fs EXCEPT !.actionTemp = FALSE, !.action = a]
        \/ Sync
    BY <1>22 DEF StopRecordStarting, StopRecordReady, ActionWrite, ActionRename, ActionSync
  <2>2. ASSUME fs' = [fs EXCEPT !.actionTemp = TRUE] PROVE SameRecords(fs', fs)
    BY <2>2
  <2>3. ASSUME NEW a, fs' = [fs EXCEPT !.actionTemp = FALSE, !.action = a]
        PROVE  SameRecords(fs', fs)
    BY <2>3
  <2>4. QED
    BY <2>1, <2>2, <2>3
<1>23. CASE StopOwner \/ StopContainer \/ StopLxcStop \/ StopContainerTest
  BY <1>23 DEF StopOwner, StopContainer, StopLxcStop, StopContainerTest
<1>24. CASE StopSweep
  BY <1>24 DEF StopSweep
<1>25. CASE StopSweepRefuse \/ StopNested \/ StopNestedRefuse
  BY <1>25 DEF StopSweepRefuse, StopNested, StopNestedRefuse
<1>26. CASE StopRearm
  <2>1. /\ disk' = disk
        /\ fs' = fs \/ fs' = [fs EXCEPT !.selector = fs.consumed, !.consumed = "absent"]
    BY <1>26 DEF StopRearm
  <2>2. SameRecords(fs', fs)
    BY <2>1 DEF SameRecords, Namespace
  <2>3. QED
    BY <2>1, <2>2
<1>27. CASE StopRearmRefuse
  BY <1>27 DEF StopRearmRefuse
<1>28. CASE StopRearmSync
  BY <1>28 DEF StopRearmSync
<1>29. CASE StopUnmount \/ StopUnmountRefuse \/ StopAct
  BY <1>29 DEF StopUnmount, StopUnmountRefuse, StopAct
<1>30. CASE StayOff \/ UNCHANGED vars
  BY <1>30 DEF StayOff, vars
<1>31. QED
  BY <1>0, <1>1, <1>2, <1>3, <1>4, <1>5, <1>6, <1>7, <1>8, <1>9, <1>10, <1>11, <1>12, <1>13, <1>14, <1>15, <1>16, <1>17, <1>18, <1>19, <1>20, <1>21, <1>22, <1>23, <1>24, <1>25, <1>26, <1>27, <1>28, <1>29, <1>30
     DEF Next, StartStep, RuntimeStep, StopStep

\* Until the rotation a record of an earlier boot is its own witness; afterwards it is the
\* previous record, which only a rotation changes.
LEMMA RecordsStep == TypeOK /\ Calm /\ BootRecords /\ [Next]_vars => BootRecords'
<1> SUFFICES ASSUME TypeOK, Calm, BootRecords, [Next]_vars PROVE BootRecords'
  OBVIOUS
<1>t. /\ fs \in Namespace /\ disk \in Namespace /\ boot \in Nat
      /\ fs' \in Namespace /\ disk' \in Namespace /\ boot' \in Nat
  BY TypeStep DEF TypeOK
<1>e. /\ fs.last \in BootEntry /\ fs.previous \in BootEntry
      /\ disk.last \in BootEntry /\ disk.previous \in BootEntry
      /\ fs'.last \in BootEntry /\ fs'.previous \in BootEntry
      /\ disk'.last \in BootEntry /\ disk'.previous \in BootEntry
  BY <1>t DEF Namespace
<1>1. CASE Boot
  <2>1. /\ UNCHANGED <<fs, disk, mounted>> /\ boot' = boot + 1 /\ startPc' \in {"off", "probe"}
        /\ fs = disk /\ NotDirty(disk)
    BY <1>1 DEF Boot, Calm, store, live
  <2>2. InOrder(fs)' /\ InOrder(disk)'
    BY <1>t, <1>e, <2>1 DEF BootRecords, InOrder, BootEntry
  <2>3. /\ fs'.last.boot < boot' /\ fs'.previous.boot < boot' /\ fs'.last.text # "dirty"
    BY <1>t, <1>e, <2>1 DEF BootRecords, InOrder, BootEntry, NotDirty
  <2>4. fs' = disk'
    BY <2>1
  <2>5. \A e \in Durable(disk)' : \E g \in Durable(fs)' : e.boot <= g.boot
    BY <1>t, <1>e, <2>4 DEF Durable, Records, BootEntry
  <2>6. QED
    BY <2>1, <2>2, <2>3, <2>4, <2>5 DEF BootRecords, Early
<1>2. CASE StartRotate
  <2>1. /\ up /\ startPc = "rotate" /\ UNCHANGED <<up, boot, disk, mounted>>
        /\ startPc' = "select"
    BY <1>2 DEF StartRotate, At, Goto, Record, power, live
  <2>2. /\ fs.last = disk.last /\ fs.previous = disk.previous /\ fs.last.text # "dirty"
        /\ fs.last.boot < boot /\ fs.previous.boot < boot /\ InOrder(fs)
    BY <2>1 DEF BootRecords, Early
  <2>d. Durable(disk)' = Durable(disk) /\ Durable(disk) = Durable(fs) /\ InOrder(disk)'
    BY <2>1, <2>2 DEF Durable, Records, BootRecords, InOrder
  <2>3. CASE mounted /\ fs.last # NoBootEntry
    <3>1. fs'.last = NoBootEntry /\ fs'.previous = fs.last
      BY <1>2, <2>3, <1>t DEF StartRotate, Namespace
    <3>2. InOrder(fs)'
      BY <1>t, <1>e, <2>1, <2>2, <3>1 DEF InOrder, NoBootEntry
    <3>3. fs.last.text \in {"empty", "good"}
      BY <1>e, <2>2, <2>3 DEF InOrder, BootEntry, Marker
    <3>4. ASSUME fs.last.text = "good", NEW e \in Durable(disk)'
          PROVE  \E g \in Durable(fs)' : e.boot <= g.boot
      <4>1. e \in {fs.last, fs.previous}
        BY <2>d DEF Durable, Records
      <4>2. e.boot <= fs.last.boot
        BY <1>e, <2>2, <2>3, <4>1 DEF InOrder, BootEntry
      <4>3. fs.last \in Durable(fs)'
        BY <3>1, <3>4, <2>1, <2>2 DEF Durable, Records
      <4>4. QED
        BY <4>2, <4>3
    <3>5. QED
      BY <2>1, <2>d, <3>1, <3>2, <3>3, <3>4 DEF BootRecords, Early
  <2>4. CASE ~(mounted /\ fs.last # NoBootEntry)
    <3>1. fs' = fs
      BY <1>2, <2>4 DEF StartRotate
    <3>2. Durable(fs)' = Durable(fs) /\ InOrder(fs)'
      BY <2>1, <2>2, <3>1 DEF Durable, Records, InOrder
    <3>3. \A e \in Durable(fs) : e.boot <= e.boot
      BY <1>e DEF Durable, Records, BootEntry
    <3>4. QED
      BY <2>1, <2>4, <2>d, <3>1, <3>2, <3>3 DEF BootRecords, Early
  <2>5. QED
    BY <2>3, <2>4
<1>3. CASE StageRename
  <2>1. /\ up /\ UNCHANGED <<up, boot, disk, startPc, mounted>> /\ jstep = "rename"
    BY <1>3 DEF StageRename, power, live
  <2>2. startPc \notin Early \cup {"failed"}
    BY <2>1 DEF Calm
  <2>d. Durable(disk)' = Durable(disk) /\ InOrder(disk)'
    BY <2>1 DEF Durable, Records, BootRecords, InOrder
  <2>3. CASE mounted
    <3> DEFINE e == [boot |-> boot, text |-> "dirty"]
    <3>1. e \in BootEntry /\ e.boot = boot /\ e.text = "dirty"
      BY <1>t DEF BootEntry, Marker
    <3>2. fs' = [fs EXCEPT !.bootTemp = FALSE, !.last = e]
      BY <1>3, <2>3 DEF StageRename
    <3> HIDE DEF e
    <3>3. fs'.last = e /\ fs'.previous = fs.previous
      BY <1>t, <3>2 DEF Namespace
    <3>4. fs.last = NoBootEntry \/ fs.last.boot = boot
      BY <2>1, <2>2, <2>3 DEF BootRecords
    <3>5. Durable(fs) \subseteq Durable(fs)'
      BY <1>t, <1>e, <2>1, <3>3, <3>4 DEF Durable, Records, BootEntry, NoBootEntry
    <3>6. InOrder(fs)'
      BY <1>t, <1>e, <2>1, <3>1, <3>3 DEF BootRecords, InOrder, BootEntry
    <3>7. \/ fs'.previous.text = "empty"
          \/ \A d \in Durable(disk)' : \E g \in Durable(fs)' : d.boot <= g.boot
      BY <2>1, <2>d, <3>3, <3>5 DEF BootRecords
    <3>8. QED
      BY <2>1, <2>2, <2>d, <3>1, <3>3, <3>6, <3>7 DEF BootRecords
  <2>4. CASE ~mounted
    <3>1. fs' = fs
      BY <1>3, <2>4 DEF StageRename
    <3>2. Durable(fs)' = Durable(fs) /\ InOrder(fs)'
      BY <2>1, <3>1 DEF Durable, Records, BootRecords, InOrder
    <3>3. QED
      BY <2>1, <2>2, <2>4, <2>d, <3>1, <3>2 DEF BootRecords
  <2>5. QED
    BY <2>3, <2>4
<1>4. CASE Falls
  <2>1. InOrder(disk)'
    BY <1>t, <1>e, <1>4 DEF Falls, Weathered, BootRecords, InOrder
  <2>2. InOrder(fs)'
    BY <1>4, <2>1 DEF Falls, InOrder
  <2>3. QED
    BY <1>4, <2>1, <2>2 DEF Falls, BootRecords
<1>5. CASE Keeps /\ (Runs \/ Stops)
  <2>1. boot' = boot /\ fs'.last = fs.last /\ fs'.previous = fs.previous
    BY <1>5 DEF Keeps, SameRecords, Runs, Stops
  <2>2. \/ disk'.last = disk.last /\ disk'.previous = disk.previous
        \/ disk'.last = fs.last /\ disk'.previous = fs.previous
    BY <1>5 DEF Keeps, SameRecords
  <2>3. InOrder(fs)' /\ InOrder(disk)'
    BY <2>1, <2>2 DEF BootRecords, InOrder
  <2>4. Durable(fs)' = Durable(fs) /\ Durable(disk)' \in {Durable(disk), Durable(fs)}
    BY <2>1, <2>2 DEF Durable, Records
  <2>5. \A e \in Durable(fs) : e.boot <= e.boot
    BY <1>e DEF Durable, Records, BootEntry
  <2>6. CASE Stops
    BY <2>3, <2>6 DEF BootRecords, Stops
  <2>7. CASE Runs
    <3>1. up' = up /\ (startPc' \in Early => startPc \in Early)
      BY <2>7 DEF Runs
    <3>2. up' /\ startPc' \in Early =>
              /\ fs'.last = disk'.last /\ fs'.previous = disk'.previous
              /\ fs'.last.text # "dirty"
              /\ fs'.last.boot < boot' /\ fs'.previous.boot < boot'
      BY <2>1, <2>2, <3>1 DEF BootRecords
    <3>3. up' /\ mounted' /\ startPc' \notin Early \cup {"failed"} =>
              fs'.last = NoBootEntry \/ fs'.last.boot = boot'
      BY <2>7, <2>1, <1>5 DEF Runs, BootRecords
    <3>4. up' => \/ fs'.previous.text = "empty" /\ startPc' \notin Early
                 \/ \A e \in Durable(disk)' : \E g \in Durable(fs)' : e.boot <= g.boot
      BY <2>1, <2>4, <2>5, <3>1 DEF BootRecords
    <3>5. QED
      BY <2>3, <3>2, <3>3, <3>4 DEF BootRecords
  <2>8. QED
    BY <1>5, <2>6, <2>7
<1>6. CASE Sync /\ (Runs \/ Stops)
  <2>1. boot' = boot /\ fs' = disk' /\ Weathered(fs', fs)
    BY <1>6, <1>t, SyncedRecords DEF Sync, Runs, Stops
  <2>2. InOrder(fs)' /\ InOrder(disk)'
    BY <1>t, <1>e, <2>1 DEF Weathered, BootRecords, InOrder
  <2>3. \A e \in Durable(disk)' : \E g \in Durable(fs)' : e.boot <= g.boot
    BY <1>e, <2>1 DEF Durable, Records, BootEntry
  <2>4. CASE Stops
    BY <2>2, <2>4 DEF BootRecords, Stops
  <2>5. CASE Runs
    <3>1. up' /\ startPc' \in Early =>
              fs'.last.boot < boot' /\ fs'.previous.boot < boot' /\ fs'.last.text # "dirty"
      BY <2>1, <2>5 DEF BootRecords, Runs, Weathered, NotDirty
    <3>2. up' /\ mounted' /\ startPc' \notin Early \cup {"failed"} =>
              fs'.last = NoBootEntry \/ fs'.last.boot = boot'
      <4>1. fs.last = NoBootEntry \/ fs.last.boot = boot => fs'.last = NoBootEntry \/ fs'.last.boot = boot
        BY <2>1 DEF Weathered
      <4>2. QED
        BY <4>1, <2>1, <2>5, <1>6 DEF Runs, BootRecords
    <3>3. QED
      BY <2>1, <2>2, <2>3, <3>1, <3>2 DEF BootRecords
  <2>6. QED
    BY <1>6, <2>4, <2>5
<1>7. QED
  BY <1>1, <1>2, <1>3, <1>4, <1>5, <1>6, ClockMoves, StoreMoves

-----------------------------------------------------------------------------
(***************************************************************************)
(* The invariant of the journals, and what follows from it.                *)
(***************************************************************************)
JournalInv ==
    TypeOK /\ Discipline /\ Calm /\ Actions /\ Returnable /\ Rearmed /\ BootRecords

LEMMA ProvisionedFields ==
    ASSUME NEW m \in Marker
    PROVE  LET f == Provisioned(m)
           IN /\ f.selector = m /\ f.consumed = "absent" /\ ~f.actionTemp
              /\ f.last = NoBootEntry /\ f.previous = NoBootEntry /\ f.action = NoActionEntry
  BY DEF Provisioned

LEMMA JournalInit == Init => JournalInv
<1> SUFFICES ASSUME Init PROVE JournalInv
  OBVIOUS
<1>1. /\ disk.selector \in {"absent", "good"} /\ disk.consumed = "absent" /\ ~disk.actionTemp
      /\ disk.last = NoBootEntry /\ disk.previous = NoBootEntry /\ disk.action = NoActionEntry
      /\ fs = disk
  BY ProvisionedFields DEF Init, Marker
<1>2. Calm
  BY <1>1 DEF Init, Calm, NotDirty, Early, NoBootEntry
<1>3. Actions /\ Rearmed
  BY <1>1, RootsDiffer DEF Init, Actions, Rearmed, Ready, NoActionEntry
<1>4. Returnable
  BY RootsDiffer DEF Init, Returnable
<1>5. BootRecords
  BY <1>1 DEF Init, BootRecords, InOrder, NoBootEntry
<1>6. QED
  BY <1>2, <1>3, <1>4, <1>5, TypeInit, DisciplineInit DEF JournalInv

LEMMA JournalInvariant == Spec => []JournalInv
<1>1. JournalInv /\ [Next]_vars => JournalInv'
  BY TypeStep, DisciplineStep, CalmStep, ActionsStep, ReturnableStep, RearmedStep,
     RecordsStep DEF JournalInv
<1>2. QED
  BY <1>1, JournalInit, PTL DEF Spec

\* A helper of stop-ubuntu-remote that one of its tests refused past the journal gate left
\* no temporary: the next request in this boot is not blocked by it.
THEOREM RefusedIsRetried == Spec => RefusalCanBeRetried
<1>1. JournalInv /\ [Next]_vars =>
         [stopPc # "gate" /\ stopPc' = "refused" /\ stopPc # "refused" => ~fs.actionTemp]_vars
  <2> SUFFICES ASSUME JournalInv, [Next]_vars,
                      stopPc # "gate", stopPc' = "refused", stopPc # "refused"
               PROVE  ~fs.actionTemp
    OBVIOUS
  <2> USE DEF At, Goto, Record, Halting, HaltAt, Down, store, power, startup, live, stop
  <2>1. stopPc \notin {"idle", "gate", "refused", "cut", "startingRename", "readyRename"}
    <3>1. CASE StartStep \/ StartFails
      BY <3>1 DEF StartStep, StartFails, StartMount, StartClean, StartRotate, StageWrite,
             StageRename, StageSync, StartNoSelector, StartBadSelector, StartConsume,
             StartConsumeSync, StartPublish, StartMounts, StartUdev, StartServices,
             StartWeston, StartTerminal
    <3>2. CASE RuntimeStep
      BY <3>2 DEF RuntimeStep, ServiceCheck, ServiceEnter, ServiceEnded, PollEnter, PollEnded,
             AppStart, ContainerStart, ContainerFreeze, ContainerThaw, CoordinatorExit,
             ProcExit, Personalize, Arm, ArmSync
    <3>3. CASE StopStep
      BY <3>3 DEF StopStep, StopGate, StopRecordStarting, ActionWrite, ActionRename,
             ActionSync, StopOwner, StopContainer, StopLxcStop, StopContainerTest, StopSweep,
             StopSweepRefuse, StopNested, StopNestedRefuse, StopRearm, StopRearmRefuse,
             StopRearmSync, StopRecordReady, StopUnmount, StopUnmountRefuse, StopAct
    <3>4. CASE Boot \/ ChargerReboot \/ PowerLoss \/ Commit \/ StayOff \/ StopRequest
               \/ StopCut \/ UNCHANGED vars
      BY <3>4 DEF Boot, ChargerReboot, PowerLoss, Commit, StayOff, StopRequest, StopCut, vars
    <3>5. QED
      BY <3>1, <3>2, <3>3, <3>4 DEF Next
  <2>2. QED
    BY <2>1 DEF JournalInv, Actions
<1>2. QED
  BY <1>1, JournalInvariant, PTL DEF Spec, RefusalCanBeRetried

\* Whatever the power does while the clean root is armed, a clean root that runs was
\* entered with a whole selector, and start-ubuntu and the stop helper only move it.
THEOREM RunningRootReturns == Spec => []CleanRootReturnable
<1>1. JournalInv => CleanRootReturnable
  BY RootsDiffer DEF JournalInv, Discipline, Returnable, CleanRootReturnable
<1>2. QED
  BY <1>1, JournalInvariant, PTL

\* Once storage says that the stop of the clean root was ready to unmount, storage also
\* holds the complete selector that brings the next boot back to it.
THEOREM ReadyReturns == Spec => []RecordedReadyReturns
<1>1. JournalInv => RecordedReadyReturns
  BY DEF JournalInv, Rearmed, Ready, RecordedReadyReturns
<1>2. QED
  BY <1>1, JournalInvariant, PTL

\* No step of the scripts, no commit and no power loss takes the last durable record of an
\* earlier boot, unless the rotation puts one over it that an earlier power loss emptied.
THEOREM EarlierRecordSurvives == Spec => EarlierRecordKept
<1>1. JournalInv /\ [Next]_vars => 
         [\A e \in Records(disk) : e.text = "good" /\ e.boot < boot => Outlived(e)]_disk
  <2> SUFFICES ASSUME JournalInv, [Next]_vars, disk' # disk,
                      NEW e \in Records(disk), e.text = "good", e.boot < boot
               PROVE  Outlived(e)
    OBVIOUS
  <2> USE DEF Outlived
  <2>t. /\ fs \in Namespace /\ disk \in Namespace /\ boot \in Nat /\ boot' \in Nat
        /\ fs.last \in BootEntry /\ fs.previous \in BootEntry
        /\ disk.last \in BootEntry /\ disk.previous \in BootEntry
    BY TypeStep DEF JournalInv, TypeOK, Namespace
  <2>e. e \in BootEntry /\ e.boot >= e.boot /\ e \in Durable(disk)
    BY <2>t DEF Records, BootEntry, Durable
  <2>s. SameRecords(disk', disk) => Outlived(e)
    BY <2>e DEF SameRecords, Records
  <2>u. up \/ fs = disk
    BY DEF JournalInv, Calm
  <2>w. \/ fs.previous.text = "empty"
        \/ \E g \in Records(fs) : g.text = "good" /\ g.boot >= e.boot
    <3>1. CASE fs = disk
      BY <3>1, <2>e
    <3>2. CASE up
      <4>1. ASSUME NEW g \in Durable(fs), e.boot <= g.boot
            PROVE  g \in Records(fs) /\ g.text = "good" /\ g.boot >= e.boot
        BY <4>1, <2>t, <2>e DEF Durable, Records, BootEntry
      <4>2. QED
        BY <4>1, <3>2, <2>e DEF JournalInv, BootRecords
    <3>3. QED
      BY <3>1, <3>2, <2>u
  <2>1. CASE Keeps
    <3>1. CASE SameRecords(disk', fs)
      BY <3>1, <2>w DEF SameRecords, Records
    <3>2. QED
      BY <2>1, <2>s, <3>1 DEF Keeps
  <2>2. CASE Sync
    <3>1. Weathered(disk', fs)
      BY <2>2, <2>t, SyncedRecords DEF Sync
    <3>2. QED
      BY <3>1, <2>w DEF Weathered, Records
  <2>3. CASE Falls
    <3>1. CASE Weathered(disk', disk)
      BY <3>1, <2>e DEF Weathered, Records
    <3>2. QED
      BY <2>3, <3>1 DEF Falls
  <2>4. CASE StartRotate \/ StageRename
    BY <2>4 DEF StartRotate, StageRename
  <2>5. QED
    BY <2>1, <2>2, <2>3, <2>4, StoreMoves DEF JournalInv
<1>2. QED
  BY <1>1, JournalInvariant, PTL DEF Spec, EarlierRecordKept

\* A charger boot leaves storage as it found it, and with it the one-shot selector.
THEOREM ChargerBootIsClean == Spec => [][charger => UNCHANGED disk]_vars
<1>1. JournalInv /\ [Next]_vars => [charger => UNCHANGED disk]_vars
  <2> SUFFICES ASSUME JournalInv, [Next]_vars, charger PROVE disk' = disk
    OBVIOUS
  <2>t. /\ fs \in Namespace /\ disk \in Namespace
        /\ \A lost, torn : Crashed(disk, lost, torn) = disk
    BY FallenSame DEF JournalInv, TypeOK, Calm
  <2>c. startPc = "off" /\ jstep = "idle" /\ procs = {} /\ stopPc = "idle" /\ ~mounted
    BY DEF JournalInv, Calm
  <2> USE <2>t, <2>c DEF store, At, Halting
  <2>1. CASE Boot
    BY <2>1 DEF Boot
  <2>2. CASE ChargerReboot
    BY <2>2 DEF ChargerReboot, Down
  <2>3. CASE PowerLoss
    BY <2>3 DEF PowerLoss, Down
  <2>4. CASE Commit
    BY <2>4 DEF Commit
  <2>5. CASE StartFails
    BY <2>5, Failed
  <2>0. CASE StartMount \/ StartClean
    BY <2>0 DEF StartMount, StartClean
  <2>6. CASE StartRotate
    BY <2>6 DEF StartRotate
  <2>7. CASE StageWrite
    BY <2>7 DEF StageWrite
  <2>8. CASE StageSync
    BY <2>8 DEF StageSync
  <2>9. CASE StageRename
    BY <2>9 DEF StageRename
  <2>10. CASE StartNoSelector \/ StartBadSelector
    BY <2>10 DEF StartNoSelector, StartBadSelector
  <2>11. CASE StartPublish
    BY <2>11 DEF StartPublish
  <2>12. CASE StartConsume
    BY <2>12 DEF StartConsume
  <2>13. CASE StartConsumeSync
    BY <2>13 DEF StartConsumeSync
  <2>14. CASE StartMounts \/ StartUdev \/ StartServices \/ StartWeston \/ StartTerminal
    BY <2>14 DEF StartMounts, StartUdev, StartServices, StartWeston, StartTerminal
  <2>15. CASE \E s \in Services : ServiceCheck(s) \/ ServiceEnter(s) \/ ServiceEnded(s)
    BY <2>15 DEF ServiceCheck, ServiceEnter, ServiceEnded
  <2>16. CASE PollEnter \/ PollEnded \/ AppStart \/ ContainerStart \/ ContainerFreeze \/ ContainerThaw
    BY <2>16 DEF PollEnter, PollEnded, AppStart, ContainerStart, ContainerFreeze, ContainerThaw
  <2>17. CASE CoordinatorExit \/ \E p \in Procs : ProcExit(p)
    BY <2>17 DEF CoordinatorExit, ProcExit
  <2>18. CASE Personalize
    BY <2>18 DEF Personalize
  <2>19. CASE ArmSync
    BY <2>19 DEF ArmSync
  <2>20. CASE Arm
    BY <2>20 DEF Arm
  <2>21. CASE StopRequest \/ StopGate \/ StopCut
    BY <2>21 DEF StopRequest, StopGate, StopCut
  <2>22. CASE StopRecordStarting \/ StopRecordReady
    BY <2>22 DEF StopRecordStarting, StopRecordReady, ActionWrite, ActionRename, ActionSync
  <2>23. CASE StopOwner \/ StopContainer \/ StopLxcStop \/ StopContainerTest
    BY <2>23 DEF StopOwner, StopContainer, StopLxcStop, StopContainerTest
  <2>24. CASE StopSweep
    BY <2>24 DEF StopSweep
  <2>25. CASE StopSweepRefuse \/ StopNested \/ StopNestedRefuse
    BY <2>25 DEF StopSweepRefuse, StopNested, StopNestedRefuse
  <2>26. CASE StopRearm
    BY <2>26 DEF StopRearm
  <2>27. CASE StopRearmRefuse
    BY <2>27 DEF StopRearmRefuse
  <2>28. CASE StopRearmSync
    BY <2>28 DEF StopRearmSync
  <2>29. CASE StopUnmount \/ StopUnmountRefuse \/ StopAct
    BY <2>29 DEF StopUnmount, StopUnmountRefuse, StopAct
  <2>30. CASE StayOff \/ UNCHANGED vars
    BY <2>30 DEF StayOff, vars
  <2>31. QED
    BY <2>0, <2>1, <2>2, <2>3, <2>4, <2>5, <2>6, <2>7, <2>8, <2>9, <2>10, <2>11, <2>12, <2>13, <2>14, <2>15, <2>16, <2>17, <2>18, <2>19, <2>20, <2>21, <2>22, <2>23, <2>24, <2>25, <2>26, <2>27, <2>28, <2>29, <2>30
       DEF Next, StartStep, RuntimeStep, StopStep
<1>2. QED
  BY <1>1, JournalInvariant, PTL DEF Spec
=============================================================================
