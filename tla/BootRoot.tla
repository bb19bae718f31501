------------------------------ MODULE BootRoot ------------------------------
(***************************************************************************)
(* The persistent boot image of the tablet: PID 1 (persistent/init), the   *)
(* startup script (persistent/start-ubuntu) and the orderly stop helper    *)
(* that is embedded as /bin/stop-ubuntu (ubuntu/stop-ubuntu-remote).       *)
(*                                                                         *)
(* The scripts share the namespace of the userdata filesystem: the         *)
(* one-shot root selector, two journals and their temporaries.  A power    *)
(* loss may come between any two steps, so the namespace is kept twice:    *)
(* fs is what the running kernel sees and disk is what a power loss would  *)
(* leave.                                                                  *)
(***************************************************************************)
EXTENDS Naturals, FiniteSets

CONSTANTS
    Host, Cand,       \* the normal root and the rehearsed clean root
    NoRoot,           \* no root published in /run/t630-selected-root
    CoreServices,     \* the services supervised before weston
    RemoteHelper,     \* t630-remote-start is installed in the root
    Waydroid,         \* lxc-info is installed in the root
    CommandsFail,     \* bound: commands fail and helpers are killed at all
    MaxBoots          \* bound: how many boots a behaviour has

ASSUME RootsDiffer == Host # Cand /\ Host # NoRoot /\ Cand # NoRoot
ASSUME BootsBound  == MaxBoots \in Nat \ {0}
ASSUME Features    == RemoteHelper \in BOOLEAN /\ Waydroid \in BOOLEAN
                      /\ CommandsFail \in BOOLEAN

Roots    == {Host, Cand}
Services == CoreServices \cup {"weston"}

\* Processes whose root directory is the selected Ubuntu root.  "app" stands for
\* all that nobody respawns: udevd, the root terminal, the desktop's programs.
Procs == Services \cup {"app", "poll", "arm", "waydroid"}

\* A file: missing, named but with no content after a power loss, written but
\* not synced, or durable.
Marker == {"absent", "empty", "dirty", "good"}

\* One record of the boot journal.  "boot" is a history number, the boot that
\* wrote the record even when its text is lost; which of its stages it names is
\* left out.
BootEntry   == [boot : Nat, text : Marker]
NoBootEntry == [boot |-> 0, text |-> "absent"]

\* One record of the system-action journal, with the boot that wrote it.  No
\* program reads it: the record stands for what was written under that name, also
\* when a power loss took the text.
ActionEntry   == [boot : Nat, root : Roots \cup {NoRoot},
                  stage : {"none", "starting", "ready-to-unmount"}]
NoActionEntry == [boot |-> 0, root |-> NoRoot, stage |-> "none"]

Namespace == [selector : Marker, consumed : Marker,
              last : BootEntry, previous : BootEntry, bootTemp : BOOLEAN,
              action : ActionEntry, actionTemp : BOOLEAN,
              owned : SUBSET Roots]

\* sync makes names and contents durable; a power loss may empty a file that was
\* named on disk but whose content had not been written: the selector, a record of
\* the boot journal, or both.
Settled(m)    == IF m = "dirty" THEN "good" ELSE m
Torn(m, lost) == IF m = "dirty" /\ lost THEN "empty" ELSE Settled(m)
Synced(f)     == [f EXCEPT !.selector = Settled(@), !.consumed = Settled(@),
                           !.last.text = Settled(@), !.previous.text = Settled(@)]
Crashed(f, lost, torn) ==
    [f EXCEPT !.selector = Torn(@, lost), !.consumed = Torn(@, lost),
              !.last.text = Torn(@, torn), !.previous.text = Torn(@, torn)]

VARIABLES
    disk,       \* the namespace a power loss leaves
    fs,         \* the namespace the running kernel sees
    up,         \* the kernel is running
    boot,       \* number of this boot (of the last one while powered off)
    charger,    \* this boot is a charger/LPM boot
    startPc,    \* where start-ubuntu is
    jstep,      \* the step of the boot_stage call start-ubuntu is in
    root,       \* the variable root of start-ubuntu
    selected,   \* /run/t630-selected-root
    mounted,    \* userdata is mounted on /run/ubuntu
    mounts,     \* the nested mounts below the root exist
    procs,      \* processes rooted in the root
    svc,        \* the respawn loop of each service
    poll,       \* the loop that waits for Wi-Fi to run t630-remote-start
    container,  \* state lxc-info reports of the Waydroid container
    stopping,   \* /run/t630-stopping exists
    stopPc,     \* where the stop helper is
    stopRoot    \* the variable root of the stop helper

power   == <<up, boot, charger>>
store   == <<disk, fs>>
startup == <<startPc, jstep, root, selected>>
live    == <<mounted, mounts, procs, svc, poll, container>>
stop    == <<stopping, stopPc, stopRoot>>
vars    == <<disk, fs, up, boot, charger, startPc, jstep, root, selected,
             mounted, mounts, procs, svc, poll, container,
             stopping, stopPc, stopRoot>>

\* The storage of a provisioned tablet that was never booted with this image,
\* with or without the clean root armed by tools/arm_rehearsal_boot.sh.
Provisioned(marker) ==
    [selector |-> marker, consumed |-> "absent",
     last |-> NoBootEntry, previous |-> NoBootEntry, bootTemp |-> FALSE,
     action |-> NoActionEntry, actionTemp |-> FALSE, owned |-> {Host}]

\* Everything that lives in RAM has its value of a powered-off tablet.
Init ==
    /\ disk \in {Provisioned("absent"), Provisioned("good")}
    /\ fs = disk
    /\ up = FALSE /\ boot = 0 /\ charger = FALSE
    /\ startPc = "off" /\ jstep = "idle"
    /\ root = Host /\ selected = NoRoot
    /\ mounted = FALSE /\ mounts = FALSE /\ procs = {}
    /\ svc = [s \in Services |-> "off"] /\ poll = "off"
    /\ container = "STOPPED"
    /\ stopping = FALSE /\ stopPc = "idle" /\ stopRoot = NoRoot

\* The kernel stops and leaves namespace f on the storage.
Down(f) ==
    /\ disk' = f
    /\ fs' = f
    /\ up' = FALSE /\ charger' = FALSE
    /\ startPc' = "off" /\ jstep' = "idle"
    /\ root' = Host /\ selected' = NoRoot
    /\ mounted' = FALSE /\ mounts' = FALSE /\ procs' = {}
    /\ svc' = [s \in Services |-> "off"] /\ poll' = "off"
    /\ container' = "STOPPED"
    /\ stopping' = FALSE /\ stopPc' = "idle" /\ stopRoot' = NoRoot
    /\ UNCHANGED boot

Sync == /\ disk' = Synced(fs)
        /\ fs' = Synced(fs)

-----------------------------------------------------------------------------
(***************************************************************************)
(* Power and PID 1.                                                        *)
(***************************************************************************)

\* Mutant: PID 1 starts start-ubuntu on a charger boot too.
BootAlwaysStarts ==
    /\ ~up /\ boot < MaxBoots
    /\ up' = TRUE /\ boot' = boot + 1
    /\ charger' \in BOOLEAN
    /\ startPc' = "probe"
    /\ UNCHANGED <<store, jstep, root, selected, live, stop>>

\* The boot image starts PID 1; start-ubuntu runs only on a normal boot.
Boot ==
    /\ ~up /\ boot < MaxBoots
    /\ up' = TRUE /\ boot' = boot + 1
    /\ charger' \in BOOLEAN
    /\ startPc' = IF charger' THEN "off" ELSE "probe"
    /\ UNCHANGED <<store, jstep, root, selected, live, stop>>

\* A charger boot leaves before anything of userdata is touched.
ChargerReboot == up /\ charger /\ Down(disk)

\* Power is lost or the hardware resets, with no warning.
PowerLoss == up /\ \E lost, torn \in BOOLEAN : Down(Crashed(disk, lost, torn))

\* The kernel commits the names; contents may follow later.
Commit ==
    /\ mounted /\ disk # fs
    /\ disk' = fs
    /\ UNCHANGED <<fs, power, startup, live, stop>>

\* The powered-off tablet of the last boot of a behaviour stays off.
StayOff == ~up /\ boot = MaxBoots /\ UNCHANGED vars

-----------------------------------------------------------------------------
(***************************************************************************)
(* start-ubuntu.                                                           *)
(***************************************************************************)

At(pc)  == up /\ startPc = pc /\ jstep = "idle"
Goto(pc) == startPc' = pc

\* Continue at pc after a boot_stage has been recorded.
Record(pc) == jstep' = "write" /\ Goto(pc)

\* set -eu: any command that fails ends the script where it is, in boot_stage
\* too, and leaves what it has done: no block device, an unexpected geometry or
\* identity, files of another kind than expected, a full or read-only
\* filesystem, a mount, a module or udevd that does not come up.  The loops in
\* the background go on.
StartFails ==
    /\ CommandsFail
    /\ up /\ startPc \notin {"off", "failed"} /\ ~At("wait")
    /\ startPc' = "failed" /\ jstep' = "idle"
    /\ mounts' \in IF At("mounts") /\ mounted THEN {mounts, TRUE} ELSE {mounts}
    /\ procs' \in IF At("udev") /\ mounted THEN {procs, procs \cup {"app"}} ELSE {procs}
    /\ UNCHANGED <<store, power, root, selected,
                   mounted, svc, poll, container, stop>>

StartMount ==
    /\ At("probe") /\ Goto("clean")
    /\ mounted' = TRUE
    /\ UNCHANGED <<store, power, jstep, root, selected,
                   mounts, procs, svc, poll, container, stop>>

\* A temporary of an interrupted boot_stage is removed ...
StartClean ==
    /\ At("clean") /\ Goto("rotate")
    /\ fs' = IF mounted THEN [fs EXCEPT !.bootTemp = FALSE] ELSE fs
    /\ UNCHANGED <<disk, power, jstep, root, selected, live, stop>>

\* Mutant: the journal of the last boot is removed.
StartRotateDrops ==
    /\ At("rotate") /\ Record("select")
    /\ fs' = IF mounted THEN [fs EXCEPT !.last = NoBootEntry] ELSE fs
    /\ UNCHANGED <<disk, power, root, selected, live, stop>>

\* ... and the journal of the last boot becomes the previous one.
StartRotate ==
    /\ At("rotate") /\ Record("select")
    /\ fs' = IF mounted /\ fs.last # NoBootEntry
             THEN [fs EXCEPT !.previous = fs.last, !.last = NoBootEntry]
             ELSE fs
    /\ UNCHANGED <<disk, power, root, selected, live, stop>>

\* boot_stage: write the temporary, rename it, sync.  Once the stop helper has
\* unmounted userdata the paths name the directory below the mount point.
StageWrite ==
    /\ up /\ jstep = "write" /\ jstep' = "rename"
    /\ fs' = IF mounted THEN [fs EXCEPT !.bootTemp = TRUE] ELSE fs
    /\ UNCHANGED <<disk, power, startPc, root, selected, live, stop>>

StageRename ==
    /\ up /\ jstep = "rename" /\ jstep' = "sync"
    /\ fs' = IF mounted
             THEN [fs EXCEPT !.bootTemp = FALSE,
                             !.last = [boot |-> boot, text |-> "dirty"]]
             ELSE fs
    /\ UNCHANGED <<disk, power, startPc, root, selected, live, stop>>

StageSync ==
    /\ up /\ jstep = "sync" /\ jstep' = "idle"
    /\ Sync
    /\ UNCHANGED <<power, startPc, root, selected, live, stop>>

\* No selector: the normal root.
StartNoSelector ==
    /\ At("select") /\ Goto("publish")
    /\ mounted => fs.selector = "absent"
    /\ UNCHANGED <<store, power, jstep, root, selected, live, stop>>

\* A selector that does not hold the one accepted path ends start-ubuntu.
StartBadSelector ==
    /\ At("select") /\ mounted /\ fs.selector = "empty"
    /\ Goto("failed")
    /\ UNCHANGED <<store, power, jstep, root, selected, live, stop>>

\* Mutant: the selector is copied, not moved.
StartConsumeCopies ==
    /\ At("select") /\ mounted /\ fs.selector \in {"dirty", "good"}
    /\ Goto("consumed")
    /\ fs' = [fs EXCEPT !.consumed = fs.selector]
    /\ UNCHANGED <<disk, power, jstep, root, selected, live, stop>>

\* Mutant: what the selector holds is not looked at.
StartConsumeAny ==
    /\ At("select") /\ mounted /\ fs.selector # "absent"
    /\ Goto("consumed")
    /\ fs' = [fs EXCEPT !.consumed = fs.selector, !.selector = "absent"]
    /\ UNCHANGED <<disk, power, jstep, root, selected, live, stop>>

StartConsume ==
    /\ At("select") /\ mounted /\ fs.selector \in {"dirty", "good"}
    /\ Goto("consumed")
    /\ fs' = [fs EXCEPT !.consumed = fs.selector, !.selector = "absent"]
    /\ UNCHANGED <<disk, power, jstep, root, selected, live, stop>>

\* Mutant: the clean root is chosen without the sync.
StartConsumeNoSync ==
    /\ At("consumed") /\ Goto("publish")
    /\ root' = Cand
    /\ UNCHANGED <<store, power, jstep, selected, live, stop>>

StartConsumeSync ==
    /\ At("consumed") /\ Record("publish")
    /\ Sync
    /\ root' = Cand
    /\ UNCHANGED <<power, selected, live, stop>>

StartPublish ==
    /\ At("publish") /\ Goto("mounts")
    /\ selected' = root
    /\ UNCHANGED <<store, power, jstep, root, live, stop>>

\* The six mounts below the root; without userdata the root is an empty
\* directory and the next module load ends the script.
StartMounts ==
    /\ At("mounts")
    /\ IF mounted
       THEN mounts' = TRUE /\ Record("udev")
       ELSE UNCHANGED <<mounts, jstep>> /\ Goto("failed")
    /\ UNCHANGED <<store, power, root, selected,
                   mounted, procs, svc, poll, container, stop>>

StartUdev ==
    /\ At("udev")
    /\ IF mounted
       THEN procs' = procs \cup {"app"} /\ Record("services")
       ELSE UNCHANGED <<procs, jstep>> /\ Goto("failed")
    /\ UNCHANGED <<store, power, root, selected,
                   mounted, mounts, svc, poll, container, stop>>

\* Mutant: the services wait for Wi-Fi without a bound.
StartServicesWaits ==
    /\ At("services") /\ "poll" \in procs /\ Record("weston")
    /\ svc' = [s \in Services |-> IF s \in CoreServices THEN "check" ELSE svc[s]]
    /\ poll' = "idle"
    /\ UNCHANGED <<store, power, root, selected,
                   mounted, mounts, procs, container, stop>>

\* Mutant: the Wi-Fi loop is left in a state of a service loop.
StartServicesCheckPoll ==
    /\ At("services") /\ Record("weston")
    /\ svc' = [s \in Services |-> IF s \in CoreServices THEN "check" ELSE svc[s]]
    /\ poll' = "check"
    /\ UNCHANGED <<store, power, root, selected,
                   mounted, mounts, procs, container, stop>>

\* service dbus, seatd, ... and the Wi-Fi loop; the socket waits are bounded
\* and proceed either way.
StartServices ==
    /\ At("services") /\ Record("weston")
    /\ svc' = [s \in Services |-> IF s \in CoreServices THEN "check" ELSE svc[s]]
    /\ poll' = "idle"
    /\ UNCHANGED <<store, power, root, selected,
                   mounted, mounts, procs, container, stop>>

StartWeston ==
    /\ At("weston") /\ Record("terminal")
    /\ svc' = [svc EXCEPT !["weston"] = "check"]
    /\ UNCHANGED <<store, power, root, selected,
                   mounted, mounts, procs, poll, container, stop>>

\* The visible root terminal is for ownerless roots.
StartTerminal ==
    /\ At("terminal") /\ Record("wait")
    /\ procs' = IF mounted /\ root \notin fs.owned
                THEN procs \cup {"app"} ELSE procs
    /\ UNCHANGED <<store, power, root, selected,
                   mounted, mounts, svc, poll, container, stop>>

StartStep ==
    \/ StartMount \/ StartClean \/ StartRotate
    \/ StageWrite \/ StageRename \/ StageSync
    \/ StartNoSelector \/ StartBadSelector \/ StartConsume \/ StartConsumeSync
    \/ StartPublish \/ StartMounts \/ StartUdev \/ StartServices
    \/ StartWeston \/ StartTerminal

-----------------------------------------------------------------------------
(***************************************************************************)
(* Supervised services, the Wi-Fi loop and the programs of the desktop.    *)
(***************************************************************************)

\* A service loop looks for the stop marker, then enters the root: two steps.
ServiceCheck(s) ==
    /\ svc[s] = "check"
    /\ svc' = [svc EXCEPT ![s] = IF stopping THEN "done" ELSE "enter"]
    /\ UNCHANGED <<store, power, startup, mounted, mounts, procs, poll, container, stop>>

ServiceEnter(s) ==
    /\ svc[s] = "enter"
    /\ svc' = [svc EXCEPT ![s] = "wait"]
    /\ procs' = IF mounted THEN procs \cup {s} ELSE procs
    /\ UNCHANGED <<store, power, startup, mounted, mounts, poll, container, stop>>

\* The service ended; the loop sleeps two seconds and starts over.
ServiceEnded(s) ==
    /\ svc[s] = "wait" /\ s \notin procs
    /\ svc' = [svc EXCEPT ![s] = "check"]
    /\ UNCHANGED <<store, power, startup, mounted, mounts, procs, poll, container, stop>>

\* The Wi-Fi loop enters the root for nmcli (or for the helper itself) without
\* looking at the stop marker, and gives up after 60 attempts.
PollEnter ==
    /\ RemoteHelper /\ poll = "idle" /\ poll' = "wait"
    /\ procs' = IF mounted THEN procs \cup {"poll"} ELSE procs
    /\ UNCHANGED <<store, power, startup, mounted, mounts, svc, container, stop>>

PollEnded ==
    /\ poll = "wait" /\ "poll" \notin procs
    /\ poll' \in {"idle", "done"}
    /\ UNCHANGED <<store, power, startup, mounted, mounts, procs, svc, container, stop>>

\* Desktop programs come from a running compositor and may start a Waydroid
\* session: its coordinator is rooted in the root, its LXC monitor is not.
AppStart ==
    /\ "weston" \in procs /\ "app" \notin procs
    /\ procs' = procs \cup {"app"}
    /\ UNCHANGED <<store, power, startup, mounted, mounts, svc, poll, container, stop>>

ContainerStart ==
    /\ Waydroid /\ {"weston", "app"} \subseteq procs /\ container = "STOPPED"
    /\ container' = "RUNNING"
    /\ procs' = procs \cup {"waydroid"}
    /\ UNCHANGED <<store, power, startup, mounted, mounts, svc, poll, stop>>

\* Waydroid freezes a container nobody looks at and thaws it again.
ContainerFreeze ==
    /\ container = "RUNNING" /\ container' = "FROZEN"
    /\ UNCHANGED <<store, power, startup, mounted, mounts, procs, svc, poll, stop>>

ContainerThaw ==
    /\ container = "FROZEN" /\ container' = "RUNNING"
    /\ UNCHANGED <<store, power, startup, mounted, mounts, procs, svc, poll, stop>>

\* The coordinator ends its container when it exits in order ...
CoordinatorExit ==
    /\ "waydroid" \in procs
    /\ procs' = procs \ {"waydroid"} /\ container' = "STOPPED"
    /\ UNCHANGED <<store, power, startup, mounted, mounts, svc, poll, stop>>

\* ... and leaves it when it does not.  Any other process just ends.
ProcExit(p) ==
    /\ p \in procs
    /\ procs' = procs \ {p}
    /\ UNCHANGED <<store, power, startup, mounted, mounts, svc, poll, container, stop>>

\* First boot sets up an owner in the clean root (the marker comes last).
Personalize ==
    /\ {"weston", "app"} \subseteq procs /\ selected = Cand /\ Cand \notin fs.owned
    /\ fs' = [fs EXCEPT !.owned = @ \cup {Cand}]
    /\ UNCHANGED <<disk, power, startup, live, stop>>

\* tools/arm_rehearsal_boot.sh in the normal root: write the selector, sync.
\* Bound: nobody arms in the last boot, whose selector no boot would read.
Arm ==
    /\ up /\ mounted /\ selected = Host /\ "weston" \in procs /\ "arm" \notin procs
    /\ fs.selector = "absent" /\ Cand \notin fs.owned /\ boot < MaxBoots
    /\ fs' = [fs EXCEPT !.selector = "dirty"]
    /\ procs' = procs \cup {"arm"}
    /\ UNCHANGED <<disk, power, startup, mounted, mounts, svc, poll, container, stop>>

ArmSync ==
    /\ "arm" \in procs
    /\ Sync
    /\ procs' = procs \ {"arm"}
    /\ UNCHANGED <<power, startup, mounted, mounts, svc, poll, container, stop>>

RuntimeStep ==
    \/ \E s \in Services : ServiceCheck(s) \/ ServiceEnter(s) \/ ServiceEnded(s)
    \/ PollEnter \/ PollEnded
    \/ AppStart \/ ContainerStart \/ ContainerFreeze \/ ContainerThaw
    \/ CoordinatorExit \/ \E p \in Procs : ProcExit(p)
    \/ Personalize \/ Arm \/ ArmSync

-----------------------------------------------------------------------------
(***************************************************************************)
(* stop-ubuntu-remote.  It is refused by a test of its own, or cut off by  *)
(* a failing command (set -eu) or a kill; both leave the stop marker.      *)
(***************************************************************************)

Halting(pc) == stopPc = pc
HaltAt(pc)  == stopPc' = pc

\* Requested by the power monitor, over SSH or at the serial console.
StopRequest ==
    /\ up /\ ~charger
    /\ stopPc \in {"idle", "refused", "cut"} /\ HaltAt("gate")
    /\ stopping' = TRUE
    /\ UNCHANGED <<store, power, startup, live, stopRoot>>

\* The helper ends where it is, with what it has done.
StopCut ==
    /\ CommandsFail
    /\ stopPc \notin {"idle", "refused", "cut"} /\ HaltAt("cut")
    /\ stopRoot' = NoRoot
    /\ UNCHANGED <<store, power, startup, live, stopping>>

\* The root to stop, and the journal gate: a temporary left behind refuses.
StopGate ==
    /\ Halting("gate")
    /\ stopRoot' = IF selected = NoRoot THEN Host ELSE selected
    /\ HaltAt(IF mounted /\ ~fs.actionTemp THEN "startingWrite" ELSE "refused")
    /\ UNCHANGED <<store, power, startup, live, stopping>>

\* system_action_stage: write the temporary, rename it, sync.
ActionWrite(pc, then) ==
    /\ Halting(pc) /\ HaltAt(then)
    /\ fs' = [fs EXCEPT !.actionTemp = TRUE]
    /\ UNCHANGED <<disk, power, startup, live, stopping, stopRoot>>

\* Mutant: the temporary is copied into the journal.
ActionRenameCopies(pc, name, then) ==
    /\ Halting(pc) /\ HaltAt(then)
    /\ fs' = [fs EXCEPT !.action = [boot |-> boot, root |-> stopRoot, stage |-> name]]
    /\ UNCHANGED <<disk, power, startup, live, stopping, stopRoot>>

ActionRename(pc, name, then) ==
    /\ Halting(pc) /\ HaltAt(then)
    /\ fs' = [fs EXCEPT !.actionTemp = FALSE,
                        !.action = [boot |-> boot, root |-> stopRoot, stage |-> name]]
    /\ UNCHANGED <<disk, power, startup, live, stopping, stopRoot>>

ActionSync(pc, then) ==
    /\ Halting(pc) /\ HaltAt(then)
    /\ Sync
    /\ UNCHANGED <<power, startup, live, stopping, stopRoot>>

StopRecordStarting ==
    \/ ActionWrite("startingWrite", "startingRename")
    \/ ActionRename("startingRename", "starting", "startingSync")
    \/ ActionSync("startingSync", "owner")

\* Only the clean root may be without an owner.
StopOwner ==
    /\ Halting("owner")
    /\ HaltAt(IF stopRoot \in fs.owned \cup {Cand} THEN "container" ELSE "refused")
    /\ UNCHANGED <<store, power, startup, live, stopping, stopRoot>>

\* Twenty seconds for the container to leave RUNNING, then lxc-stop, which may
\* fail; in the end the container must not be RUNNING.
StopContainer ==
    /\ Halting("container") /\ container # "RUNNING" /\ HaltAt("containerTest")
    /\ UNCHANGED <<store, power, startup, live, stopping, stopRoot>>

StopLxcStop ==
    /\ Halting("container") /\ container = "RUNNING"
    /\ \/ container' = "STOPPED" /\ HaltAt("containerTest")
       \/ UNCHANGED container /\ HaltAt("refused")
    /\ UNCHANGED <<store, power, startup, mounted, mounts, procs, svc, poll,
                   stopping, stopRoot>>

StopContainerTest ==
    /\ Halting("containerTest")
    /\ HaltAt(IF container = "RUNNING" THEN "refused" ELSE "sweep")
    /\ UNCHANGED <<store, power, startup, live, stopping, stopRoot>>

\* Every process of the root got SIGTERM; wait for none to be left, then sync.
\* A helper that chose the normal root before start-ubuntu published the clean
\* one sees neither its processes nor its mounts; the last umount does.
StopSweep ==
    /\ Halting("sweep") /\ (stopRoot = root => procs = {}) /\ HaltAt("unmountNested")
    /\ Sync
    /\ UNCHANGED <<power, startup, live, stopping, stopRoot>>

\* Mutant: the sweep waits for as long as processes are left.
StopSweepWaits ==
    /\ Halting("sweep") /\ stopRoot = root /\ procs # {} /\ HaltAt("sweep")
    /\ UNCHANGED <<store, power, startup, live, stopping, stopRoot>>

StopSweepRefuse ==
    /\ Halting("sweep") /\ stopRoot = root /\ procs # {} /\ HaltAt("refused")
    /\ UNCHANGED <<store, power, startup, live, stopping, stopRoot>>

\* The Waydroid, camera and runtime mounts, from deepest to shallowest.
StopNested ==
    /\ Halting("unmountNested")
    /\ mounts' = (mounts /\ stopRoot # root)
    /\ HaltAt(IF stopRoot = Host THEN "readyWrite" ELSE "rearm")
    /\ UNCHANGED <<store, power, startup, mounted, procs, svc, poll, container,
                   stopping, stopRoot>>

StopNestedRefuse ==
    /\ Halting("unmountNested") /\ stopRoot = root /\ mounts /\ HaltAt("refused")
    /\ UNCHANGED <<store, power, startup, live, stopping, stopRoot>>

\* Mutant: a consumed marker is taken for a selector and not moved back.
StopRearmForgets ==
    /\ Halting("rearm") /\ ~mounts /\ HaltAt("rearmSync")
    /\ fs.selector \in {"dirty", "good"} \/ fs.consumed \in {"dirty", "good"}
    /\ UNCHANGED <<store, power, startup, live, stopping, stopRoot>>

\* The clean root returns after an orderly action: its selector is rearmed.
StopRearm ==
    /\ Halting("rearm") /\ ~mounts /\ HaltAt("rearmSync")
    /\ \/ fs.selector \in {"dirty", "good"} /\ UNCHANGED fs
       \/ /\ fs.selector = "absent" /\ fs.consumed \in {"dirty", "good"}
          /\ fs' = [fs EXCEPT !.selector = fs.consumed, !.consumed = "absent"]
    /\ UNCHANGED <<disk, power, startup, live, stopping, stopRoot>>

StopRearmRefuse ==
    /\ Halting("rearm") /\ HaltAt("refused")
    /\ \/ mounts
       \/ fs.selector = "empty"
       \/ fs.selector = "absent" /\ fs.consumed \in {"absent", "empty"}
    /\ UNCHANGED <<store, power, startup, live, stopping, stopRoot>>

StopRearmSync ==
    /\ Halting("rearmSync") /\ HaltAt("readyWrite")
    /\ Sync
    /\ UNCHANGED <<power, startup, live, stopping, stopRoot>>

StopRecordReady ==
    \/ ActionWrite("readyWrite", "readyRename")
    \/ ActionRename("readyRename", "ready-to-unmount", "readySync")
    \/ ActionSync("readySync", "unmount")

\* umount fails while a process or a mount is inside; set -e ends the helper.
StopUnmount ==
    /\ Halting("unmount") /\ procs = {} /\ ~mounts /\ HaltAt("act")
    /\ mounted' = FALSE
    /\ Sync
    /\ UNCHANGED <<power, startup, mounts, procs, svc, poll, container,
                   stopping, stopRoot>>

StopUnmountRefuse ==
    /\ Halting("unmount") /\ (procs # {} \/ mounts) /\ HaltAt("refused")
    /\ UNCHANGED <<store, power, startup, live, stopping, stopRoot>>

\* busybox reboot -f or poweroff -f.
StopAct == Halting("act") /\ Down(disk)

StopStep ==
    \/ StopGate \/ StopRecordStarting \/ StopOwner
    \/ StopContainer \/ StopLxcStop \/ StopContainerTest
    \/ StopSweep \/ StopSweepRefuse \/ StopNested \/ StopNestedRefuse
    \/ StopRearm \/ StopRearmRefuse \/ StopRearmSync
    \/ StopRecordReady \/ StopUnmount \/ StopUnmountRefuse \/ StopAct

-----------------------------------------------------------------------------
Next ==
    \/ Boot \/ ChargerReboot \/ PowerLoss \/ Commit \/ StayOff
    \/ StartStep \/ StartFails \/ RuntimeStep \/ StopRequest \/ StopStep \/ StopCut

Spec == Init /\ [][Next]_vars

\* The scripts run to their ends; nothing obliges a process to exit, a command
\* to fail, a user to ask for a stop or the power to go.
Fairness ==
    /\ WF_vars(ChargerReboot)
    /\ WF_vars(StartStep)
    /\ WF_vars(StopStep)

FairSpec == Spec /\ Fairness

-----------------------------------------------------------------------------
(***************************************************************************)
(* Properties.                                                             *)
(***************************************************************************)

\* Every variable has a value of its kind; this is the invariant the proofs of
\* BootRootProofs start from.
TypeOK ==
    /\ disk \in Namespace /\ fs \in Namespace
    /\ up \in BOOLEAN /\ boot \in Nat /\ charger \in BOOLEAN
    /\ startPc \in {"off", "probe", "failed", "clean", "rotate", "select",
                    "consumed", "publish", "mounts", "udev", "services",
                    "weston", "terminal", "wait"}
    /\ jstep \in {"idle", "write", "rename", "sync"}
    /\ root \in Roots /\ selected \in Roots \cup {NoRoot}
    /\ mounted \in BOOLEAN /\ mounts \in BOOLEAN /\ procs \subseteq Procs
    /\ svc \in [Services -> {"off", "check", "enter", "wait", "done"}]
    /\ poll \in {"off", "idle", "wait", "done"}
    /\ container \in {"STOPPED", "RUNNING", "FROZEN"}
    /\ stopping \in BOOLEAN
    /\ stopPc \in {"idle", "refused", "gate", "startingWrite", "startingRename",
                   "startingSync", "owner", "container", "containerTest", "sweep",
                   "unmountNested", "rearm", "rearmSync", "readyWrite",
                   "readyRename", "readySync", "unmount", "act", "cut"}
    /\ stopRoot \in Roots \cup {NoRoot}

\* While the clean root runs and no orderly action was asked for, neither the
\* kernel nor the storage has a selector: a power loss at any moment boots the
\* normal root (start-ubuntu 56-58, "any later failure falls back").
CandidateFallsBack ==
    root = Cand /\ ~stopping =>
        fs.selector = "absent" /\ disk.selector = "absent"

\* Once storage says that the action on the clean root in this boot was ready
\* to unmount, storage also holds a complete selector: whatever happens from
\* then on, the next boot returns to that installation.
RecordedReadyReturns ==
    disk.action.boot = boot /\ disk.action.root = Cand
    /\ disk.action.stage = "ready-to-unmount"
        => disk.selector = "good"

\* The record of an earlier boot outlives this one, wherever it is cut off: no
\* step of either script, no commit and no power loss takes the last durable
\* record that an earlier boot left, unless a durable one that is not older is
\* there.  The exception is a journal that an earlier power loss emptied before
\* its sync (50-52): the rotation (44) puts it over the previous record without
\* looking at it.
Records(f) == {f.last, f.previous}
Outlived(e) == \/ \E g \in Records(disk') : g.text = "good" /\ g.boot >= e.boot
               \/ disk'.previous.text = "empty"
EarlierRecordKept ==
    [][\A e \in Records(disk) : e.text = "good" /\ e.boot < boot => Outlived(e)]_disk

\* A stop that one of its own tests refused can be asked for again in this boot:
\* past the journal gate, which the temporary of a call that was cut off closes
\* (27), a refusal never leaves the temporary.
RefusalCanBeRetried ==
    [][stopPc # "gate" /\ stopPc' = "refused" /\ stopPc # "refused"
         => ~fs.actionTemp]_vars

\* A clean root that runs can be returned to: a selector torn by a power loss
\* while it was armed (arm_rehearsal_boot.sh 25) never gets that far, whoever
\* consumed, renamed or rearmed it, so the tests of the stop helper (176-182)
\* find a whole marker.
CleanRootReturnable == selected = Cand => "good" \in {fs.selector, fs.consumed}

\* Every normal boot comes to the end of start-ubuntu, unless the tablet goes
\* down before: no wait of the script is unbounded.
BootSettles == (up /\ ~charger) ~> (startPc \in {"wait", "failed"} \/ ~up)

\* Every orderly action that was asked for restarts, powers off, refuses or ends
\* with a command that failed.
StopDecides == stopPc = "gate" ~> (stopPc \in {"refused", "cut"} \/ ~up)

\* The promise about the two roots, with the files forgotten: armed is what
\* storage holds, the current root is the published one, and a charger boot is one
\* that charges.
Promise == INSTANCE OneShotRoot WITH
    armed   <- disk.selector # "absent",
    current <- selected,
    closing <- stopping,
    charging <- charger

\* Every step of the scripts is a step of the promise or leaves it alone: the
\* selector leaves storage before a root is published, never on a charger boot
\* (init 58-61), and comes back only from the normal root or by an orderly action
\* on the clean one.
KeepsPromise == Promise!Spec

\* Claimed by stop-ubuntu-remote 169-172: the selector is rearmed only after
\* every process and every nested mount is gone.  Stated for a tablet whose
\* startup has long been dispatched.
RearmedOnlyWhenQuiet ==
    [][startPc = "wait" /\ stopPc = "rearm" /\ stopPc' = "rearmSync"
         => procs = {} /\ ~mounts]_vars
=============================================================================
