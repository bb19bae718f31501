# Ubuntu on the SM-T630: a TLA+ model of the parts that must not go wrong

The repository turns a Samsung Galaxy Tab Active (SM-T630) into an Ubuntu
tablet: a boot image whose PID 1 is BusyBox, a supervised Ubuntu root, helpers
for power, suspend, display and sensors, scripts that rewrite BOOT, the
partition table and the root, and an Android side that switches back. There is
no systemd below it; ordering, cleaning up and crash recovery are done by hand
in shell and Python, and a mistake may leave a tablet that does not boot. This
directory holds TLA+ modules for those parts, TLC configurations and TLAPS
proofs. `PROJECT.json` lists components, runs, the line map, hazards, findings
and theorems.

    tlc -workers 2 -config BootRoot.cfg MCBootRoot.tla
    tlc -workers 2 -config Ensemble.cfg MCEnsemble.tla
    tlapm BootRootProofs.tla        # and each other *Proofs.tla

## 1. Inventory

### Components, their state and how they interact

| Component | Source | State | Operations | Correct when |
|---|---|---|---|---|
| Boot image | `persistent/init`, `persistent/start-ubuntu`, `tools/arm_rehearsal_boot.sh` | one-shot root selector and its consumed copy, two boot journals and a temporary (userdata); `/run/t630-selected-root`; service loops | boot, charger reboot, mount, rotate the journal, consume the selector, start services | a crash in the clean root boots the normal root; the record of an earlier boot survives; a boot always settles |
| Orderly stop | `ubuntu/stop-ubuntu-remote` (embedded as `/bin/stop-ubuntu`) | action journal and temporary, `/run/t630-stopping` | record, stop Waydroid, sweep processes, unmount, rearm, act | never an unclean restart; an orderly action on the clean root returns to it; always decides, refuses or ends with a failing command |
| Power monitor | `ubuntu/t630-power-button.py` | the file with the brightness to restore, key press, deadlines | lock and blank, restore, suspend by key or timer, dispatch stop | brightness never lost; the wake press is consumed; the loop returns |
| Display settings | `ubuntu/t630_display.py` | brightness, idle and suspend preferences, torch lease | socket requests, tick, flush | a dark panel stays dark; the torch is a lease |
| Suspend helper | `ubuntu/t630-suspend.py`, `ubuntu/t630-sensors-start` | flock, Wi-Fi wake pattern, RTC alarm, sensor bridge | guards, quiesce, freeze, undo | never asleep without a way back; everything undone |
| BOOT switch | `tools/stage_native_android_boot.sh`, `tools/switch_to_native_android.sh`, `android-switcher/switch-to-ubuntu.sh` | BOOT, rollback images, a journal | check, back up, write, read back, commit, roll back | a tablet that boots, or a failure that was announced: an order to use download mode, or to start maintenance; a second signal may end the script before that order, after the announcement |
| Session manager | `ubuntu/t630-session-manager.py` | one pending action, Open calls on their way | requests of the desktop, dialog calls, replies and signals | an action that is pending is acted on or given up |
| Desktop start | `ubuntu/t630-desktop-autostart`, `ubuntu/t630-managed-session.py`, `ubuntu/t630-gnome-session`, `ubuntu/t630-gpu-session-watch.py` | processes, a lock its helpers inherit, probe failures | fork, register with login1, start, probe, fall back, stop | one shell at a time; a hung GPU session ends in a software one |
| GPT maintenance | `maintenance/*` | partition table, backups under /run, ext4 | shrink, split, wiping split, restore | the last word of each program is true of the disk |
| Release BOOT writers | `tools/write_*boot*.sh` | BOOT | write verified images | as BOOT switch, without rollback |
| First boot | `ubuntu/t630-first-boot-ui.py`, `ubuntu/t630_first_boot.py` | account, password, locale, machine id, owner marker | attempt, time out, retry, apply profile | the owner marker is the commit point |
| Installer | `tools/t630_installer*.py`, `tools/serial_link.py`, `tools/*stage*`, `tools/finalize_installer_bundle.py` | sealed bundle, console, RAM of the tablet, one-use token, linuxroot | seal, stage or copy, prepare, check, authorize, apply | "installation verified" is true |
| Android initialisation | `tools/initialize_native_android_userdata.py`, `tools/stage_stock_recovery_wipe.sh` | copies in RAM and in the root, misc | save, upload, check, stage, roll back | what the host says of misc is true |
| Bluetooth | `tools/t630_qca_bt.py`, `ubuntu/t630-bluetooth-*` | rail, UART, what the controller runs, loader and its parents | bring up, retry, supervise, sweep | ROM protocol at ROM speed; the board's calibration; a stop ends it |
| Rotation, pen, touch | `ubuntu/t630-rotation-controller.py`, `ubuntu/t630-weston-rotation.c`, `ubuntu/t630-first-boot-r*`, `ubuntu/t630-pen-touch-guard.py` | orientation, FIFO, state file, nested sizes; grabbed touch device | follow the sensor, disable touch in pen proximity | output and nested sizes agree in the end; touch always comes back |
| Builders | `tools/build_*.py`, `tools/assemble_*`, `tools/prepare_*` | inputs, temporaries, outputs, records | read, pack, replace, record | a record never speaks of an output that is torn, missing or another |
| Probes, audio, camera, desktop controls | `tools/`, `ubuntu/`, `camera/` | files of one run | laboratory or user interface | see PROJECT.json |

How they meet: PID 1 starts `start-ubuntu`, which runs the Ubuntu root in a
chroot under service loops. The power monitor runs in that root, calls the
suspend helper as a child (its loop is blocked meanwhile) and hands a confirmed
restart or power-off to the stop helper of the outer root. The session manager
asks the monitor over the socket of `t630_display.py`. The stop helper sweeps
everything rooted in the root, rearms the selector and powers down. The BOOT
switch scripts run in Ubuntu or Android and ask for a restart through the same
path. What passes a power loss is only userdata and BOOT. The desktop session, the
Bluetooth and rotation services and the pen guard are started below the same
root and share with the others only the SIGTERM of the stop helper's sweep;
the installer, the Android initialisation, the GPT programs and the builders
run at other times, from a host or from a RAM image.

### Hard behaviours

Power loss between any two file operations; names that reach storage before
contents; two scripts (start and stop) over one namespace; loops that test a
marker and act later; a single-threaded monitor blocked for minutes by its
child while input queues up; several suspend helpers; `finally` clauses whose
first statement raises; traps that may be interrupted; a console on which a
command outlives the tool that sent it; replies and signals that come after
the timeout; event queues that overflow; retries over what a killed attempt
left behind; inputs that change between two reads. `PROJECT.json`
"hazards" has one entry per place with the properties that cover it.

## 2. Plan

| Order | Module | Content | State |
|---|---|---|---|
| 1 | `OneShotRoot` | what the boot image promises about two roots | done |
| 2 | `BootRoot` | init, start-ubuntu and stop helper over storage that crashes | done |
| 3 | `BootRootProofs` | types, fall back, refinement | done |
| 4 | `PowerMonitor` | monitor and display settings | done |
| 5 | `SuspendHelper` | helpers in competition | done |
| 6 | `BootSwitch` | three BOOT transactions | done |
| 7 | `SessionDialog` | pending action, asynchronous replies, timeouts | done |
| 8 | `DesktopStart` | autostart, wrapper, session script, lock, GPU watch | done |
| 9 | `GptSplit` | shrink, split, wiping split and restore with their rollback | done |
| 10 | `FirstBoot` | wizard and backend with killed and repeated attempts | done |
| 11 | `Installer` | seal, window, serial link, staging, authorization, installation | done |
| 12 | `AndroidInit` | recovery message in misc, staged over the serial link | done |
| 13 | `Bluetooth` | loader, launcher, supervisor, controller, sweep | done |
| 14 | `Rotation`, `PenGuard` | sensor to output; touch guard | done |
| 15 | `Publish` | how every builder reads and publishes | done |
| 16 | `MCEnsemble` | rows 7 to 15 as one run | done |
| 17 | `BootSwitchProofs`, `SuspendHelperProofs`, `PowerMonitorProofs` | every safety property of their modules | done |
| 18 | `BootJournalProofs` | the journals of `BootRoot` and charger boots | done |
| 19 | `TransactionProofs`, `EnsembleProofs` | TellsMisc, TableTold and MarkerLast; OneShell, SaysTruth, RomSpeed and RightCalibration | done |
| 20 | `PublishProofs`; the rest of `EnsembleProofs` | RecordTrue, PublishedStays; StillOwed, TouchAgrees, TypesOK and all of them for the composition | done |
| 21 | `MonitorAndHelper` | composition of `PowerMonitor` with `SuspendHelper`: the file the helper's guard reads is the monitor's | later |
| 22 | `DualbootLayout` | partition arithmetic against a reference definition | later |

A component gets one safety run with all its invariants, and a liveness run
only where something must happen; a composition replaces the runs of its parts
when it asks the same questions.

Abstract specifications worth stating: `OneShotRoot` (done), and a `Transaction`
(the target holds old, new, or an admitted damage) for `BootSwitch`,
`AndroidInit` and `GptSplit`, whose properties say the same in their own words
today.

## 3. The modules and the code

### BootRoot

One variable per file, marker or program counter. `fs` is the userdata
namespace the running kernel sees, `disk` the one a power loss leaves. Only the
files the scripts name are kept: the selector (`.t630-next-root`), its consumed
copy, the last and the previous boot journal with their temporary, the action
journal with its temporary, and the set of roots with an owner marker.

* **Storage.** A file operation changes `fs`. `Commit` (ext4's own journal, at
  any time) makes the names durable as they are; `sync` (`Sync`) makes names
  and contents durable. The selector is the one file whose contents another
  boot tests before it goes on, so its contents have a state: `dirty` until
  synced, and `empty` after a power loss that found it dirty (`Torn`). So have
  the two boot journals: a record is rotated over another by its name alone. Which
  stages a record names is left out, no property tells them apart. `Commit`
  commits all names at once: ext4 keeps metadata operations in order.
* **start-ubuntu.** `startPc` walks through the script; `boot_stage` is three
  steps (`StageWrite`, `StageRename`, `StageSync`) entered by `Record`.
  `StartFails` is `set -eu`: any command may fail at any place, inside
  `boot_stage` too, and the script ends with what it has done, a mounted userdata
  for one. Every bounded wait is a step that may be taken at any time, since the
  script goes on whether or not the socket appeared. A service is a loop with a
  test (`ServiceCheck`) and an entry (`ServiceEnter`).
* **stop-ubuntu-remote.** `stopPc` walks through the helper; a test of its own
  that fails goes to `refused`. `StopCut` is a command that fails, or a kill, at
  any line: the helper ends where it is, with the temporary of its journal if that
  was written, and the next request meets it at the gate (27). `stopRoot` is the
  helper's own `root`, chosen once; it may differ from the root that start-ubuntu
  publishes later. One helper runs at a time. The SIGTERMs of the sweep are not
  actions: any process may exit at any time (`ProcExit`).
  `CommandsFail` says whether `StartFails` and `StopCut` happen at all: the run
  about safety has them, the one about liveness does not, because a script that has
  ended promises no progress.
* **The rest.** Programs nobody respawns (`app`: udevd, the root terminal, the
  desktop's programs), the Waydroid container, first boot and the
  arming script are the environment (`RuntimeStep`).

### OneShotRoot

The promise without files: `armed`, `current`, `closing`, `charging`. `BootRoot`
implements it with armed = a selector exists on storage, current = the published
root, closing = the stop marker, charging = a charger boot, which may neither take
the arming nor enter a root (`KeepsPromise`).

### PowerMonitor

One process, one loop. `pc` is `loop` at the `select`; `write`, `blank`,
`rewrite`, `unlink` and `shift` are the points between two system calls of
`lock_and_blank`, `set_brightness`, `restore` and the wake, because a kill may
come there. `saved` is the file (absent, empty = `Hollow`, or a value); `light`
is the backlight. `wanted` is a history variable: what the user chose last.
Deadlines are `armed` or `due`; a key press is fresh or older than 1.5 seconds.
Events are read one at a time, a superset of what reading a batch does; the
events of a batch that are left after a drain are ignored by the half second
since the last action, so they count as drained. `KeyHeld` says that a press
becomes long only after it was read, unless the helper blocks the loop. The
percent rounding of the preferences is left out, and so are the idle timeout
value, `INHIBIT` and the wording of socket messages. Connection handling has
no state beyond the request. A turn of the loop uses the list of ready
descriptors of its `select` to the end: where the automatic path suspended with
key events in that list (`autoKey`), the drain behind the wake is followed by the
read of the same turn (`ReadAfterDrain`), which raises when nothing is left and
ends the monitor through its `finally` clauses.

### SuspendHelper

A set of helpers runs the same program against one lock, one wake pattern, one
alarm and one sensor bridge. While `frozen` nothing but a wake (and a cable)
takes a step. A killed helper releases its lock at once and leaves its
`rtcwake` (`orphans`). Every step after the lock may fail and go to the
clean-up, and so may two writes of the clean-up (`CleanupFails`). The sensor
bridge is two processes; the ones that got a SIGTERM are `dying`, and `pgrep` sees
them until they go. The start script of a helper outlives it and runs beside the
next one: its tests, the daemon, the ten looks for it, the proxy (`ScriptTests`,
`ScriptDaemon`, `ScriptWaits`, `ScriptProxy`), each of which may end the script. A
helper begins when the script of its own last run has ended (a bound); the
script of the other helper may still run. The history variable `faults` notes kills,
failing clean-ups, stops that ran out of time and scripts whose own tests or
launches failed, because some promises are made only without them;
`PowerMonitor` has one too. The environment plugs, plays and unlocks freely.

### BootSwitch

One variable for BOOT (an image of a system or a mixture), one transaction at a
time with its `changed` and `committed`, the rollback image of each system with
its durability. `result` is the last thing the script says of BOOT. `Interrupt`
is any failing command or a signal the shell handles between two commands, before
the commit and after it: status 125 and no word (`ended`), which means the image
on this side of the commit. The trap announces the rollback first (`restoring`)
and disables itself, so a second signal ends it without a word in dd or before the
readback (`RestoreKilled`); otherwise `RestoreEnd` says that the old image is back or
asks for download mode (maintenance, in `stage`). `undone` notes that a trap
has written over a switch, the one case in which the journal of a switch to
Ubuntu is wrong. The identity, geometry, battery,
neighbour and authorization checks may refuse at will (`Begin` need not happen)
and only those about state the model has are in `StageReady`, `ToAndroidReady`
and `ToUbuntuReady`.

### SessionDialog

One variable per place a request can be: `pending` (pending_action), a callback
queued for the main loop (`idle`), an Open call on its way (`opens`) or without
an answer (`waiting`), the dialog the shell shows, and the `wire` from the shell,
which keeps the order. The shell is external, modelled from the signals the
manager handles. `done` records what was carried out with the number of the
request whose dialog was confirmed. `StillOwed` is what keeps the manager from being
busy for good: while an action is pending, the answer to the newest request is on its
way in one of these places.

### DesktopStart

One variable per process. `mode` tells whether the wrapper runs the GPU or the
software session; autostart waits for the first and becomes the second.
`helpers` are the other children of the session script: they inherited the lock
descriptor, so the lock is held as long as one of them (or the watch) lives
(`LockHeld`). `ended` is the stop sweep: the set of processes still to be
signalled, empty of those that were not alive when it listed them. A shell may
hang, and may survive SIGKILL in the driver (`stuck`). What the script prepares
without keeping state (settings, profiles) is left out.

### Bluetooth

`rail`, `chip`, `uart` and `rx` are the line: the controller has a speed, an
image and a calibration, and hears a command only at its own speed
(`Hears`). `Ask(s)` and `Read(s)` are one command and one answer of a stage of
the bring-up; a packet is a kind, not bytes, and `Accepts` is the test the loader
makes on it. The two dialects (an answer alone, or an answer and a completion),
the quiet download and the absence of a board file are drawn once in `fixed`.
The launcher retries, watches and cleans up; when it finds a loader running it
reuses it, in whatever stage it is, and does not own it (`Owns`): no clean-up of
its signals it. A launcher may be killed outright (`LauncherKilled`), which leaves
such a loader. A loader whose rfkill switch never appears ends before its try,
so without power_off (`NoRfkill`). The supervisor restarts the launcher; the
sweep sends one SIGTERM to each. `stopped` is the loader's flag, which the signal
sets and the loop tests before `pause()`.

### Rotation and PenGuard

In `Rotation`, the `driver` is the owner's controller or the relay of the setup
session, `follower` the resize helper of the latter, `weston` the compositor
module with its FIFO and state file. The controller never waits for room in the
FIFO; Weston reads it empty and takes the last request, so the model remembers the
latest `FifoMax` of them (`Queued`). `write_state` opens, which truncates, and
then writes; either may fail unseen (`OpenState`, `WriteState`). Failures are
bounded; a foreign program may change a nested size. The cached orientation of
the setup relay does not change, because that program never runs a main loop.
In `PenGuard` the kernel's queue is bounded and overflows the way evdev does:
what it held is replaced by SYN_DROPPED and the newest event. The query of the
keys removes the key events that wait, so a SYN_DROPPED, which is always the first,
is all that it can leave; `ReadEvents` takes up to a chunk.

### FirstBoot

`backend` is an index into `Steps`, the program of apply_profile; `Effect` says
what each step writes to `disk`, and `Commits` which of them are durable at once
(fsync and rename). The wizard may kill a backend (`Timeout`), whose running
command becomes an `orphan` that ends or dies later (`OrphanEnds`), next to the
following attempt. A file is the number of the attempt that wrote it. useradd is
two steps, the account and the home: a kill, a power cut or a dying orphan
between them leaves half an account (`Half`), which `account_already_valid` takes
for a whole one.

### Installer and AndroidInit

In `Installer`, a host tool is a sequence of commands (`Script`), the tools after
it come from the window's `Workflow`; the tablet runs its `console` in order, one
step of the command at its head at a time, whether or not the tool that sent it
still waits. The contents of a bundle are `good` or `other`, and a seal is of
one or the other. `AndroidInit` has the coordinator, the script on the tablet
with the rollback of its stager, and the partition as `old`, `mixed` or `message`.

### GptSplit

One `job` at a time walks through guards, write, reread and verification, and,
after a failure, through the steps of its exit trap. `table` is the disk, `seen`
the kernel, `data` how much of partition 34 its file system needs, `kept` what
/run has until the next boot.

### Publish

Every builder is a program: a sequence of steps (`Load`, `Make`, `Store`, `Fill`,
`Seal`, `Rename`, ...) over inputs and five file names; one interpreter
(`Passes`, `Reads`, `Writes`) runs it. `Program` gives for each tool its steps,
the step from which its exception handler is active and what that handler
removes. A content is the versions of the inputs it was made from, and a record
additionally the versions it claims. `Pin` is a test against fixed values; the
Android image of the release archive is not pinned, it only has to match its own
hash record (`build_release_archive.py:92-96`), and the second validation (189)
accepts another one that does, without looking at the hash it gets. `ReadAgain` lists
the inputs, per builder, that are read twice without being compared: of those
a record may speak wrongly.

### MCEnsemble

The components of rows 7 to 15 share no state. The module puts them side by side with a
`subject` that never changes: only the subject moves, the others keep one
initial state. The set of behaviours is thus the disjoint union of the
components' own, and every invariant and every `~>` is about one of them;
`Fair1` to `Fair6` collect what each component's own fairness formula says.

## 4. Runs

| Run | Question | Bounds |
|---|---|---|
| `boot_crashes` | types, fall back, return, journals, recorded actions, refusals and `KeepsPromise` under power loss and failing commands at every step | 2 boots with the Wi-Fi loop: a crash needs one boot to happen and one to be met; the exception of `EarlierRecordKept` (an emptied journal rotated over a good one, then lost) needs a third, so the run does not meet it and the proof does; 5.9 million states |
| `boot_liveness` | every boot settles, every stop decides, with Waydroid | 1 boot (what it waits for lives in RAM), weak fairness; 0.26 million states |
| `rearm_with_poll` | a claim about the orderly stop that fails | 1 boot |
| `monitor_kills` | brightness, file, suspend, wake press and orderly exit under kills anywhere | 2 levels (the old and the new), 3 queued events (a release still queued and a whole press); 5 million states |
| `monitor_liveness` | return, retry | 1 level, 1 queued event, no kills: a killed monitor promises nothing |
| `wake_shift_fails`, `repair_hollow` | claims about the monitor that fail | 2 or 3 events |
| `suspend_races` | wake sources, undoing and the sensor bridge, with failing steps, kills and orphans | 2 helpers, symmetric: the lock admits one, the other is the one outside, and its start script the one beside |
| `sensors_lost` | a claim about the helper that fails | 2 helpers |
| `switch_crashes` | outcome, rollback image | 6 transactions: one round trip, a second one over its left-overs, and two more |
| `ensemble` | safety and liveness of the ten components of `MCEnsemble` | below; 0.27 million states |
| `android_rerun` | a claim about the Android initialisation that fails | 2 starts, 2 troubles |

| Bound of `ensemble` | Why it is enough |
|---|---|
| `LoaderAttempts` = 1, `Segments` = 2, `MaxRounds` = 2 | a second launcher tries over the left-overs of a failed one, or reuses the loader of a killed one; a first and a last segment |
| `HealthFailures` = 2 | a probe that fails and recovers, and the last one |
| `MaxRequests` = 2 | an old request whose answers come late, and a newer one |
| `MaxEdits` = 1, `MaxToolFaults` = 2, `MaxRuns` = 2 | versions only tell same from other; a kill and a failing step of the handler; a run over the left-overs of another |
| `MaxLinkFaults` = 2, `MaxActions` = 3 | a tool gives up and its command runs on under the next two |
| `Readings` = normal, leftup, undefined; `FifoMax` = 1, `MaxFailures` = 1 | both modes and no reading; the latest request, the only one of several that Weston uses (the verdict with 2 is the same, at twice the states); the failing call between two changes |
| `QueueMax` = 3, `Chunk` = 2, `MaxMishaps` = 2 | an overflow; a read that leaves events behind; a failing write and a signal |
| `Users` = ann, bob; `MaxAttempts` = 2 | a retry with the same name or another |
| `MaxStarts` = 2, `MaxTroubles` = 2 | the read-only run and the authorized one; a fault and one in its rollback |
| `MaxSlips` = 3 | a failing step, one in its rollback, and a power cut |

`CoreServices` is empty in the configurations: all service loops are alike and
`weston` is one of them; the proofs hold for any set. The
deadlock check is off in `ensemble` and `android_rerun`: their programs end, and
after the last one the bounds allow nothing happens. In the other runs a
powered-off tablet after its last boot stutters explicitly (`StayOff`), and
everything else always has a step.

### Fairness

* `boot_liveness`: weak fairness of start-ubuntu, of the stop helper and of the
  charger reboot (`init` leaves a charger boot by itself). They are running programs whose every wait has a counted
  bound. No process is obliged to exit, and the environment is not fair.
* `monitor_liveness`: weak fairness of the monitor's own steps, of a wake (the
  RTC alarm of five minutes) and of the helper's answer or timeout
  (`timeout=350`). Strong fairness of `AutoArm`, `AutoSuspend` and
  `TorchExpires`: `tick()` and the deadline are looked at in every turn of the
  loop (at least once a second), while other steps of the same loop disable
  them again and again.
* `ensemble`: weak fairness of each running process, separately: Bluetooth's
  loader, launcher, supervisor and the sweep (`StopEnds`); the wrapper with
  autostart, the session script, its helpers, the watch, the sweep and a
  starting shell (`FallbackComes`); the manager's main loop and what it
  receives, the shell that opens the dialog, and the countdown that confirms it
  (`NeverBusyForever`); the follower and Weston (`Settles`); the guard
  (`TouchBack`). Their waits are bounded in the code or are on each other. No
  request, cancellation, hang, failure or signal is obliged to happen. Strong
  fairness only for the rotation driver, the delivery of the sensor's signal and
  the settle timer: they are sources of one main loop, which dispatches each in
  its turn while the others enable and disable it. `Installer`, `Publish`,
  `FirstBoot`, `AndroidInit` and `GptSplit` promise no progress: a person starts
  their programs again.

## 5. What was found

Five statements of the repository are not what its code does; each has a run
and a finding in `PROJECT.json`:

* `RearmedOnlyWhenQuiet`: the selector is rearmed beside a live process, the one
  the Wi-Fi loop starts in the root after the sweep. The last `umount` refuses
  then, so what is wrong is the order, not the outcome.
* `WakePressAlwaysConsumed`: when the Shift key cannot be sent, the drain behind
  it is skipped and the wake press blanks the tablet again.
* `RepairAlwaysPossible`: a monitor killed between creating and writing the file
  leaves an empty one, on which every later start ends.
* `SensorsAlwaysBack`: when removing the wake pattern raises, the restart of the
  sensors behind it is skipped.
* `RerunStages`: the read-only run of the Android initialisation leaves its copies
  in the root's /tmp, and the authorized rerun it asks for refuses to start over
  them (`initialize_native_android_userdata.py:56`).

Known limits, which the models show and no run states: a frozen Waydroid
container passes the test of the stop helper that is meant to require STOPPED
(`StopContainerTest`); a long press made while the helper blocks the monitor is
read as a short one (`KeyHeld`, `ReadDown`); a torch whose lease runs out while
the helper runs stays on until the loop is back; the suspend guards are seconds
old at the freeze (`Plug`, `Desktop`); the journal of a switch to Ubuntu is
published before the commit, so a rollback in between leaves it next to an
Android image (`undone`, `OutcomeTellsBoot`); the rollback image of a switch is
verified but may not be on storage yet when BOOT is written; the temporary of an
action journal whose call was cut off blocks every later stop, in later boots too,
until somebody removes it (`RefusalCanBeRetried` says that refusals add none); a stop
of the sensor bridge that runs out of time leaves processes that die later, which
the start script takes for running (`StopFails`).

The properties of the newer modules name their exceptions; these are what the
code does not promise:

* Boot journal: one that a power loss emptied before its sync is rotated over the
  previous record without being looked at (`EarlierRecordKept`).
* Power monitor: where the automatic path suspended with key events in the list of
  its `select` (`t630-power-button.py:264`) and the drain behind the wake (214-219)
  takes them all, the read of the same turn raises BlockingIOError outside every
  `try`; the panel is lit and the monitor is gone (`Drained` in `MonitorReturns`), and
  `t630-desktop-autostart:64-67` starts it once.
* Bluetooth: a SIGTERM between the test of the flag and `pause()` is lost, and a
  launcher not yet signalled may launch a loader after the sweep has listed the
  processes (`StopEnds`). The persistent address is not written atomically
  (`t630_qca_bt.py:416`).
* Desktop: the lock is inherited by the session's helpers, so the software session
  may leave with status 0 and no desktop (`FallbackComes`). A SIGTERM before the
  wrapper's handlers (`t630-managed-session.py:60`) leaves the group behind. The
  watch's wait after SIGKILL raises (`t630-gpu-session-watch.py:50`).
* Session manager: a late `Closed` or failure reply resets the action of a newer
  request.
* First boot: the password may be that of an attempt whose backend was killed
  (`MarkerLast`). A useradd that is killed, or loses its power, between account and
  home leaves an account that `account_already_valid` takes for a whole one
  (`t630_first_boot.py:127-137`): the next run leaves useradd out (97) and commits an
  owner without a home ("half").
* Rotation of the setup session: the relay sees only the orientation it found at
  its start (`t630-first-boot-rotation.py:50`) and ends on an uncaught error (58);
  the follower looks only when the transform changes (`t630-first-boot-resize.py:99`),
  and `t630-weston-rotation.c:70` ignores a state file it could not write, so one
  failure there may leave the sizes apart (`Beyond`). A state file that could not
  be opened keeps the transform the output has left: turning the tablet back to it
  sends nothing (`t630-rotation-controller.py:179-184`), and the output stays as it is
  until another orientation comes (`Misled`).
* Pen guard: the query may remove an "out" from the queue while an older "in" waits
  to be believed (`TouchBack`, "crossed").
* Installer: finalize leaves the seal when its second validation fails
  (`SaysTruth`), and a copy on linuxroot is checked by its sums only. A token that
  was not used stays.
* GPT: a signal after a successful command ends `restore-stock-gpt` through its trap
  (133) with status 0 and no rollback, whereas `docs/FACTORY-RESTORE.md:30-31`
  promises an automatic reload; a failing `check_original_layout` inside the
  rollback of `apply-dualboot-split` (225) ends it without the last word.
* Builders: the authorization of the dual-boot assets is in place before its copies
  are compared (`provision_private_dualboot_assets`, `RecordTrue`), and the inputs
  of `ReadAgain` may be recorded in another version than they were packed in.

What else the runs ask for holds.

## 6. Proofs

A theorem is about every value of its module's constants; the assumptions it
rests on are the named ones of that module, and TLC evaluates them in every run.

| Proof module | Assumptions | Theorems (of `Spec` of the component) |
|---|---|---|
| `BootRootProofs` | `RootsDiffer`, `BootsBound`, `Features` | `TypeInvariant`, `DisciplineInvariant`, `FallBack`, `Implements` |
| `BootJournalProofs` | the same | `RefusedIsRetried`, `RunningRootReturns`, `ReadyReturns`, `EarlierRecordSurvives`, `ChargerBootIsClean` |
| `BootSwitchProofs` | `StepsBound` | `TypeInvariant`, `TrapCanRestore`, `LastWordIsTrue` |
| `SuspendHelperProofs` | `NobodyIsNoHelper` | `TypeInvariant`, `NeverAsleepForGood`, `FreezerKeepsPattern`, `EverythingUndone`, `SensorsReturn` |
| `PowerMonitorProofs` | `LevelsLit`, `Switches`, `QueueRoom` | `TypeInvariant`, `BrightnessIsKept`, `ExitIsClean`, `WakeIsConsumed` |
| `TransactionProofs` | `GptSplitConstants`, `AndroidInitConstants`, `FirstBootConstants` | `TableTruth`, `MiscTruth`, `MarkerIsCommit` |
| `PublishProofs` | `PublishConstants` | `RecordsAreTrue`, `PublishedIsKept` |
| `EnsembleProofs` | those of every component of `MCEnsemble` | `OneDesktop`, `VerifiedIsTrue`, `RomAtRomSpeed`, `CalibrationIsRight`, `AnswerIsOwed`, `TouchFollowsPen`; of the whole: `EnsembleTyped`, `EnsembleSafe` |

None of the properties is inductive: each says how something ends, and not where
the programs are on the way. Each module therefore has an inductive invariant,
checked by TLC on the bounds of the run (or on smaller ones) before its proof, and
three facts: the initial states have it, every step keeps it, it implies the
property. What the invariants add, and why:

* `BootRoot`, fall back. `Discipline` says that from `StartConsume` on no
  selector exists in `fs`, that from the sync on none exists on `disk` either,
  which root is chosen and published at which point, and that only a stop helper
  under the stop marker can bring a selector back. `Implements` uses it as the
  guard of `Enter` and `Rearm` of `OneShotRoot`; that start-ubuntu does not run on a
  charger boot is the guard of `Take` and `Enter`; every other step is a stutter.
* `BootRoot`, journals (`JournalInv`). `Calm`: a tablet that is off or charging has
  nothing dirty, and userdata is mounted once per boot. `Actions`: who owns the
  action journal's temporary. `Returnable`: the clean root is entered with a whole
  marker, which then only moves. `Rearmed`: from the rearming of the selector to the
  act it is complete in memory and on storage. `BootRecords`: no record is newer
  than this boot, the last is not older than the previous one, and every durable record
  of storage has one in the kernel's view that is durable and not older, unless the
  rotation has put an emptied journal over it. The two action properties follow from
  the same invariant, step by step; failing commands need nothing of their own,
  because it holds at every line.
* `BootSwitch`. `Staged` says at each line of the scripts what BOOT and the rollback
  image hold, which of the two flags are set and what was said; `JournalTells` that a
  journal which is wrong about BOOT was undone by a trap. `changed` is set before the first byte is written and
  the copy is verified before, so the trap never restores a torn image.
* `SuspendHelper`. `Exclusive`: a helper is between lock and return exactly when
  it holds the lock, whatever the others do. `Awakes` and `Undone` say where the
  holder is while something is installed, and thus who will undo it. `Kept`:
  processes of the bridge die only in the hands of a helper that still waits for
  them, and an incomplete bridge has a helper that will launch its start script or
  a script that completes it from where it is (`Completes`).
* `PowerMonitor`. `Held` says at each point between two system calls where the
  brightness is: on the panel, in the file or both. `Answered` and `Leaves` say who
  called, and what an ended monitor left.
* `GptSplit` and `AndroidInit`. `TableHeld` and `MiscHeld` tell from the place of a
  program what the disk holds; the second one only until something has happened
  that excuses a wrong word (a cut, a signal, an unheard answer).
* `FirstBoot`. `Prepared` says what the running attempt has on disk after each
  step, `Owned` that a marker means a complete attempt, for the disk and for what a
  power cut would leave. The orphan of a killed backend, which works beside the
  next attempt, is the difficult part: it may add and may set a password late,
  but owns no file of the later attempt (`Adds`, `Replaces`). `Housed`: an account
  without a home is one whose useradd runs or was cut off.
* `DesktopStart`. `Belongs`: a living shell without a watch belongs to a script
  that still signals it, or to helpers that hold the lock for good. `Fresh`: the
  second session starts only where nothing of the first is left.
* `Installer` (`InstallerInv`). The one console outlives the tools that write into
  it, so the proof is about what may be in it. `QueueInv`: only its last command may be a
  tool's own, that tool waits for it, and only the first one has begun. `Progress`: a
  running install has the console for itself from its first answer on, so the `apply`
  it hears from is its own. `Seals` and `Copies`: nothing of a bundle is sent
  unless its seal is the one of valid files, and a seal of other files came with
  the copy on linuxroot. `Applying`: the sums that `--apply` checked stay those of
  what it extracts. `HostShapes` sorts the steps by what they do to tool and console;
  each part of the invariant is proved shape by shape.
* `Bluetooth` (`LineInv`). A loader that talks is in one of four situations. `Dead`: the
  controller hangs, and no answer to the reset will be read. `Greeting`: up to the
  speed change the receive buffer holds what was just answered. `OnTime`: afterwards
  as well, so the board answered its own query and the file is the right one.
  `Surplus`: an idle notice was taken for the answer to the speed change, one answer
  stays ahead, and what is read after the reset is an older packet, which is refused.
  `Skipless` (nothing is skipped in a reading) makes every read take the first packet.
  Killed and failed loaders need no situation: power_on makes the next one start as
  the first (`Powered`).

* `SessionDialog` (`DialogInv`). `Ordered` is about the newest request only: its call is
  the last of the queue it is in, nothing is queued behind it once it is shown or
  spoken of on the wire, and it is replied to once. Hence no older dialog replaces it
  and no reply takes it from `waiting` while its answer is still to come. Each of the
  four ways in which an answer can be owed is then followed through every step.
* `PenGuard` (`PenInv`). `Follows` reads the events that the guard holds and the
  kernel's queue as one stream: if the last of it that tells anything is an arrival,
  the pen is near, and when the stream is empty the guard is about to write what is
  true, or has. Departures and overflows need nothing, for they lead to a query. What
  breaks `Follows` is exactly the query that removes a departure while an older arrival
  waits, which `mishaps` records ("crossed").
* `Publish` (`PublishInv`). The twenty-four programs are data for one interpreter, so
  the proof has two halves. `Places` lists, for each tool that refuses to write over its
  output, the step that refuses, makes the directory, completes the output, compares
  it and completes the record; `Placed` the step that renames, for those that
  replace it. That each program is like this is read off its steps. `Arranged` says
  what is complete before a step, given these places; `Archived` and `Authorized` do
  it for two tools that compare in ways of their own, `Replacing` for the
  renaming ones. `Unpublished`: behind its refusal a tool runs over nothing that was
  published, so its clean-up may remove everything. `Enclosed`: without the directory
  there is no output. `Clear`: a tool's files say nothing of inputs it does not read.
  The steps then keep the invariant from these facts alone, whatever the tool.
* `MCEnsemble` (`EnsembleInv`). The conjunction of the ten invariants. A step of the whole
  is a step of each component or leaves it alone (`StepOfAll`), so each part is kept by
  its own lemma. Types that no other proof needed are added: the processes around
  Bluetooth's loader (a launcher that launches has an attempt left,
  `ProcessesTyped`) and `Rotation` (a driver that applies a transform has an
  orientation, `Aimed`).

Only model-checked, and why: liveness and everything under fairness, which needs ENABLED
(`BootSettles`, `StopDecides`, `MonitorReturns`, `AutoRetries`, `StopEnds`, `FallbackComes`,
`NeverBusyForever`, `Settles`, `TouchBack`). Of the last five, `StillOwed` and `TouchAgrees`
prove the safety half of two: nothing that is owed gets lost, and where the guard
comes to rest it is right; that it comes to rest is left to TLC. Every invariant and
every action property of a passing run is proved.

## 7. Not modelled

See the components with status `not_modelled` in `PROJECT.json`:

* audio start: a fixed sequence of module loads, waits and control values, whose
  correctness is in the values;
* camera: pixel processing and vendor processes;
* login, lock and password helpers, desktop controls, the Android switcher
  application: one call each, or user interface code;
* release BOOT writers: the same write, readback and rollback as `BootSwitch`;
* diagnostics and hardware tests: pure input and output; kernel patches: fragments
  of third-party code.

Of components that are modelled in part: the Waydroid profile supervisor, the
session that shows the wizard, the launcher of the pen application, the formats
the builders write (tar, ar, boot images, AVB), the parsers and the partition
arithmetic of the verifiers, the preflight and the init of the maintenance
image, the idle timeout and the socket framing of the display settings.

Left out on purpose everywhere: kernel modules and firmware, the USB console as a
device, the contents of logs, symbolic-link and ownership checks (they refuse
tampered files, and the models have none), identity and geometry checks,
cryptographic hashes (an image is whole or it is not), the patching of
Bluetooth's NVM file.
