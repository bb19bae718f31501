----------------------------- MODULE Bluetooth -----------------------------
(***************************************************************************)
(* Bluetooth bring-up: the loader t630_qca_bt.py, which talks to the       *)
(* controller over the UART and then keeps the line discipline attached;   *)
(* the launcher t630-bluetooth-start, which tries the loader three times   *)
(* and then watches it; the supervisor, which restarts the launcher; the   *)
(* sweep of stop-ubuntu-remote, which sends each of them one SIGTERM.      *)
(* Bytes are abstracted to the kind of packet they make.  The controller   *)
(* answers a command at once, or hangs until its rail is cut; a restarted  *)
(* loader flushes the UART, so a later answer is never read.               *)
(***************************************************************************)
EXTENDS Naturals, Sequences

CONSTANTS LoaderAttempts,   \* tries of one launcher
          Segments,         \* segments of a TLV download
          MaxRounds         \* bound: launchers started by the supervisor

ASSUME BluetoothConstants ==
    LoaderAttempts \in Nat \ {0} /\ Segments \in Nat \ {0} /\ MaxRounds \in Nat \ {0}

VARIABLES
    rail,       \* the controller's power rail (rfkill state)
    chip,       \* the controller: UART speed, image, calibration
    fixed,      \* what never changes: HCI dialect, download mode, board file there
    uart,       \* speed of the host's UART
    rx,         \* packets in the receive buffer
    loader,     \* pc, stage, segment, dialect detected, board answered, stop flag,
                \* and whether it was launched after a stop began
    launcher,   \* pc, attempt (0: none of its own loader yet)
    supervisor, \* pc, launchers started
    swept       \* the stop sweep: "no", processes still to be signalled, "done"

line == <<rail, chip, fixed, uart, rx>>
bluetooth == <<line, loader, launcher, supervisor, swept>>

Stages == {"version", "speed", "patch", "board", "nvm", "reset"}
Working == {"rail_off", "rail_on", "open", "ask", "read", "trail", "settle"}
Attached == {"handlers", "check", "tested", "pause"}
LoaderPCs == {"gone"} \cup Working \cup Attached
Unguarded == {"launch", "await", "kill"}        \* before the launcher's trap
LauncherPCs == {"gone", "up", "watch", "cleanup"} \cup Unguarded
SupervisorPCs == {"spawn", "wait", "delay", "gone"}
Noise == {"wake_ack", "sleep"}
Packets == Noise \cup {"version", "vendor", "complete", "speed", "segment", "board", "reset"}

RomChip == [speed |-> "rom", image |-> "rom", nvm |-> "none"]
NoLoader == [pc |-> "gone", stage |-> "none", seg |-> 0, unified |-> FALSE, board |-> FALSE, stopped |-> FALSE,
             late |-> FALSE]

BluetoothTypeOK ==
    /\ rail \in BOOLEAN
    /\ chip \in [speed : {"rom", "fast"}, image : {"rom", "patch", "full", "hung"},
                 nvm : {"none", "own", "generic"}]
    /\ fixed \in [unified : BOOLEAN, quiet : BOOLEAN, own : BOOLEAN]
    /\ uart \in {"rom", "fast"}
    /\ rx \in Seq(Packets)
    /\ loader \in [pc : LoaderPCs, stage : Stages \cup {"none"}, seg : 0..Segments,
                   unified : BOOLEAN, board : BOOLEAN, stopped : BOOLEAN, late : BOOLEAN]
    /\ loader.pc \in {"ask", "read", "trail"} <=> loader.stage # "none"
    /\ launcher \in [pc : LauncherPCs, attempt : 0..LoaderAttempts]
    /\ supervisor \in [pc : SupervisorPCs, rounds : 0..MaxRounds]
    /\ swept \in {{"no"}, {"done"}} \cup SUBSET {"loader", "launcher", "supervisor"}

BluetoothInit ==
    /\ rail \in BOOLEAN /\ chip = RomChip
    /\ fixed \in [unified : BOOLEAN, quiet : BOOLEAN, own : BOOLEAN]
    /\ uart = "rom" /\ rx = <<>>
    /\ loader = NoLoader
    /\ launcher = [pc |-> "gone", attempt |-> 0]
    /\ supervisor = [pc |-> "spawn", rounds |-> 0]
    /\ swept = {"no"}

-----------------------------------------------------------------------------
(* The controller: what it answers to a command it can hear.               *)

Hears == rail /\ uart = chip.speed /\ chip.image # "hung"
Dialect(p) == IF fixed.unified THEN <<p>> ELSE <<p, "complete">>

\* Every answer the controller may give to the command of stage s.
Answers(s) ==
    CASE s = "version" -> {IF fixed.unified THEN <<"version">> ELSE <<"vendor", "complete">>}
      [] s = "speed"   -> {Dialect("speed"), <<"wake_ack">>, <<"sleep">>,
                           <<"sleep">> \o Dialect("speed")}
      [] s = "patch"   -> {IF fixed.quiet /\ loader.seg < Segments THEN <<>> ELSE <<"segment">>}
      [] s = "nvm"     -> {Dialect("segment")}
      [] s = "board"   -> {Dialect("board")}
      [] s = "reset"   -> {<<"reset">>}

\* What the command of stage s does to the controller.
Obeys(s) ==
    CASE s = "speed" -> [chip EXCEPT !.speed = "fast"]
      [] s = "patch" -> [chip EXCEPT !.image = "patch"]
      [] s = "nvm"   -> [chip EXCEPT !.image = "full",
                                     !.nvm = IF loader.board /\ fixed.own THEN "own"
                                                                          ELSE "generic"]
      [] OTHER       -> chip

-----------------------------------------------------------------------------
(* The loader.                                                             *)

LoaderAt(pc) == loader.pc = pc
LoaderGoto(pc) == loader' = [loader EXCEPT !.pc = pc]
InStage(pc, s) == loader.pc = pc /\ loader.stage = s

\* The exception handler of main: rail off, UART closed.
Fail == /\ rail' = FALSE /\ chip' = RomChip /\ rx' = <<>>
        /\ loader' = NoLoader
        /\ UNCHANGED <<fixed, uart>>

\* Mutant: a rail that is on is taken for a controller that is ready.
RailOffSkipped == LoaderAt("rail_off") /\ LoaderGoto("rail_on") /\ UNCHANGED line

\* power_on: off, pause, on, so that a patched controller is back in its ROM.
RailOff ==
    /\ LoaderAt("rail_off") /\ LoaderGoto("rail_on")
    /\ rail' = FALSE /\ chip' = RomChip
    /\ UNCHANGED <<fixed, uart, rx>>

RailOn ==
    /\ LoaderAt("rail_on") /\ LoaderGoto("open")
    /\ rail' = TRUE
    /\ UNCHANGED <<chip, fixed, uart, rx>>

\* The rfkill switch never appears: power_on raises before main's try begins.
NoRfkill == LoaderAt("rail_off") /\ loader' = NoLoader /\ UNCHANGED line

\* The device cannot be opened.
NoDevice == LoaderAt("open") /\ Fail

\* configure_uart: 115200 and an empty buffer.
OpenUart ==
    /\ LoaderAt("open") /\ loader' = [loader EXCEPT !.pc = "ask", !.stage = "version", !.seg = 1]
    /\ uart' = "rom" /\ rx' = <<>>
    /\ UNCHANGED <<rail, chip, fixed>>

NextStage == [version |-> "speed", speed |-> "patch", patch |-> "board", board |-> "nvm",
              nvm |-> "reset"]

\* The command goes out; the speed command also switches the host.
Ask(s) ==
    /\ InStage("ask", s)
    /\ LET skip == s = "patch" /\ fixed.quiet /\ loader.seg < Segments IN
       loader' = [loader EXCEPT !.pc = IF skip THEN @ ELSE "read",
                                !.seg = IF skip THEN @ + 1 ELSE @]
    /\ \/ Hears /\ (\E a \in Answers(s) : rx' = rx \o a) /\ chip' = Obeys(s)
       \/ Hears /\ chip' = [chip EXCEPT !.image = "hung"] /\ UNCHANGED rx
       \/ ~Hears /\ UNCHANGED <<rx, chip>>
    /\ uart' = IF s = "speed" THEN "fast" ELSE uart
    /\ UNCHANGED <<rail, fixed>>

\* read_event: the first packet that is an event, or at the speed change (allow
\* ibs) any packet; what is skipped before it is gone.
Readable(s) == {i \in 1..Len(rx) : rx[i] \notin Noise \/ s = "speed"}
FirstOf(s) == CHOOSE i \in Readable(s) : \A j \in Readable(s) : i <= j

\* Mutant: one segment too many.
AfterOneMore(s) ==
    IF s \in {"patch", "nvm"} /\ loader.seg <= Segments
    THEN [loader EXCEPT !.pc = "ask", !.seg = @ + 1]
    ELSE IF s = "reset" THEN [loader EXCEPT !.pc = "settle", !.stage = "none"]
    ELSE [loader EXCEPT !.pc = "ask", !.stage = NextStage[s], !.seg = 1]

\* After the answer of stage s: next segment, next stage, or the pause before attaching.
After(s) ==
    IF s \in {"patch", "nvm"} /\ loader.seg < Segments
    THEN [loader EXCEPT !.pc = "ask", !.seg = @ + 1]
    ELSE IF s = "reset" THEN [loader EXCEPT !.pc = "settle", !.stage = "none"]
    ELSE [loader EXCEPT !.pc = "ask", !.stage = NextStage[s], !.seg = 1]

\* Mutant: nobody looks what the event answers.
AcceptsAny(s, p) == TRUE

\* Whether an event is accepted as the answer of stage s.
Accepts(s, p) ==
    CASE s = "version" -> p \in {"version", "vendor"}
      [] s = "reset"   -> p = "reset"
      [] OTHER         -> TRUE

\* Whether stage s is followed by the command-complete of the older dialect.
Trails(s, p) ==
    CASE s = "version" -> p = "vendor"
      [] s = "speed"   -> ~loader.unified /\ p \notin Noise
      [] s \in {"nvm", "board"} -> ~loader.unified
      [] OTHER -> FALSE

Read(s) ==
    /\ InStage("read", s) /\ Readable(s) # {}
    /\ LET i == FirstOf(s)
           p == rx[i]
       IN IF Accepts(s, p)
          THEN /\ rx' = SubSeq(rx, i + 1, Len(rx))
               /\ loader' = [(IF Trails(s, p) THEN [loader EXCEPT !.pc = "trail"]
                                              ELSE After(s))
                             EXCEPT !.unified = IF s = "version" THEN p = "version" ELSE @,
                                    !.board = IF s = "board" THEN p = "board" ELSE @]
               /\ UNCHANGED <<rail, chip, fixed, uart>>
          ELSE Fail

\* The second read_event of the older dialect.
ReadTrailing(s) ==
    /\ InStage("trail", s) /\ Readable("trail") # {}
    /\ rx' = SubSeq(rx, FirstOf("trail") + 1, Len(rx))
    /\ loader' = After(s)
    /\ UNCHANGED <<rail, chip, fixed, uart>>

\* Nothing to read for two seconds.
ReadTimeout ==
    /\ \/ LoaderAt("read") /\ Readable(loader.stage) = {}
       \/ LoaderAt("trail") /\ Readable("trail") = {}
    /\ Fail

\* A second after the reset the line discipline is attached and hci0 appears.
Attach == LoaderAt("settle") /\ LoaderGoto("handlers") /\ UNCHANGED line
AttachFails == LoaderAt("settle") /\ Fail

\* The handlers of SIGTERM and SIGINT are set; then the flag is tested and
\* pause() called, and a signal between these two is lost.
LoaderHandlers == LoaderAt("handlers") /\ LoaderGoto("check") /\ UNCHANGED line

CheckStop ==
    /\ LoaderAt("check")
    /\ IF loader.stopped THEN loader' = NoLoader ELSE LoaderGoto("tested")
    /\ UNCHANGED line

Pause == LoaderAt("tested") /\ LoaderGoto("pause") /\ UNCHANGED line

LoaderStep ==
    /\ \/ RailOff \/ RailOn \/ NoRfkill \/ NoDevice \/ OpenUart
       \/ \E s \in Stages : Ask(s) \/ Read(s) \/ ReadTrailing(s)
       \/ ReadTimeout \/ Attach \/ AttachFails \/ LoaderHandlers \/ CheckStop \/ Pause
    /\ UNCHANGED <<launcher, supervisor, swept>>

\* Mutant: the signals are held back until the handlers are there, and then dropped.
TerminatedLate ==
    CASE loader.pc \in {"check", "tested"} -> [loader EXCEPT !.stopped = TRUE]
      [] loader.pc = "pause" -> NoLoader
      [] OTHER -> loader

\* SIGTERM: before the handlers it kills, and the rail stays as it is; afterwards
\* it sets the flag, and wakes pause() if that is where the loader is.
Terminated ==
    CASE loader.pc \in Working \cup {"handlers"} -> NoLoader
      [] loader.pc \in {"check", "tested"} -> [loader EXCEPT !.stopped = TRUE]
      [] loader.pc = "pause" -> NoLoader
      [] OTHER -> loader

\* A loader that waits for a signal that has already come.
Missed == LoaderAt("pause") /\ loader.stopped

-----------------------------------------------------------------------------
(* The launcher.                                                           *)

LoaderAlive == ~LoaderAt("gone")
BluetoothStopping == swept # {"no"}
LauncherGoto(pc) == launcher' = [launcher EXCEPT !.pc = pc]

\* loader_pid: a loader found running is nobody's, and no clean-up signals it.
Owns == launcher.attempt > 0
SignalOwn == loader' = IF Owns THEN Terminated ELSE loader

\* A running loader is reused, whatever its state.
Reuse ==
    /\ launcher.pc = "launch" /\ ~Owns /\ LoaderAlive
    /\ LauncherGoto("up")
    /\ UNCHANGED <<line, loader, supervisor, swept>>

Launch ==
    /\ launcher.pc = "launch" /\ (Owns \/ ~LoaderAlive)
    /\ launcher' = [pc |-> "await", attempt |-> launcher.attempt + 1]
    /\ loader' = [NoLoader EXCEPT !.pc = "rail_off", !.late = BluetoothStopping]
    /\ UNCHANGED <<line, supervisor, swept>>

\* Another attempt, or exit 1 after the last.
NextAttempt == LauncherGoto(IF launcher.attempt < LoaderAttempts THEN "launch" ELSE "gone")

Await ==
    /\ launcher.pc = "await"
    /\ \/ loader.pc \in Attached /\ LauncherGoto("up")
       \/ ~LoaderAlive /\ NextAttempt
    /\ UNCHANGED <<line, loader, supervisor, swept>>

\* 30 seconds without hci0: the loader is signalled and waited for.
AwaitTimeout ==
    /\ launcher.pc = "await" /\ LoaderAlive
    /\ LauncherGoto("kill") /\ loader' = Terminated
    /\ UNCHANGED <<line, supervisor, swept>>

Reaped ==
    /\ launcher.pc = "kill" /\ ~LoaderAlive
    /\ NextAttempt
    /\ UNCHANGED <<line, loader, supervisor, swept>>

\* hci0, hciconfig, the LE command and bluetoothd succeed, or one of them fails.
BringUp ==
    /\ launcher.pc = "up"
    /\ \/ loader.pc \in Attached /\ LauncherGoto("watch") /\ UNCHANGED loader
       \/ LauncherGoto("cleanup") /\ SignalOwn
    /\ UNCHANGED <<line, supervisor, swept>>

\* bluetoothd dies, or the launcher's own loader is gone: exit through the trap.
WatchEnds ==
    /\ launcher.pc = "watch"
    /\ LauncherGoto("cleanup") /\ SignalOwn
    /\ UNCHANGED <<line, supervisor, swept>>

CleanedUp ==
    /\ launcher.pc = "cleanup" /\ (Owns => ~LoaderAlive)
    /\ LauncherGoto("gone")
    /\ UNCHANGED <<line, loader, supervisor, swept>>

LauncherStep == \/ Launch \/ Reuse \/ Await \/ Reaped \/ BringUp \/ CleanedUp
                \/ (Owns /\ ~LoaderAlive /\ WatchEnds)

\* The launcher is killed outright, and its loader lives on.
LauncherKilled ==
    /\ launcher.pc # "gone" /\ LauncherGoto("gone")
    /\ UNCHANGED <<line, loader, supervisor, swept>>

-----------------------------------------------------------------------------
(* The supervisor and the stop sweep.                                      *)

Supervise ==
    /\ \/ /\ supervisor.pc = "spawn" /\ ~BluetoothStopping /\ supervisor.rounds < MaxRounds
          /\ supervisor' = [pc |-> "wait", rounds |-> supervisor.rounds + 1]
          /\ launcher' = [pc |-> "launch", attempt |-> 0]
       \/ /\ supervisor.pc = "wait" /\ launcher.pc = "gone"
          /\ supervisor' = [supervisor EXCEPT
                               !.pc = IF BluetoothStopping THEN "gone" ELSE "delay"]
          /\ UNCHANGED launcher
       \/ /\ supervisor.pc = "delay"
          /\ supervisor' = [supervisor EXCEPT !.pc = "spawn"]
          /\ UNCHANGED launcher
       \/ /\ supervisor.pc = "spawn" /\ BluetoothStopping
          /\ supervisor' = [supervisor EXCEPT !.pc = "gone"]
          /\ UNCHANGED launcher
    /\ UNCHANGED <<line, loader, swept>>

BluetoothAlive == (IF LoaderAlive THEN {"loader"} ELSE {})
    \cup (IF launcher.pc # "gone" THEN {"launcher"} ELSE {})
    \cup (IF supervisor.pc # "gone" THEN {"supervisor"} ELSE {})

\* The marker is set and the processes that are there are listed.
BeginBluetoothSweep ==
    /\ ~BluetoothStopping /\ swept' = BluetoothAlive
    /\ UNCHANGED <<line, loader, launcher, supervisor>>

\* SIGTERM to the launcher: fatal before its trap, the cleanup afterwards.  What
\* the script does after a trap's cleanup fails for want of hci0.
LauncherTermed ==
    IF launcher.pc \in Unguarded \cup {"gone"}
    THEN launcher' = [launcher EXCEPT !.pc = "gone"] /\ UNCHANGED loader
    ELSE LauncherGoto("cleanup") /\ SignalOwn

SignalBluetooth(p) ==
    /\ swept' = IF swept = {p} THEN {"done"} ELSE swept \ {p}
    /\ CASE p = "loader" -> loader' = Terminated /\ UNCHANGED <<launcher, supervisor>>
         [] p = "launcher" -> LauncherTermed /\ UNCHANGED supervisor
         [] p = "supervisor" -> /\ supervisor' = [supervisor EXCEPT !.pc = "gone"]
                                /\ IF supervisor.pc = "wait" THEN LauncherTermed
                                   ELSE UNCHANGED <<launcher, loader>>
    /\ UNCHANGED line

SweepBluetooth == \E p \in {"loader", "launcher", "supervisor"} \cap swept : SignalBluetooth(p)

BluetoothNext == \/ LoaderStep \/ LauncherStep \/ AwaitTimeout \/ WatchEnds \/ Supervise
                 \/ LauncherKilled
                 \/ BeginBluetoothSweep \/ SweepBluetooth

\* Every process that can step does; the stop request, the death of bluetoothd
\* and the timeout of a loader that answers need not come.
BluetoothFairness == /\ WF_bluetooth(LoaderStep) /\ WF_bluetooth(LauncherStep)
                     /\ WF_bluetooth(Supervise) /\ WF_bluetooth(SweepBluetooth)

BluetoothSpec == BluetoothInit /\ [][BluetoothNext]_bluetooth /\ BluetoothFairness

-----------------------------------------------------------------------------
(* Properties.                                                             *)

\* The ROM protocol starts at ROM speed: when the version query goes out the
\* controller runs its ROM at 115200, whatever a loader that was killed half way
\* or an earlier service left it in (power_on's reason to cut the rail).
RomSpeed == InStage("ask", "version") => Hears /\ chip = RomChip

\* An adapter that is attached has the calibration of its board: an answer read
\* one command late (the controller may send an idle notice before the answer to the
\* speed change) shifts every later answer, the board query would go unanswered and
\* the generic file be used; the check of the reset answer catches the shift.
RightCalibration ==
    loader.pc \in Attached => chip.nvm = (IF fixed.own THEN "own" ELSE "generic")

\* A stop leaves no Bluetooth process behind (stop-ubuntu-remote refuses to go on
\* while one is there), unless the loader lost its only signal before pause() or
\* was launched, by a launcher not yet signalled, after the sweep had listed them.
StopEnds == BluetoothStopping ~> (BluetoothAlive = {} \/ Missed \/ loader.late)
=============================================================================
