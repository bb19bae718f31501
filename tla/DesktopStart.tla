---------------------------- MODULE DesktopStart ----------------------------
(***************************************************************************)
(* The GNOME session of the tablet: t630-desktop-autostart tries the GPU   *)
(* session and, when it fails, becomes the software session; each runs     *)
(* under the wrapper t630-managed-session.py, which forks, registers the   *)
(* child with login1 and waits for it; the child runs t630-gnome-session   *)
(* under a lock that its helpers inherit; the GPU shell has a watch,       *)
(* t630-gpu-session-watch.py.  The stop sweep sends each process a SIGTERM.*)
(***************************************************************************)
EXTENDS Naturals

CONSTANTS HealthFailures    \* failed probes before the watch gives up
ASSUME DesktopStartConstants == HealthFailures \in Nat \ {0}

VARIABLES
    mode,     \* renderer of the session the wrapper runs
    auto,     \* autostart: "wait"s for the GPU session, "exec"ed the software one, "gone"
    wrapper,  \* the wrapper and whether it has set its handlers
    session,  \* the group leader and its script, with the exit status
    watch,    \* the watch: pc, stop flag, failures, status
    shell,    \* gnome-shell
    helpers,  \* the other children of the script, which hold its lock
    ended     \* the stop sweep, as in Bluetooth

desktop == <<mode, auto, wrapper, session, watch, shell, helpers, ended>>

Parts == {"auto", "wrapper", "session", "watch", "shell", "helpers"}
WatchIdle == [pc |-> "gone", stopping |-> FALSE, failures |-> 0, status |-> 0]

DesktopTypeOK ==
    /\ mode \in {"gpu", "software"}
    /\ auto \in {"wait", "exec", "gone"}
    /\ wrapper \in {"fork", "register", "unset", "wait", "gone"}
    /\ session \in [pc : {"pipe", "prepare", "start", "run", "cleanup", "gone"}, status : 0..2]
    /\ watch \in [pc : {"startup", "health", "terminate", "kill", "gone"},
                  stopping : BOOLEAN, failures : 0..HealthFailures, status : 0..2]
    /\ shell \in {"starting", "ready", "hung", "stuck", "gone"}
    /\ helpers \in {"up", "termed", "gone"}
    /\ ended \in {{"no"}, {"done"}} \cup SUBSET Parts

DesktopInit ==
    /\ mode \in {"gpu", "software"} /\ auto = IF mode = "gpu" THEN "wait" ELSE "exec"
    /\ wrapper = "fork" /\ session = [pc |-> "gone", status |-> 0]
    /\ watch = WatchIdle /\ shell = "gone" /\ helpers = "gone" /\ ended = {"no"}

DesktopStopping == ended # {"no"}
Left(parts) == IF parts = {} THEN {"done"} ELSE parts   \* still to be signalled
SessionTo(pc, status) == session' = [pc |-> pc, status |-> status]

-----------------------------------------------------------------------------
(* The wrapper and autostart.                                              *)

Fork ==
    /\ wrapper = "fork"
    /\ wrapper' = "register" /\ SessionTo("pipe", 0)
    /\ UNCHANGED <<mode, auto, watch, shell, helpers, ended>>

\* CreateSession answers and its id goes down the pipe, or it fails: the pipe is
\* closed, the group terminated and the child waited for.
Register ==
    /\ wrapper = "register"
    /\ \/ wrapper' = "unset" /\ SessionTo("prepare", 0)
       \/ wrapper' = "wait" /\ SessionTo("gone", 1)
    /\ UNCHANGED <<mode, auto, watch, shell, helpers, ended>>

WrapperHandlers ==
    /\ wrapper = "unset" /\ wrapper' = "wait"
    /\ UNCHANGED <<mode, auto, session, watch, shell, helpers, ended>>

\* exec: the same process is the new wrapper; the old ones of a sweep are gone.
BecomeSoftware ==
    /\ auto' = "exec" /\ wrapper' = "fork" /\ mode' = "software"
    /\ ended' = Left(ended \ {"wrapper", "session", "watch"})

\* The child is reaped: its status goes to autostart, which ends after a success or
\* the software session and else becomes the software session.
Reap ==
    /\ wrapper = "wait" /\ session.pc = "gone"
    /\ IF auto = "wait" /\ session.status # 0
       THEN BecomeSoftware
       ELSE auto' = "gone" /\ wrapper' = "gone" /\ UNCHANGED <<mode, ended>>
    /\ UNCHANGED <<session, watch, shell, helpers>>

\* A child whose wrapper died before it registered reads the end of the pipe.
PipeClosed ==
    /\ session.pc = "pipe" /\ wrapper = "gone" /\ SessionTo("gone", 1)
    /\ UNCHANGED <<mode, auto, wrapper, watch, shell, helpers, ended>>

\* A GPU wrapper that dies of a signal is a failure to autostart as well.
WrapperLost ==
    /\ wrapper = "gone" /\ auto = "wait" /\ BecomeSoftware
    /\ UNCHANGED <<session, watch, shell, helpers>>

-----------------------------------------------------------------------------
(* The session script.                                                     *)

LockHeld == helpers # "gone" \/ watch.pc # "gone"

\* The lock: exit 0 when a process of an earlier session holds it; else helpers
\* and shell (under the watch when it renders on the GPU) are started.
PrepareSession ==
    /\ session.pc = "prepare"
    /\ IF LockHeld
       THEN SessionTo("gone", 0) /\ UNCHANGED <<watch, shell, helpers>>
       ELSE /\ SessionTo("start", 0) /\ helpers' = "up" /\ shell' = "starting"
            /\ watch' = IF mode = "gpu" THEN [WatchIdle EXCEPT !.pc = "startup"] ELSE watch
    /\ UNCHANGED <<mode, auto, wrapper, ended>>

\* What the script waits for: the watch, or the shell itself.
Child == IF mode = "gpu" THEN watch.pc ELSE shell

\* The shell's socket and bus name are there, or twenty seconds have passed, or
\* the child has died (set -e).
Started ==
    /\ session.pc = "start"
    /\ \/ shell = "ready" /\ Child # "gone" /\ SessionTo("run", 0)
       \/ shell # "ready" /\ SessionTo("cleanup", 1)
       \/ Child = "gone" /\ SessionTo("cleanup", 1)
    /\ UNCHANGED <<mode, auto, wrapper, watch, shell, helpers, ended>>

\* wait "$shell_pid" returns its status.
ShellWaited ==
    /\ session.pc = "run" /\ Child = "gone"
    /\ SessionTo("cleanup", IF mode = "gpu" THEN watch.status ELSE 0)
    /\ UNCHANGED <<mode, auto, wrapper, watch, shell, helpers, ended>>

\* A request to stop reaches the watch as a flag, the plain shell as a signal.
TermChild ==
    /\ watch' = IF watch.pc \in {"startup", "health"} THEN [watch EXCEPT !.stopping = TRUE]
                ELSE watch
    /\ shell' = IF watch.pc = "gone" /\ shell \in {"starting", "ready"} THEN "gone" ELSE shell

\* The exit trap signals every child and waits for Xwayland only.
Cleanup ==
    /\ session.pc = "cleanup" /\ SessionTo("gone", session.status)
    /\ TermChild
    /\ helpers' = IF helpers = "up" THEN "termed" ELSE helpers
    /\ UNCHANGED <<mode, auto, wrapper, ended>>

HelpersExit ==
    /\ helpers = "termed" /\ helpers' = "gone"
    /\ UNCHANGED <<mode, auto, wrapper, session, watch, shell, ended>>

-----------------------------------------------------------------------------
(* The shell and its watch.                                                *)

ShellReady ==
    /\ shell = "starting" /\ shell' = "ready"
    /\ UNCHANGED <<mode, auto, wrapper, session, watch, helpers, ended>>

\* It hangs (in the GPU driver perhaps beyond SIGKILL) or exits.
ShellFails ==
    /\ shell \in {"starting", "ready"}
    /\ \/ mode = "gpu" /\ shell' \in {"hung", "stuck"}
       \/ shell' = "gone"
    /\ UNCHANGED <<mode, auto, wrapper, session, watch, helpers, ended>>

\* Mutant: the watch ends with success, whatever it has seen.
GiveSuccess(status) == watch' = [watch EXCEPT !.pc = "terminate", !.status = 0]

Give(status) == watch' = [watch EXCEPT !.pc = "terminate", !.status = status]

\* One turn of supervise's loops: the child exited, a stop was asked for, the probe
\* answers, or it does not and a deadline or the count of failures is reached.
WatchTurn ==
    /\ watch.pc \in {"startup", "health"}
    /\ \/ watch.stopping /\ Give(2)
       \/ /\ ~watch.stopping /\ shell = "gone"
          /\ \E s \in IF watch.pc = "startup" THEN {1} ELSE {0, 1} : Give(s)
       \/ /\ ~watch.stopping /\ shell = "ready"
          /\ watch' = [watch EXCEPT !.pc = "health", !.failures = 0]
       \/ /\ ~watch.stopping /\ shell \in {"starting", "hung", "stuck"}
          /\ IF watch.pc = "startup" \/ watch.failures + 1 = HealthFailures
             THEN Give(1)
             ELSE watch' = [watch EXCEPT !.failures = @ + 1]
    /\ UNCHANGED <<mode, auto, wrapper, session, shell, helpers, ended>>

\* Mutant: the child is signalled and not waited for.
StopChildNoWait ==
    /\ watch.pc = "terminate" /\ watch' = [watch EXCEPT !.pc = "gone"]
    /\ shell' = IF shell \in {"starting", "ready"} THEN "gone" ELSE shell
    /\ UNCHANGED <<mode, auto, wrapper, session, helpers, ended>>

\* stop_owned_child: terminate and wait, kill and wait; a child that outlives the
\* kill makes the second wait raise.
StopChild ==
    /\ \/ /\ watch.pc = "terminate"
          /\ IF shell \in {"starting", "ready", "gone"}
             THEN shell' = "gone" /\ watch' = [watch EXCEPT !.pc = "gone"]
             ELSE watch' = [watch EXCEPT !.pc = "kill"] /\ UNCHANGED shell
       \/ /\ watch.pc = "kill"
          /\ IF shell = "stuck" THEN watch' = [watch EXCEPT !.pc = "gone", !.status = 1]
                                    /\ UNCHANGED shell
             ELSE watch' = [watch EXCEPT !.pc = "gone"] /\ shell' = "gone"
    /\ UNCHANGED <<mode, auto, wrapper, session, helpers, ended>>

-----------------------------------------------------------------------------
(* The stop sweep.                                                         *)

DesktopAlive == {p \in Parts : \/ p = "auto" /\ auto = "wait"
                               \/ p = "wrapper" /\ wrapper # "gone"
                               \/ p = "session" /\ session.pc # "gone"
                               \/ p = "watch" /\ watch.pc # "gone"
                               \/ p = "shell" /\ shell # "gone"
                               \/ p = "helpers" /\ helpers # "gone"}

BeginDesktopSweep ==
    /\ ~DesktopStopping /\ ended' = DesktopAlive
    /\ UNCHANGED <<mode, auto, wrapper, session, watch, shell, helpers>>

\* killpg, or the signal itself: dbus-run-session dies of it (status 2), the
\* script's trap runs its cleanup.
TermGroup ==
    /\ session' = IF session.pc = "gone" THEN session ELSE [pc |-> "gone", status |-> 2]
    /\ watch' = IF watch.pc \in {"startup", "health"} THEN [watch EXCEPT !.stopping = TRUE]
                ELSE watch
    /\ shell' = IF shell \in {"starting", "ready"} THEN "gone" ELSE shell
    /\ helpers' = IF helpers = "up" THEN "termed" ELSE helpers

\* Once its handlers are set the wrapper passes the signal on; before, it dies.
TermWrapper ==
    IF wrapper = "wait" THEN TermGroup /\ UNCHANGED wrapper
    ELSE wrapper' = "gone" /\ UNCHANGED <<session, watch, shell, helpers>>

SignalDesktop(p) ==
    /\ ended' = Left(ended \ {p})
    /\ CASE p = "auto" ->
            IF auto = "exec" THEN TermWrapper /\ UNCHANGED auto
            ELSE auto' = "gone" /\ UNCHANGED <<wrapper, session, watch, shell, helpers>>
         [] p = "wrapper" -> TermWrapper /\ UNCHANGED auto
         [] p = "session" -> TermGroup /\ UNCHANGED <<auto, wrapper>>
         [] p = "watch" ->
            /\ watch' = IF watch.pc \in {"startup", "health"}
                        THEN [watch EXCEPT !.stopping = TRUE] ELSE watch
            /\ UNCHANGED <<auto, wrapper, session, shell, helpers>>
         [] p = "shell" ->
            /\ shell' = IF shell \in {"starting", "ready"} THEN "gone" ELSE shell
            /\ UNCHANGED <<auto, wrapper, session, watch, helpers>>
         [] p = "helpers" ->
            /\ helpers' = IF helpers = "up" THEN "termed" ELSE helpers
            /\ UNCHANGED <<auto, wrapper, session, watch, shell>>
    /\ UNCHANGED mode

SweepDesktop == \E p \in Parts \cap ended : SignalDesktop(p)

-----------------------------------------------------------------------------
WrapperStep == Fork \/ Register \/ WrapperHandlers \/ Reap \/ PipeClosed \/ WrapperLost
ScriptStep == PrepareSession \/ Started \/ ShellWaited \/ Cleanup
WatchStep == WatchTurn \/ StopChild
DesktopNext == \/ WrapperStep \/ ScriptStep \/ HelpersExit \/ ShellReady \/ ShellFails
               \/ WatchStep \/ BeginDesktopSweep \/ SweepDesktop

\* Processes run; the shell need neither fail nor become ready, but one that does
\* not fail does become ready.
DesktopFairness ==
    /\ WF_desktop(WrapperStep) /\ WF_desktop(ScriptStep) /\ WF_desktop(HelpersExit)
    /\ WF_desktop(WatchStep) /\ WF_desktop(SweepDesktop) /\ WF_desktop(ShellReady)

DesktopSpec == DesktopInit /\ [][DesktopNext]_desktop /\ DesktopFairness

-----------------------------------------------------------------------------
(* Properties.                                                             *)

\* Two sessions never overlap: a script that starts its shell finds the earlier one
\* dead, because the watch that owned it outlives it and holds the lock; only a shell
\* that survives SIGKILL in the driver is left behind.
OneShell == session.pc = "prepare" /\ ~LockHeld => shell \in {"gone", "stuck"}

\* A GPU session that hangs ends in a software desktop, unless a stop comes, login1
\* refuses the second session, or a process of the first still holds the lock, which
\* makes the second leave quietly with status 0 and no desktop at all.
FallbackComes ==
    mode = "gpu" /\ shell \in {"hung", "stuck"}
        ~> \/ DesktopStopping
           \/ mode = "software" /\ session.pc = "start"
           \/ mode = "software" /\ session.pc = "prepare" /\ LockHeld
           \/ auto = "gone" /\ session = [pc |-> "gone", status |-> 1]
=============================================================================
