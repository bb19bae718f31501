--------------------------- MODULE EnsembleProofs ---------------------------
(***************************************************************************)
(* Proofs about the components that MCEnsemble checks: that two desktop    *)
(* sessions never have a shell each (DesktopStart), for any number of      *)
(* failed probes; that the installer says "verified" only of what is on    *)
(* linuxroot (Installer), for any number of faults and actions; that an    *)
(* attached Bluetooth adapter has the calibration of its board             *)
(* (Bluetooth), for any number of attempts and segments; that a busy       *)
(* session manager is owed an answer (SessionDialog), for any number of    *)
(* requests; that the touchscreen follows the pen (PenGuard), for any      *)
(* length of the kernel's queue; and, with TransactionProofs and           *)
(* PublishProofs, the types and safety of all ten side by side.            *)
(***************************************************************************)
EXTENDS MCEnsemble, TransactionProofs, PublishProofs, SequenceTheorems, TLAPS

-----------------------------------------------------------------------------
(* The desktop.                                                            *)

Alive == shell \in {"starting", "ready"}
Unwatched == Alive /\ watch.pc = "gone"

\* Once a sweep runs, helpers that it did not list are signalled with their group only.
Spared == DesktopStopping /\ "helpers" \notin ended

\* The first session of a GPU desktop finds nothing; a second one exists only once
\* autostart became the software session.
First == auto = "wait" => mode = "gpu" /\ (wrapper = "gone" => DesktopStopping)

Fresh ==
    /\ auto = "wait" /\ wrapper = "fork" => session.pc = "gone"
    /\ auto = "wait" /\ (wrapper \in {"fork", "register"} \/ session.pc \in {"pipe", "prepare"})
            => helpers = "gone" /\ watch.pc = "gone" /\ shell = "gone" /\ "helpers" \notin ended

\* A shell without a watch belongs to a script that signals it, or its helpers hold the
\* lock for good.
Belongs ==
    /\ shell = "hung" => watch.pc # "gone"
    /\ Unwatched => /\ mode = "software"
                    /\ \/ session.pc \in {"start", "run", "cleanup"}
                       \/ helpers = "up" /\ Spared
    /\ Unwatched /\ wrapper \in {"fork", "register"} => helpers = "up" /\ Spared
    /\ wrapper = "register" => session.pc \in {"pipe", "gone"}
    /\ wrapper = "fork" /\ session.pc = "prepare" => Spared

\* The count of failed probes stays below the limit at which the watch ends.
Counted == watch.failures < HealthFailures

DesktopInv == DesktopTypeOK /\ Counted /\ First /\ Fresh /\ Belongs

\* What a signal of the sweep leaves to be signalled.
LEMMA LeftOver ==
    ASSUME DesktopTypeOK, NEW p \in Parts \cap ended
    PROVE  /\ DesktopStopping /\ Left(ended \ {p}) \in {{"no"}, {"done"}} \cup SUBSET Parts
           /\ Left(ended \ {p}) # {"no"}
           /\ "helpers" \in Left(ended \ {p}) => "helpers" \in ended
<1>1. "no" \notin Parts /\ "done" \notin Parts
  BY DEF Parts
<1>2. ended \subseteq Parts
  BY <1>1 DEF DesktopTypeOK
<1>3. QED
  BY <1>1, <1>2 DEF Left, DesktopStopping

LEMMA LeftBehind ==
    ASSUME DesktopTypeOK, DesktopStopping
    PROVE  LET parts == Left(ended \ {"wrapper", "session", "watch"})
           IN /\ parts \in {{"no"}, {"done"}} \cup SUBSET Parts /\ parts # {"no"}
              /\ "helpers" \in parts => "helpers" \in ended
<1>1. "no" \notin Parts /\ ended \in {{"done"}} \cup SUBSET Parts
  BY DEF DesktopTypeOK, DesktopStopping, Parts
<1>2. QED
  BY <1>1 DEF Left

\* BecomeSoftware when nothing is swept: the sweep has not begun.
LEMMA LeftNothing == ended = {"no"} => Left(ended \ {"wrapper", "session", "watch"}) = {"no"}
  BY DEF Left

WatchPCs == {"startup", "health", "terminate", "kill", "gone"}
Watches == [pc : WatchPCs, stopping : BOOLEAN, failures : 0..HealthFailures, status : 0..2]
Scripts == [pc : {"pipe", "prepare", "start", "run", "cleanup", "gone"}, status : 0..2]

LEMMA WatchMoves ==
    ASSUME NEW w \in Watches
    PROVE  /\ \A b \in BOOLEAN : LET v == [w EXCEPT !.stopping = b]
                              IN v \in Watches /\ v.failures = w.failures /\ v.pc = w.pc
           /\ \A p \in WatchPCs : LET v == [w EXCEPT !.pc = p]
                                IN v \in Watches /\ v.failures = w.failures
           /\ \A p \in WatchPCs, s \in 0..2 : LET v == [w EXCEPT !.pc = p, !.status = s]
                                            IN v \in Watches /\ v.failures = w.failures
           /\ \A n \in 0..HealthFailures : LET v == [w EXCEPT !.failures = n]
                                        IN v \in Watches /\ v.failures = n
           /\ \A p \in WatchPCs, n \in 0..HealthFailures :
                    LET v == [w EXCEPT !.pc = p, !.failures = n]
                    IN v \in Watches /\ v.failures = n
<1>1. \A b \in BOOLEAN : LET v == [w EXCEPT !.stopping = b]
                       IN v \in Watches /\ v.failures = w.failures /\ v.pc = w.pc
  BY DEF Watches
<1>2. \A p \in WatchPCs : LET v == [w EXCEPT !.pc = p] IN v \in Watches /\ v.failures = w.failures
  BY DEF Watches
<1>3. \A p \in WatchPCs, s \in 0..2 : LET v == [w EXCEPT !.pc = p, !.status = s]
                                     IN v \in Watches /\ v.failures = w.failures
  BY DEF Watches
<1>4. \A n \in 0..HealthFailures : LET v == [w EXCEPT !.failures = n]
                                 IN v \in Watches /\ v.failures = n
  BY DEF Watches
<1>5. \A p \in WatchPCs, n \in 0..HealthFailures : LET v == [w EXCEPT !.pc = p, !.failures = n]
                                                  IN v \in Watches /\ v.failures = n
  BY DEF Watches
<1>6. QED
  BY <1>1, <1>2, <1>3, <1>4, <1>5

LEMMA WatchBegins ==
    ASSUME HealthFailures \in Nat \ {0}
    PROVE  LET w == [WatchIdle EXCEPT !.pc = "startup"]
           IN w \in Watches /\ w.failures = 0 /\ w.pc = "startup"
<1>1. WatchIdle \in Watches /\ WatchIdle.failures = 0
  BY DEF Watches, WatchPCs, WatchIdle
<1>2. "startup" \in WatchPCs
  BY DEF WatchPCs
<1>3. QED
  BY <1>1, <1>2 DEF Watches

\* What a signal of the sweep does to the process it is for.
ToAuto    == /\ auto' = "gone" /\ UNCHANGED <<wrapper, session, watch, shell, helpers>>
ToGroup   == /\ TermGroup /\ UNCHANGED <<auto, wrapper>>
ToWrapper == /\ wrapper' = "gone" /\ UNCHANGED <<auto, session, watch, shell, helpers>>
ToWatch   == /\ \E b \in BOOLEAN : watch' = [watch EXCEPT !.stopping = b]
             /\ UNCHANGED <<auto, wrapper, session, shell, helpers>>
ToShell   == /\ Alive /\ shell' = "gone" /\ UNCHANGED <<auto, wrapper, session, watch, helpers>>
ToHelpers == /\ "helpers" \in ended /\ helpers = "up" /\ helpers' = "termed"
             /\ UNCHANGED <<auto, wrapper, session, watch, shell>>
ToNobody  == UNCHANGED <<auto, wrapper, session, watch, shell, helpers>>

LEMMA Signalled ==
    ASSUME DesktopTypeOK, NEW p \in Parts \cap ended, SignalDesktop(p)
    PROVE  /\ mode' = mode /\ ended' = Left(ended \ {p})
           /\ \/ ToAuto \/ ToGroup \/ ToWrapper \/ ToWatch \/ ToShell \/ ToHelpers \/ ToNobody
<1>1. mode' = mode /\ ended' = Left(ended \ {p})
  BY DEF SignalDesktop
<1>2. CASE p \in {"auto", "wrapper", "session"}
  BY <1>2 DEF SignalDesktop, TermWrapper, ToAuto, ToGroup, ToWrapper
<1>3. CASE p = "watch"
  <2>1. /\ UNCHANGED <<auto, wrapper, session, shell, helpers>>
        /\ watch' \in {watch, [watch EXCEPT !.stopping = TRUE]}
    BY <1>3 DEF SignalDesktop
  <2>2. QED
    BY <1>1, <2>1 DEF ToWatch, ToNobody
<1>4. CASE p = "shell"
  BY <1>4 DEF SignalDesktop, ToShell, ToNobody, Alive
<1>5. CASE p = "helpers"
  BY <1>5 DEF SignalDesktop, ToHelpers, ToNobody
<1>6. QED
  BY <1>1, <1>2, <1>3, <1>4, <1>5 DEF Parts

LEMMA DesktopTypeStep ==
    DesktopTypeOK /\ Counted /\ [DesktopNext]_desktop => DesktopTypeOK' /\ Counted'
<1> SUFFICES ASSUME DesktopTypeOK, Counted, [DesktopNext]_desktop
             PROVE  DesktopTypeOK' /\ Counted'
  OBVIOUS
<1>h. HealthFailures \in Nat \ {0} /\ watch.failures \in Nat /\ watch.failures < HealthFailures
  BY DesktopStartConstants DEF DesktopTypeOK, Counted
<1>w. watch \in Watches /\ session \in Scripts /\ watch.pc \in WatchPCs /\ watch.status \in 0..2
      /\ session.status \in 0..2
  BY DEF DesktopTypeOK, Watches, WatchPCs, Scripts
<1>s. \A p \in {"pipe", "prepare", "start", "run", "cleanup", "gone"}, n \in 0..2 :
        [pc |-> p, status |-> n] \in Scripts
  BY DEF Scripts
<1> DEFINE Rest == /\ mode' \in {"gpu", "software"} /\ auto' \in {"wait", "exec", "gone"}
                   /\ wrapper' \in {"fork", "register", "unset", "wait", "gone"}
                   /\ shell' \in {"starting", "ready", "hung", "stuck", "gone"}
                   /\ helpers' \in {"up", "termed", "gone"}
                   /\ ended' \in {{"no"}, {"done"}} \cup SUBSET Parts
           Records == /\ session' \in Scripts
                      /\ watch' \in Watches /\ watch'.failures < HealthFailures
<1>1. CASE Fork \/ Register \/ WrapperHandlers \/ PipeClosed
  <2>1. Rest
    <3>1. UNCHANGED <<mode, auto, helpers, ended>>
      BY <1>1 DEF Fork, Register, WrapperHandlers, PipeClosed
    <3>2. wrapper' \in {wrapper, "register", "unset", "wait"} /\ shell' \in {shell, "gone"}
      BY <1>1 DEF Fork, Register, WrapperHandlers, PipeClosed
    <3>3. QED
      BY <3>1, <3>2 DEF DesktopTypeOK
  <2>2. Records
    BY <1>1, <1>h, <1>w, <1>s DEF Fork, Register, WrapperHandlers, PipeClosed, SessionTo
  <2>3. QED
    BY <2>1, <2>2 DEF DesktopTypeOK, Counted, Watches, WatchPCs, Scripts
<1>2. CASE Reap \/ WrapperLost
  <2>1. Rest
    BY <1>2, LeftBehind, LeftNothing
       DEF DesktopTypeOK, Reap, WrapperLost, BecomeSoftware, DesktopStopping
  <2>2. UNCHANGED <<session, watch>>
    BY <1>2 DEF Reap, WrapperLost
  <2>3. QED
    BY <2>1, <2>2 DEF DesktopTypeOK, Counted
<1>3. CASE PrepareSession
  <2>1. Rest
    BY <1>3 DEF DesktopTypeOK, PrepareSession
  <2>2. /\ session' \in Scripts
        /\ watch' \in {watch, [WatchIdle EXCEPT !.pc = "startup"]}
    BY <1>3, <1>w, <1>s DEF PrepareSession, SessionTo
  <2>3. Records
    BY <1>h, <1>w, <2>2, WatchBegins DEF Watches
  <2>4. QED
    BY <2>1, <2>3 DEF DesktopTypeOK, Counted, Watches, WatchPCs, Scripts
<1>4. CASE Started \/ ShellWaited
  <2>1. Rest
    <3>1. UNCHANGED <<mode, auto, wrapper, watch, shell, helpers, ended>>
      BY <1>4 DEF Started, ShellWaited
    <3>2. QED
      BY <3>1 DEF DesktopTypeOK
  <2>2. Records
    BY <1>4, <1>h, <1>w, <1>s DEF Started, ShellWaited, SessionTo
  <2>3. QED
    BY <2>1, <2>2 DEF DesktopTypeOK, Counted, Watches, WatchPCs, Scripts
<1>5. CASE Cleanup
  <2>1. Rest
    BY <1>5 DEF DesktopTypeOK, Cleanup, TermChild
  <2>2. watch' \in {watch, [watch EXCEPT !.stopping = TRUE]} /\ session' \in Scripts
    BY <1>5, <1>w, <1>s DEF Cleanup, SessionTo, TermChild
  <2>4. Records
    BY <2>2, <1>h, <1>w, WatchMoves
  <2>5. QED
    BY <2>1, <2>4 DEF DesktopTypeOK, Counted, Watches, WatchPCs, Scripts
<1>6. CASE HelpersExit \/ ShellReady \/ ShellFails
  <2>1. Rest /\ UNCHANGED <<session, watch>>
    <3>1. UNCHANGED <<mode, auto, wrapper, ended, session, watch>>
      BY <1>6 DEF HelpersExit, ShellReady, ShellFails
    <3>2. shell' \in {shell, "ready", "hung", "stuck", "gone"} /\ helpers' \in {helpers, "gone"}
      BY <1>6 DEF HelpersExit, ShellReady, ShellFails
    <3>3. QED
      BY <3>1, <3>2 DEF DesktopTypeOK
  <2>2. QED
    BY <2>1 DEF DesktopTypeOK, Counted
<1>7. CASE WatchTurn
  <2>1. Rest /\ session' = session
    BY <1>7 DEF DesktopTypeOK, WatchTurn
  <2>2. \/ \E s \in {0, 1, 2} : watch' = [watch EXCEPT !.pc = "terminate", !.status = s]
        \/ watch' = [watch EXCEPT !.pc = "health", !.failures = 0]
        \/ /\ watch' = [watch EXCEPT !.failures = watch.failures + 1]
           /\ watch.failures + 1 # HealthFailures
    BY <1>7 DEF WatchTurn, Give
  <2>3. ASSUME NEW s \in {0, 1, 2}, watch' = [watch EXCEPT !.pc = "terminate", !.status = s]
        PROVE  Records
    <3>1. "terminate" \in WatchPCs /\ s \in 0..2
      BY DEF WatchPCs
    <3>2. QED
      BY <2>1, <2>3, <3>1, <1>h, <1>w, WatchMoves DEF Watches
  <2>4. ASSUME watch' = [watch EXCEPT !.pc = "health", !.failures = 0] PROVE Records
    <3>1. "health" \in WatchPCs /\ 0 \in 0..HealthFailures
      BY <1>h DEF WatchPCs
    <3>2. watch' \in Watches
      BY <2>4, <3>1, <1>w, WatchMoves
    <3>3. watch'.failures = 0
      BY <2>4, <1>w DEF Watches
    <3>4. QED
      BY <2>1, <3>2, <3>3, <1>h, <1>w
  <2>5. ASSUME watch' = [watch EXCEPT !.failures = watch.failures + 1],
               watch.failures + 1 # HealthFailures
        PROVE  Records
    <3>1. watch.failures + 1 \in 0..HealthFailures /\ watch.failures + 1 < HealthFailures
      BY <2>5, <1>h
    <3>2. QED
      BY <2>1, <2>5, <3>1, <1>w, WatchMoves
  <2>6. QED
    BY <2>1, <2>2, <2>3, <2>4, <2>5 DEF DesktopTypeOK, Counted, Watches, WatchPCs, Scripts
<1>8. CASE StopChild
  <2>1. Rest /\ session' = session
    BY <1>8 DEF DesktopTypeOK, StopChild
  <2>2. \/ \E p \in {"gone", "kill"} : watch' = [watch EXCEPT !.pc = p]
        \/ watch' = [watch EXCEPT !.pc = "gone", !.status = 1]
    BY <1>8 DEF StopChild
  <2>3. "gone" \in WatchPCs /\ "kill" \in WatchPCs /\ 1 \in 0..2
    BY DEF WatchPCs
  <2>4. ASSUME NEW p \in {"gone", "kill"}, watch' = [watch EXCEPT !.pc = p] PROVE Records
    BY <2>1, <2>3, <2>4, <1>h, <1>w DEF Watches
  <2>5. ASSUME watch' = [watch EXCEPT !.pc = "gone", !.status = 1] PROVE Records
    BY <2>1, <2>3, <2>5, <1>h, <1>w, WatchMoves DEF Watches
  <2>6. QED
    BY <2>1, <2>2, <2>4, <2>5 DEF DesktopTypeOK, Counted, Watches, WatchPCs, Scripts
<1>9. CASE BeginDesktopSweep
  BY <1>9 DEF BeginDesktopSweep, DesktopAlive, DesktopTypeOK, Counted
<1>10. ASSUME NEW p \in Parts \cap ended, SignalDesktop(p) PROVE DesktopTypeOK' /\ Counted'
  <2>1. Rest
    <3>1. mode' = mode /\ ended' \in {{"no"}, {"done"}} \cup SUBSET Parts
      BY <1>10, Signalled, LeftOver
    <3>2. /\ auto' \in {auto, "gone"} /\ wrapper' \in {wrapper, "gone"}
          /\ shell' \in {shell, "gone"} /\ helpers' \in {helpers, "termed"}
      BY <1>10, Signalled
         DEF ToAuto, ToGroup, ToWrapper, ToWatch, ToShell, ToHelpers, ToNobody, TermGroup
    <3>3. QED
      BY <3>1, <3>2 DEF DesktopTypeOK
  <2>2. session' \in {session, [pc |-> "gone", status |-> 2]}
    BY <1>10, Signalled
       DEF ToAuto, ToGroup, ToWrapper, ToWatch, ToShell, ToHelpers, ToNobody, TermGroup
  <2>3. \/ watch' = watch
        \/ \E b \in BOOLEAN : watch' = [watch EXCEPT !.stopping = b]
    BY <1>10, Signalled
       DEF ToAuto, ToGroup, ToWrapper, ToWatch, ToShell, ToHelpers, ToNobody, TermGroup
  <2>4. Records
    <3>1. session' \in Scripts
      BY <2>2, <1>w, <1>s
    <3>2. CASE watch' = watch
      BY <3>1, <3>2, <1>h, <1>w
    <3>3. ASSUME NEW b \in BOOLEAN, watch' = [watch EXCEPT !.stopping = b] PROVE Records
      BY <3>1, <3>3, <1>h, <1>w, WatchMoves
    <3>4. QED
      BY <2>3, <3>2, <3>3
  <2>5. QED
    BY <2>1, <2>4 DEF DesktopTypeOK, Counted, Watches, WatchPCs, Scripts
<1>11. CASE UNCHANGED desktop
  BY <1>11 DEF desktop, DesktopTypeOK, Counted
<1>12. QED
  BY <1>1, <1>2, <1>3, <1>4, <1>5, <1>6, <1>7, <1>8, <1>9, <1>10, <1>11
     DEF DesktopNext, WrapperStep, ScriptStep, WatchStep, SweepDesktop

LEMMA DesktopBegins == DesktopInit => DesktopInv
  BY DesktopStartConstants DEF DesktopInit, DesktopInv, DesktopTypeOK, Counted, First, Fresh,
     Belongs, Unwatched, Alive, Spared, WatchIdle, DesktopStopping

LEMMA FirstStep == DesktopTypeOK /\ First /\ [DesktopNext]_desktop => First'
<1> SUFFICES ASSUME DesktopTypeOK, First, [DesktopNext]_desktop PROVE First'
  OBVIOUS
<1> USE DEF First, DesktopStopping
<1>1. CASE WrapperStep \/ ScriptStep \/ WatchStep \/ HelpersExit \/ ShellReady \/ ShellFails
  BY <1>1 DEF WrapperStep, ScriptStep, WatchStep, Fork, Register, WrapperHandlers, PipeClosed,
     Reap, WrapperLost, BecomeSoftware, PrepareSession, Started, ShellWaited, Cleanup,
     HelpersExit, ShellReady, ShellFails, WatchTurn, StopChild
<1>2. CASE BeginDesktopSweep
  BY <1>2 DEF BeginDesktopSweep, DesktopAlive, Parts
<1>3. ASSUME NEW p \in Parts \cap ended, SignalDesktop(p) PROVE First'
  BY <1>3, LeftOver DEF SignalDesktop, TermWrapper, Parts
<1>4. CASE UNCHANGED desktop
  BY <1>4 DEF desktop
<1>5. QED
  BY <1>1, <1>2, <1>3, <1>4 DEF DesktopNext, SweepDesktop

LEMMA FreshStep == DesktopTypeOK /\ First /\ Fresh /\ Belongs /\ [DesktopNext]_desktop => Fresh'
<1> SUFFICES ASSUME DesktopTypeOK, First, Fresh, Belongs, [DesktopNext]_desktop PROVE Fresh'
  OBVIOUS
<1> USE DEF First, Fresh, Belongs, SessionTo
<1>1. CASE Fork \/ Register \/ WrapperHandlers \/ PipeClosed
  BY <1>1 DEF Fork, Register, WrapperHandlers, PipeClosed
<1>2. CASE Reap \/ WrapperLost
  BY <1>2 DEF Reap, WrapperLost, BecomeSoftware
<1>3. CASE ScriptStep
  BY <1>3 DEF ScriptStep, PrepareSession, Started, ShellWaited, Cleanup, LockHeld
<1>4. CASE WatchStep \/ HelpersExit \/ ShellReady \/ ShellFails
  BY <1>4 DEF WatchStep, HelpersExit, ShellReady, ShellFails, WatchTurn, StopChild
<1>5. CASE BeginDesktopSweep
  BY <1>5 DEF BeginDesktopSweep, DesktopAlive, Parts
<1>6. ASSUME NEW p \in Parts \cap ended, SignalDesktop(p) PROVE Fresh'
  <2>1. "helpers" \in ended' => "helpers" \in ended
    BY <1>6, Signalled, LeftOver
  <2>2. CASE ToWatch
    <3>1. watch'.pc = watch.pc
      BY <2>2 DEF ToWatch, DesktopTypeOK
    <3>2. QED
      BY <2>1, <2>2, <3>1 DEF ToWatch
  <2>3. CASE ToAuto \/ ToGroup \/ ToWrapper
    BY <2>1, <2>3 DEF ToAuto, ToGroup, ToWrapper, TermGroup
  <2>4. CASE ToShell \/ ToHelpers \/ ToNobody
    BY <2>1, <2>4 DEF ToShell, ToHelpers, ToNobody
  <2>5. QED
    BY <1>6, <2>2, <2>3, <2>4, Signalled
<1>7. CASE UNCHANGED desktop
  BY <1>7 DEF desktop
<1>8. QED
  BY <1>1, <1>2, <1>3, <1>4, <1>5, <1>6, <1>7 DEF DesktopNext, WrapperStep, SweepDesktop

LEMMA BelongsStep == DesktopTypeOK /\ First /\ Fresh /\ Belongs /\ [DesktopNext]_desktop => Belongs'
<1> SUFFICES ASSUME DesktopTypeOK, First, Fresh, Belongs, [DesktopNext]_desktop PROVE Belongs'
  OBVIOUS
<1> USE DEF Belongs, Unwatched, Alive, Spared, DesktopStopping, SessionTo
<1>1. CASE Fork \/ Register \/ WrapperHandlers \/ PipeClosed
  BY <1>1 DEF Fork, Register, WrapperHandlers, PipeClosed, First, Fresh
<1>2. CASE Reap \/ WrapperLost
  BY <1>2, LeftBehind, LeftNothing DEF Reap, WrapperLost, BecomeSoftware, First, Fresh
<1>3. CASE PrepareSession
  <2>1. HealthFailures \in Nat \ {0}
    BY DesktopStartConstants
  <2>2. CASE LockHeld
    BY <1>3, <2>2 DEF PrepareSession, LockHeld
  <2>3. CASE ~LockHeld
    <3>1. /\ session.pc = "prepare" /\ session'.pc = "start" /\ helpers' = "up"
          /\ shell' = "starting" /\ UNCHANGED <<mode, wrapper, ended>>
          /\ watch' = IF mode = "gpu" THEN [WatchIdle EXCEPT !.pc = "startup"] ELSE watch
      BY <1>3, <2>3 DEF PrepareSession
    <3>2. mode = "gpu" => watch'.pc = "startup"
      BY <2>1, <3>1, WatchBegins
    <3>3. mode = "gpu" \/ mode = "software"
      BY DEF DesktopTypeOK
    <3>4. QED
      BY <3>1, <3>2, <3>3
  <2>4. QED
    BY <2>2, <2>3
<1>4. CASE Started \/ ShellWaited
  BY <1>4 DEF Started, ShellWaited
<1>5. CASE Cleanup
  BY <1>5 DEF Cleanup, TermChild
<1>6. CASE HelpersExit \/ ShellReady \/ ShellFails
  BY <1>6 DEF HelpersExit, ShellReady, ShellFails
<1>7. CASE WatchTurn
  BY <1>7 DEF WatchTurn, Give, DesktopTypeOK
<1>8. CASE StopChild
  BY <1>8 DEF StopChild, DesktopTypeOK
<1>9. CASE BeginDesktopSweep
  BY <1>9 DEF BeginDesktopSweep, DesktopAlive, Parts
<1>10. ASSUME NEW p \in Parts \cap ended, SignalDesktop(p) PROVE Belongs'
  <2>1. ("helpers" \in ended' => "helpers" \in ended) /\ DesktopStopping /\ ended' # {"no"}
        /\ mode' = mode
    BY <1>10, Signalled, LeftOver
  <2>2. CASE ToGroup
    <3>1. watch'.pc = watch.pc
      BY <2>2 DEF ToGroup, TermGroup, DesktopTypeOK
    <3>2. QED
      BY <2>1, <2>2, <3>1 DEF ToGroup, TermGroup
  <2>3. CASE ToWatch
    <3>1. watch'.pc = watch.pc
      BY <2>3 DEF ToWatch, DesktopTypeOK
    <3>2. QED
      BY <2>1, <2>3, <3>1 DEF ToWatch
  <2>4. CASE ToAuto \/ ToWrapper
    BY <2>1, <2>4 DEF ToAuto, ToWrapper
  <2>5. CASE ToShell \/ ToHelpers \/ ToNobody
    BY <2>1, <2>5 DEF ToShell, ToHelpers, ToNobody
  <2>6. QED
    BY <1>10, <2>2, <2>3, <2>4, <2>5, Signalled
<1>11. CASE UNCHANGED desktop
  BY <1>11 DEF desktop
<1>12. QED
  BY <1>1, <1>2, <1>3, <1>4, <1>5, <1>6, <1>7, <1>8, <1>9, <1>10, <1>11
     DEF DesktopNext, WrapperStep, ScriptStep, WatchStep, SweepDesktop

LEMMA DesktopKept == DesktopInv /\ [DesktopNext]_desktop => DesktopInv'
  BY DesktopTypeStep, FirstStep, FreshStep, BelongsStep DEF DesktopInv

LEMMA DesktopSafe == DesktopInv => OneShell
  BY DEF DesktopInv, DesktopTypeOK, Belongs, Unwatched, Alive, OneShell, LockHeld

\* Two desktop sessions never have a living shell each: the lock that the script of the
\* second one finds free is free only when the shell of the first is gone, or stuck where
\* no signal reaches it.
THEOREM OneDesktop == DesktopSpec => []OneShell
  BY DesktopBegins, DesktopKept, DesktopSafe, PTL DEF DesktopSpec

-----------------------------------------------------------------------------
(* The installer.                                                          *)

Orders == [cmd : ConsoleCommands, at : 0..3, mine : BOOLEAN]
HostWords == {"nothing", "failed", "sealed", "done", "verified"}
Hosts == [tool : HostTools \cup {"none"}, left : Seq(ConsoleCommands), next : Seq(HostTools),
          waits : BOOLEAN, says : HostWords]

\* The types that the proof starts from: InstallerTypeOK, of whole records and sequences.
Typed == InstallerTypeOK /\ host \in Hosts /\ console \in Seq(Orders)

\* A tool waits for the last command of the console, and no other one is its own; only
\* the first one has begun.
QueueInv ==
    /\ \A i \in 1..Len(console) : console[i].mine => host.waits /\ i = Len(console)
    /\ host.waits => /\ console # <<>> /\ console[Len(console)].mine
                     /\ host.left # <<>> /\ console[Len(console)].cmd = Head(host.left)
    /\ \A i \in 2..Len(console) : console[i].at = 0

\* What install has left of its commands; from the first answer on the console is its own.
InstallLeft == {Script("install"), <<"token", "apply">>, <<"apply">>, <<>>}
Progress ==
    /\ host.tool = "none" => ~host.waits
    /\ host.tool = "install" => host.left \in InstallLeft
    /\ host.tool = "install" /\ host.left # Script("install") /\ ~host.waits => console = <<>>
    /\ host.tool = "install" /\ host.left # Script("install") /\ host.waits => Len(console) = 1

\* Nothing of the host's bundle is sent unless its seal is the one of valid files.
Bringing == {"setup", "put_bundle"}
Seals ==
    /\ work.seal = "other" => work.files = "other"
    /\ \A i \in 1..Len(console) : console[i].cmd \in Bringing => work.seal = "good"
    /\ \A i \in 1..Len(host.left) : host.left[i] \in Bringing => host.tool = "stage"
    /\ host.tool = "stage" => \/ work.seal = "good"
                              \/ ~host.waits /\ host.left = Script("stage")

Refusal == [files |-> "other", seal |-> "other"]

\* So a seal of changed files on the tablet came with the copy on its linuxroot.
Copies ==
    /\ copied.seal = "other" => copied.files = "other"
    /\ copied.files = "none" => copied.seal = "none"
    /\ ram.bundle.seal = "other" => copied = Refusal

\* The sums that --apply checked are those of what it extracts.
Applying ==
    console # <<>> /\ Head(console).cmd = "apply" /\ Head(console).at > 0
        => ram.bundle.files \in {"good", "other"} /\ ram.bundle.files = ram.bundle.seal

Truth == root.holds = "good" \/ (root.holds = "other" /\ copied = Refusal)
Verified ==
    /\ host.tool = "install" /\ host.left = <<>> => Truth
    /\ host.says = "verified" => host.tool = "none" /\ console = <<>> /\ Truth

InstallerInv == Typed /\ QueueInv /\ Progress /\ Seals /\ Copies /\ Applying /\ Verified

LEMMA ScriptFacts ==
    ASSUME NEW t \in HostTools
    PROVE  /\ Script(t) \in Seq(ConsoleCommands)
           /\ \A i \in 1..Len(Script(t)) : Script(t)[i] \in Bringing => t = "stage"
<1> USE DEF Script, ConsoleCommands, Bringing, HostTools
<1>1. CASE t = "verify"
  BY <1>1
<1>2. CASE t = "stage"
  BY <1>2
<1>3. CASE t = "local"
  BY <1>3
<1>4. CASE t = "prepare"
  BY <1>4
<1>5. CASE t = "install"
  BY <1>5
<1>6. QED
  BY <1>1, <1>2, <1>3, <1>4, <1>5

LEMMA FirstCommands == Script("install") # <<>> /\ Head(Script("stage")) = "setup"
  BY DEF Script

\* What an answer takes from the commands of install.
LEMMA InstallTail ==
    ASSUME NEW left \in InstallLeft, left # <<>>
    PROVE  /\ Tail(left) \in InstallLeft /\ Tail(left) # Script("install")
           /\ Tail(left) = <<>> => Head(left) = "apply"
<1>1. CASE left = Script("install")
  BY <1>1 DEF InstallLeft, Script
<1>2. CASE left = <<"token", "apply">>
  BY <1>2 DEF InstallLeft, Script
<1>3. CASE left = <<"apply">>
  BY <1>3 DEF InstallLeft, Script
<1>4. QED
  BY <1>1, <1>2, <1>3 DEF InstallLeft

\* The tools of an action of the window.
LEMMA ActionFacts ==
    ASSUME NEW a \in {"verify", "stage", "prepare", "install"}, CommandFor(a),
           source \in {"host", "tablet", "staged"}
    PROVE  /\ ActionSteps(a) \in Seq(HostTools) /\ ActionSteps(a) # <<>>
           /\ Head(ActionSteps(a)) \in HostTools /\ Tail(ActionSteps(a)) \in Seq(HostTools)
<1> DEFINE w == Workflow(a)
           i == IF a = "install" THEN <<"install">> ELSE <<>>
<1>0. /\ w \in {<<"verify">>, <<"stage">>, <<"local">>, <<"local", "prepare">>, <<"prepare">>, <<>>}
      /\ w = <<>> => a = "install"
  <2>1. CASE a = "verify"
    BY <2>1 DEF Workflow, CommandFor
  <2>2. CASE a # "verify" /\ source = "host"
    BY <2>2 DEF Workflow
  <2>3. CASE a # "verify" /\ source = "tablet"
    BY <2>3 DEF Workflow
  <2>4. CASE a # "verify" /\ source = "staged"
    BY <2>4 DEF Workflow, CommandFor
  <2>5. QED
    BY <2>1, <2>2, <2>3, <2>4
<1> HIDE DEF w
<1>1. w \in Seq(HostTools) /\ i \in Seq(HostTools)
  <2>1. \A x, y \in HostTools : /\ <<x>> \in Seq(HostTools) /\ <<x, y>> \in Seq(HostTools)
                               /\ <<>> \in Seq(HostTools)
    OBVIOUS
  <2>2. {"verify", "stage", "local", "prepare", "install"} \subseteq HostTools
    BY DEF HostTools
  <2>3. i = <<"install">> \/ i = <<>>
    OBVIOUS
  <2>4. QED
    BY <1>0, <2>1, <2>2, <2>3
<1>2. Len(w) + Len(i) > 0
  BY <1>0
<1>3. ActionSteps(a) = w \o i
  BY DEF ActionSteps, w
<1> HIDE DEF i
<1>4. ActionSteps(a) \in Seq(HostTools) /\ Len(ActionSteps(a)) > 0
  BY <1>1, <1>2, <1>3, ConcatProperties
<1>5. ActionSteps(a) # <<>>
  BY <1>4
<1>6. QED
  BY <1>4, <1>5, HeadTailProperties

LEMMA IdleHost == ASSUME NEW w \in HostWords PROVE HostIdle(w) \in Hosts
  BY DEF HostIdle, Hosts

LEMMA Appended ==
    ASSUME NEW q \in Seq(Orders), NEW c \in Orders
    PROVE  /\ Append(q, c) \in Seq(Orders) /\ Append(q, c) # <<>> /\ Len(Append(q, c)) = Len(q) + 1
           /\ Append(q, c)[Len(q) + 1] = c
           /\ \A i \in 1..Len(q) : Append(q, c)[i] = q[i]
           /\ q # <<>> => Head(Append(q, c)) = Head(q)
           /\ q = <<>> => Head(Append(q, c)) = c
  OBVIOUS

LEMMA OrphansStay ==
    ASSUME NEW q \in Seq(Orders)
    PROVE  /\ Orphaned(q) \in Seq(Orders) /\ Len(Orphaned(q)) = Len(q)
           /\ q = <<>> => Orphaned(q) = <<>>
           /\ \A i \in 1..Len(q) : /\ Orphaned(q)[i].cmd = q[i].cmd /\ Orphaned(q)[i].at = q[i].at
                                   /\ ~Orphaned(q)[i].mine
<1>1. \A i \in 1..Len(q) : q[i] \in Orders
  BY ElementOfSeq
<1>2. \A i \in 1..Len(q) : LET c == [q[i] EXCEPT !.mine = FALSE]
                           IN c \in Orders /\ c.cmd = q[i].cmd /\ c.at = q[i].at /\ ~c.mine
  BY <1>1 DEF Orders
<1>3. Orphaned(q) \in [1..Len(q) -> Orders] /\ Len(q) \in Nat
  BY <1>2, LenProperties DEF Orphaned
<1>4. Orphaned(q) \in Seq(Orders) /\ Len(Orphaned(q)) = Len(q)
  BY <1>3, SeqDef, LenProperties
<1>5. QED
  BY <1>2, <1>4, EmptySeq DEF Orphaned


\* What a step makes of the host tool and the console.
Quiet == UNCHANGED <<host, console>>

Abandoned == host' = HostIdle("failed") /\ console' \in {Orphaned(console), <<>>}

CutOff == ~host.waits /\ host' = host /\ console' = <<>>

Idles == /\ ~host.waits /\ console' = console
         /\ \/ host' \in {HostIdle("failed"), HostIdle("sealed"), HostIdle("done")}
            \/ host' = HostIdle("verified") /\ host.tool = "install" /\ host.left = <<>>

Begins == /\ ~host.waits /\ console' = console
          /\ host' \in Hosts /\ host'.tool \in HostTools /\ host'.left = Script(host'.tool)
          /\ ~host'.waits /\ (host'.says = "nothing" \/ (host.tool # "none" /\ host'.says = host.says))

Sends == Send

Answered == console # <<>> /\ \E passed \in BOOLEAN : Answer(passed)

Proceeds == /\ console # <<>> /\ host' = host
            /\ \E k \in 1..3 : console' = [console EXCEPT ![1].at = k]

LEMMA TabletShape ==
    ASSUME Tablet
    PROVE  (Answered \/ Proceeds) /\ UNCHANGED <<work, source, copied, events>>
<1>1. UNCHANGED <<work, source, copied, events>>
  BY DEF Tablet
<1>a. ASSUME console # <<>>, NEW p \in BOOLEAN, Answer(p) PROVE Answered
  BY <1>a DEF Answered
<1>q. ASSUME console # <<>>, NEW k \in 1..3, Proceed(k) PROVE Proceeds
  BY <1>q DEF Proceeds, Proceed
<1>p. ASSUME console # <<>>, Proceed(1) \/ Proceed(2) \/ Proceed(3) PROVE Proceeds
  <2>1. 1 \in 1..3 /\ 2 \in 1..3 /\ 3 \in 1..3
    OBVIOUS
  <2>2. QED
    BY <1>q, <1>p, <2>1
<1>k. console # <<>>
  BY DEF Tablet, Setup, PutBundle, Put, Audit, Copy, Prepare, Check, Token, Apply, Running
<1>2. CASE Setup
  <2>1. Answer(TRUE) \/ Answer(FALSE)
    BY <1>2 DEF Setup, Refused
  <2>2. QED
    BY <1>1, <1>a, <1>k, <2>1
<1>3. CASE PutBundle
  <2>1. Answer(TRUE) \/ Answer(FALSE) \/ Proceed(1)
    BY <1>3 DEF PutBundle
  <2>2. QED
    BY <1>1, <1>a, <1>p, <1>k, <2>1
<1>4. CASE Put("put_script", "script") \/ Put("put_prepare", "prepare")
  <2>1. Answer(TRUE) \/ Answer(FALSE) \/ Proceed(1)
    BY <1>4 DEF Put
  <2>2. QED
    BY <1>1, <1>a, <1>p, <1>k, <2>1
<1>5. CASE Audit
  <2>1. Answer(SumsMatch)
    BY <1>5 DEF Audit
  <2>2. SumsMatch \in BOOLEAN
    BY DEF SumsMatch
  <2>3. QED
    BY <1>1, <1>a, <1>k, <2>1, <2>2
<1>6. CASE Copy
  <2>1. Answer(TRUE) \/ Answer(FALSE)
    BY <1>6 DEF Copy, Refused
  <2>2. QED
    BY <1>1, <1>a, <1>k, <2>1
<1>7. CASE Prepare
  <2>1. Answer(ram.prepare = "whole") \/ Answer(FALSE) \/ Proceed(1)
    BY <1>7 DEF Prepare, Refused
  <2>2. (ram.prepare = "whole") \in BOOLEAN
    OBVIOUS
  <2>3. QED
    BY <1>1, <1>a, <1>p, <1>k, <2>1, <2>2
<1>8. CASE Check
  <2>1. Answer(TRUE) \/ Answer(FALSE) \/ Proceed(1)
    BY <1>8 DEF Check
  <2>2. QED
    BY <1>1, <1>a, <1>p, <1>k, <2>1
<1>9. CASE Token
  <2>1. Answer(TRUE) \/ Answer(FALSE)
    BY <1>9 DEF Token, Refused
  <2>2. QED
    BY <1>1, <1>a, <1>k, <2>1
<1>10. CASE Apply
  <2>1. Answer(TRUE) \/ Answer(FALSE) \/ Proceed(1) \/ Proceed(2) \/ Proceed(3)
    BY <1>10 DEF Apply, Refused
  <2>2. QED
    BY <1>1, <1>a, <1>p, <1>k, <2>1
<1>11. QED
  BY <1>2, <1>3, <1>4, <1>5, <1>6, <1>7, <1>8, <1>9, <1>10 DEF Tablet

LEMMA ToolBegins ==
    ASSUME NEW t \in HostTools, NEW n \in Seq(HostTools)
    PROVE  LET g == [tool |-> t, left |-> Script(t), next |-> n, waits |-> FALSE, says |-> "nothing"]
           IN g \in Hosts /\ g.tool = t /\ g.left = Script(t) /\ ~g.waits /\ g.says = "nothing"
<1>1. Script(t) \in Seq(ConsoleCommands)
  BY ScriptFacts
<1>2. QED
  BY <1>1 DEF Hosts, HostWords

LEMMA HostShapes ==
    ASSUME Typed, Progress, [InstallerNext]_installer
    PROVE  \/ Quiet \/ Abandoned \/ CutOff \/ Idles \/ Begins \/ Sends
           \/ Tablet /\ (Answered \/ Proceeds)
<1>t. host \in Hosts /\ source \in {"host", "tablet", "staged"}
  BY DEF Typed, InstallerTypeOK
<1>f. Free => ~host.waits
  BY DEF Free, Progress
<1>1. CASE Finalize
  BY <1>1, <1>f DEF Finalize, Idles, HostWords
<1>2. CASE Change \/ Carry
  BY <1>2 DEF Change, Carry, Quiet
<1>3. ASSUME NEW a \in {"verify", "stage", "prepare", "install"}, Choose(a) PROVE Begins
  <2>1. Head(ActionSteps(a)) \in HostTools /\ Tail(ActionSteps(a)) \in Seq(HostTools)
    BY <1>3, <1>t, ActionFacts DEF Choose
  <2>2. QED
    BY <1>3, <1>t, <1>f, <2>1, ToolBegins DEF Choose, Begins
<1>4. ASSUME NEW s \in {"host", "tablet", "staged"}, Select(s) PROVE Quiet
  BY <1>4 DEF Select, Quiet
<1>5. CASE Finish
  <2>1. CASE host.next = <<>>
    BY <1>5, <2>1 DEF Finish, Idles, HostWords, Free
  <2>2. CASE host.next # <<>>
    <3>1. host.next \in Seq(HostTools)
      BY <1>t DEF Hosts
    <3>2. Head(host.next) \in HostTools /\ Tail(host.next) \in Seq(HostTools)
      BY <2>2, <3>1, HeadTailProperties
    <3>3. /\ host' = [host EXCEPT !.tool = Head(host.next), !.left = Script(Head(host.next)),
                                  !.next = Tail(host.next)]
          /\ ~host.waits /\ host.tool # "none" /\ console' = console
      BY <1>5, <2>2 DEF Finish, Free
    <3>4. /\ host' \in Hosts /\ host'.tool = Head(host.next)
          /\ host'.left = Script(Head(host.next))
          /\ host'.waits = host.waits /\ host'.says = host.says
      <4> DEFINE t == Head(host.next)
                 n == Tail(host.next)
                 s == Script(t)
      <4>1. t \in HostTools /\ n \in Seq(HostTools)
        BY <3>2
      <4>2. host' = [host EXCEPT !.tool = t, !.left = Script(t), !.next = n]
        BY <3>3
      <4>3. s \in Seq(ConsoleCommands)
        BY <4>1, ScriptFacts
      <4> HIDE DEF t, n, s
      <4>4. host' = [host EXCEPT !.tool = t, !.left = s, !.next = n]
        BY <4>2 DEF s
      <4>5. /\ host' \in Hosts /\ host'.tool = t /\ host'.left = s
            /\ host'.waits = host.waits /\ host'.says = host.says
        BY <1>t, <4>1, <4>3, <4>4 DEF Hosts
      <4>6. QED
        BY <4>5 DEF t, s
    <3>5. QED
      BY <3>2, <3>3, <3>4 DEF Begins
  <2>3. QED
    BY <2>1, <2>2
<1>6. CASE Send
  BY <1>6 DEF Sends
<1>7. CASE RefuseBundle
  BY <1>7 DEF RefuseBundle, Idles, HostWords
<1>8. CASE GiveUp
  BY <1>8 DEF GiveUp, Abandoned
<1>9. CASE Hangup
  BY <1>9 DEF Hangup, Abandoned, CutOff
<1>10. CASE Reboot
  BY <1>10 DEF Reboot, Abandoned, CutOff
<1>11. CASE Tablet
  BY <1>11, TabletShape
<1>12. CASE UNCHANGED installer
  BY <1>12 DEF installer, Quiet
<1>13. QED
  BY <1>1, <1>2, <1>3, <1>4, <1>5, <1>6, <1>7, <1>8, <1>9, <1>10, <1>11, <1>12 DEF InstallerNext

\* The command that a tool sends, and what an answer makes of its state.
LEMMA SentState ==
    ASSUME NEW h \in Hosts, h.left # <<>>
    PROVE  /\ LET g == [h EXCEPT !.waits = TRUE]
              IN /\ g \in Hosts /\ g.tool = h.tool /\ g.left = h.left /\ g.waits /\ g.says = h.says
           /\ LET c == [cmd |-> Head(h.left), at |-> 0, mine |-> TRUE]
              IN c \in Orders /\ c.cmd = Head(h.left) /\ c.at = 0 /\ c.mine
<1>1. h.left \in Seq(ConsoleCommands)
  BY DEF Hosts
<1>2. Head(h.left) \in ConsoleCommands
  BY <1>1, HeadTailProperties
<1>3. LET g == [h EXCEPT !.waits = TRUE]
      IN /\ g \in Hosts /\ g.tool = h.tool /\ g.left = h.left /\ g.waits /\ g.says = h.says
  BY DEF Hosts
<1>4. LET c == [cmd |-> Head(h.left), at |-> 0, mine |-> TRUE]
      IN c \in Orders /\ c.cmd = Head(h.left) /\ c.at = 0 /\ c.mine
  BY <1>2 DEF Orders
<1>5. QED
  BY <1>3, <1>4

LEMMA AnsweredState ==
    ASSUME NEW h \in Hosts, h.left # <<>>
    PROVE  LET g == [h EXCEPT !.waits = FALSE, !.left = Tail(@)]
           IN /\ g \in Hosts /\ g.tool = h.tool /\ g.left = Tail(h.left) /\ ~g.waits
              /\ g.says = h.says
<1>1. h.left \in Seq(ConsoleCommands)
  BY DEF Hosts
<1>2. Tail(h.left) \in Seq(ConsoleCommands)
  BY <1>1, HeadTailProperties
<1>3. QED
  BY <1>2 DEF Hosts

\* What an answer does, in the terms of the queue.
Heard == /\ Head(console).mine /\ host.waits /\ Len(console) = 1 /\ host.left # <<>>
         /\ Head(console).cmd = Head(host.left)
         /\ host'.tool = host.tool /\ host'.left = Tail(host.left) /\ ~host'.waits
         /\ host'.says = host.says

LEMMA AnswerShape ==
    ASSUME Typed, QueueInv, console # <<>>, NEW passed \in BOOLEAN, Answer(passed)
    PROVE  /\ console' = Tail(console) /\ console' \in Seq(Orders) /\ host' \in Hosts
           /\ Len(console') = Len(console) - 1
           /\ \A i \in 1..Len(console') : console'[i] = console[i + 1]
           /\ \/ ~Head(console).mine /\ host' = host
              \/ Head(console).mine /\ host' = HostIdle("failed")
              \/ passed /\ Heard
<1>t. host \in Hosts /\ console \in Seq(Orders)
  BY DEF Typed
<1>1. console' = Tail(console)
  BY DEF Answer
<1>2. /\ console' \in Seq(Orders) /\ Len(console') = Len(console) - 1
      /\ \A i \in 1..Len(console') : console'[i] = console[i + 1]
  BY <1>1, <1>t, HeadTailProperties
<1>3. Len(console) \in Nat \ {0} /\ Head(console) = console[1]
  BY <1>t, EmptySeq
<1>4. CASE ~Head(console).mine
  BY <1>1, <1>2, <1>4, <1>t DEF Answer, Now
<1>5. CASE Head(console).mine
  <2>1. host.waits /\ Len(console) = 1 /\ host.left # <<>> /\ Head(console).cmd = Head(host.left)
    <3>1. 1 \in 1..Len(console) /\ console[1].mine
      BY <1>3, <1>5
    <3>2. host.waits /\ 1 = Len(console)
      BY <3>1 DEF QueueInv
    <3>3. host.left # <<>> /\ console[Len(console)].cmd = Head(host.left)
      BY <3>2 DEF QueueInv
    <3>4. QED
      BY <1>3, <3>2, <3>3
  <2>2. CASE passed
    <3>1. host' = [host EXCEPT !.waits = FALSE, !.left = Tail(@)]
      BY <1>5, <2>2 DEF Answer, Now, Accepted
    <3>2. /\ host' \in Hosts /\ host'.tool = host.tool /\ host'.left = Tail(host.left)
          /\ ~host'.waits /\ host'.says = host.says
      BY <1>t, <2>1, <3>1, AnsweredState
    <3>3. QED
      BY <1>1, <1>2, <1>5, <2>1, <2>2, <3>2 DEF Heard
  <2>3. CASE ~passed
    <3>1. host' = HostIdle("failed")
      BY <1>5, <2>3 DEF Answer, Now, Accepted
    <3>2. host' \in Hosts
      BY <3>1, IdleHost DEF HostWords
    <3>3. QED
      BY <1>1, <1>2, <1>5, <3>1, <3>2
  <2>4. QED
    BY <2>2, <2>3
<1>6. QED
  BY <1>4, <1>5

LEMMA ProceedsShape ==
    ASSUME console \in Seq(Orders), Proceeds
    PROVE  /\ console' \in Seq(Orders) /\ Len(console') = Len(console) /\ console' # <<>>
           /\ console # <<>> /\ host' = host /\ Len(console) \in Nat \ {0}
           /\ \A i \in 1..Len(console) : /\ console'[i].cmd = console[i].cmd
                                         /\ console'[i].mine = console[i].mine
           /\ \A i \in 2..Len(console) : console'[i] = console[i]
<1>1. PICK k \in 1..3 : console' = [console EXCEPT ![1].at = k]
  BY DEF Proceeds
<1>2. k \in 0..3 /\ console # <<>> /\ host' = host
  BY <1>1 DEF Proceeds
<1>3. console[1] \in Orders /\ Len(console) \in Nat \ {0}
  BY <1>2, ElementOfSeq, EmptySeq
<1> DEFINE c == [console[1] EXCEPT !.at = k]
<1>4. c \in Orders /\ c.cmd = console[1].cmd /\ c.mine = console[1].mine
  BY <1>2, <1>3 DEF Orders
<1>5. console' = [console EXCEPT ![1] = c]
  BY <1>1
<1> HIDE DEF c
<1>6. /\ console' \in Seq(Orders) /\ Len(console') = Len(console)
      /\ \A j \in 1..Len(console) : console'[j] = IF j = 1 THEN c ELSE console[j]
  <2>1. 1 \in 1..Len(console)
    BY <1>3
  <2>2. LET r == [console EXCEPT ![1] = c]
        IN /\ r \in Seq(Orders) /\ Len(r) = Len(console)
           /\ \A j \in 1..Len(console) : r[j] = IF j = 1 THEN c ELSE console[j]
    BY <1>4, <2>1, ExceptSeq
  <2>3. QED
    BY <1>5, <2>2
<1>7. console' # <<>>
  BY <1>3, <1>6, EmptySeq
<1>8. QED
  BY <1>2, <1>3, <1>4, <1>6, <1>7


\* The step of the proof: what it makes of the tool and the console stays in its types.
LEMMA LinkTyped ==
    ASSUME InstallerInv, [InstallerNext]_installer
    PROVE  host' \in Hosts /\ console' \in Seq(Orders)
<1>t. host \in Hosts /\ console \in Seq(Orders) /\ Typed /\ Progress /\ QueueInv
  BY DEF InstallerInv, Typed
<1>e. <<>> \in Seq(Orders) /\ "failed" \in HostWords
  BY DEF HostWords
<1>1. CASE Quiet
  BY <1>1, <1>t DEF Quiet
<1>2. CASE Abandoned
  BY <1>2, <1>t, <1>e, IdleHost, OrphansStay DEF Abandoned
<1>3. CASE CutOff
  BY <1>3, <1>t, <1>e DEF CutOff
<1>4. CASE Idles
  <2>1. {"failed", "sealed", "done", "verified"} \subseteq HostWords
    BY DEF HostWords
  <2>2. host' \in Hosts
    BY <1>4, <2>1, IdleHost DEF Idles
  <2>3. QED
    BY <1>4, <1>t, <2>2 DEF Idles
<1>5. CASE Begins
  BY <1>5, <1>t DEF Begins
<1>6. CASE Sends
  <2> DEFINE c == [cmd |-> Head(host.left), at |-> 0, mine |-> TRUE]
             g == [host EXCEPT !.waits = TRUE]
  <2>1. host' = g /\ console' = Append(console, c) /\ host.left # <<>>
    BY <1>6 DEF Sends, Send
  <2>2. c \in Orders
    BY <1>t, <2>1, SentState
  <2>3. g \in Hosts
    BY <1>t DEF Hosts
  <2> HIDE DEF c, g
  <2>4. QED
    BY <1>t, <2>1, <2>2, <2>3, Appended
<1>7. CASE Answered
  BY <1>7, <1>t, AnswerShape DEF Answered
<1>8. CASE Proceeds
  BY <1>8, <1>t, ProceedsShape
<1>9. QED
  BY <1>t, <1>1, <1>2, <1>3, <1>4, <1>5, <1>6, <1>7, <1>8, HostShapes

\* The commands of the console, after each kind of step.
LEMMA QueueStep ==
    ASSUME InstallerInv, [InstallerNext]_installer
    PROVE  QueueInv'
<1>t. host \in Hosts /\ console \in Seq(Orders) /\ Typed /\ Progress /\ QueueInv /\ Len(console) \in Nat
  BY DEF InstallerInv, Typed
<1>n. ~host.waits => \A i \in 1..Len(console) : ~console[i].mine
  BY <1>t DEF QueueInv
<1>i. \A w \in HostWords : ~HostIdle(w).waits
  BY DEF HostIdle
<1>1. CASE Quiet
  BY <1>1, <1>t DEF Quiet, QueueInv
<1>2. CASE Abandoned
  <2>1. ~host'.waits
    BY <1>2, <1>i DEF Abandoned, HostWords
  <2>2. CASE console' = Orphaned(console)
    <3>1. /\ Len(console') = Len(console)
          /\ \A i \in 1..Len(console) : console'[i].at = console[i].at /\ ~console'[i].mine
      BY <1>t, <2>2, OrphansStay
    <3>2. QED
      BY <1>t, <2>1, <3>1 DEF QueueInv
  <2>3. CASE console' = <<>>
    BY <2>1, <2>3 DEF QueueInv
  <2>4. QED
    BY <1>2, <2>2, <2>3 DEF Abandoned
<1>3. CASE CutOff
  BY <1>3 DEF CutOff, QueueInv
<1>4. CASE Idles
  <2>1. ~host'.waits
    BY <1>4, <1>i DEF Idles, HostWords
  <2>2. console' = console /\ ~host.waits
    BY <1>4 DEF Idles
  <2>3. QED
    BY <1>t, <1>n, <2>1, <2>2 DEF QueueInv
<1>5. CASE Begins
  BY <1>5, <1>t, <1>n DEF Begins, QueueInv
<1>6. CASE Sends
  <2> DEFINE c == [cmd |-> Head(host.left), at |-> 0, mine |-> TRUE]
  <2>1. /\ host' = [host EXCEPT !.waits = TRUE] /\ console' = Append(console, c)
        /\ host.left # <<>> /\ ~host.waits
    BY <1>6 DEF Sends, Send
  <2>2. c \in Orders /\ c.cmd = Head(host.left) /\ c.at = 0 /\ c.mine
    BY <1>t, <2>1, SentState
  <2>3. host'.left = host.left /\ host'.waits
    BY <1>t, <2>1 DEF Hosts
  <2> HIDE DEF c
  <2>4. /\ console' # <<>> /\ Len(console') = Len(console) + 1 /\ console'[Len(console')] = c
        /\ \A i \in 1..Len(console) : console'[i] = console[i]
    BY <1>t, <2>1, <2>2, Appended
  <2>5. \A i \in 1..Len(console') : i \in 1..Len(console) \/ i = Len(console')
    BY <1>t, <2>4
  <2>6. \A i \in 1..Len(console') : console'[i].mine => host'.waits /\ i = Len(console')
    BY <1>n, <2>1, <2>3, <2>4, <2>5
  <2>7. host'.waits => /\ console' # <<>> /\ console'[Len(console')].mine
                       /\ host'.left # <<>> /\ console'[Len(console')].cmd = Head(host'.left)
    BY <2>1, <2>2, <2>3, <2>4
  <2>8. \A i \in 2..Len(console') : console'[i].at = 0
    <3>1. TAKE i \in 2..Len(console')
    <3>2. i \in 2..Len(console) \/ i = Len(console')
      BY <1>t, <2>4
    <3>3. QED
      BY <1>t, <2>2, <2>4, <3>2 DEF QueueInv
  <2>9. QED
    BY <2>6, <2>7, <2>8 DEF QueueInv
<1>7. CASE Answered
  <2>1. PICK passed \in BOOLEAN : Answer(passed)
    BY <1>7 DEF Answered
  <2>2. console # <<>>
    BY <1>7 DEF Answered
  <2>3. /\ console' \in Seq(Orders) /\ Len(console') = Len(console) - 1
        /\ \A i \in 1..Len(console') : console'[i] = console[i + 1]
        /\ \/ ~Head(console).mine /\ host' = host
           \/ Head(console).mine /\ host' = HostIdle("failed")
           \/ Heard
    BY <1>t, <2>1, <2>2, AnswerShape
  <2>4. Len(console) \in Nat \ {0} /\ Head(console) = console[1]
    BY <1>t, <2>2, EmptySeq
  <2>5. \A i \in 2..Len(console') : console'[i].at = 0
    <3>1. TAKE i \in 2..Len(console')
    <3>2. i + 1 \in 2..Len(console) /\ i \in 1..Len(console')
      BY <2>3, <2>4
    <3>3. QED
      BY <1>t, <2>3, <3>2 DEF QueueInv
  <2>6. \A i \in 1..Len(console') : console'[i].mine => host.waits /\ i = Len(console')
    <3>1. TAKE i \in 1..Len(console')
    <3>2. i + 1 \in 1..Len(console) /\ (i + 1 = Len(console) => i = Len(console'))
      BY <2>3, <2>4
    <3>3. QED
      BY <1>t, <2>3, <3>2 DEF QueueInv
  <2>7. CASE ~Head(console).mine /\ host' = host
    <3>1. ASSUME host.waits
          PROVE  /\ console' # <<>> /\ console'[Len(console')].mine
                 /\ host.left # <<>> /\ console'[Len(console')].cmd = Head(host.left)
      <4>1. /\ console[Len(console)].mine /\ host.left # <<>>
            /\ console[Len(console)].cmd = Head(host.left)
        BY <1>t, <3>1 DEF QueueInv
      <4>2. Len(console) # 1
        BY <2>4, <2>7, <4>1
      <4>3. Len(console') \in 1..Len(console') /\ Len(console') + 1 = Len(console)
        BY <2>3, <2>4, <4>2
      <4>4. console'[Len(console')] = console[Len(console)] /\ console' # <<>>
        BY <2>3, <4>3
      <4>5. QED
        BY <4>1, <4>4
    <3>2. QED
      BY <2>5, <2>6, <2>7, <3>1 DEF QueueInv
  <2>8. CASE Head(console).mine /\ (host' = HostIdle("failed") \/ Heard)
    <3>1. ~host'.waits
      BY <1>i, <2>8 DEF Heard, HostWords
    <3>2. 1 \in 1..Len(console) /\ console[1].mine
      BY <2>4, <2>8
    <3>3. Len(console) = 1
      BY <1>t, <3>2 DEF QueueInv
    <3>4. \A i \in 1..Len(console') : FALSE
      BY <2>3, <3>3
    <3>5. QED
      BY <2>5, <3>1, <3>4 DEF QueueInv
  <2>9. QED
    BY <2>3, <2>7, <2>8 DEF Heard
<1>8. CASE Proceeds
  <2>1. /\ Len(console') = Len(console) /\ console' # <<>> /\ host' = host
        /\ \A i \in 1..Len(console) : /\ console'[i].cmd = console[i].cmd
                                      /\ console'[i].mine = console[i].mine
        /\ \A i \in 2..Len(console) : console'[i] = console[i]
        /\ Len(console) \in 1..Len(console)
    BY <1>t, <1>8, ProceedsShape
  <2>2. QED
    BY <1>t, <2>1 DEF QueueInv
<1>9. QED
  BY <1>t, <1>1, <1>2, <1>3, <1>4, <1>5, <1>6, <1>7, <1>8, HostShapes


\* What install has left, after each kind of step.
LEMMA ProgressStep ==
    ASSUME InstallerInv, [InstallerNext]_installer
    PROVE  Progress'
<1>t. host \in Hosts /\ console \in Seq(Orders) /\ Typed /\ Progress /\ QueueInv /\ Len(console) \in Nat
  BY DEF InstallerInv, Typed
<1>i. \A w \in HostWords : /\ HostIdle(w).tool = "none" /\ ~HostIdle(w).waits
  BY DEF HostIdle
<1>f. host'.tool = "none" /\ ~host'.waits => Progress'
  BY DEF Progress
<1>1. CASE Quiet
  BY <1>1, <1>t DEF Quiet, Progress
<1>2. CASE Abandoned
  BY <1>2, <1>f, <1>i DEF Abandoned, HostWords
<1>3. CASE CutOff
  BY <1>3, <1>t DEF CutOff, Progress
<1>4. CASE Idles
  <2>1. host'.tool = "none" /\ ~host'.waits
    BY <1>4, <1>i DEF Idles, HostWords
  <2>2. QED
    BY <1>f, <2>1
<1>5. CASE Begins
  BY <1>5 DEF Begins, Progress, InstallLeft, HostTools
<1>6. CASE Sends
  <2> DEFINE c == [cmd |-> Head(host.left), at |-> 0, mine |-> TRUE]
  <2>1. /\ host' = [host EXCEPT !.waits = TRUE] /\ console' = Append(console, c)
        /\ host.left # <<>> /\ ~host.waits /\ host.tool # "none"
    BY <1>6 DEF Sends, Send, Free
  <2>2. c \in Orders
    BY <1>t, <2>1, SentState
  <2>3. host'.tool = host.tool /\ host'.left = host.left /\ host'.waits
    BY <1>t, <2>1 DEF Hosts
  <2> HIDE DEF c
  <2>4. Len(console') = Len(console) + 1
    BY <1>t, <2>1, <2>2, Appended
  <2>5. console = <<>> => Len(console) = 0
    OBVIOUS
  <2>6. QED
    BY <1>t, <2>1, <2>3, <2>4, <2>5 DEF Progress
<1>7. CASE Answered
  <2>1. PICK passed \in BOOLEAN : Answer(passed)
    BY <1>7 DEF Answered
  <2>2. console # <<>>
    BY <1>7 DEF Answered
  <2>3. /\ console' \in Seq(Orders) /\ Len(console') = Len(console) - 1
        /\ \/ ~Head(console).mine /\ host' = host
           \/ host' = HostIdle("failed")
           \/ Heard
    BY <1>t, <2>1, <2>2, AnswerShape
  <2>4. Len(console) \in Nat \ {0} /\ Head(console) = console[1]
    BY <1>t, <2>2, EmptySeq
  <2>5. CASE ~Head(console).mine /\ host' = host
    <3>1. ~(host.tool = "install" /\ host.left # Script("install"))
      BY <1>t, <2>2, <2>4, <2>5 DEF Progress, QueueInv
    <3>2. QED
      BY <1>t, <2>5, <3>1 DEF Progress
  <2>6. CASE host' = HostIdle("failed")
    BY <1>f, <1>i, <2>6 DEF HostWords
  <2>7. CASE Heard
    <3>1. console' = <<>>
      BY <2>3, <2>7, EmptySeq DEF Heard
    <3>2. host.tool = "install" => Tail(host.left) \in InstallLeft /\ Tail(host.left) # Script("install")
      BY <1>t, <2>7, InstallTail DEF Heard, Progress
    <3>3. /\ host'.tool = host.tool /\ host'.left = Tail(host.left) /\ ~host'.waits
      BY <2>7 DEF Heard
    <3>4. QED
      BY <3>1, <3>2, <3>3 DEF Progress
  <2>8. QED
    BY <2>3, <2>5, <2>6, <2>7
<1>8. CASE Proceeds
  <2>1. Len(console') = Len(console) /\ console' # <<>> /\ console # <<>> /\ host' = host
    BY <1>t, <1>8, ProceedsShape
  <2>2. QED
    BY <1>t, <2>1 DEF Progress
<1>9. QED
  BY <1>t, <1>1, <1>2, <1>3, <1>4, <1>5, <1>6, <1>7, <1>8, HostShapes

\* The host's bundle, and whether what is sent of it is sealed.
LEMMA Elsewhere ==
    ASSUME [InstallerNext]_installer, ~Finalize, ~Change
    PROVE  work' = work
BY TabletShape DEF InstallerNext, Carry, Choose, Select, Finish, Send, RefuseBundle, GiveUp, Hangup,
   Reboot, installer

LEMMA SealsStep ==
    ASSUME InstallerInv, [InstallerNext]_installer
    PROVE  Seals'
<1>t. /\ host \in Hosts /\ console \in Seq(Orders) /\ Typed /\ Progress /\ QueueInv /\ Seals
      /\ Len(console) \in Nat /\ host.left \in Seq(ConsoleCommands)
      /\ work \in [files : {"good", "other"}, seal : BundleFiles]
  BY DEF InstallerInv, Typed, InstallerTypeOK, Hosts
<1>i. \A w \in HostWords : /\ HostIdle(w).tool = "none" /\ HostIdle(w).left = <<>>
  BY DEF HostIdle
<1>0. CASE Finalize
  <2>1. /\ work.seal = "none" /\ console' = console
        /\ host' = HostIdle("sealed") \/ host' = HostIdle("failed")
    BY <1>0 DEF Finalize
  <2>2. work'.seal = "other" => work'.files = "other"
    BY <1>0, <1>t DEF Finalize
  <2>3. host'.tool = "none" /\ host'.left = <<>>
    BY <1>i, <2>1 DEF HostWords
  <2>4. \A i \in 1..Len(console) : console[i].cmd \notin Bringing
    BY <1>t, <2>1 DEF Seals
  <2>5. QED
    BY <2>1, <2>2, <2>3, <2>4 DEF Seals
<1>c. CASE Change
  <2>1. work'.seal = work.seal /\ work'.files = "other" /\ host' = host /\ console' = console
    BY <1>c, <1>t DEF Change
  <2>2. QED
    BY <1>t, <2>1 DEF Seals
<1>w. CASE work' = work
  <2>s. work'.seal = "other" => work'.files = "other"
    BY <1>t, <1>w DEF Seals
  <2>i. (host'.tool = "none" /\ host'.left = <<>>)
           => (/\ \A i \in 1..Len(host'.left) : host'.left[i] \in Bringing => host'.tool = "stage"
               /\ host'.tool # "stage")
    OBVIOUS
  <2>1. CASE Quiet
    BY <1>t, <1>w, <2>1 DEF Quiet, Seals
  <2>2. CASE Abandoned
    <3>1. host'.tool = "none" /\ host'.left = <<>>
      BY <1>i, <2>2 DEF Abandoned, HostWords
    <3>2. /\ console' = <<>> \/ console' = Orphaned(console)
          /\ Len(Orphaned(console)) = Len(console)
          /\ \A i \in 1..Len(console) : Orphaned(console)[i].cmd = console[i].cmd
      BY <1>t, <2>2, OrphansStay DEF Abandoned
    <3>3. \A i \in 1..Len(console') : console'[i].cmd \in Bringing => work.seal = "good"
      <4>1. CASE console' = <<>>
        BY <4>1
      <4>2. CASE console' = Orphaned(console)
        BY <1>t, <3>2, <4>2 DEF Seals
      <4>3. QED
        BY <3>2, <4>1, <4>2
    <3>4. QED
      BY <1>w, <2>s, <2>i, <3>1, <3>3 DEF Seals
  <2>3. CASE CutOff
    BY <1>t, <1>w, <2>3 DEF CutOff, Seals
  <2>4. CASE Idles
    <3>1. host'.tool = "none" /\ host'.left = <<>> /\ console' = console
      BY <1>i, <2>4 DEF Idles, HostWords
    <3>2. QED
      BY <1>t, <1>w, <2>s, <2>i, <3>1 DEF Seals
  <2>5. CASE Begins
    <3>1. /\ host'.tool \in HostTools /\ host'.left = Script(host'.tool) /\ ~host'.waits
          /\ console' = console
      BY <2>5 DEF Begins
    <3>2. \A i \in 1..Len(host'.left) : host'.left[i] \in Bringing => host'.tool = "stage"
      BY <3>1, ScriptFacts
    <3>3. QED
      BY <1>t, <1>w, <2>s, <3>1, <3>2 DEF Seals
  <2>6. CASE Sends
    <3> DEFINE c == [cmd |-> Head(host.left), at |-> 0, mine |-> TRUE]
    <3>1. /\ host' = [host EXCEPT !.waits = TRUE] /\ console' = Append(console, c)
          /\ host.left # <<>> /\ (Head(host.left) = "setup" => Sealed(work))
      BY <2>6 DEF Sends, Send
    <3>2. c \in Orders /\ c.cmd = Head(host.left)
      BY <1>t, <3>1, SentState
    <3>3. host'.tool = host.tool /\ host'.left = host.left /\ host'.waits
      BY <1>t, <3>1 DEF Hosts
    <3> HIDE DEF c
    <3>4. /\ Len(console') = Len(console) + 1 /\ console'[Len(console')] = c
          /\ \A i \in 1..Len(console) : console'[i] = console[i]
      BY <1>t, <3>1, <3>2, Appended
    <3>5. host.tool = "stage" => work.seal = "good"
      BY <1>t, <3>1, FirstCommands DEF Seals, Sealed, Validates
    <3>6. Head(host.left) = host.left[1] /\ 1 \in 1..Len(host.left)
      BY <1>t, <3>1, EmptySeq
    <3>7. Head(host.left) \in Bringing => work.seal = "good"
      BY <1>t, <3>5, <3>6 DEF Seals
    <3>8. \A i \in 1..Len(console') : console'[i].cmd \in Bringing => work.seal = "good"
      <4>1. TAKE i \in 1..Len(console')
      <4>2. i \in 1..Len(console) \/ i = Len(console')
        BY <1>t, <3>4
      <4>3. QED
        BY <1>t, <3>2, <3>4, <3>7, <4>2 DEF Seals
    <3>9. QED
      BY <1>t, <1>w, <2>s, <3>3, <3>5, <3>8 DEF Seals
  <2>7. CASE Answered
    <3>1. PICK passed \in BOOLEAN : Answer(passed)
      BY <2>7 DEF Answered
    <3>2. console # <<>>
      BY <2>7 DEF Answered
    <3>3. /\ console' \in Seq(Orders) /\ Len(console') = Len(console) - 1
          /\ \A i \in 1..Len(console') : console'[i] = console[i + 1]
          /\ host' = host \/ host' = HostIdle("failed") \/ Heard
      BY <1>t, <3>1, <3>2, AnswerShape
    <3>4. \A i \in 1..Len(console') : console'[i].cmd \in Bringing => work.seal = "good"
      <4>1. TAKE i \in 1..Len(console')
      <4>2. i + 1 \in 1..Len(console)
        BY <1>t, <3>3
      <4>3. QED
        BY <1>t, <3>3, <4>2 DEF Seals
    <3>5. CASE host' = host
      BY <1>t, <1>w, <2>s, <3>4, <3>5 DEF Seals
    <3>6. CASE host' = HostIdle("failed")
      <4>1. host'.tool = "none" /\ host'.left = <<>>
        BY <1>i, <3>6 DEF HostWords
      <4>2. QED
        BY <1>w, <2>s, <2>i, <3>4, <4>1 DEF Seals
    <3>7. CASE Heard
      <4>1. /\ host'.tool = host.tool /\ host'.left = Tail(host.left) /\ host.left # <<>> /\ host.waits
        BY <3>7 DEF Heard
      <4>2. host.tool = "stage" => work.seal = "good"
        BY <1>t, <4>1 DEF Seals
      <4>3. \A i \in 1..Len(Tail(host.left)) : Tail(host.left)[i] = host.left[i + 1]
                                                /\ i + 1 \in 1..Len(host.left)
        BY <1>t, <4>1
      <4>4. \A i \in 1..Len(host'.left) : host'.left[i] \in Bringing => host'.tool = "stage"
        BY <1>t, <4>1, <4>3 DEF Seals
      <4>5. QED
        BY <1>w, <2>s, <3>4, <4>1, <4>2, <4>4 DEF Seals
    <3>8. QED
      BY <3>3, <3>5, <3>6, <3>7
  <2>8. CASE Proceeds
    <3>1. /\ Len(console') = Len(console) /\ host' = host
          /\ \A i \in 1..Len(console) : console'[i].cmd = console[i].cmd
      BY <1>t, <2>8, ProceedsShape
    <3>2. QED
      BY <1>t, <1>w, <2>s, <3>1 DEF Seals
  <2>9. QED
    BY <1>t, <2>1, <2>2, <2>3, <2>4, <2>5, <2>6, <2>7, <2>8, HostShapes
<1>9. QED
  BY <1>0, <1>c, <1>w, Elsewhere


Rams == [stage : BOOLEAN, bundle : Bundles, script : {"none", "cut", "whole"},
         prepare : {"none", "cut", "whole"}, token : BOOLEAN,
         runtime : {"none", "part", "whole"}, started : BOOLEAN, stopping : BOOLEAN]
Roots == [holds : {"old", "blank", "part", "good", "other"}, mounted : BOOLEAN]
SealPair == [files : BundleFiles, seal : BundleFiles]

\* What the tablet has in its RAM, after every command; the bundle only changes in an
\* upload, in a copy and in a reboot.
BundleKept == ram'.bundle = ram.bundle
LEMMA RamTyped ==
    ASSUME Typed, [InstallerNext]_installer
    PROVE  ram' \in Rams /\ (BundleKept \/ Reboot \/ (Tablet /\ (PutBundle \/ Copy)))
<1>t. /\ ram \in Rams /\ work \in [files : {"good", "other"}, seal : BundleFiles] /\ copied \in SealPair
  BY DEF Typed, InstallerTypeOK, Rams, SealPair
<1>k. ram' = ram => ram' \in Rams /\ BundleKept
  BY <1>t DEF BundleKept
<1>1. CASE Setup
  <2>1. ram' = ram \/ ram' = [ram EXCEPT !.stage = TRUE]
    BY <1>1 DEF Setup, Refused
  <2>2. CASE ram' = [ram EXCEPT !.stage = TRUE]
    BY <1>t, <2>2 DEF Rams, BundleKept
  <2>3. QED
    BY <1>k, <2>1, <2>2
<1>2. CASE Tablet /\ PutBundle
  <2>1. \/ ram' = ram
        \/ ram' = [ram EXCEPT !.bundle = [files |-> "part", seal |-> work.seal]]
        \/ ram' = [ram EXCEPT !.bundle.files = work.files]
    BY <1>2 DEF PutBundle
  <2>2. CASE ram' = [ram EXCEPT !.bundle = [files |-> "part", seal |-> work.seal]]
    <3>1. [files |-> "part", seal |-> work.seal] \in Bundles
      BY <1>t DEF Bundles
    <3>2. \A b \in Bundles : [ram EXCEPT !.bundle = b] \in Rams
      BY <1>t DEF Rams
    <3>3. QED
      BY <1>2, <2>2, <3>1, <3>2
  <2>3. CASE ram' = [ram EXCEPT !.bundle.files = work.files]
    <3>1. ram.bundle \in Bundles
      BY <1>t DEF Rams
    <3>2. [ram.bundle EXCEPT !.files = work.files] \in Bundles
      BY <1>t, <3>1 DEF Bundles, BundleFiles
    <3>3. \A b \in Bundles : [ram EXCEPT !.bundle = b] \in Rams
      BY <1>t DEF Rams
    <3>4. ram' = [ram EXCEPT !.bundle = [ram.bundle EXCEPT !.files = work.files]]
      BY <2>3
    <3>5. QED
      BY <1>2, <3>2, <3>3, <3>4
  <2>4. QED
    BY <1>k, <1>2, <2>1, <2>2, <2>3
<1>3. CASE Put("put_script", "script")
  <2>1. \/ ram' = ram \/ ram' = [ram EXCEPT !.script = "cut"]
        \/ ram' = [ram EXCEPT !.script = "whole"]
    BY <1>3 DEF Put
  <2>2. CASE ram' = [ram EXCEPT !.script = "cut"] \/ ram' = [ram EXCEPT !.script = "whole"]
    BY <1>t, <2>2 DEF Rams, BundleKept
  <2>3. QED
    BY <1>k, <2>1, <2>2
<1>4. CASE Put("put_prepare", "prepare")
  <2>1. \/ ram' = ram \/ ram' = [ram EXCEPT !.prepare = "cut"]
        \/ ram' = [ram EXCEPT !.prepare = "whole"]
    BY <1>4 DEF Put
  <2>2. CASE ram' = [ram EXCEPT !.prepare = "cut"] \/ ram' = [ram EXCEPT !.prepare = "whole"]
    BY <1>t, <2>2 DEF Rams, BundleKept
  <2>3. QED
    BY <1>k, <2>1, <2>2
<1>5. CASE Tablet /\ Copy
  <2>1. ram' = ram \/ ram' = [ram EXCEPT !.stage = TRUE, !.bundle = copied]
    BY <1>5 DEF Copy, Refused
  <2>2. CASE ram' = [ram EXCEPT !.stage = TRUE, !.bundle = copied]
    <3>1. copied \in Bundles
      BY <1>t DEF Bundles, SealPair
    <3>2. QED
      BY <1>5, <1>t, <2>2, <3>1 DEF Rams
  <2>3. QED
    BY <1>k, <1>5, <2>1, <2>2
<1>6. CASE Prepare
  <2>1. ram' = ram \/ ram' = [ram EXCEPT !.stopping = TRUE]
    BY <1>6 DEF Prepare, Refused
  <2>2. CASE ram' = [ram EXCEPT !.stopping = TRUE]
    BY <1>t, <2>2 DEF Rams, BundleKept
  <2>3. QED
    BY <1>k, <2>1, <2>2
<1>7. CASE Check
  <2>1. \/ ram' = ram \/ ram' = [ram EXCEPT !.runtime = "part"]
        \/ ram' = [ram EXCEPT !.runtime = "whole"]
    BY <1>7 DEF Check
  <2>2. CASE ram' = [ram EXCEPT !.runtime = "part"] \/ ram' = [ram EXCEPT !.runtime = "whole"]
    BY <1>t, <2>2 DEF Rams, BundleKept
  <2>3. QED
    BY <1>k, <2>1, <2>2
<1>8. CASE Token
  <2>1. ram' = ram \/ ram' = [ram EXCEPT !.token = TRUE]
    BY <1>8 DEF Token, Refused
  <2>2. CASE ram' = [ram EXCEPT !.token = TRUE]
    BY <1>t, <2>2 DEF Rams, BundleKept
  <2>3. QED
    BY <1>k, <2>1, <2>2
<1>9. CASE Apply
  <2>1. ram' = ram \/ ram' = [ram EXCEPT !.started = TRUE, !.runtime = "whole"]
    BY <1>9 DEF Apply, Refused
  <2>2. CASE ram' = [ram EXCEPT !.started = TRUE, !.runtime = "whole"]
    BY <1>t, <2>2 DEF Rams, BundleKept
  <2>3. QED
    BY <1>k, <2>1, <2>2
<1>10. CASE Reboot
  <2>1. [files |-> "none", seal |-> "none"] \in Bundles
    BY DEF Bundles, BundleFiles
  <2>2. EmptyRam \in Rams
    BY <2>1 DEF EmptyRam, Rams
  <2>3. QED
    BY <1>10, <2>2 DEF Reboot
<1>11. CASE Audit
  BY <1>11, <1>k DEF Audit
<1>12. CASE \/ Finalize \/ Change \/ Carry \/ Finish \/ Send \/ RefuseBundle \/ GiveUp \/ Hangup
            \/ (\E a \in {"verify", "stage", "prepare", "install"} : Choose(a))
            \/ (\E s \in {"host", "tablet", "staged"} : Select(s))
            \/ UNCHANGED installer
  <2>1. ram' = ram
    BY <1>12 DEF Finalize, Change, Carry, Choose, Select, Finish, Send, RefuseBundle, GiveUp, Hangup,
       installer
  <2>2. QED
    BY <1>k, <2>1
<1>13. QED
  BY <1>1, <1>2, <1>3, <1>4, <1>5, <1>6, <1>7, <1>8, <1>9, <1>10, <1>11, <1>12
     DEF InstallerNext, Tablet

\* linuxroot, whose contents only --apply changes, and the copy of a bundle on it.
HoldsKept == root'.holds = root.holds
LEMMA RootTyped ==
    ASSUME Typed, Applying, [InstallerNext]_installer
    PROVE  root' \in Roots /\ (HoldsKept \/ (Tablet /\ Apply))
<1>t. root \in Roots /\ ram \in Rams
  BY DEF Typed, InstallerTypeOK, Roots, Rams
<1>k. root' = root => root' \in Roots /\ HoldsKept
  BY <1>t DEF HoldsKept
<1>m. ASSUME NEW m \in BOOLEAN, root' = [root EXCEPT !.mounted = m]
      PROVE  root' \in Roots /\ HoldsKept
  BY <1>t, <1>m DEF Roots, HoldsKept
<1>1. CASE Tablet /\ Apply
  <2>1. \/ root' = root
        \/ root' = [root EXCEPT !.holds = "blank"]
        \/ root' = [root EXCEPT !.holds = "part"]
        \/ root' = [root EXCEPT !.holds = ram.bundle.files] /\ Now.at = 3 /\ Running("apply")
    BY <1>1 DEF Apply, Refused
  <2>2. \A v \in {"old", "blank", "part", "good", "other"} : [root EXCEPT !.holds = v] \in Roots
    BY <1>t DEF Roots
  <2>3. Now.at = 3 /\ Running("apply") => ram.bundle.files \in {"good", "other"}
    BY DEF Applying, Running, Now
  <2>4. root' \in Roots
    BY <1>t, <2>1, <2>2, <2>3
  <2>5. QED
    BY <1>1, <2>4
<1>2. CASE Tablet /\ Prepare
  <2>1. root' = root \/ root' = [root EXCEPT !.mounted = FALSE]
    BY <1>2 DEF Prepare, Refused
  <2>2. QED
    BY <1>2, <1>k, <1>m, <2>1
<1>3. CASE Tablet /\ ~Apply /\ ~Prepare
  <2>1. root' = root
    BY <1>3 DEF Tablet, Setup, PutBundle, Put, Audit, Copy, Check, Token, Refused
  <2>2. QED
    BY <1>k, <2>1
<1>4. CASE Reboot
  <2>1. PICK m \in BOOLEAN : root' = [root EXCEPT !.mounted = m]
    BY <1>4 DEF Reboot
  <2>2. QED
    BY <1>m, <2>1
<1>5. CASE ~Tablet /\ ~Reboot
  <2>1. root' = root
    BY <1>5 DEF InstallerNext, Finalize, Change, Carry, Choose, Select, Finish, Send, RefuseBundle,
       GiveUp, Hangup, installer
  <2>2. QED
    BY <1>k, <2>1
<1>6. QED
  BY <1>1, <1>2, <1>3, <1>4, <1>5

\* The copy on linuxroot only appears.
Carried == Carry /\ copied.files = "none" /\ copied' = work
LEMMA OthersTyped ==
    ASSUME Typed, [InstallerNext]_installer
    PROVE  /\ work' \in [files : {"good", "other"}, seal : BundleFiles]
           /\ copied' \in SealPair /\ (copied' = copied \/ Carried)
           /\ source' \in {"host", "tablet", "staged"}
           /\ events' \in [faults : 0..MaxLinkFaults, actions : 0..MaxActions]
<1>t. /\ work \in [files : {"good", "other"}, seal : BundleFiles] /\ copied \in SealPair
      /\ source \in {"host", "tablet", "staged"}
      /\ events \in [faults : 0..MaxLinkFaults, actions : 0..MaxActions]
      /\ MaxLinkFaults \in Nat /\ MaxActions \in Nat
  BY InstallerConstants DEF Typed, InstallerTypeOK, SealPair
<1>f. ASSUME Fault PROVE events' \in [faults : 0..MaxLinkFaults, actions : 0..MaxActions]
  <2>1. events.faults \in 0..MaxLinkFaults /\ events.faults + 1 \in 0..MaxLinkFaults
    BY <1>t, <1>f DEF Fault
  <2>2. QED
    BY <1>t, <1>f, <2>1 DEF Fault
<1>a. ASSUME Act PROVE events' \in [faults : 0..MaxLinkFaults, actions : 0..MaxActions]
  <2>1. events.actions \in 0..MaxActions /\ events.actions + 1 \in 0..MaxActions
    BY <1>t, <1>a DEF Act
  <2>2. QED
    BY <1>t, <1>a, <2>1 DEF Act
<1>1. CASE Finalize
  <2>1. work' \in [files : {"good", "other"}, seal : BundleFiles]
    <3>1. \/ work' = [work EXCEPT !.seal = "good"]
          \/ work' = [files |-> "other", seal |-> "other"]
      BY <1>1 DEF Finalize
    <3>2. QED
      BY <1>t, <3>1 DEF BundleFiles
  <2>2. QED
    BY <1>1, <1>t, <1>f, <1>a, <2>1 DEF Finalize
<1>2. CASE Change
  <2>1. work' \in [files : {"good", "other"}, seal : BundleFiles]
    BY <1>t, <1>2 DEF Change
  <2>2. QED
    BY <1>2, <1>t, <1>f, <2>1 DEF Change
<1>3. CASE Carry
  <2>1. work \in SealPair
    BY <1>t DEF SealPair, BundleFiles
  <2>2. QED
    BY <1>3, <1>t, <2>1 DEF Carry, Carried
<1>4. ASSUME NEW a \in {"verify", "stage", "prepare", "install"}, Choose(a)
      PROVE  UNCHANGED <<work, copied, source>> /\ Act
  BY <1>4 DEF Choose
<1>5. ASSUME NEW s \in {"host", "tablet", "staged"}, Select(s)
      PROVE  UNCHANGED <<work, copied, events>> /\ source' = s
  BY <1>5 DEF Select
<1>6. CASE Finish
  <2>1. source' \in {source, "staged"}
    BY <1>6 DEF Finish
  <2>2. QED
    BY <1>6, <1>t, <2>1 DEF Finish
<1>7. CASE Send \/ RefuseBundle \/ UNCHANGED installer
  BY <1>7, <1>t DEF Send, RefuseBundle, installer
<1>8. CASE GiveUp \/ Hangup \/ Reboot
  BY <1>8, <1>t, <1>f DEF GiveUp, Hangup, Reboot
<1>9. CASE Tablet
  BY <1>9, <1>t DEF Tablet
<1>10. QED
  BY <1>t, <1>a, <1>1, <1>2, <1>3, <1>4, <1>5, <1>6, <1>7, <1>8, <1>9 DEF InstallerNext


LEMMA TypedStep ==
    ASSUME InstallerInv, [InstallerNext]_installer
    PROVE  Typed'
<1>1. host' \in Hosts /\ console' \in Seq(Orders)
  BY LinkTyped
<1>2. ram' \in Rams /\ root' \in Roots
  BY RamTyped, RootTyped DEF InstallerInv
<1>3. /\ work' \in [files : {"good", "other"}, seal : BundleFiles] /\ copied' \in SealPair
      /\ source' \in {"host", "tablet", "staged"}
      /\ events' \in [faults : 0..MaxLinkFaults, actions : 0..MaxActions]
  BY OthersTyped DEF InstallerInv
<1>4. /\ host'.tool \in HostTools \cup {"none"} /\ host'.left \in Seq(ConsoleCommands)
      /\ host'.next \in Seq(HostTools) /\ host'.waits \in BOOLEAN
      /\ host'.says \in {"nothing", "failed", "sealed", "done", "verified"}
  BY <1>1 DEF Hosts, HostWords
<1>5. \A i \in 1..Len(console') : console'[i] \in [cmd : ConsoleCommands, at : 0..3, mine : BOOLEAN]
  BY <1>1, ElementOfSeq DEF Orders
<1>6. InstallerTypeOK'
  BY <1>2, <1>3, <1>4, <1>5 DEF InstallerTypeOK, Rams, Roots, SealPair
<1>7. QED
  BY <1>1, <1>6 DEF Typed

\* The first command of the console, after each kind of step: the same one, or one that
\* has not begun.
LEMMA FirstCommand ==
    ASSUME InstallerInv, [InstallerNext]_installer, console' # <<>>, Head(console').at > 0
    PROVE  /\ console # <<>> /\ Head(console').cmd = Head(console).cmd
           /\ Tablet \/ Head(console').at = Head(console).at
           /\ ~Answered
<1>t. /\ host \in Hosts /\ console \in Seq(Orders) /\ Typed /\ Progress /\ QueueInv
      /\ Len(console) \in Nat /\ console' \in Seq(Orders)
  BY LinkTyped DEF InstallerInv, Typed
<1>h. Head(console') = console'[1] /\ Len(console') \in Nat \ {0}
  BY <1>t, EmptySeq
<1>k. console # <<>> => Head(console) = console[1] /\ Len(console) \in Nat \ {0}
  BY <1>t, EmptySeq
<1>1. CASE Answered
  <2>1. PICK passed \in BOOLEAN : Answer(passed)
    BY <1>1 DEF Answered
  <2>2. console # <<>>
    BY <1>1 DEF Answered
  <2>3. /\ Len(console') = Len(console) - 1
        /\ \A i \in 1..Len(console') : console'[i] = console[i + 1]
    BY <1>t, <2>1, <2>2, AnswerShape
  <2>4. 1 \in 1..Len(console') /\ 1 + 1 \in 2..Len(console)
    BY <1>h, <1>k, <2>2, <2>3
  <2>5. console'[1].at = 0
    BY <1>t, <2>3, <2>4 DEF QueueInv
  <2>6. QED
    BY <1>h, <2>5
<1>a. CASE ~Answered
  <2>1. CASE Quiet \/ Idles \/ Begins
    BY <1>a, <2>1 DEF Quiet, Idles, Begins
  <2>2. CASE Abandoned
    <3>1. /\ console' = Orphaned(console) /\ Len(Orphaned(console)) = Len(console)
          /\ \A i \in 1..Len(console) : /\ Orphaned(console)[i].cmd = console[i].cmd
                                        /\ Orphaned(console)[i].at = console[i].at
      BY <1>t, <2>2, OrphansStay DEF Abandoned
    <3>2. console # <<>>
      BY <1>t, <3>1, OrphansStay
    <3>3. 1 \in 1..Len(console)
      BY <1>k, <3>2
    <3>4. QED
      BY <1>a, <1>h, <1>k, <3>1, <3>2, <3>3
  <2>3. CASE CutOff
    BY <2>3 DEF CutOff
  <2>4. CASE Sends
    <3> DEFINE c == [cmd |-> Head(host.left), at |-> 0, mine |-> TRUE]
    <3>1. console' = Append(console, c) /\ host.left # <<>>
      BY <2>4 DEF Sends, Send
    <3>2. c \in Orders /\ c.at = 0
      BY <1>t, <3>1, SentState
    <3> HIDE DEF c
    <3>3. /\ console # <<>> => Head(console') = Head(console)
          /\ console = <<>> => Head(console') = c
      BY <1>t, <3>1, <3>2, Appended
    <3>4. QED
      BY <1>a, <3>2, <3>3
  <2>5. CASE Tablet /\ Proceeds
    <3>1. /\ console # <<>>
          /\ \A i \in 1..Len(console) : console'[i].cmd = console[i].cmd
      BY <1>t, <2>5, ProceedsShape
    <3>2. 1 \in 1..Len(console)
      BY <1>k, <3>1
    <3>3. QED
      BY <1>a, <1>h, <1>k, <2>5, <3>1, <3>2
  <2>6. QED
    BY <1>a, <1>t, <2>1, <2>2, <2>3, <2>4, <2>5, HostShapes
<1>2. QED
  BY <1>1, <1>a


LEMMA CopiesStep ==
    ASSUME InstallerInv, [InstallerNext]_installer
    PROVE  Copies'
<1>t. /\ ram \in Rams /\ copied \in SealPair /\ Typed /\ Seals /\ Copies /\ QueueInv
      /\ work \in [files : {"good", "other"}, seal : BundleFiles]
  BY DEF InstallerInv, Typed, InstallerTypeOK, Rams, SealPair
<1>o. copied' = copied \/ Carried
  BY <1>t, OthersTyped
<1>1. /\ copied'.seal = "other" => copied'.files = "other"
      /\ copied'.files = "none" => copied'.seal = "none"
  BY <1>o, <1>t DEF Carried, Copies, Seals
<1>2. ram'.bundle.seal = "other" => copied' = Refusal
  <2>1. CASE BundleKept
    <3>1. CASE copied' = copied
      BY <1>t, <2>1, <3>1 DEF BundleKept, Copies
    <3>2. CASE Carried
      <4>1. copied # Refusal
        BY <3>2 DEF Carried, Refusal
      <4>2. QED
        BY <1>t, <2>1, <4>1 DEF BundleKept, Copies
    <3>3. QED
      BY <1>o, <3>1, <3>2
  <2>2. CASE Reboot
    BY <2>2 DEF Reboot, EmptyRam
  <2>3. CASE Tablet /\ PutBundle
    <3>1. copied' = copied
      BY <2>3 DEF Tablet
    <3>2. console # <<>> /\ console[1].cmd \in Bringing /\ 1 \in 1..Len(console)
      <4>1. console # <<>> /\ Head(console).cmd = "put_bundle" /\ console \in Seq(Orders)
        BY <1>t, <2>3 DEF PutBundle, Running, Now, Typed
      <4>2. Head(console) = console[1] /\ 1 \in 1..Len(console)
        BY <4>1, EmptySeq
      <4>3. QED
        BY <4>1, <4>2 DEF Bringing
    <3>3. work.seal = "good"
      BY <1>t, <3>2 DEF Seals
    <3>4. \/ ram' = ram
          \/ ram' = [ram EXCEPT !.bundle = [files |-> "part", seal |-> work.seal]]
          \/ ram' = [ram EXCEPT !.bundle.files = work.files]
      BY <2>3 DEF PutBundle
    <3>5. ram'.bundle.seal \in {ram.bundle.seal, "good"}
      <4>1. CASE ram' = ram
        BY <4>1
      <4>2. CASE ram' = [ram EXCEPT !.bundle = [files |-> "part", seal |-> work.seal]]
        BY <1>t, <3>3, <4>2 DEF Rams
      <4>3. CASE ram' = [ram EXCEPT !.bundle.files = work.files]
        BY <1>t, <4>3 DEF Rams, Bundles
      <4>4. QED
        BY <3>4, <4>1, <4>2, <4>3
    <3>6. QED
      BY <1>t, <3>1, <3>5 DEF Copies
  <2>4. CASE Tablet /\ Copy
    <3>1. copied' = copied
      BY <2>4 DEF Tablet
    <3>2. ram' = ram \/ ram' = [ram EXCEPT !.stage = TRUE, !.bundle = copied]
      BY <2>4 DEF Copy, Refused
    <3>3. CASE ram' = [ram EXCEPT !.stage = TRUE, !.bundle = copied]
      <4>1. ram'.bundle = copied
        BY <1>t, <3>3 DEF Rams
      <4>2. copied.seal = "other" /\ copied.files = "other" => copied = Refusal
        BY <1>t DEF SealPair, Refusal
      <4>3. QED
        BY <1>t, <3>1, <4>1, <4>2 DEF Copies
    <3>4. QED
      BY <1>t, <3>1, <3>2, <3>3 DEF Copies
  <2>5. QED
    BY <1>t, RamTyped, <2>1, <2>2, <2>3, <2>4
<1>3. QED
  BY <1>1, <1>2 DEF Copies

\* --apply is the only command that says so; its gate is the one of the first step.
LEMMA ApplyRuns ==
    ASSUME Tablet, Head(console).cmd = "apply"
    PROVE  Apply
BY DEF Tablet, Setup, PutBundle, Put, Audit, Copy, Prepare, Check, Token, Running, Now

LEMMA ApplyingStep ==
    ASSUME InstallerInv, [InstallerNext]_installer
    PROVE  Applying'
<1> SUFFICES ASSUME console' # <<>>, Head(console').cmd = "apply", Head(console').at > 0
             PROVE  ram'.bundle.files \in {"good", "other"} /\ ram'.bundle.files = ram'.bundle.seal
  BY DEF Applying
<1>t. ram \in Rams /\ Typed /\ Applying
  BY DEF InstallerInv, Typed, InstallerTypeOK, Rams
<1>1. /\ console # <<>> /\ Head(console).cmd = "apply" /\ ~Answered
      /\ Tablet \/ Head(console').at = Head(console).at
  BY FirstCommand
<1>2. CASE ~Tablet
  <2>1. ~Reboot
    BY DEF Reboot
  <2>2. BundleKept
    BY <1>2, <1>t, <2>1, RamTyped
  <2>3. QED
    BY <1>1, <1>2, <1>t, <2>2 DEF BundleKept, Applying
<1>3. CASE Tablet
  <2>1. Apply
    BY <1>1, <1>3, ApplyRuns
  <2>2. ~Answer(TRUE) /\ ~Answer(FALSE)
    <3>1. TRUE \in BOOLEAN /\ FALSE \in BOOLEAN
      OBVIOUS
    <3>2. QED
      BY <1>1, <3>1 DEF Answered
  <2>3. \/ SumsMatch /\ ram' = [ram EXCEPT !.started = TRUE, !.runtime = "whole"]
        \/ Now.at \in {1, 2} /\ ram' = ram
    BY <2>1, <2>2 DEF Apply, Refused, Gate
  <2>4. CASE SumsMatch /\ ram' = [ram EXCEPT !.started = TRUE, !.runtime = "whole"]
    <3>1. ram'.bundle = ram.bundle
      BY <1>t, <2>4 DEF Rams
    <3>2. QED
      BY <2>4, <3>1 DEF SumsMatch
  <2>5. CASE Now.at \in {1, 2} /\ ram' = ram
    BY <1>1, <1>t, <2>5 DEF Applying, Now
  <2>6. QED
    BY <2>3, <2>4, <2>5
<1>4. QED
  BY <1>2, <1>3

LEMMA VerifiedStep ==
    ASSUME InstallerInv, [InstallerNext]_installer
    PROVE  Verified'
<1>t. /\ host \in Hosts /\ console \in Seq(Orders) /\ ram \in Rams /\ root \in Roots /\ copied \in SealPair
      /\ Typed /\ QueueInv /\ Progress /\ Copies /\ Applying /\ Verified
  BY DEF InstallerInv, Typed, InstallerTypeOK, Rams, Roots, SealPair
<1>i. \A w \in HostWords : HostIdle(w).tool = "none" /\ HostIdle(w).says = w
  BY DEF HostIdle
<1>o. copied' = copied \/ Carried
  BY <1>t, OthersTyped
<1>r. copied = Refusal => copied' = Refusal
  BY <1>o DEF Carried, Refusal
<1> DEFINE over == \/ host.tool = "install" /\ host.left = <<>>
                   \/ host.says = "verified"
<1>k. over => console = <<>> /\ Truth /\ Truth'
  <2>1. over => console = <<>> /\ Truth
    <3>1. host.tool = "install" /\ host.left = <<>> => console = <<>>
      BY <1>t, FirstCommands DEF Progress, QueueInv
    <3>2. QED
      BY <1>t, <3>1 DEF Verified
  <2>2. console = <<>> => HoldsKept
    BY <1>t, RootTyped DEF Apply, Running
  <2>3. Truth /\ HoldsKept => Truth'
    BY <1>r DEF Truth, HoldsKept
  <2>4. QED
    BY <2>1, <2>2, <2>3
<1>s. ASSUME host' = host, console = <<>> => console' = <<>> PROVE Verified'
  BY <1>k, <1>s, <1>t DEF Verified
<1>n. ASSUME host'.tool = "none", host'.says # "verified" PROVE Verified'
  BY <1>n DEF Verified
<1> HIDE DEF over
<1>1. CASE Quiet \/ CutOff
  BY <1>1, <1>s DEF Quiet, CutOff
<1>2. CASE Abandoned
  <2>1. host'.tool = "none" /\ host'.says = "failed"
    BY <1>2, <1>i DEF Abandoned, HostWords
  <2>2. QED
    BY <1>n, <2>1
<1>3. CASE Idles
  <2>1. CASE host' \in {HostIdle("failed"), HostIdle("sealed"), HostIdle("done")}
    <3>1. host'.tool = "none" /\ host'.says \in {"failed", "sealed", "done"}
      BY <1>i, <2>1 DEF HostWords
    <3>2. QED
      BY <1>n, <3>1
  <2>2. CASE host' = HostIdle("verified") /\ host.tool = "install" /\ host.left = <<>>
    <3>1. host'.tool = "none" /\ console' = console
      BY <1>3, <1>i, <2>2 DEF Idles, HostWords
    <3>2. over
      BY <2>2 DEF over
    <3>3. QED
      BY <1>k, <3>1, <3>2 DEF Verified
  <2>3. QED
    BY <1>3, <2>1, <2>2 DEF Idles
<1>4. CASE Begins
  <2>1. host'.says # "verified"
    BY <1>4, <1>t DEF Begins, Verified
  <2>2. ~(host'.tool = "install" /\ host'.left = <<>>)
    BY <1>4, FirstCommands DEF Begins
  <2>3. QED
    BY <2>1, <2>2 DEF Verified
<1>5. CASE Sends
  <2>1. host' = [host EXCEPT !.waits = TRUE] /\ host.left # <<>> /\ host.tool # "none"
    BY <1>5 DEF Sends, Send, Free
  <2>2. host'.left = host.left /\ host'.says = host.says
    BY <1>t, <2>1 DEF Hosts
  <2>3. QED
    BY <1>t, <2>1, <2>2 DEF Verified
<1>6. CASE Tablet /\ Answered
  <2>1. PICK passed \in BOOLEAN : Answer(passed)
    BY <1>6 DEF Answered
  <2>2. console # <<>>
    BY <1>6 DEF Answered
  <2>3. host' = host \/ host' = HostIdle("failed") \/ Heard
    BY <1>t, <2>1, <2>2, AnswerShape
  <2>4. CASE host' = host
    BY <1>s, <2>2, <2>4
  <2>5. CASE host' = HostIdle("failed")
    <3>1. host'.tool = "none" /\ host'.says = "failed"
      BY <1>i, <2>5 DEF HostWords
    <3>2. QED
      BY <1>n, <3>1
  <2>6. CASE Heard
    <3>1. host'.says # "verified"
      BY <1>t, <2>2, <2>6 DEF Heard, Verified
    <3>2. ASSUME host'.tool = "install", host'.left = <<>> PROVE Truth'
      <4>1. /\ Head(console).mine /\ host.waits /\ host.left # <<>> /\ ~host'.waits
            /\ Head(console).cmd = Head(host.left) /\ host.tool = "install" /\ Tail(host.left) = <<>>
        BY <2>6, <3>2 DEF Heard
      <4>2. host.left \in InstallLeft
        BY <1>t, <4>1 DEF Progress
      <4>3. Head(console).cmd = "apply"
        BY <4>1, <4>2, InstallTail
      <4>4. Apply
        BY <1>6, <4>3, ApplyRuns
      <4>5. host' # host
        BY <4>1
      <4>6. ~Answer(FALSE)
        <5>1. HostIdle("failed").tool = "none"
          BY DEF HostIdle
        <5>2. QED
          BY <3>2, <4>1, <5>1 DEF Answer, Accepted, Now
      <4>7. Now.at = 3 /\ root' = [root EXCEPT !.holds = ram.bundle.files]
        BY <4>4, <4>5, <4>6 DEF Apply, Refused, Proceed
      <4>8. /\ root'.holds = ram.bundle.files /\ ram.bundle.files \in {"good", "other"}
            /\ ram.bundle.files = ram.bundle.seal
        BY <1>t, <2>2, <4>3, <4>7 DEF Applying, Now, Roots
      <4>9. ram.bundle.seal = "other" => copied' = Refusal
        BY <1>t, <1>r DEF Copies
      <4>10. QED
        BY <4>8, <4>9 DEF Truth
    <3>3. QED
      BY <3>1, <3>2 DEF Verified
  <2>7. QED
    BY <2>3, <2>4, <2>5, <2>6
<1>7. CASE Proceeds
  BY <1>7, <1>s DEF Proceeds
<1>8. QED
  BY <1>t, <1>1, <1>2, <1>3, <1>4, <1>5, <1>6, <1>7, HostShapes

LEMMA InstallerStarts == ASSUME InstallerInit PROVE InstallerInv
<1> USE DEF InstallerInit
<1>1. host \in Hosts /\ console \in Seq(Orders) /\ host.tool = "none" /\ host.left = <<>>
      /\ ~host.waits /\ host.says = "nothing"
  BY DEF HostIdle, Hosts, HostWords
<1>2. [files |-> "none", seal |-> "none"] \in Bundles
  BY DEF Bundles, BundleFiles
<1>3. ram \in Rams /\ ram.bundle.seal = "none"
  BY <1>2 DEF EmptyRam, Rams
<1>4. /\ work \in [files : {"good", "other"}, seal : BundleFiles] /\ root \in Roots
      /\ copied \in SealPair /\ work.seal = "none" /\ copied.files = "none" /\ copied.seal = "none"
  BY DEF Roots, SealPair, BundleFiles
<1>5. events \in [faults : 0..MaxLinkFaults, actions : 0..MaxActions]
  BY InstallerConstants
<1>6. /\ host.tool \in HostTools \cup {"none"} /\ host.left \in Seq(ConsoleCommands)
      /\ host.next \in Seq(HostTools) /\ host.waits \in BOOLEAN
      /\ host.says \in {"nothing", "failed", "sealed", "done", "verified"}
  BY <1>1 DEF Hosts, HostWords
<1>7. InstallerTypeOK
  BY <1>3, <1>4, <1>5, <1>6 DEF InstallerTypeOK, Rams, Roots, SealPair
<1>8. Typed
  BY <1>1, <1>7 DEF Typed
<1>9. QueueInv /\ Progress /\ Applying /\ Verified
  BY <1>1 DEF QueueInv, Progress, Applying, Verified
<1>10. Seals /\ Copies
  BY <1>1, <1>3, <1>4 DEF Seals, Copies
<1>11. QED
  BY <1>8, <1>9, <1>10 DEF InstallerInv

LEMMA InstallerKept == InstallerInv /\ [InstallerNext]_installer => InstallerInv'
<1> SUFFICES ASSUME InstallerInv, [InstallerNext]_installer PROVE InstallerInv'
  OBVIOUS
<1>1. Typed' /\ QueueInv' /\ Progress' /\ Seals'
  BY TypedStep, QueueStep, ProgressStep, SealsStep
<1>2. Copies' /\ Applying' /\ Verified'
  BY CopiesStep, ApplyingStep, VerifiedStep
<1>3. QED
  BY <1>1, <1>2 DEF InstallerInv

LEMMA InstallerSafe == InstallerInv => SaysTruth
  BY DEF InstallerInv, Verified, Truth, Refusal, SaysTruth

\* "Installation verified" is the truth about linuxroot, whatever was lost, interrupted,
\* repeated or changed on the way (install_staged_release.sh, the coordinator's window).
THEOREM VerifiedIsTrue == InstallerSpec => []SaysTruth
  BY InstallerStarts, InstallerKept, InstallerSafe, PTL DEF InstallerSpec

-----------------------------------------------------------------------------
(* The Bluetooth controller.                                               *)

Loaders == [pc : LoaderPCs, stage : Stages \cup {"none"}, seg : 0..Segments, unified : BOOLEAN,
            board : BOOLEAN, stopped : BOOLEAN, late : BOOLEAN]
Chips == [speed : {"rom", "fast"}, image : {"rom", "patch", "full", "hung"},
          nvm : {"none", "own", "generic"}]
Fixtures == [unified : BOOLEAN, quiet : BOOLEAN, own : BOOLEAN]

\* The types, and that a stage is named where the loader is in one.
Talking == loader.pc \in {"ask", "read", "trail"}
LineTyped ==
    /\ loader \in Loaders /\ chip \in Chips /\ fixed \in Fixtures /\ rail \in BOOLEAN
    /\ uart \in {"rom", "fast"} /\ rx \in Seq(Packets)
    /\ Talking <=> loader.stage # "none"
    /\ Talking => loader.seg > 0

\* power_on: the rail is cut and raised before the first command.
Powered ==
    /\ LoaderAt("rail_on") => ~rail /\ chip = RomChip
    /\ LoaderAt("open") => rail /\ chip = RomChip

\* What is skipped in a reading: nothing, since idle notices are only sent after the
\* speed change, whose reading takes them.
Skipless == Talking /\ ~InStage("read", "speed") => \A i \in 1..Len(rx) : rx[i] \notin Noise

\* A controller that hangs answers no more, the reset in particular.
Dead == /\ chip.image = "hung" /\ ~InStage("ask", "version") /\ ~InStage("trail", "reset")
        /\ \A i \in 1..Len(rx) : rx[i] \notin Noise \cup {"reset"}

\* The packets of an answer in the dialect of the controller.
Size == IF fixed.unified THEN 1 ELSE 2
Fast == rail /\ uart = "fast" /\ chip.speed = "fast" /\ chip.image # "hung"
        /\ loader.unified = fixed.unified
Slow == rail /\ uart = "rom" /\ chip = RomChip

\* Up to the speed change the receive buffer holds what has just been answered.
Greeting ==
    CASE loader.stage = "version" ->
            /\ Slow
            /\ LoaderAt("ask") => Len(rx) = 0
            /\ LoaderAt("read") => /\ Len(rx) = Size
                                   /\ rx[1] = IF fixed.unified THEN "version" ELSE "vendor"
            /\ LoaderAt("trail") => Len(rx) = 1 /\ ~fixed.unified /\ ~loader.unified
      [] loader.stage = "speed" ->
            /\ LoaderAt("ask") => Slow /\ loader.unified = fixed.unified /\ Len(rx) = 0
            /\ LoaderAt("read") =>
                  /\ Fast
                  /\ \/ rx[1] \in Noise /\ Len(rx) \in {1, 1 + Size}
                     \/ rx[1] \notin Noise /\ Len(rx) = Size
                  /\ \A i \in 2..Len(rx) : rx[i] \notin Noise \cup {"reset"}
            /\ LoaderAt("trail") => Fast /\ Len(rx) = 1 /\ ~fixed.unified
      [] OTHER -> FALSE

\* Afterwards it holds that, behind a surplus of n packets; the first n are old answers.
Downloads == {"patch", "board", "nvm", "reset"}
Surplus(n) ==
    /\ loader.stage \in Downloads /\ Fast
    /\ LoaderAt("ask") => Len(rx) = n
    /\ LoaderAt("read") => Len(rx) = n + (IF loader.stage \in {"board", "nvm"} THEN Size ELSE 1)
    /\ LoaderAt("trail") => /\ Len(rx) = n + 1 /\ ~fixed.unified
                            /\ loader.stage \in {"board", "nvm"}
    /\ \A i \in 1..Len(rx) : rx[i] = "reset" => InStage("read", "reset") /\ i > n

\* Without a surplus the board answers its own query, and the file is the right one.
RightFile == chip.nvm = IF fixed.own THEN "own" ELSE "generic"
OnTime ==
    /\ Surplus(0)
    /\ InStage("read", "board") => rx[1] = "board"
    /\ InStage("trail", "board") \/ loader.stage \in {"nvm", "reset"} => loader.board
    /\ InStage("read", "nvm") \/ InStage("trail", "nvm") => RightFile
    /\ (InStage("ask", "nvm") /\ loader.seg > 1) \/ loader.stage = "reset" => RightFile

Talks == Talking => Dead \/ Greeting \/ OnTime \/ Surplus(Size)
Settled == loader.pc \in {"settle"} \cup Attached => RightFile

LineInv == LineTyped /\ Powered /\ Skipless /\ Talks /\ Settled

LEMMA RomIsChip == RomChip \in Chips /\ RomChip.speed = "rom" /\ RomChip.image = "rom"
  BY DEF RomChip, Chips

LEMMA NoLoaderIsOne == NoLoader \in Loaders /\ NoLoader.pc = "gone" /\ NoLoader.stage = "none"
<1>1. 0 \in 0..Segments
  BY BluetoothConstants
<1>2. FALSE \in BOOLEAN /\ "none" \in Stages \cup {"none"} /\ "gone" \in LoaderPCs
  BY DEF LoaderPCs
<1>3. QED
  BY <1>1, <1>2 DEF NoLoader, Loaders

\* Moving the program counter keeps everything else.
LEMMA PcMoves ==
    ASSUME loader \in Loaders, NEW place \in LoaderPCs, LoaderGoto(place)
    PROVE  /\ loader' \in Loaders /\ loader'.pc = place /\ loader'.stage = loader.stage
           /\ loader'.seg = loader.seg /\ loader'.unified = loader.unified
           /\ loader'.board = loader.board
<1>1. loader' = [loader EXCEPT !.pc = place]
  BY DEF LoaderGoto
<1>2. QED
  BY <1>1 DEF Loaders

-----------------------------------------------------------------------------
(* The steps of the loader, by what they do to the line.                   *)

\* The loader is where it says nothing and promises nothing.
GoesQuiet == /\ loader' \in Loaders /\ loader'.pc \in {"gone", "rail_off"} /\ loader'.stage = "none"
             /\ rail' \in {rail, FALSE} /\ chip' \in {chip, RomChip} /\ rx' \in {rx, <<>>}
             /\ UNCHANGED <<fixed, uart>>

\* It stays attached, or becomes so.
Holds == /\ loader.pc \in {"settle"} \cup Attached /\ loader'.pc \in Attached
         /\ loader' \in Loaders /\ loader'.stage = "none" /\ UNCHANGED line

\* It has taken the first packet, the answer of stage s.
Takes == /\ rx # <<>> /\ rx' \in Seq(Packets) /\ Len(rx') = Len(rx) - 1
         /\ \A i \in 1..Len(rx') : rx'[i] = rx[i + 1]
         /\ UNCHANGED <<rail, chip, fixed, uart>>
Onward(s) ==
    \/ /\ s \in {"patch", "nvm"} /\ loader.seg < Segments
       /\ loader'.pc = "ask" /\ loader'.stage = s /\ loader'.seg = loader.seg + 1
    \/ /\ s # "reset" /\ loader'.pc = "ask" /\ loader'.stage = NextStage[s] /\ loader'.seg = 1
    \/ s = "reset" /\ loader'.pc = "settle" /\ loader'.stage = "none"

\* The first of two answers, or the only one; and the second.
TakesFirst(s) ==
    /\ InStage("read", s) /\ Takes /\ loader' \in Loaders /\ Accepts(s, rx[1])
    /\ IF Trails(s, rx[1])
       THEN loader'.pc = "trail" /\ loader'.stage = s /\ loader'.seg = loader.seg
       ELSE Onward(s)
    /\ loader'.unified = IF s = "version" THEN rx[1] = "version" ELSE loader.unified
    /\ loader'.board = IF s = "board" THEN rx[1] = "board" ELSE loader.board
TakesSecond(s) ==
    /\ InStage("trail", s) /\ Takes /\ loader' \in Loaders /\ Onward(s)
    /\ loader'.unified = loader.unified /\ loader'.board = loader.board

LEMMA FailIdles == LineTyped /\ Fail => GoesQuiet
  BY NoLoaderIsOne DEF Fail, GoesQuiet

\* SIGTERM kills the loader, sets its flag, or finds none.
LEMMA TerminatedIdles ==
    ASSUME LineTyped, loader' = Terminated, UNCHANGED line
    PROVE  GoesQuiet \/ Holds \/ loader' = loader
<1>1. CASE loader.pc \in Working \cup {"handlers"} /\ loader' = NoLoader
  BY <1>1, NoLoaderIsOne DEF GoesQuiet, line
<1>2. CASE loader.pc = "pause" /\ loader' = NoLoader
  BY <1>2, NoLoaderIsOne DEF GoesQuiet, line
<1>3. CASE loader.pc \in {"check", "tested"} /\ loader' = [loader EXCEPT !.stopped = TRUE]
  <2>1. TRUE \in BOOLEAN
    OBVIOUS
  <2>2. loader' \in Loaders /\ loader'.pc = loader.pc /\ loader'.stage = loader.stage
    BY <1>3, <2>1 DEF LineTyped, Loaders
  <2>3. loader.stage = "none"
    BY <1>3 DEF LineTyped, Talking
  <2>4. QED
    BY <1>3, <2>2, <2>3 DEF Holds, Attached
<1>4. CASE loader' = loader
  BY <1>4
<1>5. loader.pc \in LoaderPCs
  BY DEF LineTyped, Loaders
<1>6. QED
  BY <1>1, <1>2, <1>3, <1>4, <1>5 DEF Terminated, LoaderPCs, Working, Attached

LEMMA LaunchIdles == LineTyped /\ Launch => GoesQuiet
<1>1. SUFFICES ASSUME LineTyped, Launch
               PROVE  GoesQuiet
  OBVIOUS
<1>2. loader' = [NoLoader EXCEPT !.pc = "rail_off", !.late = BluetoothStopping]
  BY <1>1 DEF Launch
<1>3. BluetoothStopping \in BOOLEAN
  BY DEF BluetoothStopping
<1>4. "rail_off" \in LoaderPCs
  BY DEF LoaderPCs, Working
<1>5. loader' \in Loaders /\ loader'.pc = "rail_off" /\ loader'.stage = "none"
  <2>. HIDE DEF BluetoothStopping
  <2>1. QED
    BY <1>2, <1>3, <1>4, NoLoaderIsOne DEF Loaders
<1>6. QED
  BY <1>1, <1>5 DEF GoesQuiet, Launch, line

\* Nothing is ever skipped: the first packet is the first that can be read.
LEMMA FirstIsOne ==
    ASSUME rx \in Seq(Packets), NEW s, Readable(s) # {}, Readable(s) = 1..Len(rx)
    PROVE  FirstOf(s) = 1 /\ Len(rx) > 0 /\ rx # <<>>
<1>1. Len(rx) \in Nat /\ Len(rx) > 0
  BY LenProperties
<1>2. 1 \in Readable(s) /\ \A j \in Readable(s) : 1 <= j
  BY <1>1
<1>3. FirstOf(s) \in Readable(s) /\ \A j \in Readable(s) : FirstOf(s) <= j
  BY <1>2 DEF FirstOf
<1>4. FirstOf(s) <= 1 /\ FirstOf(s) \in 1..Len(rx)
  BY <1>2, <1>3
<1>5. QED
  BY <1>1, <1>4

LEMMA AllReadable ==
    ASSUME LineTyped, Skipless, Talking, NEW s, InStage("read", s) \/ (LoaderAt("trail") /\ s = "trail")
    PROVE  Readable(s) = 1..Len(rx)
<1>1. CASE s = "speed"
  BY <1>1 DEF Readable
<1>2. CASE s # "speed"
  <2>1. ~InStage("read", "speed")
    BY <1>2 DEF InStage, LoaderAt
  <2>2. QED
    BY <2>1 DEF Skipless, Readable
<1>3. QED
  BY <1>1, <1>2

\* Taking the first packet.
LEMMA TakenFirst ==
    ASSUME rx \in Seq(Packets), rx # <<>>, rx' = SubSeq(rx, 2, Len(rx))
    PROVE  /\ rx' \in Seq(Packets) /\ Len(rx') = Len(rx) - 1
           /\ \A i \in 1..Len(rx') : rx'[i] = rx[i + 1]
<1>1. rx' = Tail(rx)
  BY TailIsSubSeq
<1>2. QED
  BY <1>1, HeadTailProperties, LenProperties

\* What follows the answer of a stage.
LEMMA AfterMoves ==
    ASSUME LineTyped, Talking, NEW s \in Stages, loader.stage = s
    PROVE  LET after == After(s)
           IN /\ after \in Loaders /\ after.unified = loader.unified /\ after.board = loader.board
              /\ \/ /\ s \in {"patch", "nvm"} /\ loader.seg < Segments
                    /\ after.pc = "ask" /\ after.stage = s /\ after.seg = loader.seg + 1
                 \/ /\ s # "reset" /\ after.pc = "ask" /\ after.stage = NextStage[s] /\ after.seg = 1
                 \/ s = "reset" /\ after.pc = "settle" /\ after.stage = "none"
<1>1. loader \in Loaders /\ Segments \in Nat \ {0} /\ loader.seg \in 0..Segments /\ loader.seg \in Nat
  BY BluetoothConstants DEF LineTyped, Loaders
<1>2. "ask" \in LoaderPCs /\ "settle" \in LoaderPCs
  BY DEF LoaderPCs, Working
<1>3. CASE s \in {"patch", "nvm"} /\ loader.seg < Segments
  <2>1. After(s) = [loader EXCEPT !.pc = "ask", !.seg = loader.seg + 1]
    BY <1>3 DEF After
  <2>2. loader.seg + 1 \in 0..Segments
    BY <1>1, <1>3
  <2>3. QED
    BY <1>1, <1>2, <1>3, <2>1, <2>2 DEF Loaders
<1>4. CASE ~(s \in {"patch", "nvm"} /\ loader.seg < Segments) /\ s = "reset"
  <2>1. After(s) = [loader EXCEPT !.pc = "settle", !.stage = "none"]
    BY <1>4 DEF After
  <2>2. QED
    BY <1>1, <1>2, <1>4, <2>1 DEF Loaders
<1>5. CASE ~(s \in {"patch", "nvm"} /\ loader.seg < Segments) /\ s # "reset"
  <2>1. After(s) = [loader EXCEPT !.pc = "ask", !.stage = NextStage[s], !.seg = 1]
    BY <1>5 DEF After
  <2>2. NextStage[s] \in Stages
    BY <1>5 DEF NextStage, Stages
  <2>3. 1 \in 0..Segments
    BY <1>1
  <2>4. QED
    BY <1>1, <1>2, <1>5, <2>1, <2>2, <2>3 DEF Loaders
<1>6. QED
  BY <1>3, <1>4, <1>5

LEMMA TrailingShape ==
    ASSUME LineTyped, Skipless, NEW s \in Stages, ReadTrailing(s)
    PROVE  TakesSecond(s)
<1>1. InStage("trail", s) /\ Talking /\ loader.stage = s /\ LoaderAt("trail")
  BY DEF ReadTrailing, InStage, Talking, LoaderAt
<1>2. Readable("trail") # {} /\ Readable("trail") = 1..Len(rx)
  BY <1>1, AllReadable DEF ReadTrailing
<1>3. rx \in Seq(Packets)
  BY DEF LineTyped
<1>4. FirstOf("trail") = 1 /\ rx # <<>>
  BY <1>2, <1>3, FirstIsOne
<1>5. rx' = SubSeq(rx, 2, Len(rx))
  BY <1>4 DEF ReadTrailing
<1>6. /\ rx' \in Seq(Packets) /\ Len(rx') = Len(rx) - 1
      /\ \A i \in 1..Len(rx') : rx'[i] = rx[i + 1]
  BY <1>3, <1>4, <1>5, TakenFirst
<1>7. Takes
  BY <1>4, <1>6 DEF Takes, ReadTrailing
<1>8. loader' = After(s)
  BY DEF ReadTrailing
<1>9. /\ loader' \in Loaders /\ loader'.unified = loader.unified /\ loader'.board = loader.board
      /\ Onward(s)
  BY <1>1, <1>8, AfterMoves DEF Onward
<1>10. QED
  BY <1>1, <1>7, <1>9 DEF TakesSecond

LEMMA ReadingShape ==
    ASSUME LineTyped, Skipless, NEW s \in Stages, Read(s)
    PROVE  TakesFirst(s) \/ Fail
<1>1. InStage("read", s) /\ Talking /\ loader.stage = s
  BY DEF Read, InStage, Talking
<1>2. Readable(s) # {} /\ Readable(s) = 1..Len(rx)
  BY <1>1, AllReadable DEF Read
<1>3. rx \in Seq(Packets)
  BY DEF LineTyped
<1>4. FirstOf(s) = 1 /\ rx # <<>>
  BY <1>2, <1>3, FirstIsOne
<1>5. CASE ~Accepts(s, rx[1])
  BY <1>4, <1>5 DEF Read
<1>6. CASE Accepts(s, rx[1])
  <2>. DEFINE moved == IF Trails(s, rx[1]) THEN [loader EXCEPT !.pc = "trail"] ELSE After(s)
              u == IF s = "version" THEN rx[1] = "version" ELSE moved.unified
              b == IF s = "board" THEN rx[1] = "board" ELSE moved.board
  <2>1. /\ rx' = SubSeq(rx, 2, Len(rx)) /\ UNCHANGED <<rail, chip, fixed, uart>>
        /\ loader' = [moved EXCEPT !.unified = u, !.board = b]
    BY <1>4, <1>6 DEF Read
  <2>2. /\ rx' \in Seq(Packets) /\ Len(rx') = Len(rx) - 1
        /\ \A i \in 1..Len(rx') : rx'[i] = rx[i + 1]
    BY <1>3, <1>4, <2>1, TakenFirst
  <2>3. Takes
    BY <1>4, <2>1, <2>2 DEF Takes
  <2>4. moved \in Loaders /\ moved.unified = loader.unified /\ moved.board = loader.board
    <3>1. CASE Trails(s, rx[1])
      <4>1. "trail" \in LoaderPCs /\ loader \in Loaders
        BY DEF LoaderPCs, Working, LineTyped
      <4>2. moved = [loader EXCEPT !.pc = "trail"]
        BY <3>1
      <4>3. QED
        BY <4>1, <4>2 DEF Loaders
    <3>2. CASE ~Trails(s, rx[1])
      <4>1. moved = After(s)
        BY <3>2
      <4>2. QED
        BY <4>1, <1>1, AfterMoves
    <3>3. QED
      BY <3>1, <3>2
  <2>5. IF Trails(s, rx[1])
        THEN moved.pc = "trail" /\ moved.stage = s /\ moved.seg = loader.seg
        ELSE moved = After(s)
    <3>1. CASE Trails(s, rx[1])
      BY <1>1, <3>1 DEF LineTyped, Loaders
    <3>2. CASE ~Trails(s, rx[1])
      BY <3>2
    <3>3. QED
      BY <3>1, <3>2
  <2>6. (loader.unified \in BOOLEAN /\ loader.board \in BOOLEAN) /\ (u \in BOOLEAN /\ b \in BOOLEAN)
    BY <2>4 DEF LineTyped, Loaders
  <2>. HIDE DEF moved
  <2>7. u = (IF s = "version" THEN rx[1] = "version" ELSE loader.unified)
        /\ b = (IF s = "board" THEN rx[1] = "board" ELSE loader.board)
    BY <2>4
  <2>. HIDE DEF u, b
  <2>8. /\ loader' \in Loaders /\ loader'.pc = moved.pc /\ loader'.stage = moved.stage
        /\ loader'.seg = moved.seg /\ loader'.unified = u /\ loader'.board = b
    BY <2>1, <2>4, <2>6 DEF Loaders
  <2>9. CASE Trails(s, rx[1])
    BY <1>1, <1>6, <2>3, <2>5, <2>7, <2>8, <2>9 DEF TakesFirst
  <2>10. CASE ~Trails(s, rx[1])
    <3>1. Onward(s)
      BY <1>1, <2>5, <2>8, <2>10, AfterMoves DEF Onward
    <3>2. QED
      BY <1>1, <1>6, <2>3, <2>7, <2>8, <2>10, <3>1 DEF TakesFirst
  <2>11. QED
    BY <2>9, <2>10
<1>7. QED
  BY <1>5, <1>6

\* Every step, as the line sees it.
Moves == \/ UNCHANGED <<line, loader>>
         \/ GoesQuiet \/ Holds \/ RailOff \/ RailOn \/ OpenUart
         \/ \E s \in Stages : Ask(s) \/ TakesFirst(s) \/ TakesSecond(s)

LEMMA StepMoves == ASSUME LineTyped, Skipless, [BluetoothNext]_bluetooth PROVE Moves
<1>1. CASE LoaderStep
  <2>1. CASE RailOff \/ RailOn \/ OpenUart
    BY <2>1 DEF Moves
  <2>2. CASE NoDevice \/ ReadTimeout \/ AttachFails
    BY <2>2, FailIdles DEF Moves, NoDevice, ReadTimeout, AttachFails
  <2>2a. CASE NoRfkill
    BY <2>2a, NoLoaderIsOne DEF Moves, NoRfkill, GoesQuiet, line
  <2>3. CASE \E s \in Stages : Ask(s) \/ Read(s) \/ ReadTrailing(s)
    <3>1. PICK s \in Stages : Ask(s) \/ Read(s) \/ ReadTrailing(s)
      BY <2>3
    <3>2. CASE Ask(s)
      BY <3>2 DEF Moves
    <3>3. CASE Read(s)
      BY <3>3, ReadingShape, FailIdles DEF Moves
    <3>4. CASE ReadTrailing(s)
      BY <3>4, TrailingShape DEF Moves
    <3>5. QED
      BY <3>1, <3>2, <3>3, <3>4
  <2>4. CASE Attach \/ LoaderHandlers \/ Pause \/ CheckStop
    <3>1. UNCHANGED line
      BY <2>4 DEF Attach, LoaderHandlers, Pause, CheckStop
    <3>2. loader.pc \in {"settle"} \cup Attached /\ loader.stage = "none" /\ loader \in Loaders
      BY <2>4 DEF Attach, LoaderHandlers, Pause, CheckStop, LoaderAt, Attached, LineTyped, Talking
    <3>3. CASE loader' = NoLoader
      BY <3>1, <3>3, NoLoaderIsOne DEF GoesQuiet, Moves, line
    <3>4. CASE \E place \in Attached : LoaderGoto(place)
      <4>1. PICK place \in Attached : LoaderGoto(place)
        BY <3>4
      <4>2. place \in LoaderPCs
        BY DEF LoaderPCs
      <4>3. loader' \in Loaders /\ loader'.pc = place /\ loader'.stage = loader.stage
        BY <3>2, <4>1, <4>2, PcMoves
      <4>4. QED
        BY <3>1, <3>2, <4>3 DEF Holds, Moves
    <3>5. QED
      BY <2>4, <3>3, <3>4 DEF Attach, LoaderHandlers, Pause, CheckStop, Attached
  <2>5. QED
    BY <1>1, <2>1, <2>2, <2>2a, <2>3, <2>4 DEF LoaderStep
<1>2. CASE LauncherStep \/ AwaitTimeout \/ WatchEnds \/ LauncherKilled
  <2>1. CASE Launch
    BY <2>1, LaunchIdles DEF Moves
  <2>2. CASE Reuse \/ Await \/ Reaped \/ CleanedUp \/ LauncherKilled
    BY <2>2 DEF Reuse, Await, Reaped, CleanedUp, LauncherKilled, Moves, line
  <2>3. CASE BringUp \/ WatchEnds \/ AwaitTimeout
    <3>1. UNCHANGED line /\ (loader' = Terminated \/ UNCHANGED loader)
      BY <2>3 DEF BringUp, WatchEnds, AwaitTimeout, SignalOwn
    <3>2. QED
      BY <3>1, TerminatedIdles DEF Moves
  <2>4. QED
    BY <1>2, <2>1, <2>2, <2>3 DEF LauncherStep
<1>3. CASE Supervise \/ BeginBluetoothSweep \/ UNCHANGED bluetooth
  BY <1>3 DEF Supervise, BeginBluetoothSweep, Moves, bluetooth
<1>4. CASE SweepBluetooth
  <2>1. PICK p \in {"loader", "launcher", "supervisor"} : SignalBluetooth(p)
    BY <1>4 DEF SweepBluetooth
  <2>2. UNCHANGED line
    BY <2>1 DEF SignalBluetooth
  <2>3. LauncherTermed => loader' = Terminated \/ UNCHANGED loader
    BY DEF LauncherTermed, SignalOwn
  <2>4. loader' = Terminated \/ UNCHANGED loader
    <3>1. CASE p = "loader"
      BY <2>1, <3>1 DEF SignalBluetooth
    <3>2. CASE p = "launcher"
      BY <2>1, <2>3, <3>2 DEF SignalBluetooth
    <3>3. CASE p = "supervisor"
      BY <2>1, <2>3, <3>3 DEF SignalBluetooth
    <3>4. QED
      BY <3>1, <3>2, <3>3
  <2>5. QED
    BY <2>2, <2>4, TerminatedIdles DEF Moves
<1>5. QED
  BY <1>1, <1>2, <1>3, <1>4 DEF BluetoothNext

-----------------------------------------------------------------------------
(* What the controller answers.                                            *)

IsOne(a, p) == a \in Seq(Packets) /\ Len(a) = 1 /\ a[1] = p
IsTwo(a, p, q) == a \in Seq(Packets) /\ Len(a) = 2 /\ a[1] = p /\ a[2] = q

LEMMA OnePacket == ASSUME NEW p \in Packets PROVE IsOne(<<p>>, p)
  BY DEF IsOne

LEMMA TwoPackets == ASSUME NEW p \in Packets, NEW q \in Packets PROVE IsTwo(<<p, q>>, p, q)
  BY DEF IsTwo

LEMMA InDialect ==
    ASSUME NEW p \in Packets
    PROVE  IF fixed.unified THEN IsOne(Dialect(p), p) ELSE IsTwo(Dialect(p), p, "complete")
<1>1. "complete" \in Packets
  BY DEF Packets
<1>2. QED
  BY <1>1, OnePacket, TwoPackets DEF Dialect

LEMMA AnswerFacts ==
    ASSUME fixed \in Fixtures, NEW s \in Stages, NEW a \in Answers(s)
    PROVE  /\ a \in Seq(Packets)
           /\ s # "speed" => \A i \in 1..Len(a) : a[i] \notin Noise
           /\ s # "reset" => \A i \in 1..Len(a) : a[i] # "reset"
           /\ s = "version" => /\ Len(a) = Size
                               /\ a[1] = IF fixed.unified THEN "version" ELSE "vendor"
           /\ s = "speed" =>
                 /\ \/ a[1] \in Noise /\ Len(a) \in {1, 1 + Size}
                    \/ a[1] \notin Noise /\ Len(a) = Size
                 /\ \A i \in 2..Len(a) : a[i] \notin Noise \cup {"reset"}
           /\ s = "patch" => Len(a) = IF fixed.quiet /\ loader.seg < Segments THEN 0 ELSE 1
           /\ s \in {"board", "nvm"} => Len(a) = Size
           /\ s = "board" => a[1] = "board"
           /\ s = "reset" => Len(a) = 1
<1>1. \A i \in 1..1 : i = 1
  OBVIOUS
<1>2. \A i \in 1..2 : i = 1 \/ i = 2
  OBVIOUS
<1>3. (\A i \in 2..1 : FALSE) /\ (\A i \in 2..2 : i = 2)
  OBVIOUS
<1>4. /\ "version" \in Packets /\ "vendor" \in Packets /\ "complete" \in Packets
      /\ "speed" \in Packets /\ "segment" \in Packets /\ "board" \in Packets
      /\ "reset" \in Packets /\ "wake_ack" \in Packets /\ "sleep" \in Packets
  BY DEF Packets, Noise
<1>5. CASE s = "version"
  <2>1. IF fixed.unified THEN IsOne(a, "version") ELSE IsTwo(a, "vendor", "complete")
    <3>1. a = IF fixed.unified THEN <<"version">> ELSE <<"vendor", "complete">>
      BY <1>5 DEF Answers
    <3>2. QED
      BY <1>4, <3>1, OnePacket, TwoPackets
  <2>2. QED
    BY <1>1, <1>2, <1>5, <2>1 DEF Size, Noise, IsOne, IsTwo
<1>6. CASE s = "speed"
  <2>. DEFINE d == Dialect("speed")
  <2>1. a \in {d, <<"wake_ack">>, <<"sleep">>, <<"sleep">> \o d}
    BY <1>6 DEF Answers
  <2>2. IF fixed.unified THEN IsOne(d, "speed") ELSE IsTwo(d, "speed", "complete")
    BY <1>4, InDialect
  <2>. HIDE DEF d
  <2>3. /\ d \in Seq(Packets) /\ Len(d) = Size /\ d[1] = "speed"
        /\ \A i \in 1..Len(d) : d[i] \notin Noise \cup {"reset"}
    BY <1>1, <1>2, <2>2 DEF Size, Noise, IsOne, IsTwo
  <2>4. CASE a = d
    BY <1>6, <2>3, <2>4, LenProperties DEF Noise
  <2>5. CASE a = <<"wake_ack">> \/ a = <<"sleep">>
    <3>1. IsOne(a, "wake_ack") \/ IsOne(a, "sleep")
      BY <1>4, <2>5, OnePacket
    <3>2. QED
      BY <1>1, <1>3, <1>6, <3>1 DEF Noise, IsOne
  <2>6. CASE a = <<"sleep">> \o d
    <3>1. IsOne(<<"sleep">>, "sleep")
      BY <1>4, OnePacket
    <3>. DEFINE c == <<"sleep">>
    <3>2. c \in Seq(Packets) /\ Len(c) = 1 /\ c[1] = "sleep" /\ a = c \o d
      BY <2>6, <3>1 DEF IsOne
    <3>. HIDE DEF c
    <3>3. /\ a \in Seq(Packets) /\ Len(a) = Len(c) + Len(d)
          /\ \A i \in 1..Len(c) + Len(d) : a[i] = IF i <= Len(c) THEN c[i] ELSE d[i - Len(c)]
      <4>1. c \in Seq(Packets) /\ d \in Seq(Packets)
        BY <2>3, <3>2
      <4>2. /\ c \o d \in Seq(Packets) /\ Len(c \o d) = Len(c) + Len(d)
            /\ \A i \in 1..Len(c) + Len(d) :
                  (c \o d)[i] = IF i <= Len(c) THEN c[i] ELSE d[i - Len(c)]
        BY ONLY <4>1, ConcatProperties
      <4>3. QED
        BY ONLY <4>2, <3>2
    <3>4. Len(d) \in Nat
      BY <2>3, LenProperties
    <3>5. a[1] = "sleep"
      BY <3>2, <3>3, <3>4
    <3>6. \A i \in 2..Len(a) : i - 1 \in 1..Len(d) /\ a[i] = d[i - 1]
      BY <3>2, <3>3, <3>4
    <3>7. \A i \in 2..Len(a) : a[i] \notin Noise \cup {"reset"}
      BY <2>3, <3>6
    <3>8. \A i \in 1..Len(a) : i = 1 \/ i \in 2..Len(a)
      BY <3>2, <3>3, <3>4
    <3>9. \A i \in 1..Len(a) : a[i] # "reset"
      BY <3>5, <3>7, <3>8
    <3>10. Len(a) = 1 + Size /\ a[1] \in Noise
      BY <2>3, <3>2, <3>3, <3>5 DEF Noise
    <3>11. QED
      BY <1>6, <3>3, <3>7, <3>9, <3>10
  <2>7. QED
    BY <2>1, <2>4, <2>5, <2>6
<1>7. CASE s = "patch"
  <2>1. a = IF fixed.quiet /\ loader.seg < Segments THEN <<>> ELSE <<"segment">>
    BY <1>7 DEF Answers
  <2>2. CASE fixed.quiet /\ loader.seg < Segments
    <3>1. a \in Seq(Packets) /\ Len(a) = 0 /\ \A i \in 1..Len(a) : FALSE
      BY <2>1, <2>2
    <3>2. QED
      BY <1>7, <2>2, <3>1
  <2>3. CASE ~(fixed.quiet /\ loader.seg < Segments)
    <3>1. IsOne(a, "segment")
      BY <1>4, <2>1, <2>3, OnePacket
    <3>2. QED
      BY <1>1, <1>7, <2>3, <3>1 DEF Noise, IsOne
  <2>4. QED
    BY <2>2, <2>3
<1>8. CASE s \in {"board", "nvm"}
  <2>1. s = "board" => IF fixed.unified THEN IsOne(a, "board") ELSE IsTwo(a, "board", "complete")
    <3>1. s = "board" => a = Dialect("board")
      BY <1>8 DEF Answers
    <3>2. QED
      BY <1>4, <3>1, InDialect
  <2>2. s = "nvm" => IF fixed.unified THEN IsOne(a, "segment") ELSE IsTwo(a, "segment", "complete")
    <3>1. s = "nvm" => a = Dialect("segment")
      BY <1>8 DEF Answers
    <3>2. QED
      BY <1>4, <3>1, InDialect
  <2>3. QED
    BY <1>1, <1>2, <1>8, <2>1, <2>2 DEF Size, Noise, IsOne, IsTwo
<1>9. CASE s = "reset"
  <2>1. IsOne(a, "reset")
    <3>1. a = <<"reset">>
      BY <1>9 DEF Answers
    <3>2. QED
      BY <1>4, <3>1, OnePacket
  <2>2. QED
    BY <1>1, <1>9, <2>1 DEF Noise, IsOne
<1>10. QED
  BY <1>5, <1>6, <1>7, <1>8, <1>9 DEF Stages

-----------------------------------------------------------------------------
(* A command goes out.                                                     *)

Unanswered(s) == s = "patch" /\ fixed.quiet /\ loader.seg < Segments

\* The loader then reads, except within a quiet download.
Asked(s) ==
    /\ InStage("ask", s) /\ loader' \in Loaders /\ loader'.stage = s
    /\ loader'.unified = loader.unified /\ loader'.board = loader.board
    /\ IF Unanswered(s) THEN loader'.pc = "ask" /\ loader'.seg = loader.seg + 1
                    ELSE loader'.pc = "read" /\ loader'.seg = loader.seg
    /\ UNCHANGED <<rail, fixed>> /\ uart' = IF s = "speed" THEN "fast" ELSE uart

\* The answer a arrives behind what the receive buffer holds.
Arrives(a) ==
    /\ a \in Seq(Packets) /\ Len(a) \in Nat /\ rx' \in Seq(Packets) /\ Len(rx') = Len(rx) + Len(a)
    /\ \A i \in 1..Len(rx') : IF i <= Len(rx) THEN rx'[i] = rx[i]
                              ELSE i - Len(rx) \in 1..Len(a) /\ rx'[i] = a[i - Len(rx)]

Obeyed(s) == chip' = Obeys(s) /\ \E a \in Answers(s) : Arrives(a)
Hangs == chip' = [chip EXCEPT !.image = "hung"] /\ UNCHANGED rx

LEMMA AskShape ==
    ASSUME LineTyped, NEW s \in Stages, Ask(s)
    PROVE  /\ Asked(s)
           /\ \/ Hears /\ (Obeyed(s) \/ Hangs)
              \/ ~Hears /\ UNCHANGED <<rx, chip>>
<1>1. loader \in Loaders /\ InStage("ask", s) /\ loader.stage = s
  BY DEF LineTyped, Ask, InStage
<1>2. Asked(s)
  <2>. DEFINE place == IF Unanswered(s) THEN loader.pc ELSE "read"
              seg == IF Unanswered(s) THEN loader.seg + 1 ELSE loader.seg
  <2>1. loader' = [loader EXCEPT !.pc = place, !.seg = seg]
    BY DEF Ask, Unanswered
  <2>2. place \in LoaderPCs
    BY <1>1 DEF Loaders, LoaderPCs, Working
  <2>3. seg \in 0..Segments
    BY <1>1, BluetoothConstants DEF Loaders, Unanswered
  <2>4. UNCHANGED <<rail, fixed>> /\ uart' = IF s = "speed" THEN "fast" ELSE uart
    BY DEF Ask
  <2>5. IF Unanswered(s) THEN place = "ask" /\ seg = loader.seg + 1
                     ELSE place = "read" /\ seg = loader.seg
    BY <1>1 DEF InStage
  <2>. HIDE DEF place, seg
  <2>6. /\ loader' \in Loaders /\ loader'.pc = place /\ loader'.seg = seg
        /\ loader'.stage = loader.stage /\ loader'.unified = loader.unified
        /\ loader'.board = loader.board
    BY <1>1, <2>1, <2>2, <2>3 DEF Loaders
  <2>7. QED
    BY <1>1, <2>4, <2>5, <2>6 DEF Asked
<1>3. ASSUME NEW a \in Answers(s), rx' = rx \o a
      PROVE  Arrives(a)
  <2>1. a \in Seq(Packets) /\ rx \in Seq(Packets)
    BY AnswerFacts DEF LineTyped, Fixtures
  <2>2. Len(a) \in Nat /\ Len(rx) \in Nat
    BY <2>1, LenProperties
  <2>3. /\ rx' \in Seq(Packets) /\ Len(rx') = Len(rx) + Len(a)
        /\ \A i \in 1..Len(rx) + Len(a) : rx'[i] = IF i <= Len(rx) THEN rx[i] ELSE a[i - Len(rx)]
    BY <1>3, <2>1, ConcatProperties
  <2>4. QED
    BY <2>1, <2>2, <2>3 DEF Arrives
<1>4. \/ Hears /\ (Obeyed(s) \/ Hangs)
      \/ ~Hears /\ UNCHANGED <<rx, chip>>
  <2>1. CASE Hears /\ (\E a \in Answers(s) : rx' = rx \o a) /\ chip' = Obeys(s)
    BY <1>3, <2>1 DEF Obeyed
  <2>2. CASE Hears /\ chip' = [chip EXCEPT !.image = "hung"] /\ UNCHANGED rx
    BY <2>2 DEF Hangs
  <2>3. CASE ~Hears /\ UNCHANGED <<rx, chip>>
    BY <2>3
  <2>4. QED
    BY <2>1, <2>2, <2>3 DEF Ask
<1>5. QED
  BY <1>2, <1>4

\* What a command does to the controller.
LEMMA ObeyFacts ==
    ASSUME chip \in Chips, NEW s \in Stages, chip' = Obeys(s)
    PROVE  /\ chip' \in Chips
           /\ s = "version" => chip' = chip
           /\ chip'.speed = IF s = "speed" THEN "fast" ELSE chip.speed
           /\ s # "speed" /\ chip.image # "hung" => chip'.image # "hung"
           /\ s = "speed" => chip'.image = chip.image
           /\ chip'.nvm = IF s = "nvm" THEN (IF loader.board /\ fixed.own THEN "own" ELSE "generic")
                                       ELSE chip.nvm
<1>1. CASE s = "speed"
  <2>1. chip' = [chip EXCEPT !.speed = "fast"]
    BY <1>1 DEF Obeys
  <2>2. QED
    BY <1>1, <2>1 DEF Chips
<1>2. CASE s = "patch"
  <2>1. chip' = [chip EXCEPT !.image = "patch"]
    BY <1>2 DEF Obeys
  <2>2. QED
    BY <1>2, <2>1 DEF Chips
<1>3. CASE s = "nvm"
  <2>. DEFINE kind == IF loader.board /\ fixed.own THEN "own" ELSE "generic"
  <2>1. chip' = [chip EXCEPT !.image = "full", !.nvm = kind]
    BY <1>3 DEF Obeys
  <2>2. kind \in {"own", "generic"}
    OBVIOUS
  <2>. HIDE DEF kind
  <2>3. chip' \in Chips /\ chip'.speed = chip.speed /\ chip'.image = "full" /\ chip'.nvm = kind
    BY <2>1, <2>2 DEF Chips
  <2>4. QED
    BY <1>3, <2>3 DEF kind
<1>4. CASE s \in {"version", "board", "reset"}
  BY <1>4 DEF Obeys
<1>5. QED
  BY <1>1, <1>2, <1>3, <1>4 DEF Stages

LEMMA HangFacts ==
    ASSUME chip \in Chips, Hangs
    PROVE  chip' \in Chips /\ chip'.image = "hung" /\ chip'.nvm = chip.nvm
  BY DEF Hangs, Chips

-----------------------------------------------------------------------------
(* Each part of the invariant.                                             *)

LEMMA LineTypedStep == ASSUME LineTyped, Moves PROVE LineTyped'
<1>1. /\ loader \in Loaders /\ chip \in Chips /\ fixed \in Fixtures /\ rail \in BOOLEAN
      /\ uart \in {"rom", "fast"} /\ rx \in Seq(Packets)
  BY DEF LineTyped
<1>2. <<>> \in Seq(Packets) /\ FALSE \in BOOLEAN /\ TRUE \in BOOLEAN
  OBVIOUS
<1>3. CASE UNCHANGED <<line, loader>>
  BY <1>3 DEF line, LineTyped, Talking
<1>4. CASE GoesQuiet
  <2>1. chip' \in Chips /\ rx' \in Seq(Packets)
    BY <1>1, <1>2, <1>4, RomIsChip DEF GoesQuiet
  <2>2. rail' \in BOOLEAN
    BY <1>1, <1>2, <1>4 DEF GoesQuiet
  <2>3. loader' \in Loaders /\ ~Talking' /\ loader'.stage = "none" /\ uart' = uart /\ fixed' = fixed
    BY <1>4 DEF GoesQuiet, Talking
  <2>4. QED
    BY <1>1, <2>1, <2>2, <2>3 DEF LineTyped
<1>5. CASE Holds
  BY <1>1, <1>5 DEF Holds, line, LineTyped, Talking, Attached
<1>6. CASE RailOff \/ RailOn
  <2>1. "rail_on" \in LoaderPCs /\ "open" \in LoaderPCs
    BY DEF LoaderPCs, Working
  <2>2. /\ LoaderGoto("rail_on") \/ LoaderGoto("open")
        /\ loader.pc \in {"rail_off", "rail_on"}
    BY <1>6 DEF RailOff, RailOn, LoaderAt
  <2>3. /\ loader' \in Loaders /\ loader'.pc \in {"rail_on", "open"}
        /\ loader'.stage = loader.stage
    BY <1>1, <2>1, <2>2, PcMoves
  <2>4. loader'.stage = "none" /\ ~Talking'
    BY <2>2, <2>3 DEF LineTyped, Talking
  <2>5. chip' \in Chips /\ UNCHANGED <<fixed, uart, rx>> /\ rail' \in {TRUE, FALSE}
    BY <1>1, <1>6, RomIsChip DEF RailOff, RailOn
  <2>6. rail' \in BOOLEAN
    BY <2>5
  <2>7. QED
    BY <1>1, <2>3, <2>4, <2>5, <2>6 DEF LineTyped
<1>7. CASE OpenUart
  <2>1. loader' = [loader EXCEPT !.pc = "ask", !.stage = "version", !.seg = 1]
    BY <1>7 DEF OpenUart
  <2>2. "ask" \in LoaderPCs /\ "version" \in Stages /\ 1 \in 0..Segments
    BY BluetoothConstants DEF LoaderPCs, Working, Stages
  <2>3. loader' \in Loaders /\ loader'.pc = "ask" /\ loader'.stage = "version" /\ loader'.seg = 1
    BY <1>1, <2>1, <2>2 DEF Loaders
  <2>4. QED
    BY <1>1, <1>2, <1>7, <2>3 DEF LineTyped, Talking, OpenUart
<1>8. CASE \E s \in Stages : Ask(s)
  <2>1. PICK s \in Stages : Ask(s)
    BY <1>8
  <2>2. Asked(s) /\ (Obeyed(s) \/ Hangs \/ UNCHANGED <<rx, chip>>)
    BY <2>1, AskShape
  <2>3. chip' \in Chips /\ rx' \in Seq(Packets)
    BY <1>1, <2>2, ObeyFacts, HangFacts DEF Obeyed, Hangs, Arrives
  <2>4. loader' \in Loaders /\ Talking' /\ loader'.stage # "none" /\ loader'.seg > 0
    <3>1. loader.seg > 0 /\ loader.seg \in 0..Segments
      BY <1>1, <2>2 DEF LineTyped, Talking, Asked, InStage, Loaders
    <3>2. QED
      BY <2>2, <3>1, BluetoothConstants DEF Asked, Talking, Stages
  <2>5. rail' \in BOOLEAN /\ fixed' \in Fixtures /\ uart' \in {"rom", "fast"}
    BY <1>1, <2>2 DEF Asked
  <2>6. QED
    BY <2>3, <2>4, <2>5 DEF LineTyped
<1>9. CASE \E s \in Stages : TakesFirst(s) \/ TakesSecond(s)
  <2>1. PICK s \in Stages : TakesFirst(s) \/ TakesSecond(s)
    BY <1>9
  <2>2. loader' \in Loaders /\ rx' \in Seq(Packets) /\ UNCHANGED <<rail, chip, fixed, uart>>
    BY <2>1 DEF TakesFirst, TakesSecond, Takes
  <2>3. loader.seg > 0 /\ loader.seg \in 0..Segments
    BY <1>1, <2>1 DEF LineTyped, Talking, TakesFirst, TakesSecond, InStage, Loaders
  <2>4. \A t \in Stages : t # "reset" => NextStage[t] \in Stages
    BY DEF NextStage, Stages
  <2>5. Onward(s) => (Talking' <=> loader'.stage # "none") /\ (Talking' => loader'.seg > 0)
    BY <2>3, <2>4, BluetoothConstants DEF Onward, Talking, Stages
  <2>6. (Talking' <=> loader'.stage # "none") /\ (Talking' => loader'.seg > 0)
    BY <2>1, <2>3, <2>5 DEF TakesFirst, TakesSecond, Talking, Stages
  <2>7. QED
    BY <1>1, <2>2, <2>6 DEF LineTyped
<1>10. QED
  BY <1>3, <1>4, <1>5, <1>6, <1>7, <1>8, <1>9 DEF Moves

LEMMA PoweredStep == ASSUME LineTyped, Powered, Moves PROVE Powered'
<1>1. loader \in Loaders
  BY DEF LineTyped
<1>2. CASE UNCHANGED <<line, loader>>
  BY <1>2 DEF line, Powered, LoaderAt
<1>3. CASE GoesQuiet \/ Holds
  BY <1>3 DEF GoesQuiet, Holds, Powered, LoaderAt, Attached
<1>4. CASE RailOff
  <2>1. "rail_on" \in LoaderPCs
    BY DEF LoaderPCs, Working
  <2>2. loader'.pc = "rail_on"
    BY <1>1, <1>4, <2>1, PcMoves DEF RailOff
  <2>3. QED
    BY <1>4, <2>2 DEF RailOff, Powered, LoaderAt
<1>5. CASE RailOn
  <2>1. "open" \in LoaderPCs
    BY DEF LoaderPCs, Working
  <2>2. loader'.pc = "open"
    BY <1>1, <1>5, <2>1, PcMoves DEF RailOn
  <2>3. QED
    BY <1>5, <2>2 DEF RailOn, Powered, LoaderAt
<1>6. CASE OpenUart
  <2>1. loader'.pc = "ask"
    BY <1>1, <1>6 DEF OpenUart, Loaders
  <2>2. QED
    BY <2>1 DEF Powered, LoaderAt
<1>7. CASE \E s \in Stages : Ask(s) \/ TakesFirst(s) \/ TakesSecond(s)
  <2>1. loader'.pc \in {"ask", "read", "trail", "settle"}
    BY <1>7, AskShape DEF Asked, TakesFirst, TakesSecond, Onward
  <2>2. QED
    BY <2>1 DEF Powered, LoaderAt
<1>8. QED
  BY <1>2, <1>3, <1>4, <1>5, <1>6, <1>7 DEF Moves

\* Most steps say nothing.
LEMMA Silent ==
    ASSUME LineTyped, GoesQuiet \/ Holds \/ RailOff \/ RailOn
    PROVE  ~Talking' /\ ~LoaderAt("settle")'
<1>1. CASE GoesQuiet \/ Holds
  BY <1>1 DEF GoesQuiet, Holds, Talking, LoaderAt, Attached
<1>2. CASE RailOff \/ RailOn
  <2>1. "rail_on" \in LoaderPCs /\ "open" \in LoaderPCs /\ loader \in Loaders
    BY DEF LoaderPCs, Working, LineTyped
  <2>2. loader'.pc \in {"rail_on", "open"}
    BY <1>2, <2>1, PcMoves DEF RailOff, RailOn
  <2>3. QED
    BY <2>2 DEF Talking, LoaderAt
<1>3. QED
  BY <1>1, <1>2

\* The UART is opened on a controller whose rail has just been raised.
LEMMA Opens ==
    ASSUME LineTyped, Powered, OpenUart
    PROVE  /\ InStage("ask", "version")' /\ Slow' /\ rx' = <<>> /\ Len(rx') = 0
<1>1. loader'.pc = "ask" /\ loader'.stage = "version"
  BY DEF OpenUart, LineTyped, Loaders
<1>2. rail /\ chip = RomChip
  BY DEF OpenUart, Powered
<1>3. rx' = <<>> /\ Len(rx') = 0
  BY DEF OpenUart
<1>4. QED
  BY <1>1, <1>2, <1>3 DEF OpenUart, Slow, InStage

LEMMA SkiplessStep == ASSUME LineTyped, Powered, Skipless, Talks, Moves PROVE Skipless'
<1>1. CASE UNCHANGED <<line, loader>>
  BY <1>1 DEF line, Skipless, Talking, InStage
<1>2. CASE GoesQuiet \/ Holds \/ RailOff \/ RailOn
  BY <1>2, Silent DEF Skipless
<1>3. CASE OpenUart
  <2>1. \A i \in 1..Len(rx') : FALSE
    BY <1>3, Opens
  <2>2. QED
    BY <2>1 DEF Skipless
<1>4. CASE \E s \in Stages : Ask(s)
  <2>1. PICK s \in Stages : Ask(s)
    BY <1>4
  <2>2. Asked(s) /\ (Obeyed(s) \/ UNCHANGED rx)
    BY <2>1, AskShape DEF Hangs
  <2>3. Talking /\ ~InStage("read", "speed")
    BY <2>2 DEF Asked, InStage, Talking
  <2>4. \A i \in 1..Len(rx) : rx[i] \notin Noise
    BY <2>3 DEF Skipless
  <2>5. CASE s = "speed"
    <3>1. InStage("read", "speed")'
      BY <2>2, <2>5 DEF Asked, InStage, Unanswered
    <3>2. QED
      BY <3>1 DEF Skipless
  <2>6. CASE s # "speed" /\ UNCHANGED rx
    BY <2>4, <2>6 DEF Skipless
  <2>7. CASE s # "speed" /\ Obeyed(s)
    <3>1. PICK a \in Answers(s) : Arrives(a)
      BY <2>7 DEF Obeyed
    <3>2. \A i \in 1..Len(a) : a[i] \notin Noise
      BY <2>7, AnswerFacts DEF LineTyped
    <3>3. Len(rx) \in Nat
      BY LenProperties DEF LineTyped
    <3>4. \A i \in 1..Len(rx') : i <= Len(rx) => i \in 1..Len(rx)
      BY <3>3
    <3>5. \A i \in 1..Len(rx') : rx'[i] \notin Noise
      BY <2>4, <3>1, <3>2, <3>4 DEF Arrives
    <3>6. QED
      BY <3>5 DEF Skipless
  <2>8. QED
    BY <2>2, <2>5, <2>6, <2>7
<1>5. CASE \E s \in Stages : TakesFirst(s) \/ TakesSecond(s)
  <2>1. PICK s \in Stages : TakesFirst(s) \/ TakesSecond(s)
    BY <1>5
  <2>2. Takes /\ Talking /\ loader.stage = s /\ loader.pc \in {"read", "trail"}
    BY <2>1 DEF TakesFirst, TakesSecond, InStage, Talking
  <2>3. Len(rx) \in Nat
    BY LenProperties DEF LineTyped
  <2>4. \A i \in 2..Len(rx) : rx[i] \notin Noise
    <3>1. CASE InStage("read", "speed")
      <4>1. Dead \/ Greeting
        BY <2>2, <3>1 DEF Talks, OnTime, Surplus, Downloads, InStage
      <4>2. CASE Dead
        BY <2>3, <4>2 DEF Dead
      <4>3. CASE Greeting
        BY <3>1, <4>3 DEF Greeting, InStage, LoaderAt
      <4>4. QED
        BY <4>1, <4>2, <4>3
    <3>2. CASE ~InStage("read", "speed")
      BY <2>2, <2>3, <3>2 DEF Skipless
    <3>3. QED
      BY <3>1, <3>2
  <2>5. \A i \in 1..Len(rx') : i + 1 \in 2..Len(rx) /\ rx'[i] = rx[i + 1]
    BY <2>2, <2>3 DEF Takes
  <2>6. \A i \in 1..Len(rx') : rx'[i] \notin Noise
    BY <2>4, <2>5
  <2>7. QED
    BY <2>6 DEF Skipless
<1>6. QED
  BY <1>1, <1>2, <1>3, <1>4, <1>5 DEF Moves

\* A command that is not heard, or that hangs the controller.
LEMMA AskDead ==
    ASSUME LineTyped, Skipless, Dead \/ Greeting \/ OnTime \/ Surplus(Size),
           NEW s \in Stages, Asked(s), Hangs \/ (~Hears /\ UNCHANGED <<rx, chip>>)
    PROVE  Dead'
<1>1. InStage("ask", s) /\ loader.pc = "ask" /\ loader.stage = s /\ Talking /\ UNCHANGED rx
  BY DEF Asked, InStage, Talking, Hangs
<1>2. \A i \in 1..Len(rx) : rx[i] \notin Noise
  BY <1>1 DEF Skipless, InStage
<1>3. \A i \in 1..Len(rx) : rx[i] # "reset"
  <2>1. CASE Dead
    BY <2>1 DEF Dead
  <2>2. CASE Greeting
    <3>1. Len(rx) = 0
      BY <1>1, <2>2 DEF Greeting, LoaderAt
    <3>2. QED
      BY <3>1
  <2>3. CASE OnTime \/ Surplus(Size)
    BY <1>1, <2>3 DEF OnTime, Surplus, InStage
  <2>4. QED
    BY <2>1, <2>2, <2>3
<1>4. chip'.image = "hung"
  <2>1. CASE Hangs
    BY <2>1, HangFacts DEF LineTyped
  <2>2. CASE ~Hears /\ UNCHANGED <<rx, chip>>
    <3>1. CASE Dead
      BY <2>2, <3>1 DEF Dead
    <3>2. CASE Greeting
      <4>1. Slow
        BY <1>1, <3>2 DEF Greeting, LoaderAt
      <4>2. QED
        BY <2>2, <4>1, RomIsChip DEF Slow, Hears
    <3>3. CASE OnTime \/ Surplus(Size)
      BY <2>2, <3>3 DEF OnTime, Surplus, Fast, Hears
    <3>4. QED
      BY <3>1, <3>2, <3>3
  <2>3. QED
    BY <2>1, <2>2
<1>5. ~InStage("ask", "version")' /\ ~InStage("trail", "reset")'
  BY DEF Asked, Unanswered, InStage
<1>6. QED
  BY <1>1, <1>2, <1>3, <1>4, <1>5 DEF Dead

\* The answers to the version query and to the speed change are the only ones there.
LEMMA AskGreets ==
    ASSUME LineTyped, Greeting, NEW s \in Stages, Asked(s), Obeyed(s)
    PROVE  Greeting'
<1>1. /\ loader.pc = "ask" /\ loader.stage = s /\ fixed' = fixed /\ Size' = Size
      /\ s \in {"version", "speed"} /\ Len(rx) = 0 /\ Slow
  BY DEF Asked, InStage, Greeting, LoaderAt, Size
<1>2. PICK a \in Answers(s) : Arrives(a)
  BY DEF Obeyed
<1>3. Len(rx') = Len(a) /\ \A i \in 1..Len(rx') : rx'[i] = a[i]
  BY <1>1, <1>2 DEF Arrives
<1>4. fixed \in Fixtures /\ chip \in Chips
  BY DEF LineTyped
<1>5. Size \in {1, 2}
  BY DEF Size
<1>6. loader'.pc = "read" /\ loader'.stage = s /\ loader'.unified = loader.unified /\ rail' = rail
      /\ uart' = IF s = "speed" THEN "fast" ELSE uart
  BY <1>1 DEF Asked, Unanswered
<1>7. CASE s = "version"
  <2>1. Len(a) = Size /\ a[1] = IF fixed.unified THEN "version" ELSE "vendor"
    BY <1>4, <1>7, AnswerFacts
  <2>2. rx'[1] = a[1] /\ Len(rx') = Size'
    BY <1>1, <1>3, <1>5, <2>1
  <2>3. Slow'
    BY <1>1, <1>4, <1>6, <1>7, ObeyFacts DEF Slow, Obeyed
  <2>4. QED
    BY <1>1, <1>6, <1>7, <2>1, <2>2, <2>3 DEF Greeting, LoaderAt
<1>8. CASE s = "speed"
  <2>1. /\ \/ a[1] \in Noise /\ Len(a) \in {1, 1 + Size}
           \/ a[1] \notin Noise /\ Len(a) = Size
        /\ \A i \in 2..Len(a) : a[i] \notin Noise \cup {"reset"}
    BY <1>4, <1>8, AnswerFacts
  <2>2. Len(a) \in {1, 2, 3}
    <3>1. 1 + Size \in {2, 3}
      BY <1>5
    <3>2. Len(a) = 1 \/ Len(a) = 1 + Size \/ Len(a) = Size
      BY <2>1
    <3>3. QED
      BY <1>5, <3>1, <3>2
  <2>3. 1 \in 1..Len(rx') /\ \A i \in 2..Len(rx') : i \in 1..Len(rx')
    BY <1>3, <2>2
  <2>4. /\ \/ rx'[1] \in Noise /\ Len(rx') \in {1, 1 + Size'}
           \/ rx'[1] \notin Noise /\ Len(rx') = Size'
        /\ \A i \in 2..Len(rx') : rx'[i] \notin Noise \cup {"reset"}
    BY <1>1, <1>3, <2>1, <2>3
  <2>5. Fast'
    <3>1. chip'.speed = "fast" /\ chip'.image = chip.image
      BY <1>4, <1>8, ObeyFacts DEF Obeyed
    <3>2. chip.image # "hung" /\ rail
      BY <1>1, RomIsChip DEF Slow
    <3>3. loader.unified = fixed.unified
      BY <1>1, <1>8 DEF Greeting, LoaderAt
    <3>4. QED
      BY <1>1, <1>6, <1>8, <3>1, <3>2, <3>3 DEF Fast
  <2>6. QED
    BY <1>6, <1>8, <2>4, <2>5 DEF Greeting, LoaderAt
<1>9. QED
  BY <1>1, <1>7, <1>8

\* Behind a surplus, the answer arrives last.
LEMMA AskAdds ==
    ASSUME LineTyped, NEW n \in {0, 1, 2}, Surplus(n), NEW s \in Stages, Asked(s), Obeyed(s)
    PROVE  /\ Surplus(n)'
           /\ n = 0 /\ s = "board" => rx'[1] = "board"
<1>1. loader.pc = "ask" /\ loader.stage = s /\ s \in Downloads /\ Fast /\ Len(rx) = n
      /\ fixed' = fixed /\ Size' = Size /\ Size \in {1, 2}
  BY DEF Asked, InStage, Surplus, LoaderAt, Size
<1>2. PICK a \in Answers(s) : Arrives(a)
  BY DEF Obeyed
<1>3. fixed \in Fixtures /\ chip \in Chips
  BY DEF LineTyped
<1>4. Len(a) = IF Unanswered(s) THEN 0 ELSE IF s \in {"board", "nvm"} THEN Size ELSE 1
  BY <1>1, <1>3, AnswerFacts DEF Unanswered, Downloads
<1>5. Len(rx') = n + Len(a)
  BY <1>1, <1>2 DEF Arrives
<1>6. \A i \in 1..Len(rx) : rx[i] # "reset"
  BY <1>1 DEF Surplus, InStage
<1>7. s # "reset" => \A i \in 1..Len(a) : a[i] # "reset"
  BY <1>3, AnswerFacts
<1>8. /\ IF Unanswered(s) THEN loader'.pc = "ask" ELSE loader'.pc = "read"
      /\ loader'.stage = s /\ loader'.unified = loader.unified
  BY DEF Asked
<1>9. \A i \in 1..Len(rx') : rx'[i] = "reset" => InStage("read", "reset")' /\ i > n
  <2>1. SUFFICES ASSUME NEW i \in 1..Len(rx'), rx'[i] = "reset"
                 PROVE  InStage("read", "reset")' /\ i > n
    OBVIOUS
  <2>2. i > n
    BY <1>1, <1>2, <1>6, <2>1 DEF Arrives
  <2>3. s = "reset"
    BY <1>1, <1>2, <1>7, <2>1, <2>2 DEF Arrives
  <2>4. QED
    BY <1>8, <2>2, <2>3 DEF InStage, Unanswered
<1>10. Fast'
  <2>1. s # "speed" /\ uart' = uart /\ rail' = rail
    BY <1>1 DEF Downloads, Asked
  <2>2. chip'.speed = chip.speed /\ chip'.image # "hung"
    BY <1>1, <1>3, <2>1, ObeyFacts DEF Obeyed, Fast
  <2>3. QED
    BY <1>1, <1>8, <2>1, <2>2 DEF Fast
<1>11. Surplus(n)'
  BY <1>1, <1>4, <1>5, <1>8, <1>9, <1>10 DEF Surplus, LoaderAt, Unanswered
<1>12. ASSUME n = 0, s = "board"
       PROVE  rx'[1] = "board"
  <2>1. Len(rx') = Size /\ 1 \in 1..Len(rx')
    BY <1>1, <1>4, <1>5, <1>12 DEF Unanswered
  <2>2. rx'[1] = a[1]
    BY <1>1, <1>2, <1>12, <2>1 DEF Arrives
  <2>3. a[1] = "board"
    BY <1>3, <1>12, AnswerFacts
  <2>4. QED
    BY <2>2, <2>3
<1>13. QED
  BY <1>11, <1>12

LEMMA AskOnTime ==
    ASSUME LineTyped, OnTime, NEW s \in Stages, Asked(s), Obeyed(s)
    PROVE  OnTime'
<1>1. loader.pc = "ask" /\ loader.stage = s /\ s \in Downloads /\ Surplus(0)
  BY DEF Asked, InStage, OnTime, Surplus
<1>2. Surplus(0)' /\ (s = "board" => rx'[1] = "board")
  BY <1>1, AskAdds
<1>3. /\ IF Unanswered(s) THEN loader'.pc = "ask" ELSE loader'.pc = "read"
      /\ loader'.stage = s /\ loader'.board = loader.board /\ fixed' = fixed
  BY DEF Asked
<1>4. s \in {"nvm", "reset"} => loader.board
  BY <1>1 DEF OnTime
<1>5. chip'.nvm = IF s = "nvm" THEN (IF loader.board /\ fixed.own THEN "own" ELSE "generic")
                             ELSE chip.nvm
  BY ObeyFacts DEF LineTyped, Obeyed
<1>6. s \in {"nvm", "reset"} => RightFile'
  <2>1. CASE s = "nvm"
    BY <1>3, <1>4, <1>5, <2>1 DEF RightFile
  <2>2. CASE s = "reset"
    <3>1. RightFile
      BY <1>1, <2>2 DEF OnTime
    <3>2. chip'.nvm = chip.nvm
      BY <1>5, <2>2
    <3>3. QED
      BY <1>3, <3>1, <3>2 DEF RightFile
  <2>3. QED
    BY <2>1, <2>2
<1>7. QED
  BY <1>2, <1>3, <1>4, <1>6 DEF OnTime, InStage, Unanswered

-----------------------------------------------------------------------------
(* An answer is taken.                                                     *)

NextStages == /\ NextStage["version"] = "speed" /\ NextStage["speed"] = "patch"
              /\ NextStage["patch"] = "board" /\ NextStage["board"] = "nvm"
              /\ NextStage["nvm"] = "reset"
LEMMA StagesFollow == NextStages
  BY DEF NextStages, NextStage

\* The dead controller's packets are neither notices nor the answer to the reset.
LEMMA TakeDead ==
    ASSUME LineTyped, Dead, NEW s \in Stages, TakesFirst(s) \/ TakesSecond(s)
    PROVE  Dead' /\ s # "reset"
<1>1. Takes /\ rx \in Seq(Packets)
  BY DEF TakesFirst, TakesSecond, LineTyped
<1>2. Len(rx) \in Nat \ {0}
  BY <1>1, EmptySeq DEF Takes
<1>3. \A i \in 1..Len(rx') : i + 1 \in 1..Len(rx) /\ rx'[i] = rx[i + 1]
  BY <1>1, <1>2 DEF Takes
<1>4. \A i \in 1..Len(rx') : rx'[i] \notin Noise \cup {"reset"}
  BY <1>3 DEF Dead
<1>5. s # "reset"
  <2>1. 1 \in 1..Len(rx)
    BY <1>2
  <2>2. rx[1] # "reset"
    BY <2>1 DEF Dead
  <2>3. TakesFirst("reset") => rx[1] = "reset"
    BY DEF TakesFirst, Accepts
  <2>4. TakesSecond("reset") => FALSE
    BY DEF TakesSecond, Dead
  <2>5. QED
    BY <2>2, <2>3, <2>4
<1>6. ~InStage("ask", "version")' /\ ~InStage("trail", "reset")'
  <2>1. NextStage[s] # "version"
    BY <1>5, StagesFollow DEF NextStages, Stages
  <2>2. Onward(s) => ~InStage("ask", "version")' /\ ~InStage("trail", "reset")'
    BY <2>1 DEF Onward, InStage
  <2>3. QED
    BY <1>5, <2>2 DEF TakesFirst, TakesSecond, InStage
<1>7. QED
  BY <1>1, <1>4, <1>5, <1>6 DEF Dead, Takes

LEMMA Empties ==
    ASSUME rx \in Seq(Packets), Takes
    PROVE  Len(rx) \in Nat \ {0} /\ Len(rx') \in Nat /\ Len(rx') = Len(rx) - 1
<1>1. Len(rx) \in Nat \ {0}
  BY EmptySeq DEF Takes
<1>2. QED
  BY <1>1 DEF Takes

\* The version is answered by one packet or two.
LEMMA TakeVersion ==
    ASSUME LineTyped, Greeting, TakesFirst("version") \/ TakesSecond("version")
    PROVE  Greeting'
<1>1. Takes /\ loader.stage = "version" /\ Slow /\ Slow' /\ fixed' = fixed /\ fixed \in Fixtures
  BY DEF TakesFirst, TakesSecond, InStage, Greeting, Slow, Takes, LineTyped
<1>2. Len(rx') = Len(rx) - 1
  BY <1>1 DEF Takes
<1>3. Onward("version") => loader'.pc = "ask" /\ loader'.stage = "speed"
  BY StagesFollow DEF Onward, NextStages
<1>4. CASE TakesFirst("version")
  <2>1. loader.pc = "read" /\ Len(rx) = Size /\ rx[1] = IF fixed.unified THEN "version" ELSE "vendor"
    BY <1>1, <1>4 DEF TakesFirst, InStage, Greeting, LoaderAt
  <2>2. loader'.unified = (rx[1] = "version")
    BY <1>4 DEF TakesFirst
  <2>3. fixed.unified \in BOOLEAN
    BY <1>1 DEF Fixtures
  <2>4. CASE fixed.unified
    <3>1. rx[1] = "version" /\ Len(rx) = 1
      BY <2>1, <2>4 DEF Size
    <3>2. ~Trails("version", rx[1])
      BY <3>1 DEF Trails
    <3>3. loader'.pc = "ask" /\ loader'.stage = "speed"
      BY <1>3, <1>4, <3>2 DEF TakesFirst
    <3>4. loader'.unified = TRUE /\ fixed'.unified = TRUE
      BY <1>1, <2>2, <2>3, <2>4, <3>1
    <3>5. Len(rx') = 0
      BY <1>2, <3>1
    <3>6. QED
      BY <1>1, <3>3, <3>4, <3>5 DEF Greeting, LoaderAt
  <2>5. CASE ~fixed.unified
    <3>1. rx[1] = "vendor" /\ Len(rx) = 2
      BY <2>1, <2>5 DEF Size
    <3>2. Trails("version", rx[1])
      BY <3>1 DEF Trails
    <3>3. loader'.pc = "trail" /\ loader'.stage = "version"
      BY <1>4, <3>2 DEF TakesFirst
    <3>4. ~loader'.unified /\ ~fixed'.unified
      BY <1>1, <2>2, <2>5, <3>1
    <3>5. Len(rx') = 1
      BY <1>2, <3>1
    <3>6. QED
      BY <1>1, <3>3, <3>4, <3>5 DEF Greeting, LoaderAt
  <2>6. QED
    BY <2>4, <2>5
<1>5. CASE TakesSecond("version")
  <2>1. Len(rx) = 1 /\ ~fixed.unified /\ ~loader.unified
    BY <1>1, <1>5 DEF TakesSecond, InStage, Greeting, LoaderAt
  <2>2. loader'.pc = "ask" /\ loader'.stage = "speed" /\ loader'.unified = loader.unified
    BY <1>3, <1>5 DEF TakesSecond
  <2>3. loader.unified \in BOOLEAN /\ fixed.unified \in BOOLEAN
    BY DEF LineTyped, Loaders, Fixtures
  <2>4. loader'.unified = fixed'.unified
    BY <1>1, <2>1, <2>2, <2>3
  <2>5. Len(rx') = 0
    BY <1>2, <2>1
  <2>6. QED
    BY <1>1, <2>2, <2>4, <2>5 DEF Greeting, LoaderAt
<1>6. QED
  BY <1>4, <1>5

\* An idle notice taken for the answer to the speed change leaves that answer behind.
LEMMA TakeSpeed ==
    ASSUME LineTyped, Greeting, TakesFirst("speed") \/ TakesSecond("speed")
    PROVE  Greeting' \/ OnTime' \/ Surplus(Size)'
<1>1. Takes /\ loader.stage = "speed" /\ fixed' = fixed /\ loader.pc \in {"read", "trail"}
  BY DEF TakesFirst, TakesSecond, InStage, Takes
<1>2. /\ Fast /\ loader.unified = fixed.unified
      /\ LoaderAt("read") =>
            /\ \/ rx[1] \in Noise /\ Len(rx) \in {1, 1 + Size}
               \/ rx[1] \notin Noise /\ Len(rx) = Size
            /\ \A i \in 2..Len(rx) : rx[i] \notin Noise \cup {"reset"}
      /\ LoaderAt("trail") => Len(rx) = 1 /\ ~fixed.unified
  BY <1>1 DEF Greeting, Fast, LoaderAt
<1>3. loader'.unified = loader.unified /\ Fast'
  BY <1>1, <1>2 DEF TakesFirst, TakesSecond, Fast, Takes
<1>4. Onward("speed") => loader'.pc = "ask" /\ loader'.stage = "patch"
  BY StagesFollow DEF Onward, NextStages
<1>5. Len(rx') = Len(rx) - 1 /\ Len(rx) \in Nat \ {0} /\ Size' = Size
  BY <1>1, Empties DEF LineTyped, Size
<1>6. ASSUME Onward("speed"), \A i \in 1..Len(rx') : rx'[i] # "reset", NEW n \in Nat, Len(rx') = n
      PROVE  Surplus(n)'
  BY <1>3, <1>4, <1>6 DEF Surplus, Downloads, LoaderAt
<1>7. ASSUME Onward("speed"), Surplus(0)'
      PROVE  OnTime'
  BY <1>4, <1>7 DEF OnTime, InStage
<1>8. CASE TakesFirst("speed")
  <2>1. LoaderAt("read")
    BY <1>8 DEF TakesFirst, InStage, LoaderAt
  <2>2. \A i \in 1..Len(rx') : i + 1 \in 2..Len(rx) /\ rx'[i] = rx[i + 1]
    BY <1>1, <1>5 DEF Takes
  <2>3. \A i \in 1..Len(rx') : rx'[i] # "reset"
    BY <1>2, <2>1, <2>2
  <2>4. CASE rx[1] \in Noise
    <3>1. Onward("speed")
      BY <1>8, <2>4 DEF TakesFirst, Trails
    <3>2. Size \in Nat
      BY DEF Size
    <3>3. Len(rx') = 0 \/ Len(rx') = Size
      BY <1>2, <1>5, <2>1, <2>4, <3>2
    <3>4. CASE Len(rx') = 0
      BY <1>6, <1>7, <2>3, <3>1, <3>4
    <3>5. CASE Len(rx') = Size
      <4>1. PICK n \in Nat : n = Size
        BY <3>2
      <4>2. Surplus(n)'
        BY <1>6, <2>3, <3>1, <3>5, <4>1
      <4>3. n = Size'
        BY <1>5, <4>1
      <4>4. QED
        BY <4>2, <4>3 DEF Surplus
    <3>6. QED
      BY <3>3, <3>4, <3>5
  <2>5. CASE rx[1] \notin Noise /\ fixed.unified
    <3>1. Onward("speed")
      BY <1>2, <1>8, <2>5 DEF TakesFirst, Trails
    <3>2. Len(rx') = 0
      BY <1>2, <1>5, <2>1, <2>5 DEF Size
    <3>3. QED
      BY <1>6, <1>7, <2>3, <3>1, <3>2
  <2>6. CASE rx[1] \notin Noise /\ ~fixed.unified
    <3>1. loader'.pc = "trail" /\ loader'.stage = "speed"
      BY <1>2, <1>8, <2>6 DEF TakesFirst, Trails
    <3>2. Len(rx') = 1
      BY <1>2, <1>5, <2>1, <2>6 DEF Size
    <3>3. QED
      BY <1>1, <1>3, <2>6, <3>1, <3>2 DEF Greeting, LoaderAt
  <2>7. QED
    BY <2>4, <2>5, <2>6
<1>9. CASE TakesSecond("speed")
  <2>1. LoaderAt("trail") /\ Onward("speed")
    BY <1>9 DEF TakesSecond, InStage, LoaderAt
  <2>2. Len(rx') = 0 /\ \A i \in 1..Len(rx') : FALSE
    BY <1>2, <1>5, <2>1
  <2>3. QED
    BY <1>6, <1>7, <2>1, <2>2
<1>10. QED
  BY <1>8, <1>9

\* Later the surplus is kept, whatever an answer is taken for.
LEMMA TakeSurplus ==
    ASSUME LineTyped, NEW n \in {0, 1, 2}, Surplus(n), NEW s \in Stages,
           TakesFirst(s) \/ TakesSecond(s), s # "reset"
    PROVE  Surplus(n)'
<1>1. /\ Takes /\ loader.stage = s /\ s \in {"patch", "board", "nvm"} /\ fixed' = fixed
      /\ Size' = Size /\ Size \in {1, 2} /\ fixed.unified \in BOOLEAN /\ Fast
      /\ loader.unified = fixed.unified
  BY DEF TakesFirst, TakesSecond, InStage, Surplus, Downloads, Takes, Size, Fast, LineTyped, Fixtures
<1>2. Fast'
  BY <1>1 DEF TakesFirst, TakesSecond, Fast, Takes
<1>3. Len(rx') = Len(rx) - 1 /\ Len(rx) \in Nat \ {0}
  BY <1>1, Empties DEF LineTyped
<1>4. \A i \in 1..Len(rx') : rx'[i] # "reset"
  <2>1. \A i \in 1..Len(rx') : i + 1 \in 1..Len(rx) /\ rx'[i] = rx[i + 1]
    BY <1>1, <1>3 DEF Takes
  <2>2. \A i \in 1..Len(rx) : rx[i] # "reset"
    BY <1>1 DEF Surplus, InStage
  <2>3. QED
    BY <2>1, <2>2
<1>5. NextStage[s] \in Downloads
  BY <1>1, StagesFollow DEF NextStages, Downloads
<1>6. Onward(s) => loader'.pc = "ask" /\ loader'.stage \in Downloads
  BY <1>1, <1>5 DEF Onward, Downloads
<1>7. ASSUME Onward(s), Len(rx') = n
      PROVE  Surplus(n)'
  BY <1>2, <1>4, <1>6, <1>7 DEF Surplus, LoaderAt
<1>8. CASE TakesFirst(s)
  <2>1. Len(rx) = n + (IF s \in {"board", "nvm"} THEN Size ELSE 1)
    BY <1>1, <1>8 DEF TakesFirst, InStage, Surplus, LoaderAt
  <2>2. CASE Trails(s, rx[1])
    <3>1. s \in {"board", "nvm"} /\ ~fixed.unified
      BY <1>1, <2>2 DEF Trails
    <3>2. Len(rx') = n + 1
      BY <1>3, <2>1, <3>1 DEF Size
    <3>3. loader'.pc = "trail" /\ loader'.stage = s
      BY <1>8, <2>2 DEF TakesFirst
    <3>4. QED
      BY <1>1, <1>2, <1>4, <3>1, <3>2, <3>3 DEF Surplus, LoaderAt, Downloads
  <2>3. CASE ~Trails(s, rx[1])
    <3>1. Onward(s)
      BY <1>8, <2>3 DEF TakesFirst
    <3>2. s = "patch" \/ fixed.unified
      BY <1>1, <2>3 DEF Trails
    <3>3. Len(rx') = n
      BY <1>1, <1>3, <2>1, <3>2 DEF Size
    <3>4. QED
      BY <1>7, <3>1, <3>3
  <2>4. QED
    BY <2>2, <2>3
<1>9. CASE TakesSecond(s)
  <2>1. Len(rx) = n + 1 /\ Onward(s)
    BY <1>9 DEF TakesSecond, InStage, Surplus, LoaderAt
  <2>2. Len(rx') = n
    BY <1>3, <2>1
  <2>3. QED
    BY <1>7, <2>1, <2>2
<1>10. QED
  BY <1>8, <1>9

LEMMA TakeOnTime ==
    ASSUME LineTyped, OnTime, NEW s \in Stages, TakesFirst(s) \/ TakesSecond(s), s # "reset"
    PROVE  OnTime'
<1>1. Surplus(0) /\ Surplus(0)'
  BY TakeSurplus DEF OnTime
<1>2. /\ loader.stage = s /\ s \in {"patch", "board", "nvm"} /\ fixed' = fixed /\ chip' = chip
      /\ InStage("read", s) \/ InStage("trail", s)
  BY <1>1 DEF TakesFirst, TakesSecond, InStage, Surplus, Downloads, Takes
<1>3. RightFile => RightFile'
  BY <1>2 DEF RightFile
<1>4. s = "nvm" => loader.board /\ RightFile /\ RightFile' /\ loader'.board
  BY <1>2, <1>3 DEF OnTime, InStage, TakesFirst, TakesSecond
<1>5. s = "board" => loader'.board
  BY <1>2 DEF OnTime, TakesFirst, TakesSecond, InStage
<1>6. \/ loader'.pc = "trail" /\ loader'.stage = s /\ s # "patch"
      \/ /\ loader'.pc = "ask"
         /\ \/ loader'.stage = s /\ s # "board"
            \/ loader'.stage = NextStage[s] /\ loader'.seg = 1
  BY <1>2 DEF TakesFirst, TakesSecond, Onward, Trails
<1>7. QED
  BY <1>1, <1>2, <1>4, <1>5, <1>6, StagesFollow DEF OnTime, InStage, NextStages

\* The surplus is the size of an answer, which never changes.
LEMMA SurplusStays ==
    ASSUME fixed' = fixed,
           \A n \in {0, 1, 2} : Surplus(n) => Surplus(n)'
    PROVE  Surplus(Size) => Surplus(Size)'
<1>1. SUFFICES ASSUME Surplus(Size) PROVE Surplus(Size)'
  OBVIOUS
<1>2. Size \in {0, 1, 2} /\ Size' = Size
  BY DEF Size
<1>3. PICK n \in {0, 1, 2} : n = Size
  BY <1>2
<1>4. Surplus(n)
  BY <1>1, <1>3 DEF Surplus
<1>5. Surplus(n)'
  BY <1>4
<1>6. QED
  BY <1>2, <1>3, <1>5 DEF Surplus

LEMMA TalksStep == ASSUME LineTyped, Powered, Skipless, Talks, Moves PROVE Talks'
<1>1. CASE UNCHANGED <<line, loader>>
  <2>1. /\ rail' = rail /\ chip' = chip /\ fixed' = fixed /\ uart' = uart /\ rx' = rx
        /\ loader' = loader
    BY <1>1 DEF line
  <2>2. (Talking' <=> Talking) /\ (Dead => Dead') /\ (Greeting => Greeting') /\ (OnTime => OnTime')
    BY <2>1 DEF Talking, Dead, Greeting, OnTime, Surplus, RightFile, InStage, LoaderAt, Slow, Fast,
                Size
  <2>3. Surplus(Size) => Surplus(Size)'
    BY <2>1 DEF Surplus, InStage, LoaderAt, Fast, Size
  <2>4. QED
    BY <2>2, <2>3 DEF Talks
<1>2. CASE GoesQuiet \/ Holds \/ RailOff \/ RailOn
  BY <1>2, Silent DEF Talks
<1>3. CASE OpenUart
  <2>1. InStage("ask", "version")' /\ Slow' /\ Len(rx') = 0
    BY <1>3, Opens
  <2>2. Greeting'
    BY <2>1 DEF Greeting, InStage, LoaderAt
  <2>3. QED
    BY <2>2 DEF Talks
<1>4. CASE \E s \in Stages : Ask(s)
  <2>1. PICK s \in Stages : Ask(s)
    BY <1>4
  <2>2. Asked(s) /\ (Obeyed(s) \/ Hangs \/ (~Hears /\ UNCHANGED <<rx, chip>>))
    BY <2>1, AskShape
  <2>3. Dead \/ Greeting \/ OnTime \/ Surplus(Size)
    BY <2>2 DEF Talks, Talking, Asked, InStage
  <2>4. CASE Hangs \/ (~Hears /\ UNCHANGED <<rx, chip>>)
    BY <2>2, <2>3, <2>4, AskDead DEF Talks
  <2>5. CASE Obeyed(s) /\ Hears
    <3>1. ~Dead
      BY <2>5 DEF Dead, Hears
    <3>2. fixed' = fixed
      BY <2>2 DEF Asked
    <3>3. \A n \in {0, 1, 2} : Surplus(n) => Surplus(n)'
      BY <2>2, <2>5, AskAdds
    <3>4. QED
      BY <2>2, <2>3, <2>5, <3>1, <3>2, <3>3, AskGreets, AskOnTime, SurplusStays DEF Talks
  <2>6. QED
    BY <2>1, <2>4, <2>5, AskShape
<1>5. CASE \E s \in Stages : TakesFirst(s) \/ TakesSecond(s)
  <2>1. PICK s \in Stages : TakesFirst(s) \/ TakesSecond(s)
    BY <1>5
  <2>2. fixed' = fixed /\ loader.stage = s /\ Talking
    BY <2>1 DEF TakesFirst, TakesSecond, Takes, InStage, Talking
  <2>3. Dead \/ Greeting \/ OnTime \/ Surplus(Size)
    BY <2>2 DEF Talks
  <2>4. CASE s = "reset"
    <3>1. loader'.pc \in {"settle", "trail"} /\ (loader'.pc = "trail" => TakesFirst(s))
      BY <2>1, <2>4 DEF TakesFirst, TakesSecond, Onward
    <3>2. ~(TakesFirst(s) /\ loader'.pc = "trail")
      BY <2>4 DEF TakesFirst, Trails, Onward
    <3>3. QED
      BY <3>1, <3>2 DEF Talks, Talking
  <2>5. CASE Dead
    BY <2>1, <2>5, TakeDead DEF Talks
  <2>6. CASE Greeting
    <3>1. s \in {"version", "speed"}
      BY <2>2, <2>6 DEF Greeting
    <3>2. QED
      BY <2>1, <2>6, <3>1, TakeVersion, TakeSpeed DEF Talks
  <2>7. CASE OnTime /\ s # "reset"
    BY <2>1, <2>7, TakeOnTime DEF Talks
  <2>8. CASE Surplus(Size) /\ s # "reset"
    <3>1. \A n \in {0, 1, 2} : Surplus(n) => Surplus(n)'
      BY <2>1, <2>8, TakeSurplus
    <3>2. QED
      BY <2>2, <2>8, <3>1, SurplusStays DEF Talks
  <2>9. QED
    BY <2>3, <2>4, <2>5, <2>6, <2>7, <2>8
<1>6. QED
  BY <1>1, <1>2, <1>3, <1>4, <1>5 DEF Moves

\* The reset is answered last: a surplus would have been taken for it.
LEMMA SettledStep == ASSUME LineTyped, Skipless, Talks, Settled, Moves PROVE Settled'
<1>1. CASE UNCHANGED <<line, loader>>
  BY <1>1 DEF line, Settled, RightFile
<1>2. CASE GoesQuiet
  BY <1>2 DEF GoesQuiet, Settled, Attached
<1>3. CASE Holds
  BY <1>3 DEF Holds, Settled, line, RightFile
<1>4. CASE RailOff \/ RailOn
  <2>1. "rail_on" \in LoaderPCs /\ "open" \in LoaderPCs /\ loader \in Loaders
    BY DEF LoaderPCs, Working, LineTyped
  <2>2. loader'.pc \in {"rail_on", "open"}
    BY <1>4, <2>1, PcMoves DEF RailOff, RailOn
  <2>3. QED
    BY <2>2 DEF Settled, Attached
<1>5. CASE OpenUart
  <2>1. loader'.pc = "ask"
    BY <1>5 DEF OpenUart, LineTyped, Loaders
  <2>2. QED
    BY <2>1 DEF Settled, Attached
<1>6. CASE \E s \in Stages : Ask(s)
  <2>1. loader'.pc \in {"ask", "read"}
    BY <1>6, AskShape DEF Asked
  <2>2. QED
    BY <2>1 DEF Settled, Attached
<1>7. CASE \E s \in Stages : TakesFirst(s) \/ TakesSecond(s)
  <2>1. PICK s \in Stages : TakesFirst(s) \/ TakesSecond(s)
    BY <1>7
  <2>2. /\ fixed' = fixed /\ chip' = chip /\ loader.stage = s /\ Talking
        /\ InStage("read", s) \/ InStage("trail", s)
    BY <2>1 DEF TakesFirst, TakesSecond, Takes, InStage, Talking
  <2>3. CASE s = "reset" /\ loader'.pc = "settle"
    <3>1. ~Dead /\ ~Greeting
      BY <2>1, <2>2, <2>3, TakeDead DEF Greeting
    <3>2. OnTime \/ Surplus(Size)
      BY <2>2, <3>1 DEF Talks
    <3>3. CASE OnTime
      <4>1. RightFile
        BY <2>2, <2>3, <3>3 DEF OnTime
      <4>2. QED
        BY <2>2, <4>1 DEF Settled, RightFile
    <3>4. CASE Surplus(Size)
      <4>1. ~InStage("trail", "reset")
        BY <3>4 DEF Surplus, InStage, LoaderAt
      <4>2. TakesFirst("reset") /\ rx[1] = "reset"
        BY <2>1, <2>3, <4>1 DEF TakesFirst, TakesSecond, Accepts
      <4>3. Size \in {1, 2}
        BY DEF Size
      <4>4. 1 \in 1..Len(rx)
        BY <4>2, Empties DEF TakesFirst, LineTyped
      <4>5. FALSE
        BY <3>4, <4>2, <4>3, <4>4 DEF Surplus
      <4>6. QED
        BY <4>5
    <3>5. QED
      BY <3>2, <3>3, <3>4
  <2>4. CASE loader'.pc \in {"ask", "trail"}
    BY <2>4 DEF Settled, Attached
  <2>5. QED
    BY <2>1, <2>3, <2>4 DEF TakesFirst, TakesSecond, Onward
<1>8. QED
  BY <1>1, <1>2, <1>3, <1>4, <1>5, <1>6, <1>7 DEF Moves

LEMMA LineBegins == ASSUME BluetoothInit PROVE LineInv
<1>1. loader \in Loaders /\ loader.pc = "gone" /\ loader.stage = "none"
  BY NoLoaderIsOne DEF BluetoothInit
<1>2. <<>> \in Seq(Packets)
  OBVIOUS
<1>3. LineTyped
  BY <1>1, <1>2, RomIsChip DEF BluetoothInit, LineTyped, Talking, Fixtures
<1>4. Powered /\ Skipless /\ Talks /\ Settled
  BY <1>1 DEF Powered, Skipless, Talks, Settled, Talking, LoaderAt, Attached
<1>5. QED
  BY <1>3, <1>4 DEF LineInv

LEMMA LineKept == LineInv /\ [BluetoothNext]_bluetooth => LineInv'
<1>1. SUFFICES ASSUME LineInv, [BluetoothNext]_bluetooth
               PROVE  LineInv'
  OBVIOUS
<1>2. Moves
  BY <1>1, StepMoves DEF LineInv
<1>3. QED
  BY <1>1, <1>2, LineTypedStep, PoweredStep, SkiplessStep, TalksStep, SettledStep DEF LineInv

LEMMA LineSafe == LineInv => RomSpeed /\ RightCalibration
<1>1. LineInv => RomSpeed
  <2>1. SUFFICES ASSUME LineInv, InStage("ask", "version")
                 PROVE  Hears /\ chip = RomChip
    BY DEF RomSpeed
  <2>2. Greeting
    BY <2>1 DEF LineInv, Talks, Talking, InStage, Dead, OnTime, Surplus, Downloads
  <2>3. Slow
    BY <2>1, <2>2 DEF Greeting, InStage
  <2>4. QED
    BY <2>3, RomIsChip DEF Slow, Hears
<1>2. LineInv => RightCalibration
  BY DEF LineInv, Settled, RightFile, RightCalibration
<1>3. QED
  BY <1>1, <1>2

\* The version query only goes to a controller that runs its ROM and hears it: power_on
\* cuts the rail whatever an earlier or a killed loader left.
THEOREM RomAtRomSpeed == BluetoothSpec => []RomSpeed
  BY LineBegins, LineKept, LineSafe, PTL DEF BluetoothSpec

\* An attached adapter has the calibration of its board, or the generic one where there
\* is no file for it: an answer read one command late never survives the reset.
THEOREM CalibrationIsRight == BluetoothSpec => []RightCalibration
  BY LineBegins, LineKept, LineSafe, PTL DEF BluetoothSpec

-----------------------------------------------------------------------------
(* The processes around the loader: the launcher, the supervisor, a sweep. *)

Launchers == [pc : LauncherPCs, attempt : 0..LoaderAttempts]
Supervisors == [pc : SupervisorPCs, rounds : 0..MaxRounds]

\* A launcher that launches has an attempt left.
ProcessesTyped ==
    /\ launcher \in Launchers /\ supervisor \in Supervisors
    /\ launcher.pc = "launch" => launcher.attempt < LoaderAttempts
    /\ swept \in {{"no"}, {"done"}} \cup SUBSET {"loader", "launcher", "supervisor"}

LEMMA ProcessesBegin == ASSUME BluetoothInit PROVE ProcessesTyped
  BY BluetoothConstants DEF BluetoothInit, ProcessesTyped, Launchers, Supervisors, LauncherPCs,
     SupervisorPCs

LEMMA LauncherMoves ==
    ASSUME launcher \in Launchers, NEW to \in LauncherPCs, LauncherGoto(to)
    PROVE  launcher' \in Launchers /\ launcher'.pc = to /\ launcher'.attempt = launcher.attempt
  BY DEF LauncherGoto, Launchers

LEMMA SupervisorMoves ==
    ASSUME supervisor \in Supervisors, NEW to \in SupervisorPCs,
           supervisor' = [supervisor EXCEPT !.pc = to]
    PROVE  supervisor' \in Supervisors
  BY DEF Supervisors

\* What a step does to the launcher.
Launching == \/ launcher' = launcher
             \/ \E to \in LauncherPCs \ {"launch"} : LauncherGoto(to)
             \/ launcher.attempt < LoaderAttempts /\ LauncherGoto("launch")
             \/ launcher.pc = "launch" /\ launcher' = [pc |-> "await", attempt |-> launcher.attempt + 1]
             \/ launcher' = [pc |-> "launch", attempt |-> 0]

LEMMA LaunchingTyped ==
    ASSUME ProcessesTyped, Launching
    PROVE  /\ launcher' \in Launchers
           /\ launcher'.pc = "launch" => launcher'.attempt < LoaderAttempts
<1>1. /\ launcher \in Launchers /\ launcher.attempt \in 0..LoaderAttempts
      /\ launcher.pc = "launch" => launcher.attempt < LoaderAttempts
  BY DEF ProcessesTyped, Launchers
<1>2. "launch" \in LauncherPCs /\ "await" \in LauncherPCs
  BY DEF LauncherPCs, Unguarded
<1>3. CASE launcher' = launcher
  BY <1>1, <1>3
<1>4. CASE \E to \in LauncherPCs \ {"launch"} : LauncherGoto(to)
  BY <1>1, <1>4, LauncherMoves
<1>5. CASE launcher.attempt < LoaderAttempts /\ LauncherGoto("launch")
  BY <1>1, <1>2, <1>5, LauncherMoves
<1>6. CASE launcher.pc = "launch" /\ launcher' = [pc |-> "await", attempt |-> launcher.attempt + 1]
  <2>1. launcher.attempt + 1 \in 0..LoaderAttempts
    BY <1>1, <1>6, BluetoothConstants
  <2>2. QED
    BY <1>2, <1>6, <2>1 DEF Launchers
<1>7. CASE launcher' = [pc |-> "launch", attempt |-> 0]
  BY <1>2, <1>7, BluetoothConstants DEF Launchers
<1>8. QED
  BY <1>3, <1>4, <1>5, <1>6, <1>7 DEF Launching

LEMMA TermedLaunches == ASSUME LauncherTermed PROVE Launching
<1>1. "gone" \in LauncherPCs \ {"launch"} /\ "cleanup" \in LauncherPCs \ {"launch"}
  BY DEF LauncherPCs
<1>2. LauncherGoto("gone") \/ LauncherGoto("cleanup")
  BY DEF LauncherTermed, LauncherGoto
<1>3. QED
  BY <1>1, <1>2 DEF Launching

LEMMA NextLaunches == ASSUME NextAttempt PROVE Launching
<1>1. "gone" \in LauncherPCs \ {"launch"}
  BY DEF LauncherPCs
<1>2. QED
  BY <1>1 DEF NextAttempt, Launching

LEMMA ProcessesStep ==
    ASSUME ProcessesTyped, [BluetoothNext]_bluetooth
    PROVE  ProcessesTyped'
<1>. DEFINE P == SUBSET {"loader", "launcher", "supervisor"}
<1>1. /\ supervisor \in Supervisors /\ swept \in {{"no"}, {"done"}} \cup P
  BY DEF ProcessesTyped
<1>2. {"up", "watch", "cleanup", "kill", "gone"} \subseteq LauncherPCs \ {"launch"}
  BY DEF LauncherPCs, Unguarded
<1>3. "gone" \in SupervisorPCs /\ "delay" \in SupervisorPCs /\ "spawn" \in SupervisorPCs
  BY DEF SupervisorPCs
<1>4. SUFFICES Launching /\ supervisor' \in Supervisors /\ swept' \in {{"no"}, {"done"}} \cup P
  BY LaunchingTyped DEF ProcessesTyped
<1>5. CASE LoaderStep \/ UNCHANGED bluetooth
  BY <1>1, <1>5 DEF LoaderStep, bluetooth, Launching
<1>6. CASE LauncherStep \/ AwaitTimeout \/ WatchEnds \/ LauncherKilled
  <2>1. supervisor' = supervisor /\ swept' = swept
    BY <1>6 DEF LauncherStep, AwaitTimeout, WatchEnds, LauncherKilled, Launch, Reuse, Await,
       Reaped, BringUp, CleanedUp
  <2>2. Launching
    BY <1>2, <1>6, NextLaunches DEF LauncherStep, AwaitTimeout, WatchEnds, LauncherKilled, Launch,
       Reuse, Await, Reaped, BringUp, CleanedUp, Launching
  <2>3. QED
    BY <1>1, <2>1, <2>2
<1>7. CASE Supervise
  <2>1. CASE /\ supervisor.rounds < MaxRounds
             /\ supervisor' = [pc |-> "wait", rounds |-> supervisor.rounds + 1]
             /\ launcher' = [pc |-> "launch", attempt |-> 0]
    <3>1. supervisor.rounds + 1 \in 0..MaxRounds
      BY <1>1, <2>1, BluetoothConstants DEF Supervisors
    <3>2. supervisor' \in Supervisors
      BY <2>1, <3>1 DEF Supervisors, SupervisorPCs
    <3>3. QED
      BY <1>1, <1>7, <2>1, <3>2 DEF Supervise, Launching
  <2>2. CASE /\ \E to \in {"gone", "delay", "spawn"} : supervisor' = [supervisor EXCEPT !.pc = to]
             /\ launcher' = launcher
    BY <1>1, <1>3, <1>7, <2>2, SupervisorMoves DEF Supervise, Launching
  <2>3. QED
    BY <1>7, <2>1, <2>2 DEF Supervise
<1>8. CASE BeginBluetoothSweep
  <2>1. swept' \in P
    BY <1>8 DEF BeginBluetoothSweep, BluetoothAlive
  <2>2. QED
    BY <1>1, <1>8, <2>1 DEF BeginBluetoothSweep, Launching
<1>9. CASE SweepBluetooth
  <2>1. PICK p \in {"loader", "launcher", "supervisor"} \cap swept : SignalBluetooth(p)
    BY <1>9 DEF SweepBluetooth
  <2>2. swept' \in {{"no"}, {"done"}} \cup P
    BY <1>1, <2>1 DEF SignalBluetooth
  <2>3. supervisor' \in Supervisors
    BY <1>1, <1>3, <2>1, SupervisorMoves DEF SignalBluetooth
  <2>4. Launching
    BY <2>1, TermedLaunches DEF SignalBluetooth, Launching
  <2>5. QED
    BY <2>2, <2>3, <2>4
<1>10. QED
  BY <1>5, <1>6, <1>7, <1>8, <1>9 DEF BluetoothNext

-----------------------------------------------------------------------------
(* The confirmation dialog.                                                *)

LEMMA DialogBegins == ASSUME DialogInit PROVE DialogTypeOK
  BY SessionDialogConstants DEF DialogInit, DialogTypeOK

\* The queues of the dialog lose their first call, or gain a last one.
LEMMA QueueTyped ==
    ASSUME NEW S, NEW q \in Seq(S)
    PROVE  /\ \A x \in S : Append(q, x) \in Seq(S)
           /\ \A x, y \in S : q \o <<x, y>> \in Seq(S)
           /\ q # <<>> => Tail(q) \in Seq(S) /\ Head(q) \in S
<1>1. \A x, y \in S : <<x, y>> \in Seq(S)
  OBVIOUS
<1>2. QED
  BY <1>1, AppendProperties, ConcatProperties, HeadTailProperties

LEMMA Told ==
    ASSUME wire \in Seq(Messages), NEW call \in Calls,
           NEW kind \in {"opened", "failed", "Canceled", "Closed", "Confirmed"}, Tell(kind, call)
    PROVE  wire' \in Seq(Messages)
<1>1. [kind |-> kind, call |-> call] \in Messages
  BY DEF Messages
<1>2. QED
  BY <1>1, QueueTyped DEF Tell

LEMMA DialogTypeStep ==
    ASSUME DialogTypeOK, [DialogNext]_dialogs
    PROVE  DialogTypeOK'
<1>1. /\ pending \in Actions \cup {None} /\ idle \in Seq(Calls) /\ opens \in Seq(Calls)
      /\ waiting \subseteq Calls /\ dialog \in Calls \cup {None} /\ wire \in Seq(Messages)
      /\ requests \in 0..MaxRequests /\ done \subseteq Calls
  BY DEF DialogTypeOK
<1>2. CASE UNCHANGED dialogs
  BY <1>1, <1>2 DEF dialogs, DialogTypeOK
<1>3. ASSUME NEW a \in Actions, Request(a)
      PROVE  DialogTypeOK'
  <2>1. requests + 1 \in 1..MaxRequests
    BY <1>1, <1>3, SessionDialogConstants DEF Request
  <2>2. [action |-> a, id |-> requests + 1] \in Calls
    BY <2>1 DEF Calls
  <2>3. idle' \in Seq(Calls)
    BY <1>1, <1>3, <2>2, QueueTyped DEF Request
  <2>4. QED
    BY <1>1, <1>3, <2>1, <2>3 DEF Request, DialogTypeOK
<1>4. CASE OpenDialog
  <2>1. idle' \in Seq(Calls) /\ Head(idle) \in Calls
    BY <1>1, <1>4, QueueTyped DEF OpenDialog
  <2>2. opens' \in Seq(Calls) /\ waiting' \subseteq Calls
    BY <1>1, <1>4, <2>1, QueueTyped DEF OpenDialog
  <2>3. QED
    BY <1>1, <1>4, <2>1, <2>2 DEF OpenDialog, DialogTypeOK
<1>5. CASE ShellOpens
  <2>1. opens' \in Seq(Calls) /\ Head(opens) \in Calls
    BY <1>1, <1>5, QueueTyped DEF ShellOpens
  <2>2. wire' \in Seq(Messages) /\ dialog' \in Calls \cup {None}
    BY <1>1, <1>5, <2>1, Told DEF ShellOpens
  <2>3. QED
    BY <1>1, <1>5, <2>1, <2>2 DEF ShellOpens, DialogTypeOK
<1>6. CASE Confirm
  <2>1. wire' \in Seq(Messages)
    BY <1>1, <1>6, Told DEF Confirm
  <2>2. QED
    BY <1>1, <1>6, <2>1 DEF Confirm, DialogTypeOK
<1>7. CASE Cancel
  <2>1. dialog \in Calls
    BY <1>1, <1>7 DEF Cancel
  <2>2. [kind |-> "Canceled", call |-> dialog] \in Messages /\ [kind |-> "Closed", call |-> dialog] \in Messages
    BY <2>1 DEF Messages
  <2>3. wire' \in Seq(Messages)
    BY <1>1, <1>7, <2>2, QueueTyped DEF Cancel
  <2>4. QED
    BY <1>1, <1>7, <2>3 DEF Cancel, DialogTypeOK
<1>8. CASE OpenTimeout
  BY <1>1, <1>8 DEF OpenTimeout, DialogTypeOK
<1>9. CASE Receive
  <2>1. wire' \in Seq(Messages) /\ Head(wire) \in Messages
    BY <1>1, <1>9, QueueTyped DEF Receive
  <2>2. Head(wire).call \in Calls
    BY <2>1 DEF Messages
  <2>3. pending' \in Actions \cup {None} /\ waiting' \subseteq Calls /\ done' \subseteq Calls
    BY <1>1, <1>9, <2>2 DEF Receive, Reply, Closes, Confirmed
  <2>4. QED
    BY <1>1, <1>9, <2>1, <2>3 DEF Receive, DialogTypeOK
<1>10. QED
  BY <1>2, <1>3, <1>4, <1>5, <1>6, <1>7, <1>8, <1>9 DEF DialogNext

\* The calls and messages of the newest request: it was queued last, is shown after all
\* others, and is replied to once.
Newest(call) == call.id = requests
Replied(i) == wire[i].kind \in {"opened", "failed"} /\ Newest(wire[i].call)
IdleLast == \A i \in 1..Len(idle) : idle[i].id <= requests /\ (Newest(idle[i]) => i = Len(idle))
OpensLast == \A i \in 1..Len(opens) :
                opens[i].id <= requests /\ (Newest(opens[i]) => i = Len(opens) /\ idle = <<>>)
ShownLast == dialog # None =>
                dialog.id <= requests /\ (Newest(dialog) => opens = <<>> /\ idle = <<>>)
WireLast == \A i \in 1..Len(wire) : /\ wire[i].call.id <= requests
                                    /\ Newest(wire[i].call) => opens = <<>> /\ idle = <<>>
RepliedOnce == \A i, j \in 1..Len(wire) : Replied(i) /\ Replied(j) => i = j
Requested == pending # None => requests > 0
Ordered == IdleLast /\ OpensLast /\ ShownLast /\ WireLast /\ RepliedOnce /\ Requested
DialogInv == DialogTypeOK /\ Ordered /\ StillOwed

LEMMA DialogStarts == ASSUME DialogInit PROVE DialogInv
<1>1. /\ Len(idle) = 0 /\ Len(opens) = 0 /\ Len(wire) = 0 /\ dialog = None /\ pending = None
  BY DEF DialogInit
<1>2. QED
  BY <1>1, DialogBegins DEF DialogInv, Ordered, IdleLast, OpensLast, ShownLast, WireLast,
     RepliedOnce, Requested, StillOwed

\* The elements of a queue that lost its first or gained a last one.
LEMMA QueueMoves ==
    ASSUME NEW S, NEW q \in Seq(S)
    PROVE  /\ Len(q) \in Nat /\ \A i \in 1..Len(q) : q[i] \in S
           /\ q # <<>> => /\ Len(q) > 0 /\ Len(Tail(q)) = Len(q) - 1 /\ Head(q) = q[1]
                          /\ \A i \in 1..Len(Tail(q)) : Tail(q)[i] = q[i + 1]
                          /\ Len(q) = 1 => Tail(q) = <<>>
           /\ \A x \in S : /\ Len(Append(q, x)) = Len(q) + 1 /\ Append(q, x)[Len(q) + 1] = x
                           /\ \A i \in 1..Len(q) : Append(q, x)[i] = q[i]
<1>1. ASSUME q # <<>>, Len(q) = 1 PROVE Tail(q) = <<>>
  <2>1. Tail(q) \in Seq(S) /\ Len(Tail(q)) = 0
    BY <1>1, HeadTailProperties
  <2>2. QED
    BY <2>1, EmptySeq
<1>2. QED
  BY <1>1, HeadTailProperties, LenProperties, EmptySeq, AppendProperties, ElementOfSeq

LEMMA CallFacts == \A c \in Calls : c.id \in Nat /\ c.action \in Actions /\ c \in Calls
  BY SessionDialogConstants DEF Calls

\* The shapes that a step gives to the wire.
Tells(kinds, call) == \E kind \in kinds : Tell(kind, call)
Grows(kinds, call) ==
    /\ Len(wire') >= Len(wire)
    /\ \A i \in 1..Len(wire) : wire'[i] = wire[i]
    /\ \A i \in Len(wire)+1..Len(wire') : wire'[i].kind \in kinds /\ wire'[i].call = call

LEMMA TellGrows ==
    ASSUME wire \in Seq(Messages), NEW call \in Calls,
           NEW kind \in {"opened", "failed", "Canceled", "Closed", "Confirmed"}, Tell(kind, call)
    PROVE  Grows({kind}, call) /\ Len(wire') = Len(wire) + 1
<1>. DEFINE m == [kind |-> kind, call |-> call]
<1>1. m \in Messages /\ m.kind = kind /\ m.call = call
  BY DEF Messages
<1>2. wire' = Append(wire, m)
  BY DEF Tell
<1>. HIDE DEF m
<1>3. /\ Len(wire) \in Nat /\ Len(wire') = Len(wire) + 1 /\ wire'[Len(wire) + 1] = m
      /\ \A i \in 1..Len(wire) : wire'[i] = wire[i]
  BY <1>1, <1>2, QueueMoves
<1>4. QED
  BY <1>1, <1>3 DEF Grows

LEMMA CancelGrows ==
    ASSUME wire \in Seq(Messages), dialog \in Calls, Cancel
    PROVE  Grows({"Canceled", "Closed"}, dialog) /\ Len(wire') = Len(wire) + 2
<1>. DEFINE a == [kind |-> "Canceled", call |-> dialog]
            b == [kind |-> "Closed", call |-> dialog]
            p == <<a, b>>
<1>1. p \in Seq(Messages) /\ a.call = dialog /\ b.call = dialog
  BY DEF Messages
<1>2. Len(p) = 2 /\ p[1] = a /\ p[2] = b
  OBVIOUS
<1>3. wire' = wire \o p
  BY DEF Cancel
<1>. HIDE DEF p
<1>4. /\ Len(wire') = Len(wire) + Len(p)
      /\ \A i \in 1..Len(wire) : wire'[i] = wire[i]
      /\ \A i \in 1..Len(p) : wire'[Len(wire) + i] = p[i]
  BY <1>1, <1>3, ConcatProperties
<1>5. Len(wire) \in Nat /\ a.kind = "Canceled" /\ b.kind = "Closed"
  BY LenProperties
<1>6. /\ wire'[Len(wire) + 1] = a /\ wire'[Len(wire) + 2] = b
      /\ \A i \in Len(wire)+1..Len(wire') : i = Len(wire) + 1 \/ i = Len(wire) + 2
  BY <1>2, <1>4, <1>5
<1>. HIDE DEF a, b
<1>7. QED
  BY <1>1, <1>2, <1>4, <1>5, <1>6 DEF Grows

\* What the invariant says of the queues that a step leaves alone.
LEMMA OrderedStep ==
    ASSUME DialogInv, [DialogNext]_dialogs
    PROVE  Ordered'
<1>1. /\ idle \in Seq(Calls) /\ opens \in Seq(Calls) /\ wire \in Seq(Messages)
      /\ dialog \in Calls \cup {None} /\ requests \in Nat
      /\ Len(idle) \in Nat /\ Len(opens) \in Nat /\ Len(wire) \in Nat
  BY LenProperties DEF DialogInv, DialogTypeOK
<1>2. /\ \A i \in 1..Len(idle) : idle[i] \in Calls /\ idle[i].id \in Nat
      /\ \A i \in 1..Len(opens) : opens[i] \in Calls /\ opens[i].id \in Nat
      /\ \A i \in 1..Len(wire) : wire[i] \in Messages /\ wire[i].call.id \in Nat
      /\ dialog # None => dialog \in Calls /\ dialog.id \in Nat
  <2>1. \A m \in Messages : m.call \in Calls
    BY DEF Messages
  <2>2. /\ \A i \in 1..Len(idle) : idle[i] \in Calls
        /\ \A i \in 1..Len(opens) : opens[i] \in Calls
        /\ \A i \in 1..Len(wire) : wire[i] \in Messages
    BY <1>1, ElementOfSeq
  <2>3. QED
    BY <1>1, <2>1, <2>2, CallFacts
<1>3. IdleLast /\ OpensLast /\ ShownLast /\ WireLast /\ RepliedOnce
  BY DEF DialogInv, Ordered
<1>a. Requested'
  <2>1. \/ pending' = pending /\ requests' = requests
        \/ pending' = None
        \/ requests' = requests + 1
    BY DEF DialogNext, Request, OpenDialog, ShellOpens, Confirm, Cancel, OpenTimeout, Receive,
       Reply, Closes, Confirmed, dialogs
  <2>2. QED
    BY <1>1, <2>1 DEF DialogInv, Ordered, Requested
<1>4. CASE UNCHANGED dialogs
  BY <1>3, <1>4, <1>a DEF dialogs, Ordered, IdleLast, OpensLast, ShownLast, WireLast, RepliedOnce,
     Newest, Replied
<1>5. ASSUME NEW a \in Actions, Request(a)
      PROVE  Ordered'
  <2>. DEFINE c == [action |-> a, id |-> requests + 1]
  <2>1. /\ idle' = Append(idle, c) /\ requests' = requests + 1 /\ opens' = opens /\ wire' = wire
        /\ dialog' = dialog /\ requests < MaxRequests
    BY <1>5 DEF Request
  <2>2. c \in Calls /\ c.id = requests + 1
    BY <1>1, <2>1, SessionDialogConstants DEF Calls
  <2>. HIDE DEF c
  <2>3. /\ Len(idle') = Len(idle) + 1 /\ idle'[Len(idle) + 1] = c
        /\ \A i \in 1..Len(idle) : idle'[i] = idle[i]
    BY <1>1, <2>1, <2>2, QueueMoves
  <2>4. IdleLast'
    BY <1>1, <1>2, <1>3, <2>1, <2>2, <2>3 DEF IdleLast, Newest
  <2>5. OpensLast' /\ ShownLast' /\ WireLast'
    <3>1. \A k \in Nat : k <= requests => k <= requests' /\ k # requests'
      BY <1>1, <2>1
    <3>2. OpensLast'
      BY <1>2, <1>3, <2>1, <3>1 DEF OpensLast, Newest
    <3>3. ShownLast'
      BY <1>2, <1>3, <2>1, <3>1 DEF ShownLast, Newest
    <3>4. WireLast'
      BY <1>2, <1>3, <2>1, <3>1 DEF WireLast, Newest
    <3>5. QED
      BY <3>2, <3>3, <3>4
  <2>6. RepliedOnce'
    BY <1>1, <1>2, <1>3, <2>1 DEF RepliedOnce, Replied, WireLast, Newest
  <2>7. QED
    BY <1>a, <2>4, <2>5, <2>6 DEF Ordered
<1>6. CASE OpenDialog
  <2>1. /\ idle # <<>> /\ idle' = Tail(idle) /\ opens' = Append(opens, Head(idle))
        /\ wire' = wire /\ dialog' = dialog /\ requests' = requests
    BY <1>6 DEF OpenDialog
  <2>2. /\ Len(idle) > 0 /\ Len(idle') = Len(idle) - 1 /\ Head(idle) = idle[1]
        /\ \A i \in 1..Len(idle') : idle'[i] = idle[i + 1]
        /\ Len(idle) = 1 => idle' = <<>>
    BY <1>1, <2>1, QueueMoves
  <2>3. Head(idle) \in Calls
    BY <1>1, <1>2, <2>2
  <2>4. /\ Len(opens') = Len(opens) + 1 /\ opens'[Len(opens) + 1] = Head(idle)
        /\ \A i \in 1..Len(opens) : opens'[i] = opens[i]
    BY <1>1, <2>1, <2>3, QueueMoves
  <2>5. IdleLast'
    <3>1. ASSUME NEW i \in 1..Len(idle')
          PROVE  idle'[i].id <= requests /\ (idle'[i].id = requests => i = Len(idle'))
      <4>1. i + 1 \in 1..Len(idle) /\ idle'[i] = idle[i + 1]
        BY <1>1, <2>2
      <4>2. QED
        BY <1>1, <1>3, <2>2, <4>1 DEF IdleLast, Newest
    <3>2. QED
      BY <2>1, <3>1 DEF IdleLast, Newest
  <2>6. OpensLast'
    <3>1. ASSUME NEW i \in 1..Len(opens')
          PROVE  /\ opens'[i].id <= requests
                 /\ opens'[i].id = requests => i = Len(opens') /\ idle' = <<>>
      <4>1. CASE i \in 1..Len(opens)
        BY <1>2, <1>3, <2>1, <2>4, <4>1 DEF OpensLast, Newest
      <4>2. CASE i = Len(opens) + 1
        BY <1>1, <1>2, <1>3, <2>2, <2>4, <4>2 DEF IdleLast, Newest
      <4>3. QED
        BY <1>1, <2>4, <4>1, <4>2
    <3>2. QED
      BY <2>1, <3>1 DEF OpensLast, Newest
  <2>7. ShownLast' /\ WireLast' /\ RepliedOnce'
    BY <1>1, <1>2, <1>3, <2>1 DEF ShownLast, WireLast, RepliedOnce, Replied, Newest
  <2>8. QED
    BY <1>a, <2>5, <2>6, <2>7 DEF Ordered
<1>7. ASSUME Len(wire') >= Len(wire), Len(wire') \in Nat, \A i \in 1..Len(wire) : wire'[i] = wire[i],
             \A i \in Len(wire)+1..Len(wire') : dialog # None /\ wire'[i].call = dialog
                  /\ wire'[i].kind \notin {"opened", "failed"},
             requests' = requests, idle' = idle, opens' = opens
      PROVE  WireLast' /\ RepliedOnce'
  <2>1. ASSUME NEW i \in 1..Len(wire')
        PROVE  /\ wire'[i].call.id <= requests
               /\ wire'[i].call.id = requests => opens = <<>> /\ idle = <<>>
    <3>1. CASE i \in 1..Len(wire)
      BY <1>3, <1>7, <3>1 DEF WireLast, Newest
    <3>2. CASE i \in Len(wire)+1..Len(wire')
      BY <1>3, <1>7, <3>2 DEF ShownLast, Newest
    <3>3. QED
      BY <1>1, <1>7, <3>1, <3>2
  <2>2. ASSUME NEW i \in 1..Len(wire'), Replied(i)' PROVE i \in 1..Len(wire) /\ Replied(i)
    BY <1>1, <1>7, <2>2 DEF Replied, Newest
  <2>3. QED
    BY <1>3, <1>7, <2>1, <2>2 DEF WireLast, RepliedOnce, Newest
<1>8. CASE ShellOpens
  <2>1. /\ opens # <<>> /\ opens' = Tail(opens) /\ idle' = idle /\ requests' = requests
        /\ dialog' = dialog \/ dialog' = Head(opens)
    BY <1>8 DEF ShellOpens
  <2>2. /\ Len(opens) > 0 /\ Len(opens') = Len(opens) - 1 /\ Head(opens) = opens[1]
        /\ \A i \in 1..Len(opens') : opens'[i] = opens[i + 1]
        /\ Len(opens) = 1 => opens' = <<>>
    BY <1>1, <2>1, QueueMoves
  <2>. DEFINE c == Head(opens)
  <2>3. c \in Calls /\ c.id <= requests /\ (c.id = requests => opens' = <<>> /\ idle' = <<>>)
    <3>1. 1 \in 1..Len(opens) /\ c = opens[1]
      BY <1>1, <2>2
    <3>. HIDE DEF c
    <3>2. c \in Calls /\ c.id <= requests /\ (c.id = requests => 1 = Len(opens) /\ idle = <<>>)
      BY <1>2, <1>3, <3>1 DEF OpensLast, Newest
    <3>3. QED
      BY <2>1, <2>2, <3>2
  <2>4. PICK kind \in {"opened", "failed"} : Tell(kind, c)
    BY <1>8 DEF ShellOpens
  <2>. HIDE DEF c
  <2>5. Grows({kind}, c) /\ Len(wire') = Len(wire) + 1
    BY <1>1, <2>3, <2>4, TellGrows
  <2>6. \A i \in 1..Len(wire) : wire[i].call.id # requests
    BY <1>3, <2>1 DEF WireLast, Newest
  <2>7. IdleLast' /\ OpensLast'
    <3>1. ASSUME NEW i \in 1..Len(opens')
          PROVE  /\ opens'[i].id <= requests
                 /\ opens'[i].id = requests => i = Len(opens') /\ idle = <<>>
      <4>1. i + 1 \in 1..Len(opens) /\ opens'[i] = opens[i + 1]
        BY <1>1, <2>2
      <4>2. QED
        BY <1>1, <1>3, <2>2, <4>1 DEF OpensLast, Newest
    <3>2. QED
      BY <1>3, <2>1, <3>1 DEF IdleLast, OpensLast, Newest
  <2>8. ShownLast'
    BY <1>2, <1>3, <2>1, <2>3 DEF ShownLast, Newest, c
  <2>9. WireLast'
    <3>1. ASSUME NEW i \in 1..Len(wire')
          PROVE  /\ wire'[i].call.id <= requests
                 /\ wire'[i].call.id = requests => opens' = <<>> /\ idle' = <<>>
      <4>1. CASE i \in 1..Len(wire)
        BY <1>3, <2>5, <2>6, <4>1 DEF WireLast, Newest, Grows
      <4>2. CASE i \in Len(wire)+1..Len(wire')
        BY <2>3, <2>5, <4>2 DEF Grows
      <4>3. QED
        BY <1>1, <2>5, <4>1, <4>2
    <3>2. QED
      BY <2>1, <3>1 DEF WireLast, Newest
  <2>10. RepliedOnce'
    <3>1. ASSUME NEW i \in 1..Len(wire'), Replied(i)' PROVE i = Len(wire) + 1
      BY <1>1, <2>1, <2>5, <2>6, <3>1 DEF Replied, Newest, Grows
    <3>2. QED
      BY <3>1 DEF RepliedOnce
  <2>11. QED
    BY <1>a, <2>7, <2>8, <2>9, <2>10 DEF Ordered
<1>9. CASE Confirm \/ Cancel
  <2>1. /\ dialog # None /\ dialog' = None /\ idle' = idle /\ opens' = opens /\ requests' = requests
    BY <1>9 DEF Confirm, Cancel
  <2>2. \/ Grows({"Confirmed"}, dialog) /\ Len(wire') = Len(wire) + 1
        \/ Grows({"Canceled", "Closed"}, dialog) /\ Len(wire') = Len(wire) + 2
    BY <1>1, <1>2, <1>9, <2>1, TellGrows, CancelGrows DEF Confirm
  <2>3. WireLast' /\ RepliedOnce'
    BY <1>1, <1>7, <2>1, <2>2 DEF Grows
  <2>4. IdleLast' /\ OpensLast' /\ ShownLast'
    BY <1>3, <2>1 DEF IdleLast, OpensLast, ShownLast, Newest
  <2>5. QED
    BY <1>a, <2>3, <2>4 DEF Ordered
<1>10. CASE OpenTimeout
  BY <1>3, <1>10, <1>a DEF OpenTimeout, Ordered, IdleLast, OpensLast, ShownLast, WireLast, RepliedOnce,
     Newest, Replied
<1>11. CASE Receive
  <2>1. /\ wire # <<>> /\ wire' = Tail(wire) /\ idle' = idle /\ opens' = opens /\ dialog' = dialog
        /\ requests' = requests
    BY <1>11 DEF Receive
  <2>2. /\ Len(wire) > 0 /\ Len(wire') = Len(wire) - 1
        /\ \A i \in 1..Len(wire') : wire'[i] = wire[i + 1]
    BY <1>1, <2>1, QueueMoves
  <2>3. WireLast'
    BY <1>1, <1>3, <2>1, <2>2 DEF WireLast, Newest
  <2>4. RepliedOnce'
    <3>1. ASSUME NEW i \in 1..Len(wire'), Replied(i)' PROVE i + 1 \in 1..Len(wire) /\ Replied(i + 1)
      BY <1>1, <2>1, <2>2, <3>1 DEF Replied, Newest
    <3>2. QED
      BY <1>1, <1>3, <2>2, <3>1 DEF RepliedOnce
  <2>5. IdleLast' /\ OpensLast' /\ ShownLast'
    BY <1>3, <2>1 DEF IdleLast, OpensLast, ShownLast, Newest
  <2>6. QED
    BY <1>a, <2>3, <2>4, <2>5 DEF Ordered
<1>12. QED
  BY <1>4, <1>5, <1>6, <1>8, <1>9, <1>10, <1>11 DEF DialogNext

\* A step that does not give the pending action up keeps an answer to it owed, each kind of
\* answer in its own way.
LEMMA OwedStep ==
    ASSUME DialogInv, [DialogNext]_dialogs
    PROVE  StillOwed'
<1>1. /\ idle \in Seq(Calls) /\ opens \in Seq(Calls) /\ wire \in Seq(Messages)
      /\ dialog \in Calls \cup {None} /\ requests \in Nat
      /\ Len(idle) \in Nat /\ Len(opens) \in Nat /\ Len(wire) \in Nat
      /\ OpensLast /\ ShownLast /\ WireLast /\ RepliedOnce
  BY LenProperties DEF DialogInv, DialogTypeOK, Ordered
<1>2. CASE \E a \in Actions : Request(a)
  <2>1. PICK a \in Actions : Request(a)
    BY <1>2
  <2>. DEFINE c == [action |-> a, id |-> requests + 1]
  <2>2. idle' = Append(idle, c) /\ pending' = a /\ requests' = requests + 1 /\ c \in Calls
    BY <1>1, <2>1, SessionDialogConstants DEF Request, Calls
  <2>3. Len(idle') = Len(idle) + 1 /\ idle'[Len(idle) + 1] = c
    BY <1>1, <2>2, QueueMoves
  <2>4. In(c, idle')
    BY <1>1, <2>3 DEF In
  <2>5. QED
    BY <2>2, <2>4 DEF StillOwed
<1>3. CASE OpenTimeout
  BY <1>3 DEF OpenTimeout, StillOwed
<1>4. CASE OpenDialog \/ ShellOpens \/ Confirm \/ Cancel \/ Receive \/ UNCHANGED dialogs
  <2>1. SUFFICES ASSUME pending' # None
                 PROVE  \E c : /\ c = [action |-> pending', id |-> requests']
                               /\ \/ In(c, idle')
                                  \/ c \in waiting' /\ (In(c, opens') \/ Sent({"failed"}, c)')
                                  \/ dialog' = c
                                  \/ Sent({"Canceled", "Closed", "Confirmed"}, c)'
    BY DEF StillOwed, Sent
  <2>2. pending' = pending /\ requests' = requests
    BY <1>4, <2>1 DEF OpenDialog, ShellOpens, Confirm, Cancel, Receive, Reply, Closes, Confirmed,
       dialogs
  <2>3. PICK c : c = [action |-> pending, id |-> requests]
    OBVIOUS
  <2>4. c.id = requests /\ c.action = pending
    BY <2>3
  <2>n. c # None
    <3>1. requests \in 1..MaxRequests /\ pending \in Actions
      BY <1>1, <2>1, <2>2 DEF DialogInv, DialogTypeOK, Ordered, Requested
    <3>2. QED
      BY <2>3, <3>1, SessionDialogConstants DEF Calls
  <2>5. \/ In(c, idle)
        \/ c \in waiting /\ (In(c, opens) \/ Sent({"failed"}, c))
        \/ dialog = c
        \/ Sent({"Canceled", "Closed", "Confirmed"}, c)
    BY <2>1, <2>2, <2>3 DEF DialogInv, StillOwed
  <2>6. SUFFICES \/ In(c, idle')
                 \/ c \in waiting' /\ (In(c, opens') \/ Sent({"failed"}, c)')
                 \/ dialog' = c
                 \/ Sent({"Canceled", "Closed", "Confirmed"}, c)'
    BY <2>2, <2>3
  <2>7. CASE UNCHANGED dialogs
    BY <2>5, <2>7 DEF dialogs, Sent
  <2>8. CASE OpenDialog
    <3>1. /\ idle # <<>> /\ idle' = Tail(idle) /\ opens' = Append(opens, Head(idle))
          /\ waiting' = waiting \cup {Head(idle)} /\ wire' = wire /\ dialog' = dialog
      BY <2>8 DEF OpenDialog
    <3>2. /\ Len(idle) > 0 /\ Len(idle') = Len(idle) - 1 /\ Head(idle) = idle[1]
          /\ \A i \in 1..Len(idle') : idle'[i] = idle[i + 1]
      BY <1>1, <3>1, QueueMoves
    <3>3. Head(idle) \in Calls
      BY <1>1, <3>1, HeadTailProperties
    <3>4. /\ Len(opens') = Len(opens) + 1 /\ opens'[Len(opens) + 1] = Head(idle)
          /\ \A i \in 1..Len(opens) : opens'[i] = opens[i]
      BY <1>1, <3>1, <3>3, QueueMoves
    <3>5. ASSUME In(c, idle) PROVE In(c, idle') \/ (c \in waiting' /\ In(c, opens'))
      <4>1. PICK i \in 1..Len(idle) : idle[i] = c
        BY <3>5 DEF In
      <4>2. CASE i = 1
        BY <1>1, <3>1, <3>2, <3>4, <4>1, <4>2 DEF In
      <4>3. CASE i # 1
        <5>1. i - 1 \in 1..Len(idle') /\ idle'[i - 1] = idle[(i - 1) + 1] /\ (i - 1) + 1 = i
          BY <1>1, <3>2, <4>1, <4>3
        <5>2. idle'[i - 1] = c
          BY <4>1, <5>1
        <5>3. In(c, idle')
          BY <5>1, <5>2 DEF In
        <5>4. QED
          BY <5>3
      <4>4. QED
        BY <4>2, <4>3
    <3>6. In(c, opens) => In(c, opens')
      BY <1>1, <3>4 DEF In
    <3>7. QED
      BY <2>5, <3>1, <3>5, <3>6 DEF Sent
  <2>9. ASSUME Len(wire') >= Len(wire), Len(wire') \in Nat, \A i \in 1..Len(wire) : wire'[i] = wire[i]
        PROVE  /\ Sent({"failed"}, c) => Sent({"failed"}, c)'
               /\ Sent({"Canceled", "Closed", "Confirmed"}, c)
                     => Sent({"Canceled", "Closed", "Confirmed"}, c)'
    <3>1. \A i \in 1..Len(wire) : i \in 1..Len(wire')
      BY <1>1, <2>9
    <3>2. ASSUME NEW kinds, Sent(kinds, c) PROVE Sent(kinds, c)'
      <4>1. PICK i \in 1..Len(wire) : wire[i].kind \in kinds /\ wire[i].call = c
        BY <3>2 DEF Sent
      <4>2. QED
        BY <2>9, <3>1, <4>1 DEF Sent
    <3>3. QED
      BY <3>2
  <2>10. CASE ShellOpens
    <3>1. /\ opens # <<>> /\ opens' = Tail(opens) /\ idle' = idle /\ waiting' = waiting
          /\ \/ dialog' = Head(opens) /\ Tell("opened", Head(opens))
             \/ dialog' = dialog /\ Tell("failed", Head(opens))
      BY <2>10 DEF ShellOpens
    <3>2. /\ Len(opens) > 0 /\ Len(opens') = Len(opens) - 1 /\ Head(opens) = opens[1]
          /\ \A i \in 1..Len(opens') : opens'[i] = opens[i + 1]
      BY <1>1, <3>1, QueueMoves
    <3>. DEFINE d == Head(opens)
    <3>3. d \in Calls
      BY <1>1, <3>1, HeadTailProperties
    <3>4. PICK kind \in {"opened", "failed"} :
             Tell(kind, d) /\ (kind = "opened" => dialog' = d) /\ (kind = "failed" => dialog' = dialog)
      BY <3>1
    <3>. HIDE DEF d
    <3>5. Grows({kind}, d) /\ Len(wire') = Len(wire) + 1
      BY <1>1, <3>3, <3>4, TellGrows
    <3>6. /\ Sent({"failed"}, c) => Sent({"failed"}, c)'
          /\ Sent({"Canceled", "Closed", "Confirmed"}, c)
                => Sent({"Canceled", "Closed", "Confirmed"}, c)'
      BY <1>1, <2>9, <3>5 DEF Grows
    <3>7. dialog # c
      <4>1. SUFFICES ASSUME dialog = c, dialog # None PROVE FALSE
        BY <2>n
      <4>2. QED
        BY <1>1, <2>4, <3>1, <4>1 DEF ShownLast, Newest
    <3>8. ASSUME c \in waiting, In(c, opens)
          PROVE  In(c, opens') \/ dialog' = c \/ Sent({"failed"}, c)'
      <4>1. PICK i \in 1..Len(opens) : opens[i] = c
        BY <3>8 DEF In
      <4>2. CASE i = 1
        <5>1. d = c
          BY <3>2, <4>1, <4>2 DEF d
        <5>2. CASE kind = "failed"
          <6>1. Len(wire) + 1 \in Len(wire)+1..Len(wire') /\ Len(wire) + 1 \in 1..Len(wire')
            BY <1>1, <3>5
          <6>2. wire'[Len(wire) + 1].kind \in {"failed"} /\ wire'[Len(wire) + 1].call = c
            BY <3>5, <5>1, <5>2, <6>1 DEF Grows
          <6>3. QED
            BY <6>1, <6>2 DEF Sent
        <5>3. QED
          BY <3>4, <5>1, <5>2
      <4>3. CASE i # 1
        <5>1. i - 1 \in 1..Len(opens') /\ opens'[i - 1] = opens[(i - 1) + 1] /\ (i - 1) + 1 = i
          BY <1>1, <3>2, <4>1, <4>3
        <5>2. opens'[i - 1] = c
          BY <4>1, <5>1
        <5>3. QED
          BY <5>1, <5>2 DEF In
      <4>4. QED
        BY <4>2, <4>3
    <3>9. QED
      BY <2>5, <3>1, <3>6, <3>7, <3>8
  <2>11. CASE Confirm \/ Cancel
    <3>1. /\ dialog # None /\ idle' = idle /\ opens' = opens /\ waiting' = waiting
      BY <2>11 DEF Confirm, Cancel
    <3>2. dialog \in Calls
      BY <1>1, <3>1
    <3>3. PICK kinds \in SUBSET {"Canceled", "Closed", "Confirmed"} :
             Grows(kinds, dialog) /\ Len(wire') > Len(wire) /\ Len(wire') \in Nat
      <4>1. CASE Confirm
        <5>1. Grows({"Confirmed"}, dialog) /\ Len(wire') = Len(wire) + 1
          BY <1>1, <3>2, <4>1, TellGrows DEF Confirm
        <5>2. QED
          BY <1>1, <5>1
      <4>2. CASE Cancel
        <5>1. Grows({"Canceled", "Closed"}, dialog) /\ Len(wire') = Len(wire) + 2
          BY <1>1, <3>2, <4>2, CancelGrows
        <5>2. QED
          BY <1>1, <5>1
      <4>3. QED
        BY <2>11, <4>1, <4>2
    <3>4. /\ Sent({"failed"}, c) => Sent({"failed"}, c)'
          /\ Sent({"Canceled", "Closed", "Confirmed"}, c)
                => Sent({"Canceled", "Closed", "Confirmed"}, c)'
      BY <1>1, <2>9, <3>3 DEF Grows
    <3>5. ASSUME dialog = c PROVE Sent({"Canceled", "Closed", "Confirmed"}, c)'
      <4>1. Len(wire) + 1 \in Len(wire)+1..Len(wire') /\ Len(wire) + 1 \in 1..Len(wire')
        BY <1>1, <3>3
      <4>2. wire'[Len(wire) + 1].kind \in kinds /\ wire'[Len(wire) + 1].call = c
        BY <3>3, <3>5, <4>1 DEF Grows
      <4>3. QED
        BY <4>1, <4>2 DEF Sent
    <3>6. QED
      BY <2>5, <3>1, <3>4, <3>5
  <2>12. CASE Receive
    <3>1. /\ wire # <<>> /\ wire' = Tail(wire) /\ idle' = idle /\ opens' = opens /\ dialog' = dialog
          /\ Reply(Head(wire)) \/ Closes(Head(wire)) \/ Confirmed(Head(wire))
      BY <2>12 DEF Receive
    <3>2. /\ Len(wire) > 0 /\ Len(wire') = Len(wire) - 1 /\ Head(wire) = wire[1]
          /\ \A i \in 1..Len(wire') : wire'[i] = wire[i + 1]
      BY <1>1, <3>1, QueueMoves
    <3>. DEFINE m == wire[1]
    <3>3. \/ m.kind \in {"opened", "failed"} /\ waiting' = waiting \ {m.call}
             /\ (m.kind = "failed" => m.call \notin waiting)
          \/ m.kind = "Confirmed" /\ m.call.action # pending /\ waiting' = waiting
      BY <2>1, <2>2, <3>1, <3>2 DEF Reply, Closes, Confirmed
    <3>4. ASSUME NEW i \in 1..Len(wire), i # 1 PROVE i - 1 \in 1..Len(wire') /\ wire'[i - 1] = wire[i]
      <4>1. i - 1 \in 1..Len(wire') /\ wire'[i - 1] = wire[(i - 1) + 1] /\ (i - 1) + 1 = i
        BY <1>1, <3>2, <3>4
      <4>2. QED
        BY <4>1
    <3>5. ASSUME Sent({"Canceled", "Closed", "Confirmed"}, c)
          PROVE  Sent({"Canceled", "Closed", "Confirmed"}, c)'
      <4>1. PICK i \in 1..Len(wire) :
               wire[i].kind \in {"Canceled", "Closed", "Confirmed"} /\ wire[i].call = c
        BY <3>5 DEF Sent
      <4>2. i # 1
        BY <2>4, <3>3, <4>1
      <4>3. QED
        BY <3>4, <4>1, <4>2 DEF Sent
    <3>6. ASSUME c \in waiting, In(c, opens) PROVE c \in waiting'
      <4>1. m.call # c
        <5>1. 1 \in 1..Len(wire) /\ opens # <<>>
          BY <1>1, <3>2, <3>6 DEF In
        <5>2. QED
          BY <1>1, <2>4, <5>1 DEF WireLast, Newest
      <4>2. QED
        BY <3>3, <3>6, <4>1
    <3>7. ASSUME c \in waiting, Sent({"failed"}, c) PROVE c \in waiting' /\ Sent({"failed"}, c)'
      <4>1. PICK i \in 1..Len(wire) : wire[i].kind = "failed" /\ wire[i].call = c
        BY <3>7 DEF Sent
      <4>2. i # 1
        BY <3>3, <3>7, <4>1
      <4>3. m.call # c \/ m.kind \notin {"opened", "failed"}
        <5>1. SUFFICES ASSUME m.call = c, m.kind \in {"opened", "failed"} PROVE FALSE
          OBVIOUS
        <5>2. 1 \in 1..Len(wire) /\ Replied(1) /\ Replied(i)
          BY <1>1, <2>4, <3>2, <4>1, <5>1 DEF Replied, Newest
        <5>3. QED
          BY <1>1, <4>2, <5>2 DEF RepliedOnce
      <4>4. c \in waiting'
        BY <3>3, <3>7, <4>3
      <4>5. i - 1 \in 1..Len(wire') /\ wire'[i - 1] = wire[i]
        BY <3>4, <4>2
      <4>6. QED
        BY <4>1, <4>4, <4>5 DEF Sent
    <3>8. QED
      BY <2>5, <3>1, <3>5, <3>6, <3>7
  <2>13. QED
    BY <1>4, <2>7, <2>8, <2>10, <2>11, <2>12
<1>5. QED
  BY <1>2, <1>3, <1>4 DEF DialogNext

LEMMA DialogStep == ASSUME DialogInv, [DialogNext]_dialogs PROVE DialogInv'
  BY DialogTypeStep, OrderedStep, OwedStep DEF DialogInv

\* A manager that is busy is owed an answer to its newest request, for any number of
\* requests: no timeout, late reply or signal about an older dialog leaves it busy for good.
THEOREM AnswerIsOwed == DialogSpec => []StillOwed
<1>1. DialogInv => StillOwed
  BY DEF DialogInv
<1>2. QED
  BY <1>1, DialogStarts, DialogStep, PTL DEF DialogSpec

-----------------------------------------------------------------------------
(* The pen guard.                                                          *)

PenGuards == [pc : {"gone", "open", "query", "write", "wait", "leave"}, pending : Seq(Events),
           wanted : BOOLEAN]
Mishaps == [what : SUBSET {"killed", "left", "crossed"}, faults : 0..MaxMishaps]

LEMMA PenBegins == ASSUME PenInit PROVE PenTypeOK
  BY PenGuardConstants DEF PenInit, PenTypeOK

LEMMA MishapTyped ==
    ASSUME mishaps \in Mishaps, NEW what \in SUBSET {"killed", "left", "crossed"}, Faulty(what)
    PROVE  mishaps' \in Mishaps
<1>1. mishaps.faults + 1 \in 0..MaxMishaps
  BY PenGuardConstants DEF Mishaps, Faulty
<1>2. QED
  BY <1>1 DEF Mishaps, Faulty

LEMMA Continues ==
    ASSUME guard \in PenGuards, NEW pending_events \in Seq(Events), guard' = Continue(pending_events)
    PROVE  guard' \in PenGuards
<1>1. CASE pending_events = <<>>
  BY <1>1 DEF Continue, PenGuards
<1>2. CASE pending_events # <<>>
  <2>1. Tail(pending_events) \in Seq(Events)
    BY <1>2, QueueTyped
  <2>2. QED
    BY <1>2, <2>1 DEF Continue, PenGuards
<1>3. QED
  BY <1>1, <1>2

LEMMA GuardGoes ==
    ASSUME guard \in PenGuards, NEW to \in {"gone", "query", "leave"}, guard' = [guard EXCEPT !.pc = to]
    PROVE  guard' \in PenGuards
  BY DEF PenGuards

LEMMA PenTypeStep ==
    ASSUME PenTypeOK, [PenNext]_pen
    PROVE  PenTypeOK'
<1>1. /\ near \in BOOLEAN /\ touch \in BOOLEAN /\ queue \in Seq(Events) /\ Len(queue) <= QueueMax
      /\ guard \in PenGuards /\ mishaps \in Mishaps /\ Len(queue) \in Nat
  BY LenProperties DEF PenTypeOK, PenGuards, Mishaps
<1>2. SUFFICES /\ near' \in BOOLEAN /\ touch' \in BOOLEAN /\ guard' \in PenGuards /\ mishaps' \in Mishaps
               /\ queue' \in Seq(Events) /\ Len(queue') <= QueueMax
  BY DEF PenTypeOK, PenGuards, Mishaps
<1>3. <<>> \in Seq(Events) /\ Len(<<>>) <= QueueMax
  BY PenGuardConstants
<1>4. CASE UNCHANGED pen
  BY <1>1, <1>4 DEF pen
<1>5. CASE MovePen
  <2>1. PICK event \in Events :
           queue' = IF ~GuardRunning THEN queue
                    ELSE IF Len(queue) = QueueMax THEN <<"dropped", event>> ELSE Append(queue, event)
    BY <1>5 DEF MovePen, Events
  <2>2. <<"dropped", event>> \in Seq(Events) /\ Len(<<"dropped", event>>) = 2
    BY DEF Events
  <2>3. Append(queue, event) \in Seq(Events) /\ Len(Append(queue, event)) = Len(queue) + 1
    BY <1>1, AppendProperties
  <2>4. queue' \in Seq(Events) /\ Len(queue') <= QueueMax
    BY <1>1, <2>1, <2>2, <2>3, PenGuardConstants
  <2>5. QED
    BY <1>1, <1>5, <2>4 DEF MovePen
<1>6. CASE Open
  BY <1>1, <1>6, GuardGoes DEF Open
<1>7. CASE Query
  <2>1. <<"dropped">> \in Seq(Events) /\ Len(<<"dropped">>) = 1
    BY DEF Events
  <2>2. queue' \in Seq(Events) /\ Len(queue') <= QueueMax
    BY <1>3, <1>7, <2>1, PenGuardConstants DEF Query
  <2>3. guard' \in PenGuards
    BY <1>1, <1>7 DEF Query, PenGuards
  <2>4. mishaps' = mishaps \/ mishaps' = [mishaps EXCEPT !.what = mishaps.what \cup {"crossed"}]
    BY <1>7 DEF Query
  <2>5. mishaps' \in Mishaps
    BY <1>1, <2>4 DEF Mishaps
  <2>6. QED
    BY <1>1, <1>7, <2>2, <2>3, <2>5 DEF Query
<1>8. CASE WriteTouch
  <2>1. guard.pending \in Seq(Events) /\ guard.wanted \in BOOLEAN
    BY <1>1 DEF PenGuards
  <2>2. guard' \in PenGuards
    BY <1>1, <1>8, <2>1, Continues DEF WriteTouch
  <2>3. QED
    BY <1>1, <1>8, <2>1, <2>2 DEF WriteTouch
<1>9. CASE ReadEvents
  <2>. DEFINE n == IF Len(queue) < Chunk THEN Len(queue) ELSE Chunk
  <2>1. /\ n \in Nat /\ n <= Len(queue) /\ guard' = Continue(SubSeq(queue, 1, n))
        /\ queue' = SubSeq(queue, n + 1, Len(queue))
    BY <1>1, <1>9, PenGuardConstants DEF ReadEvents
  <2>. HIDE DEF n
  <2>2. \A i \in 1..Len(queue) : queue[i] \in Events
    BY <1>1, ElementOfSeq
  <2>3. SubSeq(queue, 1, n) \in Seq(Events)
    BY <1>1, <2>1, <2>2, SubSeqProperties
  <2>4. queue' \in Seq(Events) /\ Len(queue') <= Len(queue)
    <3>1. \A i \in n + 1 .. Len(queue) : queue[i] \in Events
      BY <1>1, <2>1, <2>2
    <3>2. n + 1 \in Int /\ Len(queue) \in Int
      BY <1>1, <2>1
    <3>3. /\ queue' \in Seq(Events)
          /\ Len(queue') = IF n + 1 <= Len(queue) THEN Len(queue) - (n + 1) + 1 ELSE 0
      BY <2>1, <3>1, <3>2, SubSeqProperties
    <3>4. QED
      BY <1>1, <2>1, <3>3
  <2>5. guard' \in PenGuards
    BY <1>1, <2>1, <2>3, Continues
  <2>6. QED
    BY <1>1, <1>9, <2>4, <2>5, PenGuardConstants DEF ReadEvents
<1>10. CASE WriteFails
  BY <1>1, <1>10, GuardGoes, MishapTyped DEF WriteFails
<1>11. CASE Terminate
  <2>1. guard' \in PenGuards
    BY <1>1, <1>11, GuardGoes DEF Terminate
  <2>2. mishaps' \in Mishaps
    BY <1>1, <1>11, MishapTyped DEF Terminate
  <2>3. QED
    BY <1>1, <1>11, <2>1, <2>2 DEF Terminate
<1>12. CASE LeaveGuard
  <2>1. guard' \in PenGuards
    BY <1>1, <1>12, GuardGoes DEF LeaveGuard
  <2>2. mishaps' \in Mishaps
    BY <1>1, <1>12, MishapTyped DEF LeaveGuard
  <2>3. QED
    BY <1>1, <1>3, <1>12, <2>1, <2>2 DEF LeaveGuard
<1>13. CASE KillGuard
  BY <1>1, <1>3, <1>13, GuardGoes, MishapTyped DEF KillGuard
<1>14. QED
  BY <1>4, <1>5, <1>6, <1>7, <1>8, <1>9, <1>10, <1>11, <1>12, <1>13 DEF PenNext, Guard

\* Of the events s the last one that tells something is an arrival; there is no departure.
Nearing(s) == \E i \in 1..Len(s) : s[i] = "in" /\ \A j \in i+1..Len(s) : s[j] # "out"
Lasting(s) == \A i \in 1..Len(s) : s[i] # "out"

\* A guard that has not begun to leave; what it has read and what the kernel has for it
\* agrees with the pen at the end, and so does the touchscreen when that is nothing.
Handling == guard.pc \in {"query", "write", "wait"}
Follows ==
    /\ Nearing(queue) => near
    /\ Nearing(guard.pending) /\ Lasting(queue) => near
    /\ guard.pending = <<>> /\ queue = <<>> =>
          /\ GuardAt("write") => guard.wanted = ~near
          /\ GuardAt("wait") => touch = ~near

PenInv ==
    /\ PenTypeOK
    /\ GuardAt("wait") => guard.pending = <<>>
    /\ GuardAt("open") => queue = <<>> /\ guard.pending = <<>>
    /\ mishaps.what = {} => (Handling => Follows) /\ (GuardAt("gone") => touch)

LEMMA ShortQueues ==
    /\ ~Nearing(<<>>) /\ Lasting(<<>>) /\ ~Nearing(<<"dropped">>) /\ Lasting(<<"dropped">>)
    /\ \A e : (Nearing(<<"dropped", e>>) => e = "in") /\ (Lasting(<<"dropped", e>>) => e # "out")
<1>1. ~Nearing(<<>>) /\ Lasting(<<>>) /\ ~Nearing(<<"dropped">>) /\ Lasting(<<"dropped">>)
  BY DEF Nearing, Lasting
<1>2. ASSUME NEW e
      PROVE  (Nearing(<<"dropped", e>>) => e = "in") /\ (Lasting(<<"dropped", e>>) => e # "out")
  <2>1. Len(<<"dropped", e>>) = 2 /\ <<"dropped", e>>[1] = "dropped" /\ <<"dropped", e>>[2] = e
    OBVIOUS
  <2>2. QED
    BY <2>1 DEF Nearing, Lasting
<1>3. QED
  BY <1>1, <1>2

LEMMA LongerQueue ==
    ASSUME NEW s \in Seq(Events), NEW e \in Events
    PROVE  /\ Nearing(Append(s, e)) => e = "in" \/ e = "dropped"
           /\ Lasting(Append(s, e)) => Lasting(s) /\ e # "out"
<1>. DEFINE t == Append(s, e)
<1>1. /\ Len(s) \in Nat /\ Len(t) = Len(s) + 1 /\ t[Len(s) + 1] = e
      /\ \A i \in 1..Len(s) : t[i] = s[i]
  BY AppendProperties, LenProperties
<1>. HIDE DEF t
<1>2. Nearing(t) => e # "out"
  BY <1>1 DEF Nearing
<1>3. Lasting(t) => Lasting(s) /\ e # "out"
  BY <1>1 DEF Lasting
<1>4. QED
  BY <1>2, <1>3 DEF t, Events

LEMMA CutQueue ==
    ASSUME NEW s \in Seq(Events), NEW n \in 1..Len(s)
    PROVE  /\ Nearing(SubSeq(s, n + 1, Len(s))) => Nearing(s)
           /\ Nearing(SubSeq(s, 1, n)) /\ Lasting(SubSeq(s, n + 1, Len(s))) => Nearing(s)
<1>. DEFINE a == SubSeq(s, 1, n)
            b == SubSeq(s, n + 1, Len(s))
<1>1. Len(s) \in Nat /\ n \in Nat /\ n <= Len(s) /\ \A i \in 1..Len(s) : s[i] \in Events
  BY ElementOfSeq, LenProperties
<1>2. Len(a) = n /\ \A i \in 1..n : a[i] = s[i]
  BY <1>1, SubSeqProperties
<1>3. Len(b) = Len(s) - n /\ \A i \in 1..Len(b) : b[i] = s[n + i]
  BY <1>1, SubSeqProperties
<1>. HIDE DEF a, b
<1>4. ASSUME Nearing(b) PROVE Nearing(s)
  <2>1. PICK i \in 1..Len(b) : b[i] = "in" /\ \A j \in i+1..Len(b) : b[j] # "out"
    BY <1>4 DEF Nearing
  <2>2. n + i \in 1..Len(s) /\ s[n + i] = "in"
    BY <1>1, <1>3, <2>1
  <2>3. ASSUME NEW j \in n+i+1..Len(s) PROVE s[j] # "out"
    <3>1. j - n \in i+1..Len(b) /\ j - n \in 1..Len(b) /\ n + (j - n) = j
      BY <1>1, <1>3, <2>1
    <3>2. b[j - n] # "out" /\ b[j - n] = s[n + (j - n)]
      BY <1>3, <2>1, <3>1
    <3>3. QED
      BY <3>1, <3>2
  <2>4. QED
    BY <2>2, <2>3 DEF Nearing
<1>5. ASSUME Nearing(a), Lasting(b) PROVE Nearing(s)
  <2>1. PICK i \in 1..n : a[i] = "in" /\ \A j \in i+1..n : a[j] # "out"
    BY <1>2, <1>5 DEF Nearing
  <2>2. i \in 1..Len(s) /\ s[i] = "in"
    BY <1>1, <1>2, <2>1
  <2>3. ASSUME NEW j \in i+1..Len(s) PROVE s[j] # "out"
    <3>1. CASE j <= n
      BY <1>1, <1>2, <2>1, <3>1
    <3>2. CASE j > n
      <4>1. j - n \in 1..Len(b) /\ n + (j - n) = j
        BY <1>1, <1>3, <3>2
      <4>2. QED
        BY <1>3, <1>5, <4>1 DEF Lasting
    <3>3. QED
      BY <1>1, <3>1, <3>2
  <2>4. QED
    BY <2>2, <2>3 DEF Nearing
<1>6. QED
  BY <1>4, <1>5 DEF a, b

LEMMA TailNearing ==
    ASSUME NEW s \in Seq(Events), s # <<>>
    PROVE  /\ Nearing(Tail(s)) => Nearing(s)
           /\ Tail(s) = <<>> /\ Head(s) = "in" => Nearing(s)
<1>. DEFINE t == Tail(s)
<1>1. /\ Len(s) \in Nat \ {0} /\ Len(t) = Len(s) - 1 /\ Head(s) = s[1]
      /\ \A i \in 1..Len(t) : t[i] = s[i + 1]
  BY HeadTailProperties, LenProperties, EmptySeq
<1>. HIDE DEF t
<1>2. ASSUME Nearing(t) PROVE Nearing(s)
  <2>1. PICK i \in 1..Len(t) : t[i] = "in" /\ \A j \in i+1..Len(t) : t[j] # "out"
    BY <1>2 DEF Nearing
  <2>2. i + 1 \in 1..Len(s) /\ s[i + 1] = "in"
    BY <1>1, <2>1
  <2>3. ASSUME NEW j \in i+1+1..Len(s) PROVE s[j] # "out"
    <3>1. j - 1 \in i+1..Len(t) /\ (j - 1) + 1 = j /\ j - 1 \in 1..Len(t)
      BY <1>1, <2>1
    <3>2. t[j - 1] # "out" /\ t[j - 1] = s[(j - 1) + 1]
      BY <1>1, <2>1, <3>1
    <3>3. QED
      BY <3>1, <3>2
  <2>4. QED
    BY <2>2, <2>3 DEF Nearing
<1>3. ASSUME t = <<>>, Head(s) = "in" PROVE Nearing(s)
  <2>1. Len(s) = 1
    <3>1. Len(t) = 0
      BY <1>3
    <3>2. QED
      BY <1>1, <3>1
  <2>2. QED
    BY <1>1, <1>3, <2>1 DEF Nearing
<1>4. QED
  BY <1>2, <1>3 DEF t

LEMMA PenStarts == ASSUME PenInit PROVE PenInv
  BY PenBegins, ShortQueues DEF PenInit, PenInv, GuardAt, Handling, Follows

\* What the guard goes on with: an arrival is believed, anything else asked about.
LEMMA ContinueFollows ==
    ASSUME NEW s \in Seq(Events), guard \in PenGuards, guard' = Continue(s),
           near' = near, queue' \in Seq(Events), Nearing(queue') => near,
           Nearing(s) /\ Lasting(queue') => near,
           s = <<>> /\ queue' = <<>> => touch' = ~near
    PROVE  /\ Follows' /\ guard'.pc \in {"query", "write", "wait"}
           /\ guard'.pc = "wait" => guard'.pending = <<>>
<1>1. CASE s = <<>>
  <2>1. guard'.pc = "wait" /\ guard'.pending = <<>>
    BY <1>1 DEF Continue, PenGuards
  <2>2. QED
    BY <1>1, <2>1, ShortQueues DEF Follows, GuardAt
<1>2. CASE s # <<>>
  <2>1. /\ guard'.pc = IF Head(s) = "in" THEN "write" ELSE "query"
        /\ guard'.pending = Tail(s) /\ guard'.wanted = FALSE
    BY <1>2 DEF Continue
  <2>2. Nearing(guard'.pending) => Nearing(s)
    BY <1>2, <2>1, TailNearing
  <2>3. guard'.pending = <<>> /\ queue' = <<>> /\ guard'.pc = "write" => near
    BY <1>2, <2>1, TailNearing, ShortQueues
  <2>4. QED
    BY <2>1, <2>2, <2>3 DEF Follows, GuardAt
<1>3. QED
  BY <1>1, <1>2

LEMMA FaultTold ==
    ASSUME NEW what, Faulty(what)
    PROVE  mishaps'.what = mishaps.what \cup what
  BY DEF Faulty

LEMMA PenStep ==
    ASSUME PenInv, [PenNext]_pen
    PROVE  PenInv'
<1>1. PenTypeOK'
  BY PenTypeStep DEF PenInv
<1>2. /\ near \in BOOLEAN /\ touch \in BOOLEAN /\ queue \in Seq(Events) /\ queue' \in Seq(Events)
      /\ guard \in PenGuards /\ guard.pending \in Seq(Events)
      /\ mishaps \in Mishaps /\ mishaps' \in Mishaps /\ near' \in BOOLEAN
  BY <1>1 DEF PenInv, PenTypeOK, PenGuards, Mishaps
<1>3. /\ guard.pc = "wait" => guard.pending = <<>>
      /\ guard.pc = "open" => queue = <<>> /\ guard.pending = <<>>
      /\ mishaps.what = {} => (Handling => Follows) /\ (guard.pc = "gone" => touch)
  BY DEF PenInv, GuardAt
<1>4. SUFFICES /\ guard'.pc = "wait" => guard'.pending = <<>>
               /\ guard'.pc = "open" => queue' = <<>> /\ guard'.pending = <<>>
               /\ mishaps'.what = {} => (Handling' => Follows') /\ (guard'.pc = "gone" => touch')
  BY <1>1 DEF PenInv, GuardAt
<1>5. CASE UNCHANGED pen
  BY <1>3, <1>5 DEF pen, Handling, Follows, GuardAt
<1>6. CASE MovePen
  <2>. DEFINE e == IF near THEN "out" ELSE "in"
  <2>1. near' = ~near /\ touch' = touch /\ guard' = guard /\ mishaps' = mishaps
    BY <1>6 DEF MovePen
  <2>2. CASE ~GuardRunning
    BY <1>3, <1>6, <2>1, <2>2 DEF MovePen, GuardRunning, Handling
  <2>3. CASE GuardRunning
    <3>1. queue' = <<"dropped", e>> \/ queue' = Append(queue, e)
      BY <1>6, <2>3 DEF MovePen
    <3>2. e \in Events /\ e # "dropped" /\ (e = "in" <=> near')
      BY <1>2, <2>1 DEF Events
    <3>. HIDE DEF e
    <3>3. (Nearing(queue') => near') /\ (Lasting(queue') => near') /\ queue' # <<>>
      <4>1. CASE queue' = <<"dropped", e>>
        <5>1. e # "out" => e = "in"
          BY <3>2 DEF Events
        <5>2. <<"dropped", e>> # <<>>
          OBVIOUS
        <5>3. QED
          BY <3>2, <4>1, <5>1, <5>2, ShortQueues
      <4>2. CASE queue' = Append(queue, e)
        <5>1. e # "out" => e = "in"
          BY <3>2 DEF Events
        <5>2. Append(queue, e) # <<>>
          BY <1>2, <3>2, AppendProperties
        <5>3. QED
          BY <1>2, <3>2, <4>2, <5>1, <5>2, LongerQueue
      <4>3. QED
        BY <3>1, <4>1, <4>2
    <3>4. Follows'
      BY <3>3 DEF Follows
    <3>5. QED
      BY <1>3, <2>1, <2>3, <3>4 DEF GuardRunning
  <2>4. QED
    BY <2>2, <2>3
<1>7. CASE Open
  <2>1. /\ guard'.pc = "query" /\ guard'.pending = guard.pending /\ guard.pending = <<>> /\ queue = <<>>
        /\ queue' = queue /\ near' = near
    BY <1>2, <1>3, <1>7 DEF Open, GuardAt, PenGuards
  <2>2. Follows'
    BY <2>1, ShortQueues DEF Follows, GuardAt
  <2>3. QED
    BY <2>1, <2>2
<1>8. CASE Query
  <2>1. /\ guard'.pc = "write" /\ guard'.pending = guard.pending /\ guard'.wanted = ~near
        /\ near' = near /\ (queue' = <<"dropped">> \/ queue' = <<>>)
    BY <1>2, <1>8 DEF Query, GuardAt, PenGuards
  <2>2. SUFFICES ASSUME mishaps'.what = {} PROVE Follows'
    BY <2>1
  <2>3. ~(Contains(queue, "out") /\ Contains(guard.pending, "in")) /\ mishaps' = mishaps
    <3>1. mishaps'.what # {} \/ mishaps' = mishaps
      BY <1>2, <1>8 DEF Query, Mishaps
    <3>2. Contains(queue, "out") /\ Contains(guard.pending, "in") => mishaps'.what # {}
      BY <1>2, <1>8 DEF Query, Mishaps
    <3>3. QED
      BY <2>2, <3>1, <3>2
  <2>4. Follows
    BY <1>3, <1>8, <2>2, <2>3 DEF Query, GuardAt, Handling
  <2>5. Nearing(guard.pending) => near
    <3>1. SUFFICES ASSUME Nearing(guard.pending), ~Lasting(queue) PROVE FALSE
      BY <2>4 DEF Follows
    <3>2. Contains(queue, "out") /\ Contains(guard.pending, "in")
      BY <3>1 DEF Contains, Nearing, Lasting
    <3>3. QED
      BY <2>3, <3>2
  <2>6. ~Nearing(queue')
    BY <2>1, ShortQueues
  <2>7. QED
    BY <2>1, <2>5, <2>6 DEF Follows, GuardAt
<1>9. CASE WriteTouch
  <2>1. /\ guard' = Continue(guard.pending) /\ touch' = guard.wanted /\ near' = near
        /\ queue' = queue /\ mishaps' = mishaps /\ guard.pc = "write"
    BY <1>9 DEF WriteTouch, GuardAt
  <2>2. CASE mishaps.what = {}
    <3>1. Follows
      BY <1>3, <2>1, <2>2 DEF Handling
    <3>2. /\ Nearing(queue') => near
          /\ Nearing(guard.pending) /\ Lasting(queue') => near
          /\ guard.pending = <<>> /\ queue' = <<>> => touch' = ~near
      BY <2>1, <3>1 DEF Follows, GuardAt
    <3>3. /\ Follows' /\ guard'.pc \in {"query", "write", "wait"}
          /\ guard'.pc = "wait" => guard'.pending = <<>>
      BY <1>2, <2>1, <3>2, ContinueFollows
    <3>4. QED
      BY <3>3
  <2>3. CASE mishaps.what # {}
    BY <1>2, <2>1, <2>3 DEF Continue, PenGuards
  <2>4. QED
    BY <2>2, <2>3
<1>10. CASE ReadEvents
  <2>. DEFINE n == IF Len(queue) < Chunk THEN Len(queue) ELSE Chunk
              s == SubSeq(queue, 1, n)
  <2>1. Len(queue) \in Nat \ {0}
    BY <1>2, <1>10, EmptySeq, LenProperties DEF ReadEvents
  <2>2. /\ n \in 1..Len(queue) /\ guard' = Continue(s)
        /\ queue' = SubSeq(queue, n + 1, Len(queue)) /\ guard.pc = "wait"
        /\ near' = near /\ touch' = touch /\ mishaps' = mishaps
    BY <1>10, <2>1, PenGuardConstants DEF ReadEvents, GuardAt
  <2>. HIDE DEF n
  <2>3. s \in Seq(Events) /\ Len(s) = n
    <3>1. \A i \in 1..Len(queue) : queue[i] \in Events
      BY <1>2, ElementOfSeq
    <3>2. QED
      BY <2>1, <2>2, <3>1, SubSeqProperties
  <2>4. s # <<>>
    BY <2>2, <2>3
  <2>5. CASE mishaps.what = {}
    <3>1. Follows
      BY <1>3, <2>2, <2>5 DEF Handling
    <3>2. (Nearing(queue') => near) /\ (Nearing(s) /\ Lasting(queue') => near)
      BY <1>2, <2>2, <3>1, CutQueue DEF Follows
    <3>. HIDE DEF s
    <3>3. /\ Follows' /\ guard'.pc \in {"query", "write", "wait"}
          /\ guard'.pc = "wait" => guard'.pending = <<>>
      BY <1>2, <2>2, <2>3, <2>4, <3>2, ContinueFollows
    <3>4. QED
      BY <3>3
  <2>6. CASE mishaps.what # {}
    BY <1>2, <2>2, <2>4, <2>6 DEF Continue
  <2>7. QED
    BY <2>5, <2>6
<1>11. CASE WriteFails \/ Terminate
  <2>1. guard'.pc = IF Terminate /\ guard.pc = "leave" THEN "gone" ELSE "leave"
    BY <1>2, <1>11 DEF WriteFails, Terminate, GuardAt, PenGuards
  <2>2. CASE guard'.pc = "leave"
    BY <2>2 DEF Handling
  <2>3. CASE guard'.pc = "gone"
    <3>1. Terminate /\ guard.pc = "leave"
      BY <2>1, <2>3
    <3>2. Faulty({"left"})
      BY <3>1 DEF Terminate, GuardAt
    <3>3. "left" \in mishaps'.what
      BY <3>2, FaultTold
    <3>4. QED
      BY <2>3, <3>3
  <2>4. QED
    BY <2>1, <2>2, <2>3
<1>12. CASE LeaveGuard \/ KillGuard
  <2>1. guard'.pc = "gone"
    BY <1>2, <1>12 DEF LeaveGuard, KillGuard, PenGuards
  <2>2. touch' = TRUE \/ Faulty({"left"}) \/ Faulty({"killed"})
    BY <1>12 DEF LeaveGuard, KillGuard
  <2>3. touch' = TRUE \/ mishaps'.what # {}
    BY <2>2, FaultTold
  <2>4. QED
    BY <2>1, <2>3 DEF Handling
<1>13. QED
  BY <1>5, <1>6, <1>7, <1>8, <1>9, <1>10, <1>11, <1>12 DEF PenNext, Guard

LEMMA PenSafe == PenInv => TouchAgrees
  BY DEF PenInv, TouchAgrees, Handling, Follows, GuardAt

\* A guard with nothing to read has the touchscreen as the pen has it, and one that ended
\* left it enabled, for any length of the kernel's queue and of a read.
THEOREM TouchFollowsPen == PenSpec => []TouchAgrees
  BY PenStarts, PenStep, PenSafe, PTL DEF PenSpec

-----------------------------------------------------------------------------
(* The rotation.                                                           *)

Drivers == [pc : {"claim", "idle", "xwl", "gnome", "read", "write", "gone"},
            pending : Readings \cup {"undefined"}, settled : BOOLEAN,
            last : Transforms \cup {Nothing}, due : BOOLEAN]
Followers == [pc : {"idle", "xwl", "gnome", "none"}, target : Transforms,
              applied : Transforms \cup {Nothing}]
Outputs == [out : Transforms, pc : {"idle", "open", "write"}]
Failures == {"call", "open", "state", "foreign"}

\* A driver that applies a transform has an orientation to apply.
Aimed == driver.pc \in {"xwl", "gnome", "read", "write"} => driver.pending # "undefined"
RotationInv == RotationTypeOK /\ Aimed

LEMMA ModesAre == \A t : Mode(t) \in Modes
  BY DEF Mode, Modes

LEMMA KnownAre == Known = {"normal", "bottomup", "leftup", "rightup"}
                  /\ \A o \in Known : Transform[o] \in Transforms
  BY DEF Known, Transform, Transforms

\* What queue_rotation leaves of the driver.
LEMMA QueueKeeps ==
    ASSUME driver \in Drivers, NEW o \in Readings
    PROVE  Queue(driver, o) \in Drivers /\ Queue(driver, o).pc = driver.pc
<1>1. CASE locked /\ ~setup
  BY <1>1 DEF Queue, Drivers
<1>2. CASE ~(locked /\ ~setup)
  BY <1>2 DEF Queue, Drivers
<1>3. QED
  BY <1>1, <1>2

LEMMA DriverGoes ==
    ASSUME NEW d \in Drivers,
           NEW to \in {"claim", "idle", "xwl", "gnome", "read", "write", "gone"},
           driver' = [d EXCEPT !.pc = to]
    PROVE  driver' \in Drivers /\ driver'.pc = to /\ driver'.pending = d.pending
  BY DEF Drivers

LEMMA DriverForgets ==
    ASSUME driver \in Drivers, driver' = Retry
    PROVE  driver' \in Drivers /\ driver'.pc = "idle"
<1>1. Nothing \in Transforms \cup {Nothing}
  OBVIOUS
<1>2. QED
  BY <1>1 DEF Retry, Idle, Drivers

LEMMA RotationBegins == ASSUME RotationInit PROVE RotationInv
<1>1. driver \in Drivers /\ follower \in Followers /\ weston \in Outputs /\ Aimed
  BY DEF RotationInit, Drivers, Followers, Outputs, Transforms, Aimed
<1>2. /\ fifo \in Seq(Transforms) /\ Len(fifo) <= FifoMax /\ faults \in Seq(Failures)
      /\ file \in {<<t>> : t \in Transforms} \cup {<<>>}
  BY RotationConstants DEF RotationInit, Transforms
<1>3. QED
  BY <1>1, <1>2 DEF RotationInit, RotationInv, RotationTypeOK, Drivers, Followers, Outputs, Modes,
                    Failures

LEMMA RotationStep ==
    ASSUME RotationInv, [RotationNext]_rotation
    PROVE  RotationInv'
<1>1. /\ sensor \in Readings /\ cached \in Readings /\ locked \in BOOLEAN /\ setup \in BOOLEAN
      /\ driver \in Drivers /\ follower \in Followers /\ weston \in Outputs
      /\ fifo \in Seq(Transforms) /\ Len(fifo) <= FifoMax /\ Len(fifo) \in Nat
      /\ file \in {<<t>> : t \in Transforms} \cup {<<>>}
      /\ xmode \in Modes /\ gmode \in Modes /\ faults \in Seq(Failures)
      /\ Aimed
  BY LenProperties DEF RotationInv, RotationTypeOK, Drivers, Followers, Outputs, Failures
<1>2. SUFFICES /\ sensor' \in Readings /\ cached' \in Readings
               /\ locked' \in BOOLEAN /\ setup' \in BOOLEAN
               /\ driver' \in Drivers /\ Aimed' /\ follower' \in Followers /\ weston' \in Outputs
               /\ fifo' \in Seq(Transforms) /\ Len(fifo') <= FifoMax
               /\ file' \in {<<t>> : t \in Transforms} \cup {<<>>}
               /\ xmode' \in Modes /\ gmode' \in Modes
               /\ faults' \in Seq(Failures)
  BY DEF RotationInv, RotationTypeOK, Drivers, Followers, Outputs, Failures
<1>3. \A what \in Failures :
         Failing(what) => faults' \in Seq(Failures)
  BY <1>1, AppendProperties DEF Failing
<1>4. driver.pc \in {"xwl", "gnome", "read", "write"} => Target \in Transforms
  <2>1. driver.pending \in Known \cup {"undefined"}
    BY <1>1, RotationConstants DEF Drivers
  <2>2. QED
    BY <1>1, <2>1, KnownAre DEF Aimed, Target
<1>5. CASE UNCHANGED rotation
  BY <1>1, <1>5 DEF rotation, Aimed
<1>6. CASE Surroundings
  <2>1. CASE ToggleLock
    BY <1>1, <2>1 DEF ToggleLock, Aimed
  <2>2. CASE Foreign
    BY <1>1, <1>3, <2>2 DEF Foreign, Failures, Aimed
  <2>3. CASE \E o \in Readings : Turn(o)
    BY <1>1, <2>3 DEF Turn, Aimed
  <2>4. QED
    BY <1>6, <2>1, <2>2, <2>3 DEF Surroundings
<1>7. CASE Claim
  <2>1. \/ \E d \in Drivers : driver' = [d EXCEPT !.pc = "idle"]
        \/ driver' = [driver EXCEPT !.pc = "gone"]
        \/ driver' = [driver EXCEPT !.last = Nothing] /\ driver.pc = "claim"
    BY <1>1, <1>7, QueueKeeps DEF Claim, Idle, DriverAt
  <2>2. driver' \in Drivers /\ driver'.pc \in {"idle", "gone", "claim"}
    <3>1. CASE driver' = [driver EXCEPT !.last = Nothing] /\ driver.pc = "claim"
      BY <1>1, <3>1 DEF Drivers
    <3>2. QED
      BY <1>1, <2>1, <3>1, DriverGoes
  <2>3. faults' \in Seq(Failures)
    BY <1>1, <1>3, <1>7 DEF Claim, Failures
  <2>4. QED
    BY <1>1, <1>7, <2>2, <2>3 DEF Claim, Aimed
<1>8. CASE Deliver
  <2>1. driver' \in Drivers /\ driver'.pc \in {"claim", "idle"}
    BY <1>1, <1>8, QueueKeeps DEF Deliver
  <2>2. QED
    BY <1>1, <1>8, <2>1 DEF Deliver, Aimed
<1>9. CASE Poll
  <2>. DEFINE d == Queue(driver, cached)
  <2>1. d \in Drivers
    BY <1>1, QueueKeeps
  <2>2. PICK to \in {"write", "idle", "xwl", "gnome"} :
           driver' = [d EXCEPT !.pc = to] /\ (to # "idle" => d.pending # "undefined")
    BY <1>9 DEF Poll
  <2>. HIDE DEF d
  <2>3. driver' \in Drivers /\ driver'.pc = to /\ driver'.pending = d.pending
    BY <2>1, <2>2, DriverGoes
  <2>4. Aimed'
    BY <2>2, <2>3 DEF Aimed
  <2>5. QED
    BY <1>1, <1>9, <2>3, <2>4 DEF Poll
<1>10. CASE Tick
  <2>1. (driver.pending # "undefined") \in BOOLEAN
    OBVIOUS
  <2>2. driver' \in Drivers /\ driver'.pc = "idle"
    BY <1>1, <1>10, <2>1 DEF Tick, DriverAt, Drivers
  <2>3. QED
    BY <1>1, <1>10, <2>2 DEF Tick, Aimed
<1>11. CASE CallFails
  <2>1. driver' \in Drivers /\ driver'.pc \in {"gone", "idle"}
    BY <1>1, <1>11, DriverGoes, DriverForgets DEF CallFails
  <2>2. QED
    BY <1>1, <1>3, <1>11, <2>1 DEF CallFails, Failures, Aimed
<1>12. CASE EnsureXwayland \/ EnsureGnome
  <2>1. \E to \in {"gnome", "read"} : driver' = [driver EXCEPT !.pc = to]
    BY <1>12 DEF EnsureXwayland, EnsureGnome
  <2>2. driver' \in Drivers /\ driver'.pending = driver.pending
    BY <1>1, <2>1, DriverGoes
  <2>3. Aimed'
    BY <1>1, <1>12, <2>2 DEF EnsureXwayland, EnsureGnome, DriverAt, Aimed
  <2>4. QED
    BY <1>1, <1>12, <2>2, <2>3, ModesAre DEF EnsureXwayland, EnsureGnome
<1>13. ASSUME driver' = Applied(driver), driver.pc \in {"read", "write"}
       PROVE  driver' \in Drivers /\ Aimed'
  <2>1. Target \in Transforms \cup {Nothing}
    BY <1>4, <1>13
  <2>. DEFINE t == Target
  <2>2. driver' = [[driver EXCEPT !.last = t, !.due = FALSE] EXCEPT !.pc = "idle"]
    BY <1>13 DEF Applied, Idle
  <2>. HIDE DEF t
  <2>3. driver' \in Drivers /\ driver'.pc = "idle"
    BY <1>1, <2>1, <2>2 DEF t, Drivers
  <2>4. QED
    BY <2>3 DEF Aimed
<1>14. CASE ReadState
  <2>1. driver' \in Drivers /\ Aimed'
    <3>1. CASE driver' = [driver EXCEPT !.pc = "write"]
      <4>1. driver' \in Drivers /\ driver'.pending = driver.pending
        BY <1>1, <3>1, DriverGoes
      <4>2. QED
        BY <1>1, <1>14, <4>1 DEF ReadState, DriverAt, Aimed
    <3>2. QED
      BY <1>13, <1>14, <3>1 DEF ReadState, DriverAt
  <2>2. QED
    BY <1>1, <1>14, <2>1 DEF ReadState
<1>15. CASE WriteFifo
  <2>1. Target \in Transforms /\ driver' \in Drivers /\ Aimed'
    BY <1>4, <1>13, <1>15 DEF WriteFifo, DriverAt
  <2>2. ASSUME Len(fifo) < FifoMax
        PROVE  fifo' \in Seq(Transforms) /\ Len(fifo') <= FifoMax
    <3>1. fifo' = Append(fifo, Target)
      BY <1>15, <2>2 DEF WriteFifo, Queued
    <3>2. fifo' \in Seq(Transforms) /\ Len(fifo') = Len(fifo) + 1
      BY <1>1, <2>1, <3>1, AppendProperties
    <3>3. QED
      BY <1>1, <2>2, <3>2, RotationConstants
  <2>3. ASSUME ~(Len(fifo) < FifoMax)
        PROVE  fifo' \in Seq(Transforms) /\ Len(fifo') <= FifoMax
    <3>1. fifo' = Append(Tail(fifo), Target)
      BY <1>15, <2>3 DEF WriteFifo, Queued
    <3>2. fifo # <<>>
      BY <1>1, <2>3, RotationConstants
    <3>3. Tail(fifo) \in Seq(Transforms) /\ Len(Tail(fifo)) = Len(fifo) - 1
      BY <1>1, <3>2, HeadTailProperties
    <3>4. fifo' \in Seq(Transforms) /\ Len(fifo') = Len(Tail(fifo)) + 1
      BY <2>1, <3>1, <3>3, AppendProperties
    <3>5. QED
      BY <1>1, <3>3, <3>4, RotationConstants
  <2>4. QED
    BY <1>1, <1>15, <2>1, <2>2, <2>3 DEF WriteFifo
<1>16. CASE Follower \/ FollowFails
  <2>1. follower.target \in Transforms /\ Nothing \in Transforms \cup {Nothing}
    BY <1>1 DEF Followers
  <2>2. file # <<>> => Head(file) \in Transforms
    BY <1>1
  <2>3. CASE Follow
    <3>1. follower' \in Followers
      BY <1>1, <2>1, <2>2, <2>3 DEF Follow, Followers
    <3>2. QED
      BY <1>1, <2>3, <3>1 DEF Follow, Aimed
  <2>4. CASE FollowXwayland \/ FollowGnome \/ FollowFails
    <3>1. follower' \in Followers
      BY <1>1, <2>1, <2>4 DEF FollowXwayland, FollowGnome, FollowFails, Followers
    <3>2. QED
      BY <1>1, <1>3, <2>4, <3>1, ModesAre
         DEF FollowXwayland, FollowGnome, FollowFails, Failures, Aimed
  <2>5. QED
    BY <1>16, <2>3, <2>4 DEF Follower
<1>17. CASE Handle
  <2>1. Last(fifo) \in Transforms
    BY <1>1, <1>17, ElementOfSeq DEF Handle, Last
  <2>2. [out |-> Last(fifo), pc |-> "open"] \in Outputs
    BY <2>1 DEF Outputs
  <2>3. weston' \in Outputs
    BY <1>1, <1>17, <2>2 DEF Handle
  <2>4. fifo' \in Seq(Transforms) /\ Len(fifo') <= FifoMax
    BY <1>17, RotationConstants DEF Handle
  <2>5. QED
    BY <1>1, <1>17, <2>3, <2>4 DEF Handle, Aimed
<1>18. CASE OpenState
  <2>1. weston' \in Outputs
    BY <1>1, <1>18 DEF OpenState, Outputs
  <2>2. file' \in {<<t>> : t \in Transforms} \cup {<<>>} /\ faults' \in Seq(Failures)
    BY <1>1, <1>3, <1>18 DEF OpenState, Failures
  <2>3. QED
    BY <1>1, <1>18, <2>1, <2>2 DEF OpenState, Aimed
<1>19. CASE WriteState
  <2>1. weston' \in Outputs /\ weston.out \in Transforms
    BY <1>1, <1>19 DEF WriteState, Outputs
  <2>2. /\ file' \in {<<t>> : t \in Transforms} \cup {<<>>}
        /\ faults' \in Seq(Failures)
    BY <1>1, <1>3, <1>19, <2>1 DEF WriteState, Failures
  <2>3. QED
    BY <1>1, <1>19, <2>1, <2>2 DEF WriteState, Aimed
<1>20. QED
  BY <1>5, <1>6, <1>7, <1>8, <1>9, <1>10, <1>11, <1>12, <1>14, <1>15, <1>16, <1>17, <1>18, <1>19
     DEF RotationNext, Driver, Weston

-----------------------------------------------------------------------------
(* The components side by side.                                            *)

\* What every component keeps, whichever of them moves.
EnsembleInv ==
    /\ subject \in Subjects
    /\ LineInv /\ ProcessesTyped /\ DesktopInv /\ DialogInv /\ PublishInv /\ InstallerInv
    /\ RotationInv /\ PenInv /\ FirstBootInv /\ MiscInv /\ TableInv

LEMMA EnsembleBegins == Init => EnsembleInv
<1> SUFFICES ASSUME Init PROVE EnsembleInv
  OBVIOUS
<1>1. subject \in Subjects /\ LineInv /\ ProcessesTyped /\ DesktopInv /\ DialogInv
  BY LineBegins, ProcessesBegin, DesktopBegins, DialogStarts DEF Init
<1>2. PublishInv /\ InstallerInv /\ RotationInv /\ PenInv
  BY PublishInvInit, InstallerStarts, RotationBegins, PenStarts DEF Init
<1>3. FirstBootInv /\ MiscInv /\ TableInv
  BY FirstBootInvInit, MiscInit, TableInit DEF Init
<1>4. QED
  BY <1>1, <1>2, <1>3 DEF EnsembleInv

\* A step of the whole is a step of every component, or leaves it alone.
LEMMA StepOfAll ==
    ASSUME [Next]_vars
    PROVE  /\ subject' = subject
           /\ [BluetoothNext]_bluetooth /\ [DesktopNext]_desktop /\ [DialogNext]_dialogs
           /\ [PublishNext]_publish /\ [InstallerNext]_installer /\ [RotationNext]_rotation
           /\ [PenNext]_pen /\ [FirstBootNext]_first_boot /\ [AndroidNext]_android
           /\ [GptNext]_gpt
  BY DEF Next, vars

LEMMA EnsembleKept == EnsembleInv /\ [Next]_vars => EnsembleInv'
<1> SUFFICES ASSUME EnsembleInv, [Next]_vars PROVE EnsembleInv'
  OBVIOUS
<1>1. subject' \in Subjects /\ LineInv' /\ ProcessesTyped' /\ DesktopInv' /\ DialogInv'
  BY StepOfAll, LineKept, ProcessesStep, DesktopKept, DialogStep DEF EnsembleInv
<1>2. PublishInv' /\ InstallerInv' /\ RotationInv' /\ PenInv'
  BY StepOfAll, PublishInvStep, InstallerKept, RotationStep, PenStep DEF EnsembleInv
<1>3. FirstBootInv' /\ MiscInv' /\ TableInv'
  BY StepOfAll, FirstBootStep, MiscStep, TableStep DEF EnsembleInv
<1>4. QED
  BY <1>1, <1>2, <1>3 DEF EnsembleInv

LEMMA EnsembleShapes == EnsembleInv => TypesOK
<1> SUFFICES ASSUME EnsembleInv PROVE TypesOK
  OBVIOUS
<1>1. BluetoothTypeOK
  BY DEF EnsembleInv, LineInv, LineTyped, ProcessesTyped, BluetoothTypeOK, Loaders, Chips,
     Fixtures, Talking, Launchers, Supervisors
<1>2. DesktopTypeOK /\ DialogTypeOK
  BY DEF EnsembleInv, DesktopInv, DialogInv
<1>3. PublishTypeOK
  BY DEF EnsembleInv, PublishInv, PublishTyped
<1>4. InstallerTypeOK
  BY DEF EnsembleInv, InstallerInv, Typed
<1>5. RotationTypeOK /\ PenTypeOK
  BY DEF EnsembleInv, RotationInv, PenInv
<1>6. FirstBootTypeOK /\ AndroidTypeOK /\ GptTypeOK
  BY DEF EnsembleInv, FirstBootInv, FirstBootCore, MiscInv, TableInv
<1>7. subject \in Subjects
  BY DEF EnsembleInv
<1>8. QED
  BY <1>1, <1>2, <1>3, <1>4, <1>5, <1>6, <1>7 DEF TypesOK, Subjects, Is

\* The state of every component keeps its type, in every behaviour of the whole: no queue
\* of the pen guard, of the rotation or of the dialog outgrows its bound, no attempt of the
\* launcher, round of the supervisor or transform that is applied is without a meaning.
THEOREM EnsembleTyped == Spec => []TypesOK
  BY EnsembleBegins, EnsembleKept, EnsembleShapes, PTL DEF Spec

\* The safety invariants of the components hold in the whole as they do in each alone:
\* the premiss under which one run may check them side by side.
THEOREM EnsembleSafe ==
    Spec => [](RomSpeed /\ RightCalibration /\ OneShell /\ StillOwed /\ RecordTrue
               /\ PublishedStays /\ SaysTruth /\ TouchAgrees /\ MarkerLast /\ TellsMisc
               /\ TableTold)
<1>1. EnsembleInv => RomSpeed /\ RightCalibration /\ OneShell /\ SaysTruth
  BY LineSafe, DesktopSafe, InstallerSafe DEF EnsembleInv
<1>2. EnsembleInv => RecordTrue /\ PublishedStays /\ StillOwed /\ TouchAgrees
  BY PenSafe DEF EnsembleInv, PublishInv, DialogInv
<1>3. EnsembleInv => MarkerLast /\ TellsMisc /\ TableTold
  BY DEF EnsembleInv, FirstBootInv, FirstBootCore, MarkerLast, Owned, Filled, OwnerOf, MiscInv, TableInv
<1>4. QED
  BY <1>1, <1>2, <1>3, EnsembleBegins, EnsembleKept, PTL DEF Spec
=============================================================================
