----------------------------- MODULE MCEnsemble -----------------------------
(***************************************************************************)
(* The components that share no state with each other, side by side: in    *)
(* every behaviour one of them, the subject, moves, and the others keep    *)
(* the state they start with.  Together they are one run of TLC, in which  *)
(* each of their properties is checked over all behaviours of its own      *)
(* component and, trivially, over those in which it does not move.         *)
(***************************************************************************)
EXTENDS Bluetooth, DesktopStart, SessionDialog, Publish, Installer, Rotation, PenGuard,
        FirstBoot, AndroidInit, GptSplit

VARIABLE subject

vars == <<subject, bluetooth, desktop, dialogs, publish, installer, rotation, pen, first_boot,
          android, gpt>>

Subjects == {"bluetooth", "desktop", "dialog", "publish", "installer", "rotation", "pen",
             "first_boot", "android", "gpt"}
Is(c) == subject = c

\* A component that does not move starts in one of its initial states.
Init ==
    /\ subject \in Subjects
    /\ BluetoothInit
    /\ Is("bluetooth") \/ (rail /\ fixed = [unified |-> TRUE, quiet |-> TRUE, own |-> TRUE])
    /\ DesktopInit /\ (Is("desktop") \/ mode = "gpu")
    /\ DialogInit
    /\ PublishInit /\ (Is("publish") \/ tool = "boot_test")
    /\ InstallerInit /\ (Is("installer") \/ root.mounted)
    /\ RotationInit /\ (Is("rotation") \/ (sensor = "normal" /\ locked /\ ~setup))
    /\ PenInit /\ (Is("pen") \/ ~near)
    /\ FirstBootInit /\ AndroidInit
    /\ GptInit /\ (Is("gpt") \/ data = "large")

Next ==
    \/ Is("bluetooth") /\ BluetoothNext /\ UNCHANGED <<subject, desktop, dialogs, publish,
            installer, rotation, pen, first_boot, android, gpt>>
    \/ Is("desktop") /\ DesktopNext /\ UNCHANGED <<subject, bluetooth, dialogs, publish,
            installer, rotation, pen, first_boot, android, gpt>>
    \/ Is("dialog") /\ DialogNext /\ UNCHANGED <<subject, bluetooth, desktop, publish,
            installer, rotation, pen, first_boot, android, gpt>>
    \/ Is("publish") /\ PublishNext /\ UNCHANGED <<subject, bluetooth, desktop, dialogs,
            installer, rotation, pen, first_boot, android, gpt>>
    \/ Is("installer") /\ InstallerNext /\ UNCHANGED <<subject, bluetooth, desktop, dialogs,
            publish, rotation, pen, first_boot, android, gpt>>
    \/ Is("rotation") /\ RotationNext /\ UNCHANGED <<subject, bluetooth, desktop, dialogs,
            publish, installer, pen, first_boot, android, gpt>>
    \/ Is("pen") /\ PenNext /\ UNCHANGED <<subject, bluetooth, desktop, dialogs, publish,
            installer, rotation, first_boot, android, gpt>>
    \/ Is("first_boot") /\ FirstBootNext /\ UNCHANGED <<subject, bluetooth, desktop, dialogs,
            publish, installer, rotation, pen, android, gpt>>
    \/ Is("android") /\ AndroidNext /\ UNCHANGED <<subject, bluetooth, desktop, dialogs,
            publish, installer, rotation, pen, first_boot, gpt>>
    \/ Is("gpt") /\ GptNext /\ UNCHANGED <<subject, bluetooth, desktop, dialogs, publish,
            installer, rotation, pen, first_boot, android>>

\* The state of the component that moves.
Moving ==
    CASE Is("bluetooth")  -> bluetooth
      [] Is("desktop")    -> desktop
      [] Is("dialog")     -> dialogs
      [] Is("rotation")   -> rotation
      [] Is("pen")        -> pen
      [] OTHER            -> <<>>

\* The processes to which the components owe fairness, numbered in each component.
Fair1 == /\ UNCHANGED subject
         /\ CASE Is("bluetooth") -> LoaderStep
              [] Is("desktop")   -> WrapperStep
              [] Is("dialog")    -> OpenDialog
              [] Is("rotation")  -> Follower
              [] Is("pen")       -> Guard
              [] OTHER           -> FALSE
Fair2 == /\ UNCHANGED subject
         /\ CASE Is("bluetooth") -> LauncherStep
              [] Is("desktop")   -> ScriptStep
              [] Is("dialog")    -> ShellOpens
              [] Is("rotation")  -> Weston
              [] OTHER           -> FALSE
Fair3 == /\ UNCHANGED subject
         /\ CASE Is("bluetooth") -> Supervise
              [] Is("desktop")   -> HelpersExit
              [] Is("dialog")    -> Receive
              [] OTHER           -> FALSE
Fair4 == /\ UNCHANGED subject
         /\ CASE Is("bluetooth") -> SweepBluetooth
              [] Is("desktop")   -> WatchStep
              [] Is("dialog")    -> Confirm
              [] OTHER           -> FALSE
Fair5 == Is("desktop") /\ UNCHANGED subject /\ SweepDesktop
Fair6 == Is("desktop") /\ UNCHANGED subject /\ ShellReady

\* The fairness of each component: since the subject stays, fairness of the numbered
\* processes is the fairness of the subject's own.
Fairness ==
    /\ WF_Moving(Fair1) /\ WF_Moving(Fair2) /\ WF_Moving(Fair3)
    /\ WF_Moving(Fair4) /\ WF_Moving(Fair5) /\ WF_Moving(Fair6)
    /\ SF_Moving(Is("rotation") /\ UNCHANGED subject /\ Driver)
    /\ SF_Moving(Is("rotation") /\ UNCHANGED subject /\ Deliver)
    /\ SF_Moving(Is("rotation") /\ UNCHANGED subject /\ Tick)

Spec == Init /\ [][Next]_vars /\ Fairness

-----------------------------------------------------------------------------
\* Every component's state is of its type.
TypesOK ==
    CASE Is("bluetooth")  -> BluetoothTypeOK
      [] Is("desktop")    -> DesktopTypeOK
      [] Is("dialog")     -> DialogTypeOK
      [] Is("publish")    -> PublishTypeOK
      [] Is("installer")  -> InstallerTypeOK
      [] Is("rotation")   -> RotationTypeOK
      [] Is("pen")        -> PenTypeOK
      [] Is("first_boot") -> FirstBootTypeOK
      [] Is("android")    -> AndroidTypeOK
      [] Is("gpt")        -> GptTypeOK
=============================================================================
