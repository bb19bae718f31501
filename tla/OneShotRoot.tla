---------------------------- MODULE OneShotRoot ----------------------------
(***************************************************************************)
(* What the boot image promises about the two Ubuntu roots, without any    *)
(* file, journal or process: the clean root is entered only after its      *)
(* arming was taken away, so a restart nobody asked for returns to the     *)
(* normal root; only an orderly action arms it again from the inside, and  *)
(* a boot that only charges leaves the arming for the next one.            *)
(* BootRoot implements this specification.                                 *)
(***************************************************************************)
CONSTANTS Host, Cand, NoRoot

VARIABLES
    armed,      \* the next boot would take the clean root
    current,    \* the root that runs, if one does
    closing,    \* an orderly action was asked for
    charging    \* the tablet is up to charge, and for nothing else

vars == <<armed, current, closing, charging>>

Init == armed \in BOOLEAN /\ current = NoRoot /\ closing = FALSE /\ charging = FALSE

\* The operator arms the clean root from the normal one.
Arm == current = Host /\ armed' = TRUE /\ UNCHANGED <<current, closing, charging>>

\* A charger boot comes and goes before any root.
Charge == current = NoRoot /\ charging' = TRUE /\ UNCHANGED <<armed, current, closing>>

\* A boot that is to go on takes the arming before it enters any root ...
Take ==
    /\ current = NoRoot /\ ~charging
    /\ armed' = FALSE
    /\ UNCHANGED <<current, closing, charging>>

\* ... and only then may enter the clean one.
Enter ==
    /\ current = NoRoot /\ ~charging
    /\ \/ current' = Host
       \/ current' = Cand /\ ~armed
    /\ UNCHANGED <<armed, closing, charging>>

Close == closing' = TRUE /\ UNCHANGED <<armed, current, charging>>

\* An orderly action on the clean root returns to it.
Rearm ==
    /\ closing /\ current = Cand
    /\ armed' = TRUE
    /\ UNCHANGED <<current, closing, charging>>

\* An orderly end or a power loss; what is armed stays as it was.
Down == current' = NoRoot /\ closing' = FALSE /\ charging' = FALSE /\ UNCHANGED armed

Next == Arm \/ Charge \/ Take \/ Enter \/ Close \/ Rearm \/ Down

Spec == Init /\ [][Next]_vars

\* The clean root never runs while it is armed, unless an orderly action is
\* under way: a power loss in it falls back to the normal root.
FallsBack == current = Cand /\ ~closing => ~armed
=============================================================================
