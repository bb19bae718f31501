-------------------------- MODULE BootSwitchProofs --------------------------
(***************************************************************************)
(* Proofs about BootSwitch, for any number of transactions: the exit trap  *)
(* never restores a damaged image, and the way a transaction ends tells    *)
(* what BOOT holds.                                                        *)
(***************************************************************************)
EXTENDS BootSwitch, TLAPS

LEMMA TypeInit == Init => TypeOK
<1> SUFFICES ASSUME Init PROVE TypeOK
  OBVIOUS
<1>1. /\ changed \in BOOLEAN /\ committed \in BOOLEAN /\ accepted \in BOOLEAN
      /\ journalNew \in BOOLEAN /\ undone \in BOOLEAN
  BY Zenon DEF Init
<1>2. copies \in [{"ubuntu", "android"} -> Image]
  BY DEF Init, Image
<1>3. QED
  BY <1>1, <1>2 DEF Init, TypeOK, Scripts

\* The rollback images stay images under a sync, a power loss and a new copy.
LEMMA CopiesKeepType ==
    ASSUME TypeOK
    PROVE  /\ SyncedCopies \in [{"ubuntu", "android"} -> Image]
           /\ [o \in DOMAIN copies |-> IF copies[o] = "dirty" THEN "torn" ELSE copies[o]]
                \in [{"ubuntu", "android"} -> Image]
           /\ \A c \in Image : SetCopy(c) => copies' \in [{"ubuntu", "android"} -> Image]
  BY DEF TypeOK, SyncedCopies, SetCopy, Image

LEMMA TypeStep == TypeOK /\ [Next]_vars => TypeOK'
<1> SUFFICES ASSUME TypeOK, [Next]_vars PROVE TypeOK'
  OBVIOUS
<1> USE DEF At, Goto, run, notes
<1>1. CASE UNCHANGED vars
  BY <1>1 DEF vars, TypeOK
<1>2. ASSUME NEW s \in Scripts, Begin(s) PROVE TypeOK'
  <2>1. changed' \in BOOLEAN /\ committed' \in BOOLEAN
    BY <1>2, Zenon DEF Begin
  <2>3. /\ pc' \in {"write", "backup", "idle"} /\ result' \in {"none", "refused"}
        /\ started' \in Nat /\ script' \in Scripts
    BY <1>2 DEF Begin, TypeOK
  <2>4. QED
    BY <1>2, <2>1, <2>3 DEF Begin, TypeOK
<1>3. CASE Backup
  <2>1. copies' \in [{"ubuntu", "android"} -> Image]
    BY <1>3, CopiesKeepType DEF Backup, Image
  <2>2. QED
    BY <1>3, <2>1 DEF Backup, TypeOK
<1>4. CASE BackupCheck
  BY <1>4 DEF BackupCheck, TypeOK
<1>5. CASE Arm
  <2>1. changed' \in BOOLEAN
    BY <1>5, Zenon DEF Arm
  <2>2. QED
    BY <1>5, <2>1 DEF Arm, TypeOK
<1>6. CASE WriteStart
  <2>1. undone' \in BOOLEAN
    BY <1>6, Zenon DEF WriteStart
  <2>2. QED
    BY <1>6, <2>1 DEF WriteStart, JournalAges, TypeOK
<1>7. CASE WriteEnd
  BY <1>7, CopiesKeepType DEF WriteEnd, TypeOK, To
<1>8. CASE ReadBack
  BY <1>8 DEF ReadBack, TypeOK
<1>9. CASE JournalWrite
  <2>1. journalNew' \in BOOLEAN
    BY <1>9, Zenon DEF JournalWrite
  <2>2. QED
    BY <1>9, <2>1 DEF JournalWrite, TypeOK
<1>10. CASE JournalMove
  <2>1. journalNew' \in BOOLEAN
    BY <1>10, Zenon DEF JournalMove
  <2>2. QED
    BY <1>10, <2>1 DEF JournalMove, TypeOK
<1>11. CASE Commit
  <2>1. committed' \in BOOLEAN
    BY <1>11, Zenon DEF Commit
  <2>2. QED
    BY <1>11, <2>1 DEF Commit, TypeOK
<1>11b. CASE Announce
  BY <1>11b, CopiesKeepType DEF Announce, TypeOK
<1>12. CASE Finish
  BY <1>12 DEF Finish, TypeOK
<1>13. CASE Interrupt
  BY <1>13 DEF Interrupt, TypeOK
<1>14. CASE TrapNothing
  BY <1>14 DEF TrapNothing, TypeOK
<1>15. CASE TrapRestore
  <2>1. undone' \in BOOLEAN
    BY <1>15, Zenon DEF TrapRestore
  <2>2. QED
    BY <1>15, <2>1 DEF TrapRestore, TypeOK
<1>16. CASE RestoreEnd \/ RestoreKilled
  <2>1. /\ boot' \in {"ubuntu", "android", "torn"} /\ result' \in {result, "restored", "download"}
        /\ pc' = "idle" /\ undone' = undone
        /\ UNCHANGED <<os, started, script, changed, committed, copies, notes>>
    BY <1>16 DEF RestoreEnd, RestoreKilled, Rolled, From
  <2>2. QED
    BY <2>1 DEF TypeOK
<1>17. CASE Restart
  <2>1. changed' \in BOOLEAN /\ committed' \in BOOLEAN
    BY <1>17, Zenon DEF Restart, Off
  <2>2. copies' \in [{"ubuntu", "android"} -> Image]
    BY <1>17, CopiesKeepType DEF Restart, Off
  <2>3. QED
    BY <1>17, <2>1, <2>2 DEF Restart, Off, TypeOK
<1>18. CASE PowerLoss
  <2>1. changed' \in BOOLEAN /\ committed' \in BOOLEAN
    BY <1>18, Zenon DEF PowerLoss, Off
  <2>3. journalNew' \in BOOLEAN
    <3>1. journalNew \in BOOLEAN
      BY DEF TypeOK
    <3>2. QED
      BY <1>18, <3>1, Zenon DEF PowerLoss
  <2>4. copies' \in [{"ubuntu", "android"} -> Image]
    BY <1>18, CopiesKeepType DEF PowerLoss, Off
  <2>5. QED
    BY <1>18, <2>1, <2>3, <2>4 DEF PowerLoss, Off, TypeOK
<1>19. CASE BootUp
  BY <1>19 DEF BootUp, TypeOK
<1>20. CASE Download
  <2>1. undone' \in BOOLEAN
    BY <1>20, Zenon DEF Download
  <2>2. QED
    BY <1>20, <2>1 DEF Download, JournalAges, TypeOK
<1>21. CASE Accept
  <2>1. accepted' \in BOOLEAN
    BY <1>21, Zenon DEF Accept
  <2>2. QED
    BY <1>21, <2>1 DEF Accept, TypeOK
<1>22. QED
  BY <1>1, <1>2, <1>3, <1>4, <1>5, <1>6, <1>7, <1>8, <1>9, <1>10, <1>11, <1>11b, <1>12,
     <1>13,
     <1>14, <1>15, <1>16, <1>17, <1>18, <1>19, <1>20, <1>21 DEF Next

\* Every step of the transactions, and of the tablet around them, keeps the
\* variables in their types.
THEOREM TypeInvariant == Spec => []TypeOK
  BY TypeInit, TypeStep, PTL DEF Spec

-----------------------------------------------------------------------------
(***************************************************************************)
(* Neither RollbackReady nor OutcomeTellsBoot is inductive: they speak of  *)
(* an armed trap and of an idle script, and say nothing of how a script    *)
(* comes there.                                                            *)
(***************************************************************************)

\* What BOOT and the rollback image are, and what the script says, wherever it is.
Staged ==
    /\ pc \in {"backup", "backupCheck", "write", "dd"} => boot = From(script)
    /\ pc \in {"journal", "journalMove", "commit", "announce", "reboot"} => boot = To(script)
    /\ pc = "write" => Copy \in Whole
    /\ pc \in {"backup", "backupCheck", "write"} => ~changed /\ ~committed
    /\ pc \in {"dd", "writing", "read", "journal", "journalMove", "commit", "restoring"}
          => changed /\ ~committed
    /\ pc \in {"journal", "journalMove"} => script = "toUbuntu"
    /\ pc \in {"writing", "read", "journal", "journalMove"} => journal # "new"
    /\ pc = "announce" => committed
    /\ pc = "reboot" => committed /\ result = "ok"
    /\ pc \notin {"idle", "reboot", "trap"} => result # "ok"
    /\ pc = "trap" => \/ ~changed /\ ~committed /\ boot = From(script) /\ result = "ended"
                      \/ changed /\ ~committed /\ result = "ended"
                      \/ committed /\ boot = To(script) /\ result \in {"ok", "ended"}
    /\ pc = "restoring" => result = "restoring" /\ undone
    /\ pc = "idle" /\ boot = "torn" /\ os # "off"
          => result \in {"restoring", "download", "refused"}

\* A journal is new from its rename on, until BOOT is written again or put back.
JournalTells == journal = "new" => boot = "ubuntu" \/ undone

Transacted == Staged /\ JournalTells /\ RollbackReady /\ OutcomeTellsBoot

LEMMA TransactedInit == Init => Transacted
  BY DEF Init, Transacted, Staged, JournalTells, RollbackReady, OutcomeTellsBoot

\* A rollback image that is whole is whole after a sync.
LEMMA WholeStays ==
    ASSUME TypeOK, copies' = SyncedCopies, UNCHANGED script, Copy \in Whole
    PROVE  Copy' \in Whole
  BY DEF TypeOK, SyncedCopies, Copy, Whole, From

LEMMA TransactedStep == TypeOK /\ Transacted /\ [Next]_vars => Transacted'
<1> SUFFICES ASSUME TypeOK, Transacted, [Next]_vars PROVE Transacted'
  OBVIOUS
<1> USE DEF Transacted, Staged, JournalTells, RollbackReady, OutcomeTellsBoot,
            At, Goto, run, notes, Copy
<1>1. CASE UNCHANGED vars
  BY <1>1 DEF vars
<1>2. ASSUME NEW s \in Scripts, Begin(s) PROVE Transacted'
  <2>1. CASE ~Ready(s)
    BY <1>2, <2>1 DEF Begin
  <2>2. CASE Ready(s)
    <3>1. boot = From(s) /\ (s = "toAndroid" => copies[From(s)] \in Whole)
      BY <2>2 DEF Ready, StageReady, ToAndroidReady, ToUbuntuReady, From, Scripts
    <3>2. QED
      BY <1>2, <2>2, <3>1 DEF Begin
  <2>3. QED
    BY <2>1, <2>2
<1>3. CASE Backup
  BY <1>3 DEF Backup
<1>4. CASE BackupCheck
  BY <1>4 DEF BackupCheck
<1>5. CASE Arm
  BY <1>5 DEF Arm
<1>6. CASE WriteStart
  BY <1>6 DEF WriteStart, JournalAges, TypeOK
<1>7. CASE WriteEnd
  <2>1. UNCHANGED <<os, started, script, changed, committed, notes, undone>>
    BY <1>7 DEF WriteEnd
  <2>2. CASE pc' = "read" /\ copies' = SyncedCopies /\ result' = result
    BY <1>7, <2>1, <2>2, WholeStays DEF WriteEnd
  <2>3. CASE pc' = "trap" /\ result' = "ended" /\ UNCHANGED <<boot, copies>>
    BY <1>7, <2>1, <2>3 DEF WriteEnd
  <2>4. QED
    BY <1>7, <2>2, <2>3 DEF WriteEnd
<1>8. CASE ReadBack
  BY <1>8 DEF ReadBack
<1>9. CASE JournalWrite
  BY <1>9 DEF JournalWrite
<1>10. CASE JournalMove
  BY <1>10 DEF JournalMove, To
<1>11. CASE Commit
  BY <1>11 DEF Commit
<1>11b. CASE Announce
  BY <1>11b DEF Announce
<1>12. CASE Finish
  BY <1>12 DEF Finish, To
<1>13. CASE Interrupt
  <2>1. UNCHANGED <<boot, os, script, changed, committed, copies, journal, undone>>
    BY <1>13 DEF Interrupt
  <2>2. pc' = "trap" /\ pc # "trap" /\ pc # "restoring" /\ pc # "idle" /\ pc # "writing"
    BY <1>13 DEF Interrupt
  <2>3. pc = "reboot" => result = "ok" /\ result' = "ok"
    BY <1>13 DEF Interrupt
  <2>4. pc # "reboot" => result' = "ended"
    BY <1>13, <2>2 DEF Interrupt
  <2>5. \/ ~changed /\ ~committed /\ boot = From(script) /\ pc # "reboot"
        \/ changed /\ ~committed /\ pc # "reboot"
        \/ committed /\ boot = To(script)
    BY <1>13 DEF Interrupt
  <2>6. QED
    BY <2>1, <2>2, <2>3, <2>4, <2>5
<1>14. CASE TrapNothing
  BY <1>14 DEF TrapNothing, To, From
<1>15. CASE TrapRestore
  BY <1>15 DEF TrapRestore
<1>16. CASE RestoreEnd \/ RestoreKilled
  <2>1. /\ pc = "restoring" /\ pc' = "idle" /\ changed /\ ~committed
        /\ UNCHANGED <<os, script, changed, committed, copies, journal, undone>>
        /\ boot' \in {Rolled, "torn"}
    BY <1>16 DEF RestoreEnd, RestoreKilled
  <2>2. From(script) # "torn" /\ Rolled \in {From(script), "torn"}
    BY DEF From, Rolled
  <2>3. \/ result' = "restoring"
        \/ result' = IF boot' = From(script) THEN "restored" ELSE "download"
    BY <1>16 DEF RestoreEnd, RestoreKilled
  <2>4. undone
    BY <2>1
  <2>5. QED
    BY <2>1, <2>2, <2>3, <2>4
<1>17. CASE Restart
  BY <1>17 DEF Restart, Off, TypeOK
<1>18. CASE PowerLoss
  BY <1>18 DEF PowerLoss, Off, TypeOK
<1>19. CASE BootUp
  BY <1>19 DEF BootUp
<1>20. CASE Download
  BY <1>20 DEF Download, JournalAges, TypeOK
<1>21. CASE Accept
  BY <1>21 DEF Accept
<1>22. QED
  BY <1>1, <1>2, <1>3, <1>4, <1>5, <1>6, <1>7, <1>8, <1>9, <1>10, <1>11, <1>11b, <1>12,
     <1>13,
     <1>14, <1>15, <1>16, <1>17, <1>18, <1>19, <1>20, <1>21 DEF Next

LEMMA TransactedInvariant == Spec => []Transacted
  BY TypeInit, TypeStep, TransactedInit, TransactedStep, PTL DEF Spec

\* The exit trap of each script always has a whole image to write back, even one
\* that another script made in an earlier boot.
THEOREM TrapCanRestore == Spec => []RollbackReady
  BY TransactedInvariant, PTL DEF Transacted

\* Whatever failed, was interrupted or lost its power: the last word of a script is
\* true of BOOT, its silence means the image on this side of the commit, and the
\* journal of a switch to Ubuntu is wrong only after the exit trap undid the switch.
THEOREM LastWordIsTrue == Spec => []OutcomeTellsBoot
  BY TransactedInvariant, PTL DEF Transacted
=============================================================================
