----------------------------- MODULE BootSwitch -----------------------------
(***************************************************************************)
(* Switching between the two operating systems by rewriting BOOT: the      *)
(* three transactions                                                      *)
(*   stage      tools/stage_native_android_boot.sh   (first time, Ubuntu)  *)
(*   toAndroid  tools/switch_to_native_android.sh    (from Ubuntu)         *)
(*   toUbuntu   android-switcher/switch-to-ubuntu.sh (from Android)        *)
(* check everything, write BOOT, read it back and commit; on a failure or  *)
(* a signal their exit trap writes the old image back.  They share BOOT;   *)
(* stage leaves the rollback image that toAndroid relies on.               *)
(* A result is the last thing a script says of BOOT:                       *)
(*   refused    a check before the transaction failed                      *)
(*   ok         staged, readback verified                                  *)
(*   ended      a status other than 0, and nothing said of BOOT            *)
(*   restoring  failed, restoring the old image                            *)
(*   restored   the rollback is verified                                   *)
(*   download   the rollback failed: download mode, or maintenance         *)
(***************************************************************************)
EXTENDS Naturals

CONSTANT MaxSteps   \* bound: how many transactions a behaviour starts

ASSUME StepsBound == MaxSteps \in Nat

Scripts == {"stage", "toAndroid", "toUbuntu"}
From(s) == IF s = "toUbuntu" THEN "android" ELSE "ubuntu"
To(s)   == IF s = "toUbuntu" THEN "ubuntu" ELSE "android"

\* An image file: missing, complete but not synced, durable, or damaged.
Image == {"none", "dirty", "good", "torn"}
Whole == {"dirty", "good"}

VARIABLES
    boot,        \* what BOOT holds: an image of one system, or a mixture
    os,          \* the running system, or "off"
    started,     \* how many transactions were started
    script, pc,  \* the transaction and where it is
    changed,     \* its variable changed, boot_changed or backup_ready
    committed,
    result,      \* its last word
    copies,      \* the rollback image kept by each system
    accepted,    \* /etc/t630/native-android-accepted
    journal,     \* the journal: "none", "old", or "new", of the last write to BOOT
    journalNew,  \* the temporary of the journal
    undone       \* history: the exit trap went on to overwrite what was written last

run   == <<script, pc, changed, committed, result>>
notes == <<accepted, journal, journalNew>>
vars  == <<boot, os, started, script, pc, changed, committed, result, copies,
           accepted, journal, journalNew, undone>>

Init ==
    /\ boot = "ubuntu" /\ os = "ubuntu" /\ started = 0
    /\ script = "stage" /\ pc = "idle" /\ changed = FALSE /\ committed = FALSE
    /\ result = "none"
    /\ copies = [o \in {"ubuntu", "android"} |-> "none"]
    /\ accepted = FALSE /\ journal = "none" /\ journalNew = FALSE
    /\ undone = FALSE

At(l)   == pc = l
Goto(l) == pc' = l
Copy    == copies[From(script)]
\* A journal is new until BOOT is written again.
JournalAges == journal' = IF journal = "new" THEN "old" ELSE journal
SetCopy(c) == copies' = [copies EXCEPT ![From(script)] = c]
SyncedCopies == [o \in DOMAIN copies |-> IF copies[o] = "dirty" THEN "good" ELSE copies[o]]

-----------------------------------------------------------------------------
(***************************************************************************)
(* The checks.  Model, geometry, battery, authorization and the protected  *)
(* neighbours may refuse at will.                                          *)
(***************************************************************************)

\* The old image is installed; no rollback image was ever made ...
StageReady == boot = "ubuntu" /\ copies["ubuntu"] = "none"

\* ... or the one that was made is whole, and Android has been accepted ...
ToAndroidReady == boot = "ubuntu" /\ accepted /\ copies["ubuntu"] \in Whole

\* ... and on the way back no temporary of the journal is left.
ToUbuntuReady == boot = "android" /\ ~journalNew

Ready(s) == CASE s = "stage"     -> StageReady
              [] s = "toAndroid" -> ToAndroidReady
              [] s = "toUbuntu"  -> ToUbuntuReady

Begin(s) ==
    /\ At("idle") /\ os = From(s) /\ started < MaxSteps
    /\ started' = started + 1 /\ script' = s
    /\ changed' = FALSE /\ committed' = FALSE
    /\ IF Ready(s)
       THEN Goto(IF s = "toAndroid" THEN "write" ELSE "backup") /\ result' = "none"
       ELSE Goto("idle") /\ result' = "refused"
    /\ UNCHANGED <<boot, os, copies, notes, undone>>

\* BOOT is copied to the rollback image; the copy must have the old hash.
Backup ==
    /\ At("backup") /\ Goto("backupCheck")
    /\ SetCopy("torn") \/ SetCopy("dirty")
    /\ UNCHANGED <<boot, os, started, script, changed, committed, result, notes, undone>>

\* Mutant: the rollback image is not verified.
BackupUnchecked ==
    /\ At("backupCheck") /\ Goto("write")
    /\ UNCHANGED <<boot, os, started, script, changed, committed, result, copies, notes, undone>>

BackupCheck ==
    /\ At("backupCheck")
    /\ IF Copy \in Whole THEN Goto("write") /\ UNCHANGED result
                         ELSE Goto("trap") /\ result' = "ended"
    /\ UNCHANGED <<boot, os, started, script, changed, committed, copies, notes, undone>>

-----------------------------------------------------------------------------
(***************************************************************************)
(* The write: the trap is armed, then dd runs.  From its first block to    *)
(* its last BOOT holds a mixture.                                          *)
(***************************************************************************)

Arm ==
    /\ At("write") /\ Goto("dd")
    /\ changed' = TRUE
    /\ UNCHANGED <<boot, os, started, script, committed, result, copies, notes, undone>>

WriteStart ==
    /\ At("dd") /\ Goto("writing")
    /\ boot' = "torn" /\ JournalAges /\ undone' = FALSE
    /\ UNCHANGED <<os, started, script, changed, committed, result, copies, accepted,
                   journalNew>>

\* dd succeeds, with the right content or not, and everything is synced; or it
\* fails and the exit trap is next.
WriteEnd ==
    /\ At("writing")
    /\ \/ Goto("read") /\ boot' \in {To(script), "torn"} /\ copies' = SyncedCopies
          /\ UNCHANGED result
       \/ Goto("trap") /\ result' = "ended" /\ UNCHANGED <<boot, copies>>
    /\ UNCHANGED <<os, started, script, changed, committed, notes, undone>>

\* Mutant: the exit status of dd is trusted.
ReadNothing ==
    /\ At("read")
    /\ Goto(IF script = "toUbuntu" THEN "journal" ELSE "commit")
    /\ UNCHANGED <<boot, os, started, script, changed, committed, result, copies, notes, undone>>

\* The readback (twice, the second after a flush, on the way to Ubuntu).
ReadBack ==
    /\ At("read")
    /\ IF boot = To(script)
       THEN Goto(IF script = "toUbuntu" THEN "journal" ELSE "commit") /\ UNCHANGED result
       ELSE Goto("trap") /\ result' = "ended"
    /\ UNCHANGED <<boot, os, started, script, changed, committed, copies, notes, undone>>

JournalWrite ==
    /\ At("journal") /\ Goto("journalMove")
    /\ journalNew' = TRUE
    /\ UNCHANGED <<boot, os, started, script, changed, committed, result, copies,
                   accepted, journal, undone>>

\* Mutant: the journal is left under its temporary name and marked partial.
JournalPartial ==
    /\ At("journalMove") /\ Goto("commit")
    /\ journal' = "partial"
    /\ UNCHANGED <<boot, os, started, script, changed, committed, result, copies,
                   accepted, journalNew, undone>>

JournalMove ==
    /\ At("journalMove") /\ Goto("commit")
    /\ journalNew' = FALSE /\ journal' = "new"
    /\ UNCHANGED <<boot, os, started, script, changed, committed, result, copies,
                   accepted, undone>>

Commit ==
    /\ At("commit") /\ Goto("announce")
    /\ committed' = TRUE
    /\ UNCHANGED <<boot, os, started, script, changed, result, copies, notes, undone>>

\* Another sync, and the last word.
Announce ==
    /\ At("announce") /\ Goto("reboot")
    /\ result' = "ok" /\ copies' = SyncedCopies
    /\ UNCHANGED <<boot, os, started, script, changed, committed, notes, undone>>

\* The restart is requested; it may be refused, then the user restarts later.
Finish ==
    /\ At("reboot") /\ Goto("idle")
    /\ UNCHANGED <<boot, os, started, script, changed, committed, result, copies, notes, undone>>

-----------------------------------------------------------------------------
(***************************************************************************)
(* The exit trap.                                                          *)
(***************************************************************************)

\* A signal (the shell handles it between two commands; status 125), or a command
\* that fails: changed protected neighbours, a full disk.  None of them says a word
\* of BOOT, after the commit as before it.
Interrupt ==
    /\ pc \in {"backup", "backupCheck", "write", "dd", "read", "journal", "journalMove",
               "commit", "announce", "reboot"}
    /\ Goto("trap")
    /\ result' = IF result = "ok" THEN "ok" ELSE "ended"
    /\ UNCHANGED <<boot, os, started, script, changed, committed, copies, notes, undone>>

\* Before the write and after the commit there is nothing to undo.
TrapNothing ==
    /\ At("trap") /\ (~changed \/ committed)
    /\ Goto("idle")
    /\ UNCHANGED <<boot, os, started, script, changed, committed, result, copies, notes, undone>>

TrapRestore ==
    /\ At("trap") /\ changed /\ ~committed
    /\ Goto("restoring") /\ boot' = "torn" /\ result' = "restoring" /\ undone' = TRUE
    /\ UNCHANGED <<os, started, script, changed, committed, copies, notes>>

\* What dd leaves of BOOT when it ends well.
Rolled == IF Copy \in Whole THEN From(script) ELSE "torn"

\* The old image is back and verified, or the script asks for download mode.
RestoreEnd ==
    /\ At("restoring") /\ Goto("idle")
    /\ boot' \in {Rolled, "torn"}
    /\ result' = IF boot' = From(script) THEN "restored" ELSE "download"
    /\ UNCHANGED <<os, started, script, changed, committed, copies, notes, undone>>

\* The traps are off now: another signal ends the script without a word, in dd or
\* before it has verified what dd wrote.
RestoreKilled ==
    /\ At("restoring") /\ Goto("idle")
    /\ boot' \in {Rolled, "torn"}
    /\ UNCHANGED <<os, started, script, changed, committed, result, copies, notes, undone>>

-----------------------------------------------------------------------------
(***************************************************************************)
(* The tablet.                                                             *)
(***************************************************************************)

Off(f) ==
    /\ os' = "off" /\ pc' = "idle" /\ result' = "none"
    /\ changed' = FALSE /\ committed' = FALSE
    /\ copies' = f
    /\ UNCHANGED <<boot, started, script, accepted>>

\* An orderly restart has synced everything.
Restart ==
    /\ os # "off" /\ At("idle") /\ Off(SyncedCopies)
    /\ UNCHANGED <<journal, journalNew, undone>>

\* A power loss damages what was not synced; the temporary may or may not
\* survive.
PowerLoss ==
    /\ os # "off"
    /\ Off([o \in DOMAIN copies |-> IF copies[o] = "dirty" THEN "torn" ELSE copies[o]])
    /\ journalNew' \in {FALSE, journalNew}
    /\ UNCHANGED <<journal, undone>>

BootUp ==
    /\ os = "off" /\ boot # "torn" /\ os' = boot
    /\ UNCHANGED <<boot, started, run, copies, notes, undone>>

\* Download mode and a host bring either image back.
Download ==
    /\ boot = "torn" /\ At("idle")
    /\ os' = "off" /\ boot' \in {"ubuntu", "android"} /\ undone' = FALSE
    /\ result' = "none" /\ JournalAges
    /\ UNCHANGED <<started, script, pc, changed, committed, copies, accepted, journalNew>>

\* The operator accepts Android once it has been seen to boot.
Accept ==
    /\ os = "ubuntu" /\ At("idle") /\ ~accepted /\ copies["ubuntu"] # "none"
    /\ accepted' = TRUE
    /\ UNCHANGED <<boot, os, started, run, copies, journal, journalNew, undone>>

Next ==
    \/ \E s \in Scripts : Begin(s)
    \/ Backup \/ BackupCheck \/ Arm \/ WriteStart \/ WriteEnd \/ ReadBack
    \/ JournalWrite \/ JournalMove \/ Commit \/ Announce \/ Finish
    \/ Interrupt \/ TrapNothing \/ TrapRestore \/ RestoreEnd \/ RestoreKilled
    \/ Restart \/ PowerLoss \/ BootUp \/ Download \/ Accept

Spec == Init /\ [][Next]_vars

-----------------------------------------------------------------------------
(***************************************************************************)
(* Properties.                                                             *)
(***************************************************************************)

\* Every variable has a value of its kind.
TypeOK ==
    /\ boot \in {"ubuntu", "android", "torn"} /\ os \in {"ubuntu", "android", "off"}
    /\ started \in Nat /\ script \in Scripts
    /\ pc \in {"idle", "backup", "backupCheck", "write", "dd", "writing", "read",
               "journal", "journalMove", "commit", "announce", "reboot", "trap", "restoring"}
    /\ changed \in BOOLEAN /\ committed \in BOOLEAN
    /\ result \in {"none", "refused", "ok", "ended", "restoring", "restored", "download"}
    /\ copies \in [{"ubuntu", "android"} -> Image]
    /\ accepted \in BOOLEAN /\ journal \in {"none", "old", "new"}
    /\ journalNew \in BOOLEAN /\ undone \in BOOLEAN

\* Whenever the exit trap would write an image back, that image is whole, even
\* when it was made by another script in an earlier boot.
RollbackReady == changed /\ ~committed => Copy \in Whole

\* The last word of a transaction tells what BOOT holds: the verified new image, the
\* old one restored, or, when nothing is said, the image on this side of the commit.
\* A BOOT that will not start has been announced, although a second signal silences
\* the exit trap before it asks for download mode.  The journal of a switch to Ubuntu,
\* which is published before the commit and stays over power cuts, is wrong about
\* BOOT only when the exit trap has undone the switch.
OutcomeTellsBoot ==
    /\ pc = "idle" =>
          /\ result = "ok" => boot = To(script)
          /\ result = "restored" => boot = From(script)
          /\ result = "ended" => boot = IF committed THEN To(script) ELSE From(script)
          /\ boot = "torn" /\ os # "off" => result \in {"restoring", "download", "refused"}
    /\ journal = "new" /\ boot # "ubuntu" => undone
=============================================================================
