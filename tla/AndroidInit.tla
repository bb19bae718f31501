---------------------------- MODULE AndroidInit ----------------------------
(***************************************************************************)
(* Initialisation of Android's userdata through stock recovery: the host   *)
(* coordinator initialize_native_android_userdata.py saves misc and        *)
(* metadata, sends two files and one script over the serial console, and   *)
(* the script copies them into the root and runs                           *)
(* stage_stock_recovery_wipe.sh there, first as --check and, when the      *)
(* destruction was authorized, as --stage, which writes the recovery       *)
(* message into misc.  /run is lost with the power; the root's /tmp, where *)
(* the copies are, is on linuxroot and stays.  The copies and markers are  *)
(* taken as one thing, there in part or whole.                             *)
(***************************************************************************)
EXTENDS Naturals

CONSTANTS MaxStarts,      \* bound: runs of the coordinator
          MaxTroubles     \* bound: failing commands, signals, power cuts

ASSUME AndroidInitConstants == MaxStarts \in Nat \ {0} /\ MaxTroubles \in Nat

VARIABLES
    coord,      \* pc, authorized run, what it said, whether a
                \* run before this one passed the read-only gate; runs so far
    run,        \* the coordinator's files under /run: the backups, the payload
    tmp,        \* the copies in the root's /tmp
    tablet,     \* where the script is
    misc,       \* the partition: "old", "mixed", "message"
    troubles    \* faults so far, and what excuses a wrong word

android == <<coord, run, tmp, tablet, misc, troubles>>

AndroidTypeOK ==
    /\ coord \in [pc : {"idle", "preflight", "download", "upload", "script"}, apply : BOOLEAN,
                  says : {"nothing", "failed", "passed", "staged"},
                  gated : BOOLEAN, runs : 0..MaxStarts]
    /\ run \in SUBSET {"backups", "payload"}
    /\ tmp \in {"none", "part", "whole"}
    /\ tablet \in {"none", "copy", "check", "write", "read", "undo", "sync", "clean", "ok",
                   "failed"}
    /\ misc \in {"old", "mixed", "message"}
    /\ troubles \in [faults : 0..MaxTroubles,
                     what : SUBSET {"cut", "signal", "unheard", "undone"}]

AndroidInit ==
    /\ coord = [pc |-> "idle", apply |-> FALSE, says |-> "nothing",
                gated |-> FALSE, runs |-> 0]
    /\ run = {} /\ tmp = "none" /\ tablet = "none" /\ misc = "old"
    /\ troubles = [faults |-> 0, what |-> {}]

Trouble(what) == /\ troubles.faults < MaxTroubles
                 /\ troubles' = [faults |-> troubles.faults + 1, what |-> troubles.what \cup what]

-----------------------------------------------------------------------------
(* The coordinator.                                                        *)

\* A new backup directory for every run.
StartRun(apply) ==
    /\ coord.pc = "idle" /\ coord.runs < MaxStarts
    /\ tablet = "none" /\ misc = "old"
    /\ coord' = [pc |-> "preflight", apply |-> apply, says |-> "nothing",
                 gated |-> coord.gated \/ coord.says = "passed", runs |-> coord.runs + 1]
    /\ UNCHANGED <<run, tmp, tablet, misc, troubles>>

Says(word) == [coord EXCEPT !.pc = "idle", !.says = word]

\* The two dd commands, unless a former run left its files.
Preflight ==
    /\ coord.pc = "preflight"
    /\ \/ "backups" \notin run /\ run' = run \cup {"backups"}
          /\ coord' = [coord EXCEPT !.pc = "download"] /\ UNCHANGED troubles
       \/ "backups" \in run /\ coord' = Says("failed") /\ UNCHANGED <<run, troubles>>
       \/ Trouble({}) /\ coord' = Says("failed") /\ run' \in {run, run \cup {"backups"}}
    /\ UNCHANGED <<tmp, tablet, misc>>

\* Both downloads, compared with the tablet's own hashes.
Download ==
    /\ coord.pc = "download"
    /\ \/ coord' = [coord EXCEPT !.pc = "upload"] /\ UNCHANGED troubles
       \/ Trouble({}) /\ coord' = Says("failed")
    /\ UNCHANGED <<run, tmp, tablet, misc>>

\* Both uploads; upload_file_ram never overwrites.
Upload ==
    /\ coord.pc = "upload"
    /\ \/ /\ "payload" \notin run /\ run' = run \cup {"payload"}
          /\ coord' = [coord EXCEPT !.pc = "script"] /\ tablet' = "copy" /\ UNCHANGED troubles
       \/ "payload" \in run /\ coord' = Says("failed") /\ UNCHANGED <<run, tablet, troubles>>
       \/ Trouble({}) /\ coord' = Says("failed") /\ run' \in {run, run \cup {"payload"}}
          /\ UNCHANGED tablet
    /\ UNCHANGED <<tmp, misc>>

\* The marked answer arrives.
Hear ==
    /\ coord.pc = "script" /\ tablet \in {"ok", "failed"}
    /\ coord' = Says(IF tablet = "failed" THEN "failed"
                     ELSE IF coord.apply THEN "staged" ELSE "passed")
    /\ tablet' = "none"
    /\ UNCHANGED <<run, tmp, misc, troubles>>

\* No answer within 240 seconds, or the console is lost: the script runs on.
StopWaiting ==
    /\ coord.pc = "script"
    /\ Trouble({"unheard"})
    /\ coord' = Says("failed")
    /\ UNCHANGED <<run, tmp, tablet, misc>>

-----------------------------------------------------------------------------
(* The script on the tablet.                                               *)

ScriptAt(pc) == tablet = pc
Fails == tablet' = "failed"

\* Every copy and marker must be new; chown and chmod follow.
CopyPayload ==
    /\ ScriptAt("copy")
    /\ \/ tmp = "none" /\ tmp' = "whole" /\ tablet' = "check" /\ UNCHANGED troubles
       \/ tmp # "none" /\ Fails /\ UNCHANGED <<tmp, troubles>>
       \/ tmp = "none" /\ Trouble({}) /\ tmp' = "part" /\ Fails
    /\ UNCHANGED <<coord, run, misc>>

\* The guards of the stager, on the copies, the partitions and the power.
CheckRun(next) == \/ tablet' = next /\ UNCHANGED troubles
                  \/ Trouble({}) /\ Fails

CheckStager ==
    /\ ScriptAt("check")
    /\ CheckRun(IF coord.apply THEN "write" ELSE "clean")
    /\ UNCHANGED <<coord, run, tmp, misc>>

\* --stage repeats the guards and then overwrites the first 2 KiB.
WriteMessage ==
    /\ ScriptAt("write")
    /\ \/ misc' = "message" /\ tablet' = "read" /\ UNCHANGED troubles
       \/ Trouble({}) /\ misc' \in {"old", "mixed"} /\ tablet' = "undo"
       \/ Trouble({}) /\ Fails /\ UNCHANGED misc
    /\ UNCHANGED <<coord, run, tmp>>

\* Mutant: a difference found by the readback is reported and left.
ReadBackReports ==
    /\ ScriptAt("read")
    /\ \/ tablet' = "sync" /\ UNCHANGED troubles
       \/ Trouble({}) /\ Fails
    /\ UNCHANGED <<coord, run, tmp, misc>>

\* Readback, the rest of misc, the neighbours, metadata; then committed=1.
ReadBack ==
    /\ ScriptAt("read")
    /\ \/ tablet' = "sync" /\ UNCHANGED troubles
       \/ Trouble({}) /\ tablet' = "undo"
    /\ UNCHANGED <<coord, run, tmp, misc>>

\* rollback_on_exit: the whole copy, read back; or 126.
Undo ==
    /\ ScriptAt("undo")
    /\ \/ misc' = "old" /\ UNCHANGED troubles
       \/ Trouble({"undone"}) /\ misc' \in {misc, "mixed"}
    /\ Fails
    /\ UNCHANGED <<coord, run, tmp>>

Sync == /\ ScriptAt("sync") /\ tablet' = "clean"
        /\ UNCHANGED <<coord, run, tmp, misc, troubles>>

\* The rm at the end of the script.
Clean ==
    /\ ScriptAt("clean") /\ tablet' = "ok"
    /\ run' = {}
    /\ UNCHANGED <<coord, tmp, misc, troubles>>

\* The console takes the answer nobody waits for.
Drain ==
    /\ coord.pc = "idle" /\ tablet \in {"ok", "failed"}
    /\ tablet' = "none"
    /\ UNCHANGED <<coord, run, tmp, misc, troubles>>

\* HUP, INT or TERM (a signal in the middle of the write is a write that fails): 125
\* through the rollback; the rollback itself has no trap left.
SignalScript ==
    /\ tablet \in {"check", "write", "read", "undo", "sync", "clean"}
    /\ Trouble(IF tablet \in {"undo", "sync", "clean"} THEN {"signal"} ELSE {})
    /\ misc' \in {misc} \cup (IF ScriptAt("undo") THEN {"mixed"} ELSE {})
    /\ tablet' = IF ScriptAt("read") THEN "undo" ELSE "failed"
    /\ UNCHANGED <<coord, run, tmp>>

\* Power is lost: a write that was going on may be torn.
LosePower ==
    /\ Trouble({"cut"})
    /\ misc' \in {misc} \cup (IF tablet \in {"write", "undo"} THEN {"mixed"} ELSE {})
    /\ run' = {} /\ tablet' = "none"
    /\ coord' = IF coord.pc = "idle" THEN coord ELSE Says("failed")
    /\ UNCHANGED tmp

-----------------------------------------------------------------------------
Coordinator == Preflight \/ Download \/ Upload \/ Hear
TabletScript == \/ CopyPayload \/ CheckStager \/ WriteMessage \/ ReadBack \/ Undo \/ Sync
                \/ Clean \/ Drain

AndroidNext == \/ Coordinator \/ TabletScript \/ StopWaiting \/ SignalScript \/ LosePower
               \/ \E apply \in BOOLEAN : StartRun(apply)

AndroidSpec == AndroidInit /\ [][AndroidNext]_android

(* What the host says of misc is true: staged means the whole message is   *)
(* there, and a failure or a read-only pass means that misc is as it was,  *)
(* wherever a guard, the write, the readback or a signal ended the stager  *)
(* (rollback_on_exit).  Not said truly: an answer nobody heard, a rollback *)
(* that failed or was interrupted, a signal after the commit, a power cut. *)
TellsMisc ==
    coord.pc = "idle" /\ troubles.what = {} =>
         /\ coord.says = "staged" => misc = "message"
         /\ coord.says \in {"failed", "passed"} => misc = "old"

(* The coordinator's last words after its default run: "READ ONLY GATE     *)
(* PASSED, RERUN WITH EXACT AUTHORIZATION TO STAGE".  So a rerun with the  *)
(* authorization, in which nothing fails, stages.                          *)
RerunStages ==
    coord.gated /\ coord.apply /\ coord.pc = "idle" /\ troubles.faults = 0
        => coord.says = "staged"
=============================================================================
