------------------------------ MODULE GptSplit ------------------------------
(***************************************************************************)
(* The partition transactions of the RAM-only maintenance image:           *)
(* apply-dualboot-split --shrink and --split, which keep the Ubuntu that   *)
(* fills partition 34, apply-stock-wipe-dualboot-split, which gives up     *)
(* Android's userdata, and restore-stock-gpt, which goes back.  Each       *)
(* checks its guards, changes the table, has the kernel read it again,     *)
(* verifies, and undoes the change from an exit trap when anything fails   *)
(* in between.  /run, with the copies of the table and the mark of the     *)
(* shrinking, lasts until the next boot.  The authorization of each        *)
(* program is part of starting it.                                         *)
(***************************************************************************)
EXTENDS Naturals

CONSTANTS MaxSlips      \* bound: failing steps, signals, power cuts

VARIABLES
    table,  \* the partition table on the disk
    seen,   \* the partitions the kernel knows
    data,   \* what partition 34 holds
    kept,   \* under /run: copies of the tables that match the host's, the mark
    job,    \* the program, where it is, its last word, the table it found
    slips   \* slips so far, and what excuses a wrong word

gpt == <<table, seen, data, kept, job, slips>>

Programs == {"shrink", "split", "wipe", "restore"}
Layouts == {"original", "split"}

ASSUME GptSplitConstants == MaxSlips \in Nat

GptTypeOK ==
    /\ table \in Layouts \cup {"torn"} /\ seen \in Layouts
    /\ data \in {"factory", "large", "partial", "shrunk"}
    /\ kept \in SUBSET {"original", "split", "shrunk"}
    /\ job \in [program : Programs \cup {"none"},
                pc : {"idle", "guards", "resize", "mark", "write", "reread", "verify", "commit",
                      "load_back", "reread_back", "check_back"},
                says : {"nothing", "refused", "shrunk", "applied", "undone", "lost"},
                found : Layouts \cup {"torn"}]
    /\ slips \in [number : 0..MaxSlips, what : SUBSET {"cut", "undoing", "committed"}]

GptInit ==
    /\ table = "original" /\ seen = "original"
    /\ data \in {"factory", "large"}
    /\ kept = {}
    /\ job = [program |-> "none", pc |-> "idle", says |-> "nothing", found |-> "original"]
    /\ slips = [number |-> 0, what |-> {}]

-----------------------------------------------------------------------------
JobAt(pc) == job.pc = pc
JobGoto(pc) == job' = [job EXCEPT !.pc = pc]
Ends(word) == job' = [job EXCEPT !.pc = "idle", !.says = word]
Slip(what) == /\ slips.number < MaxSlips
              /\ slips' = [number |-> slips.number + 1, what |-> slips.what \cup what]

\* The table a program starts from, and the one it makes.
Before(p) == IF p = "restore" THEN "split" ELSE "original"
Made(p) == IF p = "restore" THEN "original" ELSE "split"

\* The host exports the table and keeps it, or brings its copies back.
Bring(layout) ==
    /\ JobAt("idle") /\ layout \notin kept /\ table # "torn"
    /\ layout = "split" => table = "split"
    /\ kept' = kept \cup {layout}
    /\ UNCHANGED <<table, seen, data, job, slips>>

StartJob(p) ==
    /\ JobAt("idle")
    /\ job' = [program |-> p, pc |-> "guards", says |-> "nothing", found |-> table]
    /\ UNCHANGED <<table, seen, data, kept, slips>>

\* Layout of the kernel and of the disk (the live table is compared with the copy of the
\* host), the superblock of partition 34, and the mark of the same session.
Guards(p) ==
    /\ table = Before(p) /\ seen = Before(p)
    /\ Before(p) \in kept /\ (p = "restore" => "original" \in kept)
    /\ CASE p = "shrink"  -> data \in {"large", "partial", "shrunk"}
         [] p = "split"   -> data = "shrunk" /\ "shrunk" \in kept
         [] p = "wipe"    -> data = "factory"
         [] p = "restore" -> TRUE

\* Platform, power, hashes of the protected partitions and e2fsck may refuse as well.
CheckGuards ==
    /\ JobAt("guards")
    /\ \/ Guards(job.program)
          /\ JobGoto(IF job.program = "shrink" THEN "resize" ELSE "write") /\ UNCHANGED slips
       \/ ~Guards(job.program) /\ Ends("refused") /\ UNCHANGED slips
       \/ Slip({}) /\ Ends("refused")
    /\ UNCHANGED <<table, seen, data, kept>>

\* e2fsck -fp repairs or gives up; resize2fs may stop half way.
Resize ==
    /\ JobAt("resize")
    /\ \/ data' = "shrunk" /\ JobGoto("mark") /\ UNCHANGED slips
       \/ Slip({}) /\ data' \in {data, IF data = "shrunk" THEN data ELSE "partial"}
          /\ Ends("refused")
    /\ UNCHANGED <<table, seen, kept>>

\* The second e2fsck, the checks again, the mark.
Mark ==
    /\ JobAt("mark")
    /\ \/ kept' = kept \cup {"shrunk"} /\ Ends("shrunk") /\ UNCHANGED slips
       \/ Slip({}) /\ Ends("refused") /\ UNCHANGED kept
    /\ UNCHANGED <<table, seen, data>>

\* Mutant: gpt_changed is set after sgdisk.
WriteTableUnguarded ==
    /\ JobAt("write")
    /\ \/ table' = Made(job.program) /\ JobGoto("reread") /\ UNCHANGED slips
       \/ Slip({}) /\ table' \in {Before(job.program), "torn", Made(job.program)}
          /\ Ends("refused")
    /\ UNCHANGED <<seen, data, kept>>

\* gpt_changed is set before sgdisk is called, so that a write that fails
\* half way is undone as well.
WriteTable ==
    /\ JobAt("write")
    /\ \/ table' = Made(job.program) /\ JobGoto("reread") /\ UNCHANGED slips
       \/ Slip({}) /\ table' \in {Before(job.program), "torn", Made(job.program)}
          /\ JobGoto("load_back")
    /\ UNCHANGED <<seen, data, kept>>

Reread ==
    /\ JobAt("reread")
    /\ \/ seen' = table /\ JobGoto("verify") /\ UNCHANGED slips
       \/ Slip({}) /\ JobGoto("load_back") /\ UNCHANGED seen
    /\ UNCHANGED <<table, data, kept>>

\* Nodes, layout, the file system in its new bounds, protected partitions; then
\* committed=1.
Verify ==
    /\ JobAt("verify")
    /\ \/ seen = Made(job.program) /\ JobGoto("commit") /\ UNCHANGED slips
       \/ Slip({}) /\ JobGoto("load_back")
    /\ UNCHANGED <<table, seen, data, kept>>

Commit ==
    /\ JobAt("commit") /\ Ends("applied")
    /\ UNCHANGED <<table, seen, data, kept, slips>>

-----------------------------------------------------------------------------
(* rollback_on_exit, rollback_on_error.                                    *)

LoadBack ==
    /\ JobAt("load_back")
    /\ \/ table' = Before(job.program) /\ JobGoto("reread_back") /\ UNCHANGED slips
       \/ Slip({}) /\ table' \in {table, "torn"} /\ Ends("lost")
    /\ UNCHANGED <<seen, data, kept>>

\* restore-stock-gpt does not look whether the kernel could read the table.
RereadBack ==
    /\ JobAt("reread_back")
    /\ LET done == IF job.program = "restore" THEN Ends("undone") ELSE JobGoto("check_back")
       IN \/ seen' = table /\ done /\ UNCHANGED slips
          \/ Slip({}) /\ UNCHANGED seen
             /\ IF job.program = "restore" THEN done ELSE Ends("lost")
    /\ UNCHANGED <<table, data, kept>>

\* check_original_layout ends the trap by itself when it fails; a copy that
\* differs is told as lost.
CheckBack ==
    /\ JobAt("check_back")
    /\ \/ Ends("undone") /\ UNCHANGED slips
       \/ Slip({}) /\ \E word \in {"refused", "lost"} : Ends(word)
    /\ UNCHANGED <<table, seen, data, kept>>

-----------------------------------------------------------------------------
Shrinking == job.pc \in {"guards", "resize", "mark"}
Changing == job.pc \in {"write", "reread", "verify"}
Undoing == job.pc \in {"load_back", "reread_back", "check_back"}

\* HUP, INT or TERM, between two commands.  The split programs exit with 125 and so
\* through their rollback; restore-stock-gpt enters its rollback with the status of the
\* last command, and when that succeeded it exits 0 and undoes nothing.
SignalJob ==
    \/ /\ Shrinking /\ Slip({}) /\ Ends("refused")
       /\ UNCHANGED <<table, seen, data, kept>>
    \/ /\ Changing
       /\ \/ Slip({}) /\ JobGoto("load_back")
          \/ job.program = "restore" /\ Slip({}) /\ Ends("nothing")
       /\ UNCHANGED <<table, seen, data, kept>>
    \/ /\ JobAt("commit") /\ Slip({"committed"}) /\ Ends("refused")
       /\ UNCHANGED <<table, seen, data, kept>>
    \/ /\ Undoing /\ Slip({"undoing"}) /\ Ends("refused")
       /\ UNCHANGED <<table, seen, data, kept>>

\* The tablet loses power and boots the maintenance image again.
PowerCycle ==
    /\ Slip({"cut"}) /\ Ends("nothing")
    /\ table' \in {table} \cup (IF job.pc \in {"write", "load_back"} THEN {"torn"} ELSE {})
    /\ seen' \in IF table' = "torn" THEN Layouts ELSE {table'}
    /\ data' \in {data} \cup (IF JobAt("resize") /\ data # "shrunk" THEN {"partial"}
                             ELSE {})
    /\ kept' = {}

GptNext == \/ \E layout \in Layouts : Bring(layout)
           \/ \E p \in Programs : StartJob(p)
           \/ CheckGuards \/ Resize \/ Mark \/ WriteTable \/ Reread \/ Verify \/ Commit
           \/ LoadBack \/ RereadBack \/ CheckBack \/ SignalJob \/ PowerCycle

GptSpec == GptInit /\ [][GptNext]_gpt

-----------------------------------------------------------------------------
(* Properties.                                                             *)

\* What a program says of the table is true of the disk, and of the kernel where it says
\* that the change was made: a refusal or an announced rollback leaves the table the
\* program found, whichever command failed or was interrupted, half written or not.  And
\* whatever was cut or repeated, Ubuntu is never left in a partition that is too small for
\* it.  Not covered: a power cut, a signal in the rollback or between the commit and the
\* word; and a restore that a signal ends says nothing at all.
TableTold ==
    /\ table = "split" => data \in {"shrunk", "factory"}
    /\ JobAt("idle") /\ slips.what = {} =>
        /\ job.says = "applied" => table = Made(job.program) /\ seen = table
        /\ job.says \in {"refused", "undone"} => table = job.found
=============================================================================
