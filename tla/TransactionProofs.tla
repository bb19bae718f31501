------------------------- MODULE TransactionProofs -------------------------
(***************************************************************************)
(* Proofs about the transactions on misc (AndroidInit) and on the          *)
(* partition table (GptSplit), for any number of faults: what a program    *)
(* says when it ends is true of the partition; and on the account          *)
(* (FirstBoot), for any users and any number of attempts: the owner marker *)
(* is the commit point.                                                    *)
(***************************************************************************)
EXTENDS GptSplit, AndroidInit, FirstBoot, TLAPS

-----------------------------------------------------------------------------
(***************************************************************************)
(* The partition table.                                                    *)
(***************************************************************************)

\* A program that goes on or ends keeps its record in its type.
JobPCs == {"idle", "guards", "resize", "mark", "write", "reread", "verify", "commit",
           "load_back", "reread_back", "check_back"}
Words == {"nothing", "refused", "shrunk", "applied", "undone", "lost"}

LEMMA JobMoves ==
    ASSUME GptTypeOK
    PROVE  /\ \A pc \in JobPCs : JobGoto(pc) =>
                 /\ job'.pc = pc /\ job'.program = job.program
                 /\ job'.says = job.says /\ job'.found = job.found
                 /\ job' \in [program : Programs \cup {"none"}, pc : JobPCs, says : Words,
                              found : Layouts \cup {"torn"}]
           /\ \A word \in Words : Ends(word) =>
                 /\ job'.pc = "idle" /\ job'.program = job.program
                 /\ job'.says = word /\ job'.found = job.found
                 /\ job' \in [program : Programs \cup {"none"}, pc : JobPCs, says : Words,
                              found : Layouts \cup {"torn"}]
  BY DEF GptTypeOK, JobGoto, Ends, JobPCs, Words

LEMMA SlipType ==
    ASSUME GptTypeOK, NEW what \in SUBSET {"cut", "undoing", "committed"}, Slip(what)
    PROVE  /\ slips' \in [number : 0..MaxSlips, what : SUBSET {"cut", "undoing", "committed"}]
           /\ slips'.what = slips.what \cup what
<1>1. slips.number \in 0..MaxSlips /\ slips.number < MaxSlips
  BY DEF GptTypeOK, Slip
<1>2. slips.number + 1 \in 0..MaxSlips
  BY <1>1, GptSplitConstants
<1>3. slips.what \cup what \in SUBSET {"cut", "undoing", "committed"}
  BY DEF GptTypeOK
<1>4. slips' = [number |-> slips.number + 1, what |-> slips.what \cup what]
  BY DEF Slip
<1>5. QED
  BY <1>2, <1>3, <1>4

\* What the programs have found and made wherever they are, and what is in partition 34
\* when they change the table.
TableHeld ==
    /\ table = "split" => data \in {"shrunk", "factory"}
    /\ JobAt("guards") => table = job.found /\ job.program \in Programs
    /\ job.pc \in {"resize", "mark"} => table = "original" /\ job.found = "original"
    /\ job.pc \in {"write", "reread", "verify", "commit", "load_back", "reread_back",
                   "check_back"}
          => /\ data \in {"shrunk", "factory"}
             /\ job.program \in {"split", "wipe", "restore"}
             /\ job.found = Before(job.program)
    /\ job.pc \in {"reread", "verify", "commit"} => table = Made(job.program)
    /\ JobAt("commit") => seen = table
    /\ job.pc \in {"write", "reread_back", "check_back"} => table = Before(job.program)

TableInv == GptTypeOK /\ TableHeld /\ TableTold

LEMMA TableInit == GptInit => TableInv
  BY GptSplitConstants DEF GptInit, TableInv, GptTypeOK, TableHeld, TableTold, JobAt, Layouts,
     Programs

LEMMA TableStep == TableInv /\ [GptNext]_gpt => TableInv'
<1> SUFFICES ASSUME TableInv, [GptNext]_gpt PROVE TableInv'
  OBVIOUS
<1> USE DEF TableInv, TableHeld, TableTold, JobAt, Layouts, Programs, JobPCs, Words,
        Before, Made
<1>1. CASE UNCHANGED gpt
  BY <1>1 DEF gpt, GptTypeOK
<1>2. ASSUME NEW layout \in Layouts, Bring(layout) PROVE TableInv'
  BY <1>2 DEF Bring, GptTypeOK
<1>3. ASSUME NEW p \in Programs, StartJob(p) PROVE TableInv'
  BY <1>3 DEF StartJob, GptTypeOK
<1>4. CASE CheckGuards
  <2>0. JobAt("guards") /\ UNCHANGED <<table, seen, data, kept>>
    BY <1>4 DEF CheckGuards
  <2>1. CASE /\ Guards(job.program) /\ UNCHANGED slips
             /\ JobGoto(IF job.program = "shrink" THEN "resize" ELSE "write")
    BY <2>0, <2>1, JobMoves DEF Guards, GptTypeOK
  <2>2. CASE Ends("refused") /\ UNCHANGED slips
    BY <2>0, <2>2, JobMoves DEF GptTypeOK
  <2>3. CASE Slip({}) /\ Ends("refused")
    BY <2>0, <2>3, JobMoves, SlipType DEF GptTypeOK
  <2>4. QED
    BY <1>4, <2>1, <2>2, <2>3 DEF CheckGuards
<1>5. CASE Resize
  BY <1>5, JobMoves, SlipType DEF Resize, GptTypeOK
<1>6. CASE Mark
  BY <1>6, JobMoves, SlipType DEF Mark, GptTypeOK
<1>7. CASE WriteTable
  BY <1>7, JobMoves, SlipType DEF WriteTable, GptTypeOK
<1>8. CASE Reread
  BY <1>8, JobMoves, SlipType DEF Reread, GptTypeOK
<1>9. CASE Verify
  BY <1>9, JobMoves, SlipType DEF Verify, GptTypeOK
<1>10. CASE Commit
  BY <1>10, JobMoves DEF Commit, GptTypeOK
<1>11. CASE LoadBack
  BY <1>11, JobMoves, SlipType DEF LoadBack, GptTypeOK
<1>12. CASE RereadBack
  BY <1>12, JobMoves, SlipType DEF RereadBack, GptTypeOK
<1>13. CASE CheckBack
  BY <1>13, JobMoves, SlipType DEF CheckBack, GptTypeOK
<1>14. CASE SignalJob
  <2>0. UNCHANGED <<table, seen, data, kept>>
    BY <1>14 DEF SignalJob
  <2>1. CASE Shrinking /\ Slip({}) /\ Ends("refused")
    BY <2>0, <2>1, JobMoves, SlipType DEF Shrinking, GptTypeOK
  <2>2. CASE Changing /\ Slip({}) /\ JobGoto("load_back")
    BY <2>0, <2>2, JobMoves, SlipType DEF Changing, GptTypeOK
  <2>3. CASE Changing /\ Slip({}) /\ Ends("nothing")
    BY <2>0, <2>3, JobMoves, SlipType DEF Changing, GptTypeOK
  <2>4. CASE Slip({"committed"}) /\ Ends("refused")
    BY <2>0, <2>4, JobMoves, SlipType DEF GptTypeOK
  <2>5. CASE Slip({"undoing"}) /\ Ends("refused")
    BY <2>0, <2>5, JobMoves, SlipType DEF GptTypeOK
  <2>6. QED
    BY <1>14, <2>1, <2>2, <2>3, <2>4, <2>5 DEF SignalJob
<1>15. CASE PowerCycle
  BY <1>15, JobMoves, SlipType DEF PowerCycle, GptTypeOK
<1>16. QED
  BY <1>1, <1>2, <1>3, <1>4, <1>5, <1>6, <1>7, <1>8, <1>9, <1>10, <1>11, <1>12, <1>13,
     <1>14, <1>15 DEF GptNext

LEMMA TableInvariant == GptSpec => []TableInv
  BY TableInit, TableStep, PTL DEF GptSpec

\* Whatever fails, is interrupted or cut, the last word of a program is true of the
\* partition table, and Ubuntu fits into its partition.
THEOREM TableTruth == GptSpec => []TableTold
  BY TableInvariant, PTL DEF TableInv

-----------------------------------------------------------------------------
(***************************************************************************)
(* The recovery message in misc.                                           *)
(***************************************************************************)
Coords == [pc : {"idle", "preflight", "download", "upload", "script"}, apply : BOOLEAN,
           says : {"nothing", "failed", "passed", "staged"},
           gated : BOOLEAN, runs : 0..MaxStarts]
Excuses == {"cut", "signal", "unheard", "undone"}

LEMMA TroubleType ==
    ASSUME AndroidTypeOK, NEW what \in SUBSET Excuses, Trouble(what)
    PROVE  /\ troubles' \in [faults : 0..MaxTroubles, what : SUBSET Excuses]
           /\ troubles'.what = troubles.what \cup what
<1>1. troubles.faults \in 0..MaxTroubles /\ troubles.faults < MaxTroubles
  BY DEF AndroidTypeOK, Trouble
<1>2. troubles.faults + 1 \in 0..MaxTroubles
  BY <1>1, AndroidInitConstants
<1>3. troubles.what \cup what \in SUBSET Excuses
  BY DEF AndroidTypeOK, Excuses
<1>4. troubles' = [faults |-> troubles.faults + 1, what |-> troubles.what \cup what]
  BY DEF Trouble
<1>5. QED
  BY <1>2, <1>3, <1>4

LEMMA SaysType ==
    ASSUME AndroidTypeOK, NEW word \in {"nothing", "failed", "passed", "staged"}
    PROVE  /\ Says(word) \in Coords /\ Says(word).pc = "idle" /\ Says(word).says = word
           /\ Says(word).apply = coord.apply
  BY DEF AndroidTypeOK, Says, Coords

LEMMA CoordMoves ==
    ASSUME AndroidTypeOK, NEW pc \in {"download", "upload", "script"},
           coord' = [coord EXCEPT !.pc = pc]
    PROVE  coord' \in Coords /\ coord'.pc = pc
  BY DEF AndroidTypeOK, Coords

\* A run starts on a quiet tablet and an untouched partition; while nothing has happened
\* that excuses a wrong word, the script is alone, and its place says what misc holds.
MiscHeld ==
    /\ coord.pc \in {"preflight", "download", "upload"} => tablet = "none" /\ misc = "old"
    /\ troubles.what = {} =>
          /\ coord.pc = "idle" => tablet = "none"
          /\ coord.pc = "script" => tablet # "none"
          /\ tablet \in {"copy", "check", "write", "failed"} => misc = "old"
          /\ tablet \in {"read", "sync"} => misc = "message" /\ coord.apply
          /\ tablet = "write" => coord.apply
          /\ tablet \in {"clean", "ok"} => misc = IF coord.apply THEN "message" ELSE "old"

MiscInv == AndroidTypeOK /\ MiscHeld /\ TellsMisc

LEMMA MiscInit == AndroidInit => MiscInv
<1> SUFFICES ASSUME AndroidInit PROVE MiscInv
  OBVIOUS
<1>1. coord \in Coords
  BY AndroidInitConstants DEF AndroidInit, Coords
<1>2. troubles \in [faults : 0..MaxTroubles, what : SUBSET Excuses]
  BY AndroidInitConstants DEF AndroidInit, Excuses
<1>3. QED
  BY <1>1, <1>2 DEF AndroidInit, MiscInv, AndroidTypeOK, MiscHeld, TellsMisc, Coords, Excuses

LEMMA MiscStep == MiscInv /\ [AndroidNext]_android => MiscInv'
<1> SUFFICES ASSUME MiscInv, [AndroidNext]_android PROVE MiscInv'
  OBVIOUS
<1> USE DEF MiscInv, MiscHeld, TellsMisc, ScriptAt, Fails, Coords, Excuses, AndroidTypeOK
<1>1. CASE UNCHANGED android
  BY <1>1 DEF android
<1>2. ASSUME NEW apply \in BOOLEAN, StartRun(apply) PROVE MiscInv'
  <2>1. coord.runs + 1 \in 0..MaxStarts
    BY <1>2, AndroidInitConstants DEF StartRun
  <2>2. (coord.gated \/ coord.says = "passed") \in BOOLEAN
    BY Zenon
  <2>3. coord' \in Coords /\ coord'.pc = "preflight"
    BY <1>2, <2>1, <2>2 DEF StartRun
  <2>4. QED
    BY <1>2, <2>3 DEF StartRun
<1>3. CASE Preflight
  BY <1>3, TroubleType, SaysType, CoordMoves DEF Preflight
<1>4. CASE Download
  BY <1>4, TroubleType, SaysType, CoordMoves DEF Download
<1>5. CASE Upload
  BY <1>5, TroubleType, SaysType, CoordMoves DEF Upload
<1>6. CASE Hear
  BY <1>6, SaysType DEF Hear
<1>7. CASE StopWaiting
  BY <1>7, TroubleType, SaysType DEF StopWaiting
<1>8. CASE CopyPayload
  BY <1>8, TroubleType DEF CopyPayload
<1>9. CASE CheckStager
  BY <1>9, TroubleType DEF CheckStager, CheckRun
<1>10. CASE WriteMessage
  BY <1>10, TroubleType DEF WriteMessage
<1>11. CASE ReadBack
  BY <1>11, TroubleType DEF ReadBack
<1>12. CASE Undo
  BY <1>12, TroubleType DEF Undo
<1>13. CASE Sync
  BY <1>13 DEF Sync
<1>14. CASE Clean
  BY <1>14 DEF Clean
<1>15. CASE Drain
  BY <1>15 DEF Drain
<1>16. CASE SignalScript
  BY <1>16, TroubleType DEF SignalScript
<1>17. CASE LosePower
  BY <1>17, TroubleType, SaysType DEF LosePower
<1>18. QED
  BY <1>1, <1>2, <1>3, <1>4, <1>5, <1>6, <1>7, <1>8, <1>9, <1>10, <1>11, <1>12, <1>13,
     <1>14, <1>15, <1>16, <1>17 DEF AndroidNext, Coordinator, TabletScript

LEMMA MiscInvariant == AndroidSpec => []MiscInv
  BY MiscInit, MiscStep, PTL DEF AndroidSpec

\* The host's word about the recovery message is true, wherever a guard, the write, the
\* readback or a signal ended the stager.
THEOREM MiscTruth == AndroidSpec => []TellsMisc
  BY MiscInvariant, PTL DEF MiscInv

-----------------------------------------------------------------------------
(***************************************************************************)
(* The first boot.                                                         *)
(***************************************************************************)


\* The steps of the backend by their number.
LEMMA StepsAre ==
    /\ Len(Steps) = 16
    /\ Steps[1] = "check"
    /\ Steps[2] = "useradd"
    /\ Steps[3] = "home"
    /\ Steps[4] = "usermod"
    /\ Steps[5] = "chpasswd"
    /\ Steps[6] = "locale-gen"
    /\ Steps[7] = "hostname"
    /\ Steps[8] = "timezone"
    /\ Steps[9] = "locale"
    /\ Steps[10] = "keyboard"
    /\ Steps[11] = "unlink"
    /\ Steps[12] = "symlink"
    /\ Steps[13] = "machine-id"
    /\ Steps[14] = "profile"
    /\ Steps[15] = "owner"
    /\ Steps[16] = "exit"
  BY DEF Steps

\* What a command may change: it only adds, except for the password.
Adds(d, e) ==
    /\ e \in Disks
    /\ d.accounts \subseteq e.accounts /\ d.homes \subseteq e.homes /\ d.members \subseteq e.members
    /\ d.locales \subseteq e.locales /\ (d.machine => e.machine) /\ e.kept = d.kept

LEMMA CommandEffect ==
    ASSUME NEW d \in Disks, NEW step \in Commands, NEW a \in Attempts, chosen[a] \in Users
    PROVE  /\ Adds(d, Effect(d, step, a))
           /\ step # "chpasswd" => Effect(d, step, a).password = d.password
<1>1. Attempts \subseteq 0..MaxAttempts
  BY FirstBootConstants DEF Attempts
<1>2. CASE step = "useradd"
  <2>1. Effect(d, step, a) = [d EXCEPT !.accounts = @ \cup {chosen[a]}]
    BY <1>2 DEF Effect, Kept, Files
  <2>2. QED
    BY <1>2, <2>1 DEF Adds, Disks
<1>2h. CASE step = "home"
  <2>1. Effect(d, step, a) = [d EXCEPT !.homes = @ \cup {chosen[a]}]
    BY <1>2h DEF Effect, Kept, Files
  <2>2. QED
    BY <1>2h, <2>1 DEF Adds, Disks
<1>3. CASE step = "usermod"
  <2>1. Effect(d, step, a) = [d EXCEPT !.members = @ \cup ({chosen[a]} \cap d.accounts)]
    BY <1>3 DEF Effect, Kept, Files
  <2>2. QED
    BY <1>3, <2>1 DEF Adds, Disks
<1>4. CASE step = "chpasswd"
  <2>1. Effect(d, step, a) = IF chosen[a] \in d.accounts
                           THEN [d EXCEPT !.password[chosen[a]] = a] ELSE d
    BY <1>4 DEF Effect, Kept, Files
  <2>2. QED
    BY <1>4, <2>1, <1>1 DEF Adds, Disks
<1>5. CASE step = "locale-gen"
  <2>1. Effect(d, step, a) = [d EXCEPT !.locales = @ \cup {a}]
    BY <1>5 DEF Effect, Kept, Files
  <2>2. QED
    BY <1>5, <2>1 DEF Adds, Disks
<1>6. CASE step = "machine-id"
  <2>1. Effect(d, step, a) = [d EXCEPT !.machine = TRUE]
    BY <1>6 DEF Effect, Kept, Files
  <2>2. QED
    BY <1>6, <2>1 DEF Adds, Disks
<1>7. QED
  BY <1>2, <1>2h, <1>3, <1>4, <1>5, <1>6 DEF Commands

\* What each command makes of the account it works for.
LEMMA CommandDone ==
    ASSUME NEW d \in Disks, NEW a \in Attempts, chosen[a] \in Users
    PROVE  /\ chosen[a] \in Effect(d, "useradd", a).accounts
           /\ chosen[a] \in d.accounts
                 => /\ chosen[a] \in Effect(d, "usermod", a).members
                    /\ Effect(d, "chpasswd", a).password[chosen[a]] = a
           /\ a \in Effect(d, "locale-gen", a).locales
           /\ Effect(d, "machine-id", a).machine
<1>1. Effect(d, "useradd", a) = [d EXCEPT !.accounts = @ \cup {chosen[a]}]
  BY DEF Effect, Kept, Files
<1>2. Effect(d, "usermod", a) = [d EXCEPT !.members = @ \cup ({chosen[a]} \cap d.accounts)]
  BY DEF Effect, Kept, Files
<1>3. chosen[a] \in d.accounts
         => Effect(d, "chpasswd", a) = [d EXCEPT !.password[chosen[a]] = a]
  BY DEF Effect, Kept, Files
<1>4. Effect(d, "locale-gen", a) = [d EXCEPT !.locales = @ \cup {a}]
  BY DEF Effect, Kept, Files
<1>5. Effect(d, "machine-id", a) = [d EXCEPT !.machine = TRUE]
  BY DEF Effect, Kept, Files
<1>6. QED
  BY <1>1, <1>2, <1>3, <1>4, <1>5 DEF Disks

\* A file that is replaced is of this attempt, and nothing else changes.
Replaces(d, e, k, v) ==
    /\ e \in Disks /\ e.kept = [d.kept EXCEPT ![k] = v]
    /\ e.accounts = d.accounts /\ e.homes = d.homes /\ e.members = d.members
    /\ e.password = d.password
    /\ e.locales = d.locales /\ (e.machine <=> d.machine)

LEMMA FileEffect ==
    ASSUME NEW d \in Disks, NEW k \in Files, NEW a \in Attempts
    PROVE  Replaces(d, Effect(d, k, a), k, a)
<1>1. Attempts \subseteq 0..MaxAttempts
  BY FirstBootConstants DEF Attempts
<1>2. Effect(d, k, a) = [d EXCEPT !.kept[k] = a]
  BY DEF Effect, Files, Kept
<1>3. QED
  BY <1>1, <1>2 DEF Replaces, Disks, Kept

LEMMA LinkEffect ==
    ASSUME NEW d \in Disks, NEW a \in Attempts
    PROVE  /\ Replaces(d, Effect(d, "unlink", a), "localtime", 0)
           /\ Replaces(d, Effect(d, "symlink", a), "localtime", a)
<1>1. Attempts \subseteq 0..MaxAttempts /\ 0 \in 0..MaxAttempts
  BY FirstBootConstants DEF Attempts
<1>2. /\ Effect(d, "unlink", a) = [d EXCEPT !.kept["localtime"] = 0]
      /\ Effect(d, "symlink", a) = [d EXCEPT !.kept["localtime"] = a]
  BY DEF Effect, Kept, Files
<1>3. QED
  BY <1>1, <1>2 DEF Replaces, Disks, Kept

-----------------------------------------------------------------------------
LEMMA TypeInit == FirstBootInit => FirstBootTypeOK
<1> SUFFICES ASSUME FirstBootInit PROVE FirstBootTypeOK
  OBVIOUS
<1>1. FALSE \in BOOLEAN /\ 0 \in 0..MaxAttempts
  BY FirstBootConstants
<1>2. disk \in Disks
  BY <1>1 DEF FirstBootInit, Disks
<1>3. QED
  BY <1>1, <1>2, StepsAre DEF FirstBootInit, FirstBootTypeOK, Form, NoOrphan

\* MarkerLast is not inductive: it says nothing of a disk without an owner.  A backend
\* that has come to a step has left the effects of the steps before it, and no owner is
\* there until it writes its own.
Filled(d, a) ==
    /\ chosen[a] \in d.accounts /\ chosen[a] \in d.members
    /\ chosen[a] \in d.homes \/ "half" \in late
    /\ d.password[chosen[a]] = a \/ "late" \in late

Prepared ==
    LET a == ui.attempt
    IN /\ backend > 2 => chosen[a] \in disk.accounts
       /\ backend > 4 => chosen[a] \in disk.members
       /\ backend > 5 => disk.password[chosen[a]] = a \/ "late" \in late
       /\ backend > 6 => a \in disk.locales
       /\ backend > 7 => disk.kept["hostname"] = a
       /\ backend > 8 => disk.kept["timezone"] = a
       /\ backend > 9 => disk.kept["locale"] = a
       /\ backend > 10 => disk.kept["keyboard"] = a
       /\ backend > 12 => disk.kept["localtime"] = a
       /\ backend > 13 => disk.machine
       /\ backend > 14 => disk.kept["profile"] = a

Owned(d) ==
    LET a == d.kept["owner"]
    IN a # 0 => /\ Filled(d, a) /\ \A k \in Kept : d.kept[k] = a
                /\ a \in d.locales /\ d.machine /\ a <= ui.attempt

Attempted ==
    /\ \A a \in 1..ui.attempt : chosen[a] \in Users
    /\ backend # 0 => ui.attempt \in Attempts
    /\ orphan # NoOrphan => orphan.step \in Commands /\ orphan.attempt \in 1..ui.attempt
    /\ backend > 1 /\ backend < 16 => disk.kept["owner"] = 0
    /\ disk.kept["owner"] = 0 => durable.kept["owner"] = 0

\* An account without a home is one whose useradd runs, or was cut off.
Housed == \A u \in disk.accounts : \/ u \in disk.homes \/ "half" \in late
                                   \/ backend = 3 /\ u = chosen[ui.attempt]

\* The backend runs while the wizard waits for it.
Busy == backend # 0 => ui.state = "busy" /\ ui.result = "none"

FirstBootCore == FirstBootTypeOK /\ Attempted /\ Prepared /\ Owned(disk) /\ Owned(durable)
FirstBootInv == FirstBootCore /\ Housed /\ Busy

LEMMA FirstBootInvInit == FirstBootInit => FirstBootInv
<1> SUFFICES ASSUME FirstBootInit PROVE FirstBootInv
  OBVIOUS
<1>1. disk.kept["owner"] = 0 /\ durable = disk
  BY DEF FirstBootInit, Kept, Files
<1>2. QED
  BY <1>1, TypeInit, FirstBootConstants
     DEF FirstBootInit, FirstBootInv, FirstBootCore, Housed, Busy, Attempted, Prepared,
         Owned, Form, NoOrphan

\* The facts every step of a running backend starts from.
LEMMA BackendAt ==
    ASSUME FirstBootInv, backend # 0
    PROVE  /\ ui.attempt \in Attempts /\ chosen[ui.attempt] \in Users
           /\ disk \in Disks /\ durable \in Disks /\ backend \in 1..16
           /\ ui.attempt \in 1..ui.attempt /\ ui.attempt # 0
           /\ backend > 1 /\ backend < 16 => ~Complete /\ durable.kept["owner"] = 0
  BY StepsAre, FirstBootConstants
     DEF FirstBootInv, FirstBootCore, FirstBootTypeOK, Attempted, Attempts, Complete

\* A step that leaves no owner on the disk need only say what it has prepared.
LEMMA NoOwnerYet ==
    ASSUME FirstBootInv, backend \in 1..15, backend' \in {backend + 1, backend + 2},
           backend' \in 2..16, disk' \in Disks,
           durable' \in {durable, disk}, UNCHANGED <<ui, chosen, orphan, late>>,
           disk.kept["owner"] = 0, disk'.kept["owner"] = 0, Prepared'
    PROVE  FirstBootCore'
<1>1. durable' \in Disks /\ durable'.kept["owner"] = 0
  BY DEF FirstBootInv, FirstBootCore, FirstBootTypeOK, Attempted
<1>2. FirstBootTypeOK'
  BY <1>1, StepsAre DEF FirstBootInv, FirstBootCore, FirstBootTypeOK
<1>3. Attempted'
  BY <1>1 DEF FirstBootInv, FirstBootCore, Attempted, NoOrphan
<1>4. QED
  BY <1>1, <1>2, <1>3 DEF FirstBootInv, FirstBootCore, Owned

LEMMA DoCheck == FirstBootInv /\ Do /\ backend = 1 => FirstBootCore'
<1> SUFFICES ASSUME FirstBootInv, Do, backend = 1 PROVE FirstBootCore'
  OBVIOUS
<1>1. ~Skipped("check") /\ Effect(disk, "check", ui.attempt) = disk /\ ~Commits("check")
  BY DEF Skipped, Effect, Commits, Kept, Files
<1>2. disk' = disk /\ durable' = durable /\ disk.kept["owner"] = 0 /\ backend' = 2
  BY <1>1, StepsAre DEF Do, Complete
<1>3. Prepared'
  BY <1>2 DEF Prepared
<1>4. QED
  BY <1>2, <1>3, NoOwnerYet, BackendAt DEF Do

LEMMA DoCommand == FirstBootInv /\ Do /\ Steps[backend] \in Commands => FirstBootCore'
<1> SUFFICES ASSUME FirstBootInv, Do, Steps[backend] \in Commands PROVE FirstBootCore'
  OBVIOUS
<1> DEFINE a == ui.attempt
<1>1. backend \in 1..15
  BY StepsAre DEF Do
<1>2. backend \in {2, 3, 4, 5, 6, 13}
  BY <1>1, StepsAre DEF Commands
<1>3. /\ a \in Attempts /\ chosen[a] \in Users /\ disk \in Disks
      /\ disk.kept["owner"] = 0
  BY <1>2, BackendAt DEF Complete
<1>4. /\ durable' = durable
      /\ backend' = backend + IF Skipped(Steps[backend]) THEN 2 ELSE 1
      /\ UNCHANGED <<ui, chosen, orphan, late>>
      /\ disk' = IF Skipped(Steps[backend]) THEN disk ELSE Effect(disk, Steps[backend], a)
  BY DEF Do, Commits, Files, Commands
<1>5. Adds(disk, disk') /\ (Steps[backend] # "chpasswd" => disk'.password = disk.password)
  BY <1>3, <1>4, CommandEffect DEF Adds
<1>4b. /\ backend # 2 => backend' = backend + 1 /\ disk' = Effect(disk, Steps[backend], a)
       /\ backend = 2 => backend' \in {3, 4}
  BY <1>2, <1>4, StepsAre DEF Skipped
<1>6. Prepared'
  <2>1. CASE backend = 2
    BY <2>1, <1>3, <1>4, <1>5, StepsAre, CommandDone
       DEF Prepared, FirstBootInv, FirstBootCore, Adds, Skipped, Me
  <2>1h. CASE backend = 3
    BY <2>1h, <1>3, <1>4, <1>4b, <1>5 DEF Prepared, FirstBootInv, FirstBootCore, Adds
  <2>2. CASE backend = 4
    BY <2>2, <1>3, <1>4, <1>5, StepsAre, CommandDone
       DEF Prepared, FirstBootInv, FirstBootCore, Adds, Skipped
  <2>3. CASE backend = 5
    BY <2>3, <1>3, <1>4, <1>5, StepsAre, CommandDone
       DEF Prepared, FirstBootInv, FirstBootCore, Adds, Skipped
  <2>4. CASE backend = 6
    BY <2>4, <1>3, <1>4, <1>5, StepsAre, CommandDone
       DEF Prepared, FirstBootInv, FirstBootCore, Adds, Skipped
  <2>5. CASE backend = 13
    BY <2>5, <1>3, <1>4, <1>5, StepsAre, CommandDone
       DEF Prepared, FirstBootInv, FirstBootCore, Adds, Skipped
  <2>6. QED
    BY <1>2, <2>1, <2>1h, <2>2, <2>3, <2>4, <2>5
<1>6b. backend' \in {backend + 1, backend + 2} /\ backend' \in 2..16
  BY <1>2, <1>4b
<1>7. QED
  BY <1>1, <1>3, <1>4, <1>5, <1>6, <1>6b, NoOwnerYet DEF Adds

LEMMA DoFile ==
    FirstBootInv /\ Do /\ Steps[backend] \in Files \ {"owner"} => FirstBootCore'
<1> SUFFICES ASSUME FirstBootInv, Do, Steps[backend] \in Files \ {"owner"}
             PROVE FirstBootCore'
  OBVIOUS
<1> DEFINE a == ui.attempt
           k == Steps[backend]
<1>1. backend \in 1..15
  BY StepsAre DEF Do
<1>2. backend \in {7, 8, 9, 10, 14}
  BY <1>1, StepsAre DEF Files
<1>3. /\ a \in Attempts /\ disk \in Disks /\ disk.kept["owner"] = 0
      /\ k \in Kept /\ k # "owner" /\ k \in Files
  BY <1>2, BackendAt DEF Complete, Kept
<1>4. /\ durable' \in {durable, disk} /\ backend' = backend + 1
      /\ UNCHANGED <<ui, chosen, orphan, late>> /\ disk' = Effect(disk, k, a)
  BY <1>2, StepsAre DEF Do, Skipped
<1>5. Replaces(disk, disk', k, a)
  BY <1>3, <1>4, FileEffect
<1>6. /\ disk' \in Disks /\ disk'.accounts = disk.accounts /\ disk'.homes = disk.homes
      /\ disk'.members = disk.members
      /\ disk'.password = disk.password /\ disk'.locales = disk.locales
      /\ (disk'.machine <=> disk.machine)
      /\ disk'.kept[k] = a /\ \A j \in Kept \ {k} : disk'.kept[j] = disk.kept[j]
  BY <1>3, <1>5 DEF Replaces, Disks
<1>7. disk'.kept["owner"] = 0
  BY <1>3, <1>6 DEF Kept, Files
<1>8. Prepared'
  <2>1. /\ backend = 7 => k = "hostname"
        /\ backend = 8 => k = "timezone"
        /\ backend = 9 => k = "locale"
        /\ backend = 10 => k = "keyboard"
        /\ backend = 14 => k = "profile"
    BY StepsAre
  <2>2. /\ backend > 7 => disk'.kept["hostname"] = a
        /\ backend > 8 => disk'.kept["timezone"] = a
        /\ backend > 9 => disk'.kept["locale"] = a
        /\ backend > 10 => disk'.kept["keyboard"] = a
        /\ backend > 12 => disk'.kept["localtime"] = a
        /\ backend > 14 => disk'.kept["profile"] = a
    BY <1>2, <1>6, <2>1 DEF FirstBootInv, FirstBootCore, Prepared, Kept, Files
  <2>3. /\ backend = 7 => disk'.kept["hostname"] = a
        /\ backend = 8 => disk'.kept["timezone"] = a
        /\ backend = 9 => disk'.kept["locale"] = a
        /\ backend = 10 => disk'.kept["keyboard"] = a
        /\ backend = 14 => disk'.kept["profile"] = a
    BY <1>6, <2>1
  <2>4. a' = a /\ chosen'[a] = chosen[a] /\ late' = late
    BY <1>4
  <2>5. backend' > 13 => disk'.machine
    BY <1>2, <1>4, <1>6 DEF FirstBootInv, FirstBootCore, Prepared
  <2>6. /\ backend' > 2 => chosen[a] \in disk'.accounts
        /\ backend' > 4 => chosen[a] \in disk'.members
        /\ backend' > 5 => disk'.password[chosen[a]] = a \/ "late" \in late
        /\ backend' > 6 => a \in disk'.locales
    BY <1>2, <1>4, <1>6 DEF FirstBootInv, FirstBootCore, Prepared
  <2>7. /\ backend' > 7 => disk'.kept["hostname"] = a
        /\ backend' > 8 => disk'.kept["timezone"] = a
        /\ backend' > 9 => disk'.kept["locale"] = a
        /\ backend' > 10 => disk'.kept["keyboard"] = a
        /\ backend' > 12 => disk'.kept["localtime"] = a
        /\ backend' > 14 => disk'.kept["profile"] = a
    BY <1>2, <1>4, <2>2, <2>3
  <2>8. QED
    BY <2>4, <2>5, <2>6, <2>7 DEF Prepared
<1>9. QED
  BY <1>1, <1>3, <1>4, <1>6, <1>7, <1>8, NoOwnerYet

LEMMA DoLink == FirstBootInv /\ Do /\ backend \in {11, 12} => FirstBootCore'
<1> SUFFICES ASSUME FirstBootInv, Do, backend \in {11, 12} PROVE FirstBootCore'
  OBVIOUS
<1> DEFINE a == ui.attempt
           v == IF backend = 11 THEN 0 ELSE a
<1>1. a \in Attempts /\ disk \in Disks /\ disk.kept["owner"] = 0
  BY BackendAt DEF Complete
<1>2. /\ durable' = durable /\ backend' = backend + 1
      /\ UNCHANGED <<ui, chosen, orphan, late>> /\ disk' = Effect(disk, Steps[backend], a)
  BY StepsAre DEF Do, Skipped, Commits, Files
<1>3. Replaces(disk, disk', "localtime", v)
  BY <1>1, <1>2, StepsAre, LinkEffect
<1>4. /\ disk' \in Disks /\ disk'.accounts = disk.accounts /\ disk'.homes = disk.homes
      /\ disk'.members = disk.members
      /\ disk'.password = disk.password /\ disk'.locales = disk.locales
      /\ disk'.kept["localtime"] = v
      /\ \A j \in Kept \ {"localtime"} : disk'.kept[j] = disk.kept[j]
  BY <1>1, <1>3 DEF Replaces, Disks, Kept
<1>5. disk'.kept["owner"] = 0
  BY <1>1, <1>4 DEF Kept, Files
<1>6. Prepared'
  <2>1. /\ disk'.kept["hostname"] = a /\ disk'.kept["timezone"] = a
        /\ disk'.kept["locale"] = a /\ disk'.kept["keyboard"] = a
    BY <1>4 DEF FirstBootInv, FirstBootCore, Prepared, Kept, Files
  <2>2. backend = 12 => disk'.kept["localtime"] = a
    BY <1>4
  <2>3. QED
    BY <1>2, <1>4, <2>1, <2>2 DEF FirstBootInv, FirstBootCore, Prepared
<1>7. QED
  BY <1>1, <1>2, <1>4, <1>5, <1>6, NoOwnerYet

\* The commit: the marker is renamed into place when all else is there.
LEMMA DoOwner == FirstBootInv /\ Do /\ backend = 15 => FirstBootCore'
<1> SUFFICES ASSUME FirstBootInv, Do, backend = 15 PROVE FirstBootCore'
  OBVIOUS
<1> DEFINE a == ui.attempt
<1>1. /\ a \in Attempts /\ chosen[a] \in Users /\ disk \in Disks
      /\ disk.kept["owner"] = 0 /\ a # 0
  BY BackendAt DEF Complete
<1>2. /\ durable' = disk /\ backend' = 16
      /\ UNCHANGED <<ui, chosen, orphan, late>> /\ disk' = Effect(disk, "owner", a)
  BY StepsAre DEF Do, Skipped, Commits, Files
<1>3. Replaces(disk, disk', "owner", a)
  BY <1>1, <1>2, FileEffect DEF Files
<1>4. /\ disk' \in Disks /\ disk'.accounts = disk.accounts /\ disk'.homes = disk.homes
      /\ disk'.members = disk.members
      /\ disk'.password = disk.password /\ disk'.locales = disk.locales
      /\ disk'.kept["owner"] = a
      /\ \A j \in Kept \ {"owner"} : disk'.kept[j] = disk.kept[j]
  BY <1>1, <1>3 DEF Replaces, Disks, Kept, Files
<1>5. disk.machine /\ disk'.machine
  BY <1>3 DEF Replaces, FirstBootInv, FirstBootCore, Prepared
<1>6. \A k \in Kept : disk'.kept[k] = a
  BY <1>4 DEF FirstBootInv, FirstBootCore, Prepared, Kept, Files
<1>7. FirstBootTypeOK'
  BY <1>1, <1>2, <1>4, StepsAre DEF FirstBootInv, FirstBootCore, FirstBootTypeOK
<1>8. Attempted'
  BY <1>1, <1>2, <1>4 DEF FirstBootInv, FirstBootCore, Attempted, NoOrphan
<1>9. Prepared'
  BY <1>2, <1>4, <1>5, <1>6 DEF FirstBootInv, FirstBootCore, Prepared, Kept, Files
<1>10. Owned(disk)' /\ Owned(durable)'
  <2>h. chosen[a] \in disk.accounts => chosen[a] \in disk.homes \/ "half" \in late
    BY DEF FirstBootInv, Housed
  <2>1. Filled(disk, a)'
    BY <1>2, <1>4, <2>h DEF FirstBootInv, FirstBootCore, Prepared, Filled
  <2>2. a \in disk'.locales /\ a <= a
    BY <1>1, <1>4 DEF FirstBootInv, FirstBootCore, Prepared, Attempts
  <2>3. QED
    BY <1>1, <1>2, <1>4, <1>5, <1>6, <2>1, <2>2 DEF Owned
<1>11. QED
  BY <1>7, <1>8, <1>9, <1>10 DEF FirstBootInv, FirstBootCore

-----------------------------------------------------------------------------
\* A step that ends the backend, or finds none, and leaves the storage alone.
LEMMA DiskAlone ==
    ASSUME FirstBootInv, FirstBootTypeOK', UNCHANGED <<chosen, disk, durable>>,
           late \subseteq late',
           ui'.attempt = ui.attempt, backend' \in {0, backend},
           \/ orphan' \in {NoOrphan, orphan}
           \/ orphan'.step \in Commands /\ orphan'.attempt \in 1..ui.attempt
    PROVE  FirstBootCore'
<1>1. Attempted'
  BY DEF FirstBootInv, FirstBootCore, Attempted, NoOrphan
<1>2. Prepared' /\ Owned(disk)' /\ Owned(durable)'
  BY DEF FirstBootInv, FirstBootCore, Prepared, Owned, Filled
<1>3. QED
  BY <1>1, <1>2 DEF FirstBootInv, FirstBootCore

\* A command that ends out of turn, or whose backend gives up, adds to a disk; only a
\* chpasswd can spoil what is there, and then either nobody owns the tablet or the
\* password is known to be late.
LEMMA CommandAlone ==
    ASSUME FirstBootInv, UNCHANGED <<chosen, durable>>, Adds(disk, disk'),
           FirstBootTypeOK', ui'.attempt = ui.attempt, late \subseteq late',
           \/ backend' = 0 /\ disk.kept["owner"] = 0
           \/ backend' = backend /\ "late" \in late',
           \/ orphan' \in {NoOrphan, orphan}
           \/ orphan'.step \in Commands /\ orphan'.attempt \in 1..ui.attempt
    PROVE  FirstBootCore'
<1>1. Attempted'
  BY DEF FirstBootInv, FirstBootCore, Attempted, NoOrphan, Adds
<1>2. \A w : w \in late => w \in late'
  OBVIOUS
<1>3. Owned(durable)'
  BY <1>2 DEF FirstBootInv, FirstBootCore, Owned, Filled
<1>4. Owned(disk)'
  BY <1>2 DEF FirstBootInv, FirstBootCore, Owned, Filled, Adds
<1>5. Prepared'
  BY <1>2 DEF FirstBootInv, FirstBootCore, Prepared, Adds
<1>6. QED
  BY <1>1, <1>3, <1>4, <1>5 DEF FirstBootInv, FirstBootCore

LEMMA FirstBootCoreStep == FirstBootInv /\ [FirstBootNext]_first_boot => FirstBootCore'
<1> SUFFICES ASSUME FirstBootInv, [FirstBootNext]_first_boot PROVE FirstBootCore'
  OBVIOUS
<1>t. FirstBootTypeOK
  BY DEF FirstBootInv, FirstBootCore
<1>1. ASSUME NEW u \in Users, Create(u) PROVE FirstBootCore'
  <2>1. /\ ui'.attempt = ui.attempt + 1 /\ ui'.attempt \in Attempts
        /\ chosen' = [chosen EXCEPT ![ui'.attempt] = u]
    BY <1>1, <1>t, FirstBootConstants DEF Create, FirstBootTypeOK, Attempts
  <2>2. FirstBootTypeOK'
    <3>1. ui' \in [state : {"form", "busy", "closing", "gone"}, attempt : 0..MaxAttempts,
                   result : {"none", "ok", "failed"}]
      <4>1. /\ ui' = [ui EXCEPT !.state = "busy", !.attempt = @ + 1, !.result = "none"]
            /\ ui'.attempt \in 0..MaxAttempts
        BY <1>1, <2>1, FirstBootConstants DEF Create, Attempts
      <4>2. ui.attempt + 1 \in 0..MaxAttempts
        BY <1>t, <4>1 DEF FirstBootTypeOK
      <4>3. QED
        BY <1>t, <4>1, <4>2 DEF FirstBootTypeOK
    <3>2. chosen' \in [Attempts -> Users \cup {NoUser}]
      BY <1>t, <2>1 DEF FirstBootTypeOK
    <3>3. QED
      BY <1>1, <1>t, <3>1, <3>2, StepsAre DEF Create, FirstBootTypeOK
  <2>3. \A a \in 1..ui.attempt : a \in Attempts /\ chosen'[a] = chosen[a]
    <3>1. ui.attempt \in 0..MaxAttempts /\ DOMAIN chosen = Attempts
      BY <1>t DEF FirstBootTypeOK
    <3>2. QED
      BY <2>1, <3>1, FirstBootConstants DEF Attempts
  <2>4. \A a \in 1..ui'.attempt : chosen'[a] \in Users
    BY <1>t, <2>1, <2>3 DEF FirstBootInv, FirstBootCore, Attempted, FirstBootTypeOK, Attempts
  <2>5. Attempted'
    BY <1>1, <1>t, <2>1, <2>4 DEF Create, FirstBootInv, FirstBootCore, Attempted, NoOrphan, FirstBootTypeOK
  <2>6. ASSUME NEW d \in Disks, Owned(d), d.kept["owner"] # 0
        PROVE  LET a == d.kept["owner"]
               IN /\ chosen'[a] = chosen[a] /\ a <= ui'.attempt
    <3>1. d.kept["owner"] \in 0..MaxAttempts /\ ui.attempt \in 0..MaxAttempts
      BY <1>t DEF Disks, FirstBootTypeOK, Kept, Files
    <3>2. d.kept["owner"] \in 1..ui.attempt
      BY <2>6, <3>1, FirstBootConstants DEF Owned
    <3>3. QED
      BY <2>1, <2>3, <3>1, <3>2, FirstBootConstants
  <2>7. Owned(disk)' /\ Owned(durable)'
    BY <1>1, <1>t, <2>6 DEF Create, FirstBootInv, FirstBootCore, Owned, Filled, FirstBootTypeOK
  <2>8. Prepared'
    BY <1>1 DEF Create, Prepared
  <2>9. QED
    BY <2>2, <2>5, <2>7, <2>8 DEF FirstBootInv, FirstBootCore
<1>2. CASE Timeout
  <2>1. /\ UNCHANGED <<chosen, disk, durable>> /\ ui'.attempt = ui.attempt
        /\ late \subseteq late' /\ late' \subseteq {"late", "half"}
        /\ backend' = 0 /\ backend \in 1..16 /\ ui.attempt \in 1..ui.attempt
    BY <1>2, <1>t, BackendAt DEF Timeout, FirstBootTypeOK, Half
  <2>2. /\ \/ orphan' = orphan
           \/ orphan'.step \in Commands /\ orphan'.attempt \in 1..ui.attempt
        /\ orphan' \in [step : Commands \cup {"none"}, attempt : 0..MaxAttempts]
    <3>1. CASE Steps[backend] \in Commands
      <4>1. orphan' = [step |-> Steps[backend], attempt |-> ui.attempt]
        BY <1>2, <3>1 DEF Timeout
      <4>2. ui.attempt \in 0..MaxAttempts
        BY <1>t DEF FirstBootTypeOK
      <4>3. QED
        BY <2>1, <3>1, <4>1, <4>2
    <3>2. CASE Steps[backend] \notin Commands
      BY <1>2, <1>t, <3>2 DEF Timeout, FirstBootTypeOK
    <3>3. QED
      BY <3>1, <3>2
  <2>3. FirstBootTypeOK'
    BY <1>2, <1>t, <2>1, <2>2, StepsAre DEF Timeout, FirstBootTypeOK
  <2>4. QED
    BY <2>1, <2>2, <2>3, DiskAlone
<1>3. CASE Finished
  <2>1. FirstBootTypeOK' /\ ui'.attempt = ui.attempt
    BY <1>3, <1>t DEF Finished, FirstBootTypeOK
  <2>2. QED
    BY <1>3, <2>1, DiskAlone DEF Finished
<1>4. CASE CloseSuccess
  <2>1. FirstBootTypeOK' /\ ui'.attempt = ui.attempt
    BY <1>4, <1>t DEF CloseSuccess, FirstBootTypeOK
  <2>2. QED
    BY <1>4, <2>1, DiskAlone DEF CloseSuccess
<1>5. CASE Do
  <2>1. backend \in 1..15
    BY <1>5, StepsAre DEF Do
  <2>2. \/ backend = 1 \/ backend = 15 \/ backend \in {11, 12}
        \/ Steps[backend] \in Commands \/ Steps[backend] \in Files \ {"owner"}
    BY <2>1, StepsAre DEF Commands, Files
  <2>3. QED
    BY <1>5, <2>2, DoCheck, DoCommand, DoFile, DoLink, DoOwner
<1>6. CASE Exit
  <2>1. FirstBootTypeOK' /\ ui'.attempt = ui.attempt
    BY <1>6, <1>t, StepsAre DEF Exit, FirstBootTypeOK
  <2>2. QED
    BY <1>6, <2>1, DiskAlone DEF Exit
<1>7. CASE Refuse
  <2> DEFINE step == Steps[backend]
  <2>1. /\ backend' = 0 /\ UNCHANGED <<chosen, orphan, durable>>
        /\ late \subseteq late' /\ late' \subseteq {"late", "half"}
        /\ ui'.attempt = ui.attempt /\ backend \in 1..15
    BY <1>7, <1>t, StepsAre DEF Refuse, FirstBootTypeOK, Half
  <2>2. CASE disk' = disk
    <3>1. FirstBootTypeOK'
      BY <1>7, <1>t, <2>1, <2>2, StepsAre DEF Refuse, FirstBootTypeOK
    <3>2. QED
      BY <2>1, <2>2, <3>1, DiskAlone
  <2>3. CASE disk' # disk
    <3>1. step \in Commands /\ disk' = Effect(disk, step, ui.attempt)
      BY <1>7, <2>3 DEF Refuse
    <3>2. backend \in {2, 3, 4, 5, 6, 13}
      BY <2>1, <3>1, StepsAre DEF Commands
    <3>3. ui.attempt \in Attempts /\ chosen[ui.attempt] \in Users /\ disk.kept["owner"] = 0
      BY <3>2, BackendAt DEF Complete
    <3>4. Adds(disk, disk')
      BY <1>t, <3>1, <3>3, CommandEffect DEF FirstBootTypeOK
    <3>5. FirstBootTypeOK'
      BY <1>7, <1>t, <2>1, <3>4, StepsAre DEF Refuse, FirstBootTypeOK, Adds
    <3>6. QED
      BY <2>1, <3>3, <3>4, <3>5, CommandAlone
  <2>4. QED
    BY <2>2, <2>3
<1>8. CASE OrphanEnds
  <2>1. UNCHANGED <<ui, chosen, backend, durable>>
    BY <1>8 DEF OrphanEnds
  <2>2. NoOrphan \in [step : Commands \cup {"none"}, attempt : 0..MaxAttempts]
    BY FirstBootConstants DEF NoOrphan
  <2>3. CASE orphan' = NoOrphan /\ UNCHANGED <<disk, late>>
    <3>1. FirstBootTypeOK'
      BY <1>t, <2>1, <2>2, <2>3 DEF FirstBootTypeOK
    <3>2. QED
      BY <2>1, <2>3, <3>1, DiskAlone
  <2>4. CASE /\ disk' = Effect(disk, orphan.step, orphan.attempt)
             /\ late' = late \cup {"late"} \cup Half(orphan.step = "useradd")
             /\ orphan' \in {[orphan EXCEPT !.step = "home"], NoOrphan}
    <3>1. orphan.step \in Commands /\ orphan.attempt \in 1..ui.attempt
      BY <1>8 DEF OrphanEnds, FirstBootInv, FirstBootCore, Attempted
    <3>2. orphan.attempt \in Attempts /\ chosen[orphan.attempt] \in Users
      BY <1>t, <3>1, FirstBootConstants
         DEF FirstBootInv, FirstBootCore, Attempted, FirstBootTypeOK, Attempts
    <3>3. Adds(disk, disk')
      BY <1>t, <2>4, <3>1, <3>2, CommandEffect DEF FirstBootTypeOK
    <3>4. /\ orphan' \in [step : Commands \cup {"none"}, attempt : 0..MaxAttempts]
          /\ \/ orphan' = NoOrphan
             \/ orphan'.step \in Commands /\ orphan'.attempt \in 1..ui.attempt
      BY <1>t, <2>2, <2>4, <3>1 DEF FirstBootTypeOK, Commands
    <3>5. late' \subseteq {"late", "half"} /\ late \subseteq late' /\ "late" \in late'
      BY <1>t, <2>4 DEF FirstBootTypeOK, Half
    <3>6. FirstBootTypeOK'
      BY <1>t, <2>1, <3>3, <3>4, <3>5 DEF FirstBootTypeOK, Adds
    <3>7. QED
      BY <2>1, <3>3, <3>4, <3>5, <3>6, CommandAlone
  <2>5. QED
    BY <1>8, <2>3, <2>4 DEF OrphanEnds
<1>9. CASE Flush
  <2>1. FirstBootTypeOK'
    BY <1>9, <1>t DEF Flush, FirstBootTypeOK
  <2>2. Attempted' /\ Prepared' /\ Owned(disk)' /\ Owned(durable)'
    BY <1>9 DEF Flush, FirstBootInv, FirstBootCore, Attempted, Prepared, Owned, Filled, NoOrphan
  <2>3. QED
    BY <2>1, <2>2 DEF FirstBootInv, FirstBootCore
<1>10. CASE PowerCut
  <2>1. /\ disk' = durable /\ backend' = 0 /\ orphan' = NoOrphan /\ ui'.attempt = ui.attempt
        /\ UNCHANGED <<chosen, durable>>
        /\ late \subseteq late' /\ late' \subseteq {"late", "half"}
    BY <1>10, <1>t DEF PowerCut, Form, Half, FirstBootTypeOK
  <2>2. FirstBootTypeOK'
    BY <1>10, <1>t, <2>1, StepsAre, FirstBootConstants
       DEF PowerCut, Form, FirstBootTypeOK, NoOrphan
  <2>3. Attempted' /\ Prepared' /\ Owned(disk)' /\ Owned(durable)'
    BY <2>1 DEF FirstBootInv, FirstBootCore, Attempted, Prepared, Owned, Filled, NoOrphan
  <2>4. QED
    BY <2>2, <2>3 DEF FirstBootInv, FirstBootCore
<1>11. CASE UNCHANGED first_boot
  BY <1>11 DEF first_boot, FirstBootInv, FirstBootCore, FirstBootTypeOK, Attempted, Prepared, Owned,
               Filled, NoOrphan
<1>12. QED
  BY <1>1, <1>2, <1>3, <1>4, <1>5, <1>6, <1>7, <1>8, <1>9, <1>10, <1>11 DEF FirstBootNext

\* Which step touches accounts and homes.
LEMMA EffectOnHomes ==
    ASSUME NEW d \in Disks, NEW step, NEW a
    PROVE  /\ step # "useradd" => Effect(d, step, a).accounts = d.accounts
           /\ step # "home" => Effect(d, step, a).homes = d.homes
           /\ step = "useradd" => Effect(d, step, a).accounts = d.accounts \cup {chosen[a]}
           /\ step = "home" => Effect(d, step, a).homes = d.homes \cup {chosen[a]}
  BY DEF Effect, Disks, Kept, Files

LEMMA HousedStep ==
    ASSUME FirstBootInv, [FirstBootNext]_first_boot
    PROVE  Housed' /\ Busy'
<1>1. /\ Housed /\ Busy /\ disk \in Disks /\ durable \in Disks
      /\ late \subseteq {"late", "half"} /\ backend \in 0..16
  BY StepsAre DEF FirstBootInv, FirstBootCore, FirstBootTypeOK
<1>2. Half(TRUE) = {"half"} /\ Half(FALSE) = {}
  BY DEF Half
<1>3. ASSUME NEW u \in Users, Create(u) PROVE Housed' /\ Busy'
  <2>1. backend = 0 /\ backend' = 1 /\ ui'.state = "busy" /\ ui'.result = "none"
    BY <1>1, <1>3 DEF Create, Busy, FirstBootInv, FirstBootCore, FirstBootTypeOK
  <2>2. QED
    BY <1>1, <1>3, <2>1 DEF Create, Housed, Busy
<1>4. CASE Timeout
  <2>1. backend = 3 => "half" \in late'
    BY <1>2, <1>4, StepsAre DEF Timeout
  <2>2. late \subseteq late' /\ disk' = disk /\ backend' = 0
    BY <1>4 DEF Timeout, Half
  <2>3. QED
    BY <1>1, <2>1, <2>2 DEF Housed, Busy
<1>5. CASE Finished \/ CloseSuccess \/ Exit
  <2>1. backend # 3 /\ backend' = 0 /\ disk' = disk /\ late' = late
    BY <1>1, <1>5, StepsAre DEF Finished, CloseSuccess, Exit, Busy
  <2>2. QED
    BY <1>1, <2>1 DEF Housed, Busy
<1>6. CASE Do
  <2>. DEFINE step == Steps[backend]
             to == IF Skipped(step) THEN 2 ELSE 1
  <2>1. /\ backend \in 1..15 /\ backend' = backend + to /\ UNCHANGED <<ui, chosen, late>>
        /\ disk' = IF Skipped(step) THEN disk ELSE Effect(disk, step, ui.attempt)
    BY <1>6, StepsAre DEF Do
  <2>2. step = "useradd" <=> backend = 2
    BY <2>1, StepsAre
  <2>3. step = "home" <=> backend = 3
    BY <2>1, StepsAre
  <2>4. Busy'
    BY <1>1, <2>1 DEF Busy
  <2>5. Housed'
    <3>1. CASE Skipped(step)
      BY <1>1, <2>1, <2>2, <3>1 DEF Skipped, Housed
    <3>2. CASE ~Skipped(step)
      BY <1>1, <2>1, <2>2, <2>3, <3>2, EffectOnHomes DEF Housed
    <3>3. QED
      BY <3>1, <3>2
  <2>6. QED
    BY <2>4, <2>5
<1>7. CASE Refuse
  <2>. DEFINE step == Steps[backend]
  <2>1. /\ backend \in 1..15 /\ backend' = 0 /\ UNCHANGED chosen
        /\ ui' = [ui EXCEPT !.result = "failed"] /\ late \subseteq late'
    BY <1>7, StepsAre DEF Refuse, Half
  <2>2. \/ disk' = disk /\ (step = "home" => "half" \in late')
        \/ disk' = Effect(disk, step, ui.attempt) /\ (step = "useradd" => "half" \in late')
    BY <1>2, <1>7 DEF Refuse
  <2>3. step = "home" <=> backend = 3
    BY <2>1, StepsAre
  <2>4. Busy'
    BY <2>1 DEF Busy
  <2>5. Housed'
    <3>1. CASE disk' = disk /\ (step = "home" => "half" \in late')
      BY <1>1, <2>1, <2>3, <3>1 DEF Housed
    <3>2. CASE disk' = Effect(disk, step, ui.attempt) /\ (step = "useradd" => "half" \in late')
      BY <1>1, <2>1, <2>3, <3>2, EffectOnHomes DEF Housed
    <3>3. QED
      BY <2>2, <3>1, <3>2
  <2>6. QED
    BY <2>4, <2>5
<1>8. CASE OrphanEnds
  <2>1. UNCHANGED <<ui, chosen, backend>> /\ late \subseteq late'
    BY <1>8 DEF OrphanEnds
  <2>2. \/ disk' = disk
        \/ /\ disk' = Effect(disk, orphan.step, orphan.attempt)
           /\ orphan.step = "useradd" => "half" \in late'
    BY <1>2, <1>8 DEF OrphanEnds
  <2>3. Housed'
    <3>1. CASE disk' = disk
      BY <1>1, <2>1, <3>1 DEF Housed
    <3>2. CASE /\ disk' = Effect(disk, orphan.step, orphan.attempt)
               /\ orphan.step = "useradd" => "half" \in late'
      BY <1>1, <2>1, <3>2, EffectOnHomes DEF Housed
    <3>3. QED
      BY <2>2, <3>1, <3>2
  <2>4. QED
    BY <1>1, <2>1, <2>3 DEF Busy
<1>9. CASE PowerCut
  <2>1. disk' = durable /\ backend' = 0
    BY <1>9 DEF PowerCut
  <2>2. durable.accounts \ durable.homes # {} => "half" \in late'
    BY <1>2, <1>9 DEF PowerCut
  <2>3. QED
    BY <2>1, <2>2 DEF Housed, Busy
<1>10. CASE Flush \/ UNCHANGED first_boot
  BY <1>1, <1>10 DEF Flush, first_boot, Housed, Busy
<1>11. QED
  BY <1>3, <1>4, <1>5, <1>6, <1>7, <1>8, <1>9, <1>10 DEF FirstBootNext

LEMMA FirstBootStep == FirstBootInv /\ [FirstBootNext]_first_boot => FirstBootInv'
  BY FirstBootCoreStep, HousedStep DEF FirstBootInv

LEMMA FirstBootInvariant == FirstBootSpec => []FirstBootInv
<1>1. QED
  BY FirstBootInvInit, FirstBootStep, PTL DEF FirstBootSpec

(* An owner is a commit: whichever attempts failed, were killed or lost    *)
(* their last writes, on the disk and on what a power cut would leave the  *)
(* owner's account exists and every file is of the attempt that wrote the  *)
(* marker (apply_profile writes /etc/t630/owner last).                     *)
THEOREM MarkerIsCommit == FirstBootSpec => []MarkerLast
<1>1. FirstBootInv => MarkerLast
  BY DEF FirstBootInv, FirstBootCore, MarkerLast, Owned, Filled, OwnerOf
<1>2. QED
  BY <1>1, FirstBootInvariant, PTL
=============================================================================
