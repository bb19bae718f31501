------------------------------ MODULE Publish ------------------------------
(***************************************************************************)
(* How the host tools publish what they build: packages, boot images, the  *)
(* release root and its archive, extracted and restored firmware.  Each is *)
(* a sequence of steps on its inputs and output files; here every tool is  *)
(* such a program, and one interpreter runs it among what disturbs it: an  *)
(* input that changes between two reads, a step that raises (the exception *)
(* handler of the tool cleans up), a kill (nothing does), another run.     *)
(* Of a content only the versions of the inputs it was made from count;    *)
(* version 0 is the one whose hash the tool pins or whose form it accepts. *)
(***************************************************************************)
EXTENDS Naturals, Sequences

CONSTANTS MaxEdits,       \* bound: changes of the inputs
          MaxToolFaults,  \* bound: kills and failing steps
          MaxRuns         \* bound: runs of the tool
ASSUME PublishConstants == MaxEdits \in Nat /\ MaxToolFaults \in Nat /\ MaxRuns \in Nat

VARIABLES
    tool,   \* the tool that is run
    src,    \* version of each input on disk
    mem,    \* version of each input as the run last read it
    files,  \* the tool's files and what they hold and claim
    pc,     \* the step to run, 0 between two runs
    past    \* runs started, faults and edits so far; a run killed; a run that returned

publish == <<tool, src, mem, files, pc, past>>

Inputs == {"sources", "staging", "stock", "kernel", "ramdisk", "source_boot", "root", "assets",
           "modules", "super", "archive", "packages", "android", "ubuntu"}
Names == {"out", "record", "tmp", "dir", "scratch"}
Versions == [Inputs -> 0..MaxEdits]
Contents == [is : {"absent", "torn", "whole"}, holds : Versions, claims : Versions]
Zero == [i \in Inputs |-> 0]
Absent == [is |-> "absent", holds |-> Zero, claims |-> Zero]

-----------------------------------------------------------------------------
(* Steps.                                                                  *)

RefuseOver(names) == [op |-> "refuse", names |-> names]      \* one of them exists: raise
Pin(ins)      == [op |-> "pin", ins |-> ins]             \* read; not the accepted: raise
Load(ins)     == [op |-> "load", ins |-> ins]            \* read and keep
Make(n)       == [op |-> "make", name |-> n]             \* created, or truncated, and empty
Store(n, ins) == [op |-> "store", name |-> n, ins |-> ins]     \* completed from memory
Fill(n, ins, part) ==                    \* completed from the disk and from another file
    [op |-> "fill", name |-> n, ins |-> ins, part |-> part]
Match(n, ins) == [op |-> "match", name |-> n, ins |-> ins]     \* not what was read: raise
Seal(n, of, again) ==        \* completed: digest of a file, of the inputs (some read again)
    [op |-> "seal", name |-> n, of |-> of, again |-> again]
AuditCopies(n, ins) ==                   \* the copies are read back
    [op |-> "audit", name |-> n, ins |-> ins]
Rename(from, to) == [op |-> "move", name |-> from, to |-> to]    \* rename
Drop(n)       == [op |-> "drop", name |-> n]

-----------------------------------------------------------------------------
(* The tools.                                                              *)

\* A package packed from memory, with the checksums of the same bytes, into a new
\* temporary that replaces the output.
DebFrom(ins) == <<Load(ins), Make("tmp"), Store("tmp", ins), Rename("tmp", "out")>>
BuildFirstBootDeb       == DebFrom({"sources"})
BuildBootRuntimeDeb     == DebFrom({"sources"})
BuildDesktopRuntimeDeb  == DebFrom({"sources"})
BuildHardwareRuntimeDeb == DebFrom({"sources"})
BuildWaydroidRuntimeDeb == DebFrom({"sources"})
BuildReleaseMetaDeb     == DebFrom({"sources"})
BuildCameraRuntimeDeb    == DebFrom({"sources", "staging"})
BuildNativeUserspaceDeb  == DebFrom({"sources", "staging"})

\* Hashes, manifest, checksums and data each read the stock tree again.
BuildStockAssetsDeb ==
    <<Pin({"stock"}), Load({"stock"}), Load({"stock"}), Make("tmp"),
      Fill("tmp", {"stock"}, "none"), Rename("tmp", "out")>>

\* Built in a directory of its own, copied beside the output, signed, verified.
BuildAndroidSwitcher ==
    <<Make("scratch"), Fill("scratch", {"sources"}, "none"),
      Make("tmp"), Fill("tmp", {}, "scratch"), Rename("tmp", "out"), Drop("scratch")>>

\* Mutant: validated before only.
BuildReleaseArchiveOnce ==
    <<Pin({"root", "assets"}), Load({"android"}), RefuseOver({"out", "record", "tmp"}),
      Make("tmp"), Fill("tmp", {"root", "assets", "android"}, "none"), Rename("tmp", "out"),
      Make("record"), Seal("record", "out", {})>>

\* Root and private assets are validated before and after.  The Android image only has
\* to match its own hash record: the second validation accepts another one that does, and
\* its answer is not looked at; the manifest has the hash of the first.
BuildReleaseArchive ==
    <<Pin({"root", "assets"}), Load({"android"}), RefuseOver({"out", "record", "tmp"}),
      Make("tmp"), Fill("tmp", {"root", "assets", "android"}, "none"), Rename("tmp", "out"),
      Pin({"root", "assets"}), Make("record"), Seal("record", "out", {})>>

BuildInstallerRuntime ==
    <<Pin({"root"}), RefuseOver({"out", "record"}),
      Make("out"), Fill("out", {"root"}, "none"),
      Make("record"), Seal("record", "out", {"root"})>>

\* Stripped copies in a staging directory, audited there, with their manifest.
AssembleWaydroidModules ==
    <<RefuseOver({"out"}), Load({"modules"}), RefuseOver({"tmp"}),
      Make("tmp"), Fill("tmp", {"modules"}, "none"), AuditCopies("tmp", {"modules"}),
      Seal("tmp", "tmp", {}),
      Rename("tmp", "out")>>

ExtractDynamicPartition == <<RefuseOver({"out"}), Make("out"), Fill("out", {"super"}, "none")>>

\* A ramdisk from memory, the header of the stock image read again, the kernel read
\* again by mkbootimg and compared after unpacking the result.
PackBoot == <<Make("scratch"), Store("scratch", {"ramdisk"}),
              Make("out"), Fill("out", {"kernel", "stock"}, "scratch"),
              Match("out", {"kernel", "ramdisk"})>>

BuildDualbootMaintenance ==
    <<Pin({"kernel", "stock"}), RefuseOver({"dir"}), Make("dir"), Pin({"ramdisk"})>> \o PackBoot
    \o <<Make("record"), Seal("record", "out", {}), Drop("scratch")>>

BuildDualLayoutBoot ==
    <<Pin({"kernel", "stock"}), RefuseOver({"dir"}), Make("dir"), Load({"ramdisk"})>> \o PackBoot
    \o <<Make("record"), Seal("record", "out", {}), Drop("scratch")>>

BuildBootPersistent ==
    <<RefuseOver({"dir"}), Pin({"kernel", "stock"}), Load({"ramdisk"}), Make("dir")>> \o PackBoot
    \o <<Drop("scratch"), Make("record"), Seal("record", "out", {})>>

\* The accepted image is checked, then unpacked again for its ramdisk.
BuildBootWithKernel ==
    <<RefuseOver({"dir"}), Pin({"source_boot"}), Load({"kernel"}), Make("dir"),
      Make("scratch"), Fill("scratch", {"source_boot"}, "none"),
      Make("out"), Fill("out", {"kernel"}, "scratch"), Match("out", {"kernel"}),
      Make("record"), Seal("record", "out", {"source_boot"})>>

\* In place: the output directory may hold an earlier image and its report.
BuildBootTest ==
    <<Load({"ramdisk"}), Make("scratch"), Store("scratch", {"ramdisk"}),
      Make("out"), Fill("out", {"stock"}, "scratch"), Match("out", {"ramdisk"}),
      Make("record"), Seal("record", "out", {"stock"})>>

\* dpkg works in place on copies of packages that were hashed before.
AssembleReleaseRoot ==
    <<Pin({"packages"}), Pin({"root"}), RefuseOver({"tmp"}),
      Make("tmp"), Fill("tmp", {"packages"}, "none"),
      Make("out"), Fill("out", {}, "tmp"), Drop("tmp")>>

\* The record is the marker inside the root; the audit comes after it.
PrepareRehearsalRoot ==
    <<Pin({"archive"}), Load({"archive"}), RefuseOver({"out"}),
      Make("out"), Fill("out", {"archive"}, "none"),
      Make("record"), Seal("record", "out", {})>>

PrepareCameraAssets ==
    <<RefuseOver({"out"}), Make("tmp"), Pin({"stock"}), Store("tmp", {"stock"}),
      Seal("tmp", "tmp", {}), Rename("tmp", "out")>>

\* Three readings of the archive: its hash, the deep validation, the extraction.
PrepareFactoryRestore ==
    <<Pin({"archive"}), RefuseOver({"dir"}), Load({"archive"}), Make("dir"),
      Make("out"), Fill("out", {"archive"}, "none"),
      Make("record"), Seal("record", "out", {})>>

\* The authorization is in place before the copies are compared.
ProvisionDualbootAssets ==
    <<Load({"android"}), Pin({"ubuntu"}), RefuseOver({"dir"}), Make("dir"),
      Make("out"), Fill("out", {"android", "ubuntu"}, "none"),
      Make("tmp"), Seal("tmp", "out", {}), Rename("tmp", "record"),
      Match("out", {"android", "ubuntu"})>>

\* Steps, the step from which an exception is caught, and what the handler removes.
Tool(steps, from, undo) == [steps |-> steps, from |-> from, undo |-> undo]
Bare(steps) == Tool(steps, 1, {})

Program == [
    first_boot_deb       |-> Bare(BuildFirstBootDeb),
    boot_runtime_deb     |-> Bare(BuildBootRuntimeDeb),
    desktop_runtime_deb  |-> Bare(BuildDesktopRuntimeDeb),
    hardware_runtime_deb |-> Bare(BuildHardwareRuntimeDeb),
    waydroid_runtime_deb |-> Bare(BuildWaydroidRuntimeDeb),
    release_meta_deb     |-> Bare(BuildReleaseMetaDeb),
    camera_runtime_deb   |-> Bare(BuildCameraRuntimeDeb),
    native_userspace_deb |-> Bare(BuildNativeUserspaceDeb),
    stock_assets_deb     |-> Bare(BuildStockAssetsDeb),
    android_switcher     |-> Tool(BuildAndroidSwitcher, 2, {"scratch"}),
    release_archive      |-> Tool(BuildReleaseArchive, 4, {"tmp", "out", "record"}),
    installer_runtime    |-> Tool(BuildInstallerRuntime, 3, {"out", "record"}),
    waydroid_modules     |-> Tool(AssembleWaydroidModules, 5, {"tmp"}),
    dynamic_partition    |-> Bare(ExtractDynamicPartition),
    dualboot_maintenance |-> Bare(BuildDualbootMaintenance),
    dual_layout_boot     |-> Bare(BuildDualLayoutBoot),
    boot_persistent      |-> Bare(BuildBootPersistent),
    boot_with_kernel     |-> Bare(BuildBootWithKernel),
    boot_test            |-> Bare(BuildBootTest),
    release_root         |-> Tool(AssembleReleaseRoot, 5, {"tmp"}),
    rehearsal_root       |-> Tool(PrepareRehearsalRoot, 5, {"out", "record"}),
    camera_assets        |-> Tool(PrepareCameraAssets, 3, {"tmp"}),
    factory_restore      |-> Tool(PrepareFactoryRestore, 5, {"dir", "out", "record"}),
    dualboot_assets      |-> Tool(ProvisionDualbootAssets, 5, {"dir", "out", "tmp", "record"})]
Tools == DOMAIN Program

-----------------------------------------------------------------------------
PublishTypeOK ==
    /\ tool \in Tools
    /\ src \in Versions /\ mem \in Versions
    /\ files \in [Names -> Contents]
    /\ pc \in 0..Len(Program[tool].steps)
    /\ past \in [runs : 0..MaxRuns, faults : 0..MaxToolFaults, edits : 0..MaxEdits,
                 killed : BOOLEAN, returned : BOOLEAN]

PublishInit ==
    /\ tool \in Tools
    /\ src = Zero /\ mem = Zero /\ files = [n \in Names |-> Absent] /\ pc = 0
    /\ past = [runs |-> 0, faults |-> 0, edits |-> 0, killed |-> FALSE, returned |-> FALSE]

ToolSteps == Program[tool].steps
Step == ToolSteps[pc]

-----------------------------------------------------------------------------
(* One step: when it passes, what it reads, what it writes.                *)

Passes(s) ==
    CASE s.op = "refuse" -> \A n \in s.names : files[n].is = "absent"
      [] s.op = "pin"    -> \A i \in s.ins : src[i] = 0
      [] s.op = "match"  -> \A i \in s.ins : files[s.name].holds[i] = mem[i]
      [] OTHER           -> TRUE

Reads(s) ==
    CASE s.op \in {"pin", "load"} -> [i \in Inputs |-> IF i \in s.ins THEN src[i] ELSE mem[i]]
      [] s.op = "audit" ->
            [i \in Inputs |-> IF i \in s.ins THEN files[s.name].holds[i] ELSE mem[i]]
      [] OTHER -> mem

Whole(holds, claims) == [is |-> "whole", holds |-> holds, claims |-> claims]

Writes(s) ==
    CASE s.op = "make"  -> [files EXCEPT ![s.name] = [Absent EXCEPT !.is = "torn"]]
      [] s.op = "store" ->
            [files EXCEPT ![s.name] =
                Whole([i \in Inputs |-> IF i \in s.ins THEN mem[i] ELSE 0], mem)]
      [] s.op = "fill"  ->
            [files EXCEPT ![s.name] =
                Whole([i \in Inputs |-> IF i \in s.ins THEN src[i]
                                        ELSE IF s.part = "none" THEN 0
                                        ELSE files[s.part].holds[i]], mem)]
      [] s.op = "seal"  ->
            [files EXCEPT ![s.name] =
                Whole(files[s.of].holds,
                      [i \in Inputs |-> IF i \in s.again THEN src[i] ELSE mem[i]])]
      [] s.op = "move"  -> [files EXCEPT ![s.to] = files[s.name], ![s.name] = Absent]
      [] s.op = "drop"  -> [files EXCEPT ![s.name] = Absent]
      [] OTHER          -> files

-----------------------------------------------------------------------------
(* Actions.                                                                *)

StartTool ==
    /\ pc = 0 /\ past.runs < MaxRuns
    /\ pc' = 1 /\ mem' = Zero
    /\ past' = [past EXCEPT !.runs = @ + 1]
    /\ UNCHANGED <<tool, src, files>>

Run ==
    /\ pc # 0 /\ Passes(Step)
    /\ mem' = Reads(Step) /\ files' = Writes(Step)
    /\ pc' = IF pc = Len(ToolSteps) THEN 0 ELSE pc + 1
    /\ past' = [past EXCEPT !.returned = @ \/ pc = Len(ToolSteps)]
    /\ UNCHANGED <<tool, src>>

\* Mutant: the handler reaches the checks for an earlier output as well.
CleanUpAlways ==
    files' = [n \in Names |-> IF n \in Program[tool].undo THEN Absent ELSE files[n]]

\* The exception handler, when the step is in its reach.
CleanUp ==
    files' = [n \in Names |-> IF pc >= Program[tool].from /\ n \in Program[tool].undo
                              THEN Absent ELSE files[n]]

\* A check that fails, or a step that does: a full disk, a subprocess, a bad input.
Raise ==
    /\ pc # 0 /\ (Passes(Step) => past.faults < MaxToolFaults)
    /\ CleanUp /\ pc' = 0
    /\ past' = IF Passes(Step) THEN [past EXCEPT !.faults = @ + 1] ELSE past
    /\ UNCHANGED <<tool, src, mem>>

\* SIGKILL (of a loss of power the tools that do not fsync promise nothing).
KillTool ==
    /\ pc # 0 /\ past.faults < MaxToolFaults
    /\ pc' = 0
    /\ past' = [past EXCEPT !.faults = @ + 1, !.killed = TRUE]
    /\ UNCHANGED <<tool, src, mem, files>>

Edit(i) ==
    /\ past.edits < MaxEdits
    /\ src' = [src EXCEPT ![i] = @ + 1]
    /\ past' = [past EXCEPT !.edits = @ + 1]
    /\ UNCHANGED <<tool, mem, files, pc>>

\* The inputs the tool reads.
Used == {i \in Inputs : \E k \in 1..Len(ToolSteps) :
            ToolSteps[k].op \in {"pin", "load", "fill"} /\ i \in ToolSteps[k].ins}

PublishNext == StartTool \/ Run \/ Raise \/ KillTool \/ \E i \in Used : Edit(i)

PublishSpec == PublishInit /\ [][PublishNext]_publish

-----------------------------------------------------------------------------
(* Properties.                                                             *)

\* Inputs of which the tool reads a second time, after it has hashed or recorded them,
\* what goes into the output, and does not compare: the record may speak of another
\* version than the output holds.
ReadAgain ==
    CASE tool = "stock_assets_deb"  -> {"stock"}
      [] tool = "android_switcher"  -> {"sources"}
      [] tool = "release_archive"   -> {"android"}
      [] tool = "installer_runtime" -> {"root"}
      [] tool \in {"dualboot_maintenance", "dual_layout_boot", "boot_persistent"} -> {"stock"}
      [] tool = "boot_with_kernel"  -> {"source_boot"}
      [] tool \in {"rehearsal_root", "factory_restore"} -> {"archive"}
      [] OTHER -> {}

Renamed == {"first_boot_deb", "boot_runtime_deb", "desktop_runtime_deb", "hardware_runtime_deb",
            "waydroid_runtime_deb", "release_meta_deb", "camera_runtime_deb",
            "native_userspace_deb", "stock_assets_deb", "android_switcher", "waydroid_modules",
            "camera_assets"}
Recorded == {"release_archive", "installer_runtime", "dualboot_maintenance", "dual_layout_boot",
             "boot_persistent", "boot_with_kernel", "rehearsal_root", "factory_restore",
             "dualboot_assets"}
InPlace == {"boot_test", "release_root"}
Speaks(n, ins) == \A i \in ins : files[n].claims[i] = files["out"].holds[i]

\* A record never speaks of an output that is not there, torn or another: a kill, an
\* exception or an input that changes between two reads leaves no complete manifest beside
\* such an output, and nothing but complete packages under a package's name.  Only the
\* authorization of the dual-boot assets is in place before its copies are compared.
RecordTrue ==
    /\ tool \in Recorded /\ files["record"].is = "whole" =>
          /\ files["out"].is = "whole" /\ files["record"].holds = files["out"].holds
          /\ tool # "dualboot_assets" => Speaks("record", Inputs \ ReadAgain)
    /\ tool \in Renamed /\ files["out"].is # "absent" =>
          files["out"].is = "whole" /\ Speaks("out", Inputs \ ReadAgain)

\* What a run has published stays: a later run that refuses, fails or is killed neither
\* removes nor tears it, its handler included (the two tools that work in place aside).
PublishedStays ==
    past.returned /\ tool \notin InPlace =>
        /\ files["out"].is = "whole"
        /\ tool \in Recorded =>
              files["record"].is = "whole" /\ Speaks("record", Inputs \ ReadAgain)
=============================================================================
