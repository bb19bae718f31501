---------------------------- MODULE PublishProofs ----------------------------
(***************************************************************************)
(* Proofs about Publish, for any number of edits, faults and runs: that no *)
(* record speaks of an output that is absent, torn or another, and that    *)
(* what a run has published stays.  What each of the twenty-four programs  *)
(* does where it matters is read off its steps; the steps of the           *)
(* interpreter then preserve the invariant from those facts alone.         *)
(***************************************************************************)
EXTENDS Publish, SequenceTheorems, TLAPS

-----------------------------------------------------------------------------
(***************************************************************************)
(* The tools that publish files.                                           *)
(***************************************************************************)

\* The places that matter in the program of a tool that refuses to write over what it has
\* published: the step that refuses, the step that makes the directory of the output (if
\* it has one), those that complete the output, compare it with what was read, and
\* complete the record.
Never == 20
Marks(guard, dir, done, checked, signed) ==
    [guard |-> guard, dir |-> dir, done |-> done, checked |-> checked, signed |-> signed]
Places == [
    release_archive      |-> Marks(3, Never, 6, 7, 9),
    installer_runtime    |-> Marks(2, Never, 4, 4, 6),
    dualboot_maintenance |-> Marks(2, 3, 8, 9, 11),
    dual_layout_boot     |-> Marks(2, 3, 8, 9, 11),
    boot_persistent      |-> Marks(1, 4, 8, 9, 12),
    boot_with_kernel     |-> Marks(1, 4, 8, 9, 11),
    rehearsal_root       |-> Marks(3, Never, 5, 5, 7),
    factory_restore      |-> Marks(2, 4, 6, 6, 8),
    dualboot_assets      |-> Marks(3, 4, 6, Never, 9),
    dynamic_partition    |-> Marks(1, Never, 3, Never, 3)]
Refusing == DOMAIN Places
InDirectory == {t \in Refusing : Places[t].dir # Never}

\* What is read once: everything outside ReadAgain.
Once == Inputs \ ReadAgain
Truthful(f) == \A i \in Once : f.claims[i] = f.holds[i]
FileIs(n, is) == files[n].is = is

\* The types; nothing counts more versions than there were edits.
PublishTyped == PublishTypeOK /\ \A i \in Inputs : src[i] <= past.edits

\* A tool knows nothing of inputs that it does not read.
Clear == \A i \in Inputs \ Used :
            /\ src[i] = 0 /\ mem[i] = 0
            /\ \A n \in Names : files[n].holds[i] = 0 /\ files[n].claims[i] = 0

\* Before step k of a refusing tool: what is complete and what is not.
Arranged(k) ==
    LET m == Places[tool] IN
    /\ tool \in Recorded /\ m.guard < k /\ k <= m.signed => ~FileIs("record", "whole")
    /\ m.dir < k => ~FileIs("dir", "absent")
    /\ m.done < k => FileIs("out", "whole")
    /\ m.signed < k /\ tool \in Recorded => FileIs("record", "whole")
    /\ m.checked < k /\ k <= m.signed => \A i \in Once : files["out"].holds[i] = mem[i]

\* The release archive is compared with its inputs by pinning them again.
Archived(k) ==
    tool = "release_archive" =>
        /\ k = 6 => FileIs("tmp", "whole") /\ \A i \in Inputs : files["tmp"].holds[i] <= src[i]
        /\ k = 7 => \A i \in Inputs : files["out"].holds[i] <= src[i]

\* The authorization of the dual-boot assets speaks of what was read.
Authorized(k) ==
    tool = "dualboot_assets" =>
        /\ k = 9 => /\ FileIs("tmp", "whole") /\ files["tmp"].holds = files["out"].holds
                    /\ files["tmp"].claims = mem
        /\ k = 10 => files["record"].claims = mem

\* A tool that replaces its output by a new file: that file is complete before.
Placed == [t \in Renamed |-> CASE t = "waydroid_modules" -> 8
                               [] t \in {"stock_assets_deb", "camera_assets"} -> 6
                               [] t = "android_switcher" -> 5
                               [] OTHER -> 4]
Replacing(k) ==
    tool \in Renamed =>
        /\ k = Placed[tool] => FileIs("tmp", "whole") /\ Truthful(files["tmp"])
        /\ (tool = "waydroid_modules" /\ k = 7) \/ (tool = "camera_assets" /\ k = 5) =>
              \A i \in Once : files["tmp"].holds[i] = mem[i]
        /\ Placed[tool] < k => ~FileIs("out", "absent")

Stepping(k) == /\ tool \in Refusing => Arranged(k)
               /\ Archived(k) /\ Authorized(k) /\ Replacing(k)
Underway == pc # 0 => Stepping(pc)
Unpublished == tool \in Refusing /\ pc > Places[tool].guard => ~past.returned
Enclosed == tool \in InDirectory /\ FileIs("dir", "absent") => FileIs("out", "absent") /\ FileIs("record", "absent")

PublishInv == /\ PublishTyped /\ Clear /\ Underway /\ Unpublished /\ Enclosed
              /\ RecordTrue /\ PublishedStays

-----------------------------------------------------------------------------
(* The programs, step by step.                                             *)

Debs == {"first_boot_deb", "boot_runtime_deb", "desktop_runtime_deb", "hardware_runtime_deb",
         "waydroid_runtime_deb", "release_meta_deb", "camera_runtime_deb", "native_userspace_deb"}

LEMMA DebSteps ==
    ASSUME tool \in Debs
    PROVE  \E ins \in SUBSET Inputs :
              /\ Len(ToolSteps) = 4
              /\ ToolSteps[1] = Load(ins) /\ ToolSteps[2] = Make("tmp")
              /\ ToolSteps[3] = Store("tmp", ins) /\ ToolSteps[4] = Rename("tmp", "out")
              /\ Program[tool].undo = {}
<1>1. ToolSteps \in {DebFrom({"sources"}), DebFrom({"sources", "staging"})} /\ Program[tool].undo = {}
  BY DEF ToolSteps, Program, Debs, Tool, Bare, BuildFirstBootDeb, BuildBootRuntimeDeb,
         BuildDesktopRuntimeDeb, BuildHardwareRuntimeDeb, BuildWaydroidRuntimeDeb,
         BuildReleaseMetaDeb, BuildCameraRuntimeDeb, BuildNativeUserspaceDeb
<1>2. PICK ins \in SUBSET Inputs : ToolSteps = DebFrom(ins)
  <2>1. {"sources"} \in SUBSET Inputs /\ {"sources", "staging"} \in SUBSET Inputs
    BY DEF Inputs
  <2>2. QED
    BY <1>1, <2>1
<1>3. QED
  BY <1>1, <1>2 DEF DebFrom

LEMMA PackSteps ==
    /\ Len(PackBoot) = 5
    /\ PackBoot[1] = Make("scratch") /\ PackBoot[2] = Store("scratch", {"ramdisk"})
    /\ PackBoot[3] = Make("out") /\ PackBoot[4] = Fill("out", {"kernel", "stock"}, "scratch")
    /\ PackBoot[5] = Match("out", {"kernel", "ramdisk"})
  BY DEF PackBoot

LEMMA Joined ==
    ASSUME NEW S, NEW x \in Seq(S), NEW y \in Seq(S)
    PROVE  /\ x \o y \in Seq(S) /\ Len(x \o y) = Len(x) + Len(y)
           /\ \A i \in 1..Len(x) : (x \o y)[i] = x[i]
           /\ \A i \in 1..Len(y) : (x \o y)[Len(x) + i] = y[i]
<1>1. /\ x \o y \in Seq(S) /\ Len(x \o y) = Len(x) + Len(y)
      /\ \A i \in 1..Len(x) + Len(y) : (x \o y)[i] = IF i <= Len(x) THEN x[i] ELSE y[i - Len(x)]
  BY ConcatProperties
<1>2. Len(x) \in Nat /\ Len(y) \in Nat
  BY LenProperties
<1>3. \A i \in 1..Len(x) : i \in 1..Len(x) + Len(y) /\ i <= Len(x)
  BY <1>2
<1>4. \A i \in 1..Len(y) : /\ Len(x) + i \in 1..Len(x) + Len(y) /\ ~(Len(x) + i <= Len(x))
                          /\ (Len(x) + i) - Len(x) = i
  BY <1>2
<1>5. QED
  BY <1>1, <1>3, <1>4

LEMMA PackSequence ==
    ASSUME NEW S, PackBoot[1] \in S, PackBoot[2] \in S, PackBoot[3] \in S, PackBoot[4] \in S,
           PackBoot[5] \in S
    PROVE  PackBoot \in Seq(S)
<1>1. PackBoot = <<PackBoot[1], PackBoot[2], PackBoot[3], PackBoot[4], PackBoot[5]>>
  BY DEF PackBoot
<1>. DEFINE a == PackBoot[1]
            b == PackBoot[2]
            c == PackBoot[3]
            d == PackBoot[4]
            e == PackBoot[5]
<1>2. PackBoot = <<a, b, c, d, e>> /\ a \in S /\ b \in S /\ c \in S /\ d \in S /\ e \in S
  BY <1>1
<1>. HIDE DEF a, b, c, d, e
<1>3. <<a, b, c, d, e>> \in Seq(S)
  BY <1>2
<1>4. QED
  BY <1>2, <1>3

\* A program that packs an image between four steps and three.
Around(a, b, c, d, e, f, g) == <<a, b, c, d>> \o PackBoot \o <<e, f, g>>

LEMMA Packed ==
    ASSUME NEW s, NEW a, NEW b, NEW c, NEW d, NEW e, NEW f, NEW g,
           s = Around(a, b, c, d, e, f, g)
    PROVE  /\ Len(s) = 12 /\ s[1] = a /\ s[2] = b /\ s[3] = c /\ s[4] = d
           /\ s[5] = PackBoot[1] /\ s[6] = PackBoot[2] /\ s[7] = PackBoot[3]
           /\ s[8] = PackBoot[4] /\ s[9] = PackBoot[5]
           /\ s[10] = e /\ s[11] = f /\ s[12] = g
<1>. DEFINE S == {a, b, c, d, e, f, g, PackBoot[1], PackBoot[2], PackBoot[3], PackBoot[4], PackBoot[5]}
            p == PackBoot
            x == <<a, b, c, d>>
            y == <<e, f, g>>
            z == x \o p
<1>1. p \in Seq(S) /\ Len(p) = 5
  BY PackSequence, PackSteps
<1>2. x \in Seq(S) /\ Len(x) = 4 /\ x[1] = a /\ x[2] = b /\ x[3] = c /\ x[4] = d
  OBVIOUS
<1>3. y \in Seq(S) /\ Len(y) = 3 /\ y[1] = e /\ y[2] = f /\ y[3] = g
  OBVIOUS
<1>4. Around(a, b, c, d, e, f, g) = z \o y
  BY DEF Around
<1>. HIDE DEF S, p, x, y, z
<1>5. /\ x \o p \in Seq(S) /\ Len(x \o p) = Len(x) + Len(p)
      /\ \A i \in 1..Len(x) : (x \o p)[i] = x[i]
      /\ \A i \in 1..Len(p) : (x \o p)[Len(x) + i] = p[i]
  <2>1. x \in Seq(S) /\ p \in Seq(S)
    BY <1>1, <1>2
  <2>2. QED
    BY ONLY <2>1, Joined
<1>6. /\ z \in Seq(S) /\ Len(z) = 9
      /\ z[1] = a /\ z[2] = b /\ z[3] = c /\ z[4] = d
      /\ z[5] = p[1] /\ z[6] = p[2] /\ z[7] = p[3] /\ z[8] = p[4] /\ z[9] = p[5]
  <2>1. /\ 1 \in 1..4 /\ 2 \in 1..4 /\ 3 \in 1..4 /\ 4 \in 1..4
        /\ 1 \in 1..5 /\ 2 \in 1..5 /\ 3 \in 1..5 /\ 4 \in 1..5 /\ 5 \in 1..5
        /\ 4 + 1 = 5 /\ 4 + 2 = 6 /\ 4 + 3 = 7 /\ 4 + 4 = 8 /\ 4 + 5 = 9
    OBVIOUS
  <2>2. QED
    BY <1>1, <1>2, <1>5, <2>1 DEF z
<1>7. /\ Len(z \o y) = Len(z) + Len(y)
      /\ \A i \in 1..Len(z) : (z \o y)[i] = z[i]
      /\ \A i \in 1..Len(y) : (z \o y)[Len(z) + i] = y[i]
  <2>1. z \in Seq(S) /\ y \in Seq(S)
    BY <1>3, <1>6
  <2>2. QED
    BY ONLY <2>1, Joined
<1>8. /\ Len(z \o y) = 12 /\ \A i \in 1..9 : (z \o y)[i] = z[i]
      /\ (z \o y)[10] = e /\ (z \o y)[11] = f /\ (z \o y)[12] = g
  <2>1. 1 \in 1..3 /\ 2 \in 1..3 /\ 3 \in 1..3 /\ 9 + 1 = 10 /\ 9 + 2 = 11 /\ 9 + 3 = 12
    OBVIOUS
  <2>2. Len(z \o y) = 12 /\ \A i \in 1..9 : (z \o y)[i] = z[i]
    <3>1. Len(z) = 9 /\ Len(y) = 3
      BY <1>3, <1>6
    <3>2. QED
      BY ONLY <1>7, <3>1
  <2>3. \A i \in 1..3 : (z \o y)[9 + i] = y[i]
    BY <1>3, <1>6, <1>7
  <2>4. (z \o y)[9 + 1] = y[1] /\ (z \o y)[9 + 2] = y[2] /\ (z \o y)[9 + 3] = y[3]
    BY ONLY <2>1, <2>3
  <2>5. QED
    BY ONLY <1>3, <2>1, <2>2, <2>4
<1>9. /\ s[1] = a /\ s[2] = b /\ s[3] = c /\ s[4] = d
      /\ s[5] = p[1] /\ s[6] = p[2] /\ s[7] = p[3] /\ s[8] = p[4] /\ s[9] = p[5]
  <2>1. s = z \o y
    BY <1>4
  <2>2. /\ 1 \in 1..9 /\ 2 \in 1..9 /\ 3 \in 1..9 /\ 4 \in 1..9 /\ 5 \in 1..9
        /\ 6 \in 1..9 /\ 7 \in 1..9 /\ 8 \in 1..9 /\ 9 \in 1..9
    OBVIOUS
  <2>3. QED
    BY ONLY <1>6, <1>8, <2>1, <2>2
<1>10. QED
  BY <1>4, <1>8, <1>9 DEF p

LEMMA StockAssetsDebSteps ==
    ASSUME tool = "stock_assets_deb"
    PROVE  /\ Len(ToolSteps) = 6 /\ ToolSteps[1] = Pin({"stock"})
           /\ ToolSteps[2] = Load({"stock"}) /\ ToolSteps[3] = Load({"stock"})
           /\ ToolSteps[4] = Make("tmp") /\ ToolSteps[5] = Fill("tmp", {"stock"}, "none")
           /\ ToolSteps[6] = Rename("tmp", "out") /\ Program[tool].undo = {}
<1>1. /\ ToolSteps = BuildStockAssetsDeb
      /\ Program[tool].undo = {}
  BY DEF ToolSteps, Program, Tool, Bare
<1>2. QED
  BY <1>1 DEF BuildStockAssetsDeb

LEMMA AndroidSwitcherSteps ==
    ASSUME tool = "android_switcher"
    PROVE  /\ Len(ToolSteps) = 6 /\ ToolSteps[1] = Make("scratch")
           /\ ToolSteps[2] = Fill("scratch", {"sources"}, "none") /\ ToolSteps[3] = Make("tmp")
           /\ ToolSteps[4] = Fill("tmp", {}, "scratch") /\ ToolSteps[5] = Rename("tmp", "out")
           /\ ToolSteps[6] = Drop("scratch") /\ Program[tool].undo = {"scratch"}
           /\ Program[tool].from = 2
<1>1. /\ ToolSteps = BuildAndroidSwitcher
      /\ Program[tool].undo = {"scratch"} /\ Program[tool].from = 2
  BY DEF ToolSteps, Program, Tool
<1>2. QED
  BY <1>1 DEF BuildAndroidSwitcher

LEMMA ReleaseArchiveSteps ==
    ASSUME tool = "release_archive"
    PROVE  /\ Len(ToolSteps) = 9 /\ ToolSteps[1] = Pin({"root", "assets"})
           /\ ToolSteps[2] = Load({"android"})
           /\ ToolSteps[3] = RefuseOver({"out", "record", "tmp"}) /\ ToolSteps[4] = Make("tmp")
           /\ ToolSteps[5] = Fill("tmp", {"root", "assets", "android"}, "none")
           /\ ToolSteps[6] = Rename("tmp", "out") /\ ToolSteps[7] = Pin({"root", "assets"})
           /\ ToolSteps[8] = Make("record") /\ ToolSteps[9] = Seal("record", "out", {})
           /\ Program[tool].undo = {"tmp", "out", "record"} /\ Program[tool].from = 4
<1>1. /\ ToolSteps = BuildReleaseArchive
      /\ Program[tool].undo = {"tmp", "out", "record"} /\ Program[tool].from = 4
  BY DEF ToolSteps, Program, Tool
<1>2. QED
  BY <1>1 DEF BuildReleaseArchive

LEMMA InstallerRuntimeSteps ==
    ASSUME tool = "installer_runtime"
    PROVE  /\ Len(ToolSteps) = 6 /\ ToolSteps[1] = Pin({"root"})
           /\ ToolSteps[2] = RefuseOver({"out", "record"}) /\ ToolSteps[3] = Make("out")
           /\ ToolSteps[4] = Fill("out", {"root"}, "none") /\ ToolSteps[5] = Make("record")
           /\ ToolSteps[6] = Seal("record", "out", {"root"})
           /\ Program[tool].undo = {"out", "record"} /\ Program[tool].from = 3
<1>1. /\ ToolSteps = BuildInstallerRuntime
      /\ Program[tool].undo = {"out", "record"} /\ Program[tool].from = 3
  BY DEF ToolSteps, Program, Tool
<1>2. QED
  BY <1>1 DEF BuildInstallerRuntime

LEMMA WaydroidModulesSteps ==
    ASSUME tool = "waydroid_modules"
    PROVE  /\ Len(ToolSteps) = 8 /\ ToolSteps[1] = RefuseOver({"out"})
           /\ ToolSteps[2] = Load({"modules"}) /\ ToolSteps[3] = RefuseOver({"tmp"})
           /\ ToolSteps[4] = Make("tmp") /\ ToolSteps[5] = Fill("tmp", {"modules"}, "none")
           /\ ToolSteps[6] = AuditCopies("tmp", {"modules"})
           /\ ToolSteps[7] = Seal("tmp", "tmp", {}) /\ ToolSteps[8] = Rename("tmp", "out")
           /\ Program[tool].undo = {"tmp"} /\ Program[tool].from = 5
<1>1. /\ ToolSteps = AssembleWaydroidModules
      /\ Program[tool].undo = {"tmp"} /\ Program[tool].from = 5
  BY DEF ToolSteps, Program, Tool
<1>2. QED
  BY <1>1 DEF AssembleWaydroidModules

LEMMA DynamicPartitionSteps ==
    ASSUME tool = "dynamic_partition"
    PROVE  /\ Len(ToolSteps) = 3 /\ ToolSteps[1] = RefuseOver({"out"})
           /\ ToolSteps[2] = Make("out") /\ ToolSteps[3] = Fill("out", {"super"}, "none")
           /\ Program[tool].undo = {}
<1>1. /\ ToolSteps = ExtractDynamicPartition
      /\ Program[tool].undo = {}
  BY DEF ToolSteps, Program, Tool, Bare
<1>2. QED
  BY <1>1 DEF ExtractDynamicPartition

LEMMA DualbootMaintenanceSteps ==
    ASSUME tool = "dualboot_maintenance"
    PROVE  /\ Len(ToolSteps) = 12 /\ ToolSteps[1] = Pin({"kernel", "stock"})
           /\ ToolSteps[2] = RefuseOver({"dir"}) /\ ToolSteps[3] = Make("dir")
           /\ ToolSteps[4] = Pin({"ramdisk"}) /\ ToolSteps[5] = Make("scratch")
           /\ ToolSteps[6] = Store("scratch", {"ramdisk"}) /\ ToolSteps[7] = Make("out")
           /\ ToolSteps[8] = Fill("out", {"kernel", "stock"}, "scratch")
           /\ ToolSteps[9] = Match("out", {"kernel", "ramdisk"})
           /\ ToolSteps[10] = Make("record") /\ ToolSteps[11] = Seal("record", "out", {})
           /\ ToolSteps[12] = Drop("scratch") /\ Program[tool].undo = {}
<1>1. /\ ToolSteps = BuildDualbootMaintenance
      /\ Program[tool].undo = {}
  BY DEF ToolSteps, Program, Tool, Bare
<1>2. ToolSteps = Around(Pin({"kernel", "stock"}), RefuseOver({"dir"}),
                         Make("dir"), Pin({"ramdisk"}),
                         Make("record"), Seal("record", "out", {}), Drop("scratch"))
  BY <1>1 DEF BuildDualbootMaintenance, Around
<1>3. QED
  BY <1>1, <1>2, PackSteps, Packed

LEMMA DualLayoutBootSteps ==
    ASSUME tool = "dual_layout_boot"
    PROVE  /\ Len(ToolSteps) = 12 /\ ToolSteps[1] = Pin({"kernel", "stock"})
           /\ ToolSteps[2] = RefuseOver({"dir"}) /\ ToolSteps[3] = Make("dir")
           /\ ToolSteps[4] = Load({"ramdisk"}) /\ ToolSteps[5] = Make("scratch")
           /\ ToolSteps[6] = Store("scratch", {"ramdisk"}) /\ ToolSteps[7] = Make("out")
           /\ ToolSteps[8] = Fill("out", {"kernel", "stock"}, "scratch")
           /\ ToolSteps[9] = Match("out", {"kernel", "ramdisk"})
           /\ ToolSteps[10] = Make("record") /\ ToolSteps[11] = Seal("record", "out", {})
           /\ ToolSteps[12] = Drop("scratch") /\ Program[tool].undo = {}
<1>1. /\ ToolSteps = BuildDualLayoutBoot
      /\ Program[tool].undo = {}
  BY DEF ToolSteps, Program, Tool, Bare
<1>2. ToolSteps = Around(Pin({"kernel", "stock"}), RefuseOver({"dir"}),
                         Make("dir"), Load({"ramdisk"}),
                         Make("record"), Seal("record", "out", {}), Drop("scratch"))
  BY <1>1 DEF BuildDualLayoutBoot, Around
<1>3. QED
  BY <1>1, <1>2, PackSteps, Packed

LEMMA BootPersistentSteps ==
    ASSUME tool = "boot_persistent"
    PROVE  /\ Len(ToolSteps) = 12 /\ ToolSteps[1] = RefuseOver({"dir"})
           /\ ToolSteps[2] = Pin({"kernel", "stock"}) /\ ToolSteps[3] = Load({"ramdisk"})
           /\ ToolSteps[4] = Make("dir") /\ ToolSteps[5] = Make("scratch")
           /\ ToolSteps[6] = Store("scratch", {"ramdisk"}) /\ ToolSteps[7] = Make("out")
           /\ ToolSteps[8] = Fill("out", {"kernel", "stock"}, "scratch")
           /\ ToolSteps[9] = Match("out", {"kernel", "ramdisk"})
           /\ ToolSteps[10] = Drop("scratch") /\ ToolSteps[11] = Make("record")
           /\ ToolSteps[12] = Seal("record", "out", {}) /\ Program[tool].undo = {}
<1>1. /\ ToolSteps = BuildBootPersistent
      /\ Program[tool].undo = {}
  BY DEF ToolSteps, Program, Tool, Bare
<1>2. ToolSteps = Around(RefuseOver({"dir"}), Pin({"kernel", "stock"}),
                         Load({"ramdisk"}), Make("dir"),
                         Drop("scratch"), Make("record"), Seal("record", "out", {}))
  BY <1>1 DEF BuildBootPersistent, Around
<1>3. QED
  BY <1>1, <1>2, PackSteps, Packed

LEMMA BootWithKernelSteps ==
    ASSUME tool = "boot_with_kernel"
    PROVE  /\ Len(ToolSteps) = 11 /\ ToolSteps[1] = RefuseOver({"dir"})
           /\ ToolSteps[2] = Pin({"source_boot"}) /\ ToolSteps[3] = Load({"kernel"})
           /\ ToolSteps[4] = Make("dir") /\ ToolSteps[5] = Make("scratch")
           /\ ToolSteps[6] = Fill("scratch", {"source_boot"}, "none")
           /\ ToolSteps[7] = Make("out") /\ ToolSteps[8] = Fill("out", {"kernel"}, "scratch")
           /\ ToolSteps[9] = Match("out", {"kernel"}) /\ ToolSteps[10] = Make("record")
           /\ ToolSteps[11] = Seal("record", "out", {"source_boot"}) /\ Program[tool].undo = {}
<1>1. /\ ToolSteps = BuildBootWithKernel
      /\ Program[tool].undo = {}
  BY DEF ToolSteps, Program, Tool, Bare
<1>2. QED
  BY <1>1 DEF BuildBootWithKernel

LEMMA RehearsalRootSteps ==
    ASSUME tool = "rehearsal_root"
    PROVE  /\ Len(ToolSteps) = 7 /\ ToolSteps[1] = Pin({"archive"})
           /\ ToolSteps[2] = Load({"archive"}) /\ ToolSteps[3] = RefuseOver({"out"})
           /\ ToolSteps[4] = Make("out") /\ ToolSteps[5] = Fill("out", {"archive"}, "none")
           /\ ToolSteps[6] = Make("record") /\ ToolSteps[7] = Seal("record", "out", {})
           /\ Program[tool].undo = {"out", "record"} /\ Program[tool].from = 5
<1>1. /\ ToolSteps = PrepareRehearsalRoot
      /\ Program[tool].undo = {"out", "record"} /\ Program[tool].from = 5
  BY DEF ToolSteps, Program, Tool
<1>2. QED
  BY <1>1 DEF PrepareRehearsalRoot

LEMMA CameraAssetsSteps ==
    ASSUME tool = "camera_assets"
    PROVE  /\ Len(ToolSteps) = 6 /\ ToolSteps[1] = RefuseOver({"out"})
           /\ ToolSteps[2] = Make("tmp") /\ ToolSteps[3] = Pin({"stock"})
           /\ ToolSteps[4] = Store("tmp", {"stock"}) /\ ToolSteps[5] = Seal("tmp", "tmp", {})
           /\ ToolSteps[6] = Rename("tmp", "out") /\ Program[tool].undo = {"tmp"}
           /\ Program[tool].from = 3
<1>1. /\ ToolSteps = PrepareCameraAssets
      /\ Program[tool].undo = {"tmp"} /\ Program[tool].from = 3
  BY DEF ToolSteps, Program, Tool
<1>2. QED
  BY <1>1 DEF PrepareCameraAssets

LEMMA FactoryRestoreSteps ==
    ASSUME tool = "factory_restore"
    PROVE  /\ Len(ToolSteps) = 8 /\ ToolSteps[1] = Pin({"archive"})
           /\ ToolSteps[2] = RefuseOver({"dir"}) /\ ToolSteps[3] = Load({"archive"})
           /\ ToolSteps[4] = Make("dir") /\ ToolSteps[5] = Make("out")
           /\ ToolSteps[6] = Fill("out", {"archive"}, "none") /\ ToolSteps[7] = Make("record")
           /\ ToolSteps[8] = Seal("record", "out", {})
           /\ Program[tool].undo = {"dir", "out", "record"} /\ Program[tool].from = 5
<1>1. /\ ToolSteps = PrepareFactoryRestore
      /\ Program[tool].undo = {"dir", "out", "record"} /\ Program[tool].from = 5
  BY DEF ToolSteps, Program, Tool
<1>2. QED
  BY <1>1 DEF PrepareFactoryRestore

LEMMA DualbootAssetsSteps ==
    ASSUME tool = "dualboot_assets"
    PROVE  /\ Len(ToolSteps) = 10 /\ ToolSteps[1] = Load({"android"})
           /\ ToolSteps[2] = Pin({"ubuntu"}) /\ ToolSteps[3] = RefuseOver({"dir"})
           /\ ToolSteps[4] = Make("dir") /\ ToolSteps[5] = Make("out")
           /\ ToolSteps[6] = Fill("out", {"android", "ubuntu"}, "none")
           /\ ToolSteps[7] = Make("tmp") /\ ToolSteps[8] = Seal("tmp", "out", {})
           /\ ToolSteps[9] = Rename("tmp", "record")
           /\ ToolSteps[10] = Match("out", {"android", "ubuntu"})
           /\ Program[tool].undo = {"dir", "out", "tmp", "record"} /\ Program[tool].from = 5
<1>1. /\ ToolSteps = ProvisionDualbootAssets
      /\ Program[tool].undo = {"dir", "out", "tmp", "record"} /\ Program[tool].from = 5
  BY DEF ToolSteps, Program, Tool
<1>2. QED
  BY <1>1 DEF ProvisionDualbootAssets

-----------------------------------------------------------------------------
(* What a step writes and reads.                                           *)

Touches(s, n) == \/ s.op \in {"make", "store", "fill", "seal", "drop"} /\ s.name = n
                 \/ s.op = "move" /\ n \in {s.name, s.to}

\* A step names files of the tool.
Shape(s) == /\ s.op \in {"make", "store", "fill", "seal", "drop", "move", "match", "audit"} => s.name \in Names
            /\ s.op = "fill" => s.part \in Names \cup {"none"}
            /\ s.op = "seal" => s.of \in Names
            /\ s.op = "move" => s.to \in Names \ {s.name}

LEMMA Untouched ==
    ASSUME files \in [Names -> Contents], NEW s, Shape(s), NEW n \in Names, ~Touches(s, n)
    PROVE  Writes(s)[n] = files[n]
  BY DEF Writes, Touches, Shape

LEMMA WritesMake ==
    ASSUME files \in [Names -> Contents], NEW s, Shape(s), s.op = "make"
    PROVE  Writes(s) = [files EXCEPT ![s.name] = [is |-> "torn", holds |-> Zero, claims |-> Zero]]
<1>1. [Absent EXCEPT !.is = "torn"] = [is |-> "torn", holds |-> Zero, claims |-> Zero]
  BY DEF Absent
<1>2. QED
  BY <1>1 DEF Writes

LEMMA WritesStore ==
    ASSUME files \in [Names -> Contents], NEW s, Shape(s), s.op = "store"
    PROVE  /\ Writes(s)[s.name].is = "whole" /\ Writes(s)[s.name].claims = mem
           /\ \A i \in Inputs : Writes(s)[s.name].holds[i] = IF i \in s.ins THEN mem[i] ELSE 0
<1>. DEFINE h == [i \in Inputs |-> IF i \in s.ins THEN mem[i] ELSE 0]
<1>1. Writes(s)[s.name] = Whole(h, mem)
  BY DEF Writes, Shape
<1>2. QED
  BY <1>1 DEF Whole

LEMMA WritesFill ==
    ASSUME files \in [Names -> Contents], NEW s, Shape(s), s.op = "fill"
    PROVE  /\ Writes(s)[s.name].is = "whole" /\ Writes(s)[s.name].claims = mem
           /\ \A i \in Inputs :
                 Writes(s)[s.name].holds[i] = IF i \in s.ins THEN src[i]
                                              ELSE IF s.part = "none" THEN 0
                                              ELSE files[s.part].holds[i]
<1>. DEFINE h == [i \in Inputs |-> IF i \in s.ins THEN src[i] ELSE IF s.part = "none" THEN 0
                                   ELSE files[s.part].holds[i]]
<1>1. Writes(s)[s.name] = Whole(h, mem)
  BY DEF Writes, Shape
<1>2. QED
  BY <1>1 DEF Whole

LEMMA WritesSeal ==
    ASSUME files \in [Names -> Contents], NEW s, Shape(s), s.op = "seal"
    PROVE  /\ Writes(s)[s.name].is = "whole" /\ Writes(s)[s.name].holds = files[s.of].holds
           /\ Writes(s)[s.name].claims = [i \in Inputs |-> IF i \in s.again THEN src[i] ELSE mem[i]]
<1>. DEFINE c == [i \in Inputs |-> IF i \in s.again THEN src[i] ELSE mem[i]]
<1>1. Writes(s)[s.name] = Whole(files[s.of].holds, c)
  BY DEF Writes, Shape
<1>2. QED
  BY <1>1 DEF Whole

LEMMA WritesMove ==
    ASSUME files \in [Names -> Contents], NEW s, Shape(s), s.op = "move"
    PROVE  Writes(s)[s.to] = files[s.name] /\ Writes(s)[s.name] = Absent
  BY DEF Writes, Shape

LEMMA WritesDrop ==
    ASSUME files \in [Names -> Contents], NEW s, Shape(s), s.op = "drop"
    PROVE  Writes(s)[s.name] = Absent
  BY DEF Writes, Shape

LEMMA VersionsKept ==
    /\ Zero \in Versions /\ Absent \in Contents
    /\ [is |-> "torn", holds |-> Zero, claims |-> Zero] \in Contents
    /\ \A h, c \in Versions : Whole(h, c) \in Contents
<1>1. Zero \in Versions
  BY PublishConstants DEF Zero, Versions
<1>2. QED
  BY <1>1 DEF Absent, Contents, Whole

LEMMA ReadsTyped ==
    ASSUME PublishTypeOK, NEW s, Shape(s)
    PROVE  Reads(s) \in Versions
<1>1. src \in Versions /\ mem \in Versions /\ \A n \in Names : files[n].holds \in Versions
  BY DEF PublishTypeOK, Contents
<1>2. CASE s.op \in {"pin", "load"}
  <2>1. Reads(s) = [i \in Inputs |-> IF i \in s.ins THEN src[i] ELSE mem[i]]
    BY <1>2 DEF Reads
  <2>2. QED
    BY <1>1, <2>1 DEF Versions
<1>3. CASE s.op = "audit"
  <2>1. Reads(s) = [i \in Inputs |-> IF i \in s.ins THEN files[s.name].holds[i] ELSE mem[i]]
    BY <1>3 DEF Reads
  <2>2. files[s.name].holds \in Versions
    BY <1>1, <1>3 DEF Shape
  <2>3. QED
    BY <1>1, <2>1, <2>2 DEF Versions
<1>4. QED
  BY <1>1, <1>2, <1>3 DEF Reads

LEMMA WritesTyped ==
    ASSUME PublishTypeOK, NEW s, Shape(s)
    PROVE  Writes(s) \in [Names -> Contents]
<1>1. /\ src \in Versions /\ mem \in Versions /\ files \in [Names -> Contents]
      /\ \A n \in Names : files[n].holds \in Versions /\ files[n].claims \in Versions
  BY DEF PublishTypeOK, Contents
<1>2. CASE s.op = "make"
  BY <1>1, <1>2, WritesMake, VersionsKept
<1>3. CASE s.op = "store"
  <2>. DEFINE h == [i \in Inputs |-> IF i \in s.ins THEN mem[i] ELSE 0]
  <2>1. Writes(s) = [files EXCEPT ![s.name] = Whole(h, mem)]
    BY <1>3 DEF Writes
  <2>2. h \in Versions
    BY <1>1, PublishConstants DEF Versions
  <2>. HIDE DEF h
  <2>3. Whole(h, mem) \in Contents
    BY <1>1, <2>2, VersionsKept
  <2>4. QED
    BY <1>1, <2>1, <2>3
<1>4. CASE s.op = "fill"
  <2>. DEFINE h == [i \in Inputs |-> IF i \in s.ins THEN src[i] ELSE IF s.part = "none" THEN 0
                                     ELSE files[s.part].holds[i]]
  <2>1. Writes(s) = [files EXCEPT ![s.name] = Whole(h, mem)]
    BY <1>4 DEF Writes
  <2>2. s.part # "none" => files[s.part].holds \in Versions
    BY <1>1, <1>4 DEF Shape
  <2>3. h \in Versions
    BY <1>1, <2>2, PublishConstants DEF Versions
  <2>. HIDE DEF h
  <2>4. Whole(h, mem) \in Contents
    BY <1>1, <2>3, VersionsKept
  <2>5. QED
    BY <1>1, <2>1, <2>4
<1>5. CASE s.op = "seal"
  <2>. DEFINE c == [i \in Inputs |-> IF i \in s.again THEN src[i] ELSE mem[i]]
              h == files[s.of].holds
  <2>1. Writes(s) = [files EXCEPT ![s.name] = Whole(h, c)]
    BY <1>5 DEF Writes
  <2>2. c \in Versions
    BY <1>1 DEF Versions
  <2>3. h \in Versions
    BY <1>1, <1>5 DEF Shape
  <2>. HIDE DEF h, c
  <2>4. Whole(h, c) \in Contents
    BY <2>2, <2>3, VersionsKept
  <2>5. QED
    BY <1>1, <2>1, <2>4
<1>6. CASE s.op = "move"
  <2>1. Writes(s) = [files EXCEPT ![s.to] = files[s.name], ![s.name] = Absent]
    BY <1>6 DEF Writes
  <2>2. files[s.name] \in Contents /\ Absent \in Contents
    BY <1>1, <1>6, VersionsKept DEF Shape
  <2>3. QED
    BY <1>1, <2>1, <2>2
<1>7. CASE s.op = "drop"
  <2>1. Writes(s) = [files EXCEPT ![s.name] = Absent]
    BY <1>7 DEF Writes
  <2>2. QED
    BY <1>1, <2>1, VersionsKept
<1>8. QED
  BY <1>1, <1>2, <1>3, <1>4, <1>5, <1>6, <1>7 DEF Writes

-----------------------------------------------------------------------------
(* What each program does where it matters.                                *)

Reading(s) == s.op \in {"pin", "load", "fill"}
Length == Len(ToolSteps)
Pos == 1..Length

\* A tool that refuses: it writes nothing up to its refusal, which looks at the output or at
\* the directory of it; the output is completed before it is compared, the record after
\* that, and what was read is then no longer changed.
Guarded(s, k) ==
    LET m == Places[tool] IN
    /\ k <= m.guard => s.op \in {"refuse", "pin", "load"}
    /\ k = m.guard => s.op = "refuse" /\ (IF tool \in InDirectory THEN "dir" ELSE "out") \in s.names
    /\ Touches(s, "dir") => s.op = "make"
    /\ k = m.dir => s.op = "make" /\ s.name = "dir"
    /\ tool \in InDirectory /\ (Touches(s, "out") \/ Touches(s, "record")) => m.dir < k
OutputOf(s, k) ==
    LET m == Places[tool] IN
    /\ Touches(s, "out") => m.guard < k /\ k <= m.done
    /\ k = m.done => \/ s.op = "fill" /\ s.name = "out"
                     \/ tool = "release_archive" /\ s.op = "move" /\ s.name = "tmp" /\ s.to = "out"
    /\ k = m.checked => \/ s.op = "match" /\ s.name = "out" /\ Used \ ReadAgain \subseteq s.ins
                        \/ s.op = "fill" /\ Used \subseteq ReadAgain
                        \/ /\ tool = "release_archive" /\ s.op = "pin"
                           /\ Used \ ReadAgain \subseteq s.ins
    /\ m.checked < k => s.op \notin {"pin", "load", "audit"}
RecordOf(s, k) ==
    LET m == Places[tool] IN
    /\ Touches(s, "record") => /\ m.guard < k
                               /\ (k < m.signed /\ s.op = "make") \/ k = m.signed
    /\ k = m.signed /\ tool \in Recorded =>
          \/ s.op = "seal" /\ s.name = "record" /\ s.of = "out" /\ s.again \subseteq ReadAgain
             /\ m.checked < k
          \/ tool = "dualboot_assets" /\ s.op = "move" /\ s.name = "tmp" /\ s.to = "record"
\* The places themselves.
Laid == LET m == Places[tool] IN
        /\ m.guard \in Nat /\ m.dir \in Nat /\ m.done \in Nat /\ m.checked \in Nat /\ m.signed \in Nat
        /\ 1 <= m.guard /\ 1 <= m.dir /\ m.guard < m.done /\ m.done <= m.checked /\ m.done <= m.signed
        /\ Length \in Nat /\ m.signed <= Length /\ (m.dir = Never \/ m.dir < m.done) /\ Length < Never
        /\ tool \in InDirectory => m.dir # Never
        /\ tool \in Recorded \/ tool = "dynamic_partition"
        /\ tool = "dualboot_assets" => m.checked = Never
        /\ \/ Program[tool].undo = {}
           \/ Program[tool].from \in Nat /\ Program[tool].from > m.guard
              /\ "out" \in Program[tool].undo /\ "record" \in Program[tool].undo

Arrangement == Laid /\ \A k \in Pos : LET s == ToolSteps[k] IN
                          Shape(s) /\ Guarded(s, k) /\ OutputOf(s, k) /\ RecordOf(s, k)

LEMMA UsedBound ==
    ASSUME NEW X, \A k \in Pos : Reading(ToolSteps[k]) => ToolSteps[k].ins \subseteq X
    PROVE  Used \subseteq X
  BY DEF Used, Pos, Length, Reading

LEMMA ReleaseArchiveArranged ==
    ASSUME tool = "release_archive"
    PROVE  Arrangement
<1>. USE ReleaseArchiveSteps DEF RefuseOver, Pin, Load, Make, Fill, Seal, Rename
<1>1. Pos = 1..9 /\ Length = 9
  BY DEF Pos, Length
<1>2. Used \subseteq {"root", "assets", "android"} /\ ReadAgain = {"android"}
  BY <1>1, UsedBound DEF Reading, ReadAgain
<1>3. Places[tool] = Marks(3, Never, 6, 7, 9)
  BY DEF Places
<1>4. tool \in Recorded /\ tool \notin InDirectory
  BY <1>3 DEF Recorded, InDirectory, Refusing, Places, Marks, Never
<1>5. Laid
  BY <1>1, <1>3, <1>4 DEF Laid, Marks, Never
<1>6. ASSUME NEW k \in Pos
      PROVE  /\ Shape(ToolSteps[k]) /\ Guarded(ToolSteps[k], k)
             /\ OutputOf(ToolSteps[k], k) /\ RecordOf(ToolSteps[k], k)
  <2>1. k \in {1, 2, 3, 4, 5, 6, 7, 8, 9}
    BY <1>1
  <2>2. Shape(ToolSteps[k])
    BY <2>1 DEF Shape, Names
  <2>3. Guarded(ToolSteps[k], k)
    BY <1>3, <1>4, <2>1 DEF Guarded, Touches, Marks, Never
  <2>4. OutputOf(ToolSteps[k], k)
    BY <1>2, <1>3, <2>1 DEF OutputOf, Touches, Marks, Never
  <2>5. RecordOf(ToolSteps[k], k)
    BY <1>2, <1>3, <1>4, <2>1 DEF RecordOf, Touches, Marks, Never
  <2>6. QED
    BY <2>2, <2>3, <2>4, <2>5
<1>7. QED
  BY <1>5, <1>6 DEF Arrangement

LEMMA InstallerRuntimeArranged ==
    ASSUME tool = "installer_runtime"
    PROVE  Arrangement
<1>. USE InstallerRuntimeSteps DEF RefuseOver, Pin, Make, Fill, Seal
<1>1. Pos = 1..6 /\ Length = 6
  BY DEF Pos, Length
<1>2. Used \subseteq {"root"} /\ ReadAgain = {"root"}
  BY <1>1, UsedBound DEF Reading, ReadAgain
<1>3. Places[tool] = Marks(2, Never, 4, 4, 6)
  BY DEF Places
<1>4. tool \in Recorded /\ tool \notin InDirectory
  BY <1>3 DEF Recorded, InDirectory, Refusing, Places, Marks, Never
<1>5. Laid
  BY <1>1, <1>3, <1>4 DEF Laid, Marks, Never
<1>6. ASSUME NEW k \in Pos
      PROVE  /\ Shape(ToolSteps[k]) /\ Guarded(ToolSteps[k], k)
             /\ OutputOf(ToolSteps[k], k) /\ RecordOf(ToolSteps[k], k)
  <2>1. k \in {1, 2, 3, 4, 5, 6}
    BY <1>1
  <2>2. Shape(ToolSteps[k])
    BY <2>1 DEF Shape, Names
  <2>3. Guarded(ToolSteps[k], k)
    BY <1>3, <1>4, <2>1 DEF Guarded, Touches, Marks, Never
  <2>4. OutputOf(ToolSteps[k], k)
    BY <1>2, <1>3, <2>1 DEF OutputOf, Touches, Marks, Never
  <2>5. RecordOf(ToolSteps[k], k)
    BY <1>2, <1>3, <1>4, <2>1 DEF RecordOf, Touches, Marks, Never
  <2>6. QED
    BY <2>2, <2>3, <2>4, <2>5
<1>7. QED
  BY <1>5, <1>6 DEF Arrangement

LEMMA DualbootMaintenanceArranged ==
    ASSUME tool = "dualboot_maintenance"
    PROVE  Arrangement
<1>. USE DualbootMaintenanceSteps DEF RefuseOver, Pin, Make, Store, Fill, Match, Seal, Drop
<1>1. Pos = 1..12 /\ Length = 12
  BY DEF Pos, Length
<1>2. Used \subseteq {"kernel", "stock", "ramdisk"} /\ ReadAgain = {"stock"}
  <2>1. ASSUME NEW k \in Pos, Reading(ToolSteps[k])
        PROVE  ToolSteps[k].ins \subseteq {"kernel", "stock", "ramdisk"}
    <3>1. k \in {1, 2, 3, 4, 5, 6, 7, 8, 9, 10, 11, 12}
      BY <1>1
    <3>2. QED
      BY <2>1, <3>1 DEF Reading
  <2>2. QED
    BY <2>1, UsedBound DEF ReadAgain
<1>3. Places[tool] = Marks(2, 3, 8, 9, 11)
  BY DEF Places
<1>4. tool \in Recorded /\ tool \in InDirectory
  BY <1>3 DEF Recorded, InDirectory, Refusing, Places, Marks, Never
<1>5. Laid
  BY <1>1, <1>3, <1>4 DEF Laid, Marks, Never
<1>6. ASSUME NEW k \in Pos
      PROVE  /\ Shape(ToolSteps[k]) /\ Guarded(ToolSteps[k], k)
             /\ OutputOf(ToolSteps[k], k) /\ RecordOf(ToolSteps[k], k)
  <2>1. k \in {1, 2, 3, 4, 5, 6, 7, 8, 9, 10, 11, 12}
    BY <1>1
  <2>2. Shape(ToolSteps[k])
    BY <2>1 DEF Shape, Names
  <2>3. Guarded(ToolSteps[k], k)
    BY <1>3, <1>4, <2>1 DEF Guarded, Touches, Marks, Never
  <2>4. OutputOf(ToolSteps[k], k)
    BY <1>2, <1>3, <2>1 DEF OutputOf, Touches, Marks, Never
  <2>5. RecordOf(ToolSteps[k], k)
    BY <1>2, <1>3, <1>4, <2>1 DEF RecordOf, Touches, Marks, Never
  <2>6. QED
    BY <2>2, <2>3, <2>4, <2>5
<1>7. QED
  BY <1>5, <1>6 DEF Arrangement

LEMMA DualLayoutBootArranged ==
    ASSUME tool = "dual_layout_boot"
    PROVE  Arrangement
<1>. USE DualLayoutBootSteps DEF RefuseOver, Pin, Load, Make, Store, Fill, Match, Seal, Drop
<1>1. Pos = 1..12 /\ Length = 12
  BY DEF Pos, Length
<1>2. Used \subseteq {"kernel", "stock", "ramdisk"} /\ ReadAgain = {"stock"}
  <2>1. ASSUME NEW k \in Pos, Reading(ToolSteps[k])
        PROVE  ToolSteps[k].ins \subseteq {"kernel", "stock", "ramdisk"}
    <3>1. k \in {1, 2, 3, 4, 5, 6, 7, 8, 9, 10, 11, 12}
      BY <1>1
    <3>2. QED
      BY <2>1, <3>1 DEF Reading
  <2>2. QED
    BY <2>1, UsedBound DEF ReadAgain
<1>3. Places[tool] = Marks(2, 3, 8, 9, 11)
  BY DEF Places
<1>4. tool \in Recorded /\ tool \in InDirectory
  BY <1>3 DEF Recorded, InDirectory, Refusing, Places, Marks, Never
<1>5. Laid
  BY <1>1, <1>3, <1>4 DEF Laid, Marks, Never
<1>6. ASSUME NEW k \in Pos
      PROVE  /\ Shape(ToolSteps[k]) /\ Guarded(ToolSteps[k], k)
             /\ OutputOf(ToolSteps[k], k) /\ RecordOf(ToolSteps[k], k)
  <2>1. k \in {1, 2, 3, 4, 5, 6, 7, 8, 9, 10, 11, 12}
    BY <1>1
  <2>2. Shape(ToolSteps[k])
    BY <2>1 DEF Shape, Names
  <2>3. Guarded(ToolSteps[k], k)
    BY <1>3, <1>4, <2>1 DEF Guarded, Touches, Marks, Never
  <2>4. OutputOf(ToolSteps[k], k)
    BY <1>2, <1>3, <2>1 DEF OutputOf, Touches, Marks, Never
  <2>5. RecordOf(ToolSteps[k], k)
    BY <1>2, <1>3, <1>4, <2>1 DEF RecordOf, Touches, Marks, Never
  <2>6. QED
    BY <2>2, <2>3, <2>4, <2>5
<1>7. QED
  BY <1>5, <1>6 DEF Arrangement

LEMMA BootPersistentArranged ==
    ASSUME tool = "boot_persistent"
    PROVE  Arrangement
<1>. USE BootPersistentSteps DEF RefuseOver, Pin, Load, Make, Store, Fill, Match, Seal, Drop
<1>1. Pos = 1..12 /\ Length = 12
  BY DEF Pos, Length
<1>2. Used \subseteq {"kernel", "stock", "ramdisk"} /\ ReadAgain = {"stock"}
  <2>1. ASSUME NEW k \in Pos, Reading(ToolSteps[k])
        PROVE  ToolSteps[k].ins \subseteq {"kernel", "stock", "ramdisk"}
    <3>1. k \in {1, 2, 3, 4, 5, 6, 7, 8, 9, 10, 11, 12}
      BY <1>1
    <3>2. QED
      BY <2>1, <3>1 DEF Reading
  <2>2. QED
    BY <2>1, UsedBound DEF ReadAgain
<1>3. Places[tool] = Marks(1, 4, 8, 9, 12)
  BY DEF Places
<1>4. tool \in Recorded /\ tool \in InDirectory
  BY <1>3 DEF Recorded, InDirectory, Refusing, Places, Marks, Never
<1>5. Laid
  BY <1>1, <1>3, <1>4 DEF Laid, Marks, Never
<1>6. ASSUME NEW k \in Pos
      PROVE  /\ Shape(ToolSteps[k]) /\ Guarded(ToolSteps[k], k)
             /\ OutputOf(ToolSteps[k], k) /\ RecordOf(ToolSteps[k], k)
  <2>1. k \in {1, 2, 3, 4, 5, 6, 7, 8, 9, 10, 11, 12}
    BY <1>1
  <2>2. Shape(ToolSteps[k])
    BY <2>1 DEF Shape, Names
  <2>3. Guarded(ToolSteps[k], k)
    BY <1>3, <1>4, <2>1 DEF Guarded, Touches, Marks, Never
  <2>4. OutputOf(ToolSteps[k], k)
    BY <1>2, <1>3, <2>1 DEF OutputOf, Touches, Marks, Never
  <2>5. RecordOf(ToolSteps[k], k)
    BY <1>2, <1>3, <1>4, <2>1 DEF RecordOf, Touches, Marks, Never
  <2>6. QED
    BY <2>2, <2>3, <2>4, <2>5
<1>7. QED
  BY <1>5, <1>6 DEF Arrangement

LEMMA BootWithKernelArranged ==
    ASSUME tool = "boot_with_kernel"
    PROVE  Arrangement
<1>. USE BootWithKernelSteps DEF RefuseOver, Pin, Load, Make, Fill, Match, Seal
<1>1. Pos = 1..11 /\ Length = 11
  BY DEF Pos, Length
<1>2. Used \subseteq {"source_boot", "kernel"} /\ ReadAgain = {"source_boot"}
  <2>1. ASSUME NEW k \in Pos, Reading(ToolSteps[k])
        PROVE  ToolSteps[k].ins \subseteq {"source_boot", "kernel"}
    <3>1. k \in {1, 2, 3, 4, 5, 6, 7, 8, 9, 10, 11}
      BY <1>1
    <3>2. QED
      BY <2>1, <3>1 DEF Reading
  <2>2. QED
    BY <2>1, UsedBound DEF ReadAgain
<1>3. Places[tool] = Marks(1, 4, 8, 9, 11)
  BY DEF Places
<1>4. tool \in Recorded /\ tool \in InDirectory
  BY <1>3 DEF Recorded, InDirectory, Refusing, Places, Marks, Never
<1>5. Laid
  BY <1>1, <1>3, <1>4 DEF Laid, Marks, Never
<1>6. ASSUME NEW k \in Pos
      PROVE  /\ Shape(ToolSteps[k]) /\ Guarded(ToolSteps[k], k)
             /\ OutputOf(ToolSteps[k], k) /\ RecordOf(ToolSteps[k], k)
  <2>1. k \in {1, 2, 3, 4, 5, 6, 7, 8, 9, 10, 11}
    BY <1>1
  <2>2. Shape(ToolSteps[k])
    BY <2>1 DEF Shape, Names
  <2>3. Guarded(ToolSteps[k], k)
    BY <1>3, <1>4, <2>1 DEF Guarded, Touches, Marks, Never
  <2>4. OutputOf(ToolSteps[k], k)
    BY <1>2, <1>3, <2>1 DEF OutputOf, Touches, Marks, Never
  <2>5. RecordOf(ToolSteps[k], k)
    BY <1>2, <1>3, <1>4, <2>1 DEF RecordOf, Touches, Marks, Never
  <2>6. QED
    BY <2>2, <2>3, <2>4, <2>5
<1>7. QED
  BY <1>5, <1>6 DEF Arrangement

LEMMA RehearsalRootArranged ==
    ASSUME tool = "rehearsal_root"
    PROVE  Arrangement
<1>. USE RehearsalRootSteps DEF RefuseOver, Pin, Load, Make, Fill, Seal
<1>1. Pos = 1..7 /\ Length = 7
  BY DEF Pos, Length
<1>2. Used \subseteq {"archive"} /\ ReadAgain = {"archive"}
  BY <1>1, UsedBound DEF Reading, ReadAgain
<1>3. Places[tool] = Marks(3, Never, 5, 5, 7)
  BY DEF Places
<1>4. tool \in Recorded /\ tool \notin InDirectory
  BY <1>3 DEF Recorded, InDirectory, Refusing, Places, Marks, Never
<1>5. Laid
  BY <1>1, <1>3, <1>4 DEF Laid, Marks, Never
<1>6. ASSUME NEW k \in Pos
      PROVE  /\ Shape(ToolSteps[k]) /\ Guarded(ToolSteps[k], k)
             /\ OutputOf(ToolSteps[k], k) /\ RecordOf(ToolSteps[k], k)
  <2>1. k \in {1, 2, 3, 4, 5, 6, 7}
    BY <1>1
  <2>2. Shape(ToolSteps[k])
    BY <2>1 DEF Shape, Names
  <2>3. Guarded(ToolSteps[k], k)
    BY <1>3, <1>4, <2>1 DEF Guarded, Touches, Marks, Never
  <2>4. OutputOf(ToolSteps[k], k)
    BY <1>2, <1>3, <2>1 DEF OutputOf, Touches, Marks, Never
  <2>5. RecordOf(ToolSteps[k], k)
    BY <1>2, <1>3, <1>4, <2>1 DEF RecordOf, Touches, Marks, Never
  <2>6. QED
    BY <2>2, <2>3, <2>4, <2>5
<1>7. QED
  BY <1>5, <1>6 DEF Arrangement

LEMMA FactoryRestoreArranged ==
    ASSUME tool = "factory_restore"
    PROVE  Arrangement
<1>. USE FactoryRestoreSteps DEF RefuseOver, Pin, Load, Make, Fill, Seal
<1>1. Pos = 1..8 /\ Length = 8
  BY DEF Pos, Length
<1>2. Used \subseteq {"archive"} /\ ReadAgain = {"archive"}
  BY <1>1, UsedBound DEF Reading, ReadAgain
<1>3. Places[tool] = Marks(2, 4, 6, 6, 8)
  BY DEF Places
<1>4. tool \in Recorded /\ tool \in InDirectory
  BY <1>3 DEF Recorded, InDirectory, Refusing, Places, Marks, Never
<1>5. Laid
  BY <1>1, <1>3, <1>4 DEF Laid, Marks, Never
<1>6. ASSUME NEW k \in Pos
      PROVE  /\ Shape(ToolSteps[k]) /\ Guarded(ToolSteps[k], k)
             /\ OutputOf(ToolSteps[k], k) /\ RecordOf(ToolSteps[k], k)
  <2>1. k \in {1, 2, 3, 4, 5, 6, 7, 8}
    BY <1>1
  <2>2. Shape(ToolSteps[k])
    BY <2>1 DEF Shape, Names
  <2>3. Guarded(ToolSteps[k], k)
    BY <1>3, <1>4, <2>1 DEF Guarded, Touches, Marks, Never
  <2>4. OutputOf(ToolSteps[k], k)
    BY <1>2, <1>3, <2>1 DEF OutputOf, Touches, Marks, Never
  <2>5. RecordOf(ToolSteps[k], k)
    BY <1>2, <1>3, <1>4, <2>1 DEF RecordOf, Touches, Marks, Never
  <2>6. QED
    BY <2>2, <2>3, <2>4, <2>5
<1>7. QED
  BY <1>5, <1>6 DEF Arrangement

LEMMA DualbootAssetsArranged ==
    ASSUME tool = "dualboot_assets"
    PROVE  Arrangement
<1>. USE DualbootAssetsSteps DEF RefuseOver, Pin, Load, Make, Fill, Match, Seal, Rename
<1>1. Pos = 1..10 /\ Length = 10
  BY DEF Pos, Length
<1>2. Used \subseteq {"android", "ubuntu"} /\ ReadAgain = {}
  BY <1>1, UsedBound DEF Reading, ReadAgain
<1>3. Places[tool] = Marks(3, 4, 6, Never, 9)
  BY DEF Places
<1>4. tool \in Recorded /\ tool \in InDirectory
  BY <1>3 DEF Recorded, InDirectory, Refusing, Places, Marks, Never
<1>5. Laid
  BY <1>1, <1>3, <1>4 DEF Laid, Marks, Never
<1>6. ASSUME NEW k \in Pos
      PROVE  /\ Shape(ToolSteps[k]) /\ Guarded(ToolSteps[k], k)
             /\ OutputOf(ToolSteps[k], k) /\ RecordOf(ToolSteps[k], k)
  <2>1. k \in {1, 2, 3, 4, 5, 6, 7, 8, 9, 10}
    BY <1>1
  <2>2. Shape(ToolSteps[k])
    BY <2>1 DEF Shape, Names
  <2>3. Guarded(ToolSteps[k], k)
    BY <1>3, <1>4, <2>1 DEF Guarded, Touches, Marks, Never
  <2>4. OutputOf(ToolSteps[k], k)
    BY <1>2, <1>3, <2>1 DEF OutputOf, Touches, Marks, Never
  <2>5. RecordOf(ToolSteps[k], k)
    BY <1>2, <1>3, <1>4, <2>1 DEF RecordOf, Touches, Marks, Never
  <2>6. QED
    BY <2>2, <2>3, <2>4, <2>5
<1>7. QED
  BY <1>5, <1>6 DEF Arrangement

LEMMA DynamicPartitionArranged ==
    ASSUME tool = "dynamic_partition"
    PROVE  Arrangement
<1>. USE DynamicPartitionSteps DEF RefuseOver, Make, Fill
<1>1. Pos = 1..3 /\ Length = 3
  BY DEF Pos, Length
<1>2. Used \subseteq {"super"} /\ ReadAgain = {}
  BY <1>1, UsedBound DEF Reading, ReadAgain
<1>3. Places[tool] = Marks(1, Never, 3, Never, 3)
  BY DEF Places
<1>4. tool \notin Recorded /\ tool \notin InDirectory
  BY <1>3 DEF Recorded, InDirectory, Refusing, Places, Marks, Never
<1>5. Laid
  BY <1>1, <1>3, <1>4 DEF Laid, Marks, Never
<1>6. ASSUME NEW k \in Pos
      PROVE  /\ Shape(ToolSteps[k]) /\ Guarded(ToolSteps[k], k)
             /\ OutputOf(ToolSteps[k], k) /\ RecordOf(ToolSteps[k], k)
  <2>1. k \in {1, 2, 3}
    BY <1>1
  <2>2. Shape(ToolSteps[k])
    BY <2>1 DEF Shape, Names
  <2>3. Guarded(ToolSteps[k], k)
    BY <1>3, <1>4, <2>1 DEF Guarded, Touches, Marks, Never
  <2>4. OutputOf(ToolSteps[k], k)
    BY <1>2, <1>3, <2>1 DEF OutputOf, Touches, Marks, Never
  <2>5. RecordOf(ToolSteps[k], k)
    BY <1>2, <1>3, <1>4, <2>1 DEF RecordOf, Touches, Marks, Never
  <2>6. QED
    BY <2>2, <2>3, <2>4, <2>5
<1>7. QED
  BY <1>5, <1>6 DEF Arrangement

\* A tool that replaces its output: only by a complete new file, which holds what it says.
Replaced(s, k) ==
    LET p == Placed[tool] IN
    /\ Touches(s, "out") => k = p
    /\ k = p => s.op = "move" /\ s.name = "tmp" /\ s.to = "out"
    /\ k = p - 1 => /\ s.name = "tmp"
                    /\ \/ s.op = "store" /\ Used \ ReadAgain \subseteq s.ins
                       \/ s.op = "fill" /\ Used \subseteq ReadAgain
                       \/ /\ tool \in {"waydroid_modules", "camera_assets"}
                          /\ s.op = "seal" /\ s.of = "tmp" /\ s.again = {}
    /\ tool = "waydroid_modules" /\ k = 6 => s.op = "audit" /\ s.name = "tmp" /\ Used \subseteq s.ins
    /\ tool = "camera_assets" /\ k = 4 => s.op = "store" /\ s.name = "tmp" /\ Used \subseteq s.ins

Replacement == /\ Placed[tool] \in Nat /\ 4 <= Placed[tool] /\ Placed[tool] <= Length
               /\ Length \in Nat
               /\ tool = "waydroid_modules" => Placed[tool] = 8
               /\ tool = "camera_assets" => Placed[tool] = 6
               /\ "out" \notin Program[tool].undo
               /\ \A k \in Pos : LET s == ToolSteps[k] IN Shape(s) /\ Replaced(s, k)

LEMMA DebReplaces ==
    ASSUME tool \in Debs
    PROVE  Replacement
<1>. USE DEF Load, Make, Store, Rename
<1>1. PICK ins \in SUBSET Inputs :
         /\ Len(ToolSteps) = 4
         /\ ToolSteps[1] = Load(ins) /\ ToolSteps[2] = Make("tmp")
         /\ ToolSteps[3] = Store("tmp", ins) /\ ToolSteps[4] = Rename("tmp", "out")
         /\ Program[tool].undo = {}
  BY DebSteps
<1>2. Pos = 1..4 /\ Length = 4
  BY <1>1 DEF Pos, Length
<1>3. Used \subseteq ins
  <2>1. ASSUME NEW k \in Pos, Reading(ToolSteps[k])
        PROVE  ToolSteps[k].ins \subseteq ins
    <3>1. k \in {1, 2, 3, 4}
      BY <1>2
    <3>2. QED
      BY <1>1, <2>1, <3>1 DEF Reading
  <2>2. QED
    BY <2>1, UsedBound
<1>4. Placed[tool] = 4 /\ tool \notin {"waydroid_modules", "camera_assets"}
  BY DEF Placed, Renamed, Debs
<1>5. ASSUME NEW k \in Pos
      PROVE  Shape(ToolSteps[k]) /\ Replaced(ToolSteps[k], k)
  <2>1. k \in {1, 2, 3, 4}
    BY <1>2
  <2>2. Shape(ToolSteps[k])
    BY <1>1, <2>1 DEF Shape, Names
  <2>3. Replaced(ToolSteps[k], k)
    BY <1>1, <1>3, <1>4, <2>1 DEF Replaced, Touches
  <2>4. QED
    BY <2>2, <2>3
<1>6. QED
  BY <1>1, <1>2, <1>4, <1>5 DEF Replacement

LEMMA StockAssetsDebReplaces ==
    ASSUME tool = "stock_assets_deb"
    PROVE  Replacement
<1>. USE StockAssetsDebSteps DEF Pin, Load, Make, Fill, Rename
<1>1. Pos = 1..6 /\ Length = 6
  BY DEF Pos, Length
<1>2. Used \subseteq {"stock"} /\ ReadAgain = {"stock"}
  BY <1>1, UsedBound DEF Reading, ReadAgain
<1>3. Placed[tool] = 6
  BY DEF Placed, Renamed
<1>4. ASSUME NEW k \in Pos
      PROVE  Shape(ToolSteps[k]) /\ Replaced(ToolSteps[k], k)
  <2>1. k \in {1, 2, 3, 4, 5, 6}
    BY <1>1
  <2>2. Shape(ToolSteps[k])
    BY <2>1 DEF Shape, Names
  <2>3. Replaced(ToolSteps[k], k)
    BY <1>2, <1>3, <2>1 DEF Replaced, Touches
  <2>4. QED
    BY <2>2, <2>3
<1>5. QED
  BY <1>1, <1>3, <1>4 DEF Replacement

LEMMA AndroidSwitcherReplaces ==
    ASSUME tool = "android_switcher"
    PROVE  Replacement
<1>. USE AndroidSwitcherSteps DEF Make, Fill, Rename, Drop
<1>1. Pos = 1..6 /\ Length = 6
  BY DEF Pos, Length
<1>2. Used \subseteq {"sources"} /\ ReadAgain = {"sources"}
  BY <1>1, UsedBound DEF Reading, ReadAgain
<1>3. Placed[tool] = 5
  BY DEF Placed, Renamed
<1>4. ASSUME NEW k \in Pos
      PROVE  Shape(ToolSteps[k]) /\ Replaced(ToolSteps[k], k)
  <2>1. k \in {1, 2, 3, 4, 5, 6}
    BY <1>1
  <2>2. Shape(ToolSteps[k])
    BY <2>1 DEF Shape, Names
  <2>3. Replaced(ToolSteps[k], k)
    BY <1>2, <1>3, <2>1 DEF Replaced, Touches
  <2>4. QED
    BY <2>2, <2>3
<1>5. QED
  BY <1>1, <1>3, <1>4 DEF Replacement

LEMMA WaydroidModulesReplaces ==
    ASSUME tool = "waydroid_modules"
    PROVE  Replacement
<1>. USE WaydroidModulesSteps DEF RefuseOver, Load, Make, Fill, Seal, AuditCopies, Rename
<1>1. Pos = 1..8 /\ Length = 8
  BY DEF Pos, Length
<1>2. Used \subseteq {"modules"} /\ ReadAgain = {}
  BY <1>1, UsedBound DEF Reading, ReadAgain
<1>3. Placed[tool] = 8
  BY DEF Placed, Renamed
<1>4. ASSUME NEW k \in Pos
      PROVE  Shape(ToolSteps[k]) /\ Replaced(ToolSteps[k], k)
  <2>1. k \in {1, 2, 3, 4, 5, 6, 7, 8}
    BY <1>1
  <2>2. Shape(ToolSteps[k])
    BY <2>1 DEF Shape, Names
  <2>3. Replaced(ToolSteps[k], k)
    BY <1>2, <1>3, <2>1 DEF Replaced, Touches
  <2>4. QED
    BY <2>2, <2>3
<1>5. QED
  BY <1>1, <1>3, <1>4 DEF Replacement

LEMMA CameraAssetsReplaces ==
    ASSUME tool = "camera_assets"
    PROVE  Replacement
<1>. USE CameraAssetsSteps DEF RefuseOver, Pin, Make, Store, Seal, Rename
<1>1. Pos = 1..6 /\ Length = 6
  BY DEF Pos, Length
<1>2. Used \subseteq {"stock"} /\ ReadAgain = {}
  BY <1>1, UsedBound DEF Reading, ReadAgain
<1>3. Placed[tool] = 6
  BY DEF Placed, Renamed
<1>4. ASSUME NEW k \in Pos
      PROVE  Shape(ToolSteps[k]) /\ Replaced(ToolSteps[k], k)
  <2>1. k \in {1, 2, 3, 4, 5, 6}
    BY <1>1
  <2>2. Shape(ToolSteps[k])
    BY <2>1 DEF Shape, Names
  <2>3. Replaced(ToolSteps[k], k)
    BY <1>2, <1>3, <2>1 DEF Replaced, Touches
  <2>4. QED
    BY <2>2, <2>3
<1>5. QED
  BY <1>1, <1>3, <1>4 DEF Replacement

LEMMA BootTestShaped ==
    ASSUME tool = "boot_test"
    PROVE  Length \in Nat /\ 1 \in Pos /\ \A k \in Pos : Shape(ToolSteps[k])
<1>1. ToolSteps = BuildBootTest
  BY DEF ToolSteps, Program, Tool, Bare
<1>2. Len(ToolSteps) = 8
  BY <1>1 DEF BuildBootTest
<1>3. ASSUME NEW k \in Pos
      PROVE  Shape(ToolSteps[k])
  <2>1. k \in {1, 2, 3, 4, 5, 6, 7, 8}
    BY <1>2 DEF Pos, Length
  <2>2. QED
    BY <1>1, <2>1 DEF BuildBootTest, Shape, Names,
           Load, Make, Store, Fill, Match, Seal
<1>4. QED
  BY <1>2, <1>3 DEF Pos, Length

LEMMA ReleaseRootShaped ==
    ASSUME tool = "release_root"
    PROVE  Length \in Nat /\ 1 \in Pos /\ \A k \in Pos : Shape(ToolSteps[k])
<1>1. ToolSteps = AssembleReleaseRoot
  BY DEF ToolSteps, Program, Tool
<1>2. Len(ToolSteps) = 8
  BY <1>1 DEF AssembleReleaseRoot
<1>3. ASSUME NEW k \in Pos
      PROVE  Shape(ToolSteps[k])
  <2>1. k \in {1, 2, 3, 4, 5, 6, 7, 8}
    BY <1>2 DEF Pos, Length
  <2>2. QED
    BY <1>1, <2>1 DEF AssembleReleaseRoot, Shape, Names,
           RefuseOver, Pin, Make, Fill, Drop
<1>4. QED
  BY <1>2, <1>3 DEF Pos, Length

LEMMA ToolKinds ==
    ASSUME tool \in Tools
    PROVE  /\ \/ tool \in Refusing /\ Arrangement
              \/ tool \in Renamed /\ Replacement
              \/ tool \in InPlace
           /\ Length \in Nat /\ 1 \in Pos /\ \A k \in Pos : Shape(ToolSteps[k])
<1>1. Refusing = {"release_archive", "installer_runtime", "dualboot_maintenance", "dual_layout_boot",
                  "boot_persistent", "boot_with_kernel", "rehearsal_root", "factory_restore",
                  "dualboot_assets", "dynamic_partition"}
  BY DEF Refusing, Places
<1>2. \/ tool \in Refusing
      \/ tool \in Debs
      \/ tool \in {"stock_assets_deb", "android_switcher", "waydroid_modules", "camera_assets"}
      \/ tool \in {"boot_test", "release_root"}
  BY <1>1 DEF Tools, Program, Debs
<1>3. CASE tool \in Refusing
  <2>1. Arrangement
    BY <1>1, <1>3, ReleaseArchiveArranged, InstallerRuntimeArranged, DualbootMaintenanceArranged,
       DualLayoutBootArranged, BootPersistentArranged, BootWithKernelArranged,
       RehearsalRootArranged, FactoryRestoreArranged, DualbootAssetsArranged,
       DynamicPartitionArranged
  <2>2. Laid /\ \A k \in Pos : Shape(ToolSteps[k])
    BY <2>1 DEF Arrangement
  <2>3. Length \in Nat /\ 1 <= Length
    BY <2>2 DEF Laid
  <2>4. QED
    BY <1>3, <2>1, <2>2, <2>3 DEF Pos
<1>4. CASE tool \in Debs \/ tool \in {"stock_assets_deb", "android_switcher", "waydroid_modules",
                                      "camera_assets"}
  <2>1. Replacement
    BY <1>4, DebReplaces, StockAssetsDebReplaces, AndroidSwitcherReplaces,
       WaydroidModulesReplaces, CameraAssetsReplaces
  <2>2. tool \in Renamed
    BY <1>4 DEF Renamed, Debs
  <2>3. Length \in Nat /\ 1 \in Pos /\ \A k \in Pos : Shape(ToolSteps[k])
    BY <2>1 DEF Replacement, Pos
  <2>4. QED
    BY <2>1, <2>2, <2>3
<1>5. CASE tool \in {"boot_test", "release_root"}
  BY <1>5, BootTestShaped, ReleaseRootShaped DEF InPlace
<1>6. QED
  BY <1>2, <1>3, <1>4, <1>5

LEMMA KindsApart ==
    /\ tool \in Refusing => tool \notin Renamed /\ tool \notin InPlace
    /\ tool \in Renamed => tool \notin Refusing /\ tool \notin Recorded /\ tool \notin InPlace
    /\ tool \in InPlace => tool \notin Refusing /\ tool \notin Recorded /\ tool \notin Renamed
    /\ tool \in Recorded => tool \in Refusing
    /\ tool \in InDirectory => tool \in Refusing
  BY DEF Refusing, Places, Renamed, Recorded, InPlace, InDirectory

-----------------------------------------------------------------------------
(* Types, and what a tool knows nothing of.                                *)

Pasts == [runs : 0..MaxRuns, faults : 0..MaxToolFaults, edits : 0..MaxEdits,
          killed : BOOLEAN, returned : BOOLEAN]

LEMMA SameTool ==
    ASSUME tool' = tool
    PROVE  /\ ToolSteps' = ToolSteps /\ Used' = Used /\ ReadAgain' = ReadAgain /\ Once' = Once
           /\ Pos' = Pos /\ Length' = Length
  BY DEF ToolSteps, Used, ReadAgain, Once, Pos, Length

LEMMA PublishActions ==
    ASSUME PublishTyped, PublishNext
    PROVE  tool' = tool /\ (StartTool \/ Run \/ Raise \/ KillTool \/ \E i \in Used : Edit(i))
  BY DEF PublishNext, StartTool, Run, Raise, KillTool, Edit

LEMMA RunFacts ==
    ASSUME PublishTyped, Run
    PROVE  /\ pc \in Pos /\ Step = ToolSteps[pc] /\ Shape(Step) /\ Passes(Step)
           /\ tool' = tool /\ src' = src /\ mem' = Reads(Step) /\ files' = Writes(Step)
           /\ pc' = IF pc = Length THEN 0 ELSE pc + 1
           /\ files \in [Names -> Contents] /\ files' \in [Names -> Contents]
<1>1. tool \in Tools /\ pc \in 0..Length /\ pc # 0 /\ Length \in Nat
  BY ToolKinds DEF PublishTyped, PublishTypeOK, Run, Length, ToolSteps
<1>2. pc \in Pos
  BY <1>1 DEF Pos
<1>3. Shape(Step)
  BY <1>1, <1>2, ToolKinds DEF Step
<1>4. QED
  BY <1>2, <1>3, WritesTyped DEF PublishTyped, PublishTypeOK, Run, Step, Length

LEMMA PublishTypedInit ==
    ASSUME PublishInit
    PROVE  PublishTyped
<1>1. 0 \in 0..Length
  <2>1. tool \in Tools
    BY DEF PublishInit
  <2>2. Length \in Nat
    BY <2>1, ToolKinds
  <2>3. QED
    BY <2>2
<1>2. past \in Pasts
  BY PublishConstants DEF PublishInit, Pasts
<1>3. QED
  BY <1>1, <1>2, VersionsKept, PublishConstants
     DEF PublishInit, PublishTyped, PublishTypeOK, Length, ToolSteps, Pasts, Zero

LEMMA PublishTypedStep ==
    ASSUME PublishTyped, PublishNext
    PROVE  PublishTyped'
<1>. USE PublishConstants
<1>1. /\ tool \in Tools /\ src \in Versions /\ mem \in Versions /\ files \in [Names -> Contents]
      /\ pc \in 0..Length /\ past \in Pasts /\ \A i \in Inputs : src[i] <= past.edits
  BY DEF PublishTyped, PublishTypeOK, Length, ToolSteps, Pasts
<1>2. tool' = tool /\ Length' = Length
  BY PublishActions, SameTool
<1>3. /\ past.runs \in 0..MaxRuns /\ past.faults \in 0..MaxToolFaults /\ past.edits \in 0..MaxEdits
      /\ past.killed \in BOOLEAN /\ past.returned \in BOOLEAN
  BY <1>1 DEF Pasts
<1>4. SUFFICES /\ src' \in Versions /\ mem' \in Versions /\ files' \in [Names -> Contents]
               /\ pc' \in 0..Length /\ past' \in Pasts /\ \A i \in Inputs : src'[i] <= past'.edits
  BY <1>1, <1>2 DEF PublishTyped, PublishTypeOK, Length, ToolSteps, Pasts
<1>5. CASE StartTool
  <2>1. past' = [past EXCEPT !.runs = past.runs + 1] /\ past.runs + 1 \in 0..MaxRuns
    BY <1>3, <1>5 DEF StartTool
  <2>2. past' \in Pasts /\ past'.edits = past.edits
    BY <1>1, <2>1 DEF Pasts
  <2>3. pc' \in 0..Length
    BY <1>1, <1>5, ToolKinds DEF StartTool, Pos
  <2>4. QED
    BY <1>1, <1>5, <2>2, <2>3, VersionsKept DEF StartTool
<1>6. CASE Run
  <2>1. /\ pc \in Pos /\ Shape(Step) /\ src' = src /\ mem' = Reads(Step)
        /\ pc' = (IF pc = Length THEN 0 ELSE pc + 1) /\ files' \in [Names -> Contents]
    BY <1>6, RunFacts
  <2>2. mem' \in Versions
    BY <2>1, ReadsTyped DEF PublishTyped
  <2>3. Length \in Nat
    BY <1>1, ToolKinds
  <2>4. pc' \in 0..Length
    BY <1>1, <2>1, <2>3 DEF Pos
  <2>5. past' = [past EXCEPT !.returned = past'.returned] /\ past'.returned \in BOOLEAN
    BY <1>1, <1>6 DEF Run, Pasts
  <2>6. past' \in Pasts /\ past'.edits = past.edits
    BY <1>1, <2>5 DEF Pasts
  <2>7. QED
    BY <1>1, <2>1, <2>2, <2>4, <2>6
<1>7. CASE Raise
  <2>1. \/ past' = past
        \/ past' = [past EXCEPT !.faults = past.faults + 1] /\ past.faults + 1 \in 0..MaxToolFaults
    BY <1>3, <1>7 DEF Raise
  <2>2. past' \in Pasts /\ past'.edits = past.edits
    BY <1>1, <2>1 DEF Pasts
  <2>3. files' \in [Names -> Contents]
    BY <1>1, <1>7, VersionsKept DEF Raise, CleanUp
  <2>4. pc' \in 0..Length
    BY <1>1, <1>7, ToolKinds DEF Raise
  <2>5. QED
    BY <1>1, <1>7, <2>2, <2>3, <2>4 DEF Raise
<1>8. CASE KillTool
  <2>1. /\ past' = [past EXCEPT !.faults = past.faults + 1, !.killed = TRUE]
        /\ past.faults + 1 \in 0..MaxToolFaults /\ TRUE \in BOOLEAN
    BY <1>3, <1>8 DEF KillTool
  <2>2. past' \in Pasts /\ past'.edits = past.edits
    BY <1>1, <2>1 DEF Pasts
  <2>3. pc' \in 0..Length
    BY <1>1, <1>8, ToolKinds DEF KillTool
  <2>4. QED
    BY <1>1, <1>8, <2>2, <2>3 DEF KillTool
<1>9. ASSUME NEW i \in Used, Edit(i)
      PROVE  /\ src' \in Versions /\ mem' \in Versions /\ files' \in [Names -> Contents]
             /\ pc' \in 0..Length /\ past' \in Pasts /\ \A j \in Inputs : src'[j] <= past'.edits
  <2>1. past' = [past EXCEPT !.edits = past.edits + 1] /\ past.edits + 1 \in 0..MaxEdits
    BY <1>3, <1>9 DEF Edit
  <2>2. past' \in Pasts /\ past'.edits = past.edits + 1
    BY <1>1, <2>1 DEF Pasts
  <2>3. i \in Inputs
    BY DEF Used
  <2>4. src' = [src EXCEPT ![i] = src[i] + 1] /\ src[i] + 1 \in 0..MaxEdits
    BY <1>1, <1>3, <1>9, <2>1, <2>3 DEF Edit, Versions
  <2>5. src' \in Versions
    BY <1>1, <2>4 DEF Versions
  <2>6. \A j \in Inputs : src[j] \in Nat /\ src'[j] = IF j = i THEN src[i] + 1 ELSE src[j]
    BY <1>1, <2>4 DEF Versions
  <2>7. \A j \in Inputs : src'[j] <= past'.edits
    BY <1>1, <1>3, <2>2, <2>3, <2>6
  <2>8. QED
    BY <1>1, <1>9, <2>2, <2>5, <2>7 DEF Edit
<1>10. QED
  BY <1>5, <1>6, <1>7, <1>8, <1>9, PublishActions

LEMMA ClearStep ==
    ASSUME PublishTyped, Clear, PublishNext
    PROVE  Clear'
<1>1. tool' = tool /\ Used' = Used
  BY PublishActions, SameTool
<1>2. SUFFICES ASSUME NEW i \in Inputs \ Used
               PROVE  /\ src'[i] = 0 /\ mem'[i] = 0
                      /\ \A n \in Names : files'[n].holds[i] = 0 /\ files'[n].claims[i] = 0
  BY <1>1 DEF Clear
<1>3. /\ src[i] = 0 /\ mem[i] = 0 /\ i \in Inputs
      /\ \A n \in Names : files[n].holds[i] = 0 /\ files[n].claims[i] = 0
  BY <1>2 DEF Clear
<1>4. Zero[i] = 0 /\ Absent.holds = Zero /\ Absent.claims = Zero
  BY <1>3 DEF Zero, Absent
<1>5. CASE StartTool
  BY <1>3, <1>4, <1>5 DEF StartTool
<1>6. CASE Run
  <2>1. /\ pc \in Pos /\ Step = ToolSteps[pc] /\ Shape(Step) /\ src' = src
        /\ mem' = Reads(Step) /\ files' = Writes(Step) /\ files \in [Names -> Contents]
    BY <1>6, RunFacts
  <2>2. Reading(Step) => i \notin Step.ins
    BY <1>2, <1>3, <2>1 DEF Used, Reading, Pos, Length
  <2>3. mem'[i] = 0
    BY <1>3, <2>1, <2>2 DEF Reads, Reading, Shape
  <2>4. ASSUME NEW n \in Names
        PROVE  files'[n].holds[i] = 0 /\ files'[n].claims[i] = 0
    <3>1. CASE ~Touches(Step, n)
      BY <1>3, <2>1, <3>1, Untouched
    <3>2. CASE Step.op = "make" /\ Step.name = n
      <4>1. files'[n] = [is |-> "torn", holds |-> Zero, claims |-> Zero]
        BY <2>1, <3>2, WritesMake
      <4>2. QED
        BY <1>4, <4>1
    <3>3. CASE Step.op = "store" /\ Step.name = n
      <4>1. files'[n].claims = mem /\ files'[n].holds[i] = IF i \in Step.ins THEN mem[i] ELSE 0
        BY <1>3, <2>1, <3>3, WritesStore
      <4>2. QED
        BY <1>3, <4>1
    <3>4. CASE Step.op = "fill" /\ Step.name = n
      <4>1. /\ files'[n].claims = mem
            /\ files'[n].holds[i] = IF i \in Step.ins THEN src[i] ELSE IF Step.part = "none" THEN 0
                                    ELSE files[Step.part].holds[i]
        BY <1>3, <2>1, <3>4, WritesFill
      <4>2. Step.part \in Names \cup {"none"}
        BY <2>1, <3>4 DEF Shape
      <4>3. QED
        BY <1>3, <4>1, <4>2
    <3>5. CASE Step.op = "seal" /\ Step.name = n
      <4>1. /\ files'[n].holds = files[Step.of].holds /\ Step.of \in Names
            /\ files'[n].claims = [j \in Inputs |-> IF j \in Step.again THEN src[j] ELSE mem[j]]
        BY <2>1, <3>5, WritesSeal DEF Shape
      <4>2. QED
        BY <1>3, <4>1
    <3>6. CASE Step.op = "move" /\ n = Step.to
      <4>1. files'[n] = files[Step.name] /\ Step.name \in Names
        BY <2>1, <3>6, WritesMove DEF Shape
      <4>2. QED
        BY <1>3, <4>1
    <3>7. CASE Step.op \in {"move", "drop"} /\ n = Step.name
      <4>1. files'[n] = Absent
        BY <2>1, <3>7, WritesMove, WritesDrop
      <4>2. QED
        BY <1>4, <4>1
    <3>8. QED
      BY <3>1, <3>2, <3>3, <3>4, <3>5, <3>6, <3>7 DEF Touches
  <2>5. QED
    BY <1>3, <2>1, <2>3, <2>4
<1>7. CASE Raise
  <2>1. \A n \in Names : files'[n] = files[n] \/ files'[n] = Absent
    BY <1>7 DEF Raise, CleanUp
  <2>2. QED
    BY <1>3, <1>4, <1>7, <2>1 DEF Raise
<1>8. CASE KillTool
  BY <1>3, <1>8 DEF KillTool
<1>9. ASSUME NEW j \in Used, Edit(j)
      PROVE  src'[i] = 0 /\ mem' = mem /\ files' = files
  BY <1>2, <1>3, <1>9 DEF Edit, PublishTyped, PublishTypeOK, Versions
<1>10. QED
  BY <1>3, <1>5, <1>6, <1>7, <1>8, <1>9, PublishActions

-----------------------------------------------------------------------------
(* A step of a tool that refuses to write over what it has published.      *)

LEMMA RefusingFacts ==
    ASSUME PublishInv, tool \in Refusing, Run
    PROVE  /\ Laid /\ Guarded(Step, pc) /\ OutputOf(Step, pc) /\ RecordOf(Step, pc)
           /\ Arranged(pc) /\ Archived(pc) /\ Authorized(pc) /\ pc \in Nat
<1>1. pc \in Pos /\ Step = ToolSteps[pc] /\ tool \in Tools /\ pc # 0
  BY RunFacts DEF PublishInv, PublishTyped, PublishTypeOK, Run
<1>2. Arrangement
  BY <1>1, ToolKinds, KindsApart
<1>3. QED
  BY <1>1, <1>2 DEF Arrangement, PublishInv, Underway, Stepping, Pos

LEMMA QuietStep ==
    ASSUME NEW s, s.op \in {"refuse", "pin", "load", "match", "audit"}
    PROVE  Writes(s) = files
  BY DEF Writes

\* The refusal passes only where there is nothing to lose.
LEMMA GuardPasses ==
    ASSUME PublishInv, tool \in Refusing, Run, pc = Places[tool].guard
    PROVE  /\ ~FileIs("out", "whole") /\ ~past.returned /\ files' = files
           /\ tool \in Recorded => ~FileIs("record", "whole")
<1>1. /\ Step.op = "refuse" /\ Passes(Step) /\ files' = Writes(Step)
      /\ (IF tool \in InDirectory THEN "dir" ELSE "out") \in Step.names
  BY RefusingFacts, RunFacts DEF Guarded, PublishInv
<1>2. files' = files
  BY <1>1, QuietStep
<1>3. \A n \in Step.names : files[n].is = "absent"
  BY <1>1 DEF Passes
<1>4. FileIs("out", "absent")
  <2>1. CASE tool \in InDirectory
    BY <1>1, <1>3, <2>1 DEF PublishInv, Enclosed, FileIs
  <2>2. CASE tool \notin InDirectory
    BY <1>1, <1>3, <2>2 DEF FileIs
  <2>3. QED
    BY <2>1, <2>2
<1>5. QED
  BY <1>2, <1>4, KindsApart DEF PublishInv, RecordTrue, PublishedStays, FileIs

LEMMA ArrangedRun ==
    ASSUME PublishInv, tool \in Refusing, Run, NEW k, k = pc
    PROVE  Arranged(k + 1)'
<1>. DEFINE m == Places[tool]
<1>1. /\ Laid /\ Guarded(Step, k) /\ OutputOf(Step, k) /\ RecordOf(Step, k)
      /\ Arranged(k) /\ Archived(k) /\ Authorized(k) /\ k \in Nat
  BY RefusingFacts
<1>2. /\ Shape(Step) /\ Passes(Step) /\ tool' = tool /\ src' = src /\ mem' = Reads(Step)
      /\ files' = Writes(Step) /\ files \in [Names -> Contents]
  BY RunFacts DEF PublishInv
<1>3. m.guard \in Nat /\ m.dir \in Nat /\ m.done \in Nat /\ m.checked \in Nat /\ m.signed \in Nat
  BY <1>1 DEF Laid
<1>4. "out" \in Names /\ "record" \in Names /\ "dir" \in Names /\ "tmp" \in Names
  BY DEF Names
<1>5. \A n \in Names : ~Touches(Step, n) => files'[n] = files[n]
  BY <1>2, Untouched
<1>6. Step.op = "make" => files'[Step.name].is = "torn"
  BY <1>2, WritesMake DEF Shape
<1>7. ASSUME tool \in Recorded, m.guard < k + 1, k + 1 <= m.signed
      PROVE  files'["record"].is # "whole"
  <2>1. CASE k = m.guard
    BY <1>7, <2>1, GuardPasses DEF FileIs
  <2>2. CASE m.guard < k
    <3>1. files["record"].is # "whole"
      BY <1>1, <1>3, <1>7, <2>2 DEF Arranged, FileIs
    <3>2. Touches(Step, "record") => Step.op = "make" /\ Step.name = "record"
      BY <1>1, <1>3, <1>7 DEF RecordOf, Touches
    <3>3. QED
      BY <1>4, <1>5, <1>6, <3>1, <3>2
  <2>3. QED
    BY <1>1, <1>3, <1>7, <2>1, <2>2
<1>8. ASSUME m.dir < k + 1
      PROVE  files'["dir"].is # "absent"
  <2>1. k = m.dir => Step.op = "make" /\ Step.name = "dir"
    BY <1>1 DEF Guarded
  <2>2. m.dir < k => files["dir"].is # "absent"
    BY <1>1 DEF Arranged, FileIs
  <2>3. Touches(Step, "dir") => Step.op = "make" /\ Step.name = "dir"
    BY <1>1 DEF Guarded, Touches
  <2>4. QED
    BY <1>1, <1>3, <1>4, <1>5, <1>6, <1>8, <2>1, <2>2, <2>3
<1>9. ASSUME m.done < k + 1
      PROVE  files'["out"].is = "whole"
  <2>1. CASE m.done < k
    <3>1. files["out"].is = "whole"
      BY <1>1, <2>1 DEF Arranged, FileIs
    <3>2. ~Touches(Step, "out")
      BY <1>1, <1>3, <2>1 DEF OutputOf
    <3>3. QED
      BY <1>4, <1>5, <3>1, <3>2
  <2>2. CASE k = m.done /\ Step.op = "fill" /\ Step.name = "out"
    BY <1>2, <2>2, WritesFill
  <2>3. CASE /\ k = m.done /\ tool = "release_archive"
             /\ Step.op = "move" /\ Step.name = "tmp" /\ Step.to = "out"
    <3>1. k = 6
      BY <2>3 DEF Places, Marks
    <3>2. files["tmp"].is = "whole"
      BY <1>1, <2>3, <3>1 DEF Archived, FileIs
    <3>3. QED
      BY <1>2, <2>3, <3>2, WritesMove
  <2>4. QED
    BY <1>1, <1>3, <1>9, <2>1, <2>2, <2>3 DEF OutputOf
<1>10. ASSUME m.signed < k + 1, tool \in Recorded
       PROVE  files'["record"].is = "whole"
  <2>1. CASE m.signed < k
    <3>1. files["record"].is = "whole"
      BY <1>1, <1>10, <2>1 DEF Arranged, FileIs
    <3>2. ~Touches(Step, "record")
      BY <1>1, <1>3, <2>1 DEF RecordOf
    <3>3. QED
      BY <1>4, <1>5, <3>1, <3>2
  <2>2. CASE k = m.signed /\ Step.op = "seal" /\ Step.name = "record"
    BY <1>2, <2>2, WritesSeal
  <2>3. CASE /\ k = m.signed /\ tool = "dualboot_assets"
             /\ Step.op = "move" /\ Step.name = "tmp" /\ Step.to = "record"
    <3>1. k = 9
      BY <2>3 DEF Places, Marks
    <3>2. files["tmp"].is = "whole"
      BY <1>1, <2>3, <3>1 DEF Authorized, FileIs
    <3>3. QED
      BY <1>2, <2>3, <3>2, WritesMove
  <2>4. QED
    BY <1>1, <1>3, <1>10, <2>1, <2>2, <2>3 DEF RecordOf
<1>11. ASSUME m.checked < k + 1, k + 1 <= m.signed, NEW i \in Once
       PROVE  files'["out"].holds[i] = mem'[i]
  <2>1. i \in Inputs /\ i \notin ReadAgain /\ (i \notin Used => mem'[i] = 0 /\ files'["out"].holds[i] = 0)
    <3>1. PublishNext /\ Used' = Used
      BY <1>2, SameTool DEF PublishNext
    <3>2. Clear'
      BY <3>1, ClearStep DEF PublishInv
    <3>3. QED
      BY <1>4, <3>1, <3>2 DEF Clear, Once
  <2>2. CASE m.checked < k
    <3>1. files["out"].holds[i] = mem[i]
      BY <1>1, <1>3, <1>11, <2>2 DEF Arranged
    <3>2. ~Touches(Step, "out") /\ Step.op \notin {"pin", "load", "audit"}
      BY <1>1, <1>3, <2>2 DEF OutputOf, Laid
    <3>3. mem' = mem
      BY <1>2, <3>2 DEF Reads
    <3>4. QED
      BY <1>4, <1>5, <3>1, <3>2, <3>3
  <2>3. CASE Step.op = "match" /\ Step.name = "out" /\ Used \ ReadAgain \subseteq Step.ins
    <3>1. files' = files /\ mem' = mem
      BY <1>2, <2>3, QuietStep DEF Reads
    <3>2. i \in Used => files["out"].holds[i] = mem[i]
      BY <1>2, <2>1, <2>3 DEF Passes
    <3>3. QED
      BY <2>1, <3>1, <3>2
  <2>4. CASE Used \subseteq ReadAgain
    BY <2>1, <2>4
  <2>5. CASE /\ k = m.checked /\ tool = "release_archive" /\ Step.op = "pin"
             /\ Used \ ReadAgain \subseteq Step.ins
    <3>1. k = 7
      BY <2>5 DEF Places, Marks
    <3>2. files["out"].holds[i] <= src[i]
      BY <1>1, <2>1, <2>5, <3>1 DEF Archived
    <3>3. i \in Used => src[i] = 0 /\ mem'[i] = src[i]
      BY <1>2, <2>1, <2>5 DEF Passes, Reads
    <3>4. files' = files
      BY <1>2, <2>5, QuietStep
    <3>5. files["out"].holds[i] \in Nat
      BY <1>2, <1>4, <2>1 DEF Contents, Versions
    <3>6. QED
      BY <2>1, <3>2, <3>3, <3>4, <3>5
  <2>6. QED
    BY <1>1, <1>3, <1>11, <2>2, <2>3, <2>4, <2>5 DEF OutputOf
<1>12. /\ tool \in Recorded /\ m.guard < k + 1 /\ k + 1 <= m.signed => files'["record"].is # "whole"
       /\ m.dir < k + 1 => files'["dir"].is # "absent"
       /\ m.done < k + 1 => files'["out"].is = "whole"
       /\ m.signed < k + 1 /\ tool \in Recorded => files'["record"].is = "whole"
       /\ m.checked < k + 1 /\ k + 1 <= m.signed =>
             \A i \in Once : files'["out"].holds[i] = mem'[i]
  BY <1>7, <1>8, <1>9, <1>10, <1>11
<1>13. tool' = tool /\ Once' = Once
  BY <1>2, SameTool
<1>14. QED
  BY ONLY <1>12, <1>13 DEF Arranged, FileIs

LEMMA ArchivedRun ==
    ASSUME PublishInv, Run, NEW k, k = pc
    PROVE  Archived(k + 1)'
<1>1. /\ Shape(Step) /\ Passes(Step) /\ tool' = tool /\ src' = src /\ pc \in Nat
      /\ files' = Writes(Step) /\ files \in [Names -> Contents] /\ Step = ToolSteps[pc]
  BY RunFacts DEF PublishInv, Pos
<1>2. SUFFICES ASSUME tool = "release_archive"
               PROVE  /\ k + 1 = 6 => FileIs("tmp", "whole")'
                                      /\ \A i \in Inputs : files'["tmp"].holds[i] <= src'[i]
                      /\ k + 1 = 7 => \A i \in Inputs : files'["out"].holds[i] <= src'[i]
  BY <1>1 DEF Archived
<1>3. src \in Versions /\ Archived(pc)
  BY <1>1 DEF PublishInv, PublishTyped, PublishTypeOK, Underway, Stepping, Run
<1>4. ASSUME k = 5
      PROVE  files'["tmp"].is = "whole" /\ \A i \in Inputs : files'["tmp"].holds[i] <= src'[i]
  <2>1. /\ Step.op = "fill" /\ Step.name = "tmp" /\ Step.ins = {"root", "assets", "android"}
        /\ Step.part = "none"
    BY <1>1, <1>2, <1>4, ReleaseArchiveSteps DEF Fill
  <2>2. \A i \in Inputs : src[i] \in Nat
    BY <1>3 DEF Versions
  <2>3. /\ files'["tmp"].is = "whole"
        /\ \A i \in Inputs : files'["tmp"].holds[i] = IF i \in Step.ins THEN src[i] ELSE 0
    BY <1>1, <2>1, WritesFill
  <2>4. QED
    BY <1>1, <2>2, <2>3
<1>5. ASSUME k = 6
      PROVE  \A i \in Inputs : files'["out"].holds[i] <= src'[i]
  <2>1. Step.op = "move" /\ Step.name = "tmp" /\ Step.to = "out"
    BY <1>1, <1>2, <1>5, ReleaseArchiveSteps DEF Rename
  <2>2. files'["out"] = files["tmp"]
    BY <1>1, <2>1, WritesMove
  <2>3. QED
    BY <1>1, <1>2, <1>3, <1>5, <2>2 DEF Archived
<1>6. QED
  BY <1>1, <1>4, <1>5 DEF FileIs

LEMMA AuthorizedRun ==
    ASSUME PublishInv, Run, NEW k, k = pc
    PROVE  Authorized(k + 1)'
<1>1. /\ Shape(Step) /\ Passes(Step) /\ tool' = tool /\ mem' = Reads(Step) /\ pc \in Nat
      /\ files' = Writes(Step) /\ files \in [Names -> Contents] /\ Step = ToolSteps[pc]
  BY RunFacts DEF PublishInv, Pos
<1>2. SUFFICES ASSUME tool = "dualboot_assets"
               PROVE  /\ k + 1 = 9 => /\ files'["tmp"].is = "whole"
                                      /\ files'["tmp"].holds = files'["out"].holds
                                      /\ files'["tmp"].claims = mem'
                      /\ k + 1 = 10 => files'["record"].claims = mem'
  BY <1>1 DEF Authorized, FileIs
<1>3. mem \in Versions /\ Authorized(pc)
  BY <1>1 DEF PublishInv, PublishTyped, PublishTypeOK, Underway, Stepping, Run
<1>4. ASSUME k = 8
      PROVE  /\ files'["tmp"].is = "whole" /\ files'["tmp"].holds = files'["out"].holds
             /\ files'["tmp"].claims = mem'
  <2>1. /\ Step.op = "seal" /\ Step.name = "tmp" /\ Step.of = "out" /\ Step.again = {}
    BY <1>1, <1>2, <1>4, DualbootAssetsSteps DEF Seal
  <2>2. /\ files'["tmp"].is = "whole" /\ files'["tmp"].holds = files["out"].holds
        /\ files'["tmp"].claims = [i \in Inputs |-> IF i \in Step.again THEN src[i] ELSE mem[i]]
    BY <1>1, <2>1, WritesSeal
  <2>3. files'["out"] = files["out"]
    BY <1>1, <2>1, Untouched DEF Touches, Names
  <2>4. mem' = mem
    BY <1>1, <2>1 DEF Reads
  <2>5. [i \in Inputs |-> IF i \in Step.again THEN src[i] ELSE mem[i]] = mem
    BY <1>3, <2>1 DEF Versions
  <2>6. QED
    BY <2>2, <2>3, <2>4, <2>5
<1>5. ASSUME k = 9
      PROVE  files'["record"].claims = mem'
  <2>1. Step.op = "move" /\ Step.name = "tmp" /\ Step.to = "record"
    BY <1>1, <1>2, <1>5, DualbootAssetsSteps DEF Rename
  <2>2. files'["record"] = files["tmp"]
    BY <1>1, <2>1, WritesMove
  <2>3. mem' = mem
    BY <1>1, <2>1 DEF Reads
  <2>4. QED
    BY <1>2, <1>3, <1>5, <2>2, <2>3 DEF Authorized
<1>6. QED
  BY <1>1, <1>4, <1>5

\* A complete record after the step was completed by it, or is an old one of an output that
\* the step does not touch.
LEMMA RecordTrueRefusing ==
    ASSUME PublishInv, tool \in Refusing, Run
    PROVE  RecordTrue'
<1>. DEFINE m == Places[tool]
<1>1. /\ Laid /\ OutputOf(Step, pc) /\ RecordOf(Step, pc) /\ Arranged(pc) /\ Authorized(pc) /\ pc \in Nat
  BY RefusingFacts
<1>2. /\ Shape(Step) /\ tool' = tool /\ files' = Writes(Step) /\ files \in [Names -> Contents]
  BY RunFacts DEF PublishInv
<1>3. m.guard \in Nat /\ m.done \in Nat /\ m.checked \in Nat /\ m.signed \in Nat /\ m.done <= m.checked
      /\ m.done <= m.signed
  BY <1>1 DEF Laid
<1>4. "out" \in Names /\ "record" \in Names
  BY DEF Names
<1>5. \A n \in Names : ~Touches(Step, n) => files'[n] = files[n]
  BY <1>2, Untouched
<1>6. ReadAgain' = ReadAgain /\ tool \notin Renamed
  BY <1>2, SameTool, KindsApart
<1>7. SUFFICES ASSUME tool \in Recorded, files'["record"].is = "whole"
               PROVE  /\ files'["out"].is = "whole" /\ files'["record"].holds = files'["out"].holds
                      /\ tool # "dualboot_assets" =>
                            \A i \in Once : files'["record"].claims[i] = files'["out"].holds[i]
  BY <1>2, <1>6 DEF RecordTrue, Speaks, Once
<1>8. ASSUME ~Touches(Step, "out"), ~Touches(Step, "record")
      PROVE  /\ files'["out"].is = "whole" /\ files'["record"].holds = files'["out"].holds
             /\ tool # "dualboot_assets" =>
                   \A i \in Once : files'["record"].claims[i] = files'["out"].holds[i]
  <2>1. files'["out"] = files["out"] /\ files'["record"] = files["record"]
    BY <1>4, <1>5, <1>8
  <2>2. QED
    BY <1>7, <2>1 DEF PublishInv, RecordTrue, Speaks, Once
<1>9. CASE pc <= m.guard
  <2>1. ~Touches(Step, "out") /\ ~Touches(Step, "record")
    BY <1>1, <1>3, <1>9 DEF OutputOf, RecordOf
  <2>2. QED
    BY <1>8, <2>1
<1>10. CASE m.guard < pc /\ pc < m.signed
  <2>1. PICK k \in Nat : k = pc
    BY <1>1
  <2>2. Arranged(k + 1)'
    BY <2>1, ArrangedRun
  <2>3. m.guard < k + 1 /\ k + 1 <= m.signed
    BY <1>3, <1>10, <2>1
  <2>4. QED
    BY <1>2, <1>7, <2>2, <2>3 DEF Arranged, FileIs
<1>11. CASE m.signed < pc
  <2>1. ~Touches(Step, "out") /\ ~Touches(Step, "record")
    BY <1>1, <1>3, <1>11 DEF OutputOf, RecordOf
  <2>2. QED
    BY <1>8, <2>1
<1>12. CASE pc = m.signed
  <2>1. CASE Step.op = "seal" /\ Step.name = "record" /\ Step.of = "out" /\ Step.again \subseteq ReadAgain
             /\ m.checked < pc
    <3>1. /\ files'["record"].holds = files["out"].holds
          /\ files'["record"].claims = [i \in Inputs |-> IF i \in Step.again THEN src[i] ELSE mem[i]]
      BY <1>2, <2>1, WritesSeal
    <3>2. files'["out"] = files["out"]
      BY <1>4, <1>5, <2>1 DEF Touches
    <3>3. files["out"].is = "whole" /\ \A i \in Once : files["out"].holds[i] = mem[i]
      BY <1>1, <1>3, <1>12, <2>1 DEF Arranged, FileIs
    <3>4. \A i \in Once : i \in Inputs /\ i \notin Step.again
      BY <2>1 DEF Once
    <3>5. QED
      BY <3>1, <3>2, <3>3, <3>4
  <2>2. CASE tool = "dualboot_assets" /\ Step.op = "move" /\ Step.name = "tmp" /\ Step.to = "record"
    <3>1. pc = 9 /\ m.done = 6
      BY <1>12, <2>2 DEF Places, Marks
    <3>2. files'["record"] = files["tmp"] /\ files'["out"] = files["out"]
      BY <1>2, <1>4, <1>5, <2>2, WritesMove DEF Touches
    <3>3. files["out"].is = "whole"
      BY <1>1, <3>1 DEF Arranged, FileIs
    <3>4. QED
      BY <1>1, <2>2, <3>1, <3>2, <3>3 DEF Authorized
  <2>3. QED
    BY <1>1, <1>7, <1>12, <2>1, <2>2 DEF RecordOf
<1>13. QED
  BY <1>1, <1>3, <1>9, <1>10, <1>11, <1>12

LEMMA PublishedStaysRefusing ==
    ASSUME PublishInv, tool \in Refusing, Run
    PROVE  PublishedStays'
<1>. DEFINE m == Places[tool]
<1>1. /\ Laid /\ Guarded(Step, pc) /\ pc \in Nat
  BY RefusingFacts
<1>2. /\ Shape(Step) /\ Passes(Step) /\ tool' = tool /\ files' = Writes(Step) /\ pc \in Pos
      /\ files \in [Names -> Contents] /\ Step = ToolSteps[pc]
  BY RunFacts DEF PublishInv
<1>3. m.guard \in Nat /\ m.done <= Length /\ m.signed <= Length /\ Length \in Nat
      /\ m.done \in Nat /\ m.signed \in Nat
  BY <1>1 DEF Laid
<1>4. ReadAgain' = ReadAgain
  BY <1>2, SameTool
<1>5. CASE past.returned
  <2>1. pc <= m.guard
    BY <1>1, <1>3, <1>5 DEF PublishInv, Unpublished
  <2>2. Step.op \in {"refuse", "pin", "load"}
    BY <1>1, <2>1 DEF Guarded
  <2>3. files' = files
    BY <1>2, <2>2, QuietStep
  <2>4. QED
    BY <1>2, <1>4, <1>5, <2>3 DEF PublishInv, PublishedStays, Speaks
<1>6. CASE pc = Length
  <2>1. PICK k \in Nat : k = pc
    BY <1>1
  <2>2. Arranged(k + 1)'
    BY <2>1, ArrangedRun
  <2>3. files'["out"].is = "whole" /\ (tool \in Recorded => files'["record"].is = "whole")
    BY <1>2, <1>3, <1>6, <2>1, <2>2 DEF Arranged, FileIs
  <2>4. CASE tool # "dualboot_assets"
    BY <1>2, <2>3, <2>4, RecordTrueRefusing DEF PublishedStays, RecordTrue
  <2>5. CASE tool = "dualboot_assets"
    <3>1. pc = 10 /\ Step = Match("out", {"android", "ubuntu"}) /\ Used \subseteq {"android", "ubuntu"}
      <4>1. Len(ToolSteps) = 10 /\ Length = 10 /\ ToolSteps[10] = Match("out", {"android", "ubuntu"})
        BY <2>5, DualbootAssetsSteps DEF Length
      <4>2. ASSUME NEW j \in Pos, Reading(ToolSteps[j])
            PROVE  ToolSteps[j].ins \subseteq {"android", "ubuntu"}
        <5>1. j \in {1, 2, 3, 4, 5, 6, 7, 8, 9, 10}
          BY <4>1 DEF Pos
        <5>2. QED
          BY <2>5, <4>2, <5>1, DualbootAssetsSteps
             DEF Reading, RefuseOver, Pin, Load, Make, Fill, Match, Seal, Rename
      <4>3. QED
        BY <1>2, <1>6, <4>1, <4>2, UsedBound
    <3>2. files' = files
      BY <1>2, <3>1, QuietStep DEF Match
    <3>3. files["record"].claims = mem
      BY <1>1, <2>5, <3>1, RefusingFacts DEF Authorized
    <3>4. \A i \in {"android", "ubuntu"} : files["out"].holds[i] = mem[i]
      BY <1>2, <3>1 DEF Passes, Match
    <3>5. \A i \in Inputs \ Used : files["out"].holds[i] = 0 /\ mem[i] = 0
      BY DEF PublishInv, Clear, Names
    <3>6. \A i \in Inputs : files'["record"].claims[i] = files'["out"].holds[i]
      BY <3>1, <3>2, <3>3, <3>4, <3>5
    <3>7. QED
      BY <1>2, <2>3, <3>6 DEF PublishedStays, Speaks
  <2>6. QED
    BY <2>4, <2>5
<1>7. CASE ~past.returned /\ pc # Length
  <2>1. past' = [past EXCEPT !.returned = past.returned \/ pc = Length] /\ past \in Pasts
    BY DEF Run, Length, PublishInv, PublishTyped, PublishTypeOK, Pasts
  <2>2. past'.returned = FALSE
    BY <1>7, <2>1 DEF Pasts
  <2>3. QED
    BY <2>2 DEF PublishedStays
<1>8. QED
  BY <1>5, <1>6, <1>7

LEMMA GuardedRun ==
    ASSUME PublishInv, tool \in Refusing, Run
    PROVE  Unpublished' /\ Enclosed'
<1>. DEFINE m == Places[tool]
<1>1. /\ Laid /\ Guarded(Step, pc) /\ pc \in Nat /\ Arranged(pc)
  BY RefusingFacts
<1>2. /\ Shape(Step) /\ tool' = tool /\ files' = Writes(Step) /\ pc \in Pos
      /\ files \in [Names -> Contents] /\ pc' = IF pc = Length THEN 0 ELSE pc + 1
  BY RunFacts DEF PublishInv
<1>3. m.guard \in Nat /\ m.dir \in Nat
  BY <1>1 DEF Laid
<1>4. Unpublished'
  <2>1. SUFFICES ASSUME pc' > m.guard
                 PROVE  ~past'.returned
    BY <1>2 DEF Unpublished
  <2>2. pc # Length /\ m.guard <= pc
    BY <1>1, <1>2, <1>3, <2>1
  <2>3. ~past.returned
    BY <1>1, <1>3, <2>2, GuardPasses DEF PublishInv, Unpublished
  <2>4. past' = [past EXCEPT !.returned = past.returned \/ pc = Length] /\ past \in Pasts
    BY DEF Run, Length, PublishInv, PublishTyped, PublishTypeOK, Pasts
  <2>5. past'.returned = FALSE
    BY <2>2, <2>3, <2>4 DEF Pasts
  <2>6. QED
    BY <2>5
<1>5. Enclosed'
  <2>1. SUFFICES ASSUME tool \in InDirectory, files'["dir"].is = "absent"
                 PROVE  files'["out"].is = "absent" /\ files'["record"].is = "absent"
    BY <1>2 DEF Enclosed, FileIs
  <2>2. "out" \in Names /\ "record" \in Names /\ "dir" \in Names
    BY DEF Names
  <2>3. \A n \in Names : ~Touches(Step, n) => files'[n] = files[n]
    BY <1>2, Untouched
  <2>4. ~Touches(Step, "dir")
    <3>1. Touches(Step, "dir") => Step.op = "make" /\ Step.name = "dir"
      BY <1>1 DEF Guarded, Touches
    <3>2. Step.op = "make" => files'[Step.name].is = "torn"
      BY <1>2, WritesMake DEF Shape
    <3>3. QED
      BY <2>1, <3>1, <3>2
  <2>5. files["dir"].is = "absent"
    BY <2>1, <2>2, <2>3, <2>4
  <2>6. ~(m.dir < pc)
    BY <1>1, <2>5 DEF Arranged, FileIs
  <2>7. ~Touches(Step, "out") /\ ~Touches(Step, "record")
    BY <1>1, <2>1, <2>6 DEF Guarded
  <2>8. QED
    BY <2>1, <2>2, <2>3, <2>5, <2>7 DEF PublishInv, Enclosed, FileIs
<1>6. QED
  BY <1>4, <1>5

-----------------------------------------------------------------------------
(* A step of a tool that replaces its output.                              *)

LEMMA RenamedFacts ==
    ASSUME PublishInv, tool \in Renamed, Run
    PROVE  /\ Replacement /\ Replaced(Step, pc) /\ Replacing(pc) /\ pc \in Nat
           /\ tool \notin Recorded /\ tool \notin Refusing
<1>1. pc \in Pos /\ Step = ToolSteps[pc] /\ tool \in Tools /\ pc # 0
  BY RunFacts DEF PublishInv, PublishTyped, PublishTypeOK, Run
<1>2. Replacement
  BY <1>1, ToolKinds, KindsApart
<1>3. QED
  BY <1>1, <1>2, KindsApart DEF Replacement, PublishInv, Underway, Stepping, Pos

LEMMA ReplacingRun ==
    ASSUME PublishInv, tool \in Renamed, Run, NEW k, k = pc
    PROVE  Replacing(k + 1)'
<1>. DEFINE p == Placed[tool]
<1>1. Replacement /\ Replaced(Step, k) /\ Replacing(k) /\ k \in Nat
  BY RenamedFacts
<1>2. /\ Shape(Step) /\ Passes(Step) /\ tool' = tool /\ src' = src /\ mem' = Reads(Step)
      /\ files' = Writes(Step) /\ files \in [Names -> Contents] /\ files' \in [Names -> Contents]
  BY RunFacts DEF PublishInv
<1>3. /\ p \in Nat
      /\ tool = "waydroid_modules" => p = 8
      /\ tool = "camera_assets" => p = 6
  BY <1>1 DEF Replacement
<1>4. "out" \in Names /\ "tmp" \in Names /\ Once' = Once
  BY <1>2, SameTool DEF Names
<1>5. \A i \in Once : i \in Inputs /\ i \notin ReadAgain
  BY DEF Once
<1>6. \A i \in Inputs \ Used : mem'[i] = 0 /\ files'["tmp"].holds[i] = 0 /\ files'["tmp"].claims[i] = 0
  <2>1. PublishNext /\ Used' = Used
    BY <1>2, SameTool DEF PublishNext
  <2>2. Clear'
    BY <2>1, ClearStep DEF PublishInv
  <2>3. QED
    BY <1>4, <2>1, <2>2 DEF Clear
<1>7. ASSUME tool \in {"waydroid_modules", "camera_assets"}, k + 1 = p - 1, NEW i \in Once
      PROVE  files'["tmp"].holds[i] = mem'[i]
  <2>1. CASE tool = "waydroid_modules"
    <3>1. Step.op = "audit" /\ Step.name = "tmp" /\ Used \subseteq Step.ins
      BY <1>1, <1>3, <1>7, <2>1 DEF Replaced
    <3>2. files' = files /\ (i \in Used => mem'[i] = files["tmp"].holds[i])
      BY <1>2, <1>5, <3>1, QuietStep DEF Reads
    <3>3. QED
      BY <1>5, <1>6, <3>2
  <2>2. CASE tool = "camera_assets"
    <3>1. Step.op = "store" /\ Step.name = "tmp" /\ Used \subseteq Step.ins
      BY <1>1, <1>3, <1>7, <2>2 DEF Replaced
    <3>2. mem' = mem /\ (i \in Used => files'["tmp"].holds[i] = mem[i])
      BY <1>2, <1>5, <3>1, WritesStore DEF Reads
    <3>3. QED
      BY <1>5, <1>6, <3>2
  <2>3. QED
    BY <1>7, <2>1, <2>2
<1>8. ASSUME k + 1 = p
      PROVE  /\ files'["tmp"].is = "whole"
             /\ \A i \in Once : files'["tmp"].claims[i] = files'["tmp"].holds[i]
  <2>1. k = p - 1
    BY <1>1, <1>3, <1>8
  <2>2. CASE Step.op = "store" /\ Step.name = "tmp" /\ Used \ ReadAgain \subseteq Step.ins
    <3>1. /\ files'["tmp"].is = "whole" /\ files'["tmp"].claims = mem
          /\ \A i \in Inputs : files'["tmp"].holds[i] = IF i \in Step.ins THEN mem[i] ELSE 0
      BY <1>2, <2>2, WritesStore
    <3>2. \A i \in Once : i \in Used => i \in Step.ins
      BY <1>5, <2>2
    <3>3. QED
      BY <1>5, <1>6, <3>1, <3>2
  <2>3. CASE Step.op = "fill" /\ Step.name = "tmp" /\ Used \subseteq ReadAgain
    <3>1. files'["tmp"].is = "whole"
      BY <1>2, <2>3, WritesFill
    <3>2. QED
      BY <1>5, <1>6, <2>3, <3>1
  <2>4. CASE /\ tool \in {"waydroid_modules", "camera_assets"}
             /\ Step.op = "seal" /\ Step.name = "tmp" /\ Step.of = "tmp" /\ Step.again = {}
    <3>1. /\ files'["tmp"].is = "whole" /\ files'["tmp"].holds = files["tmp"].holds
          /\ files'["tmp"].claims = [i \in Inputs |-> IF i \in Step.again THEN src[i] ELSE mem[i]]
      BY <1>2, <2>4, WritesSeal
    <3>2. \A i \in Once : files["tmp"].holds[i] = mem[i]
      <4>1. (tool = "waydroid_modules" /\ k = 7) \/ (tool = "camera_assets" /\ k = 5)
        BY <1>3, <2>1, <2>4
      <4>2. QED
        BY <1>1, <4>1 DEF Replacing
    <3>3. QED
      BY <1>5, <2>4, <3>1, <3>2
  <2>5. QED
    BY <1>1, <2>1, <2>2, <2>3, <2>4 DEF Replaced
<1>9. ASSUME p < k + 1
      PROVE  files'["out"].is # "absent"
  <2>1. CASE k = p
    <3>1. Step.op = "move" /\ Step.name = "tmp" /\ Step.to = "out"
      BY <1>1, <2>1 DEF Replaced
    <3>2. files'["out"] = files["tmp"] /\ files["tmp"].is = "whole"
      BY <1>1, <1>2, <2>1, <3>1, WritesMove, RenamedFacts DEF Replacing, FileIs
    <3>3. QED
      BY <3>2
  <2>2. CASE p < k
    <3>1. ~Touches(Step, "out")
      BY <1>1, <1>3, <2>2 DEF Replaced
    <3>2. files'["out"] = files["out"] /\ files["out"].is # "absent"
      BY <1>1, <1>2, <1>4, <2>2, <3>1, Untouched, RenamedFacts DEF Replacing, FileIs
    <3>3. QED
      BY <3>2
  <2>3. QED
    BY <1>1, <1>3, <1>9, <2>1, <2>2
<1>10. /\ k + 1 = p => /\ files'["tmp"].is = "whole"
                       /\ \A i \in Once : files'["tmp"].claims[i] = files'["tmp"].holds[i]
       /\ (tool = "waydroid_modules" /\ k + 1 = 7) \/ (tool = "camera_assets" /\ k + 1 = 5) =>
             \A i \in Once : files'["tmp"].holds[i] = mem'[i]
       /\ p < k + 1 => files'["out"].is # "absent"
  BY <1>1, <1>3, <1>7, <1>8, <1>9
<1>11. QED
  BY ONLY <1>2, <1>4, <1>10 DEF Replacing, FileIs, Truthful

LEMMA RecordTrueRenamed ==
    ASSUME PublishInv, tool \in Renamed, Run
    PROVE  RecordTrue' /\ PublishedStays'
<1>. DEFINE p == Placed[tool]
<1>1. /\ Replacement /\ Replaced(Step, pc) /\ Replacing(pc) /\ pc \in Nat
      /\ tool \notin Recorded /\ tool \notin Refusing
  BY RenamedFacts
<1>2. /\ Shape(Step) /\ tool' = tool /\ files' = Writes(Step) /\ files \in [Names -> Contents]
  BY RunFacts DEF PublishInv
<1>3. ReadAgain' = ReadAgain /\ "out" \in Names /\ p \in Nat /\ p <= Length /\ Length \in Nat
  BY <1>1, <1>2, SameTool DEF Names, Replacement
<1>4. \/ files'["out"] = files["out"]
      \/ files'["out"] = files["tmp"] /\ files["tmp"].is = "whole" /\ Truthful(files["tmp"])
  <2>1. CASE ~Touches(Step, "out")
    BY <1>2, <1>3, <2>1, Untouched
  <2>2. CASE pc = p
    <3>1. Step.op = "move" /\ Step.name = "tmp" /\ Step.to = "out"
      BY <1>1, <2>2 DEF Replaced
    <3>2. QED
      BY <1>1, <1>2, <2>2, <3>1, WritesMove DEF Replacing, FileIs
  <2>3. QED
    BY <1>1, <2>1, <2>2 DEF Replaced
<1>5. files'["out"].is # "absent" => /\ files'["out"].is = "whole"
                                     /\ \A i \in Once : files'["out"].claims[i] = files'["out"].holds[i]
  BY <1>4 DEF PublishInv, RecordTrue, Speaks, Once, Truthful
<1>6. RecordTrue'
  BY <1>1, <1>2, <1>3, <1>5 DEF RecordTrue, Speaks, Once
<1>7. PublishedStays'
  <2>1. SUFFICES ASSUME past'.returned
                 PROVE  files'["out"].is # "absent"
    BY <1>1, <1>2, <1>5 DEF PublishedStays
  <2>2. CASE past.returned
    <3>1. files["out"].is = "whole"
      BY <2>2, KindsApart DEF PublishInv, PublishedStays
    <3>2. QED
      BY <1>4, <3>1
  <2>3. CASE ~past.returned
    <3>1. past' = [past EXCEPT !.returned = past.returned \/ pc = Length] /\ past \in Pasts
      BY DEF Run, Length, PublishInv, PublishTyped, PublishTypeOK, Pasts
    <3>2. pc = Length
      BY <2>1, <2>3, <3>1 DEF Pasts
    <3>3. PICK k \in Nat : k = pc
      BY <1>1
    <3>4. Replacing(k + 1)' /\ p < k + 1
      BY <1>3, <3>2, <3>3, ReplacingRun
    <3>5. QED
      BY <1>2, <3>4 DEF Replacing, FileIs
  <2>4. QED
    BY <2>2, <2>3
<1>8. QED
  BY <1>6, <1>7

-----------------------------------------------------------------------------
(* The invariant.                                                          *)

LEMMA PublishInvInit ==
    ASSUME PublishInit
    PROVE  PublishInv
<1>1. /\ pc = 0 /\ past.returned = FALSE /\ PublishTyped
      /\ \A n \in Names : files[n].is = "absent" /\ files[n].holds = Zero /\ files[n].claims = Zero
      /\ src = Zero /\ mem = Zero
  BY PublishTypedInit DEF PublishInit, Absent
<1>2. "out" \in Names /\ "record" \in Names /\ "absent" # "whole"
  BY DEF Names
<1>3. Clear
  BY <1>1 DEF Clear, Zero
<1>4. RecordTrue /\ PublishedStays
  BY <1>1, <1>2 DEF RecordTrue, PublishedStays
<1>5. Underway /\ Unpublished /\ Enclosed
  BY <1>1, <1>2 DEF Underway, Unpublished, Enclosed, FileIs
<1>6. QED
  BY <1>1, <1>3, <1>4, <1>5 DEF PublishInv

\* Between two steps the files are as they were.
LEMMA SameFiles ==
    ASSUME tool' = tool, files' = files, past'.returned = past.returned,
           RecordTrue, PublishedStays, Enclosed
    PROVE  RecordTrue' /\ PublishedStays' /\ Enclosed'
<1>1. ReadAgain' = ReadAgain
  BY SameTool
<1>2. RecordTrue' /\ PublishedStays'
  BY <1>1 DEF RecordTrue, PublishedStays, Speaks
<1>3. Enclosed'
  BY DEF Enclosed, FileIs
<1>4. QED
  BY <1>2, <1>3

LEMMA PublishInvStart ==
    ASSUME PublishInv, StartTool
    PROVE  Underway' /\ Unpublished' /\ Enclosed' /\ RecordTrue' /\ PublishedStays'
<1>1. tool' = tool /\ files' = files /\ pc' = 1 /\ past' = [past EXCEPT !.runs = past.runs + 1]
  BY DEF StartTool
<1>2. past'.returned = past.returned
  BY <1>1 DEF PublishInv, PublishTyped, PublishTypeOK
<1>3. RecordTrue' /\ PublishedStays' /\ Enclosed'
  BY <1>1, <1>2, SameFiles DEF PublishInv
<1>4. tool \in Tools
  BY DEF PublishInv, PublishTyped, PublishTypeOK
<1>5. CASE tool \in Refusing
  <2>1. Laid
    BY <1>4, <1>5, ToolKinds, KindsApart DEF Arrangement
  <2>2. Arranged(1)' /\ Unpublished'
    BY <1>1, <2>1 DEF Arranged, Unpublished, Laid
  <2>3. Archived(1)' /\ Authorized(1)' /\ Replacing(1)'
    BY <1>1, <1>5, KindsApart DEF Archived, Authorized, Replacing
  <2>4. QED
    BY <1>1, <1>3, <2>2, <2>3 DEF Underway, Stepping
<1>6. CASE tool \in Renamed
  <2>1. Replacement
    BY <1>4, <1>6, ToolKinds, KindsApart
  <2>2. Placed[tool] \in Nat /\ 4 <= Placed[tool]
    BY <2>1 DEF Replacement
  <2>3. Replacing(1)'
    BY <1>1, <2>2 DEF Replacing
  <2>4. Archived(1)' /\ Authorized(1)' /\ tool' \notin Refusing
    BY <1>1, <1>6, KindsApart DEF Archived, Authorized, Refusing, Places
  <2>5. QED
    BY <1>1, <1>3, <2>3, <2>4 DEF Underway, Stepping, Unpublished
<1>7. CASE tool \in InPlace
  <2>1. Archived(1)' /\ Authorized(1)' /\ Replacing(1)' /\ tool' \notin Refusing
    BY <1>1, <1>7, KindsApart DEF Archived, Authorized, Replacing
  <2>2. QED
    BY <1>1, <1>3, <2>1 DEF Underway, Stepping, Unpublished
<1>8. QED
  BY <1>4, <1>5, <1>6, <1>7, ToolKinds

LEMMA PublishInvRun ==
    ASSUME PublishInv, Run
    PROVE  Underway' /\ Unpublished' /\ Enclosed' /\ RecordTrue' /\ PublishedStays'
<1>1. /\ tool \in Tools /\ tool' = tool /\ pc \in Nat /\ pc' = IF pc = Length THEN 0 ELSE pc + 1
  BY RunFacts DEF PublishInv, PublishTyped, PublishTypeOK, Pos
<1>2. PICK k \in Nat : k = pc
  BY <1>1
<1>3. Archived(k + 1)' /\ Authorized(k + 1)'
  BY <1>2, ArchivedRun, AuthorizedRun
<1>4. CASE tool \in Refusing
  <2>1. Arranged(k + 1)'
    BY <1>2, <1>4, ArrangedRun
  <2>2. Replacing(k + 1)'
    BY <1>1, <1>4, KindsApart DEF Replacing
  <2>3. pc' # 0 => pc' = k + 1
    BY <1>1, <1>2
  <2>4. Underway'
    BY <1>1, <1>3, <2>1, <2>2, <2>3 DEF Underway, Stepping
  <2>5. QED
    BY <1>4, <2>4, GuardedRun, RecordTrueRefusing, PublishedStaysRefusing
<1>5. CASE tool \in Renamed
  <2>1. Replacing(k + 1)' /\ tool \notin Refusing /\ tool \notin InDirectory
    BY <1>2, <1>5, ReplacingRun, KindsApart
  <2>2. pc' # 0 => pc' = k + 1
    BY <1>1, <1>2
  <2>3. Underway' /\ Unpublished' /\ Enclosed'
    BY <1>1, <1>3, <2>1, <2>2 DEF Underway, Stepping, Unpublished, Enclosed
  <2>4. QED
    BY <1>5, <2>3, RecordTrueRenamed
<1>6. CASE tool \in InPlace
  <2>1. /\ tool \notin Refusing /\ tool \notin Renamed /\ tool \notin Recorded
        /\ tool \notin InDirectory
    BY <1>6, KindsApart
  <2>2. Replacing(k + 1)'
    BY <1>1, <2>1 DEF Replacing
  <2>3. pc' # 0 => pc' = k + 1
    BY <1>1, <1>2
  <2>4. Underway' /\ Unpublished' /\ Enclosed'
    BY <1>1, <1>3, <2>1, <2>2, <2>3 DEF Underway, Stepping, Unpublished, Enclosed
  <2>5. RecordTrue' /\ PublishedStays'
    BY <1>1, <1>6, <2>1 DEF RecordTrue, PublishedStays
  <2>6. QED
    BY <2>4, <2>5
<1>7. QED
  BY <1>1, <1>4, <1>5, <1>6, ToolKinds

LEMMA PublishInvRaise ==
    ASSUME PublishInv, Raise
    PROVE  Underway' /\ Unpublished' /\ Enclosed' /\ RecordTrue' /\ PublishedStays'
<1>1. /\ tool' = tool /\ pc' = 0 /\ tool \in Tools /\ CleanUp /\ pc # 0
      /\ past' = past \/ past' = [past EXCEPT !.faults = past.faults + 1]
  BY DEF Raise, PublishInv, PublishTyped, PublishTypeOK
<1>2. past'.returned = past.returned
  BY <1>1 DEF PublishInv, PublishTyped, PublishTypeOK
<1>3. Underway' /\ (tool \in Refusing => Unpublished')
  <2>1. CASE tool \in Refusing
    <3>1. Laid
      BY <1>1, <2>1, ToolKinds, KindsApart DEF Arrangement
    <3>2. QED
      BY <1>1, <3>1 DEF Underway, Unpublished, Laid
  <2>2. QED
    BY <1>1, <2>1 DEF Underway
<1>4. Unpublished'
  BY <1>1, <1>3 DEF Unpublished
<1>5. "out" \in Names /\ "record" \in Names /\ "dir" \in Names /\ Absent.is = "absent"
  BY DEF Names, Absent
<1>6. CASE tool \in Refusing
  <2>1. Laid
    BY <1>1, <1>6, ToolKinds, KindsApart DEF Arrangement
  <2>2. CASE files' = files
    BY <1>1, <1>2, <1>4, <1>3, <2>2, SameFiles DEF PublishInv
  <2>3. CASE files'["out"] = Absent /\ files'["record"] = Absent /\ ~past.returned
    <3>1. files'["record"].is # "whole" /\ files'["out"].is = "absent" /\ files'["record"].is = "absent"
      BY <1>5, <2>3
    <3>2. RecordTrue'
      BY <1>1, <1>6, <3>1, KindsApart DEF RecordTrue
    <3>3. PublishedStays'
      BY <1>2, <2>3 DEF PublishedStays
    <3>4. Enclosed'
      BY <3>1 DEF Enclosed, FileIs
    <3>5. QED
      BY <1>3, <1>4, <3>2, <3>3, <3>4
  <2>4. files' = files \/ (files'["out"] = Absent /\ files'["record"] = Absent /\ ~past.returned)
    <3>1. pc \in Nat /\ files = [n \in Names |-> files[n]]
      BY <1>1, ToolKinds DEF PublishInv, PublishTyped, PublishTypeOK, Length, ToolSteps
    <3>2. CASE /\ Program[tool].from > Places[tool].guard /\ "out" \in Program[tool].undo
               /\ "record" \in Program[tool].undo /\ pc >= Program[tool].from
               /\ Program[tool].from \in Nat
      <4>1. pc > Places[tool].guard
        BY <2>1, <3>1, <3>2 DEF Laid
      <4>2. ~past.returned
        BY <1>6, <4>1 DEF PublishInv, Unpublished
      <4>3. QED
        BY <1>1, <1>5, <3>2, <4>2 DEF CleanUp
    <3>3. CASE Program[tool].undo = {} \/ ~(pc >= Program[tool].from)
      <4>1. files' = [n \in Names |-> files[n]]
        BY <1>1, <3>3 DEF CleanUp
      <4>2. QED
        BY <3>1, <4>1
    <3>4. \/ Program[tool].undo = {}
          \/ /\ Program[tool].from \in Nat /\ Program[tool].from > Places[tool].guard
             /\ "out" \in Program[tool].undo /\ "record" \in Program[tool].undo
      BY <2>1 DEF Laid
    <3>5. QED
      BY <3>2, <3>3, <3>4
  <2>5. QED
    BY <2>2, <2>3, <2>4
<1>7. CASE tool \in Renamed
  <2>1. files'["out"] = files["out"]
    <3>1. "out" \notin Program[tool].undo
      BY <1>1, <1>7, ToolKinds, KindsApart DEF Replacement
    <3>2. QED
      BY <1>1, <1>5, <3>1 DEF CleanUp
  <2>2. tool \notin Recorded /\ tool \notin InDirectory /\ ReadAgain' = ReadAgain
    BY <1>1, <1>7, KindsApart, SameTool
  <2>3. RecordTrue' /\ PublishedStays' /\ Enclosed'
    BY <1>1, <1>2, <2>1, <2>2 DEF PublishInv, RecordTrue, PublishedStays, Speaks, Enclosed
  <2>4. QED
    BY <1>3, <1>4, <2>3
<1>8. CASE tool \in InPlace
  <2>1. tool \notin Recorded /\ tool \notin InDirectory /\ tool \notin Renamed
    BY <1>8, KindsApart
  <2>2. RecordTrue' /\ PublishedStays' /\ Enclosed'
    BY <1>1, <1>8, <2>1 DEF RecordTrue, PublishedStays, Enclosed
  <2>3. QED
    BY <1>3, <1>4, <2>2
<1>9. QED
  BY <1>1, <1>6, <1>7, <1>8, ToolKinds

LEMMA PublishInvKill ==
    ASSUME PublishInv, KillTool
    PROVE  Underway' /\ Unpublished' /\ Enclosed' /\ RecordTrue' /\ PublishedStays'
<1>1. /\ tool' = tool /\ pc' = 0 /\ files' = files /\ tool \in Tools
      /\ past' = [past EXCEPT !.faults = past.faults + 1, !.killed = TRUE]
  BY DEF KillTool, PublishInv, PublishTyped, PublishTypeOK
<1>2. past'.returned = past.returned
  BY <1>1 DEF PublishInv, PublishTyped, PublishTypeOK
<1>3. Unpublished'
  <2>1. CASE tool \in Refusing
    <3>1. Laid
      BY <1>1, <2>1, ToolKinds, KindsApart DEF Arrangement
    <3>2. QED
      BY <1>1, <3>1 DEF Unpublished, Laid
  <2>2. QED
    BY <1>1, <2>1 DEF Unpublished
<1>4. QED
  BY <1>1, <1>2, <1>3, SameFiles DEF PublishInv, Underway

LEMMA PublishInvEdit ==
    ASSUME PublishInv, NEW j \in Used, Edit(j)
    PROVE  Underway' /\ Unpublished' /\ Enclosed' /\ RecordTrue' /\ PublishedStays'
<1>1. /\ tool' = tool /\ pc' = pc /\ files' = files /\ mem' = mem
      /\ past' = [past EXCEPT !.edits = past.edits + 1] /\ src' = [src EXCEPT ![j] = src[j] + 1]
  BY DEF Edit
<1>2. past'.returned = past.returned
  BY <1>1 DEF PublishInv, PublishTyped, PublishTypeOK
<1>3. RecordTrue' /\ PublishedStays' /\ Enclosed' /\ Unpublished'
  BY <1>1, <1>2, SameFiles DEF PublishInv, Unpublished
<1>4. \A i \in Inputs : src'[i] \in Nat /\ src[i] \in Nat /\ src[i] <= src'[i]
  BY <1>1 DEF PublishInv, PublishTyped, PublishTypeOK, Versions
<1>5. \A n \in Names : \A i \in Inputs : files[n].holds[i] \in Nat
  BY DEF PublishInv, PublishTyped, PublishTypeOK, Contents, Versions
<1>6. Underway'
  <2>1. SUFFICES ASSUME pc # 0
                 PROVE  Stepping(pc)'
    BY <1>1 DEF Underway
  <2>2. Stepping(pc)
    BY <2>1 DEF PublishInv, Underway
  <2>3. "tmp" \in Names /\ "out" \in Names /\ Once' = Once
    BY <1>1, SameTool DEF Names
  <2>4. tool \in Refusing => Arranged(pc)'
    BY <1>1, <2>2, <2>3 DEF Stepping, Arranged, FileIs
  <2>5. Archived(pc)'
    BY <1>1, <1>4, <1>5, <2>2, <2>3 DEF Stepping, Archived, FileIs
  <2>6. Authorized(pc)' /\ Replacing(pc)'
    BY <1>1, <2>2, <2>3 DEF Stepping, Authorized, Replacing, FileIs, Truthful
  <2>7. QED
    BY <1>1, <2>4, <2>5, <2>6 DEF Stepping
<1>7. QED
  BY <1>3, <1>6

LEMMA PublishInvStep ==
    ASSUME PublishInv, [PublishNext]_publish
    PROVE  PublishInv'
<1>1. CASE PublishNext
  <2>1. PublishTyped' /\ Clear'
    BY <1>1, PublishTypedStep, ClearStep DEF PublishInv
  <2>2. Underway' /\ Unpublished' /\ Enclosed' /\ RecordTrue' /\ PublishedStays'
    BY <1>1, PublishInvStart, PublishInvRun, PublishInvRaise, PublishInvKill, PublishInvEdit
       DEF PublishNext
  <2>3. QED
    BY <2>1, <2>2 DEF PublishInv
<1>2. CASE UNCHANGED publish
  <2>. USE <1>2 DEF publish, PublishInv
  <2>1. Used' = Used /\ Once' = Once /\ Length' = Length /\ ToolSteps' = ToolSteps
    BY SameTool
  <2>2. PublishTyped' /\ Clear'
    BY <2>1 DEF PublishTyped, PublishTypeOK, Clear
  <2>3. RecordTrue' /\ PublishedStays' /\ Enclosed' /\ Unpublished'
    BY SameFiles DEF Unpublished
  <2>4. Underway'
    BY <2>1 DEF Underway, Stepping, Arranged, Archived, Authorized, Replacing, FileIs, Truthful
  <2>5. QED
    BY <2>2, <2>3, <2>4
<1>3. QED
  BY <1>1, <1>2

\* A record of the packages, images and archives never speaks of an output that is absent,
\* torn or another, whatever kills, exceptions and changing inputs there were.
THEOREM RecordsAreTrue == PublishSpec => []RecordTrue
<1>1. PublishInv => RecordTrue
  BY DEF PublishInv
<1>2. QED
  BY PublishInvInit, PublishInvStep, <1>1, PTL DEF PublishSpec

\* What a run of one of these tools has published, no later run removes or tears.
THEOREM PublishedIsKept == PublishSpec => []PublishedStays
<1>1. PublishInv => PublishedStays
  BY DEF PublishInv
<1>2. QED
  BY PublishInvInit, PublishInvStep, <1>1, PTL DEF PublishSpec
=============================================================================
