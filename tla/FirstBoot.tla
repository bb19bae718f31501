----------------------------- MODULE FirstBoot -----------------------------
(***************************************************************************)
(* First boot: the wizard t630-first-boot-ui.py, which runs the backend    *)
(* t630_first_boot.py in a worker for each press of "Create account", and  *)
(* the storage the backend fills, ending with /etc/t630/owner.  A profile  *)
(* is the number of the attempt that brought it, and the user name chosen  *)
(* for it.  The wizard kills a backend after 120 seconds and leaves the    *)
(* command it was running; the power may be cut at any time.  A write that *)
(* is replaced by fsync and rename commits what was renamed before it.     *)
(* useradd writes the account and then makes the home directory.           *)
(* groupadd is taken together with usermod, which needs the group, and     *)
(* hostname, which changes nothing that is kept, with machine-id.          *)
(***************************************************************************)
EXTENDS Naturals, Sequences, SequencesExt

CONSTANTS Users, NoUser, MaxAttempts   \* bound: presses of "Create account"

ASSUME FirstBootConstants == MaxAttempts \in Nat \ {0} /\ NoUser \notin Users

VARIABLES
    ui,         \* the wizard: state, attempts made, result of the worker
    chosen,     \* user name of each attempt
    backend,    \* index of the step it is at, or 0
    orphan,     \* step and attempt of a command whose backend was killed
    disk, durable, \* what the storage shows, and what a power cut leaves
    late        \* "late": an orphan's command took effect; "half": a useradd was cut off
                \* between the account and the home

first_boot == <<ui, chosen, backend, orphan, disk, durable, late>>

Attempts == 1..MaxAttempts

\* Mutant: the owner is recorded before his profile.
StepsOwnerFirst ==
    <<"check", "useradd", "home", "usermod", "chpasswd", "locale-gen", "hostname", "timezone",
      "locale", "keyboard", "unlink", "symlink", "machine-id", "owner", "profile", "exit">>

\* The steps of apply_profile.  Files are replaced, commands are run; "home" is the
\* second half of useradd.
Files == {"hostname", "timezone", "locale", "keyboard", "profile", "owner"}
Commands == {"useradd", "home", "usermod", "chpasswd", "locale-gen", "machine-id"}
Steps == <<"check", "useradd", "home", "usermod", "chpasswd", "locale-gen", "hostname",
           "timezone", "locale", "keyboard", "unlink", "symlink", "machine-id", "profile",
           "owner", "exit">>
Kept == Files \cup {"localtime"}

Disks == [accounts : SUBSET Users, homes : SUBSET Users, members : SUBSET Users,
          password : [Users -> 0..MaxAttempts], kept : [Kept -> 0..MaxAttempts],
          locales : SUBSET Attempts, machine : BOOLEAN]

FirstBootTypeOK ==
    /\ ui \in [state : {"form", "busy", "closing", "gone"}, attempt : 0..MaxAttempts,
               result : {"none", "ok", "failed"}]
    /\ chosen \in [Attempts -> Users \cup {NoUser}]
    /\ backend \in 0..Len(Steps)
    /\ orphan \in [step : Commands \cup {"none"}, attempt : 0..MaxAttempts]
    /\ disk \in Disks /\ durable \in Disks
    /\ late \in SUBSET {"late", "half"}

Half(cut) == IF cut THEN {"half"} ELSE {}
NoOrphan == [step |-> "none", attempt |-> 0]
Form(n) == [state |-> "form", attempt |-> n, result |-> "none"]

FirstBootInit ==
    /\ ui = Form(0)
    /\ chosen = [a \in Attempts |-> NoUser]
    /\ backend = 0 /\ orphan = NoOrphan
    /\ disk = [accounts |-> {}, homes |-> {}, members |-> {}, password |-> [u \in Users |-> 0],
               kept |-> [k \in Kept |-> 0], locales |-> {}, machine |-> FALSE]
    /\ durable = disk /\ late = {}

-----------------------------------------------------------------------------
(* The wizard.                                                             *)

\* go_next on the last page, with a profile and a password that pass.
Create(u) ==
    /\ ui.state = "form" /\ ui.attempt < MaxAttempts
    /\ ui' = [ui EXCEPT !.state = "busy", !.attempt = @ + 1, !.result = "none"]
    /\ chosen' = [chosen EXCEPT ![ui.attempt + 1] = u]
    /\ backend' = 1
    /\ UNCHANGED <<orphan, disk, durable, late>>

\* subprocess.run runs into its timeout: the backend is killed, not its command.
Timeout ==
    /\ ui.state = "busy" /\ backend # 0
    /\ backend' = 0
    /\ orphan' = IF Steps[backend] \in Commands
                 THEN [step |-> Steps[backend], attempt |-> ui.attempt] ELSE orphan
    /\ late' = late \cup Half(Steps[backend] = "home")
    /\ ui' = [ui EXCEPT !.result = "failed"]
    /\ UNCHANGED <<chosen, disk, durable>>

\* finished, in the main loop.
Finished ==
    /\ ui.state = "busy" /\ ui.result # "none"
    /\ ui' = [ui EXCEPT !.state = IF ui.result = "ok" THEN "closing" ELSE "form",
                        !.result = "none"]
    /\ UNCHANGED <<chosen, backend, orphan, disk, durable, late>>

CloseSuccess ==
    /\ ui.state = "closing"
    /\ ui' = [ui EXCEPT !.state = "gone"]
    /\ UNCHANGED <<chosen, backend, orphan, disk, durable, late>>

-----------------------------------------------------------------------------
(* The backend.                                                            *)

Me == chosen[ui.attempt]

\* What the command or the file of a step, run for attempt a, makes of d.
Effect(d, step, a) ==
    CASE step = "useradd"  -> [d EXCEPT !.accounts = @ \cup {chosen[a]}]
      [] step = "home"     -> [d EXCEPT !.homes = @ \cup {chosen[a]}]
      [] step = "usermod"  -> [d EXCEPT !.members = @ \cup ({chosen[a]} \cap d.accounts)]
      [] step = "chpasswd" -> IF chosen[a] \in d.accounts
                              THEN [d EXCEPT !.password[chosen[a]] = a] ELSE d
      [] step = "locale-gen" -> [d EXCEPT !.locales = @ \cup {a}]
      [] step = "machine-id" -> [d EXCEPT !.machine = TRUE]
      [] step = "unlink"   -> [d EXCEPT !.kept["localtime"] = 0]
      [] step = "symlink"  -> [d EXCEPT !.kept["localtime"] = a]
      [] step \in Kept     -> [d EXCEPT !.kept[step] = a]
      [] OTHER             -> d

\* command_plan leaves useradd out for an account that is there, whole or not.
Skipped(step) == step = "useradd" /\ Me \in disk.accounts

\* Refused by the check at the top: somebody has the tablet already.
Complete == disk.kept["owner"] # 0

\* write_atomic: the temporary's fsync commits what went before the rename.
Commits(step) == step \in Files

Do ==
    /\ backend \in 1..(Len(Steps) - 1)
    /\ LET step == Steps[backend]
       IN /\ step = "check" => ~Complete
          /\ disk' = IF Skipped(step) THEN disk ELSE Effect(disk, step, ui.attempt)
          /\ durable' = IF Commits(step) THEN disk ELSE durable
    /\ backend' = backend + IF Skipped(Steps[backend]) THEN 2 ELSE 1
    /\ UNCHANGED <<ui, chosen, orphan, late>>

Exit ==
    /\ backend = Len(Steps)
    /\ backend' = 0
    /\ ui' = [ui EXCEPT !.result = "ok"]
    /\ UNCHANGED <<chosen, orphan, disk, durable, late>>

\* A refusal, or a step that fails or is killed by its own timeout, before or
\* after its effect; parser.exit(1).
Refuse ==
    /\ backend \in 1..(Len(Steps) - 1)
    /\ LET step == Steps[backend]
       IN \/ step = "check" /\ Complete /\ UNCHANGED <<disk, late>>
          \/ step # "check" /\ UNCHANGED disk /\ late' = late \cup Half(step = "home")
          \/ /\ step \in Commands /\ ~Skipped(step)
             /\ disk' = Effect(disk, step, ui.attempt)
             /\ late' = late \cup Half(step = "useradd")
    /\ backend' = 0
    /\ ui' = [ui EXCEPT !.result = "failed"]
    /\ UNCHANGED <<chosen, orphan, durable>>

-----------------------------------------------------------------------------
(* The system under them.                                                  *)

\* The command a killed backend left ends, with its effect or without; a useradd that
\* has written the account has the home to make.
OrphanEnds ==
    /\ orphan # NoOrphan
    /\ \/ /\ disk' = Effect(disk, orphan.step, orphan.attempt)
          /\ late' = late \cup {"late"} \cup Half(orphan.step = "useradd")
          /\ orphan' = IF orphan.step = "useradd" /\ disk'.accounts # disk.accounts
                       THEN [orphan EXCEPT !.step = "home"] ELSE NoOrphan
       \/ orphan' = NoOrphan /\ UNCHANGED <<disk, late>>
    /\ UNCHANGED <<ui, chosen, backend, durable>>

Flush == /\ durable # disk /\ durable' = disk
         /\ UNCHANGED <<ui, chosen, backend, orphan, disk, late>>

\* The next boot runs the wizard again if there is no owner.
PowerCut ==
    /\ disk' = durable
    /\ ui' = IF durable.kept["owner"] = 0 THEN Form(ui.attempt)
             ELSE [Form(ui.attempt) EXCEPT !.state = "gone"]
    /\ backend' = 0 /\ orphan' = NoOrphan
    /\ late' = late \cup Half(durable.accounts \ durable.homes # {})
    /\ UNCHANGED <<chosen, durable>>

-----------------------------------------------------------------------------
FirstBootNext == \/ Timeout \/ Finished \/ CloseSuccess \/ Do \/ Exit \/ Refuse
                 \/ OrphanEnds \/ Flush \/ PowerCut \/ \E u \in Users : Create(u)

FirstBootSpec == FirstBootInit /\ [][FirstBootNext]_first_boot

(* The account that resolve_owner finds and the desktop starts for.        *)
OwnerOf(d) == chosen[d.kept["owner"]]

(* The owner marker is the commit point: in every state, and in whatever   *)
(* a power cut would leave, an owner means that his account exists, is in  *)
(* the groups, and that every file was written by the very attempt that    *)
(* wrote the marker, although attempts failed half way, were killed, were  *)
(* retried with another name, or lost their last writes                    *)
(* (apply_profile, "Commit last").  The password is that attempt's too,    *)
(* unless the chpasswd of a killed backend ended late, and he has a home   *)
(* unless some useradd was cut off before it had made it.                  *)
MarkerLast ==
    \A d \in {disk, durable} :
        LET a == d.kept["owner"]
        IN a # 0 => /\ OwnerOf(d) \in d.accounts \cap d.members
                    /\ OwnerOf(d) \in d.homes \/ "half" \in late
                    /\ \A k \in Kept : d.kept[k] = a
                    /\ a \in d.locales /\ d.machine
                    /\ d.password[OwnerOf(d)] = a \/ "late" \in late
=============================================================================
