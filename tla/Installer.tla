----------------------------- MODULE Installer -----------------------------
(***************************************************************************)
(* The installation of Ubuntu on linuxroot: the bundle is sealed on the    *)
(* host, staged in the tablet's RAM over the serial console (or copied     *)
(* there from a mounted linuxroot), checked on the tablet, authorized once *)
(* and applied.  Host tools run one after the other, in the orders the     *)
(* coordinator and its window allow; each sends commands to the one        *)
(* console and waits for the marked answer of its own, with a timeout.     *)
(* What a tool leaves behind when it gives up stays: commands in the       *)
(* console, a part of an upload, a token, a seal.                          *)
(***************************************************************************)
EXTENDS Naturals, Sequences

CONSTANTS MaxLinkFaults,  \* bound: timeouts, lost links, reboots, changed inputs
          MaxActions      \* bound: actions started by the user
ASSUME InstallerConstants == MaxLinkFaults \in Nat /\ MaxActions \in Nat

VARIABLES
    work,    \* host bundle: its files and what its seal describes
    host,    \* the tool that runs, its steps left, the tools after it, its last word
    source,  \* what the window has selected
    console, \* commands sent and not finished (the first one runs), with what ran of it
    ram,     \* what the tablet has under /run
    root,    \* linuxroot
    copied,  \* a bundle on linuxroot: its files and seal
    events   \* faults, actions so far

installer == <<work, host, source, console, ram, root, copied, events>>

BundleFiles == {"none", "good", "other"}       \* validated, or changed since
HostTools == {"verify", "stage", "local", "prepare", "install"}
Bundles == [files : BundleFiles \cup {"part"}, seal : BundleFiles]
ConsoleCommands == {"setup", "put_bundle", "audit", "put_script", "put_prepare", "copy",
                    "prepare", "check", "token", "apply"}

\* The commands of each tool.
Script(t) ==
    CASE t = "verify"  -> <<>>
      [] t = "stage"   -> <<"setup", "put_bundle", "audit", "put_script", "put_prepare", "check">>
      [] t = "local"   -> <<"copy", "put_script", "put_prepare">>
      [] t = "prepare" -> <<"prepare", "check">>
      [] t = "install" -> <<"check", "token", "apply">>

HostIdle(says) == [tool |-> "none", left |-> <<>>, next |-> <<>>, waits |-> FALSE, says |-> says]
EmptyRam == [stage |-> FALSE, bundle |-> [files |-> "none", seal |-> "none"],
             script |-> "none", prepare |-> "none", token |-> FALSE, runtime |-> "none",
             started |-> FALSE, stopping |-> FALSE]

InstallerTypeOK ==
    /\ work \in [files : {"good", "other"}, seal : BundleFiles]
    /\ host.tool \in HostTools \cup {"none"} /\ host.left \in Seq(ConsoleCommands)
    /\ host.next \in Seq(HostTools) /\ host.waits \in BOOLEAN
    /\ host.says \in {"nothing", "failed", "sealed", "done", "verified"}
    /\ source \in {"host", "tablet", "staged"}
    /\ \A i \in 1..Len(console) :
            console[i] \in [cmd : ConsoleCommands, at : 0..3, mine : BOOLEAN]
    /\ ram \in [stage : BOOLEAN, bundle : Bundles, script : {"none", "cut", "whole"},
                prepare : {"none", "cut", "whole"}, token : BOOLEAN,
                runtime : {"none", "part", "whole"}, started : BOOLEAN,
                stopping : BOOLEAN]
    /\ root \in [holds : {"old", "blank", "part", "good", "other"}, mounted : BOOLEAN]
    /\ copied \in [files : BundleFiles, seal : BundleFiles]
    /\ events \in [faults : 0..MaxLinkFaults, actions : 0..MaxActions]

InstallerInit ==
    /\ work = [files |-> "good", seal |-> "none"]
    /\ host = HostIdle("nothing") /\ source = "host" /\ console = <<>>
    /\ ram = EmptyRam
    /\ root \in [holds : {"old"}, mounted : BOOLEAN]
    /\ copied = [files |-> "none", seal |-> "none"]
    /\ events = [faults |-> 0, actions |-> 0]

Free == host.tool = "none"
Fault == events.faults < MaxLinkFaults /\ events' = [events EXCEPT !.faults = @ + 1]
Act == events.actions < MaxActions /\ events' = [events EXCEPT !.actions = @ + 1]

-----------------------------------------------------------------------------
(* The host bundle.                                                        *)

Validates(b) == b.files = "good"

\* finalize: validate, write the seal for the hashes read at the end of it, validate
\* again.  Files that change inside the first validation are sealed as they are, and the
\* second one raises with the seal left in place.
Finalize ==
    /\ Free /\ work.seal = "none" /\ Validates(work)
    /\ \/ /\ Act /\ work' = [work EXCEPT !.seal = "good"]
          /\ host' = HostIdle("sealed")
       \/ /\ Fault /\ work' = [files |-> "other", seal |-> "other"]
          /\ host' = HostIdle("failed")
    /\ UNCHANGED <<source, console, ram, root, copied>>

\* verify_sealed: valid and described by its seal.
Sealed(b) == Validates(b) /\ b.seal = b.files

\* Somebody changes a file of the bundle, or carries the bundle to linuxroot.
Change ==
    /\ Fault /\ work.files = "good" /\ work' = [work EXCEPT !.files = "other"]
    /\ UNCHANGED <<host, source, console, ram, root, copied>>

Carry ==
    /\ root.mounted /\ work.seal # "none" /\ copied.files = "none"
    /\ copied' = work
    /\ UNCHANGED <<work, host, source, console, ram, root, events>>

-----------------------------------------------------------------------------
(* The coordinator and its window.                                         *)

\* command_for: the options an action of the window becomes; none when it is refused.
CommandFor(action) ==
    CASE action = "verify"  -> source = "host"
      [] action = "stage"   -> source # "staged"
      [] action = "prepare" -> source # "host"
      [] action = "install" -> TRUE

\* workflow: the tools that run in turn, each only after the success of the one before.
Workflow(action) ==
    CASE action = "verify" -> <<"verify">>
      [] source = "host"   -> <<"stage">>
      [] source = "tablet" -> IF action = "stage" THEN <<"local">> ELSE <<"local", "prepare">>
      [] source = "staged" -> IF action = "prepare" THEN <<"prepare">> ELSE <<>>
ActionSteps(action) == Workflow(action) \o (IF action = "install" THEN <<"install">> ELSE <<>>)

\* A button, when nothing runs (for Install with the phrase and the acknowledgement).
Choose(action) ==
    /\ Free /\ Act /\ CommandFor(action)
    /\ host' = [tool |-> Head(ActionSteps(action)), left |-> Script(Head(ActionSteps(action))),
                next |-> Tail(ActionSteps(action)), waits |-> FALSE, says |-> "nothing"]
    /\ UNCHANGED <<work, source, console, ram, root, copied>>

Select(s) ==
    /\ Free /\ source # s /\ source' = s
    /\ UNCHANGED <<work, host, console, ram, root, copied, events>>

\* A tool ends well: the next one, or the end of the action.
Finish ==
    /\ ~Free /\ ~host.waits /\ host.left = <<>>
    /\ IF host.next = <<>>
       THEN /\ host' = HostIdle(IF host.tool = "install" THEN "verified" ELSE "done")
            /\ source' = IF host.tool \in {"stage", "local", "prepare"} THEN "staged" ELSE source
       ELSE /\ host' = [host EXCEPT !.tool = Head(host.next), !.left = Script(Head(host.next)),
                                    !.next = Tail(host.next)]
            /\ UNCHANGED source
    /\ (host.tool = "verify" => Sealed(work))
    /\ UNCHANGED <<work, console, ram, root, copied, events>>

-----------------------------------------------------------------------------
(* The link: one command after the other, each answer marked.              *)

\* Only a sealed bundle is staged; an open Link drops what came in before.
Send ==
    /\ ~Free /\ ~host.waits /\ host.left # <<>>
    /\ Head(host.left) = "setup" => Sealed(work)
    /\ console' = Append(console, [cmd |-> Head(host.left), at |-> 0, mine |-> TRUE])
    /\ host' = [host EXCEPT !.waits = TRUE]
    /\ UNCHANGED <<work, source, ram, root, copied, events>>

RefuseBundle ==
    /\ ~Free /\ ~host.waits /\ ~Sealed(work)
    /\ host.tool = "verify" \/ (host.left # <<>> /\ Head(host.left) = "setup")
    /\ host' = HostIdle("failed")
    /\ UNCHANGED <<work, source, console, ram, root, copied, events>>

Orphaned(q) == [i \in 1..Len(q) |-> [q[i] EXCEPT !.mine = FALSE]]

\* The tool stops waiting (or is interrupted): what it sent goes on without it.
GiveUp ==
    /\ host.waits /\ Fault
    /\ host' = HostIdle("failed") /\ console' = Orphaned(console)
    /\ UNCHANGED <<work, source, ram, root, copied>>

\* The cable: the terminal hangs up and takes its commands with it.
Hangup ==
    /\ console # <<>> /\ Fault
    /\ console' = <<>> /\ host' = IF host.waits THEN HostIdle("failed") ELSE host
    /\ UNCHANGED <<work, source, ram, root, copied>>

Reboot ==
    /\ Fault
    /\ console' = <<>> /\ host' = IF host.waits THEN HostIdle("failed") ELSE host
    /\ ram' = EmptyRam
    /\ \E m \in BOOLEAN : /\ m => root.holds \in {"old", "good", "other"}
                          /\ root' = [root EXCEPT !.mounted = m]
    /\ UNCHANGED <<work, source, copied>>

\* Mutant: any answer is a success.
AcceptedAny(passed) == TRUE

\* Whether the answer to a command has the marker its tool looks for.
Accepted(passed) == passed

Now == Head(console)
Running(c) == console # <<>> /\ Now.cmd = c
Answer(passed) ==
    /\ console' = Tail(console)
    /\ host' = IF ~Now.mine THEN host
               ELSE IF Accepted(passed) THEN [host EXCEPT !.waits = FALSE, !.left = Tail(@)]
               ELSE HostIdle("failed")
Proceed(k) == console' = [console EXCEPT ![1].at = k] /\ UNCHANGED host
Refused == Answer(FALSE) /\ UNCHANGED <<ram, root>>

-----------------------------------------------------------------------------
(* The tablet.                                                             *)

\* setup_script: geometry, power and memory (which may refuse), and no staging yet.
Setup ==
    /\ Running("setup")
    /\ \/ ~ram.stage /\ ram' = [ram EXCEPT !.stage = TRUE] /\ Answer(TRUE) /\ UNCHANGED root
       \/ Refused

\* An upload refuses to overwrite; it is cut when the sender stops, whole at the end.
PutBundle ==
    /\ Running("put_bundle")
    /\ \/ /\ Now.at = 0 /\ ram.stage /\ ram.bundle.files = "none"
          /\ ram' = [ram EXCEPT !.bundle = [files |-> "part", seal |-> work.seal]]
          /\ Proceed(1)
       \/ /\ Now.at = 1 /\ Now.mine
          /\ ram' = [ram EXCEPT !.bundle.files = work.files] /\ Answer(TRUE)
       \/ (Now.at = 0 \/ ~Now.mine) /\ Answer(FALSE) /\ UNCHANGED ram
    /\ UNCHANGED root

Put(cmd, name) ==
    /\ Running(cmd)
    /\ \/ /\ Now.at = 0 /\ ram.stage /\ ram[name] = "none"
          /\ ram' = [ram EXCEPT ![name] = "cut"] /\ Proceed(1)
       \/ /\ Now.at = 1 /\ Now.mine
          /\ ram' = [ram EXCEPT ![name] = "whole"] /\ Answer(TRUE)
       \/ (Now.at = 0 \/ ~Now.mine) /\ Answer(FALSE) /\ UNCHANGED ram
    /\ UNCHANGED root

\* sha256sum -c, in the staging scripts and in the installer.
SumsMatch == ram.stage /\ ram.bundle.files \in {"good", "other"}
                       /\ ram.bundle.files = ram.bundle.seal

Audit ==
    /\ Running("audit") /\ Answer(SumsMatch) /\ UNCHANGED <<ram, root>>

\* The staging from linuxroot: checked at the source, copied, checked again; its trap
\* takes the copy away unless it is complete.
Copy ==
    /\ Running("copy")
    /\ \/ /\ root.mounted /\ ~ram.stage /\ copied.files # "none" /\ copied.files = copied.seal
          /\ ram' = [ram EXCEPT !.stage = TRUE, !.bundle = copied]
          /\ Answer(TRUE) /\ UNCHANGED root
       \/ Refused

\* prepare_staged_install.sh: the marker first, then the end of every process, then
\* the unmounts, the last of which may be refused.
Prepare ==
    /\ Running("prepare")
    /\ \/ /\ Now.at = 0 /\ ram.prepare # "none" /\ ram.stage /\ root.mounted
          /\ ram' = [ram EXCEPT !.stopping = TRUE] /\ Proceed(1) /\ UNCHANGED root
       \/ /\ Now.at = 1 /\ root' = [root EXCEPT !.mounted = FALSE]
          /\ Answer(ram.prepare = "whole") /\ UNCHANGED ram
       \/ Refused

\* install_staged_release.sh up to the end of --check.
Gate == ram.script # "none" /\ SumsMatch /\ ~root.mounted /\ ~ram.started
RuntimeReady == ram.runtime # "part"

Check ==
    /\ Running("check")
    /\ \/ /\ Now.at = 0 /\ Gate /\ ram.runtime = "none"
          /\ ram' = [ram EXCEPT !.runtime = "part"] /\ Proceed(1)
       \/ /\ Now.at = 0 /\ Gate /\ ram.runtime = "whole" /\ Answer(TRUE) /\ UNCHANGED ram
       \/ /\ Now.at = 1 /\ ram' = [ram EXCEPT !.runtime = "whole"] /\ Answer(TRUE)
       \/ Answer(FALSE) /\ UNCHANGED ram
    /\ UNCHANGED root

\* The token is created and never overwritten or removed.
Token ==
    /\ Running("token")
    /\ \/ /\ ram.stage /\ ~ram.token
          /\ ram' = [ram EXCEPT !.token = TRUE] /\ Answer(TRUE) /\ UNCHANGED root
       \/ Refused

\* --apply: the whole gate again, the token, the mark of the attempt; then format,
\* extraction, checks of the new root, unmount and fsck, and the word that it is complete.
\* A script that was cut ends where it was cut.
Apply ==
    /\ Running("apply")
    /\ \/ /\ Now.at = 0 /\ Gate /\ RuntimeReady /\ ram.token
          /\ ram' = [ram EXCEPT !.started = TRUE, !.runtime = "whole"]
          /\ Proceed(1) /\ UNCHANGED root
       \/ /\ Now.at = 1 /\ root' = [root EXCEPT !.holds = "blank"] /\ Proceed(2) /\ UNCHANGED ram
       \/ /\ Now.at = 2 /\ root' = [root EXCEPT !.holds = "part"] /\ Proceed(3) /\ UNCHANGED ram
       \/ /\ Now.at = 3 /\ ram.script = "whole"
          /\ root' = [root EXCEPT !.holds = ram.bundle.files]
          /\ Answer(TRUE) /\ UNCHANGED ram
       \/ Refused

Tablet ==
    /\ \/ Setup \/ PutBundle \/ Put("put_script", "script") \/ Put("put_prepare", "prepare")
       \/ Audit \/ Copy \/ Prepare \/ Check \/ Token \/ Apply
    /\ UNCHANGED <<work, source, copied, events>>

-----------------------------------------------------------------------------
InstallerNext == \/ Finalize \/ Change \/ Carry
                 \/ \E a \in {"verify", "stage", "prepare", "install"} : Choose(a)
                 \/ \E s \in {"host", "tablet", "staged"} : Select(s)
                 \/ Finish \/ Send \/ RefuseBundle \/ GiveUp \/ Hangup \/ Reboot \/ Tablet

InstallerSpec == InstallerInit /\ [][InstallerNext]_installer

-----------------------------------------------------------------------------
(* Properties.                                                             *)

\* "Installation verified" is the truth: linuxroot holds the whole root of a bundle that
\* was valid; or of one that finalize refused but left sealed, which the copy on the
\* tablet's own linuxroot gets past the gates because only its sums are checked there.
SaysTruth ==
    host.says = "verified" =>
        \/ root.holds = "good"
        \/ root.holds = "other" /\ copied = [files |-> "other", seal |-> "other"]
=============================================================================
