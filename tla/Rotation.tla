------------------------------ MODULE Rotation ------------------------------
(***************************************************************************)
(* Rotation of the display: from the accelerometer to the Weston output    *)
(* and to the sizes of the nested Xwayland and GNOME monitors.  In the     *)
(* owner's session t630-rotation-controller does all of it; in the setup   *)
(* session t630-first-boot-rotation drives Weston and                      *)
(* t630-first-boot-resize follows Weston's state file with the nested      *)
(* sizes.  t630-weston-rotation.c owns the output, the FIFO and the state  *)
(* file.  The relay of the setup session never runs a GLib main loop, so   *)
(* its cached orientation is the one it found when it started.             *)
(***************************************************************************)
EXTENDS Naturals, Sequences, SequencesExt

CONSTANTS Readings,     \* what the accelerometer may report
          FifoMax,      \* bound: the latest requests of the FIFO that are remembered
          MaxFailures   \* bound: failing calls and foreign mode changes

Transform == [normal |-> 0, bottomup |-> 2, leftup |-> 1, rightup |-> 3]
Known == DOMAIN Transform
Mode(t) == IF t \in {0, 2} THEN "portrait" ELSE "landscape"
Transforms == 0..3
Modes == {"portrait", "landscape"}
Nothing == 4            \* no transform applied yet

ASSUME RotationConstants ==
    /\ Readings \subseteq Known \cup {"undefined"}
    /\ FifoMax \in Nat \ {0} /\ MaxFailures \in Nat

VARIABLES
    sensor,     \* what the accelerometer says
    cached,     \* the proxy's cached property
    locked,     \* the rotation-locked setting
    setup,      \* the setup session, not the owner's
    driver,     \* the process that writes the FIFO
    follower,   \* the resize helper of the setup session
    weston,     \* transform of the output, and its place in write_state
    fifo, file, \* /run/t630-weston-rotation and its .state ("" when empty)
    xmode, gmode, \* sizes of the Xwayland and of the GNOME monitor
    faults      \* what failed so far

rotation == <<sensor, cached, locked, setup, driver, follower, weston, fifo, file, xmode, gmode,
              faults>>

RotationTypeOK ==
    /\ sensor \in Readings /\ cached \in Readings
    /\ locked \in BOOLEAN /\ setup \in BOOLEAN
    /\ driver \in [pc : {"claim", "idle", "xwl", "gnome", "read", "write", "gone"},
                   pending : Readings \cup {"undefined"}, settled : BOOLEAN,
                   last : Transforms \cup {Nothing}, due : BOOLEAN]
    /\ follower \in [pc : {"idle", "xwl", "gnome", "none"}, target : Transforms,
                     applied : Transforms \cup {Nothing}]
    /\ weston \in [out : Transforms, pc : {"idle", "open", "write"}]
    /\ fifo \in Seq(Transforms) /\ Len(fifo) <= FifoMax
    /\ file \in {<<t>> : t \in Transforms} \cup {<<>>}
    /\ xmode \in Modes /\ gmode \in Modes
    /\ faults \in Seq({"call", "open", "state", "foreign"})

\* Xwayland is started with the geometry of the state file; Weston's
\* configuration starts the output at transform 1.
RotationInit ==
    /\ sensor \in Readings /\ cached = sensor
    /\ locked \in BOOLEAN /\ setup \in BOOLEAN
    /\ driver = [pc |-> "claim", pending |-> "undefined", settled |-> FALSE, last |-> Nothing,
                 due |-> TRUE]
    /\ follower = [pc |-> IF setup THEN "idle" ELSE "none", target |-> 0, applied |-> Nothing]
    /\ weston = [out |-> 1, pc |-> "idle"]
    /\ fifo = <<>> /\ file = <<1>>
    /\ xmode = "landscape" /\ gmode = "landscape"
    /\ faults = <<>>

-----------------------------------------------------------------------------
(* The surroundings.                                                       *)

\* The tablet is turned, or laid flat.
Turn(o) == /\ sensor' = o /\ o # sensor
           /\ UNCHANGED <<cached, locked, setup, driver, follower, weston, fifo, file, xmode,
                          gmode, faults>>

\* The owner's tile in the quick settings.
ToggleLock == /\ locked' = ~locked
              /\ UNCHANGED <<sensor, cached, setup, driver, follower, weston, fifo, file, xmode,
                             gmode, faults>>

Failing(what) == Len(faults) < MaxFailures /\ faults' = Append(faults, what)

\* GNOME takes another size by itself (a recalculated monitor layout).
Foreign == /\ Failing("foreign")
           /\ gmode' \in Modes \ {gmode}
           /\ UNCHANGED <<sensor, cached, locked, setup, driver, follower, weston, fifo, file,
                          xmode>>

-----------------------------------------------------------------------------
(* The driver.                                                             *)

DriverAt(pc) == driver.pc = pc
Target == Transform[driver.pending]

\* queue_rotation with the orientation o.
Queue(d, o) ==
    IF locked /\ ~setup THEN [d EXCEPT !.pending = "undefined"]
    ELSE IF o = "undefined" \/ o = d.pending THEN d
    ELSE [d EXCEPT !.pending = o, !.settled = FALSE]

Idle(d) == [d EXCEPT !.pc = "idle"]
Retry == Idle([driver EXCEPT !.last = Nothing])

\* ClaimAccelerometer: the controller tries again in the next poll, the relay ends.
Claim ==
    /\ DriverAt("claim")
    /\ \/ driver' = Idle(IF setup THEN driver ELSE Queue(driver, cached)) /\ UNCHANGED faults
       \/ /\ Failing("call")
          /\ driver' = IF setup THEN [driver EXCEPT !.pc = "gone"]
                                ELSE [driver EXCEPT !.last = Nothing]
    /\ UNCHANGED <<sensor, cached, locked, setup, follower, weston, fifo, file, xmode, gmode>>

\* g-properties-changed: only a main loop that is idle dispatches it.
Deliver ==
    /\ ~setup /\ driver.pc \in {"claim", "idle"} /\ cached # sensor
    /\ cached' = sensor
    /\ driver' = Queue(driver, sensor)
    /\ UNCHANGED <<sensor, locked, setup, follower, weston, fifo, file, xmode, gmode, faults>>

\* Mutant: the sizes of an orientation that is applied are not verified again.
PollOnce ==
    /\ DriverAt("idle")
    /\ LET d == Queue(driver, cached)
           new == /\ d.pending # "undefined" /\ d.settled
                  /\ Transform[d.pending] # d.last
       IN driver' = [d EXCEPT !.pc = IF ~new \/ (locked /\ ~setup) THEN "idle"
                                     ELSE IF setup THEN "write" ELSE "xwl"]
    /\ UNCHANGED <<sensor, cached, locked, setup, follower, weston, fifo, file, xmode, gmode,
                   faults>>

\* One turn of the timer, or of the relay's loop, up to its decision.
Poll ==
    /\ DriverAt("idle")
    /\ LET d == Queue(driver, cached)
           ready == d.pending # "undefined" /\ d.settled
           new == ready /\ Transform[d.pending] # d.last
       IN driver' = [d EXCEPT !.pc = IF setup THEN IF new THEN "write" ELSE "idle"
                                     ELSE IF locked THEN "idle"
                                     ELSE IF new THEN "xwl"
                                     ELSE IF ready /\ d.due THEN "gnome" ELSE "idle"]
    /\ UNCHANGED <<sensor, cached, locked, setup, follower, weston, fifo, file, xmode, gmode,
                   faults>>

\* SETTLE_SECONDS have passed, or the second after which the sizes are verified.
Tick ==
    /\ DriverAt("idle")
    /\ driver' = [driver EXCEPT !.settled = (driver.pending # "undefined"), !.due = TRUE]
    /\ UNCHANGED <<sensor, cached, locked, setup, follower, weston, fifo, file, xmode, gmode,
                   faults>>

\* Any call of apply_transform may raise, the write to a full FIFO among them
\* (O_NONBLOCK: it never waits for room); the relay does not catch it.
CallFails ==
    /\ driver.pc \in {"xwl", "gnome", "write"}
    /\ Failing("call")
    /\ driver' = IF setup THEN [driver EXCEPT !.pc = "gone"] ELSE Retry
    /\ UNCHANGED <<sensor, cached, locked, setup, follower, weston, fifo, file, xmode, gmode>>

EnsureXwayland ==
    /\ DriverAt("xwl")
    /\ xmode' = Mode(Target) /\ driver' = [driver EXCEPT !.pc = "gnome"]
    /\ UNCHANGED <<sensor, cached, locked, setup, follower, weston, fifo, file, gmode, faults>>

EnsureGnome ==
    /\ DriverAt("gnome")
    /\ gmode' = Mode(Target) /\ driver' = [driver EXCEPT !.pc = "read"]
    /\ UNCHANGED <<sensor, cached, locked, setup, follower, weston, fifo, file, xmode, faults>>

Applied(d) == Idle([d EXCEPT !.last = Target, !.due = FALSE])

\* An unreadable or empty state file counts as another transform.
ReadState ==
    /\ DriverAt("read")
    /\ driver' = IF file = <<Target>> THEN Applied(driver) ELSE [driver EXCEPT !.pc = "write"]
    /\ UNCHANGED <<sensor, cached, locked, setup, follower, weston, fifo, file, xmode, gmode,
                   faults>>

\* The FIFO holds thousands of requests, of which Weston uses the last one only:
\* beyond the bound the oldest is dropped from the model.
Queued(t) == IF Len(fifo) < FifoMax THEN Append(fifo, t) ELSE Append(Tail(fifo), t)

WriteFifo ==
    /\ DriverAt("write")
    /\ fifo' = Queued(Target) /\ driver' = Applied(driver)
    /\ UNCHANGED <<sensor, cached, locked, setup, follower, weston, file, xmode, gmode, faults>>

-----------------------------------------------------------------------------
(* The resize helper of the setup session.                                 *)

Follow ==
    /\ follower.pc = "idle"
    /\ follower' = IF file = <<>> THEN [follower EXCEPT !.applied = Nothing]
                   ELSE IF file = <<follower.applied>> THEN follower
                   ELSE [follower EXCEPT !.pc = "xwl", !.target = Head(file)]
    /\ UNCHANGED <<sensor, cached, locked, setup, driver, weston, fifo, file, xmode, gmode,
                   faults>>

FollowXwayland ==
    /\ follower.pc = "xwl"
    /\ xmode' = Mode(follower.target) /\ follower' = [follower EXCEPT !.pc = "gnome"]
    /\ UNCHANGED <<sensor, cached, locked, setup, driver, weston, fifo, file, gmode, faults>>

FollowGnome ==
    /\ follower.pc = "gnome"
    /\ gmode' = Mode(follower.target)
    /\ follower' = [follower EXCEPT !.pc = "idle", !.applied = follower.target]
    /\ UNCHANGED <<sensor, cached, locked, setup, driver, weston, fifo, file, xmode, faults>>

FollowFails ==
    /\ follower.pc \in {"xwl", "gnome"}
    /\ Failing("call")
    /\ follower' = [follower EXCEPT !.pc = "idle", !.applied = Nothing]
    /\ UNCHANGED <<sensor, cached, locked, setup, driver, weston, fifo, file, xmode, gmode>>

-----------------------------------------------------------------------------
(* The Weston module.                                                      *)

WestonAt(pc) == weston.pc = pc

\* handle_rotation reads until the FIFO is empty; the last request wins.
Handle ==
    /\ fifo # <<>> /\ WestonAt("idle")
    /\ fifo' = <<>>
    /\ weston' = IF Last(fifo) = weston.out THEN weston
                 ELSE [out |-> Last(fifo), pc |-> "open"]
    /\ UNCHANGED <<sensor, cached, locked, setup, driver, follower, file, xmode, gmode, faults>>

\* write_state, whose result nobody looks at: opening truncates the file, and a file
\* that cannot be opened keeps the transform before.
OpenState ==
    /\ WestonAt("open")
    /\ \/ file' = <<>> /\ weston' = [weston EXCEPT !.pc = "write"] /\ UNCHANGED faults
       \/ Failing("open") /\ weston' = [weston EXCEPT !.pc = "idle"] /\ UNCHANGED file
    /\ UNCHANGED <<sensor, cached, locked, setup, driver, follower, fifo, xmode, gmode>>

WriteState ==
    /\ WestonAt("write")
    /\ weston' = [weston EXCEPT !.pc = "idle"]
    /\ \/ file' = <<weston.out>> /\ UNCHANGED faults
       \/ Failing("state") /\ UNCHANGED file
    /\ UNCHANGED <<sensor, cached, locked, setup, driver, follower, fifo, xmode, gmode>>

-----------------------------------------------------------------------------
Surroundings == ToggleLock \/ Foreign \/ \E o \in Readings : Turn(o)
Driver == Claim \/ Poll \/ EnsureXwayland \/ EnsureGnome \/ ReadState \/ WriteFifo
Follower == Follow \/ FollowXwayland \/ FollowGnome
Weston == Handle \/ OpenState \/ WriteState

RotationNext == Surroundings \/ Driver \/ Deliver \/ Tick \/ CallFails \/ Follower \/ FollowFails
                \/ Weston

\* Timers fire, main loops turn, and Weston reads its FIFO; nothing is owed by
\* the hand that turns the tablet or by a failing call.  The timer of the poll
\* runs while signals arrive, and a signal that waits is dispatched.
RotationFairness == /\ SF_rotation(Driver) /\ SF_rotation(Deliver) /\ SF_rotation(Tick)
                    /\ WF_rotation(Follower) /\ WF_rotation(Weston)

RotationSpec == RotationInit /\ [][RotationNext]_rotation /\ RotationFairness

-----------------------------------------------------------------------------
(* What the setup session cannot repair: a relay that ended, a state file  *)
(* left empty or stale, a size changed behind the follower, which looks    *)
(* only when the transform changes.                                        *)
Beyond == setup /\ faults # <<>>

Orientation == IF setup THEN cached ELSE sensor

\* A state file that could not be opened names a transform the output has left: when
\* the tablet is turned back to it, apply_transform finds nothing to do.
Misled(o) == file = <<Transform[o]>> /\ "open" \in Range(faults)

Shows(o) == /\ weston.out = Transform[o] \/ Misled(o)
            /\ xmode = Mode(Transform[o]) /\ gmode = Mode(Transform[o])

(* Once the tablet is held one way and the rotation is not locked, the     *)
(* output and both nested sizes come to that orientation together and stay *)
(* there, whatever was queued, half applied or failing before: the cached  *)
(* property, the settle timer, last_applied, the FIFO and the state file   *)
(* (t630-rotation-controller, handle_rotation) do not end up disagreeing.  *)
(* The exception is an output hidden behind a stale state file (Misled).   *)
Settles ==
    \A o \in Known \cap Readings :
        <>[](Orientation = o /\ (setup \/ ~locked)) => <>[](Beyond \/ Shows(o))
=============================================================================
