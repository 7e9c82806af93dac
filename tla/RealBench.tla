------------------------------ MODULE RealBench -----------------------------
(***************************************************************************)
(* The real-robot servers (real/mcp/observation_core.py and -_server.py) in  *)
(* front of one physical bench.  Each server process runs its tool calls one *)
(* after the other on its event loop and owns at most one environment; an    *)
(* flock on a file keeps the processes apart, and the system gives the lock  *)
(* of a dead process back.  A call is several steps, since the bench can     *)
(* fail, and the process can die, at any of them.                            *)
(***************************************************************************)
EXTENDS Integers, FiniteSets

CONSTANTS
    Procs,      \* server processes configured with the same lock file
    None,       \* nobody has the lock
    MaxEnvs,    \* bound: environments created in a behaviour
    MaxCrashes  \* bound: processes killed in a behaviour

ASSUME BenchAssumption ==
    None \notin Procs /\ MaxEnvs \in Nat /\ MaxCrashes \in Nat

VARIABLES
    srv,        \* what each process's manager knows and is doing
    flock,      \* the process that has the lock on the file
    connected,  \* processes with cameras started or the arm connected
    astray,     \* the arm may be anywhere: never homed, or stopped in mid-motion
    created,    \* handles given out so far
    crashes     \* processes killed so far

vars == <<srv, flock, connected, astray, created, crashes>>

NoHandle == 0

\* A process whose manager has no environment.
Fresh(l) == [pc |-> l, handle |-> NoHandle, needsReset |-> FALSE,
             leaked |-> FALSE, exits |-> FALSE]

HasEnv(p) == srv[p].handle # NoHandle

Init ==
    /\ srv = [p \in Procs |-> Fresh("idle")]
    /\ flock = None
    /\ connected = {}
    /\ astray = TRUE
    /\ created = 0
    /\ crashes = 0

Goto(p, l) == srv' = [srv EXCEPT ![p] = [@ EXCEPT !.pc = l]]

-----------------------------------------------------------------------------
(* create_env.  With an environment open, or the lock taken, it changes       *)
(* nothing.                                                                   *)

CreateLock(p) ==
    /\ srv[p].pc = "idle" /\ ~HasEnv(p) /\ created < MaxEnvs
    /\ flock = None /\ flock' = p
    /\ Goto(p, "stamp")
    /\ UNCHANGED <<connected, astray, created, crashes>>

Stamp(p) ==
    /\ srv[p].pc = "stamp"
    /\ Goto(p, "build")
    /\ UNCHANGED <<flock, connected, astray, created, crashes>>

\* Writing the holder's name fails after the lock was taken: the descriptor is
\* forgotten without being closed, so the lock stays with the process.
StampFails(p) ==
    /\ srv[p].pc = "stamp"
    /\ srv' = [srv EXCEPT ![p] = [@ EXCEPT !.pc = "idle", !.leaked = TRUE]]
    /\ UNCHANGED <<flock, connected, astray, created, crashes>>

\* The environment starts its cameras and connects the arm, all or some.
Connect(p) ==
    /\ srv[p].pc = "build"
    /\ connected' = connected \cup {p}
    /\ Goto(p, "reading") \/ Goto(p, "failed")
    /\ UNCHANGED <<flock, astray, created, crashes>>

\* The first observation is there: the manager keeps the environment, unhomed.
Opened(p) ==
    /\ srv[p].pc = "reading"
    /\ created' = created + 1
    /\ srv' = [srv EXCEPT ![p] =
         [@ EXCEPT !.pc = "idle", !.handle = created + 1, !.needsReset = TRUE]]
    /\ UNCHANGED <<flock, connected, astray, crashes>>

ReadFails(p) ==
    /\ srv[p].pc = "reading"
    /\ Goto(p, "failed")
    /\ UNCHANGED <<flock, connected, astray, created, crashes>>

\* Mutant: a failed create keeps the lock.
GiveBackNothing(p) ==
    /\ srv[p].pc = "failed"
    /\ Goto(p, "drop")
    /\ UNCHANGED <<flock, connected, astray, created, crashes>>

\* After a failure the lock goes first; the environment was never closed, and
\* the hardware is let go when the call's frame is dropped.
GiveBack(p) ==
    /\ srv[p].pc = "failed"
    /\ flock' = None
    /\ Goto(p, "drop")
    /\ UNCHANGED <<connected, astray, created, crashes>>

Drop(p) ==
    /\ srv[p].pc = "drop"
    /\ connected' = connected \ {p}
    /\ Goto(p, "idle")
    /\ UNCHANGED <<flock, astray, created, crashes>>

-----------------------------------------------------------------------------
(* observe_env and render_env, reset_env and the control tools.  A call with  *)
(* another environment's handle changes nothing; one without a handle means   *)
(* the environment that is open.                                              *)

Resolves(p, h) == srv[p].pc = "idle" /\ HasEnv(p) /\ h \in {NoHandle, srv[p].handle}

Observe(p, h) ==
    /\ Resolves(p, h)
    /\ Goto(p, "observing")
    /\ UNCHANGED <<flock, connected, astray, created, crashes>>

\* Answered with the observation or with an error.
Observed(p) ==
    /\ srv[p].pc = "observing"
    /\ Goto(p, "idle")
    /\ UNCHANGED <<flock, connected, astray, created, crashes>>

Reset(p, h) ==
    /\ Resolves(p, h)
    /\ Goto(p, "homing")
    /\ UNCHANGED <<flock, connected, astray, created, crashes>>

\* The arm is home; or it stays where it is, since home() does nothing without
\* home joints and the reply of a move is not looked at.
Homed(p) ==
    /\ srv[p].pc = "homing"
    /\ astray' \in {astray, FALSE}
    /\ Goto(p, "resetting")
    /\ UNCHANGED <<flock, connected, created, crashes>>

\* The observation after homing is there: control is unlocked, wherever the arm
\* is.
ResetDone(p) ==
    /\ srv[p].pc = "resetting"
    /\ srv' = [srv EXCEPT ![p] = [@ EXCEPT !.pc = "idle", !.needsReset = FALSE]]
    /\ UNCHANGED <<flock, connected, astray, created, crashes>>

\* Homing raises, perhaps in mid-motion, or the observation does.  The gate stays
\* as it was: after an earlier reset it stays open.
ResetFails(p) ==
    /\ srv[p].pc \in {"homing", "resetting"}
    /\ astray' \in {astray, astray \/ srv[p].pc = "homing"}
    /\ Goto(p, "idle")
    /\ UNCHANGED <<flock, connected, created, crashes>>

\* step_env, move_to, gripper_open, gripper_close
Control(p, h) ==
    /\ Resolves(p, h) /\ ~srv[p].needsReset
    /\ Goto(p, "checking")
    /\ UNCHANGED <<flock, connected, astray, created, crashes>>

\* The state has been read: the envelope rejects the move, or it is made.
Checked(p) ==
    /\ srv[p].pc = "checking"
    /\ Goto(p, "idle") \/ Goto(p, "moving")
    /\ UNCHANGED <<flock, connected, astray, created, crashes>>

\* The move raises, or its observation is read.
Moved(p) ==
    /\ srv[p].pc = "moving"
    /\ Goto(p, "idle") \/ Goto(p, "observing")
    /\ UNCHANGED <<flock, connected, astray, created, crashes>>

\* Every reading of the robot's state reads the gripper's socket under the
\* reader's lock, and so does a motion of the gripper.  When that fails
\* read_state calls close(), which takes the same lock, and it is not reentrant.
ReadGripper(p) ==
    /\ srv[p].pc \in {"reading", "observing", "resetting", "checking", "moving"}
    /\ Goto(p, "stuck")
    /\ UNCHANGED <<flock, connected, astray, created, crashes>>

-----------------------------------------------------------------------------
(* close_env, the end of a server, and its death.                             *)

Close(p, h) ==
    /\ srv[p].pc = "idle" /\ HasEnv(p) /\ h = srv[p].handle
    /\ Goto(p, "closing")
    /\ UNCHANGED <<flock, connected, astray, created, crashes>>

\* Mutant: the lock is given back before the hardware is stopped.
CloseHardwareLast(p) ==
    /\ srv[p].pc = "closing"
    /\ flock' = None
    /\ Goto(p, "releasing")
    /\ UNCHANGED <<connected, astray, created, crashes>>

CloseHardware(p) ==
    /\ srv[p].pc = "closing"
    /\ connected' = connected \ {p}
    /\ Goto(p, "releasing")
    /\ UNCHANGED <<flock, astray, created, crashes>>

\* The environment is forgotten and the lock given back; a server that is
\* ending exits.
CloseRelease(p) ==
    /\ srv[p].pc = "releasing"
    /\ flock' = None
    /\ srv' = [srv EXCEPT ![p] = Fresh(IF srv[p].exits THEN "dead" ELSE "idle")]
    /\ UNCHANGED <<connected, astray, created, crashes>>

\* main's finally: close whatever is open, without asking whose it is.
Teardown(p) ==
    /\ srv[p].pc = "idle"
    /\ IF HasEnv(p)
       THEN /\ srv' = [srv EXCEPT ![p] = [@ EXCEPT !.pc = "closing", !.exits = TRUE]]
            /\ UNCHANGED flock
       ELSE /\ srv' = [srv EXCEPT ![p] = Fresh("dead")]
            /\ flock' = IF flock = p THEN None ELSE flock
    /\ UNCHANGED <<connected, astray, created, crashes>>

\* The system closes the descriptors of a dead process; the arm stops where it
\* was.
Crash(p) ==
    /\ srv[p].pc # "dead"
    /\ crashes < MaxCrashes /\ crashes' = crashes + 1
    /\ astray' = (astray \/ srv[p].pc \in {"homing", "moving"})
    /\ flock' = IF flock = p THEN None ELSE flock
    /\ connected' = connected \ {p}
    /\ srv' = [srv EXCEPT ![p] = Fresh("dead")]
    /\ UNCHANGED created

Restart(p) ==
    /\ srv[p].pc = "dead"
    /\ Goto(p, "idle")
    /\ UNCHANGED <<flock, connected, astray, created, crashes>>

-----------------------------------------------------------------------------

Proceed(p) ==
    \/ Stamp(p) \/ StampFails(p) \/ Connect(p) \/ Opened(p) \/ ReadFails(p)
    \/ GiveBack(p) \/ Drop(p) \/ Observed(p) \/ Homed(p) \/ ResetDone(p)
    \/ ResetFails(p) \/ Checked(p) \/ Moved(p) \/ ReadGripper(p)
    \/ CloseHardware(p) \/ CloseRelease(p)

Call(p) ==
    \/ CreateLock(p)
    \/ \E h \in 0..created :
         Observe(p, h) \/ Reset(p, h) \/ Control(p, h) \/ Close(p, h)

Next == \E p \in Procs : Call(p) \/ Proceed(p) \/ Teardown(p) \/ Crash(p) \/ Restart(p)

Spec == Init /\ [][Next]_vars

-----------------------------------------------------------------------------
(* Properties *)

Opening == {"stamp", "build", "reading", "failed"}
Using == {"observing", "homing", "resetting", "checking", "moving", "closing", "releasing"}

TypeOK ==
    /\ srv \in [Procs -> [pc : {"idle", "drop", "stuck", "dead"} \cup Opening \cup Using,
                          handle : 0..created, needsReset : BOOLEAN,
                          leaked : BOOLEAN, exits : BOOLEAN]]
    /\ flock \in Procs \cup {None}
    /\ connected \subseteq Procs
    /\ astray \in BOOLEAN
    /\ created \in Nat /\ crashes \in Nat
    /\ \A p, q \in Procs : srv[p].handle = srv[q].handle /\ HasEnv(p) => p = q

\* "The bench has a single physical UR5e + cameras, so only one env may drive
\* it": whoever moves the arm, or talks to the hardware at all, has the lock;
\* the one exception is a create that failed, which lets go of the lock a
\* moment before the hardware.
HardwareUnderLock ==
    \A p \in connected : flock = p \/ srv[p].pc = "drop"

\* The lock belongs to an environment: a process that is not in a call has it
\* exactly if it has an environment (or lost the descriptor while stamping),
\* and then, and only then, it is connected.
LockFollowsEnv ==
    \A p \in Procs : srv[p].pc \in {"idle", "dead"} =>
        /\ flock = p <=> HasEnv(p) \/ srv[p].leaked
        /\ p \in connected <=> HasEnv(p)

\* "Block control tools until reset_env has homed the arm": control never moves an
\* arm that is astray.  It does not hold: reset_env unlocks control without home
\* joints, as its docstring says, and a homing that fails after an earlier reset
\* leaves it unlocked.
MovesFromHome ==
    \A p \in Procs : srv[p].pc \in {"checking", "moving"} => ~astray

\* "On any socket error the connection is dropped (so the next call retries
\* cleanly) and an error key is returned": reading the gripper never hangs.
GripperReadReturns == \A p \in Procs : srv[p].pc # "stuck"

=============================================================================
