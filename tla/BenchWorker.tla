----------------------------- MODULE BenchWorker ----------------------------
(***************************************************************************)
(* One simulator worker process (sim/bench_worker.py) of a bench whose       *)
(* simulator calls run in the server's thread pool.  HTTP handlers start on  *)
(* the event loop; step, reset and observe go on in a pool thread under the  *)
(* per-handle observation lock and the process-wide GL lock; close_env takes *)
(* the observation lock on the loop itself and holds it while it awaits the  *)
(* simulator's close; render_all blocks the loop until its threads are done. *)
(***************************************************************************)
EXTENDS Integers, FiniteSets

CONSTANTS
    Handles,    \* environments, each created at most once
    Requests,   \* requests that can be in the worker at the same time
    Locks,      \* identities for the observation lock objects
    None,       \* no request, no lock, no handle
    Ops,        \* requests that clients make, a subset of AllOps
    MaxReqs,    \* bound: requests made in a behaviour
    MaxSteps    \* bound: num_steps of one step request

AllOps == {"create", "step", "reset", "observe", "close", "render_all"}

ASSUME WorkerAssumption ==
    /\ None \notin Handles \cup Requests \cup Locks
    /\ Ops \subseteq AllOps
    /\ MaxReqs \in Nat /\ MaxSteps \in Nat \ {0}

VARIABLES
    envs,       \* handles in _envs
    lastObs,    \* handles in _last_obs
    done,       \* _done_handles
    terminal,   \* _terminal_step_results: which episode's result, 0 if none
    lockOf,     \* _obs_locks
    holder,     \* who holds each observation lock
    gl,         \* who holds _gl_lock
    loop,       \* the request that keeps the event loop busy
    req,        \* the requests being served
    count,      \* requests made so far
    closed,     \* simulators that were closed (by env.close)
    episode,    \* the simulator's current episode, 0 before it is created
    finished,   \* simulators whose current episode has ended
    unpublished \* simulators with an outcome that an exception kept from the worker

vars == <<envs, lastObs, done, terminal, lockOf, holder, gl, loop, req, count,
          closed, episode, finished, unpublished>>

Free == [op |-> "none", h |-> None, pc |-> "free", lock |-> None, left |-> 0,
         todo |-> {}, term |-> FALSE]

Init ==
    /\ envs = {}
    /\ lastObs = {}
    /\ done = {}
    /\ terminal = [h \in Handles |-> 0]
    /\ lockOf = [h \in Handles |-> None]
    /\ holder = [l \in Locks |-> None]
    /\ gl = None
    /\ loop = None
    /\ req = [r \in Requests |-> Free]
    /\ count = 0
    /\ closed = {}
    /\ episode = [h \in Handles |-> 0]
    /\ finished = {}
    /\ unpublished = {}

obsVars == <<envs, lastObs, done, terminal, unpublished>>
lockVars == <<lockOf, holder, gl>>
simVars == <<closed, episode, finished>>

Goto(r, p) == req' = [req EXCEPT ![r].pc = p]
Answer(r) == req' = [req EXCEPT ![r] = Free]

-----------------------------------------------------------------------------
(* Handlers start on the event loop.  A handle that is not in _envs is        *)
(* answered at once and changes nothing.                                      *)

Arrive(r, new) ==
    /\ loop = None /\ req[r].pc = "free"
    /\ count < MaxReqs /\ count' = count + 1
    /\ req' = [req EXCEPT ![r] = new]

\* create_env names the environment only after it has been built.
StartCreate(r, h) ==
    /\ "create" \in Ops
    /\ episode[h] = 0 /\ \A q \in Requests : req[q].h # h
    /\ Arrive(r, [Free EXCEPT !.op = "create", !.h = h, !.pc = "gl"])
    /\ UNCHANGED <<obsVars, lockVars, simVars, loop>>

StartStep(r, h, n) ==
    /\ h \in envs /\ "step" \in Ops
    /\ Arrive(r, [Free EXCEPT !.op = "step", !.h = h, !.left = n, !.pc = "getlock"])
    /\ UNCHANGED <<obsVars, lockVars, simVars, loop>>

StartReset(r, h) ==
    /\ h \in envs /\ "reset" \in Ops
    /\ Arrive(r, [Free EXCEPT !.op = "reset", !.h = h, !.pc = "getlock"])
    /\ UNCHANGED <<obsVars, lockVars, simVars, loop>>

\* observe_env and render_env
StartObserve(r, h) ==
    /\ h \in envs /\ "observe" \in Ops
    /\ Arrive(r, [Free EXCEPT !.op = "observe", !.h = h, !.pc = "read"])
    /\ UNCHANGED <<obsVars, lockVars, simVars, loop>>

StartRenderAll(r) ==
    /\ envs # {} /\ "render_all" \in Ops
    /\ Arrive(r, [Free EXCEPT !.op = "render_all", !.todo = envs, !.pc = "pick"])
    /\ loop' = r
    /\ UNCHANGED <<obsVars, lockVars, simVars>>

\* close_env, of any handle and at any time, gets the lock object and waits for
\* it on the event loop.
StartClose(r, h) ==
    /\ "close" \in Ops
    /\ Arrive(r, [Free EXCEPT !.op = "close", !.h = h, !.pc = "getlock"])
    /\ loop' = r
    /\ UNCHANGED <<obsVars, lockVars, simVars>>

-----------------------------------------------------------------------------
(* The observation lock. *)

\* Lock objects that are neither in the table nor in a request's hands.
UnusedLocks == {l \in Locks : /\ \A g \in Handles : lockOf[g] # l
                              /\ \A q \in Requests : req[q].lock # l}

\* _obs_lock_for finds the lock of the handle or makes a new object (bound:
\* Locks is the number of objects in use at a time).
GetLock(r) ==
    LET h == req[r].h
        l == IF lockOf[h] # None THEN lockOf[h] ELSE CHOOSE k \in UnusedLocks : TRUE
    IN
    /\ req[r].pc = "getlock"
    /\ lockOf[h] # None \/ UnusedLocks # {}
    /\ lockOf' = [lockOf EXCEPT ![h] = l]
    /\ req' = [req EXCEPT ![r].lock = l, ![r].pc = "wait"]
    /\ UNCHANGED <<obsVars, holder, gl, simVars, loop, count>>

\* Mutant: a step does not look again whether its environment is open.
TakeLockUnchecked(r) ==
    /\ req[r].pc = "wait"
    /\ holder[req[r].lock] = None
    /\ holder' = [holder EXCEPT ![req[r].lock] = r]
    /\ Goto(r, IF req[r].op = "close" THEN "pop"
               ELSE IF req[r].op = "step" /\ req[r].h \in done THEN "end" ELSE "gl")
    /\ UNCHANGED <<obsVars, lockOf, gl, simVars, loop, count>>

\* The lock is taken.  A step first looks whether the episode is over, then
\* whether the environment was closed; a reset and a render do not.
TakeLock(r) ==
    /\ req[r].pc = "wait"
    /\ holder[req[r].lock] = None
    /\ holder' = [holder EXCEPT ![req[r].lock] = r]
    /\ Goto(r, IF req[r].op = "close" THEN "pop"
               ELSE IF req[r].op = "step" /\ (req[r].h \in done \/ req[r].h \notin envs)
               THEN "end" ELSE "gl")
    /\ UNCHANGED <<obsVars, lockOf, gl, simVars, loop, count>>

\* _gl_lock, taken inside the observation lock.
TakeGL(r) ==
    /\ req[r].pc = "gl"
    /\ gl = None
    /\ gl' = r
    /\ Goto(r, "sim")
    /\ UNCHANGED <<obsVars, lockOf, holder, simVars, loop, count>>

-----------------------------------------------------------------------------
(* Simulator calls under the GL lock. *)

\* gym.make, which may fail; the loop registers a new environment.
SimCreate(r) ==
    /\ req[r].pc = "sim" /\ req[r].op = "create"
    /\ \/ /\ episode' = [episode EXCEPT ![req[r].h] = 1]
          /\ Goto(r, "register")
       \/ Answer(r) /\ UNCHANGED episode
    /\ gl' = None
    /\ UNCHANGED <<obsVars, lockOf, holder, closed, finished, loop, count>>

Register(r) ==
    /\ req[r].pc = "register" /\ loop = None
    /\ envs' = envs \cup {req[r].h}
    /\ Answer(r)
    /\ UNCHANGED <<lastObs, done, terminal, unpublished, lockVars, simVars, loop, count>>

\* env.step, which may end the episode.
SimStep(r) ==
    LET h == req[r].h IN
    /\ req[r].pc = "sim" /\ req[r].op = "step"
    /\ \E term \in BOOLEAN :
        /\ finished' = IF term THEN finished \cup {h} ELSE finished
        /\ req' = [req EXCEPT ![r].pc = "publish", ![r].term = term]
    /\ gl' = None
    /\ UNCHANGED <<obsVars, lockOf, holder, closed, episode, loop, count>>

\* env.reset
SimReset(r) ==
    LET h == req[r].h IN
    /\ req[r].pc = "sim" /\ req[r].op = "reset"
    /\ finished' = finished \ {h}
    /\ episode' = [episode EXCEPT ![h] = @ + 1]
    /\ gl' = None
    /\ Goto(r, "publish")
    /\ UNCHANGED <<obsVars, lockOf, holder, closed, loop, count>>

\* env.step or env.reset raises: the request is answered with the error.
SimRaises(r) ==
    /\ req[r].pc = "sim" /\ req[r].op \in {"step", "reset"}
    /\ gl' = None
    /\ req' = [req EXCEPT ![r].pc = "end", ![r].left = 0]
    /\ UNCHANGED <<obsVars, lockOf, holder, simVars, loop, count>>

\* env.render, for an observation
SimRender(r) ==
    /\ req[r].pc = "sim" /\ req[r].op \in {"observe", "render_all"}
    /\ gl' = None
    /\ Goto(r, "end")
    /\ UNCHANGED <<obsVars, lockOf, holder, simVars, loop, count>>

-----------------------------------------------------------------------------
(* Publishing the outcome, still under the observation lock. *)

\* _step_with_image: the observation, and with the end of an episode the done
\* bit and its exact result together.
PublishStep(r) ==
    LET h == req[r].h IN
    /\ req[r].pc = "publish" /\ req[r].op = "step"
    /\ lastObs' = lastObs \cup {h}
    /\ IF req[r].term
       THEN done' = done \cup {h} /\ terminal' = [terminal EXCEPT ![h] = episode[h]]
       ELSE UNCHANGED <<done, terminal>>
    /\ Goto(r, "end")
    /\ UNCHANGED <<envs, unpublished, lockVars, simVars, loop, count>>

\* Mutant: a reset keeps the result of the episode before.
PublishResetStale(r) ==
    LET h == req[r].h IN
    /\ req[r].pc = "publish" /\ req[r].op = "reset"
    /\ lastObs' = lastObs \cup {h}
    /\ done' = done \ {h}
    /\ unpublished' = unpublished \ {h}
    /\ Goto(r, "end")
    /\ UNCHANGED <<envs, terminal, lockVars, simVars, loop, count>>

\* _reset_with_image: a fresh episode, stepping is allowed again.
PublishReset(r) ==
    LET h == req[r].h IN
    /\ req[r].pc = "publish" /\ req[r].op = "reset"
    /\ lastObs' = lastObs \cup {h}
    /\ done' = done \ {h}
    /\ terminal' = [terminal EXCEPT ![h] = 0]
    /\ unpublished' = unpublished \ {h}
    /\ Goto(r, "end")
    /\ UNCHANGED <<envs, lockVars, simVars, loop, count>>

\* An exception between the return of the simulator and the publication: a step
\* has stored its observation, but neither the done bit nor the result; a reset,
\* whose render raises, has stored nothing, so the episode before stays.
PublishRaises(r) ==
    LET h == req[r].h IN
    /\ req[r].pc = "publish"
    /\ IF req[r].op = "step"
       THEN /\ lastObs' = lastObs \cup {h}
            /\ unpublished' = IF req[r].term THEN unpublished \cup {h} ELSE unpublished
       ELSE unpublished' = unpublished \cup {h} /\ UNCHANGED lastObs
    /\ req' = [req EXCEPT ![r].pc = "end", ![r].left = 0]
    /\ UNCHANGED <<envs, done, terminal, lockVars, simVars, loop, count>>

\* Mutant: the steps of a request are not counted to their end.
LeaveUncounted(r) ==
    LET c == req[r] IN
    /\ c.pc = "end"
    /\ holder' = [holder EXCEPT ![c.lock] = None]
    /\ IF c.op = "render_all"
       THEN req' = [req EXCEPT ![r] = [c EXCEPT !.pc = "pick", !.lock = None, !.h = None]]
       ELSE IF c.op = "step" /\ ~c.term /\ c.h \notin done /\ c.h \in envs
       THEN req' = [req EXCEPT ![r] = [c EXCEPT !.pc = "getlock", !.lock = None, !.left = @ - 1]]
       ELSE Answer(r)
    /\ UNCHANGED <<obsVars, lockOf, gl, simVars, loop, count>>

\* Mutant: a step request starts again until the episode ends.
LeaveRepeating(r) ==
    LET c == req[r] IN
    /\ c.pc = "end"
    /\ holder' = [holder EXCEPT ![c.lock] = None]
    /\ IF c.op = "render_all"
       THEN req' = [req EXCEPT ![r] = [c EXCEPT !.pc = "pick", !.lock = None, !.h = None]]
       ELSE IF c.op = "step" /\ ~c.term /\ c.h \notin done /\ c.h \in envs
       THEN req' = [req EXCEPT ![r] = [c EXCEPT !.pc = "getlock", !.lock = None]]
       ELSE Answer(r)
    /\ UNCHANGED <<obsVars, lockOf, gl, simVars, loop, count>>

\* The lock is left.  A step request goes on until num_steps are made or one
\* of them reports the end; render_all picks the next environment.
Leave(r) ==
    LET c == req[r] IN
    /\ c.pc = "end"
    /\ holder' = [holder EXCEPT ![c.lock] = None]
    /\ IF c.op = "render_all"
       THEN req' = [req EXCEPT ![r] = [c EXCEPT !.pc = "pick", !.lock = None, !.h = None]]
       ELSE IF c.op = "step" /\ c.left > 1 /\ ~c.term /\ c.h \notin done /\ c.h \in envs
       THEN req' = [req EXCEPT ![r] = [c EXCEPT !.pc = "getlock", !.lock = None,
                                                !.left = @ - 1]]
       ELSE Answer(r)
    /\ UNCHANGED <<obsVars, lockOf, gl, simVars, loop, count>>

\* _observe_with_image reads _last_obs before it takes the lock.
ReadObs(r) ==
    /\ req[r].pc = "read"
    /\ IF req[r].h \in lastObs
       THEN Goto(r, "getlock")
       ELSE IF req[r].op = "render_all"
       THEN req' = [req EXCEPT ![r].pc = "pick", ![r].h = None]
       ELSE Answer(r)
    /\ UNCHANGED <<obsVars, lockVars, simVars, loop, count>>

\* render_all renders the environments one after the other (in the code, up
\* to eight threads at a time, which the GL lock orders) ...
PickNext(r, h) ==
    /\ req[r].pc = "pick" /\ h \in req[r].todo
    /\ req' = [req EXCEPT ![r].pc = IF h \in envs THEN "read" ELSE "pick",
                          ![r].h = IF h \in envs THEN h ELSE None,
                          ![r].todo = @ \ {h}]
    /\ UNCHANGED <<obsVars, lockVars, simVars, loop, count>>

\* ... and gives the event loop back when all are answered.
RenderAllDone(r) ==
    /\ req[r].pc = "pick" /\ req[r].todo = {}
    /\ loop' = None
    /\ Answer(r)
    /\ UNCHANGED <<obsVars, lockVars, simVars, count>>

-----------------------------------------------------------------------------
(* close_env. *)

\* The handle's entries go; if it was open the loop is free while the
\* simulator is closed in a pool thread, with the observation lock held.
ClosePop(r) ==
    LET h == req[r].h IN
    /\ req[r].pc = "pop"
    /\ envs' = envs \ {h}
    /\ lastObs' = lastObs \ {h}
    /\ done' = done \ {h}
    /\ terminal' = [terminal EXCEPT ![h] = 0]
    /\ IF h \in envs THEN Goto(r, "closing") /\ loop' = None
                     ELSE Goto(r, "unlock") /\ UNCHANGED loop
    /\ UNCHANGED <<unpublished, lockVars, simVars, count>>

\* env.close, outside the GL lock
SimClose(r) ==
    /\ req[r].pc = "closing"
    /\ closed' = closed \cup {req[r].h}
    /\ Goto(r, "resume")
    /\ UNCHANGED <<obsVars, lockVars, episode, finished, loop, count>>

\* The await is over once the loop gets to it.
CloseResume(r) ==
    /\ req[r].pc = "resume" /\ loop = None
    /\ loop' = r
    /\ Goto(r, "unlock")
    /\ UNCHANGED <<obsVars, lockVars, simVars, count>>

\* The lock is left and the handle's entry dropped, whatever lock it holds.
CloseEnd(r) ==
    /\ req[r].pc = "unlock"
    /\ holder' = [holder EXCEPT ![req[r].lock] = None]
    /\ lockOf' = [lockOf EXCEPT ![req[r].h] = None]
    /\ loop' = None
    /\ Answer(r)
    /\ UNCHANGED <<obsVars, gl, simVars, count>>

\* A second DELETE of an environment that is being closed waits for the lock on
\* the event loop, which the first one needs to go on and leave the lock.
LoopBlocked ==
    \E r, q \in Requests :
        /\ loop = r /\ req[r].op = "close" /\ req[r].pc = "wait"
        /\ req[q].pc \in {"closing", "resume"} /\ holder[req[r].lock] = q

\* A worker with no request waits for one; a blocked loop waits for good.
Quiescent ==
    /\ LoopBlocked \/ \A r \in Requests : req[r].pc = "free"
    /\ UNCHANGED vars

-----------------------------------------------------------------------------
Serve(r) ==
    \/ GetLock(r) \/ TakeLock(r) \/ TakeGL(r)
    \/ SimCreate(r) \/ Register(r)
    \/ SimStep(r) \/ SimReset(r) \/ SimRaises(r) \/ SimRender(r)
    \/ PublishStep(r) \/ PublishReset(r) \/ PublishRaises(r) \/ Leave(r)
    \/ ReadObs(r) \/ (\E h \in Handles : PickNext(r, h)) \/ RenderAllDone(r)
    \/ ClosePop(r) \/ SimClose(r) \/ CloseResume(r) \/ CloseEnd(r)

Next ==
    \/ \E r \in Requests :
        \/ Serve(r)
        \/ StartRenderAll(r)
        \/ \E h \in Handles :
            \/ \E n \in 1..MaxSteps : StartStep(r, h, n)
            \/ StartCreate(r, h) \/ StartReset(r, h) \/ StartObserve(r, h) \/ StartClose(r, h)
    \/ Quiescent

\* Pool threads and the loop make progress whenever they can.
Fairness == \A r \in Requests : WF_vars(Serve(r))

Spec == Init /\ [][Next]_vars /\ Fairness

-----------------------------------------------------------------------------
(* Properties. *)

TypeOK ==
    /\ envs \subseteq Handles /\ lastObs \subseteq Handles /\ done \subseteq Handles
    /\ terminal \in [Handles -> Nat] /\ episode \in [Handles -> Nat]
    /\ closed \subseteq Handles /\ finished \subseteq Handles /\ unpublished \subseteq Handles
    /\ lockOf \in [Handles -> Locks \cup {None}]
    /\ holder \in [Locks -> Requests \cup {None}]
    /\ gl \in Requests \cup {None} /\ loop \in Requests \cup {None}
    /\ count \in 0..MaxReqs
    /\ req \in [Requests ->
          [op : AllOps \cup {"none"}, h : Handles \cup {None},
           pc : {"free", "register", "read", "getlock", "wait", "gl", "sim", "publish", "end",
                 "pick", "pop", "closing", "resume", "unlock"},
           lock : Locks \cup {None}, left : 0..MaxSteps, todo : SUBSET Handles,
           term : BOOLEAN]]

\* env.step is never called on an environment that close_env has torn down, nor
\* on a finished episode, which robosuite answers with an exception, unless an
\* exception kept the end of the episode from the worker.
StepOnlyLive ==
    \A r \in Requests :
        req[r].op = "step" /\ req[r].pc = "sim" =>
            /\ req[r].h \notin closed
            /\ req[r].h \in finished => req[r].h \in unpublished

\* No request is inside an environment's locked region.
Calm(h) ==
    \A r \in Requests :
        req[r].h = h => req[r].pc \notin {"sim", "publish", "end", "pop", "closing", "resume", "unlock"}

\* The end of an episode and its exact result are published together, so that a
\* repeated step always finds a result to replay; and, unless an exception kept
\* an outcome from the worker, what it replays is the current episode's.
TerminalResultExact ==
    \A h \in envs :
        Calm(h) => /\ h \in done <=> terminal[h] # 0
                   /\ h \notin unpublished =>
                        terminal[h] = IF h \in finished THEN episode[h] ELSE 0

\* Every request is answered unless the loop is blocked by a second DELETE of an
\* environment: nothing else makes the observation locks, the GL lock and the
\* event loop wait for each other, however requests overlap.
EveryRequestAnswered ==
    \A r \in Requests : req[r].pc # "free" ~> (req[r].pc = "free" \/ LoopBlocked)

\* "Offloading to a threadpool keeps the loop free so /health stays responsive".
\* It does not hold of two DELETEs of one environment (MCBenchWorker_twice).
LoopStaysResponsive == []<>(loop = None)

=============================================================================
