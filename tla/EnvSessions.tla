---------------------------- MODULE EnvSessions -----------------------------
(***************************************************************************)
(* Sessions of the simulator MCP server (sim/mcp_server/session.py and the  *)
(* tools of server.py) on top of the worker pool.  Tool calls run in worker *)
(* threads; SSE connections and the stale-session sweeper run on the event  *)
(* loop, which also dispatches the calls and is blocked while it sweeps.    *)
(* Each atomic action is one access to a shared dictionary, one lock        *)
(* operation or one request to a worker.                                    *)
(*                                                                          *)
(* _cleanup_session pops a whole dictionary of environments and goes on to  *)
(* iterate over it, while a thread that looked the dictionary up before the *)
(* pop still changes it: envs[s][n] is the n-th dictionary of session s, and *)
(* current[s] the one that _session_envs holds.                             *)
(***************************************************************************)
EXTENDS Integers, FiniteSets

CONSTANTS
    Handles, Urls, NoUrl, PoolMax, SingleUse, \* see WorkerPool
    Sessions,       \* session ids
    Threads,        \* worker threads for tool calls
    Locks,          \* identities for RLock objects
    None,           \* no lock, no thread, no session, no handle
    MaxCalls,       \* bound: tool calls made in a behaviour
    MaxSweeps       \* bound: dictionaries popped per session

ASSUME SessionsAssumption ==
    /\ IsFiniteSet(Handles) /\ NoUrl \notin Urls
    /\ None \notin Threads \cup Locks \cup Sessions \cup Handles
    /\ MaxCalls \in Nat /\ MaxSweeps \in Nat

VARIABLES
    pool, envCount, running, inherited, hosted, phase, slot, \* see WorkerPool
    current,    \* per session, which of its dictionaries is in _session_envs
    envs,       \* the handles in each dictionary of a session
    home,       \* the session a handle was created in
    active,     \* _session_last_activity: "none", "recent" or "idle" (past the TTL)
    sse,        \* _sse_sessions
    minted,     \* SSE session ids already given out
    lockOf,     \* _env_control_locks, by handle
    holder,     \* the thread that holds each lock
    pc, call,   \* each thread's next step and the arguments of its call
    loop,       \* the event loop's sweep
    calls       \* calls dispatched so far

P == INSTANCE WorkerPool

poolVars == <<pool, envCount, running, inherited, hosted, phase, slot>>
threadVars == <<pc, call, calls>>
lockVars == <<lockOf, holder>>
dictVars == <<current, envs, home>>
sessionVars == <<active, sse, minted>>
vars == <<poolVars, dictVars, sessionVars, lockVars, threadVars, loop>>

Init ==
    /\ P!Init
    /\ current = [s \in Sessions |-> 0]
    /\ envs = [s \in Sessions |-> [n \in 0..MaxSweeps |-> {}]]
    /\ home = [h \in Handles |-> None]
    /\ active = [s \in Sessions |-> "none"]
    /\ sse = {}
    /\ minted = {}
    /\ lockOf = [h \in Handles |-> None]
    /\ holder = [l \in Locks |-> None]
    /\ pc = [t \in Threads |-> "idle"]
    /\ call = [t \in Threads |-> [op |-> "none", s |-> None, h |-> None, dict |-> 0, lock |-> None]]
    /\ loop = [pc |-> "idle", stale |-> {}, s |-> None, dict |-> 0, size |-> 0,
               visited |-> {}, h |-> None]
    /\ calls = 0

-----------------------------------------------------------------------------
(* Helpers. *)

Goto(t, p) == pc' = [pc EXCEPT ![t] = p]
Return(t) == /\ Goto(t, "idle")
             /\ call' = [call EXCEPT ![t] = [op |-> "none", s |-> None, h |-> None,
                                             dict |-> 0, lock |-> None]]
Touch(s) == active' = [active EXCEPT ![s] = "recent"]

\* The event loop dispatches a call to a free thread.
Dispatch(t, op, s, h, p) ==
    /\ loop.pc \in {"idle", "dead"}
    /\ pc[t] = "idle"
    /\ calls < MaxCalls
    /\ calls' = calls + 1
    /\ call' = [call EXCEPT ![t] = [op |-> op, s |-> s, h |-> h, dict |-> 0, lock |-> None]]
    /\ Goto(t, p)

\* The request DELETE /env/{handle}: the worker closes the environment if it
\* still hosts it, and answers an error otherwise.
SendDelete(h) == IF phase[h] = "open" THEN P!Delete(h) ELSE UNCHANGED poolVars

\* release_worker(meta["worker_url"]), whoever calls it.
SendRelease(h) ==
    /\ P!DropRef(slot[h])
    /\ phase' = [phase EXCEPT ![h] = "released"]
    /\ UNCHANGED <<inherited, slot>>

-----------------------------------------------------------------------------
(* create_env. *)

StartCreate(t, s, h) ==
    /\ phase[h] = "unused" /\ \A u \in Threads : call[u].h # h
    /\ Dispatch(t, "create", s, h, "touch")
    /\ UNCHANGED <<poolVars, dictVars, sessionVars, lockVars, loop>>

CreateTouch(t) ==
    /\ pc[t] = "touch"
    /\ Touch(call[t].s)
    /\ Goto(t, "acquire")
    /\ UNCHANGED <<poolVars, dictVars, sse, minted, lockVars, call, calls, loop>>

\* A slot, or an error because the worker it takes cannot be started.
CreateAcquire(t) ==
    /\ pc[t] = "acquire"
    /\ \/ P!Acquire(call[t].h) /\ Goto(t, "post") /\ UNCHANGED call
       \/ P!SpawnFails /\ Return(t)
    /\ UNCHANGED <<dictVars, sessionVars, lockVars, calls, loop>>

CreatePost(t) ==
    /\ pc[t] = "post"
    /\ \/ P!CreateOk(call[t].h) /\ Goto(t, "setdefault")
       \/ P!CreateError(call[t].h) /\ Goto(t, "createfailed")
    /\ UNCHANGED <<dictVars, sessionVars, lockVars, call, calls, loop>>

CreateFailed(t) ==
    /\ pc[t] = "createfailed"
    /\ SendRelease(call[t].h)
    /\ Return(t)
    /\ UNCHANGED <<dictVars, sessionVars, lockVars, calls, loop>>

\* _session_envs.setdefault(sid, {}) finds or makes the current dictionary ...
CreateGetDict(t) ==
    /\ pc[t] = "setdefault"
    /\ call' = [call EXCEPT ![t].dict = current[call[t].s]]
    /\ Goto(t, "insert")
    /\ UNCHANGED <<poolVars, dictVars, sessionVars, lockVars, calls, loop>>

\* ... and [h] = meta stores into the dictionary that was found.
CreateInsert(t) ==
    LET c == call[t] IN
    /\ pc[t] = "insert"
    /\ envs' = [envs EXCEPT ![c.s][c.dict] = @ \cup {c.h}]
    /\ home' = [home EXCEPT ![c.h] = c.s]
    /\ Return(t)
    /\ UNCHANGED <<poolVars, current, sessionVars, lockVars, calls, loop>>

-----------------------------------------------------------------------------
(* _serialized_env_control, around the control tools and close_env. *)

\* A client may call with any handle it was given, open or closed.
StartControl(t, op, h) ==
    /\ home[h] # None
    /\ Dispatch(t, op, home[h], h, "getlock")
    /\ UNCHANGED <<poolVars, dictVars, sessionVars, lockVars, loop>>

\* _env_control_lock finds the lock of the key or makes a new object.
GetLock(t) ==
    LET h == call[t].h IN
    /\ pc[t] = "getlock"
    /\ \E l \in Locks :
        /\ IF lockOf[h] # None
           THEN l = lockOf[h]
           ELSE /\ \A g \in Handles : lockOf[g] # l
                /\ \A u \in Threads : call[u].lock # l
        /\ lockOf' = [lockOf EXCEPT ![h] = l]
        /\ call' = [call EXCEPT ![t].lock = l]
    /\ Goto(t, "lock")
    /\ UNCHANGED <<poolVars, dictVars, sessionVars, holder, calls, loop>>

\* Mutant: the tool runs without waiting for the lock.
TakeLockUnlocked(t) ==
    /\ pc[t] = "lock"
    /\ holder' = [holder EXCEPT ![call[t].lock] = t]
    /\ Touch(call[t].s)
    /\ Goto(t, IF call[t].op = "close" THEN "getdict" ELSE "lookup")
    /\ UNCHANGED <<poolVars, dictVars, sse, minted, lockOf, call, calls, loop>>

\* The lock is taken and the tool's first statement touches the session.
TakeLock(t) ==
    /\ pc[t] = "lock"
    /\ holder[call[t].lock] = None
    /\ holder' = [holder EXCEPT ![call[t].lock] = t]
    /\ Touch(call[t].s)
    /\ Goto(t, IF call[t].op = "close" THEN "getdict" ELSE "lookup")
    /\ UNCHANGED <<poolVars, dictVars, sse, minted, lockOf, call, calls, loop>>

\* Mutant: a tool polls for its environment with the lock held.
ControlLookupPolls(t) ==
    LET c == call[t] IN
    /\ pc[t] = "lookup"
    /\ Goto(t, IF c.h \in envs[c.s][current[c.s]] THEN "remote" ELSE "lookup")
    /\ UNCHANGED <<poolVars, dictVars, sessionVars, lockVars, call, calls, loop>>

\* reset_env, step_env, move_to, gripper_open ...: look the handle up.
ControlLookup(t) ==
    LET c == call[t] IN
    /\ pc[t] = "lookup"
    /\ Goto(t, IF c.h \in envs[c.s][current[c.s]] THEN "remote" ELSE "unlock")
    /\ UNCHANGED <<poolVars, dictVars, sessionVars, lockVars, call, calls, loop>>

\* The requests to the worker are answered.
ControlDone(t) ==
    /\ pc[t] = "remote"
    /\ Goto(t, "unlock")
    /\ UNCHANGED <<poolVars, dictVars, sessionVars, lockVars, call, calls, loop>>

\* close_env: _session_envs.get(sid, {}) ...
CloseGetDict(t) ==
    /\ pc[t] = "getdict"
    /\ call' = [call EXCEPT ![t].dict = current[call[t].s]]
    /\ Goto(t, "pop")
    /\ UNCHANGED <<poolVars, dictVars, sessionVars, lockVars, calls, loop>>

\* Mutant: the request to the worker is left out.
ClosePopSilent(t) ==
    LET c == call[t] IN
    /\ pc[t] = "pop"
    /\ envs' = [envs EXCEPT ![c.s][c.dict] = @ \ {c.h}]
    /\ Goto(t, IF c.h \in envs[c.s][c.dict] THEN "release" ELSE "unlock")
    /\ UNCHANGED <<poolVars, current, home, sessionVars, lockVars, call, calls, loop>>

\* Mutant: close goes on even if another call got the environment first.
ClosePopAlways(t) ==
    LET c == call[t] IN
    /\ pc[t] = "pop"
    /\ envs' = [envs EXCEPT ![c.s][c.dict] = @ \ {c.h}]
    /\ Goto(t, "delete")
    /\ UNCHANGED <<poolVars, current, home, sessionVars, lockVars, call, calls, loop>>

\* ... .pop(handle, None): the one caller that gets the meta closes the env.
ClosePop(t) ==
    LET c == call[t] IN
    /\ pc[t] = "pop"
    /\ envs' = [envs EXCEPT ![c.s][c.dict] = @ \ {c.h}]
    /\ Goto(t, IF c.h \in envs[c.s][c.dict] THEN "delete" ELSE "unlock")
    /\ UNCHANGED <<poolVars, current, home, sessionVars, lockVars, call, calls, loop>>

CloseDelete(t) ==
    /\ pc[t] = "delete"
    /\ SendDelete(call[t].h)
    /\ Goto(t, "release")
    /\ UNCHANGED <<dictVars, sessionVars, lockVars, call, calls, loop>>

CloseRelease(t) ==
    /\ pc[t] = "release"
    /\ SendRelease(call[t].h)
    /\ Goto(t, "unlock")
    /\ UNCHANGED <<dictVars, sessionVars, lockVars, call, calls, loop>>

\* Mutant: every control tool drops the lock's entry when it ends.
UnlockDropping(t) ==
    /\ pc[t] = "unlock"
    /\ holder' = [holder EXCEPT ![call[t].lock] = None]
    /\ Goto(t, "droplock")
    /\ UNCHANGED <<poolVars, dictVars, sessionVars, lockOf, call, calls, loop>>

Unlock(t) ==
    /\ pc[t] = "unlock"
    /\ holder' = [holder EXCEPT ![call[t].lock] = None]
    /\ IF call[t].op = "close"
       THEN Goto(t, "droplock") /\ UNCHANGED call
       ELSE Return(t)
    /\ UNCHANGED <<poolVars, dictVars, sessionVars, lockOf, calls, loop>>

\* After close_env the entry goes if it is still the lock this call used.
DropLock(t) ==
    LET c == call[t] IN
    /\ pc[t] = "droplock"
    /\ lockOf' = [lockOf EXCEPT ![c.h] = IF @ = c.lock THEN None ELSE @]
    /\ Return(t)
    /\ UNCHANGED <<poolVars, dictVars, sessionVars, holder, calls, loop>>

-----------------------------------------------------------------------------
(* The event loop: SSE connections and the stale-session sweeper. *)

\* Mutant: a connection takes a session id that was never given out.
SseConnectUnminted(s) ==
    /\ loop.pc \in {"idle", "dead"}
    /\ s \notin minted /\ active[s] = "none" /\ current[s] = 0
    /\ sse' = sse \cup {s}
    /\ Touch(s)
    /\ UNCHANGED <<minted, poolVars, dictVars, lockVars, threadVars, loop>>

SseConnect(s) ==
    /\ loop.pc \in {"idle", "dead"}
    /\ s \notin minted /\ active[s] = "none" /\ current[s] = 0
    /\ minted' = minted \cup {s}
    /\ sse' = sse \cup {s}
    /\ Touch(s)
    /\ UNCHANGED <<poolVars, dictVars, lockVars, threadVars, loop>>

\* _detach_sse_session: the environments stay for the TTL sweeper.
SseDetach(s) ==
    /\ loop.pc \in {"idle", "dead"}
    /\ s \in sse
    /\ sse' = sse \ {s}
    /\ UNCHANGED <<poolVars, dictVars, active, minted, lockVars, threadVars, loop>>

\* _SESSION_TTL_S passes without a touch.  A call is taken to last less.
Expire(s) ==
    /\ active[s] = "recent"
    /\ \A t \in Threads : call[t].s # s
    /\ active' = [active EXCEPT ![s] = "idle"]
    /\ UNCHANGED <<poolVars, dictVars, sse, minted, lockVars, threadVars, loop>>

\* Mutant: the sweeper only considers sessions of SSE clients.
SweepStartMinted ==
    /\ loop.pc = "idle"
    /\ LET stale == {s \in minted : /\ active[s] = "idle" /\ s \notin sse
                                    /\ current[s] < MaxSweeps} IN
        /\ stale # {}
        /\ loop' = [loop EXCEPT !.pc = "next", !.stale = stale]
    /\ UNCHANGED <<poolVars, dictVars, sessionVars, lockVars, threadVars>>

\* The sweeper wakes up and lists the stale sessions.
SweepStart ==
    /\ loop.pc = "idle"
    /\ LET stale == {s \in Sessions : /\ active[s] = "idle" /\ s \notin sse
                                      /\ current[s] < MaxSweeps} IN
        /\ stale # {}
        /\ loop' = [loop EXCEPT !.pc = "next", !.stale = stale]
    /\ UNCHANGED <<poolVars, dictVars, sessionVars, lockVars, threadVars>>

\* _cleanup_session pops the session's dictionary ...
CleanupPop(s) ==
    /\ loop.pc = "next" /\ s \in loop.stale
    /\ current' = [current EXCEPT ![s] = @ + 1]
    /\ loop' = [loop EXCEPT !.pc = "popped", !.stale = @ \ {s}, !.s = s,
                            !.dict = current[s]]
    /\ UNCHANGED <<poolVars, envs, home, sessionVars, lockVars, threadVars>>

Cleaned == envs[loop.s][loop.dict]

\* ... and starts to iterate over it.
CleanupIter ==
    /\ loop.pc = "popped"
    /\ loop' = [loop EXCEPT !.pc = "iterate", !.size = Cardinality(Cleaned)]
    /\ UNCHANGED <<poolVars, dictVars, sessionVars, lockVars, threadVars>>

\* The next environment of the dictionary.
CleanupNext(h) ==
    /\ loop.pc = "iterate" /\ Cardinality(Cleaned) = loop.size
    /\ h \in Cleaned \ loop.visited
    /\ loop' = [loop EXCEPT !.pc = "delete", !.h = h]
    /\ UNCHANGED <<poolVars, dictVars, sessionVars, lockVars, threadVars>>

\* The iterator finds that the dictionary changed size: the RuntimeError ends
\* the sweeper's task, and nothing starts it again.
CleanupRaises ==
    /\ loop.pc = "iterate" /\ Cardinality(Cleaned) # loop.size
    /\ loop' = [loop EXCEPT !.pc = "dead", !.stale = {}, !.visited = {}, !.size = 0, !.dict = 0, !.s = None]
    /\ UNCHANGED <<poolVars, dictVars, sessionVars, lockVars, threadVars>>

CleanupDelete ==
    /\ loop.pc = "delete"
    /\ SendDelete(loop.h)
    /\ loop' = [loop EXCEPT !.pc = "release"]
    /\ UNCHANGED <<dictVars, sessionVars, lockVars, threadVars>>

CleanupRelease ==
    /\ loop.pc = "release"
    /\ SendRelease(loop.h)
    /\ loop' = [loop EXCEPT !.pc = "iterate", !.visited = @ \cup {loop.h}, !.h = None]
    /\ UNCHANGED <<dictVars, sessionVars, lockVars, threadVars>>

\* The end of _cleanup_session forgets the session.
CleanupEnd ==
    /\ loop.pc = "iterate" /\ Cardinality(Cleaned) = loop.size
    /\ Cleaned \subseteq loop.visited
    /\ active' = [active EXCEPT ![loop.s] = "none"]
    /\ sse' = sse \ {loop.s}
    /\ loop' = [loop EXCEPT !.pc = IF loop.stale = {} THEN "idle" ELSE "next",
                            !.s = None, !.visited = {}, !.size = 0, !.dict = 0]
    /\ UNCHANGED <<poolVars, dictVars, minted, lockVars, threadVars>>

-----------------------------------------------------------------------------
(* The pool on its own. *)

\* A worker process dies under its environments, or a listing of the catalogue
\* makes sure of a worker (list_all_envs), which may fail.
PoolChanges ==
    /\ (\E u \in Urls : P!Crash(u)) \/ P!EnsureWorker \/ P!SpawnFails
    /\ UNCHANGED <<dictVars, sessionVars, lockVars, threadVars, loop>>

\* A server with nothing to do waits for requests.
Quiescent ==
    /\ loop.pc \in {"idle", "dead"} /\ \A t \in Threads : pc[t] = "idle"
    /\ UNCHANGED vars

-----------------------------------------------------------------------------
Thread(t) ==
    \/ CreateTouch(t) \/ CreateAcquire(t) \/ CreatePost(t) \/ CreateFailed(t)
    \/ CreateGetDict(t) \/ CreateInsert(t)
    \/ GetLock(t) \/ TakeLock(t) \/ ControlLookup(t) \/ ControlDone(t)
    \/ CloseGetDict(t) \/ ClosePop(t) \/ CloseDelete(t) \/ CloseRelease(t)
    \/ Unlock(t) \/ DropLock(t)

Sweeper ==
    \/ SweepStart
    \/ \E s \in Sessions : CleanupPop(s)
    \/ \E h \in Handles : CleanupNext(h)
    \/ CleanupIter \/ CleanupRaises \/ CleanupDelete \/ CleanupRelease \/ CleanupEnd

Next ==
    \/ \E t \in Threads :
        \/ Thread(t)
        \/ \E h \in Handles :
            \/ \E s \in Sessions : StartCreate(t, s, h)
            \/ \E op \in {"control", "close"} : StartControl(t, op, h)
    \/ \E s \in Sessions : SseConnect(s) \/ SseDetach(s) \/ Expire(s)
    \/ Sweeper
    \/ PoolChanges
    \/ Quiescent

\* A thread that can go on does, and so does a sweep.
Fairness == /\ \A t \in Threads : WF_vars(Thread(t))
            /\ WF_vars(Sweeper)

Spec == Init /\ [][Next]_vars /\ Fairness
-----------------------------------------------------------------------------
(* Properties. *)

TypeOK ==
    /\ P!TypeOK
    /\ current \in [Sessions -> 0..MaxSweeps]
    /\ envs \in [Sessions -> [0..MaxSweeps -> SUBSET Handles]]
    /\ home \in [Handles -> Sessions \cup {None}]
    /\ active \in [Sessions -> {"none", "recent", "idle"}]
    /\ sse \subseteq minted /\ minted \subseteq Sessions
    /\ lockOf \in [Handles -> Locks \cup {None}]
    /\ holder \in [Locks -> Threads \cup {None}]
    /\ pc \in [Threads -> {"idle", "touch", "acquire", "post", "createfailed",
                           "setdefault", "insert", "getlock", "lock", "lookup",
                           "remote", "getdict", "pop", "delete", "release",
                           "unlock", "droplock"}]
    /\ call \in [Threads -> [op : {"none", "create", "control", "close"},
                             s : Sessions \cup {None}, h : Handles \cup {None},
                             dict : 0..MaxSweeps, lock : Locks \cup {None}]]
    /\ loop \in [pc : {"idle", "next", "popped", "iterate", "delete", "release", "dead"},
                 stale : SUBSET Sessions, s : Sessions \cup {None},
                 dict : 0..MaxSweeps, size : Nat,
                 visited : SUBSET Handles, h : Handles \cup {None}]
    /\ calls \in 0..MaxCalls

\* The requests of one control tool or close never overlap another's on the
\* same environment, although close_env throws the lock object away while
\* other calls may still be waiting for it (_serialized_env_control).
Engaged(t) == pc[t] \in {"remote", "delete", "release"}
ControlExclusion ==
    \A t, u \in Threads :
        t # u /\ Engaged(t) /\ Engaged(u) => call[t].h # call[u].h

\* Without a sweep, a control tool only ever asks for an environment that nobody
\* has closed, its process alive or not.
ControlOnOpen ==
    \A t \in Threads : pc[t] = "remote" => phase[call[t].h] = "open"

\* Without a sweep, every environment that is open on a worker can be reached
\* by its client, or a call is about to make it so or to close it.
OpenIsReachable ==
    \A h \in Handles :
        phase[h] = "open" =>
            \/ \E s \in Sessions : h \in envs[s][current[s]]
            \/ \E t \in Threads :
                  call[t].h = h /\ pc[t] \in {"setdefault", "insert", "delete"}

\* The tools use the pool as its contract asks: every step is one of the pool's
\* own steps, each acquired slot being released once.
UsesPoolCorrectly == [][P!Next]_(poolVars)

\* Every tool call returns: no control lock is left held.
EveryCallReturns == \A t \in Threads : pc[t] # "idle" ~> pc[t] = "idle"

\* A session that went idle with no client connected is cleaned up or touched
\* again, unless the sweeper's task has ended (_stale_session_sweeper).
IdleIsSwept ==
    \A s \in Sessions :
        active[s] = "idle" /\ s \notin sse /\ current[s] < MaxSweeps
            ~> active[s] # "idle" \/ loop.pc = "dead"

=============================================================================
