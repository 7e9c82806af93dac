----------------------------- MODULE WorkerPool -----------------------------
(***************************************************************************)
(* The pool of simulator worker processes that sim/mcp_server/worker_mgr.py *)
(* keeps for one bench.  A worker is named by its base URL.  An environment *)
(* (a handle) takes a slot on one worker before it is created there, keeps  *)
(* it while it is open, and gives it back when it is closed.  Every method  *)
(* of BenchWorkerManager modelled here holds the manager's lock from end to *)
(* end, so each is one action.                                             *)
(***************************************************************************)
EXTENDS Integers, FiniteSets

CONSTANTS
    Handles,    \* environments that clients may ask for
    Urls,       \* base URLs (host and port) a worker process can be given
    NoUrl,      \* the slot of a handle that never acquired one
    PoolMax,    \* OPENETA_WORKER_POOL_MAX
    SingleUse   \* TRUE for the "behavior" bench, whose release stops the worker

ASSUME HandlesAssumption == IsFiniteSet(Handles)
ASSUME UrlsAssumption == NoUrl \notin Urls
ASSUME PoolMaxAssumption == PoolMax \in Nat \ {0}
ASSUME SingleUseAssumption == SingleUse \in BOOLEAN

VARIABLES
    pool,       \* workers in _pools[bench]
    envCount,   \* BenchWorkerHandle.env_count
    running,    \* workers whose process has not exited
    inherited,  \* URLs whose worker was started while an environment still held
                \* the slot of an earlier worker there
    hosted,     \* environments in each worker process
    phase,      \* where each handle is between acquire_worker and release_worker
    slot        \* the worker URL each handle was pinned to

poolVars == <<pool, envCount, running, inherited, hosted, phase, slot>>

\* The phases in which an environment holds its slot, and all of them.
Holding == {"creating", "failing", "open", "closing"}
Phases == Holding \cup {"unused", "released"}

TypeOK ==
    /\ pool \subseteq Urls
    /\ envCount \in [Urls -> Nat]
    /\ running \subseteq Urls
    /\ inherited \subseteq Urls
    /\ hosted \in [Urls -> SUBSET Handles]
    /\ phase \in [Handles -> Phases]
    /\ slot \in [Handles -> Urls \cup {NoUrl}]

Init ==
    /\ pool = {}
    /\ envCount = [u \in Urls |-> 0]
    /\ running = {}
    /\ inherited = {}
    /\ hosted = [u \in Urls |-> {}]
    /\ phase = [h \in Handles |-> "unused"]
    /\ slot = [h \in Handles |-> NoUrl]

-----------------------------------------------------------------------------
(* Choosing a worker. *)

\* Workers left once those whose process has exited are dropped.
Live == pool \cap running

LeastLoaded == {w \in Live : \A v \in Live : envCount[w] <= envCount[v]}

\* Mutant: the pool never grows past its first worker.
WantsWorkerLazily == Live = {}

\* A new worker is spawned when there is none, or when the least loaded one
\* already has an environment and the pool has room.
WantsWorker ==
    \/ Live = {}
    \/ Cardinality(Live) < PoolMax /\ \A v \in Live : envCount[v] > 0

\* The kernel gives a new worker any free port, a dead worker's too.
FreshUrls == Urls \ Live

\* The environments that hold a slot on worker u.
Owners(u) ==
    {h \in Handles : slot[h] = u /\ phase[h] \in Holding}

\* A spawned worker starts with a new process and an env_count of its own.
Spawn(w, count) ==
    /\ pool' = Live \cup {w}
    /\ running' = running \cup {w}
    /\ inherited' = IF Owners(w) = {} THEN inherited \ {w} ELSE inherited \cup {w}
    /\ envCount' = [envCount EXCEPT ![w] = count]
    /\ hosted' = [hosted EXCEPT ![w] = {}]

\* acquire_worker: prune, pick or grow, count the new environment.
Acquire(h) ==
    /\ phase[h] = "unused"
    /\ \E w \in Urls :
        /\ \/ WantsWorker /\ w \in FreshUrls /\ Spawn(w, 1)
           \/ /\ ~WantsWorker
              /\ w \in LeastLoaded
              /\ pool' = Live
              /\ envCount' = [envCount EXCEPT ![w] = @ + 1]
              /\ UNCHANGED <<running, inherited, hosted>>
        /\ slot' = [slot EXCEPT ![h] = w]
    /\ phase' = [phase EXCEPT ![h] = "creating"]

\* acquire_worker or ensure_worker when the process cannot be started: the
\* dead workers are dropped and the call raises with no slot taken.
SpawnFails ==
    /\ WantsWorker
    /\ pool' = Live
    /\ UNCHANGED <<envCount, running, inherited, hosted, phase, slot>>

\* ensure_worker: prune, and start a first worker that holds no environment.
EnsureWorker ==
    /\ \/ Live # {} /\ pool' = Live /\ UNCHANGED <<envCount, running, inherited, hosted>>
       \/ Live = {} /\ \E w \in FreshUrls : Spawn(w, 0)
    /\ UNCHANGED <<phase, slot>>

\* release_worker: one reference less, or the end of a single-use worker.
DropRef(u) ==
    IF u \notin pool
    THEN UNCHANGED <<pool, envCount, running, hosted>>
    ELSE IF SingleUse
    THEN /\ pool' = pool \ {u}
         /\ running' = running \ {u}
         /\ hosted' = [hosted EXCEPT ![u] = {}]
         /\ UNCHANGED envCount
    ELSE /\ envCount' = [envCount EXCEPT ![u] = IF @ > 0 THEN @ - 1 ELSE 0]
         /\ UNCHANGED <<pool, running, hosted>>

-----------------------------------------------------------------------------
(* The life of one environment. *)

\* POST /env answered: the worker hosts the environment.
CreateOk(h) ==
    /\ phase[h] = "creating"
    /\ slot[h] \in running
    /\ hosted' = [hosted EXCEPT ![slot[h]] = @ \cup {h}]
    /\ phase' = [phase EXCEPT ![h] = "open"]
    /\ UNCHANGED <<pool, envCount, running, inherited, slot>>

\* Mutant: a failed create forgets to give its slot back.
CreateErrorForgets(h) ==
    /\ phase[h] = "creating"
    /\ phase' = [phase EXCEPT ![h] = "released"]
    /\ UNCHANGED <<pool, envCount, running, inherited, hosted, slot>>

\* Mutant: the slot is given back where the error is found and once more.
CreateErrorTwice(h) ==
    /\ phase[h] = "creating"
    /\ DropRef(slot[h])
    /\ phase' = [phase EXCEPT ![h] = "failing"]
    /\ UNCHANGED <<inherited, slot>>

\* POST /env failed.  When only its answer was lost (the HTTP timeout), the
\* worker has created an environment that nobody knows the handle of.
CreateError(h) ==
    /\ phase[h] = "creating"
    /\ \/ slot[h] \in running /\ hosted' = [hosted EXCEPT ![slot[h]] = @ \cup {h}]
       \/ UNCHANGED hosted
    /\ phase' = [phase EXCEPT ![h] = "failing"]
    /\ UNCHANGED <<pool, envCount, running, inherited, slot>>

\* DELETE /env/{handle}, sent by whoever closes the environment; the request
\* may fail, and the proxy never raises.
Delete(h) ==
    /\ phase[h] = "open"
    /\ phase' = [phase EXCEPT ![h] = "closing"]
    /\ \/ hosted' = [hosted EXCEPT ![slot[h]] = @ \ {h}]
       \/ UNCHANGED hosted
    /\ UNCHANGED <<pool, envCount, running, inherited, slot>>

\* The release that follows a failed POST (create_env_on_worker) or the DELETE,
\* whatever its outcome (close_env, _cleanup_session).
Release(h) ==
    /\ phase[h] \in {"failing", "closing"}
    /\ DropRef(slot[h])
    /\ phase' = [phase EXCEPT ![h] = "released"]
    /\ UNCHANGED <<inherited, slot>>

\* A worker process dies; the manager notices at its next acquire.
Crash(u) ==
    /\ u \in running
    /\ running' = running \ {u}
    /\ hosted' = [hosted EXCEPT ![u] = {}]
    /\ UNCHANGED <<pool, envCount, inherited, phase, slot>>

\* stop_all, when the server exits.
StopAll ==
    /\ pool # {}
    /\ running' = running \ pool
    /\ hosted' = [u \in Urls |-> IF u \in pool THEN {} ELSE hosted[u]]
    /\ pool' = {}
    /\ UNCHANGED <<envCount, inherited, phase, slot>>

Next ==
    \/ \E h \in Handles :
        \/ Acquire(h)
        \/ CreateOk(h)
        \/ CreateError(h)
        \/ Delete(h)
        \/ Release(h)
    \/ SpawnFails
    \/ EnsureWorker
    \/ \E u \in Urls : Crash(u)
    \/ StopAll

Spec == Init /\ [][Next]_poolVars
-----------------------------------------------------------------------------
(* Properties. *)

\* The load the balancer sees is the load there is: env_count of a pool worker
\* is the number of environments that took a slot on it and have not given it
\* back, through failed creates, lost answers, dead workers and respawns
\* (acquire_worker, release_worker, create_env_on_worker).  A release finds its
\* worker by URL alone, so it fails for a worker on the port of a dead one of
\* which an environment is still to be closed.
SlotAccounting ==
    \A u \in pool \ inherited : envCount[u] = Cardinality(Owners(u))

\* Whatever ports the kernel gives, no slot leaks: a worker never counts an
\* environment that gave its slot back, so that a pool without environments is
\* one the next environment finds free (release_worker).
NoSlotLeaks ==
    \A u \in pool : envCount[u] <= Cardinality(Owners(u))

\* "so concurrent creates fan out instead of queuing on a single process": an
\* environment joins a worker that has one only in a full pool of workers that
\* all have as many at least (acquire_worker).
SpreadsLoad ==
    [][\A h \in Handles :
          LET w == slot'[h] IN
          /\ phase[h] = "unused" /\ phase'[h] = "creating"
          /\ pool \cap inherited = {}
          /\ w \in Live /\ Owners(w) # {}
          => /\ Cardinality(Live) >= PoolMax
             /\ \A v \in Live : Cardinality(Owners(w)) <= Cardinality(Owners(v))]_poolVars

\* "env_count: live envs on this worker (for load balancing)": the load of a
\* worker is at least the environments in its process that a client still
\* holds open (those a lost answer left behind have no client).
CountCoversOpen ==
    \A u \in (pool \cap running) \ inherited :
        Cardinality({h \in hosted[u] : phase[h] = "open"}) <= envCount[u]

\* "A BEHAVIOR worker is deliberately single-environment / single-use" (the
\* comment in release_worker).  It does not hold: acquire_worker shares a
\* worker of a full pool whatever the bench, and the first release stops it
\* under the others.
SingleEnvironment == SingleUse => \A u \in pool : Cardinality(Owners(u)) <= 1
=============================================================================
