# A TLA+ development of OpenETA

OpenETA lets a language-model agent drive robots and robot simulators. This
directory models the parts of it where several threads, processes or requests
meet, or where a process may die between two writes: the simulator server with
its pool of worker processes, sessions, frame cache and workers; the server in
front of the real bench; the agent's parallel episode harness with its paused
episodes; the calls to model providers, one of which may be a human; the sharing
of depth predictions; and what an agent session keeps on disk. Every module is a
translation of Python code; `PROJECT.json` ("map") names the lines each
definition stands for.

    tlc -workers 2 -config MCWorkerManager.cfg MCWorkerManager.tla    # model-check a run
    tlapm WorkerManager_proofs.tla                                    # replay the proofs

## 1. Inventory

    agent (agent/)                         simulator server (sim/mcp_server/)      worker process (sim/bench_worker.py)
    ParallelEpisodeHarness
      OpenEtaEpisodeRunner  x n
        OpenEtaAgentRuntime
          planner backend ----HTTP----> model provider | manual VLM proxy (tools/manual_vlm_proxy.py) <-- operator
          DepthPrefetchCoordinator ---> depth service
          AgentMemory, JsonMemoryStore --> files of the session, shared index
        SimulatorMcpEpisodeEnvironment --MCP--> tools, sessions, sweeper
                                         |        BenchWorkerManager ----HTTP----> environments, locks
                                         |        frame cache, SSE streams --/render_all-->
                                         +-----> observation server (real/mcp/) --> bench: cameras, arm, gripper
    openeta-batch --resume-session <--> PausedEpisodeStore (agent/runtime/interactions.py)

### Modelled

| Component | State | Operations | Hard behaviour | What makes it correct |
|---|---|---|---|---|
| **Worker pool** (`worker_mgr.py`: `BenchWorkerManager`) | `_pools`, each worker's `env_count` and process | `ensure_worker`, `acquire_worker`, `release_worker`, `create_env_on_worker`, `stop_all` | workers die at any time and are noticed late; a new one may get the port of a dead one; answers get lost; single-use BEHAVIOR workers | the load that is balanced on is the real one; no slot leaks; environments share a worker only in a full pool |
| **Sessions and control tools** (`session.py`, `server.py`) | `_session_envs`, `_session_last_activity`, `_sse_sessions`, `_env_control_locks` | `create_env`, every control tool, `close_env`, SSE connect and detach, the stale-session sweeper | tools run in threads, the sweeper on the event loop; shared dictionaries, one of them iterated over while it changes; lock objects thrown away | control calls on one environment exclude each other; slots are acquired and released in pairs; idle sessions are swept; every call returns |
| **Render cache** (`worker_mgr.py`) | `_session_last_obs`, `_obs_dirty_gen`, `_obs_render_gen`, `_worker_render_inflight` | steps, resets and goals that mark frames dirty; `move_to` with its closing render; paced background refresh; eviction | a background render overlaps steps and inline renders, and may fail | a clean key shows the present state; no render puts back what another has shown; frames come up to date |
| **Bench worker** (`bench_worker.py`) | `_envs`, `_last_obs`, `_done_handles`, `_terminal_step_results`, `_obs_locks`, `_gl_lock`, the event loop | `create`, `step`, `reset`, `observe`/`render`, `render_all`, `close` | per-handle lock, GL lock and event loop are held in several orders; `close` keeps a lock across an `await` | no step on a closed or finished simulator; the terminal result is exact; every request is answered |
| **Parallel episodes** (`parallel.py`), **episode runner** (`episode.py`), **environment adapter** (`sim_mcp.py`, `runtime.py`) | `_active_workers`, the batch's cancel event, the runner's flags and turn counters, `config.handle` | `run`, `interrupt`, `_run_one`, `start`, `step`, `continue_run`, `close`, `reset` with its retry | resets and turns run in threads that are abandoned at the deadline and answer late; interrupts arrive at any moment; several threads want to close one handle | cancelled and late turns never commit; nothing is left open that somebody could close; environments are closed once; every episode settles |
| **Paused episodes** (`interactions.py`, `batch_eval.py`) | the session's record, its temporary file, the answers in the agent's memory | the batch's `pause`; `resume_paused_episode` with `load`, `save` and `delete` | a command is a process that may fail or die anywhere, and an operator may start two; one temporary file name per session | a question that was told stays answerable until a run had its answer; records and memory agree on what was answered |
| **Real robots** (`real/mcp/`, `real/env.py`, `real/robots/`) | the manager's environment and `flock`, cameras and arm, whether the arm was homed | `create_env`, `reset_env`, `observe`, `control`, `close_env`, exit | several server processes share one bench; hardware fails or hangs in any step; a process is killed in a motion | hardware is only used under the lock; the lock follows the environment |
| **Planner backends, provider limiter** (`backends/planner.py`) | the limiter's semaphore and count, each call's endpoint, attempt and tried endpoints | `decide`, acquire and release, `_request_with_retry` | several planners share slots; waiting for a slot times out; failures of different kinds alternate between endpoints | slots are conserved; a call does not go back to an endpoint that refused it; every call ends |
| **Manual VLM proxy** (`manual_vlm_proxy.py`) | `RequestStore._requests`, each request's event and answer | completion, the operator's respond and cancel, pruning | the operator's answer races the timeout and the client's hang-up; a full store | nobody who waits is forgotten; what the client gets agrees with what became of the request |
| **Depth prefetch** (`depth_prefetch.py`) | `_entries`: an ordered table of futures; the inference slot | prefetch, blocking call, pruning, discard and retry | callers share futures, discard failed ones and retry at the same time; threads that do not start | no frame is predicted twice at a time; no old failure answers a new call; every call is answered |
| **Memory and its store** (`memory.py`, `memory_store.py`, `conversation.py`) | trace, conversation and working-memory files of each session, the index all sessions share; the conversation in memory | turns, actions, facts, compaction, resumption | a process dies between two writes or within a line; processes update one index file | replay gives back the conversation; nothing on disk lacks what it rests on; the index loses no update |

How they interact: the adapter calls `create_env`, `reset_env`, `step_env` and
`close_env` over MCP; those tools take and give back slots of the pool and send
the request to a worker; every step marks the environment's frame dirty, and the
streams of the dashboard ask the workers to render what is dirty. A client that
goes away is cleaned up after by the sweeper, which closes and releases exactly
what `close_env` would.

An episode asks its planner, which waits for a slot of the limiter and then for a
provider; its tools may share depth predictions; its memory is on disk before the
next step; and when it needs a human its record is written, its environment
closed, and another process takes it up.

### Not modelled yet, or out of reach

| Component | Why |
|---|---|
| Cancellation of tool handlers (`tools/registry.py:1152-1187`) | a handler that is abandoned goes on running: in the plan; the handlers themselves are perception and geometry |
| Action pipeline (`pipeline.py`), supervision | gating of proposals and revisions: in the plan |
| Calibration, grasp-strategy and experiment lifecycles, rollout stores | promotion and rollback over files: in the plan |
| Human waits and guidance *within* a running episode | a part of the episode runner that `EpisodeBatch` leaves out |
| BEHAVIOR main-thread executor, reachability and controller-goal requests of the worker; the server's tools that only read, action codecs | no state of their own beyond what the modelled calls have, or third-party simulation |
| Planner prompts and parsing, derivation of facts and bundles in the memory, self-improvement | data and heuristics with hardly any control |
| Perception services | model inference, a pure function of the request |
| Unified environment, controllers, benchmark environments, collision scoring, adapter, calibration geometry | numeric code |
| CLI, GUI, REST pages, evaluations, scripts, logger | front ends and scripts around the components above |

The repository is mostly such code (prompts, geometry, perception handlers,
evaluations), so the modules cover a small share of its lines, but most of those
where something is shared between threads or processes.

`PROJECT.json` lists all components, and under "hazards" the places where the
code can go wrong in ways a test would hardly reach, with the property that
covers each one or the reason why none does.

## 2. Modules

**`WorkerPool`** is the pool of one bench. Every method of the manager holds its
lock from end to end, so each is one action. `phase` and `slot` follow an
environment from `acquire_worker` through `POST /env`, its answer or its loss,
`DELETE` and `release_worker`; `hosted` is what the worker processes really hold,
which the manager never sees. It is also the contract that the sessions are held
to (below). A new worker may get the port, hence the base URL, of a dead one, and
`release_worker` finds workers by URL alone; `inherited` names the workers that
started where an environment still held an earlier worker's slot.

**`EnvSessions`** puts the sessions on top of it (`P == INSTANCE WorkerPool`,
on the same variables). A tool call is a thread with a program counter; each
action is one dictionary access, one lock operation or one request to a worker.
`_cleanup_session` pops a session's dictionary and goes on to iterate over it
while a thread that found the dictionary earlier may still change it; so
dictionaries have identities (`envs[s][n]`). `UsesPoolCorrectly`,
`[][P!Next]_poolVars`, says that the tools only ever make steps the pool allows:
it is the refinement of `WorkerPool` by `EnvSessions` under the identity mapping.
`PoolChanges` are the deaths and starts of workers while sessions are at work.

**`RenderCache`** names a frame by the version of the physics it shows. Control
calls on one environment exclude each other, as `EnvSessions` shows; the store
of an answer, the dirty mark and the rendered mark are steps of their own, and
so are the four steps of a background refresh. A control call may be a `move_to`: steps
of several kinds and a closing render whose frame is stored without a word to the
generations. `by` tells who stored the cached frame.

**`BenchWorker`** is one worker process for benches whose simulator calls go to
the thread pool. `loop` is the request that keeps the event loop busy: handlers
start only when it is free, `close` waits for its lock on it, `render_all` blocks
it until its threads are done. `closed`, `episode` and `finished` are the
simulator's own state, which the handlers' bookkeeping has to follow, and `unpublished`
the environments of which it cannot, since an exception came between the simulator and
the books. `LoopBlocked` is the state two DELETEs of one handle can end in.

**`EpisodeBatch`** has for each episode the pool thread that runs `_run_one` and
the runner (`pc`), the reset thread, the thread of the current turn, and the
interrupting thread (`batch`). `config.handle` and the environments the server
has for the episode (`opened`) are separate: the difference is what can leak.
`unclosed` are those nobody can close any more, because `close_env` failed or the answer
of `create_env` was lost. The end of a turn is two steps, the count (`Commit`) and the
flags (`Flag`), with an exception possible after either.

**`BatchLedger`** is what a batch promises to its caller, without threads, deadlines
and environments: episodes wait, run (at most `Concurrency` of them) and settle or are
cancelled once the batch was interrupted; a running episode commits turns within a
budget until it is given up; what is reported of it is a failure, a success if a turn
won it, or a question if a turn was taken, and never changes. `EpisodeBatch` implements
it under the mapping of `Ledger`: the pool thread's places are one phase (`Phase`), an
outcome counts when its episode has settled (`Outcome`), and an episode is given up
(`GivenUp`) when its reset or a turn was abandoned or a turn began too late. An interrupt
alone does not give an episode up: the turn that is being committed still counts.

**`PausedEpisodes`** is one session's record and the commands that meet in it. A
file is named by the command that created it, so that a command which still
writes to the temporary file after another has moved it is modelled as what it
is. `alone` says whether the operator waits for each command to end; `told` is
what a command printed, and `settled` the questions answered in runs that did
not end with another one. How the run itself ends is a choice; `EpisodeBatch`
has its inside.

**`RealBench`** has the server processes that are configured with one lock file.
A process runs one tool call at a time, each a sequence of steps that can fail;
`astray` is the physical fact that nobody has homed the arm since it was last
left anywhere, `needsReset` what the manager believes. Homing may leave the arm where it
is (no home joints are configured) or fail half-way.

**`ManualProxy`** is the store of the human-driven provider, with a server thread
for each request, and **`ProviderCalls`** extends it with the planners: the
limiter, and the retry and failover loop, each failure handled by its kind
(busy, other error, denied, fatal). `refused` are the endpoints that have denied the call. Where the configuration has a human, the
request of that endpoint is one of the proxy's; other providers answer as they will.

**`DepthPrefetch`** has one future per prediction (a position in `infer`), the
ordered table, and the callers' threads. Calls that hold the table's lock
throughout are one action; between them others may prune, discard and retry.

**`SessionMemory`** gives every session a process and a list of writes that its
operation still has to do (`todo`); each step does one of them, so a crash can
fall between any two. An item of the conversation is its kind and the operation
that made it; `Replay` is a function of the records on disk.
**`ConversationLog`** is what a caller may rely on without knowing records or
checkpoints: a log per session, in memory and on disk. An operation extends or
compacts the memory only when everything is on disk; items reach the disk one by
one, a compaction at once; a process that dies loses what was not written, and a
resumed one goes on from the disk. `SessionMemory` implements it
(`ConversationIsLog`), with what `Replay` makes of the records as the log's disk,
in the sessions whose lines are written whole.

Operators named ...Lazily, ...Early, ...Unchecked and the like, each under a comment that begins
"Mutant:", are plausible bugs. `PROJECT.json` says which definition each replaces and
which property then fails; they show that the properties can fail. No
specification uses them.

The `MC...` modules give TLC, where one run checks several deployments or models, a
variable that picks one of them in the initial state: `MCWorkerManager` the pool of an
ordinary or of the BEHAVIOR bench, or the frame cache with deferred rendering or with
calls of all kinds; `MCEnvSessions` a quiet server, one whose worker may die, or a
sweeping one; `MCEpisodeBatch` one episode with faults or two without; `MCAgentRuntime` the
depth predictions, the memory, or the paused episodes of an agent. Other deployments of one
component are INSTANCEs of it with other constants. `MCProviderCalls` lists the
configurations of endpoints. Runs without such a need use the component's module itself.

### What the modules abstract

* Time: a deadline or TTL passes at any moment (`Expire`); a tool call is taken
  to be shorter than the session TTL.
* A worker's answer is success or failure; a lost answer of `POST /env` creates
  the environment all the same.
* In `EpisodeBatch` the agent's reply is one of work, win, lose and ask;
  token and tool budgets fail at any commit; `close()` claims the handle in the
  same step as the request, and its grace wait is left out; two `close_env` calls
  on one environment are answered together; a call with an empty handle fails
  for good (`Unknown: `, which is not among the transient errors).
* `render_all` renders one environment after the other; in the code up to eight
  threads do, which the GL lock orders.
* Handles are never used again: the code names them with fresh identifiers; so are
  interaction ids, which `PausedEpisodes` counts up.
* The geometry of the bench's envelope is a choice between accepted and refused.
* A provider's failure is one of the kinds the retry loop tells apart; token
  counts, bodies and the length of the backoff are left out.
* The working memory is the parts that depend on each other (facts and plan), and
  the value of a part is the operation that last changed it.
* Only the processes of `Tearing` sessions may die within the write of a line;
  `Bystanders` are only started and resumed, which is all they need for the index.
* An answer to a paused episode is told apart by its question; a record has no
  other fields than question, count and history. The answers in the agent's memory are a
  set: whether one is there twice cannot be seen.
* `SessionMemory` leaves out: `delete_memory` and `clear_working_memory`
  (`memory.py:7193-7215`), external events and environment receipts, the saves within the
  captures of `add_action` (`memory.py:743-785`), the write-back of a working memory in an
  old format (`memory.py:7424-7425`), and writes that fail while the process lives. A line
  written whole is taken to be read whole; the code splits with `str.splitlines()`
  (`memory_store.py:91`, `:167`), which also breaks a text at U+2028.
* `EpisodeBatch`: an environment whose answer was lost is not closed within a behaviour;
  on the server the sweeper finds it.

## 3. Runs

| Run | Instance | Question and answer |
|---|---|---|
| `MCWorkerManager` | pool: 3 environments, 3 URLs, 2 workers, ordinary or BEHAVIOR; cache: 2 environments, 2 render threads, deferred rendering with 2 steps of the first, or all kinds of calls with 1 | `env_count` is exact but on inherited ports, no slot leaks, creates spread; generations in order, no render puts back another's frame, frames come up to date where rendering is deferred and does not fail: **holds** |
| `MCEnvSessions` | quiet: 2 environments, 3 threads, 4 calls; with worker deaths: 2 environments, 2 threads, 3 calls; sweeping: 1 environment, 2 threads, 4 calls, 1 sweep | exclusion although locks are thrown away, control only on environments nobody has closed and none unreachable (without sweeps), slots paired (without sweeps), every call returns, idle sessions are swept: **holds** |
| `MCEnvSessions_paired` | 2 environments, 2 threads, 1 sweep | every acquire paired with one release: **violated**, close and sweep both release |
| `MCRenderCache_clean` | 1 environment, 1 render thread, plain steps, renders may fail | a clean key's frame shows the present state: **violated**, a failed render is recorded as done |
| `MCBenchWorker` | 2 environments, 3 concurrent requests, 4 in all | no step on a dead or finished simulator, exact terminal results, every request answered unless two DELETEs block the loop: **holds** |
| `MCBenchWorker_twice` | 1 environment, 2 concurrent requests, 3 in all | the event loop is free again and again: **violated** by two DELETEs of one handle |
| `MCEpisodeBatch` | one episode with 2 reset attempts, faults and recovery turns, or two episodes on one pool thread | late and cancelled turns never commit, closed once, nothing left, the ledger is kept (steps of `BatchLedger`), all settle: **holds** |
| `MCAgentRuntime` | predictions: 2 frames, 2 callers, table of 1, 3 predictions; memory: 2 sessions, one of them only started and resumed, 4 operations, 1 crash in all; paused episodes: a batch and 3 resume commands, overlapping or not | one prediction per frame at a time, no old failure as an answer, every call answered; the conversation implements the abstract log, nothing on disk lacks what it rests on, the index lags by crashes only; a told question stays answerable until a run had its answer (without overlap), records and memory agree: **holds** |
| `MCRealBench` | 3 processes, 4 environments, 3 crashes | hardware under the lock, the lock follows the environment: **holds** |
| `MCProviderCalls` | 2 planners, 1 slot; 3 attempts with or without fallback, or 2 with a human at the primary endpoint; a store of 2 and a stranger's request | slots conserved, the store forgets nobody who waits, answers agree with the store, every call ends: **holds** |
| `MCProviderCalls_refused` | 1 planner, the same configurations | a call does not go back to an endpoint that refused the account: **violated**, it does after a transient failure of the other one |
| `MCSessionMemory_torn` | 2 sessions, either may die within a line | a session whose process died can be resumed: **violated** by a torn line of `trace.jsonl` |

Some properties hold with an exception, and the exception is where the code, as
it is, does something else. The modules define the stronger statements; TLC finds
each violated when it is put in the place of the run's properties:

* `SingleEnvironment` ("deliberately single-environment", `worker_mgr.py`): a full
  BEHAVIOR pool puts a second environment on a worker, and the first release stops it
  under the other. `SpreadsLoad` says when environments share a worker.
* `SlotAccounting` excepts workers in `inherited`: the late release of an environment
  of a dead worker is charged to the worker that got its port, whose count is then
  too small until the last of them is released. `NoSlotLeaks` has no exception.
* `UsesPoolCorrectly`, `ControlOnOpen`, `OpenIsReachable` fail when the sweeper
  overlaps `close_env` or a create (`MCEnvSessions_paired`), so they are stated of
  servers that do not sweep. `IdleIsSwept` excepts a sweeper whose task has ended with
  `RuntimeError: dictionary changed size during iteration`; nothing restarts one.
  An environment whose DELETE failed counts as closing and stays in its worker.
* `CleanIsCurrent` ("no lost update", `worker_mgr.py`) fails in three ways: a render that
  fails is recorded as done (`MCRenderCache_clean`); a step that brings its own frame
  marks it rendered while an older render is still to be stored; and a call that moves the
  environment and then fails marks nothing. `DeferredGetsCurrent` is about the deployment
  where none of this happens. `RenderNeverGoesBack` excepts a background render that
  began before a control call and overwrites its frame.
* `LoopStaysResponsive` ("keeps the loop free", `bench_worker.py`): two DELETEs of
  one handle block the event loop for good (`MCBenchWorker_twice`), and
  `EveryRequestAnswered` holds until then. The trace of `MCEnvSessions_paired` sends
  just these two.
* `StepOnlyLive` and `TerminalResultExact` except an environment for which an exception
  came between the simulator and the books (`unpublished`).
* `LateHandleIsClosed`: when the reset that was abandoned raises after it created
  its environment, nobody closes it; `NothingLeft` excepts that, a close that failed and a
  handle that never arrived. `ClosedOnce` excepts the
  environment that a retry closes without claiming it (`sim_mcp.py:245-252`).
* `InterruptStopsCommits` ("stop future runner commits"): an interrupt during a
  commit, or before `start()`, is followed by one. `LateTurnNeverCommits` is about
  turns that were abandoned or begun after the cancellation.
* `MovesFromHome` ("Block control tools until reset_env has homed the arm",
  `observation_core.py`): `reset_env` unlocks control although `home()` does nothing without
  home joints, as its docstring says, and a homing that fails after an earlier reset
  leaves control unlocked.
* `LockFollowsEnv` excepts a process that lost the lock's descriptor while it wrote its
  name (`observation_core.py:103`), `HardwareUnderLock` the end of a create that failed
  (`observation_core.py:144-146`).
* `GripperReadReturns` (`robotiq.py:143-152`): on a socket error `read_state` calls
  `close`, which takes the lock `read_state` holds; the thread, and the server's
  event loop with it, waits for ever. The other properties of `RealBench` hold
  all the same.
* `NeverBackToRefused` ("do not cycle back", `planner.py:702-704`): only an account failure
  looks at the endpoints tried, so a transient failure of the other endpoint leads back
  (`MCProviderCalls_refused`). `EveryDecisionEnds` holds all the same.
* `OutcomeAgrees` says nothing of a client whose request the store has forgotten when the
  thread wants to cancel it: its connection is dropped.
* `EveryCallAnswered` excepts calls that find the entry of a prediction whose thread
  could not be started: nobody settles it and pruning keeps it (`depth_prefetch.py:191`).
* `NothingStandsAlone` permits newer facts with an older plan, which is what a crash
  between the two files leaves.
* `QuestionKept` without `alone`: of two commands that resume with one id the slower
  one deletes, or replaces, the question that the faster one's run has asked, since
  the id is compared when the record is loaded and not again; and the two can
  leave an unreadable record, since they share the temporary file.
  Even alone, a command that dies after it replaced the record and before it printed
  its outcome leaves a question whose id only the file knows.

### Bounds

| Bound | Where | Why it is enough |
|---|---|---|
| `Urls` (3) | `WorkerPool` | One more than the pool has workers, so that a new worker may get a fresh port or a dead one's. |
| `MaxCalls` (4) | `EnvSessions` | A create, a close and two calls that meet it in one place: exclusion needs a call waiting on the discarded lock object and one that makes a new one. |
| `MaxSweeps` (0, 1) | `EnvSessions` | Dictionaries popped per session; the second sweep of a session meets the same state as the first. |
| `MaxSteps` (1, 2) | `RenderCache`, `BenchWorker` | The races are between one step before and one during a render; two steps show the order of frames. |
| `Locks` (2, 3) | `EnvSessions`, `BenchWorker` | Lock objects in use at a time; `GetLock` takes one that nothing refers to, as a new object of the code is. One in the table and a discarded one that somebody still waits for, and a third where three requests overlap. |
| `MaxReqs` (4) | `BenchWorker` | create, close and two requests that overlap it, a second close among them. |
| `Attempts` (2), turns (1 + 1) | `EpisodeBatch` | One retry, as the default of `startup_attempts`; one turn before and one after a recovery grant that has to be cut to what remains. |
| `Commands` (4) | `PausedEpisodes` | A question, an answer, a second question, and a third command that finds whatever the second left; two that overlap and one after them. The theorems have no bound. |
| `MaxEntries` (1), `MaxInferences` (3) | `DepthPrefetch` | Two frames overflow the table; a failure, its retry and one more. |
| `MaxEnvs` (4), `MaxCrashes` (3) | `RealBench` | Every process can die once and the bench is used again after each death. |
| `MaxDecisions` (2), `MaxRequests` (3), `MaxStrangers` (1), `HistoryLimit` (2) | `ProviderCalls` | One decision waits for the slot of the other; two requests of one call, or of two, with a stranger's overfill the store. |
| `MaxOps` (4), `MaxCrashes` (1) | `SessionMemory` | Start, an action, a compaction and one more, with a crash at any write and a resumption; a second crash finds the files in a state the first can leave too. |

The generic bounds (`MaxReqs`, `MaxOps` and the like) only stop a behaviour from
going on; they are never a condition in the code.

### Fairness

* `EnvSessions`: weak fairness of each thread and of the sweeper: threads of the
  pool are scheduled, and the sweeper's timer fires again and again. A lock that
  is held is released by a thread that has fairness of its own.
* `RenderCache`: control calls that have begun, render threads, and the
  session's stream tick (`Reserve` for all its environments), which a timer drives.
* `BenchWorker`: every request goes on when it can. The locks are not assumed to
  be fair: that no request starves follows from `MaxReqs` being finite. A request that waits
  behind a blocked loop is not expected to go on.
* `EpisodeBatch`: the pool threads, the clock and the answers of `close_env`,
  which has a timeout. Nothing is assumed of reset and turn threads, which may
  hang for ever; that every episode settles all the same is what the deadline is for.
* `DepthPrefetch`: threads of predictions and waiters go on; a prediction that
  runs ends, since the handler's request has a timeout.
* `ProviderCalls`: each planner's own steps. Nothing is assumed of the proxy or its
  operator: a request that nobody answers ends with the client's timeout. The
  semaphore needs no fairness because decisions are finite in number.
* `RealBench`, `SessionMemory`, `PausedEpisodes`, `WorkerPool`: safety only, no
  fairness; hardware may hang, and processes may die, for good.

No client, operator or human is ever assumed to do anything.

## 4. Proofs

`WorkerManager_proofs.tla` is about the two models of `worker_mgr.py`. Of `WorkerPool` it
proves for every finite set of environments, every set of URLs and every pool limit:

* `TypeCorrect`: `Spec => []TypeOK`, one case per action.
* `AccountingCorrect` (`[]SlotAccounting`) and `LeaksCorrect` (`[]NoSlotLeaks`), whatever
  ports the kernel gives. The two are inductive together (`IInv`): the exact count is
  lost only where a worker inherits a port, and from there on the other bound, that
  nothing is counted which has no owner, is kept by every release, since `max(0, ...)`
  stops at zero. `SpawnStep`, `AcquireStep` and `ReleaseStep` say how each call changes the
  set `Owners(u)`, and the library's facts about cardinality turn that into the count.
* `SpreadCorrect` (`SpreadsLoad`): counts that are exact make the least counted worker
  the one with the fewest owners, and a pool that starts no worker one that is full.
* `CoverageCorrect` (`[]CountCoversOpen`): a process hosts only environments pinned to it
  (`HostedInv`), so its open ones are among the owners.

`HandlesAssumption` (finitely many environments) is needed because the
properties count them.

Of `RenderCache` it proves two theorems, for any number of environments, render
threads and steps, for calls of all kinds, moves and failing renders (the names of
`RenderCache` that `WorkerPool` has too begin with `Cache`).

* `CacheTypeCorrect` (`[]CacheTypeOK`):
  `renderGen <= dirtyGen` is a part of it and needs `Reached`, that every
  generation a job or a call is yet to record has been reached by its environment,
  and `Single`, one job at a time for a worker, which holds the reservation.
* `NeverBackCorrect` (`RenderNeverGoesBack`): `ShownInv` says that nothing cached is
  ahead of the physics, that what a control call is about to store is the present state
  (`Behind`), and that what a job has rendered is not older than the frame of an
  earlier job (`Newer`), since there is one job at a time.

`PausedEpisodes_proofs.tla` (any number of commands): `TypeCorrect`, `KeptCorrect`
(`[]QuestionKept`) and `AgreeCorrect` (`[]AnswersAgree`). `QuestionKept` is about
what was told, and says nothing while a run is under way or a file is half
written. `IInv` says for each command what it knows (`Cmd`: its history is in
order, below the question it pauses with, and in the memory), for each file that a
record in it is `Sound`, and, if commands do not overlap, for the one that runs
(`Sole`) that it answers what is on file until it replaces it, that the temporary
file is its own and is not the record, and that everything told is settled when
it deletes. `HistoryHasTold` is the heart: all open questions are in the history
of whoever may settle them.

`RealBench_proofs.tla` (any number of processes, environments and crashes):
`TypeCorrect`, `LockCorrect`, `OwnershipCorrect`. The two
properties prove each other: `Bench(p)` says for each place a process can be in
whether it has the lock, the environment and the hardware. `OneServer` shows
that a step of one process, which only takes or gives back its own lock,
is none of the others' business.

`AgentRuntime_proofs.tla` is about two parts of the agent that have nothing but their
process in common. Of `DepthPrefetch` (any number of frames and callers, any table size)
it proves
`DedupCorrect` and `FreshnessCorrect`. Two predictions of one frame cannot be on
their way because every pending one is in the table (`PendingIsEntered`), and pruning and
discarding take away settled entries only. For the freshness, `StartedOnce`, `EntryIsNewest` and
`FailuresAreOlder` order the futures of a frame: an entry that was discarded
never comes back.

Of `SessionMemory` (any number of sessions, torn or whole, operations, crashes and
retained actions) it proves

* `TypeCorrect` (`[]TypeOK`), with the index's lock: who holds it has read the index
  as it still is.
* `AloneCorrect` (`[]NothingStandsAlone`) and `ReplayCorrect` (`[]ReplayMatches`).
* `IndexCorrect` (`[]IndexBehindByCrashes`).
* `LogCorrect` (`Spec => ConversationIsLog`): the refinement of `ConversationLog`,
  initial states and every step.

All of them rest on one invariant, `IInv`, which says what the writes that are still
to be done (`todo`) will make of the files. `Rest(t)` is the shape every such list keeps
while it shrinks: the lock before an index update, the count after its event, nothing
after a load; `Plan(t)` is its shape before it begins. `Told(s)` is about the
conversation: the records on disk *followed by the outstanding ones* replay to the
conversation in memory; after any number of the outstanding ones no result is
without its action (`Pairs`), so a death may fall between any two; and the
outstanding ones are items, or one compaction of what is on disk
(`Ahead`), which is what makes every write a step of the log. `Kept(s)` orders the
two files of the working memory: the plan's file is only due when the facts' file
is due before it or is written already. `Counted(s)` counts the event that is
being indexed, and the crashes.

`Replay` folds the records, so the proof needs facts about what a recursive
definition computes for every input. The library's induction theorems take an
operator and cannot be instantiated by the installed provers; instead `LeastNumber`
has, since `<` is well founded on the naturals (`WFMin`), a least member of every set
of them that is not empty, and `Induction` follows with a *set* in the place of a
predicate. `Iterates`, `Partial` and `Flattening` then say that the folds behind
`FlattenSeq` do at each step what their definition says, and `FlattenAppend`,
`FlattenConcat`, `ReplayAppend`, `RetainedPaired` and `LogFlattens` what the proof needs
of flattening, of replay under one more record, and of a compaction: it keeps a
result's action and is a selection of the items it was given.

`ProviderCalls_proofs.tla` (any number of planners, slots, attempts, requests and
any history limit): `SlotsCorrect`, `PendingCorrect`, `OutcomeCorrect`. Slots are counted
by the cardinality of the planners that hold one (`SlotInv`); `OpenInv` gives each open
connection a planner that waits for it, an injection, so that open connections are no
more than slots held.

`BenchWorker_proofs.tla` (any number of environments, requests, locks and steps, however
often clients close an environment): `TypeCorrect`,
`StepCorrect` (`[]StepOnlyLive`) and `TerminalCorrect` (`[]TerminalResultExact`). Both
properties rest on mutual exclusion, but there is no lock they rest on alone: creation
is protected because nobody has the handle (`Unborn(h) => Unknown(h)`), a closing
`close` because the handle is gone from `_envs`, and everything else because all
requests on an open environment use the lock that is in the table (`Open(h)`), which
holds only while nobody is past the `pop`. `Shape(r)` gives every kind of request its
places and what it holds there; `Acting(r)` says what a step or reset knows of the
simulator from its last look until it publishes. The bookkeeping `Exact(h)` is true
whenever nobody is between the simulator and its publication, unless an exception kept
the outcome back.

`EnvSessions_proofs.tla` (any number of environments, sessions, threads, locks, calls
and sweeps). `TypeCorrect` and `ExclusionCorrect` (`[]ControlExclusion`) hold with
sweeps. Exclusion is not inductive since `close_env` and the sweeper throw locks
away: a thread may hold a lock that is no longer in the table while another one
takes its successor. What saves it is that a lock is thrown away only when
its environment is out of reach; so `IInv` says of each environment that
either all its calls meet at the lock in the table (`SameLock`) or none of them can
get at it any more (`Cold`: it is not in the session's present dictionary, and no
call has found it there). `OneHot` draws the conclusion: of the calls that may still
talk to the environment's worker there is one.

The other three theorems are about a server that does not sweep. `UnsweptControlOnOpen`,
`UnsweptOpenIsReachable` and `UnsweptImplementsPool` (`Spec => P!Spec`, the refinement of
`WorkerPool` under the identity mapping, initial states and steps) have
`MaxSweeps = 0` as their hypothesis, and need it: with one sweep TLC refutes all three
(section 3). `QuietInv` adds the `Stage` of each call, the phase
of its environment at each of its places; `Alone` shows that no other call's stage
depends on an environment that is made or closed. `QuietControlCorrect`,
`QuietReachCorrect` and `QuietPoolCorrect` carry them over to `MCEnvSessions`, whose
servers without sweeps are instances with `MaxSweeps <- 0`: they are the very formulas of the run,
without its bounds.

`EpisodeBatch_proofs.tla` (any number of episodes, pool threads, turns, recovery turns
and startup attempts, any faults): `TypeCorrect`, with the recovery budget, since the
types bound the turns by `BaseTurns + RecoveryTurns`; `ClosedOnceCorrect`,
`NothingLeftCorrect` and `LateCorrect` (`LateTurnNeverCommits`, from an invariant and a case
for each action). `IInv` has three parts for each episode. `Place`: how the pool
thread, its reset thread and its turn thread agree. An abandoned thread has a
pool thread that is past the loop, for good; a turn that began when the runner was
cancelled never has a result. `Handled`: the kept handle is that of the present attempt,
and while it is kept its environment has not been closed; that makes `Claim`
safe for any number of callers. `Tracked`: an environment that is open has its
handle kept, or is being closed, or cannot be closed (`unclosed`); a handle outlives the pool
thread only with a reset that is late. `OneEpisode` reduces a step to the episode that
takes it, and `Claims`, `Interrupts`, `PoolStep` and `ResetStep` do what the actions
have in common. The theorems are about `Spec`, of which the run's two
batches are small cases.

`LedgerCorrect` is the refinement `Spec => Ledger!Spec` and, with it, the run's
`KeepsLedger`. It needs `IInv` and `Reported`: a batch whose interrupt has begun is
cancelled; an episode that has not begun has no turns; a runner that waits for a human
has committed the turn that asked; a success was won; and whoever closes has an outcome.
`Only` says that a step is one episode's; `LedgerMoves` then reduces it to what the
ledger sees of that episode, which is nothing (`Same`) or one of its actions (`Begins`,
`CommitsTurn`, `GivesUp`, `Settles`, `Cancels`). A commit is the ledger's own
because `Place` says that a thread at `commit` has nothing abandoned and no late turn;
it keeps the budget because such a thread has turns left under its limit.

All of these inductive invariants were invariants of a TLC run before they were proved.
No theorem assumes fairness, and none but those named above has a hypothesis.

Only model-checked: the liveness properties, since `ENABLED` and fairness are out of the
prover's reach. Every invariant and action property of a run that passes, and the
refinements, are the statements of theorems, for instances of any size. Of `EnvSessions`
with sweeps exclusion is proved, and what fails is in section 3.

## 5. Findings

* `MCEnvSessions_paired`: `close_env` and the sweeper release one worker slot
  twice, against the docstring of `_cleanup_session` (`session.py:153-154`).
* `MCRenderCache_clean`: a background render that fails is recorded as rendered, since
  `_refresh_cache_for_worker` hides the failure from its caller (`worker_mgr.py:1047`),
  against the comment at `worker_mgr.py:963-966`.
* `MCBenchWorker_twice`: two DELETEs of one handle block the worker's event loop for good
  (`bench_worker.py:802`), against the comment at `bench_worker.py:655-656`.
* `MCProviderCalls_refused`: a call goes back to an endpoint that refused its account
  (`planner.py:705`), against the comment at `planner.py:702-704`.
* `MCSessionMemory_torn`: one torn line of the trace makes a session impossible to
  resume, against the design document (`docs/agent-context-memory-refactor.md:48-49`).

The list of exceptions in section 3 has the others.

## 6. Plan

The simulator server and the episodes came first: every simulator run rests on
them. Then came what episodes share (provider, depth predictions), what outlives
them (memory, paused episodes), and the real bench. Next:

1. Human waits within an episode (`episode.py`), joining `EpisodeBatch` to
   `PausedEpisodes`: the clock that stops, and the answer after the deadline.
2. `ToolDeadlines`: handlers of `registry.py` that outlive their deadline,
   and the observation obligation of `pipeline.py` that gates the next action.
3. Promotion lifecycles (`grasp_strategy_lifecycle.py`, `calibration.py`,
   `experiments.py`): promotion and rollback over files.
4. A composition of `EpisodeBatch` with `EnvSessions`: a lost `create_env` answer
   is found by the server's sweeper.

Abstract specifications worth stating, besides `ConversationLog`, `BatchLedger` and the
pool as the sessions' contract: a ledger of slots that `WorkerPool` implements, and a
per-environment register (physics version and last frame) for `RenderCache`. They are also
the theorems worth proving next.
