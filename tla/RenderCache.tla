----------------------------- MODULE RenderCache ----------------------------
(***************************************************************************)
(* The camera frames that the simulator server keeps for its dashboard      *)
(* (sim/mcp_server/worker_mgr.py: _proxy_step, the dirty generations, the    *)
(* paced background refresh) for the environments of one session on one      *)
(* worker.  A frame is named by the physics version it shows.  Control calls *)
(* on one environment exclude each other (EnvSessions); the background       *)
(* refresh runs in the render thread pool beside them and asks the worker to *)
(* render a whole batch of environments.  Every environment has been created *)
(* and reset when the model starts.                                          *)
(***************************************************************************)
EXTENDS Integers, FiniteSets

CONSTANTS
    Envs,        \* environments on the worker
    Renderers,      \* threads of _render_executor
    Kinds,          \* control calls made, a subset of AllKinds
    RenderMayFail,  \* TRUE if a background render can fail
    MaxSteps        \* bound: physics steps of one environment

\* "inline": reset_env, and step_env with render=True.
\* "badreset": a reset that fails on the way; its error is cached, without a frame.
\* "plain":  step_env with render=False, or a step of move_to.
\* "goal":   a worker-local controller goal.
\* "error":  a call that moves the environment and then fails, or whose answer
\*           is lost; the proxy returns an error without an observation.
AllKinds == {"inline", "badreset", "plain", "goal", "error"}

\* move_to makes plain steps, an inline one now and then, and ends with the
\* first that fails.
MoveKinds == {"plain", "inline", "error"}

ASSUME RenderAssumption ==
    /\ Kinds \subseteq AllKinds
    /\ RenderMayFail \in BOOLEAN
    /\ MaxSteps \in Nat

VARIABLES
    physics,    \* version of each environment's physics state
    cache,      \* version shown by the cached frame, NoFrame if there is none
    by,         \* who stored it, a control call or a background render
    dirtyGen,   \* _obs_dirty_gen (1 when the key is absent)
    renderGen,  \* _obs_render_gen (0 when the key is absent)
    ctl,        \* progress of the control call on each environment
    registered, \* handles in _session_envs
    atWorker,     \* handles in the worker's _envs
    inflight,   \* _worker_render_inflight of the worker
    job         \* what each render thread is doing

vars == <<physics, cache, by, dirtyGen, renderGen, ctl, registered, atWorker, inflight, job>>

NoFrame == 0
Versions == 1..MaxSteps + 1     \* the first reset makes version 1
Frames == Versions \cup {NoFrame}
Pending == -1                   \* not yet rendered by the worker

NoJob == [pc |-> "idle", hs |-> {}, gen |-> [h \in Envs |-> 0],
          frame |-> [h \in Envs |-> Pending]]
Idle == [pc |-> "idle", kind |-> "plain", frame |-> NoFrame, gen |-> 0, move |-> FALSE]
Moving == [Idle EXCEPT !.pc = "moving", !.move = TRUE]

CacheInit ==
    /\ physics = [h \in Envs |-> 1]
    /\ cache = [h \in Envs |-> 1]
    /\ by = [h \in Envs |-> "control"]
    /\ dirtyGen = [h \in Envs |-> 2]
    /\ renderGen = [h \in Envs |-> 2]
    /\ ctl = [h \in Envs |-> Idle]
    /\ registered = Envs
    /\ atWorker = Envs
    /\ inflight = FALSE
    /\ job = [r \in Renderers |-> NoJob]

-----------------------------------------------------------------------------
(* Dirty generations. *)

\* _obs_is_dirty: physics advanced since the last recorded render.
Dirty(h) == dirtyGen[h] # renderGen[h]

\* _mark_obs_rendered: a generation is recorded unless a later one was.
MarkRendered(hs, gen) ==
    renderGen' = [h \in Envs |->
                    IF h \in hs /\ gen[h] > renderGen[h] THEN gen[h] ELSE renderGen[h]]

-----------------------------------------------------------------------------
(* Control calls: _proxy_step, _proxy_reset, _proxy_controller_goal. *)

\* What a call does after its step is cached: a move goes on stepping.
After(move) == IF move THEN Moving ELSE Idle

\* The worker advances the physics and answers with a frame, or without one.
\* The step is a call of its own, or one of a move that begins or goes on.
StepWorker(h, kind, move) ==
    /\ \/ ctl[h].pc = "idle" /\ h \in registered
       \/ ctl[h].pc = "moving" /\ move
    /\ move => kind \in MoveKinds
    /\ physics[h] <= MaxSteps
    /\ physics' = [physics EXCEPT ![h] = @ + 1]
    /\ ctl' = [ctl EXCEPT ![h] =
                 IF kind # "error"
                 THEN [pc |-> "store", kind |-> kind, gen |-> 0, move |-> move,
                       frame |-> IF kind \in {"plain", "badreset"} THEN NoFrame ELSE physics[h] + 1]
                 ELSE IF move THEN [Moving EXCEPT !.pc = "moved"] ELSE Idle]
    /\ UNCHANGED <<cache, by, dirtyGen, renderGen, registered, atWorker, inflight, job>>

\* The answer is cached; a step without a frame keeps the previous one.
StepStore(h) ==
    /\ ctl[h].pc = "store"
    /\ IF ctl[h].kind = "plain"
       THEN UNCHANGED <<cache, by>>
       ELSE /\ cache' = [cache EXCEPT ![h] = ctl[h].frame]
            /\ by' = [by EXCEPT ![h] = "control"]
    /\ ctl' = [ctl EXCEPT ![h].pc = "mark"]
    /\ UNCHANGED <<physics, dirtyGen, renderGen, registered, atWorker, inflight, job>>

\* _mark_obs_dirty returns the new generation.
StepMark(h) ==
    /\ ctl[h].pc = "mark"
    /\ dirtyGen' = [dirtyGen EXCEPT ![h] = @ + 1]
    /\ ctl' = [ctl EXCEPT ![h] =
                 IF @.kind = "inline" THEN [@ EXCEPT !.pc = "rendered", !.gen = dirtyGen[h] + 1]
                 ELSE After(@.move)]
    /\ UNCHANGED <<physics, cache, by, renderGen, registered, atWorker, inflight, job>>

\* The frame came with the step, so its generation counts as rendered.
StepRendered(h) ==
    /\ ctl[h].pc = "rendered"
    /\ MarkRendered({h}, [g \in Envs |-> ctl[h].gen])
    /\ ctl' = [ctl EXCEPT ![h] = After(@.move)]
    /\ UNCHANGED <<physics, cache, by, dirtyGen, registered, atWorker, inflight, job>>

\* move_to ends with a render of its own, which may fail; a step that cannot
\* be encoded ends it without one.
MoveRender(h) ==
    /\ ctl[h].pc \in {"moving", "moved"}
    /\ \/ ctl' = [ctl EXCEPT ![h].pc = "show", ![h].frame = physics[h]]
       \/ ctl' = [ctl EXCEPT ![h] = Idle]
    /\ UNCHANGED <<physics, cache, by, dirtyGen, renderGen, registered, atWorker, inflight, job>>

\* That frame is cached without a word to the generations.
MoveStore(h) ==
    /\ ctl[h].pc = "show"
    /\ cache' = [cache EXCEPT ![h] = ctl[h].frame]
    /\ by' = [by EXCEPT ![h] = "control"]
    /\ ctl' = [ctl EXCEPT ![h] = Idle]
    /\ UNCHANGED <<physics, dirtyGen, renderGen, registered, atWorker, inflight, job>>

-----------------------------------------------------------------------------
(* close_env. *)

ClosePop(h) ==
    /\ ctl[h].pc = "idle" /\ h \in registered
    /\ registered' = registered \ {h}
    /\ ctl' = [ctl EXCEPT ![h].pc = "evict"]
    /\ UNCHANGED <<physics, cache, by, dirtyGen, renderGen, atWorker, inflight, job>>

CloseEvict(h) ==
    /\ ctl[h].pc = "evict"
    /\ cache' = [cache EXCEPT ![h] = NoFrame]
    /\ by' = [by EXCEPT ![h] = "control"]
    /\ ctl' = [ctl EXCEPT ![h].pc = "forget"]
    /\ UNCHANGED <<physics, dirtyGen, renderGen, registered, atWorker, inflight, job>>

\* _forget_obs_dirty
CloseForget(h) ==
    /\ ctl[h].pc = "forget"
    /\ dirtyGen' = [dirtyGen EXCEPT ![h] = 1]
    /\ renderGen' = [renderGen EXCEPT ![h] = 0]
    /\ ctl' = [ctl EXCEPT ![h].pc = "delete"]
    /\ UNCHANGED <<physics, cache, by, registered, atWorker, inflight, job>>

CloseDelete(h) ==
    /\ ctl[h].pc = "delete"
    /\ atWorker' = atWorker \ {h}
    /\ ctl' = [ctl EXCEPT ![h].pc = "closed"]
    /\ UNCHANGED <<physics, cache, by, dirtyGen, renderGen, registered, inflight, job>>

-----------------------------------------------------------------------------
(* Background refresh: _live_stream_loop and the render thread it starts. *)

\* Mutant: a render is started although one is in flight.
ReserveAlways(r, hs) ==
    /\ job[r].pc = "idle"
    /\ \E h \in hs : Dirty(h)
    /\ inflight' = TRUE
    /\ job' = [job EXCEPT ![r] = [NoJob EXCEPT !.pc = "snapshot", !.hs = hs]]
    /\ UNCHANGED <<physics, cache, by, dirtyGen, renderGen, ctl, registered, atWorker>>

\* A tick of a session's or one environment's stream: some frame is stale and
\* no render is in flight for the worker (_try_reserve_worker_render).
Reserve(r, hs) ==
    /\ job[r].pc = "idle"
    /\ \E h \in hs : Dirty(h)
    /\ ~inflight
    /\ inflight' = TRUE
    /\ job' = [job EXCEPT ![r] = [NoJob EXCEPT !.pc = "snapshot", !.hs = hs]]
    /\ UNCHANGED <<physics, cache, by, dirtyGen, renderGen, ctl, registered, atWorker>>

\* A session's stream renders all its environments, a handle's stream its own.
Tick(r) ==
    \E hs \in {registered} \cup {{h} : h \in registered} : Reserve(r, hs)

\* The generations are noted before the blocking request.
Snapshot(r) ==
    /\ job[r].pc = "snapshot"
    /\ job' = [job EXCEPT ![r].pc = "render",
                          ![r].gen = [h \in Envs |-> IF h \in job[r].hs THEN dirtyGen[h] ELSE 0]]
    /\ UNCHANGED <<physics, cache, by, dirtyGen, renderGen, ctl, registered, atWorker, inflight>>

\* /render_all: the worker renders each environment in its own time.  An
\* environment it no longer hosts, or whose render fails, yields an error.
RenderOne(r, h) ==
    /\ job[r].pc = "render"
    /\ h \in job[r].hs /\ job[r].frame[h] = Pending
    /\ \/ h \in atWorker /\ job' = [job EXCEPT ![r].frame[h] = physics[h]]
       \/ /\ h \notin atWorker \/ RenderMayFail
          /\ job' = [job EXCEPT ![r].frame[h] = NoFrame]
    /\ UNCHANGED <<physics, cache, by, dirtyGen, renderGen, ctl, registered, atWorker, inflight>>

\* _refresh_cache_for_worker caches every frame without an error.
Shown(r) == {h \in job[r].hs : job[r].frame[h] # NoFrame}
Show(r) ==
    /\ cache' = [h \in Envs |-> IF h \in Shown(r) THEN job[r].frame[h] ELSE cache[h]]
    /\ by' = [h \in Envs |-> IF h \in Shown(r) THEN "render" ELSE by[h]]

\* Mutant: the frames are stored before all of them are rendered.
StoreFramesEarly(r) ==
    /\ job[r].pc = "render"
    /\ Show(r)
    /\ job' = [job EXCEPT ![r].pc = "record", ![r].frame = NoJob.frame]
    /\ UNCHANGED <<physics, dirtyGen, renderGen, ctl, registered, atWorker, inflight>>

\* The answer arrives and its frames are cached.
StoreFrames(r) ==
    /\ job[r].pc = "render"
    /\ \A h \in job[r].hs : job[r].frame[h] # Pending
    /\ Show(r)
    /\ job' = [job EXCEPT ![r].pc = "record", ![r].frame = NoJob.frame]
    /\ UNCHANGED <<physics, dirtyGen, renderGen, ctl, registered, atWorker, inflight>>

\* The noted generations are recorded as rendered, errors or not.
RecordRendered(r) ==
    /\ job[r].pc = "record"
    /\ MarkRendered(job[r].hs, job[r].gen)
    /\ job' = [job EXCEPT ![r] = [NoJob EXCEPT !.pc = "finish"]]
    /\ UNCHANGED <<physics, cache, by, dirtyGen, ctl, registered, atWorker, inflight>>

\* Mutant: the worker's reservation is never given back.
FinishReserved(r) ==
    /\ job[r].pc = "finish"
    /\ job' = [job EXCEPT ![r] = NoJob]
    /\ UNCHANGED <<physics, cache, by, dirtyGen, renderGen, ctl, registered, atWorker, inflight>>

Finish(r) ==
    /\ job[r].pc = "finish"
    /\ inflight' = FALSE
    /\ job' = [job EXCEPT ![r] = NoJob]
    /\ UNCHANGED <<physics, cache, by, dirtyGen, renderGen, ctl, registered, atWorker>>

\* Nothing to render and nothing asked: the streams keep ticking.
Quiescent ==
    /\ \A r \in Renderers : job[r].pc = "idle"
    /\ \A h \in Envs : ctl[h].pc \in {"idle", "closed"}
    /\ UNCHANGED vars

-----------------------------------------------------------------------------
Control(h) ==
    \/ StepStore(h) \/ StepMark(h) \/ StepRendered(h) \/ MoveRender(h) \/ MoveStore(h)
    \/ CloseEvict(h) \/ CloseForget(h) \/ CloseDelete(h)

Refresh(r) ==
    \/ Snapshot(r) \/ StoreFrames(r) \/ RecordRendered(r) \/ Finish(r)
    \/ \E h \in Envs : RenderOne(r, h)

CacheNext ==
    \/ \E h \in Envs :
        \/ \E kind \in Kinds, move \in BOOLEAN : StepWorker(h, kind, move)
        \/ ClosePop(h)
        \/ Control(h)
    \/ \E r \in Renderers : Tick(r) \/ Refresh(r)
    \/ Quiescent

\* Calls that have begun go on, the pool runs its jobs, and a session's stream
\* that keeps ticking while frames are stale gets its turn.
Fairness ==
    /\ \A h \in Envs : WF_vars(Control(h))
    /\ \A r \in Renderers : WF_vars(Refresh(r))
    /\ WF_vars(\E r \in Renderers : Reserve(r, registered))

CacheSpec == CacheInit /\ [][CacheNext]_vars /\ Fairness

-----------------------------------------------------------------------------
(* Properties. *)

\* A recorded render is never ahead of the physics: if it were, the next step
\* would make the key look clean (_mark_obs_dirty, _mark_obs_rendered).
CacheTypeOK ==
    /\ \A h \in registered : renderGen[h] <= dirtyGen[h]
    /\ physics \in [Envs -> Versions]
    /\ cache \in [Envs -> Frames]
    /\ by \in [Envs -> {"control", "render"}]
    /\ dirtyGen \in [Envs -> Nat]
    /\ renderGen \in [Envs -> Nat]
    /\ ctl \in [Envs -> [pc : {"idle", "store", "mark", "rendered", "moving", "moved", "show",
                              "evict", "forget", "delete", "closed"},
                        kind : AllKinds, frame : Frames, gen : Nat, move : BOOLEAN]]
    /\ registered \subseteq Envs /\ atWorker \subseteq Envs
    /\ inflight \in BOOLEAN
    /\ job \in [Renderers -> [pc : {"idle", "snapshot", "render", "record", "finish"},
                              hs : SUBSET Envs,
                              gen : [Envs -> Nat],
                              frame : [Envs -> Frames \cup {Pending}]]]

\* The dashboard goes back in time in one case only: a background render that
\* began before a control call overwrites the frame this call brought.  No
\* frame of a render is followed by an older one, whichever streams ask for
\* renders, nor one of a control call by that of an earlier call
\* (_try_reserve_worker_render, _refresh_cache_for_worker, move_to).
RenderNeverGoesBack ==
    [][\A h \in Envs :
          cache'[h] # NoFrame /\ cache'[h] < cache[h]
          => by[h] = "control" /\ by'[h] = "render"]_vars

\* "a step landing mid-render correctly leaves the key dirty", and generations
\* are "only recorded as rendered on success (no lost update)": when no call is
\* at work on an environment and its key is clean, the cached frame shows its
\* present physics state.  It does not hold: _refresh_cache_for_worker hides
\* every failure from the caller that records, a step that brings its frame
\* marks it rendered while an older render is still to be stored, and a call
\* that moves the environment and fails marks nothing.
CleanIsCurrent ==
    \A h \in registered :
        ctl[h].pc = "idle" /\ ~Dirty(h) => cache[h] = physics[h]

\* Once the steps are over, every open environment's frame comes up to date
\* and stays so.
EventuallyCurrent == \A h \in Envs : <>[](h \in registered => cache[h] = physics[h])

=============================================================================
