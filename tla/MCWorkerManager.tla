-------------------------- MODULE MCWorkerManager ---------------------------
(* Model values for checking the two models of the worker manager with TLC.   *)
(* A behaviour is that of one part: the pool of an ordinary bench or of        *)
(* "behavior" with its single-use workers; the frame cache of a deployment     *)
(* whose steps leave rendering to the background, where no render fails, or of *)
(* one with calls of every kind and failing renders.                           *)
EXTENDS WorkerPool, RenderCache

CONSTANT Second     \* the environment that makes one deferred step only

VARIABLE part

Behavior == INSTANCE WorkerPool WITH SingleUse <- TRUE
Full == INSTANCE RenderCache WITH
            Kinds <- AllKinds, RenderMayFail <- TRUE, MaxSteps <- 1

MCInit == Init /\ CacheInit /\ part \in {"ordinary", "behavior", "deferred", "full"}

MCNext ==
    /\ \/ part = "ordinary" /\ Next /\ UNCHANGED vars
       \/ part = "behavior" /\ Behavior!Next /\ UNCHANGED vars
       \/ part = "deferred" /\ CacheNext /\ physics'[Second] < MaxSteps + 1 /\ UNCHANGED poolVars
       \/ part = "full" /\ Full!CacheNext /\ UNCHANGED poolVars
    /\ UNCHANGED part

MCSpec == MCInit /\ [][MCNext]_<<poolVars, vars, part>> /\ Fairness

\* Frames come up to date where rendering is deferred (_live_stream_loop).
DeferredGetsCurrent == part = "deferred" => EventuallyCurrent
=============================================================================
