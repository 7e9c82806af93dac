--------------------------- MODULE MCAgentRuntime ---------------------------
(* Model values for checking with TLC the three things an agent's threads and   *)
(* processes share: the table of depth predictions, the files of its sessions   *)
(* and the records of paused episodes.  They do not interact, and a behaviour   *)
(* is that of one of them.                                                      *)
EXTENDS DepthPrefetch, SessionMemory, PausedEpisodes

VARIABLE part

MCInit ==
    /\ PrefetchInit /\ Init /\ PauseInit
    /\ part \in {"prefetch", "memory", "pause"}
    /\ part # "pause" => alone

MCNext ==
    /\ \/ part = "prefetch" /\ PrefetchNext /\ UNCHANGED <<vars, pauseVars>>
       \/ part = "memory" /\ Next /\ UNCHANGED <<prefetchVars, pauseVars>>
       \/ part = "pause" /\ PauseNext /\ UNCHANGED <<prefetchVars, vars>>
    /\ UNCHANGED part

MCSpec ==
    /\ MCInit /\ [][MCNext]_<<prefetchVars, vars, pauseVars, part>>
    /\ PrefetchFairness
=============================================================================
