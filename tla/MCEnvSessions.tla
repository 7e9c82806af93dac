--------------------------- MODULE MCEnvSessions ----------------------------
(* Model values for checking EnvSessions with TLC.  A behaviour is that of a   *)
(* server whose sweeper finds nothing to do, with two environments and three   *)
(* threads; of one like it with two threads and a call less, whose worker may  *)
(* die; or of one whose sweeper may clean up, with one environment and two     *)
(* threads.                                                                    *)
EXTENDS EnvSessions

CONSTANTS Second, Third     \* what only some servers have

VARIABLE server

Quiet == INSTANCE EnvSessions WITH MaxSweeps <- 0
Sweeping == INSTANCE EnvSessions WITH
                Handles <- Handles \ {Second}, Threads <- Threads \ {Third}

MCInit == Init /\ server \in {"quiet", "crashing", "sweeping"}

MCNext ==
    /\ \/ server = "quiet" /\ Quiet!Next /\ running \subseteq running'
       \/ server = "crashing" /\ Quiet!Next /\ calls' < MaxCalls /\ pc'[Third] = "idle"
       \/ server = "sweeping" /\ Sweeping!Next /\ running \subseteq running'
    /\ UNCHANGED server

MCSpec == MCInit /\ [][MCNext]_<<vars, server>> /\ Fairness

Unswept == server \in {"quiet", "crashing"}

\* Without a sweep, a control tool only ever asks for an environment that nobody
\* has closed, its process alive or not.
QuietControlOnOpen == Unswept => ControlOnOpen

\* Without a sweep, every environment that is open on a worker can be reached
\* by its client, or a call is about to make it so or to close it.
QuietOpenIsReachable == Unswept => OpenIsReachable

\* Without a sweep, the tools use the pool as its contract asks: each acquired
\* slot is released once.
QuietUsesPoolCorrectly == [][Unswept => P!Next]_(poolVars)
=============================================================================
