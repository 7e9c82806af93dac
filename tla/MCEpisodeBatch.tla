--------------------------- MODULE MCEpisodeBatch ---------------------------
(* Model values for checking EpisodeBatch with TLC.  A batch has one episode,  *)
(* with retries, faults and recovery turns as the cfg says, or two episodes    *)
(* that take turns in one pool thread, without them.                           *)
EXTENDS EpisodeBatch, TLC

CONSTANT Second     \* the episode that only a batch of two has

VARIABLE size

Pair == INSTANCE EpisodeBatch WITH RecoveryTurns <- 0, Attempts <- 1, Faults <- {}

MCInit ==
    /\ Fresh
    /\ \/ size = 2 /\ pc = [e \in Episodes |-> "queued"]
       \/ size = 1 /\ pc = [e \in Episodes |-> IF e = Second THEN "cancelled" ELSE "queued"]

MCNext ==
    /\ \/ size = 1 /\ Next
       \/ size = 2 /\ Pair!Next
    /\ UNCHANGED size

MCSpec == MCInit /\ [][MCNext]_<<vars, size>> /\ Fairness
=============================================================================
