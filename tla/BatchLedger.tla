----------------------------- MODULE BatchLedger ----------------------------
(***************************************************************************)
(* What a batch of episodes promises to whoever asked for it, whatever its     *)
(* threads, deadlines and environments do: episodes wait, run and settle, some *)
(* at a time; their turns are committed within a budget, and none once the     *)
(* episode was given up; what is reported of an episode is what its turns came *)
(* to, and is never changed.  EpisodeBatch implements it.                      *)
(***************************************************************************)
EXTENDS Naturals, FiniteSets

CONSTANTS
    Episodes,
    Concurrency,   \* episodes that may run at a time
    Budget         \* turns an episode may commit

VARIABLES
    interrupted,   \* the batch was interrupted
    phase,         \* where each episode is
    givenUp,       \* nobody waits for the episode's results any more
    turns,         \* its committed turns
    won,           \* one of them reached the goal
    outcome        \* what is reported of it

vars == <<interrupted, phase, givenUp, turns, won, outcome>>

Init ==
    /\ interrupted = FALSE
    /\ phase = [e \in Episodes |-> "waiting"]
    /\ givenUp = [e \in Episodes |-> FALSE]
    /\ turns = [e \in Episodes |-> 0]
    /\ won = [e \in Episodes |-> FALSE]
    /\ outcome = [e \in Episodes |-> "none"]

Running == {e \in Episodes : phase[e] = "running"}

Begin(e) ==
    /\ phase[e] = "waiting" /\ Cardinality(Running) < Concurrency
    /\ phase' = [phase EXCEPT ![e] = "running"]
    /\ UNCHANGED <<interrupted, givenUp, turns, won, outcome>>

Commit(e) ==
    /\ phase[e] = "running" /\ ~givenUp[e]
    /\ turns[e] < Budget /\ turns' = [turns EXCEPT ![e] = @ + 1]
    /\ won' \in {won, [won EXCEPT ![e] = TRUE]}
    /\ UNCHANGED <<interrupted, phase, givenUp, outcome>>

GiveUp(e) ==
    /\ phase[e] = "running" /\ ~givenUp[e]
    /\ givenUp' = [givenUp EXCEPT ![e] = TRUE]
    /\ UNCHANGED <<interrupted, phase, turns, won, outcome>>

\* A success is one that was won; a human is asked in a turn.
Reports(e) ==
    {"fail"} \cup (IF won[e] THEN {"success"} ELSE {})
             \cup (IF turns[e] > 0 THEN {"need_human"} ELSE {})

Settle(e) ==
    /\ phase[e] = "running" /\ phase' = [phase EXCEPT ![e] = "settled"]
    /\ \E o \in Reports(e) : outcome' = [outcome EXCEPT ![e] = o]
    /\ UNCHANGED <<interrupted, givenUp, turns, won>>

Interrupt ==
    /\ interrupted' = TRUE
    /\ UNCHANGED <<phase, givenUp, turns, won, outcome>>

Cancel(e) ==
    /\ interrupted
    /\ phase[e] = "waiting" /\ phase' = [phase EXCEPT ![e] = "cancelled"]
    /\ UNCHANGED <<interrupted, givenUp, turns, won, outcome>>

Next ==
    \/ \E e \in Episodes : Begin(e) \/ Commit(e) \/ GiveUp(e) \/ Settle(e) \/ Cancel(e)
    \/ Interrupt

Spec == Init /\ [][Next]_vars

=============================================================================
