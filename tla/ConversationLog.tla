--------------------------- MODULE ConversationLog --------------------------
(***************************************************************************)
(* What the conversations of sessions promise, whatever their files look like: *)
(* the memory runs ahead of the disk by one operation at most, a death costs   *)
(* what that operation had not written yet, and a resumed session goes on from *)
(* what is on disk.  SessionMemory implements it for the sessions whose lines  *)
(* are written whole.                                                          *)
(***************************************************************************)
EXTENDS Naturals, Sequences, SequencesExt

CONSTANT Sessions

VARIABLES
    memory,    \* each conversation as the session's process has it
    disk,      \* each conversation as its file has it
    alive      \* sessions that a process has started or loaded

vars == <<memory, disk, alive>>

Init ==
    /\ memory = [s \in Sessions |-> <<>>]
    /\ disk = [s \in Sessions |-> <<>>]
    /\ alive = [s \in Sessions |-> FALSE]

\* What a compaction can make of a conversation: some of its items, in their order.
Compactions(c) ==
    {FlattenSeq([k \in DOMAIN c |-> IF k \in kept THEN <<c[k]>> ELSE <<>>]) :
        kept \in SUBSET DOMAIN c}

\* The memory of s, and of no other session, may change.
Remembers(s) == memory' = [memory EXCEPT ![s] = memory'[s]]

\* A session is started, or resumed from the disk.
Open(s) ==
    /\ ~alive[s] /\ alive' = [alive EXCEPT ![s] = TRUE]
    /\ Remembers(s) /\ IsPrefix(disk[s], memory'[s])
    /\ UNCHANGED disk

\* An operation begins when everything is on disk.
Extend(s) ==
    /\ alive[s] /\ memory[s] = disk[s]
    /\ Remembers(s) /\ IsPrefix(memory[s], memory'[s])
    /\ UNCHANGED <<disk, alive>>

Compact(s) ==
    /\ alive[s] /\ memory[s] = disk[s]
    /\ Remembers(s) /\ memory'[s] \in Compactions(memory[s])
    /\ UNCHANGED <<disk, alive>>

\* Items reach the disk one by one, a compaction at once.
Write(s) ==
    /\ alive[s]
    /\ \/ /\ IsStrictPrefix(disk[s], memory[s])
          /\ disk' = [disk EXCEPT ![s] = SubSeq(memory[s], 1, Len(disk[s]) + 1)]
       \/ /\ memory[s] \in Compactions(disk[s])
          /\ disk' = [disk EXCEPT ![s] = memory[s]]
    /\ UNCHANGED <<memory, alive>>

Die(s) ==
    /\ alive' = [alive EXCEPT ![s] = FALSE]
    /\ Remembers(s)
    /\ UNCHANGED disk

Next == \E s \in Sessions : Open(s) \/ Extend(s) \/ Compact(s) \/ Write(s) \/ Die(s)

Spec == Init /\ [][Next]_vars

=============================================================================
