---------------------------- MODULE DepthPrefetch ---------------------------
(***************************************************************************)
(* The coordinator that shares depth predictions between tool calls          *)
(* (agent/tools/depth_prefetch.py).  A SAM3 call starts a prediction for its *)
(* frame and goes on; estimate_depth_prior waits for the prediction of its   *)
(* frame, starts one if there is none, and retries one that somebody else    *)
(* started and that failed.  Every prediction has a thread and a future; the *)
(* threads take turns at one inference slot.                                 *)
(***************************************************************************)
EXTENDS Integers, Sequences, FiniteSets

CONSTANTS
    Frames,         \* request keys: camera frame and its parameters
    Callers,        \* tool-call threads
    MaxEntries,     \* size of the table above which settled entries are pruned
    MaxInferences   \* bound: when so many predictions were started, no new calls

ASSUME PrefetchAssumption ==
    /\ MaxEntries \in Nat \ {0}
    /\ MaxInferences \in Nat

\* A future is a position in "infer"; Nobody stands for "no entry".
Nobody == 0

Pending == {"new", "queued", "running", "lost"}
Settled == {"ok", "failed", "raised"}

VARIABLES
    infer,      \* the futures made so far, with their frame and their state
    entry,      \* _entries: the future in the table for each frame
    order,      \* the order of the OrderedDict, oldest first
    slot,       \* the future whose thread has the inference slot
    call,       \* what each caller is doing
    old         \* history: predictions that had failed when a call began

prefetchVars == <<infer, entry, order, slot, call, old>>

Idle == [pc |-> "idle", frame |-> Nobody, fut |-> Nobody, hit |-> FALSE]

PrefetchInit ==
    /\ infer = <<>>
    /\ entry = [k \in Frames |-> Nobody]
    /\ order = <<>>
    /\ slot = Nobody
    /\ call = [c \in Callers |-> Idle]
    /\ old = [c \in Callers |-> {}]

Futures == DOMAIN infer
Done(f) == f \in Futures /\ infer[f].state \in Settled
Failures == {f \in Futures : infer[f].state \in {"failed", "raised"}}

Without(ks) == SelectSeq(order, LAMBDA k : k \notin ks)

-----------------------------------------------------------------------------
(* _get_or_start, under the lock of the table. *)

\* The settled entries, oldest first, until there is room for one more.
Pruned ==
    {k \in Frames :
        /\ Done(entry[k])
        /\ \E i \in DOMAIN order :
             /\ order[i] = k
             /\ Cardinality({j \in 1..i : Done(entry[order[j]])})
                    <= Len(order) - MaxEntries + 1}

\* A prefetch that finds an entry is over; a call for the result waits for it.
Hit(k, c, blocking) ==
    /\ entry[k] # Nobody
    /\ order' = Append(Without({k}), k)
    /\ call' = [call EXCEPT ![c] =
         IF blocking THEN [pc |-> "wait", frame |-> k, fut |-> entry[k], hit |-> TRUE]
         ELSE Idle]
    /\ UNCHANGED <<infer, entry>>

Miss(k, c, blocking) ==
    /\ entry[k] = Nobody
    /\ infer' = Append(infer, [frame |-> k, state |-> "new"])
    /\ entry' = [q \in Frames |-> IF q = k THEN Len(infer) + 1
                                  ELSE IF q \in Pruned THEN Nobody ELSE entry[q]]
    /\ order' = Append(Without(Pruned), k)
    /\ call' = [call EXCEPT ![c] =
         [pc |-> IF blocking THEN "start" ELSE "launch",
          frame |-> k, fut |-> Len(infer) + 1, hit |-> FALSE]]

\* prefetch_for_sam3
Prefetch(c, k) ==
    /\ call[c].pc = "idle" /\ Len(infer) < MaxInferences
    /\ Hit(k, c, FALSE) \/ Miss(k, c, FALSE)
    /\ UNCHANGED <<slot, old>>

\* handler
Ask(c, k) ==
    /\ call[c].pc = "idle" /\ Len(infer) < MaxInferences
    /\ Hit(k, c, TRUE) \/ Miss(k, c, TRUE)
    /\ old' = [old EXCEPT ![c] = Failures]
    /\ UNCHANGED slot

\* The thread is started after the lock has been given back.
Started(c) ==
    /\ call[c].pc \in {"start", "launch"}
    /\ infer' = [infer EXCEPT ![call[c].fut].state = "queued"]
    /\ call' = [call EXCEPT ![c] = IF @.pc = "start" THEN [@ EXCEPT !.pc = "wait"] ELSE Idle]
    /\ UNCHANGED <<entry, order, slot, old>>

\* The process has no more threads: Thread.start raises and the call with it.
\* The entry stays, and nothing will ever settle its future.
StartFails(c) ==
    /\ call[c].pc \in {"start", "launch"}
    /\ infer' = [infer EXCEPT ![call[c].fut].state = "lost"]
    /\ call' = [call EXCEPT ![c] = Idle]
    /\ UNCHANGED <<entry, order, slot, old>>

-----------------------------------------------------------------------------
(* _run: the thread of a prediction. *)

TakeSlot(f) ==
    /\ infer[f].state = "queued" /\ slot = Nobody
    /\ slot' = f
    /\ infer' = [infer EXCEPT ![f].state = "running"]
    /\ UNCHANGED <<entry, order, call, old>>

\* Mutant: an exception ends the thread and nobody hears of it.
SettleQuietly(f, s) ==
    /\ infer[f].state = "running"
    /\ slot' = Nobody
    /\ infer' = [infer EXCEPT ![f].state = IF s = "raised" THEN "ended" ELSE s]
    /\ UNCHANGED <<entry, order, call, old>>

\* The handler returns a result, one that reports failure, or raises.
Settle(f, s) ==
    /\ infer[f].state = "running"
    /\ slot' = Nobody
    /\ infer' = [infer EXCEPT ![f].state = s]
    /\ UNCHANGED <<entry, order, call, old>>

-----------------------------------------------------------------------------
(* handler: waiting, discarding, and asking once more. *)

\* A failure is the answer unless it was found in the table.
Answer(c) ==
    /\ call[c].pc = "wait" /\ Done(call[c].fut)
    /\ infer[call[c].fut].state = "ok" \/ ~call[c].hit
    /\ call' = [call EXCEPT ![c] = Idle]
    /\ UNCHANGED <<infer, entry, order, slot, old>>

FoundFailure(c) ==
    /\ call[c].pc = "wait" /\ Done(call[c].fut)
    /\ infer[call[c].fut].state # "ok" /\ call[c].hit
    /\ call' = [call EXCEPT ![c].pc = "discard"]
    /\ UNCHANGED <<infer, entry, order, slot, old>>

\* Mutant: whatever is in the table for the frame goes.
DiscardAny(c) ==
    /\ call[c].pc = "discard"
    /\ entry' = [entry EXCEPT ![call[c].frame] = Nobody]
    /\ order' = Without({call[c].frame})
    /\ call' = [call EXCEPT ![c].pc = "retry"]
    /\ UNCHANGED <<infer, slot, old>>

\* Mutant: the failed entry stays in the table.
DiscardNothing(c) ==
    /\ call[c].pc = "discard"
    /\ call' = [call EXCEPT ![c].pc = "retry"]
    /\ UNCHANGED <<infer, entry, order, slot, old>>

\* _discard removes the entry that failed, not one that has replaced it.
Discard(c) ==
    /\ call[c].pc = "discard"
    /\ IF entry[call[c].frame] = call[c].fut
       THEN /\ entry' = [entry EXCEPT ![call[c].frame] = Nobody]
            /\ order' = Without({call[c].frame})
       ELSE UNCHANGED <<entry, order>>
    /\ call' = [call EXCEPT ![c].pc = "retry"]
    /\ UNCHANGED <<infer, slot, old>>

\* The second answer is final, whoever started the prediction.
RetryHit(c) ==
    LET k == call[c].frame IN
    /\ entry[k] # Nobody
    /\ order' = Append(Without({k}), k)
    /\ call' = [call EXCEPT ![c] =
         [pc |-> "wait", frame |-> k, fut |-> entry[k], hit |-> FALSE]]
    /\ UNCHANGED <<infer, entry>>

Retry(c) ==
    /\ call[c].pc = "retry"
    /\ RetryHit(c) \/ Miss(call[c].frame, c, TRUE)
    /\ UNCHANGED <<slot, old>>

-----------------------------------------------------------------------------

Thread(f) == TakeSlot(f) \/ \E s \in Settled : Settle(f, s)
Waiter(c) == Started(c) \/ Answer(c) \/ FoundFailure(c) \/ Discard(c) \/ Retry(c)

PrefetchNext ==
    \/ \E c \in Callers, k \in Frames : Prefetch(c, k) \/ Ask(c, k)
    \/ \E c \in Callers : Waiter(c) \/ StartFails(c)
    \/ \E f \in Futures : Thread(f)

PrefetchSpec == PrefetchInit /\ [][PrefetchNext]_prefetchVars

\* Threads that run go on and inference calls return, as they have a timeout.
PrefetchFairness ==
    /\ \A c \in Callers : WF_prefetchVars(Waiter(c))
    /\ \A f \in 1..(MaxInferences + Cardinality(Callers)) : WF_prefetchVars(f \in Futures /\ Thread(f))

-----------------------------------------------------------------------------
(* Properties *)

PrefetchTypeOK ==
    /\ infer \in Seq([frame : Frames, state : Pending \cup Settled])
    /\ entry \in [Frames -> Futures \cup {Nobody}]
    /\ order \in Seq(Frames)
    /\ {order[i] : i \in DOMAIN order} = {k \in Frames : entry[k] # Nobody}
    /\ Len(order) = Cardinality({k \in Frames : entry[k] # Nobody})
    /\ slot \in Futures \cup {Nobody}
    /\ \A c \in Callers :
         \/ call[c] = Idle
         \/ /\ call[c].pc \in {"start", "launch", "wait", "discard", "retry"}
            /\ call[c].fut \in Futures
            /\ call[c].frame = infer[call[c].fut].frame
    /\ old \in [Callers -> SUBSET Futures]

\* "Deduplicate background depth-prior calls for the same camera frame": at no
\* moment are two predictions for one frame on their way, whatever calls are
\* pruning, discarding and retrying meanwhile.
OneInferencePerFrame ==
    \A f, g \in Futures :
        /\ infer[f].frame = infer[g].frame
        /\ infer[f].state \in Pending /\ infer[g].state \in Pending
        => f = g

\* A call is never answered with a failure that was there before it was made:
\* either it had the prediction made anew or it shares somebody's new attempt.
NoStaleFailure ==
    [][\A c \in Callers : call[c].pc = "wait" /\ call'[c].pc = "idle"
       => call[c].fut \notin old[c]]_prefetchVars

\* Every call is answered, but for those that wait for a prediction whose thread
\* could not be started: the entry left behind is neither settled nor pruned.
EveryCallAnswered ==
    \A c \in Callers :
        call[c].pc # "idle" ~>
            \/ call[c].pc = "idle"
            \/ call[c].fut \in Futures /\ infer[call[c].fut].state = "lost"

=============================================================================
