------------------------- MODULE AgentRuntime_proofs ------------------------
(***************************************************************************)
(* Proofs about what an agent's processes share: the depth predictions of its *)
(* tool calls (DepthPrefetch) and the files of its sessions (SessionMemory).  *)
(* They hold for all frames, callers and table sizes, and for all sessions,    *)
(* operations, compactions and crashes.  The two modules have nothing in       *)
(* common but this one; the definitions of the first carry a prefix.           *)
(***************************************************************************)
EXTENDS DepthPrefetch, SessionMemory, WellFoundedInduction, SequenceTheorems, TLAPS

-----------------------------------------------------------------------------
(* DEPTH PREDICTIONS.  A frame never has two predictions on their way, and no *)
(* call is answered with a failure that is older than the call.              *)

\* What the proofs need of the types; the order of the table plays no part.
Types ==
    /\ infer \in Seq([frame : Frames, state : Pending \cup Settled])
    /\ entry \in [Frames -> Futures \cup {Nobody}]
    /\ call \in [Callers -> [pc : {"idle", "start", "launch", "wait", "discard", "retry"},
                             frame : Frames \cup {Nobody}, fut : Nat, hit : BOOLEAN]]
    /\ old \in [Callers -> SUBSET Futures]
    /\ \A c \in Callers : call[c].pc # "idle" =>
         /\ call[c].frame \in Frames /\ call[c].fut \in Futures
         /\ infer[call[c].fut].frame = call[c].frame

\* A prediction on its way is in the table: whoever asks for the frame finds it.
PendingIsEntered ==
    \A f \in Futures : infer[f].state \in Pending => entry[infer[f].frame] = f

\* A call that is about to start a thread is the only one to, and a call that is
\* about to discard an entry holds a settled one.
StartedOnce ==
    /\ \A c \in Callers : call[c].pc \in {"start", "launch"} =>
         /\ infer[call[c].fut].state = "new"
         /\ \A d \in Callers : call[d].pc \in {"start", "launch"} /\ call[d].fut = call[c].fut
                                => d = c
    /\ \A c \in Callers : call[c].pc = "discard" => Done(call[c].fut)

\* The table holds the newest prediction of a frame, if it holds one.
EntryIsNewest ==
    \A k \in Frames : entry[k] # Nobody =>
        /\ infer[entry[k]].frame = k
        /\ \A f \in Futures : infer[f].frame = k => f <= entry[k]

\* What a call has or will find in the table is newer than the failures that
\* were there before it, or is checked once more.
FailuresAreOlder ==
    \A c \in Callers :
        /\ \A f \in old[c] : infer[f].state \in {"failed", "raised"}
        /\ call[c].pc \in {"start", "wait"} /\ ~call[c].hit => call[c].fut \notin old[c]
        /\ call[c].pc \in {"wait", "discard"} /\ call[c].hit =>
             \A f \in old[c] : infer[f].frame = call[c].frame => f <= call[c].fut
        /\ call[c].pc = "retry" /\ entry[call[c].frame] # Nobody =>
             \A f \in old[c] : infer[f].frame = call[c].frame => f < entry[call[c].frame]
        /\ call[c].pc = "start" => ~call[c].hit
        /\ call[c].pc = "discard" => call[c].hit

PrefetchIInv == Types /\ PendingIsEntered /\ StartedOnce /\ EntryIsNewest /\ FailuresAreOlder

-----------------------------------------------------------------------------
(* The two ways in which the futures change. *)

\* A new future is the last one and leaves the others as they were.
LEMMA AppendFuture ==
    ASSUME NEW R, infer \in Seq(R), NEW r \in R, infer' = Append(infer, r)
    PROVE  /\ infer' \in Seq(R)
           /\ Len(infer) \in Nat
           /\ Futures = 1..Len(infer)
           /\ Futures' = Futures \cup {Len(infer) + 1}
           /\ Len(infer) + 1 \notin Futures
           /\ \A f \in Futures : infer'[f] = infer[f] /\ f <= Len(infer) /\ f \in Nat
           /\ infer'[Len(infer) + 1] = r
  BY DEF Futures

\* A future that moves on keeps its frame and the others theirs.
LEMMA MoveFuture ==
    ASSUME Types, NEW f \in Futures, NEW s \in Pending \cup Settled,
           infer' = [infer EXCEPT ![f].state = s]
    PROVE  /\ infer' \in Seq([frame : Frames, state : Pending \cup Settled])
           /\ Futures' = Futures
           /\ \A g \in Futures : infer'[g].frame = infer[g].frame
           /\ \A g \in Futures : g # f => infer'[g] = infer[g]
           /\ infer'[f].state = s
<1> DEFINE R == [frame : Frames, state : Pending \cup Settled]
           r == [frame |-> infer[f].frame, state |-> s]
<1>1. infer \in Seq(R)
  BY DEF Types
<1>2. /\ Len(infer) \in Nat /\ infer \in [1..Len(infer) -> R]
      /\ Futures = 1..Len(infer)
  BY <1>1, LenProperties DEF Futures
<1>3. r \in R
  BY <1>2
<1>4. infer' = [infer EXCEPT ![f] = r]
  <2>1. infer' = [infer EXCEPT ![f] = [infer[f] EXCEPT !.state = s]]
    OBVIOUS
  <2>2. infer[f] \in R
    BY <1>2
  <2>3. [infer[f] EXCEPT !.state = s] = r
    BY <2>2
  <2> QED  BY <2>1, <2>3
<1>5. infer' \in Seq(R) /\ Len(infer') = Len(infer)
  <2> HIDE DEF R, r
  <2> QED  BY <1>1, <1>2, <1>3, <1>4, ExceptSeq
<1>6. Futures' = Futures
  BY <1>2, <1>5, LenProperties DEF Futures
<1>7. \A g \in Futures : infer'[g] = IF g = f THEN r ELSE infer[g]
  BY <1>4 DEF Futures
<1> QED
  BY <1>5, <1>6, <1>7

-----------------------------------------------------------------------------
(* The steps on the table. *)

\* Every call is a record of these fields.
Calls == [pc : {"idle", "start", "launch", "wait", "discard", "retry"},
          frame : Frames \cup {Nobody}, fut : Nat, hit : BOOLEAN]

\* What a call finds in the table when it begins, as far as failures go.
OldMayChange(c) ==
    /\ old' \in [Callers -> SUBSET Futures]
    /\ \A d \in Callers : d # c => old'[d] = old[d]
    /\ \A f \in old'[c] : infer[f].state \in {"failed", "raised"}

\* A miss makes the one prediction that is on its way for the frame.
LEMMA MissStep ==
    ASSUME PrefetchIInv, NEW c \in Callers, NEW k \in Frames, NEW b \in BOOLEAN,
           Miss(k, c, b), OldMayChange(c)
    PROVE  PrefetchIInv'
<1> DEFINE n == Len(infer) + 1
           R == [frame : Frames, state : Pending \cup Settled]
           new == [frame |-> k, state |-> "new"]
           start == [pc |-> IF b THEN "start" ELSE "launch", frame |-> k, fut |-> n, hit |-> FALSE]
<1>1. new \in R
  BY DEF Pending
<1>2. /\ infer' \in Seq(R) /\ Len(infer) \in Nat /\ Futures = 1..Len(infer)
      /\ Futures' = Futures \cup {n} /\ n \notin Futures
      /\ \A f \in Futures : infer'[f] = infer[f] /\ f <= Len(infer) /\ f \in Nat
      /\ infer'[n] = new
  <2> HIDE DEF R, new
  <2>1. infer \in Seq(R) /\ infer' = Append(infer, new)
    BY DEF PrefetchIInv, Types, Miss, R, new
  <2> QED  BY <2>1, <1>1, AppendFuture
<1>3. /\ entry[k] = Nobody /\ entry'[k] = n
      /\ entry' \in [Frames -> Futures' \cup {Nobody}]
      /\ \A q \in Frames : q # k => entry'[q] = entry[q] \/ (Done(entry[q]) /\ entry'[q] = Nobody)
  BY <1>2 DEF Miss, Pruned, PrefetchIInv, Types
<1>4. /\ call' = [call EXCEPT ![c] = start] /\ start \in Calls
      /\ call \in [Callers -> Calls]
  BY <1>2 DEF Miss, Calls, PrefetchIInv, Types
<1>5. call' \in [Callers -> Calls] /\ call'[c] = start /\ \A d \in Callers : d # c => call'[d] = call[d]
  <2> HIDE DEF start
  <2> QED  BY <1>4
<1>6. Types'
  <2>1. infer' \in Seq(R) /\ entry' \in [Frames -> Futures' \cup {Nobody}]
    BY <1>2, <1>3
  <2>2. call' \in [Callers -> Calls]
    BY <1>5
  <2>3. old' \in [Callers -> SUBSET Futures']
    BY <1>2 DEF OldMayChange
  <2>4. ASSUME NEW d \in Callers, call'[d].pc # "idle"
        PROVE  /\ call'[d].frame \in Frames /\ call'[d].fut \in Futures'
               /\ infer'[call'[d].fut].frame = call'[d].frame
    <3>1. CASE d = c
      BY <3>1, <1>2, <1>5
    <3>2. CASE d # c
      <4>1. call'[d] = call[d]
        BY <3>2, <1>5
      <4>2. /\ call[d].frame \in Frames /\ call[d].fut \in Futures
            /\ infer[call[d].fut].frame = call[d].frame
        BY <2>4, <4>1 DEF PrefetchIInv, Types
      <4> QED  BY <4>1, <4>2, <1>2
    <3> QED  BY <3>1, <3>2
  <2> QED  BY <2>1, <2>2, <2>3, <2>4 DEF Types, Calls
<1>7. PendingIsEntered'
  <2> SUFFICES ASSUME NEW f \in Futures', infer'[f].state \in Pending
               PROVE  entry'[infer'[f].frame] = f
    BY DEF PendingIsEntered
  <2>1. CASE f = n
    BY <2>1, <1>2, <1>3
  <2>2. CASE f \in Futures
    <3>1. entry[infer[f].frame] = f /\ infer[f].frame \in Frames /\ infer'[f] = infer[f]
      <4>1. infer'[f] = infer[f] /\ entry[infer[f].frame] = f
        BY <2>2, <1>2 DEF PrefetchIInv, PendingIsEntered
      <4>2. infer \in Seq(R) /\ f \in 1..Len(infer)
        BY <2>2, <1>2 DEF PrefetchIInv, Types
      <4>3. infer[f] \in R
        BY <4>2, ElementOfSeq
      <4> QED  BY <4>1, <4>3
    <3>2. infer[f].frame # k /\ ~Done(f)
      BY <2>2, <3>1, <1>2, <1>3 DEF Nobody, Done, Pending, Settled
    <3> QED  BY <3>1, <3>2, <1>3
  <2> QED  BY <2>1, <2>2, <1>2
<1>8. StartedOnce'
  <2>1. \A d \in Callers : d # c /\ call[d].pc # "idle" =>
          call'[d] = call[d] /\ call[d].fut \in Futures /\ call[d].fut # n
    BY <1>2, <1>5 DEF PrefetchIInv, Types
  <2>2. \A f \in Futures : Done(f) => Done(f)'
    BY <1>2 DEF Done
  <2>3. call'[c].fut = n /\ call'[c].pc \in {"start", "launch"} /\ infer'[n].state = "new"
    BY <1>2, <1>5
  <2> QED  BY <2>1, <2>2, <2>3, <1>2, <1>5 DEF PrefetchIInv, StartedOnce
<1>9. EntryIsNewest'
  <2> SUFFICES ASSUME NEW q \in Frames, entry'[q] # Nobody
               PROVE  /\ infer'[entry'[q]].frame = q
                      /\ \A f \in Futures' : infer'[f].frame = q => f <= entry'[q]
    BY DEF EntryIsNewest
  <2>1. CASE q = k
    BY <2>1, <1>2, <1>3
  <2>2. CASE q # k
    <3>1. entry'[q] = entry[q] /\ entry[q] \in Futures
      BY <2>2, <1>3 DEF PrefetchIInv, Types
    <3> QED  BY <2>2, <3>1, <1>2, <1>3 DEF PrefetchIInv, EntryIsNewest
  <2> QED  BY <2>1, <2>2
<1>10. FailuresAreOlder'
  <2> SUFFICES ASSUME NEW d \in Callers
               PROVE  /\ \A f \in old'[d] : infer'[f].state \in {"failed", "raised"}
                      /\ call'[d].pc \in {"start", "wait"} /\ ~call'[d].hit => call'[d].fut \notin old'[d]
                      /\ call'[d].pc \in {"wait", "discard"} /\ call'[d].hit =>
                           \A f \in old'[d] : infer'[f].frame = call'[d].frame => f <= call'[d].fut
                      /\ call'[d].pc = "retry" /\ entry'[call'[d].frame] # Nobody =>
                           \A f \in old'[d] : infer'[f].frame = call'[d].frame => f < entry'[call'[d].frame]
                      /\ call'[d].pc = "start" => ~call'[d].hit
                      /\ call'[d].pc = "discard" => call'[d].hit
    BY DEF FailuresAreOlder
  <2>1. old'[d] \subseteq Futures
    BY DEF OldMayChange
  <2>2. CASE d = c
    BY <2>1, <2>2, <1>2, <1>5 DEF OldMayChange
  <2>3. CASE d # c
    <3>1. old'[d] = old[d] /\ call'[d] = call[d]
      BY <2>3, <1>5 DEF OldMayChange
    <3>2. call[d].pc = "retry" => call[d].frame \in Frames
      BY DEF PrefetchIInv, Types
    <3>3. call[d].pc = "retry" /\ call[d].frame # k /\ entry'[call[d].frame] # Nobody =>
            entry'[call[d].frame] = entry[call[d].frame]
      BY <3>2, <1>3
    <3> QED  BY <3>1, <3>2, <3>3, <2>1, <1>2, <1>3, SMTT(40) DEF PrefetchIInv, FailuresAreOlder
  <2> QED  BY <2>2, <2>3
<1> QED
  BY <1>6, <1>7, <1>8, <1>9, <1>10 DEF PrefetchIInv

\* A call that is answered, or that goes on to wait for what is in the table.
LEMMA HitStep ==
    ASSUME PrefetchIInv, NEW c \in Callers, NEW k \in Frames, NEW r \in Calls,
           \/ r = Idle
           \/ entry[k] # Nobody /\ r = [pc |-> "wait", frame |-> k, fut |-> entry[k], hit |-> TRUE],
           call' = [call EXCEPT ![c] = r],
           UNCHANGED <<infer, entry>>, OldMayChange(c)
    PROVE  PrefetchIInv'
<1>1. call' \in [Callers -> Calls] /\ call'[c] = r /\ \A d \in Callers : d # c => call'[d] = call[d]
  BY DEF PrefetchIInv, Types, Calls
<1>2. /\ Futures' = Futures /\ infer' = infer /\ entry' = entry
      /\ entry[k] # Nobody => entry[k] \in Futures
  BY DEF PrefetchIInv, Types, Futures
<1>3. r.pc \in {"idle", "wait"} /\ (r.pc = "wait" => r.hit /\ r.frame = k /\ r.fut = entry[k] /\ entry[k] # Nobody)
  BY DEF Idle
<1>4. entry[k] # Nobody => /\ infer[entry[k]].frame = k
                          /\ \A f \in Futures : infer[f].frame = k => f <= entry[k]
  BY DEF PrefetchIInv, EntryIsNewest
<1>5. Types'
  BY <1>1, <1>2, <1>3, <1>4 DEF PrefetchIInv, Types, Calls, OldMayChange
<1>6. PendingIsEntered' /\ EntryIsNewest'
  BY <1>2 DEF PrefetchIInv, PendingIsEntered, EntryIsNewest
<1>7. StartedOnce'
  BY <1>1, <1>2, <1>3 DEF PrefetchIInv, StartedOnce, Done
<1>8. FailuresAreOlder'
  BY <1>1, <1>2, <1>3, <1>4 DEF PrefetchIInv, FailuresAreOlder, OldMayChange
<1> QED
  BY <1>5, <1>6, <1>7, <1>8 DEF PrefetchIInv

-----------------------------------------------------------------------------
(* The steps of threads and waiting calls. *)

Starting(r) == r.pc \in {"start", "launch"}

\* A prediction on its way moves on, and so may the call that starts its thread.
LEMMA ThreadStep ==
    ASSUME PrefetchIInv, NEW f \in Futures, NEW s \in Pending \cup Settled, infer[f].state \in Pending,
           infer' = [infer EXCEPT ![f].state = s],
           UNCHANGED <<entry, old>>,
           call' \in [Callers -> Calls],
           \A d \in Callers :
             \/ call'[d] = call[d] /\ (Starting(call[d]) => call[d].fut # f)
             \/ call'[d] = Idle
             \/ /\ call[d].pc = "start" /\ call'[d].pc = "wait"
                /\ call'[d].fut = call[d].fut /\ call'[d].frame = call[d].frame
                /\ call'[d].hit = call[d].hit
    PROVE  PrefetchIInv'
<1>1. /\ infer' \in Seq([frame : Frames, state : Pending \cup Settled])
      /\ Futures' = Futures
      /\ \A g \in Futures : infer'[g].frame = infer[g].frame
      /\ \A g \in Futures : g # f => infer'[g] = infer[g]
      /\ infer'[f].state = s
  BY MoveFuture DEF PrefetchIInv
<1>2. entry' = entry /\ old' = old
  OBVIOUS
<1>3. Types'
  BY <1>1, <1>2 DEF PrefetchIInv, Types, Calls, Idle
<1>4. PendingIsEntered'
  BY <1>1, <1>2 DEF PrefetchIInv, PendingIsEntered
<1>5. StartedOnce'
  <2>1. \A d \in Callers : Starting(call'[d]) =>
          call'[d] = call[d] /\ Starting(call[d]) /\ call[d].fut # f /\ call[d].fut \in Futures
    BY DEF PrefetchIInv, Types, Starting, Idle
  <2>2. \A d \in Callers : call'[d].pc = "discard" => call'[d] = call[d]
    BY DEF Idle
  <2>3. \A g \in Futures : infer[g].state \in Settled => infer'[g].state \in Settled
    BY <1>1 DEF Pending, Settled
  <2>5. \A d \in Callers : Starting(call'[d]) =>
          /\ infer'[call'[d].fut].state = "new"
          /\ \A e \in Callers : Starting(call'[e]) /\ call'[e].fut = call'[d].fut => e = d
    BY <2>1, <1>1 DEF PrefetchIInv, StartedOnce, Starting
  <2>6. \A d \in Callers : call'[d].pc = "discard" =>
          call'[d].fut \in Futures' /\ infer'[call'[d].fut].state \in Settled
    BY <2>2, <2>3, <1>1 DEF PrefetchIInv, StartedOnce, Done
  <2> QED  BY <2>5, <2>6 DEF StartedOnce, Starting, Done
<1>6. EntryIsNewest'
  BY <1>1, <1>2 DEF PrefetchIInv, Types, EntryIsNewest
<1>7. FailuresAreOlder'
  <2>1. \A d \in Callers : \A g \in old[d] : g \in Futures /\ g # f
    BY SMTT(40) DEF PrefetchIInv, Types, FailuresAreOlder, Pending
  <2> QED
    BY <2>1, <1>1, <1>2 DEF PrefetchIInv, FailuresAreOlder, Idle
<1> QED
  BY <1>3, <1>4, <1>5, <1>6, <1>7 DEF PrefetchIInv

\* A waiting call moves on while the futures stay; its entry may be discarded.
LEMMA WaiterStep ==
    ASSUME PrefetchIInv, NEW c \in Callers, NEW r \in Calls, call' = [call EXCEPT ![c] = r],
           UNCHANGED <<infer, old>>,
           entry' \in [Frames -> Futures \cup {Nobody}],
           \A k \in Frames : \/ entry'[k] = entry[k]
                             \/ Done(entry[k]) /\ entry'[k] = Nobody,
           \/ r = Idle
           \/ /\ r.pc \in {"wait", "discard", "retry"}
              /\ r.frame \in Frames /\ r.fut \in Futures /\ infer[r.fut].frame = r.frame
              /\ r.pc = "wait" => ~r.hit /\ r.fut \notin old[c]
              /\ r.pc = "discard" =>
                   /\ r.hit /\ Done(r.fut)
                   /\ \A f \in old[c] : infer[f].frame = r.frame => f <= r.fut
              /\ r.pc = "retry" /\ entry'[r.frame] # Nobody =>
                   \A f \in old[c] : infer[f].frame = r.frame => f < entry'[r.frame]
    PROVE  PrefetchIInv'
<1>1. call' \in [Callers -> Calls] /\ call'[c] = r /\ \A d \in Callers : d # c => call'[d] = call[d]
  BY DEF PrefetchIInv, Types, Calls
<1>2. infer' = infer /\ Futures' = Futures /\ old' = old
  BY DEF Futures
<1>3. Types'
  BY <1>1, <1>2 DEF PrefetchIInv, Types, Calls, Idle
<1>4. PendingIsEntered'
  <2> SUFFICES ASSUME NEW f \in Futures, infer[f].state \in Pending
               PROVE  entry'[infer[f].frame] = f
    BY <1>2 DEF PendingIsEntered
  <2>1. entry[infer[f].frame] = f /\ ~Done(f)
    BY DEF PrefetchIInv, PendingIsEntered, Done, Pending, Settled
  <2>2. infer \in Seq([frame : Frames, state : Pending \cup Settled]) /\ f \in 1..Len(infer)
    BY LenProperties DEF PrefetchIInv, Types, Futures
  <2>3. infer[f] \in [frame : Frames, state : Pending \cup Settled]
    BY <2>2, ElementOfSeq
  <2> QED  BY <2>1, <2>3
<1>5. StartedOnce'
  BY <1>1, <1>2 DEF PrefetchIInv, StartedOnce, Done, Idle
<1>6. EntryIsNewest'
  BY <1>1, <1>2 DEF PrefetchIInv, EntryIsNewest
<1>7. FailuresAreOlder'
  <2> SUFFICES ASSUME NEW d \in Callers
               PROVE  /\ \A f \in old[d] : infer[f].state \in {"failed", "raised"}
                      /\ call'[d].pc \in {"start", "wait"} /\ ~call'[d].hit => call'[d].fut \notin old[d]
                      /\ call'[d].pc \in {"wait", "discard"} /\ call'[d].hit =>
                           \A f \in old[d] : infer[f].frame = call'[d].frame => f <= call'[d].fut
                      /\ call'[d].pc = "retry" /\ entry'[call'[d].frame] # Nobody =>
                           \A f \in old[d] : infer[f].frame = call'[d].frame => f < entry'[call'[d].frame]
                      /\ call'[d].pc = "start" => ~call'[d].hit
                      /\ call'[d].pc = "discard" => call'[d].hit
    BY <1>2 DEF FailuresAreOlder
  <2>1. \A f \in old[d] : infer[f].state \in {"failed", "raised"}
    BY DEF PrefetchIInv, FailuresAreOlder
  <2>2. CASE d = c
    <3>1. CASE r = Idle
      BY <2>1, <2>2, <3>1, <1>1 DEF Idle
    <3>2. CASE r # Idle
      BY <2>1, <2>2, <3>2, <1>1
    <3> QED  BY <3>1, <3>2
  <2>3. CASE d # c
    <3>1. call'[d] = call[d]
      BY <2>3, <1>1
    <3>2. call[d].pc = "retry" => call[d].frame \in Frames
      BY DEF PrefetchIInv, Types
    <3> QED  BY <2>1, <3>1, <3>2 DEF PrefetchIInv, FailuresAreOlder
  <2> QED  BY <2>2, <2>3
<1> QED
  BY <1>3, <1>4, <1>5, <1>6, <1>7 DEF PrefetchIInv

\* A record changed in its pc is a call again.
LEMMA MoveCall ==
    ASSUME Types, NEW c \in Callers, NEW p \in {"idle", "start", "launch", "wait", "discard", "retry"},
           call' = [call EXCEPT ![c].pc = p]
    PROVE  \E r \in Calls : /\ call' = [call EXCEPT ![c] = r]
                            /\ r.pc = p /\ r.frame = call[c].frame
                            /\ r.fut = call[c].fut /\ r.hit = call[c].hit
<1>1. call' = [call EXCEPT ![c] = [call[c] EXCEPT !.pc = p]]
  OBVIOUS
<1>2. call[c] \in Calls
  BY DEF Types, Calls
<1>3. [call[c] EXCEPT !.pc = p] \in Calls
  BY <1>2 DEF Calls
<1>4. /\ [call[c] EXCEPT !.pc = p].pc = p
      /\ [call[c] EXCEPT !.pc = p].frame = call[c].frame
      /\ [call[c] EXCEPT !.pc = p].fut = call[c].fut
      /\ [call[c] EXCEPT !.pc = p].hit = call[c].hit
  BY <1>2 DEF Calls
<1> QED  BY <1>1, <1>3, <1>4

-----------------------------------------------------------------------------
(* The invariant. *)

\* The table and the callers of a new coordinator satisfy the invariant.
LEMMA PrefetchInitially == PrefetchInit => PrefetchIInv
<1> SUFFICES ASSUME PrefetchInit PROVE PrefetchIInv
  OBVIOUS
<1>1. infer = <<>> /\ Futures = {}
  BY DEF PrefetchInit, Futures
<1> QED
  BY <1>1, EmptySeq DEF PrefetchInit, PrefetchIInv, Types, PendingIsEntered, StartedOnce, EntryIsNewest,
                        FailuresAreOlder, Idle, Nobody, Starting

\* Every action of callers and threads keeps it.
LEMMA PrefetchStep == PrefetchIInv /\ [PrefetchNext]_prefetchVars => PrefetchIInv'
<1> SUFFICES ASSUME PrefetchIInv, [PrefetchNext]_prefetchVars PROVE PrefetchIInv'
  OBVIOUS
<1>1. \A c \in Callers : call[c] \in Calls /\ (OldMayChange(c) \/ old' # old)
  BY DEF PrefetchIInv, Types, Calls, OldMayChange, FailuresAreOlder
<1>2. call \in [Callers -> Calls] /\ Idle \in Calls
  <2>1. call \in [Callers -> Calls]
    BY DEF PrefetchIInv, Types, Calls
  <2>2. Idle \in Calls
    BY DEF Calls, Idle, Nobody
  <2> QED  BY <2>1, <2>2
<1>3. ASSUME NEW c \in Callers, NEW k \in Frames, Prefetch(c, k) PROVE PrefetchIInv'
  <2>1. OldMayChange(c)
    BY <1>1, <1>3 DEF Prefetch
  <2>2. CASE Hit(k, c, FALSE)
    BY <2>1, <2>2, <1>2, HitStep DEF Hit
  <2>3. CASE Miss(k, c, FALSE)
    BY <2>1, <2>3, MissStep
  <2> QED  BY <1>3, <2>2, <2>3 DEF Prefetch
<1>4. ASSUME NEW c \in Callers, NEW k \in Frames, Ask(c, k) PROVE PrefetchIInv'
  <2>1. OldMayChange(c)
    BY <1>4 DEF Ask, OldMayChange, Failures, PrefetchIInv, Types
  <2>2. CASE Hit(k, c, TRUE)
    <3> DEFINE r == [pc |-> "wait", frame |-> k, fut |-> entry[k], hit |-> TRUE]
    <3>1. r \in Calls
      <4>1. entry[k] \in Nat
        BY LenProperties DEF PrefetchIInv, Types, Futures, Nobody
      <4> QED  BY <4>1 DEF Calls
    <3>2. entry[k] # Nobody /\ call' = [call EXCEPT ![c] = r] /\ UNCHANGED <<infer, entry>>
      BY <2>2 DEF Hit
    <3> QED  BY <2>1, <3>1, <3>2, HitStep
  <2>3. CASE Miss(k, c, TRUE)
    BY <2>1, <2>3, MissStep
  <2> QED  BY <1>4, <2>2, <2>3 DEF Ask
<1>5. ASSUME NEW c \in Callers, Started(c) PROVE PrefetchIInv'
  <2> DEFINE f == call[c].fut
             r == [pc |-> "wait", frame |-> call[c].frame, fut |-> f, hit |-> call[c].hit]
  <2>1. /\ f \in Futures /\ infer[f].state = "new" /\ r \in Calls
        /\ \A d \in Callers : Starting(call[d]) /\ call[d].fut = f => d = c
    BY <1>5, <1>2 DEF Started, PrefetchIInv, Types, StartedOnce, Starting, Calls
  <2>2. call' = [call EXCEPT ![c] = IF call[c].pc = "start" THEN r ELSE Idle]
    <3>1. [call[c] EXCEPT !.pc = "wait"] = r
      <4>1. call[c] \in Calls
        BY <1>2
      <4> QED  BY <4>1 DEF Calls
    <3>2. call' = [call EXCEPT ![c] = IF call[c].pc = "start" THEN [call[c] EXCEPT !.pc = "wait"]
                                      ELSE Idle]
      BY <1>5 DEF Started
    <3> HIDE DEF r
    <3> QED  BY <3>1, <3>2
  <2>3. call' \in [Callers -> Calls]
    BY <1>2, <2>1, <2>2
  <2>4. infer' = [infer EXCEPT ![f].state = "queued"] /\ UNCHANGED <<entry, old>>
    BY <1>5 DEF Started
  <2>5. \A d \in Callers :
          \/ call'[d] = call[d] /\ (Starting(call[d]) => call[d].fut # f)
          \/ call'[d] = Idle
          \/ /\ call[d].pc = "start" /\ call'[d].pc = "wait"
             /\ call'[d].fut = call[d].fut /\ call'[d].frame = call[d].frame
             /\ call'[d].hit = call[d].hit
    BY <1>2, <2>1, <2>2
  <2> HIDE DEF f, r
  <2> QED  BY <2>1, <2>3, <2>4, <2>5, ThreadStep DEF Pending
<1>6. ASSUME NEW c \in Callers, StartFails(c) PROVE PrefetchIInv'
  <2> DEFINE f == call[c].fut
  <2>1. /\ f \in Futures /\ infer[f].state = "new"
        /\ \A d \in Callers : Starting(call[d]) /\ call[d].fut = f => d = c
    BY <1>6 DEF StartFails, PrefetchIInv, Types, StartedOnce, Starting
  <2>2. call' = [call EXCEPT ![c] = Idle]
    BY <1>6 DEF StartFails
  <2>3. call' \in [Callers -> Calls] /\ \A d \in Callers :
          \/ call'[d] = call[d] /\ (Starting(call[d]) => call[d].fut # f)
          \/ call'[d] = Idle
    BY <1>2, <2>1, <2>2
  <2>4. infer' = [infer EXCEPT ![f].state = "lost"] /\ UNCHANGED <<entry, old>>
    BY <1>6 DEF StartFails
  <2> HIDE DEF f
  <2> QED  BY <2>1, <2>3, <2>4, ThreadStep DEF Pending
<1>7. ASSUME NEW f \in Futures, Thread(f) PROVE PrefetchIInv'
  <2>1. PICK s \in Pending \cup Settled :
          infer' = [infer EXCEPT ![f].state = s] /\ UNCHANGED <<entry, call, old>>
    BY <1>7 DEF Thread, TakeSlot, Settle, Pending
  <2>2. infer[f].state \in {"queued", "running"}
    BY <1>7 DEF Thread, TakeSlot, Settle
  <2>3. \A d \in Callers : call'[d] = call[d] /\ (Starting(call[d]) => call[d].fut # f)
    BY <2>1, <2>2 DEF PrefetchIInv, StartedOnce, Starting
  <2> QED  BY <1>2, <2>1, <2>2, <2>3, ThreadStep DEF Pending
<1>8. ASSUME NEW c \in Callers, Answer(c) PROVE PrefetchIInv'
  <2>1. call' = [call EXCEPT ![c] = Idle] /\ UNCHANGED <<infer, entry, old>>
    BY <1>8 DEF Answer
  <2> QED  BY <2>1, <1>2, WaiterStep DEF PrefetchIInv, Types
<1>9. ASSUME NEW c \in Callers, FoundFailure(c) PROVE PrefetchIInv'
  <2>1. PICK r \in Calls : /\ call' = [call EXCEPT ![c] = r]
                           /\ r.pc = "discard" /\ r.frame = call[c].frame
                           /\ r.fut = call[c].fut /\ r.hit = call[c].hit
    BY <1>9, MoveCall DEF FoundFailure, PrefetchIInv
  <2>2. /\ UNCHANGED <<infer, entry, old>>
        /\ call[c].pc = "wait" /\ call[c].hit /\ Done(call[c].fut)
    BY <1>9 DEF FoundFailure
  <2>3. /\ r.frame \in Frames /\ r.fut \in Futures /\ infer[r.fut].frame = r.frame
        /\ \A f \in old[c] : infer[f].frame = r.frame => f <= r.fut
    BY <2>1, <2>2 DEF PrefetchIInv, Types, FailuresAreOlder
  <2> QED  BY <2>1, <2>2, <2>3, WaiterStep DEF PrefetchIInv, Types
<1>10. ASSUME NEW c \in Callers, Discard(c) PROVE PrefetchIInv'
  <2>1. PICK r \in Calls : /\ call' = [call EXCEPT ![c] = r]
                           /\ r.pc = "retry" /\ r.frame = call[c].frame
                           /\ r.fut = call[c].fut /\ r.hit = call[c].hit
    BY <1>10, MoveCall DEF Discard, PrefetchIInv
  <2>2. /\ r.frame \in Frames /\ r.fut \in Futures /\ infer[r.fut].frame = r.frame
        /\ \A f \in old[c] : infer[f].frame = r.frame => f <= r.fut
        /\ Done(r.fut)
    BY <1>10, <2>1 DEF Discard, PrefetchIInv, Types, FailuresAreOlder, StartedOnce
  <2>3. /\ UNCHANGED <<infer, old>>
        /\ entry' = IF entry[r.frame] = r.fut THEN [entry EXCEPT ![r.frame] = Nobody] ELSE entry
    BY <1>10, <2>1 DEF Discard
  <2>4. entry \in [Frames -> Futures \cup {Nobody}] /\ old[c] \subseteq Futures
    BY DEF PrefetchIInv, Types
  <2>5. /\ entry' \in [Frames -> Futures \cup {Nobody}]
        /\ \A k \in Frames : entry'[k] = entry[k] \/ (Done(entry[k]) /\ entry'[k] = Nobody)
    BY <2>2, <2>3, <2>4
  <2>6. \A f \in Futures : f \in Nat
    BY LenProperties DEF PrefetchIInv, Types, Futures
  <2>7. ASSUME entry'[r.frame] # Nobody, NEW f \in old[c], infer[f].frame = r.frame
        PROVE  f < entry'[r.frame]
    <3>1. entry'[r.frame] = entry[r.frame] /\ entry[r.frame] # r.fut
      BY <2>2, <2>3, <2>4, <2>7
    <3>2. entry[r.frame] \in Futures /\ r.fut <= entry[r.frame] /\ f <= r.fut
      BY <2>2, <2>4, <2>7, <3>1 DEF PrefetchIInv, EntryIsNewest
    <3> QED  BY <3>1, <3>2, <2>2, <2>4, <2>6
  <2> QED  BY <2>1, <2>2, <2>3, <2>5, <2>7, WaiterStep
<1>11. ASSUME NEW c \in Callers, Retry(c) PROVE PrefetchIInv'
  <2> DEFINE k == call[c].frame
  <2>1. k \in Frames /\ call[c].pc = "retry" /\ old' = old
    BY <1>11 DEF Retry, PrefetchIInv, Types
  <2>2. CASE RetryHit(c)
    <3> DEFINE r == [pc |-> "wait", frame |-> k, fut |-> entry[k], hit |-> FALSE]
    <3>1. /\ entry[k] # Nobody /\ call' = [call EXCEPT ![c] = r]
          /\ UNCHANGED <<infer, entry, old>>
      BY <2>1, <2>2 DEF RetryHit
    <3>2. entry[k] \in Futures /\ infer[entry[k]].frame = k
      BY <2>1, <3>1 DEF PrefetchIInv, Types, EntryIsNewest
    <3>3. \A f \in Futures : f \in Nat
      BY LenProperties DEF PrefetchIInv, Types, Futures
    <3>4. r \in Calls
      BY <2>1, <3>2, <3>3 DEF Calls
    <3>5. entry[k] \notin old[c]
      <4>1. \A f \in old[c] : infer[f].frame = k => f < entry[k]
        BY <2>1, <3>1 DEF PrefetchIInv, FailuresAreOlder
      <4> QED  BY <4>1, <3>2, <3>3
    <3> QED  BY <2>1, <3>1, <3>2, <3>4, <3>5, WaiterStep DEF PrefetchIInv, Types
  <2>3. CASE Miss(k, c, TRUE)
    BY <2>1, <2>3, <1>1, MissStep
  <2> QED  BY <1>11, <2>2, <2>3 DEF Retry
<1>12. CASE UNCHANGED prefetchVars
  BY <1>12 DEF prefetchVars, PrefetchIInv, Types, PendingIsEntered, StartedOnce, EntryIsNewest,
               FailuresAreOlder, Done, Futures
<1> QED
  BY <1>3, <1>4, <1>5, <1>6, <1>7, <1>8, <1>9, <1>10, <1>11, <1>12 DEF PrefetchNext, Waiter

\* So it holds in every behaviour.
LEMMA PrefetchInvariant == PrefetchSpec => []PrefetchIInv
  BY PrefetchInitially, PrefetchStep, PTL DEF PrefetchSpec

-----------------------------------------------------------------------------
(* What follows. *)

\* "Deduplicate background depth-prior calls for the same camera frame": at no
\* moment are two predictions for one frame on their way (_get_or_start).
THEOREM DedupCorrect == PrefetchSpec => []OneInferencePerFrame
<1>1. PrefetchIInv => OneInferencePerFrame
  <2> SUFFICES ASSUME PrefetchIInv, NEW f \in Futures, NEW g \in Futures,
                      infer[f].frame = infer[g].frame,
                      infer[f].state \in Pending, infer[g].state \in Pending
               PROVE  f = g
    BY DEF OneInferencePerFrame
  <2> QED  BY DEF PrefetchIInv, PendingIsEntered
<1> QED
  BY <1>1, PrefetchInvariant, PTL

\* A call is never answered with a failure that was there before it was made
\* (the retry in handler).
THEOREM FreshnessCorrect == PrefetchSpec => NoStaleFailure
<1> DEFINE A == \A c \in Callers :
                  call[c].pc = "wait" /\ call'[c].pc = "idle" => call[c].fut \notin old[c]
<1>1. PrefetchIInv /\ [PrefetchNext]_prefetchVars => [A]_prefetchVars
  <2> SUFFICES ASSUME PrefetchIInv, PrefetchNext, NEW c \in Callers,
                      call[c].pc = "wait", call'[c].pc = "idle"
               PROVE  call[c].fut \notin old[c]
    BY DEF prefetchVars
  <2>1. call \in [Callers -> Calls]
    BY DEF PrefetchIInv, Types, Calls
  <2>2. CASE Answer(c)
    BY <2>1, <2>2 DEF Answer, PrefetchIInv, FailuresAreOlder
  <2>3. CASE ~Answer(c)
    \* Every other step leaves the call alone, or takes it elsewhere.
    <3>1. ASSUME NEW d \in Callers, NEW k \in Frames, Prefetch(d, k) \/ Ask(d, k) PROVE FALSE
      <4>1. call[d].pc = "idle" /\ \E r : call' = [call EXCEPT ![d] = r]
        BY <3>1 DEF Prefetch, Ask, Hit, Miss
      <4> QED  BY <4>1, <2>1
    <3>2. ASSUME NEW d \in Callers, Started(d) \/ StartFails(d) PROVE FALSE
      <4>1. call[d].pc \in {"start", "launch"} /\ \E r : call' = [call EXCEPT ![d] = r]
        BY <3>2 DEF Started, StartFails
      <4> QED  BY <4>1, <2>1
    <3>3. ASSUME NEW d \in Callers, FoundFailure(d) PROVE FALSE
      <4>1. PICK r \in Calls : call' = [call EXCEPT ![d] = r] /\ r.pc = "discard"
        BY <3>3, MoveCall DEF FoundFailure, PrefetchIInv
      <4> QED  BY <4>1, <2>1
    <3>4. ASSUME NEW d \in Callers, Discard(d) PROVE FALSE
      <4>1. PICK r \in Calls : call' = [call EXCEPT ![d] = r] /\ r.pc = "retry"
        BY <3>4, MoveCall DEF Discard, PrefetchIInv
      <4> QED  BY <4>1, <2>1
    <3>5. ASSUME NEW d \in Callers, Answer(d) PROVE FALSE
      <4>1. d # c /\ call' = [call EXCEPT ![d] = Idle]
        BY <3>5, <2>3 DEF Answer
      <4> QED  BY <4>1, <2>1
    <3>6. ASSUME NEW d \in Callers, Retry(d) PROVE FALSE
      <4>1. call[d].pc = "retry" /\ \E r : call' = [call EXCEPT ![d] = r]
        BY <3>6 DEF Retry, RetryHit, Miss
      <4> QED  BY <4>1, <2>1
    <3>7. ASSUME NEW f \in Futures, Thread(f) PROVE FALSE
      BY <3>7 DEF Thread, TakeSlot, Settle
    <3> QED  BY <3>1, <3>2, <3>3, <3>4, <3>5, <3>6, <3>7 DEF PrefetchNext, Waiter
  <2> QED  BY <2>2, <2>3
<1> QED
  BY <1>1, PrefetchInvariant, PTL DEF PrefetchSpec, NoStaleFailure

-----------------------------------------------------------------------------
(* SESSION FILES.  What is on disk is what the memory was, up to the writes    *)
(* that are still to be done: the inductive invariant says what these are.     *)

Records == [type : {"item", "checkpoint"}, items : Seq(ItemSet)]
Entries == [Sessions -> Nat \cup {None}]
Steps ==
    [do : {"lock", "upsert", "event", "load"}] \cup [do : {"touch"}, n : {0, 1}]
    \cup [do : {"record"}, rec : Records] \cup [do : {"file"}, part : ToSet(Parts)]

Counts(x) == x.do = "touch" /\ x.n = 1
Writes(x, p) == x.do = "file" /\ x.part = p

\* What is left of what an operation has the store do: an index update reads the
\* index first, an event is counted next, and nothing follows a load.
Rest(t) ==
    /\ t \in Seq(Steps)
    /\ \A k \in 1..Len(t) :
         /\ t[k].do = "event" => k + 2 <= Len(t) /\ t[k + 1].do = "lock" /\ Counts(t[k + 2])
         /\ t[k].do = "lock" => k < Len(t) /\ t[k + 1].do \in {"touch", "upsert"}
         /\ k > 1 /\ t[k].do \in {"touch", "upsert"} => t[k - 1].do = "lock"
         /\ k > 2 /\ Counts(t[k]) => t[k - 2].do = "event"
         /\ t[k].do = "load" =>
              k = Len(t) /\ \A j \in 1..(k - 1) : t[j].do \in {"lock", "upsert"}

\* Plans that have not begun: each update begins with the lock, and the
\* facts are written before the state that goes with them.
Plan(t) ==
    /\ Rest(t)
    /\ \A k \in 1..Len(t) :
         /\ t[k].do # "load"
         /\ t[k].do \in {"touch", "upsert"} => k > 1
         /\ Counts(t[k]) => k > 2
         /\ Writes(t[k], "agent_working_state") => \E j \in 1..(k - 1) : Writes(t[j], "facts")

\* The records that are still to be written.
ItemRec(i) == [type |-> "item", items |-> <<i>>]
Outstanding(t) ==
    FlattenSeq([k \in 1..Len(t) |-> IF t[k].do = "record" THEN <<t[k].rec>> ELSE <<>>])

Paired(its) ==
    \A j \in 1..Len(its) : its[j].kind = "result" =>
        \E i \in 1..(j - 1) : its[i].kind = "action" /\ its[i].id = its[j].id

\* However many of the outstanding records are written, no result stands alone.
Pairs(recs, out) == \A k \in 0..Len(out) : Paired(Replay(recs \o SubSeq(out, 1, k)))

\* Nothing but items is outstanding, or one compaction of what is on disk.
Single(out) == \A k \in 1..Len(out) : out[k].type = "item" /\ Len(out[k].items) = 1
Ahead(recs, out) ==
    \/ Single(out)
    \/ /\ Len(out) = 1 /\ out[1].type = "checkpoint"
       /\ out[1].items \in Log!Compactions(Replay(recs))

Loading(t) == \E k \in 1..Len(t) : t[k].do = "load"
Counting(t) == t # <<>> /\ (Counts(t[1]) \/ (t[1].do = "lock" /\ Counts(t[2])))
Entering(t) == t # <<>> /\ (t[1].do = "upsert" \/ (t[1].do = "lock" /\ t[2].do = "upsert"))

Processes == [pc : {"new", "up", "dead", "refused"}, todo : Seq(Steps),
              seen : Entries \cup {None}, crashes : 0..MaxCrashes]

Typed ==
    /\ proc \in [Sessions -> Processes]
    /\ items \in [Sessions -> Seq(ItemSet)]
    /\ work \in [Sessions -> [ToSet(Parts) -> 0..ops]]
    /\ files \in [Sessions -> [ToSet(Parts) -> 0..ops]]
    /\ trace \in [Sessions -> [events : Nat, open : {"no", "cut", "bare"}, unread : BOOLEAN]]
    /\ conv \in [Sessions -> [recs : Seq(Records), open : {"no", "cut", "garbled", "bare"}]]
    /\ index \in Entries
    /\ lock \in Sessions \cup {None}
    /\ ops \in 0..MaxOps

\* What a process is about to do, and the lock it needs for it.
Working(s) ==
    /\ Rest(proc[s].todo)
    /\ proc[s].pc # "up" => proc[s].todo = <<>>
    /\ (lock = s) <=> (proc[s].todo # <<>> /\ proc[s].todo[1].do \in {"touch", "upsert"})
    /\ proc[s].seen = IF lock = s THEN index ELSE None

\* The working memory and its files.
Kept(s) ==
    /\ work[s].agent_working_state <= work[s].facts
    /\ files[s].agent_working_state <= files[s].facts
    /\ proc[s].pc = "new" => files[s].facts = 0
    /\ proc[s].pc = "up" /\ ~Loading(proc[s].todo) =>
         /\ files[s].facts <= work[s].facts
         /\ \A k \in 1..Len(proc[s].todo) : Writes(proc[s].todo[k], "agent_working_state") =>
              \/ files[s].facts = work[s].facts
              \/ \E j \in 1..(k - 1) : Writes(proc[s].todo[j], "facts")

\* The trace and its count.
Counted(s) ==
    /\ trace[s].open = "no"
    /\ index[s] = None => trace[s].events = 0 /\ (proc[s].pc = "up" => Entering(proc[s].todo))
    /\ index[s] # None =>
         LET c == IF Counting(proc[s].todo) THEN 1 ELSE 0 IN
         index[s] + c <= trace[s].events /\ trace[s].events <= index[s] + c + proc[s].crashes

\* The conversation and its records.
Told(s) ==
    LET out == Outstanding(proc[s].todo) IN
    /\ conv[s].open = "no"
    /\ proc[s].pc = "new" => conv[s].recs = <<>>
    /\ proc[s].pc = "up" /\ ~Loading(proc[s].todo) => Replay(conv[s].recs \o out) = items[s]
    /\ Pairs(conv[s].recs, out) /\ Ahead(conv[s].recs, out)

IInv ==
    /\ Typed
    /\ \A s \in Sessions : Working(s) /\ Kept(s)
    /\ \A s \in Whole : Counted(s) /\ Told(s)

-----------------------------------------------------------------------------
\* Every set of numbers has a least one, since < is well founded.
LEMMA LeastNumber ==
    ASSUME NEW T, T \subseteq Nat, T # {}
    PROVE  \E n \in T : \A m \in T : n <= m
<1> DEFINE lt == {ss \in Nat \X Nat : ss[1] < ss[2]}
<1>1. IsWellFoundedOn(lt, Nat)
  BY NatLessThanWellFounded DEF OpToRel
<1>2. \A m, n \in Nat : <<m, n>> \in lt <=> m < n
  OBVIOUS
<1> HIDE DEF lt
<1>3. PICK n \in T : \A m \in T : <<m, n>> \notin lt
  BY <1>1, WFMin
<1>4. ASSUME NEW m \in T PROVE n <= m
  <2>1. m \in Nat /\ n \in Nat /\ ~ (m < n)
    BY <1>2, <1>3
  <2> QED  BY <2>1
<1> QED
  BY <1>4

\* Hence induction over the numbers, for sets instead of operators.
LEMMA Induction ==
    ASSUME NEW S, 0 \in S, \A n \in Nat : n \in S => n + 1 \in S
    PROVE  Nat \subseteq S
<1> SUFFICES ASSUME Nat \ S # {} PROVE FALSE
  OBVIOUS
<1>1. PICK n \in Nat \ S : \A m \in Nat \ S : n <= m
  BY LeastNumber
<1>2. n # 0 /\ n - 1 \in Nat /\ n - 1 \notin Nat \ S
  BY <1>1
<1> QED
  BY <1>1, <1>2

\* f is given at 0, and at n + 1 by a step function applied to its value at n.
Iteration(f, x0, g) == f[0] = x0 /\ \A n \in Nat : f[n + 1] = g[n + 1][f[n]]

\* Hence a function of the numbers that is given by its steps exists.
LEMMA Iterates ==
    ASSUME NEW X, NEW x0 \in X, NEW g \in [Nat -> [X -> X]]
    PROVE  \E f \in [Nat -> X] : Iteration(f, x0, g)
<1> DEFINE Upto(n, f) == f[0] = x0 /\ \A k \in Nat : k < n => f[k + 1] = g[k + 1][f[k]]
<1> DEFINE S == {n \in Nat : \E f \in [Nat -> X] : Upto(n, f)}
<1>1. 0 \in S
  <2>1. [k \in Nat |-> x0] \in [Nat -> X] /\ Upto(0, [k \in Nat |-> x0])
    OBVIOUS
  <2> QED  BY <2>1
<1>2. ASSUME NEW n \in Nat, n \in S PROVE n + 1 \in S
  <2>1. PICK f \in [Nat -> X] : Upto(n, f)
    BY <1>2
  <2> DEFINE h == [f EXCEPT ![n + 1] = g[n + 1][f[n]]]
  <2>2. h \in [Nat -> X] /\ h[n + 1] = g[n + 1][f[n]] /\ \A k \in Nat : k # n + 1 => h[k] = f[k]
    OBVIOUS
  <2> HIDE DEF h
  <2>3. ASSUME NEW k \in Nat, k < n + 1 PROVE h[k + 1] = g[k + 1][h[k]]
    <3>1. CASE k = n
      BY <2>2, <3>1
    <3>2. CASE k < n
      <4>1. f[k + 1] = g[k + 1][f[k]] /\ k # n + 1 /\ k + 1 # n + 1
        BY <2>1, <3>2
      <4> QED  BY <2>2, <4>1
    <3> QED  BY <2>3, <3>1, <3>2
  <2>4. Upto(n + 1, h)
    BY <2>1, <2>2, <2>3
  <2> QED  BY <2>2, <2>4
<1>3. Nat \subseteq S
  <2> HIDE DEF S
  <2> QED  BY <1>1, <1>2, Induction
<1> DEFINE F == [n \in Nat |-> CHOOSE f \in [Nat -> X] : Upto(n, f)]
<1>4. \A n \in Nat : F[n] \in [Nat -> X] /\ Upto(n, F[n])
  BY <1>3
<1> HIDE DEF F
<1>5. ASSUME NEW m \in Nat PROVE \A n \in Nat : n >= m => F[n][m] = F[m][m]
  <2> DEFINE R == {k \in Nat : \A n \in Nat : n >= k => F[n][k] = F[k][k]}
  <2>1. 0 \in R
    BY <1>4
  <2>2. ASSUME NEW k \in Nat, k \in R PROVE k + 1 \in R
    <3>1. ASSUME NEW n \in Nat, n >= k + 1 PROVE F[n][k + 1] = F[k + 1][k + 1]
      <4>1. F[n][k] = F[k][k] /\ F[k + 1][k] = F[k][k]
        BY <2>2, <3>1
      <4>2. F[n][k + 1] = g[k + 1][F[n][k]] /\ F[k + 1][k + 1] = g[k + 1][F[k + 1][k]]
        BY <1>4, <3>1
      <4> QED  BY <4>1, <4>2
    <3> QED  BY <3>1
  <2> HIDE DEF R
  <2>3. Nat \subseteq R
    BY <2>1, <2>2, Induction
  <2> QED  BY <2>3 DEF R
<1> DEFINE d == [n \in Nat |-> F[n][n]]
<1>6. d \in [Nat -> X] /\ d[0] = x0
  BY <1>4
<1>7. ASSUME NEW n \in Nat PROVE d[n + 1] = g[n + 1][d[n]]
  <2>1. F[n + 1][n + 1] = g[n + 1][F[n + 1][n]]
    BY <1>4
  <2>2. F[n + 1][n] = F[n][n]
    BY <1>5
  <2> QED  BY <2>1, <2>2
<1> QED
  BY <1>6, <1>7 DEF Iteration

\* What FlattenSeq computes, given the sequence of its intermediate results.
LEMMA Flattening ==
    ASSUME NEW X, NEW seqs \in Seq(Seq(X)), NEW f \in [Nat -> Seq(X)], f[0] = <<>>,
           \A n \in 1..Len(seqs) : f[n] = f[n - 1] \o seqs[n]
    PROVE  FlattenSeq(seqs) = f[Len(seqs)]
<1>1. CASE Len(seqs) = 0
  BY <1>1 DEF FlattenSeq
<1>2. CASE Len(seqs) # 0
  <2> DEFINE Q(g) == g = [i \in 1..Len(seqs) |-> IF i = 1 THEN seqs[i] ELSE g[i - 1] \o seqs[i]]
  <2> DEFINE c == CHOOSE g : Q(g)
  <2>1. Q([i \in 1..Len(seqs) |-> f[i]])
    <3>1. ASSUME NEW i \in 1..Len(seqs) PROVE f[i] = IF i = 1 THEN seqs[i] ELSE f[i - 1] \o seqs[i]
      <4> HIDE DEF Q, c
      <4>1. f[i] = f[i - 1] \o seqs[i]
        OBVIOUS
      <4>2. seqs[i] \in Seq(X)
        OBVIOUS
      <4>3. <<>> \o seqs[i] = seqs[i]
        BY <4>2
      <4>4. i = 1 => f[i - 1] = <<>>
        OBVIOUS
      <4> QED  BY <4>1, <4>3, <4>4
    <3>2. ASSUME NEW i \in 1..Len(seqs), i # 1
          PROVE  [k \in 1..Len(seqs) |-> f[k]][i - 1] = f[i - 1]
      BY <3>2
    <3> QED  BY <3>1, <3>2
  <2>2. Q(c)
    <3> HIDE DEF Q
    <3> QED  BY <2>1, Zenon
  <2>3. FlattenSeq(seqs) = c[Len(seqs)]
    BY <1>2, Zenon DEF FlattenSeq
  <2> HIDE DEF c
  <2> DEFINE S == {n \in Nat : n \in 1..Len(seqs) => c[n] = f[n]}
  <2>4. ASSUME NEW n \in Nat, n \in S PROVE n + 1 \in S
    <3> SUFFICES ASSUME n + 1 \in 1..Len(seqs) PROVE c[n + 1] = f[n + 1]
      BY SMTT(40)
    <3> HIDE DEF Q, S
    <3>1. f[n + 1] = f[n] \o seqs[n + 1] /\ seqs[n + 1] \in Seq(X)
      <4>1. (n + 1) - 1 = n
        OBVIOUS
      <4>2. f[n + 1] = f[(n + 1) - 1] \o seqs[n + 1]
        OBVIOUS
      <4>3. seqs[n + 1] \in Seq(X)
        OBVIOUS
      <4> QED  BY <4>1, <4>2, <4>3
    <3>2. c[n + 1] = IF n + 1 = 1 THEN seqs[n + 1] ELSE c[n] \o seqs[n + 1]
      <4>1. c = [i \in 1..Len(seqs) |-> IF i = 1 THEN seqs[i] ELSE c[i - 1] \o seqs[i]]
        BY <2>2 DEF Q
      <4>2. (n + 1) - 1 = n
        OBVIOUS
      <4>3. c[n + 1] = IF n + 1 = 1 THEN seqs[n + 1] ELSE c[(n + 1) - 1] \o seqs[n + 1]
        BY <4>1
      <4> QED  BY <4>2, <4>3
    <3>3. CASE n = 0
      <4>1. <<>> \o seqs[n + 1] = seqs[n + 1]
        BY <3>1
      <4>2. f[n] = <<>> /\ n + 1 = 1
        BY <3>3
      <4> QED  BY <3>1, <3>2, <4>1, <4>2
    <3>4. CASE n # 0
      <4>1. n \in 1..Len(seqs) /\ n + 1 # 1
        BY <3>4
      <4>2. c[n] = f[n]
        BY <2>4, <4>1 DEF S
      <4> QED  BY <3>1, <3>2, <4>1, <4>2
    <3> QED  BY <3>3, <3>4
  <2>5. 0 \in S
    OBVIOUS
  <2> HIDE DEF S
  <2>6. Nat \subseteq S
    BY <2>4, <2>5, Induction
  <2>7. Len(seqs) \in S
    BY <2>6
  <2> QED  BY <1>2, <2>3, <2>7 DEF S
<1> QED
  BY <1>1, <1>2

\* The intermediate results.
LEMMA Partial ==
    ASSUME NEW X, NEW seqs \in Seq(Seq(X))
    PROVE  \E f \in [Nat -> Seq(X)] :
              f[0] = <<>> /\ \A n \in 1..Len(seqs) : f[n] = f[n - 1] \o seqs[n]
<1> DEFINE g == [n \in Nat |-> [x \in Seq(X) |-> IF n \in 1..Len(seqs) THEN x \o seqs[n] ELSE x]]
<1>1. g \in [Nat -> [Seq(X) -> Seq(X)]]
  OBVIOUS
<1>2. <<>> \in Seq(X)
  OBVIOUS
<1>3. \A n \in 1..Len(seqs) : \A x \in Seq(X) : g[n][x] = x \o seqs[n]
  OBVIOUS
<1> HIDE DEF g
<1>4. \E f \in [Nat -> Seq(X)] : Iteration(f, <<>>, g)
  BY <1>1, <1>2, Iterates
<1>6. PICK f \in [Nat -> Seq(X)] : f[0] = <<>> /\ \A n \in Nat : f[n + 1] = g[n + 1][f[n]]
  BY <1>4 DEF Iteration
<1>5. ASSUME NEW n \in 1..Len(seqs) PROVE f[n] = f[n - 1] \o seqs[n]
  <2>1. n - 1 \in Nat /\ (n - 1) + 1 = n
    OBVIOUS
  <2> QED  BY <1>3, <1>6, <2>1
<1> QED
  BY <1>5, <1>6

\* Nothing is flattened to nothing.
LEMMA FlattenEmpty == FlattenSeq(<<>>) = <<>>
  BY DEF FlattenSeq

\* One more sequence is put at the end.
LEMMA FlattenAppend ==
    ASSUME NEW X, NEW seqs \in Seq(Seq(X)), NEW e \in Seq(X)
    PROVE  /\ FlattenSeq(seqs) \in Seq(X)
           /\ FlattenSeq(Append(seqs, e)) = FlattenSeq(seqs) \o e
<1> DEFINE t == Append(seqs, e)
<1>1. t \in Seq(Seq(X)) /\ Len(t) = Len(seqs) + 1 /\ t[Len(t)] = e
      /\ \A n \in 1..Len(seqs) : t[n] = seqs[n]
  OBVIOUS
<1> HIDE DEF t
<1>2. PICK f \in [Nat -> Seq(X)] : f[0] = <<>> /\ \A n \in 1..Len(t) : f[n] = f[n - 1] \o t[n]
  BY <1>1, Partial
<1>3. FlattenSeq(t) = f[Len(t)]
  BY <1>1, <1>2, Flattening
<1>4. ASSUME NEW n \in 1..Len(seqs) PROVE f[n] = f[n - 1] \o seqs[n]
  <2>1. n \in 1..Len(t)
    BY <1>1
  <2>2. t[n] = seqs[n]
    BY <1>1
  <2> QED  BY <1>2, <2>1, <2>2
<1>5. FlattenSeq(seqs) = f[Len(seqs)]
  BY <1>2, <1>4, Flattening
<1>6. f[Len(t)] = f[Len(seqs)] \o e
  <2>1. Len(t) \in 1..Len(t) /\ Len(t) - 1 = Len(seqs)
    BY <1>1
  <2>2. f[Len(t)] = f[Len(t) - 1] \o t[Len(t)]
    BY <1>2, <2>1
  <2> QED  BY <1>1, <2>1, <2>2
<1> QED
  BY <1>3, <1>5, <1>6 DEF t

\* Appending to the second of two sequences.
LEMMA AppendConcat ==
    ASSUME NEW Y, NEW a \in Seq(Y), NEW c \in Seq(Y), NEW e \in Y
    PROVE  a \o Append(c, e) = Append(a \o c, e) /\ a \o c \in Seq(Y)
  OBVIOUS

\* Concatenation is associative.
LEMMA Associative ==
    ASSUME NEW X
    PROVE  \A p, q, r \in Seq(X) : (p \o q) \o r = p \o (q \o r)
  OBVIOUS

\* FlattenSeq distributes over concatenation: by induction over the second.
LEMMA FlattenConcat ==
    ASSUME NEW X, NEW a \in Seq(Seq(X)), NEW b \in Seq(Seq(X))
    PROVE  FlattenSeq(a \o b) = FlattenSeq(a) \o FlattenSeq(b)
<1> DEFINE S == {n \in Nat : n <= Len(b) =>
                    FlattenSeq(a \o SubSeq(b, 1, n)) = FlattenSeq(a) \o FlattenSeq(SubSeq(b, 1, n))}
<1>1. 0 \in S
  <2>1. SubSeq(b, 1, 0) = <<>> /\ a \o <<>> = a
    OBVIOUS
  <2>2. FlattenSeq(a) \in Seq(X) /\ FlattenSeq(a) \o <<>> = FlattenSeq(a)
    BY FlattenAppend
  <2> QED  BY <2>1, <2>2, FlattenEmpty
<1>2. ASSUME NEW n \in Nat, n \in S PROVE n + 1 \in S
  <2> SUFFICES ASSUME n + 1 <= Len(b)
               PROVE  FlattenSeq(a \o SubSeq(b, 1, n + 1))
                      = FlattenSeq(a) \o FlattenSeq(SubSeq(b, 1, n + 1))
    OBVIOUS
  <2> DEFINE c == SubSeq(b, 1, n)
  <2>1. c \in Seq(Seq(X)) /\ b[n + 1] \in Seq(X) /\ SubSeq(b, 1, n + 1) = Append(c, b[n + 1])
    OBVIOUS
  <2>2. FlattenSeq(a \o c) = FlattenSeq(a) \o FlattenSeq(c)
    BY <1>2
  <2> HIDE DEF c, S
  <2>3. a \o Append(c, b[n + 1]) = Append(a \o c, b[n + 1]) /\ a \o c \in Seq(Seq(X))
    BY <2>1, AppendConcat
  <2>4. /\ FlattenSeq(Append(a \o c, b[n + 1])) = FlattenSeq(a \o c) \o b[n + 1]
        /\ FlattenSeq(Append(c, b[n + 1])) = FlattenSeq(c) \o b[n + 1]
        /\ FlattenSeq(a) \in Seq(X) /\ FlattenSeq(c) \in Seq(X)
    BY <2>1, <2>3, FlattenAppend
  <2>5. (FlattenSeq(a) \o FlattenSeq(c)) \o b[n + 1] = FlattenSeq(a) \o (FlattenSeq(c) \o b[n + 1])
    <3>1. \A p, q, r \in Seq(X) : (p \o q) \o r = p \o (q \o r)
      BY Associative, SMTT(40)
    <3>2. FlattenSeq(a) \in Seq(X) /\ FlattenSeq(c) \in Seq(X) /\ b[n + 1] \in Seq(X)
      BY <2>1, <2>4
    <3> QED  BY <3>1, <3>2, Zenon
  <2> QED  BY <2>1, <2>2, <2>3, <2>4, <2>5
<1> HIDE DEF S
<1>3. Nat \subseteq S
  BY <1>1, <1>2, Induction
<1>4. Len(b) \in Nat /\ Len(b) <= Len(b) /\ SubSeq(b, 1, Len(b)) = b
  OBVIOUS
<1>5. Len(b) \in S
  BY <1>3, <1>4
<1> QED
  BY <1>4, <1>5 DEF S

\* Empty sequences are flattened to the empty one.
LEMMA FlattenNothing ==
    ASSUME NEW X, NEW a \in Seq(Seq(X)), \A k \in 1..Len(a) : a[k] = <<>>
    PROVE  FlattenSeq(a) = <<>>
<1> DEFINE f == [n \in Nat |-> <<>>]
<1>1. f \in [Nat -> Seq(X)] /\ f[0] = <<>> /\ f[Len(a)] = <<>>
  OBVIOUS
<1>2. ASSUME NEW n \in 1..Len(a) PROVE f[n] = f[n - 1] \o a[n]
  OBVIOUS
<1> HIDE DEF f
<1> QED
  BY <1>1, <1>2, Flattening

-----------------------------------------------------------------------------
(* Replay. *)

\* A nonempty set of positions has a last one.
LEMMA LastOf ==
    ASSUME NEW n \in Nat, NEW T, T \subseteq 1..n, T # {}
    PROVE  \E i \in T : \A j \in T : j <= i
<1> DEFINE U == {n - i : i \in T}
<1>1. U \subseteq Nat /\ U # {}
  <2>1. ASSUME NEW i \in T PROVE n - i \in Nat
    OBVIOUS
  <2> QED  BY <2>1
<1>2. PICK u \in U : \A v \in U : u <= v
  BY <1>1, LeastNumber
<1>3. PICK i \in T : u = n - i
  BY <1>2
<1>4. ASSUME NEW j \in T PROVE j <= i
  <2>1. n - i <= n - j
    BY <1>2, <1>3
  <2> QED  BY <2>1
<1> QED
  BY <1>4

\* Where the replay of records begins.
First(recs) ==
    IF Checkpoints(recs) = {} THEN 1
    ELSE CHOOSE i \in Checkpoints(recs) : \A j \in Checkpoints(recs) : j <= i

Replayed(recs) == [i \in 1..Len(recs) |-> IF i < First(recs) THEN <<>> ELSE recs[i].items]

\* What Replay is made of, and the types of its parts.
LEMMA ReplayIs ==
    ASSUME NEW recs \in Seq(Records)
    PROVE  /\ Replay(recs) = FlattenSeq(Replayed(recs))
           /\ Replayed(recs) \in Seq(Seq(ItemSet))
           /\ Replay(recs) \in Seq(ItemSet)
           /\ First(recs) \in Nat
           /\ Checkpoints(recs) \subseteq 1..Len(recs)
           /\ Checkpoints(recs) # {} => First(recs) \in Checkpoints(recs)
           /\ \A j \in Checkpoints(recs) : j <= First(recs)
<1>1. Checkpoints(recs) \subseteq 1..Len(recs) /\ DOMAIN recs = 1..Len(recs)
  BY DEF Checkpoints
<1>2. ASSUME Checkpoints(recs) # {}
      PROVE  First(recs) \in Checkpoints(recs) /\ \A j \in Checkpoints(recs) : j <= First(recs)
  <2>1. \E i \in Checkpoints(recs) : \A j \in Checkpoints(recs) : j <= i
    BY <1>1, <1>2, LastOf
  <2> QED  BY <1>2, <2>1, Zenon DEF First
<1>3. First(recs) \in Nat
  BY <1>1, <1>2 DEF First
<1>4. Replay(recs) = FlattenSeq(Replayed(recs))
  <2>1. Replay(recs) = FlattenSeq([i \in DOMAIN recs |-> IF i < First(recs) THEN <<>> ELSE recs[i].items])
    BY Zenon DEF Replay, First
  <2> QED  BY <1>1, <2>1 DEF Replayed
<1>5. Replayed(recs) \in Seq(Seq(ItemSet))
  <2>1. ASSUME NEW i \in 1..Len(recs)
        PROVE  (IF i < First(recs) THEN <<>> ELSE recs[i].items) \in Seq(ItemSet)
    <3>1. recs[i] \in Records
      OBVIOUS
    <3>2. recs[i].items \in Seq(ItemSet)
      BY <3>1 DEF Records
    <3>3. <<>> \in Seq(ItemSet)
      OBVIOUS
    <3> QED  BY <3>2, <3>3
  <2> QED  BY <2>1 DEF Replayed
<1>6. FlattenSeq(Replayed(recs)) \in Seq(ItemSet)
  <2>1. <<>> \in Seq(ItemSet)
    OBVIOUS
  <2> QED  BY <1>5, <2>1, FlattenAppend
<1> QED
  BY <1>1, <1>2, <1>3, <1>4, <1>5, <1>6

\* No records, no conversation.
LEMMA ReplayEmpty == Replay(<<>>) = <<>>
<1>1. Replayed(<<>>) = <<>> /\ <<>> \in Seq(Records)
  BY DEF Replayed
<1> QED
  BY <1>1, ReplayIs, FlattenEmpty

\* An item record adds its items, a checkpoint replaces all.
LEMMA ReplayAppend ==
    ASSUME NEW recs \in Seq(Records), NEW r \in Records
    PROVE  Replay(Append(recs, r)) =
              IF r.type = "item" THEN Replay(recs) \o r.items ELSE r.items
<1> DEFINE t == Append(recs, r)
<1>1. t \in Seq(Records) /\ Len(t) = Len(recs) + 1 /\ t[Len(t)] = r
      /\ (\A i \in 1..Len(recs) : t[i] = recs[i]) /\ DOMAIN t = 1..Len(t)
      /\ DOMAIN recs = 1..Len(recs) /\ r.items \in Seq(ItemSet) /\ r.type \in {"item", "checkpoint"}
  BY DEF Records
<1> HIDE DEF t
<1>2. CASE r.type = "item"
  <2>1. Checkpoints(t) = Checkpoints(recs)
    BY <1>1, <1>2 DEF Checkpoints
  <2>2. First(t) = First(recs)
    BY <2>1 DEF First
  <2>3. First(recs) <= Len(t)
    <3>1. CASE Checkpoints(recs) = {}
      BY <1>1, <3>1 DEF First
    <3>2. CASE Checkpoints(recs) # {}
      <4>1. First(recs) \in 1..Len(recs)
        BY <3>2, ReplayIs
      <4> QED  BY <1>1, <4>1
    <3> QED  BY <3>1, <3>2
  <2>4. Replayed(t) = Append(Replayed(recs), r.items)
    <3>1. Len(Replayed(recs)) = Len(recs)
      BY DEF Replayed
    <3> QED  BY <1>1, <2>2, <2>3, <3>1, ReplayIs DEF Replayed
  <2> QED  BY <1>1, <1>2, <2>4, ReplayIs, FlattenAppend, ZenonT(40) DEF t
<1>3. CASE r.type = "checkpoint"
  <2>1. Len(t) \in Checkpoints(t)
    BY <1>1, <1>3 DEF Checkpoints
  <2>2. First(t) = Len(t)
    <3>1. First(t) \in 1..Len(t) /\ Len(t) <= First(t)
      BY <1>1, <2>1, ReplayIs
    <3> QED  BY <3>1
  <2> DEFINE e == [i \in 1..Len(recs) |-> <<>>]
  <2>3. e \in Seq(Seq(ItemSet)) /\ Len(e) = Len(recs) /\ \A k \in 1..Len(e) : e[k] = <<>>
    OBVIOUS
  <2>4. Replayed(t) = Append(e, r.items)
    BY <1>1, <2>2, ReplayIs DEF Replayed
  <2> HIDE DEF e
  <2>5. FlattenSeq(e) = <<>>
    BY <2>3, FlattenNothing
  <2>6. FlattenSeq(Append(e, r.items)) = FlattenSeq(e) \o r.items /\ <<>> \o r.items = r.items
    BY <1>1, <2>3, FlattenAppend
  <2> QED  BY <1>1, <1>3, <2>4, <2>5, <2>6, ReplayIs DEF t
<1> QED
  BY <1>1, <1>2, <1>3

-----------------------------------------------------------------------------
(* Conversations.                                                           *)

\* What a compaction retains is a conversation.
LEMMA RetainedType ==
    ASSUME NEW its \in Seq(ItemSet), NEW msgs \in Nat
    PROVE  Retained(its, msgs) \in Seq(ItemSet)
<1> DEFINE recent(k, n) == Cardinality({j \in DOMAIN its : its[j].kind = k /\ its[j].id >= n})
           fits(i) == IF i.kind = "message" THEN recent("message", i.id) <= msgs
                      ELSE recent("action", i.id) <= RetainedActions
           p == [k \in DOMAIN its |-> IF fits(its[k]) THEN <<its[k]>> ELSE <<>>]
<1>1. Retained(its, msgs) = FlattenSeq(p)
  BY Zenon DEF Retained
<1> HIDE DEF fits
<1>2. ASSUME NEW k \in 1..Len(its) PROVE (IF fits(its[k]) THEN <<its[k]>> ELSE <<>>) \in Seq(ItemSet)
  <2>1. its[k] \in ItemSet
    OBVIOUS
  <2> QED  BY <2>1
<1>3. p \in Seq(Seq(ItemSet)) /\ <<>> \in Seq(ItemSet)
  <2>1. DOMAIN its = 1..Len(its)
    OBVIOUS
  <2> QED  BY <1>2, <2>1
<1> QED
  BY <1>1, <1>3, FlattenAppend

\* What compact retains are items of the conversation, and every result with its
\* action, since both have one id.
LEMMA RetainedPaired ==
    ASSUME NEW its \in Seq(ItemSet), Paired(its), NEW msgs \in Nat
    PROVE  Paired(Retained(its, msgs))
<1> DEFINE recent(k, n) == Cardinality({j \in DOMAIN its : its[j].kind = k /\ its[j].id >= n})
           fits(i) == IF i.kind = "message" THEN recent("message", i.id) <= msgs
                      ELSE recent("action", i.id) <= RetainedActions
           p == [k \in DOMAIN its |-> IF fits(its[k]) THEN <<its[k]>> ELSE <<>>]
<1>1. Retained(its, msgs) = FlattenSeq(p)
  BY Zenon DEF Retained
<1>2. \A i, j \in 1..Len(its) :
         its[i].kind = "action" /\ its[j].kind = "result" /\ its[i].id = its[j].id
           => (fits(its[i]) <=> fits(its[j]))
  OBVIOUS
<1> HIDE DEF fits
<1>3. p \in Seq(Seq(ItemSet)) /\ Len(p) = Len(its)
      /\ \A k \in 1..Len(its) : p[k] = IF fits(its[k]) THEN <<its[k]>> ELSE <<>>
  <2>1. ASSUME NEW k \in 1..Len(its) PROVE (IF fits(its[k]) THEN <<its[k]>> ELSE <<>>) \in Seq(ItemSet)
    <3>1. its[k] \in ItemSet
      OBVIOUS
    <3> QED  BY <3>1
  <2>2. DOMAIN its = 1..Len(its)
    OBVIOUS
  <2> QED  BY <2>1, <2>2
<1> HIDE DEF p
<1>4. PICK f \in [Nat -> Seq(ItemSet)] :
         f[0] = <<>> /\ \A n \in 1..Len(p) : f[n] = f[n - 1] \o p[n]
  BY <1>3, Partial
<1>5. FlattenSeq(p) = f[Len(p)]
  BY <1>3, <1>4, Flattening
<1> DEFINE Has(n) == \A k \in 1..n : fits(its[k]) => \E i \in 1..Len(f[n]) : f[n][i] = its[k]
           S == {n \in Nat : n <= Len(its) => Has(n) /\ Paired(f[n])}
<1>6. 0 \in S
  BY <1>4 DEF Paired
<1>7. ASSUME NEW n \in Nat, n \in S PROVE n + 1 \in S
  <2> SUFFICES ASSUME n + 1 <= Len(its) PROVE Has(n + 1) /\ Paired(f[n + 1])
    OBVIOUS
  <2>1. Has(n) /\ Paired(f[n])
    BY <1>7
  <2>2. n + 1 \in 1..Len(its) /\ f[n] \in Seq(ItemSet) /\ f[n + 1] \in Seq(ItemSet)
        /\ its[n + 1] \in ItemSet
    OBVIOUS
  <2>3. f[n + 1] = f[n] \o p[n + 1]
    <3>1. n + 1 \in 1..Len(p) /\ (n + 1) - 1 = n
      BY <1>3
    <3> QED  BY <1>4, <3>1
  <2>4. CASE ~ fits(its[n + 1])
    <3>1. f[n + 1] = f[n]
      <4>1. p[n + 1] = <<>>
        BY <1>3, <2>2, <2>4
      <4> QED  BY <2>2, <2>3, <4>1
    <3>2. Has(n + 1)
      <4>1. \A k \in 1..(n + 1) : fits(its[k]) => k \in 1..n
        BY <2>4, SMTT(40)
      <4> QED  BY <2>1, <3>1, <4>1
    <3>3. Paired(f[n + 1])
      BY <2>1, <3>1
    <3> QED  BY <3>2, <3>3
  <2>5. CASE fits(its[n + 1])
    <3>1. Len(f[n + 1]) = Len(f[n]) + 1 /\ f[n + 1][Len(f[n]) + 1] = its[n + 1]
          /\ \A i \in 1..Len(f[n]) : f[n + 1][i] = f[n][i]
      <4>1. p[n + 1] = <<its[n + 1]>>
        BY <1>3, <2>2, <2>5
      <4> QED  BY <2>2, <2>3, <4>1
    <3>2. Len(f[n]) \in Nat
      BY <2>2
    <3>3. Has(n + 1)
      <4> SUFFICES ASSUME NEW k \in 1..(n + 1), fits(its[k])
                   PROVE  \E i \in 1..Len(f[n + 1]) : f[n + 1][i] = its[k]
        OBVIOUS
      <4>1. CASE k = n + 1
        BY <3>1, <3>2, <4>1
      <4>2. CASE k # n + 1
        <5>1. PICK i \in 1..Len(f[n]) : f[n][i] = its[k]
          BY <2>1, <4>2
        <5> QED  BY <3>1, <3>2, <5>1
      <4> QED  BY <4>1, <4>2
    <3>4. ASSUME NEW j \in 1..Len(f[n + 1]), f[n + 1][j].kind = "result"
          PROVE  \E i \in 1..(j - 1) : f[n + 1][i].kind = "action" /\ f[n + 1][i].id = f[n + 1][j].id
      <4>1. CASE j <= Len(f[n])
        <5>1. j \in 1..Len(f[n]) /\ f[n + 1][j] = f[n][j]
          BY <3>1, <3>2, <4>1
        <5>2. Paired(f[n]) /\ f[n][j].kind = "result"
          BY <2>1, <3>4, <5>1
        <5>3. PICK i \in 1..(j - 1) : f[n][i].kind = "action" /\ f[n][i].id = f[n][j].id
          BY <5>1, <5>2, Zenon DEF Paired
        <5>4. i \in 1..Len(f[n])
          BY <3>2, <5>1, <5>3
        <5>5. f[n + 1][i] = f[n][i]
          BY <3>1, <5>4
        <5> QED  BY <5>1, <5>3, <5>5
      <4>2. CASE j = Len(f[n]) + 1
        <5>1. its[n + 1].kind = "result"
          BY <3>1, <3>4, <4>2
        <5>2. PICK m \in 1..n : its[m].kind = "action" /\ its[m].id = its[n + 1].id
          <6>1. \E m \in 1..((n + 1) - 1) : its[m].kind = "action" /\ its[m].id = its[n + 1].id
            BY <2>2, <5>1 DEF Paired
          <6>2. (n + 1) - 1 = n
            OBVIOUS
          <6> QED  BY <6>1, <6>2
        <5>3. fits(its[m])
          <6>1. m \in 1..Len(its)
            BY <5>2
          <6>2. fits(its[m]) <=> fits(its[n + 1])
            BY <1>2, <2>2, <5>1, <5>2, <6>1, Zenon
          <6> QED  BY <2>5, <6>2
        <5>4. PICK i \in 1..Len(f[n]) : f[n][i] = its[m]
          BY <2>1, <5>2, <5>3
        <5>5. f[n + 1][j] = its[n + 1] /\ f[n + 1][i] = its[m] /\ i \in 1..(j - 1)
          BY <3>1, <3>2, <4>2, <5>4
        <5> QED  BY <5>2, <5>5
      <4> QED  BY <3>1, <3>2, <4>1, <4>2
    <3> QED  BY <3>3, <3>4 DEF Paired
  <2> QED  BY <2>4, <2>5
<1> HIDE DEF S
<1>8. Nat \subseteq S
  BY <1>6, <1>7, Induction
<1>9. Len(its) \in S /\ Len(its) \in Nat
  BY <1>8
<1> QED
  BY <1>1, <1>3, <1>4, <1>5, <1>9 DEF S

-----------------------------------------------------------------------------
(* What is left to do. *)

\* The files of the working memory.
LEMMA PartSet ==
    /\ ToSet(Parts) = {"facts", "agent_working_state"}
    /\ Parts = <<"facts", "agent_working_state">> /\ DOMAIN Parts = 1..2
  BY DEF Parts, ToSet

\* The fields of a step.
LEMMA StepFacts ==
    ASSUME NEW x \in Steps
    PROVE  /\ x.do \in {"lock", "upsert", "event", "load", "touch", "record", "file"}
           /\ x.do = "touch" => x.n \in {0, 1}
           /\ x.do = "record" => x.rec \in Records
           /\ x.do = "file" => x.part \in {"facts", "agent_working_state"}
  BY PartSet DEF Steps

\* Every write that the operations plan is one of Steps.
LEMMA AreSteps ==
    /\ [do |-> "lock"] \in Steps /\ [do |-> "upsert"] \in Steps
    /\ [do |-> "event"] \in Steps /\ [do |-> "load"] \in Steps
    /\ \A n \in {0, 1} : [do |-> "touch", n |-> n] \in Steps
    /\ \A r \in Records : [do |-> "record", rec |-> r] \in Steps
    /\ \A p \in {"facts", "agent_working_state"} : [do |-> "file", part |-> p] \in Steps
<1>1. [do |-> "lock"] \in Steps /\ [do |-> "upsert"] \in Steps
      /\ [do |-> "event"] \in Steps /\ [do |-> "load"] \in Steps
  BY DEF Steps
<1>2. \A n \in {0, 1} : [do |-> "touch", n |-> n] \in Steps
  BY DEF Steps
<1>3. \A r \in Records : [do |-> "record", rec |-> r] \in Steps
  BY DEF Steps
<1>4. \A p \in {"facts", "agent_working_state"} : [do |-> "file", part |-> p] \in Steps
  BY PartSet DEF Steps
<1> QED
  BY <1>1, <1>2, <1>3, <1>4

\* The record that a step writes.
Written(x) == IF x.do = "record" THEN <<x.rec>> ELSE <<>>

\* Outstanding, as a flattening of what each step writes.
LEMMA WrittenType ==
    ASSUME NEW t \in Seq(Steps)
    PROVE  /\ [k \in 1..Len(t) |-> Written(t[k])] \in Seq(Seq(Records))
           /\ Outstanding(t) = FlattenSeq([k \in 1..Len(t) |-> Written(t[k])])
           /\ Outstanding(t) \in Seq(Records)
<1>1. ASSUME NEW k \in 1..Len(t) PROVE Written(t[k]) \in Seq(Records)
  <2>1. t[k] \in Steps
    OBVIOUS
  <2>2. t[k].do = "record" => t[k].rec \in Records
    BY <2>1, StepFacts
  <2> QED  BY <2>2 DEF Written
<1>2. [k \in 1..Len(t) |-> Written(t[k])] \in Seq(Seq(Records))
  BY <1>1
<1>3. Outstanding(t) = FlattenSeq([k \in 1..Len(t) |-> Written(t[k])])
  BY Zenon DEF Outstanding, Written
<1>4. <<>> \in Seq(Records)
  OBVIOUS
<1> QED
  BY <1>2, <1>3, <1>4, FlattenAppend

\* The records of two plans are written in their order.
LEMMA OutstandingConcat ==
    ASSUME NEW a \in Seq(Steps), NEW b \in Seq(Steps)
    PROVE  Outstanding(a \o b) = Outstanding(a) \o Outstanding(b)
<1> DEFINE c == a \o b
           wa == [k \in 1..Len(a) |-> Written(a[k])]
           wb == [k \in 1..Len(b) |-> Written(b[k])]
           wc == [k \in 1..Len(c) |-> Written(c[k])]
<1>1. c \in Seq(Steps)
  OBVIOUS
<1>2. /\ wa \in Seq(Seq(Records)) /\ wb \in Seq(Seq(Records)) /\ wc \in Seq(Seq(Records))
      /\ Outstanding(a) = FlattenSeq(wa) /\ Outstanding(b) = FlattenSeq(wb)
      /\ Outstanding(c) = FlattenSeq(wc)
  <2> HIDE DEF c
  <2> QED  BY <1>1, WrittenType
<1>3. Len(c) = Len(a) + Len(b) /\ Len(a) \in Nat /\ Len(b) \in Nat
      /\ \A k \in 1..Len(c) : c[k] = IF k <= Len(a) THEN a[k] ELSE b[k - Len(a)]
  OBVIOUS
<1> HIDE DEF c
<1>4. /\ Len(wa) = Len(a) /\ Len(wb) = Len(b) /\ Len(wc) = Len(c)
      /\ \A k \in 1..Len(a) : wa[k] = Written(a[k])
      /\ \A k \in 1..Len(b) : wb[k] = Written(b[k])
      /\ \A k \in 1..Len(c) : wc[k] = Written(c[k])
  BY <1>3
<1> HIDE DEF wa, wb, wc
<1>5. wc = wa \o wb
  <2>1. wa \o wb \in Seq(Seq(Records)) /\ Len(wa \o wb) = Len(wc)
        /\ \A k \in 1..Len(c) : (wa \o wb)[k] = IF k <= Len(wa) THEN wa[k] ELSE wb[k - Len(wa)]
    BY <1>2, <1>3, <1>4, SMTT(40)
  <2>2. ASSUME NEW k \in 1..Len(wc) PROVE wc[k] = (wa \o wb)[k]
    <3>1. CASE k <= Len(a)
      <4>1. k \in 1..Len(a) /\ k \in 1..Len(c)
        BY <1>3, <1>4, <3>1
      <4> QED  BY <1>3, <1>4, <2>1, <3>1, <4>1
    <3>2. CASE ~ k <= Len(a)
      <4>1. k - Len(a) \in 1..Len(b) /\ k \in 1..Len(c)
        BY <1>3, <1>4, <3>2
      <4> QED  BY <1>3, <1>4, <2>1, <3>2, <4>1, ZenonT(40)
    <3> QED  BY <3>1, <3>2
  <2> QED  BY <1>2, <2>1, <2>2, SeqEqual
<1>6. FlattenSeq(wa \o wb) = FlattenSeq(wa) \o FlattenSeq(wb)
  BY <1>2, FlattenConcat
<1> QED
  BY <1>2, <1>5, <1>6 DEF c

\* Steps without a record leave the conversation alone.
LEMMA OutstandingNone ==
    ASSUME NEW t \in Seq(Steps), \A k \in 1..Len(t) : t[k].do # "record"
    PROVE  Outstanding(t) = <<>>
<1> DEFINE w == [k \in 1..Len(t) |-> Written(t[k])]
<1>1. w \in Seq(Seq(Records)) /\ Outstanding(t) = FlattenSeq(w)
  BY WrittenType
<1>2. \A k \in 1..Len(w) : w[k] = <<>>
  BY DEF Written
<1> HIDE DEF w
<1> QED
  BY <1>1, <1>2, FlattenNothing

\* A step that writes a record.
LEMMA OutstandingOne ==
    ASSUME NEW r \in Records
    PROVE  Outstanding(<<[do |-> "record", rec |-> r]>>) = <<r>>
<1> DEFINE x == [do |-> "record", rec |-> r]
<1>1. x \in Steps /\ Written(x) = <<r>>
  BY AreSteps DEF Written
<1> HIDE DEF x
<1>2. [k \in 1..Len(<<x>>) |-> Written(<<x>>[k])] = Append(<<>>, <<r>>)
  BY <1>1
<1>3. <<x>> \in Seq(Steps) /\ <<>> \in Seq(Seq(Records)) /\ <<r>> \in Seq(Records)
  BY <1>1
<1>4. Outstanding(<<x>>) = FlattenSeq(<<>>) \o <<r>>
  BY <1>2, <1>3, WrittenType, FlattenAppend
<1> QED
  BY <1>4, FlattenEmpty DEF x

\* What is outstanding once the first step is done.
LEMMA OutstandingTail ==
    ASSUME NEW t \in Seq(Steps), t # <<>>
    PROVE  /\ Tail(t) \in Seq(Steps)
           /\ Outstanding(t) = Written(t[1]) \o Outstanding(Tail(t))
           /\ t[1].do # "record" => Outstanding(t) = Outstanding(Tail(t))
<1>1. t[1] \in Steps /\ Tail(t) \in Seq(Steps) /\ <<t[1]>> \in Seq(Steps)
  OBVIOUS
<1>2. t = <<t[1]>> \o Tail(t)
  OBVIOUS
<1>3. Outstanding(t) = Outstanding(<<t[1]>>) \o Outstanding(Tail(t))
  BY <1>1, <1>2, OutstandingConcat
<1>4. Outstanding(Tail(t)) \in Seq(Records)
  BY <1>1, WrittenType
<1>5. Outstanding(<<t[1]>>) = Written(t[1])
  <2>1. CASE t[1].do = "record"
    <3>1. t[1].rec \in Records
      BY <1>1, <2>1, StepFacts
    <3>2. t[1] = [do |-> "record", rec |-> t[1].rec]
      BY <1>1, <2>1 DEF Steps
    <3>3. Outstanding(<<t[1]>>) = <<t[1].rec>>
      BY <3>1, <3>2, OutstandingOne
    <3> QED  BY <2>1, <3>3 DEF Written
  <2>2. CASE t[1].do # "record"
    <3>1. \A k \in 1..Len(<<t[1]>>) : <<t[1]>>[k].do # "record"
      BY <2>2
    <3> QED  BY <1>1, <2>2, <3>1, OutstandingNone DEF Written
  <2> QED  BY <2>1, <2>2
<1>6. t[1].do # "record" => Written(t[1]) = <<>>
  BY DEF Written
<1>7. <<>> \o Outstanding(Tail(t)) = Outstanding(Tail(t))
  BY <1>4
<1> QED
  BY <1>1, <1>3, <1>5, <1>6, <1>7

\* What Plan says of the step at place k.
PlanAt(t, k) ==
    /\ t[k].do # "load"
    /\ t[k].do = "event" => k + 2 <= Len(t) /\ t[k + 1].do = "lock" /\ Counts(t[k + 2])
    /\ t[k].do = "lock" => k < Len(t) /\ t[k + 1].do \in {"touch", "upsert"}
    /\ t[k].do \in {"touch", "upsert"} => k > 1 /\ t[k - 1].do = "lock"
    /\ Counts(t[k]) => k > 2 /\ t[k - 2].do = "event"
    /\ Writes(t[k], "agent_working_state") => \E j \in 1..(k - 1) : Writes(t[j], "facts")

\* A plan is one at each of its positions.
LEMMA PlanIs ==
    ASSUME NEW t \in Seq(Steps)
    PROVE  Plan(t) <=> \A k \in 1..Len(t) : PlanAt(t, k)
<1>1. ASSUME Plan(t), NEW k \in 1..Len(t) PROVE PlanAt(t, k)
  <2>1. Rest(t)
    BY <1>1 DEF Plan
  <2> QED  BY <1>1, <2>1 DEF Plan, Rest, PlanAt
<1>2. ASSUME \A k \in 1..Len(t) : PlanAt(t, k) PROVE Plan(t)
  <2>1. Rest(t)
    BY <1>2 DEF PlanAt, Rest
  <2> QED  BY <1>2, <2>1 DEF PlanAt, Plan
<1> QED
  BY <1>1, <1>2

\* Two plans make a plan: what a step depends on is in its own part.
LEMMA PlanConcat ==
    ASSUME NEW a \in Seq(Steps), NEW b \in Seq(Steps), Plan(a), Plan(b)
    PROVE  Plan(a \o b) /\ a \o b \in Seq(Steps)
<1> DEFINE c == a \o b
<1>1. c \in Seq(Steps) /\ Len(a) \in Nat /\ Len(b) \in Nat /\ Len(c) = Len(a) + Len(b)
      /\ (\A k \in 1..Len(a) : c[k] = a[k]) /\ (\A k \in 1..Len(b) : c[Len(a) + k] = b[k])
  OBVIOUS
<1> HIDE DEF c
<1>2. ASSUME NEW k \in 1..Len(c) PROVE PlanAt(c, k)
  <2>1. CASE k <= Len(a)
    <3>1. PlanAt(a, k) /\ k \in 1..Len(a) /\ c[k] = a[k]
      BY <1>1, <2>1, PlanIs
    <3>2. \A j \in 1..Len(a) : c[j] = a[j]
      BY <1>1
    <3>3. a[k].do = "event" => c[k + 1] = a[k + 1] /\ c[k + 2] = a[k + 2]
      BY <1>1, <3>1, <3>2 DEF PlanAt
    <3>4. a[k].do = "lock" => c[k + 1] = a[k + 1]
      BY <1>1, <3>1, <3>2 DEF PlanAt
    <3>5. k > 1 => c[k - 1] = a[k - 1]
      BY <1>1, <3>1, <3>2
    <3>6. k > 2 => c[k - 2] = a[k - 2]
      BY <1>1, <3>1, <3>2
    <3>7. \A j \in 1..(k - 1) : c[j] = a[j]
      BY <1>1, <3>1, <3>2
    <3> QED  BY <1>1, <3>1, <3>3, <3>4, <3>5, <3>6, <3>7 DEF PlanAt
  <2>2. CASE ~ k <= Len(a)
    <3> DEFINE m == k - Len(a)
    <3>1. m \in 1..Len(b) /\ k = Len(a) + m
      BY <1>1, <2>2
    <3> HIDE DEF m
    <3>2. PlanAt(b, m) /\ c[k] = b[m]
      BY <1>1, <3>1, PlanIs
    <3>3. m + 1 <= Len(b) => c[k + 1] = b[m + 1]
      <4>1. k + 1 = Len(a) + (m + 1) /\ (m + 1 <= Len(b) => m + 1 \in 1..Len(b))
        BY <1>1, <3>1
      <4> QED  BY <1>1, <4>1
    <3>4. m + 2 <= Len(b) => c[k + 2] = b[m + 2]
      <4>1. k + 2 = Len(a) + (m + 2) /\ (m + 2 <= Len(b) => m + 2 \in 1..Len(b))
        BY <1>1, <3>1
      <4> QED  BY <1>1, <4>1
    <3>5. m > 1 => c[k - 1] = b[m - 1]
      <4>1. k - 1 = Len(a) + (m - 1) /\ (m > 1 => m - 1 \in 1..Len(b))
        BY <1>1, <3>1
      <4> QED  BY <1>1, <4>1
    <3>6. m > 2 => c[k - 2] = b[m - 2]
      <4>1. k - 2 = Len(a) + (m - 2) /\ (m > 2 => m - 2 \in 1..Len(b))
        BY <1>1, <3>1
      <4> QED  BY <1>1, <4>1
    <3>7. ASSUME NEW j \in 1..(m - 1) PROVE Len(a) + j \in 1..(k - 1) /\ c[Len(a) + j] = b[j]
      <4>1. j \in 1..Len(b)
        BY <3>1
      <4> QED  BY <1>1, <3>1, <4>1
    <3>8. c[k].do # "load"
      BY <3>2 DEF PlanAt
    <3>9. c[k].do = "event" => k + 2 <= Len(c) /\ c[k + 1].do = "lock" /\ Counts(c[k + 2])
      BY <1>1, <3>1, <3>2, <3>3, <3>4 DEF PlanAt
    <3>10. c[k].do = "lock" => k < Len(c) /\ c[k + 1].do \in {"touch", "upsert"}
      BY <1>1, <3>1, <3>2, <3>3 DEF PlanAt
    <3>11. c[k].do \in {"touch", "upsert"} => k > 1 /\ c[k - 1].do = "lock"
      BY <1>1, <3>1, <3>2, <3>5 DEF PlanAt
    <3>12. Counts(c[k]) => k > 2 /\ c[k - 2].do = "event"
      BY <1>1, <3>1, <3>2, <3>6 DEF PlanAt
    <3>13. Writes(c[k], "agent_working_state") => \E j \in 1..(k - 1) : Writes(c[j], "facts")
      <4> SUFFICES ASSUME Writes(c[k], "agent_working_state")
                   PROVE  \E j \in 1..(k - 1) : Writes(c[j], "facts")
        OBVIOUS
      <4>1. PICK j \in 1..(m - 1) : Writes(b[j], "facts")
        BY <3>2 DEF PlanAt
      <4> QED  BY <3>7, <4>1
    <3> QED  BY <3>8, <3>9, <3>10, <3>11, <3>12, <3>13 DEF PlanAt
  <2> QED  BY <2>1, <2>2
<1> QED
  BY <1>1, <1>2, PlanIs DEF c

\* The pieces of the plans.
LEMMA PlanNothing == Plan(<<>>) /\ <<>> \in Seq(Steps) /\ Outstanding(<<>>) = <<>>
<1>1. <<>> \in Seq(Steps) /\ Len(<<>>) = 0
  OBVIOUS
<1>2. Plan(<<>>)
  <2>1. \A k \in 1..Len(<<>>) : PlanAt(<<>>, k)
    OBVIOUS
  <2> QED  BY <1>1, <2>1, PlanIs
<1>3. Outstanding(<<>>) = <<>>
  <2>1. \A k \in 1..Len(<<>>) : <<>>[k].do # "record"
    OBVIOUS
  <2> QED  BY <1>1, <2>1, OutstandingNone
<1> QED
  BY <1>1, <1>2, <1>3

\* upsert_session is a plan without records.
LEMMA PlanUpsert ==
    /\ Upsert \in Seq(Steps) /\ Plan(Upsert) /\ Outstanding(Upsert) = <<>>
    /\ Len(Upsert) = 2 /\ Upsert[1].do = "lock" /\ Upsert[2].do = "upsert"
<1>1. Upsert \in Seq(Steps) /\ Len(Upsert) = 2
      /\ Upsert[1] = [do |-> "lock"] /\ Upsert[2] = [do |-> "upsert"]
  BY AreSteps DEF Upsert
<1>2. \A k \in 1..2 : PlanAt(Upsert, k)
  BY <1>1 DEF PlanAt, Counts, Writes
<1>3. \A k \in 1..2 : Upsert[k].do # "record"
  BY <1>1
<1>4. Plan(Upsert)
  BY <1>1, <1>2, PlanIs
<1>5. Outstanding(Upsert) = <<>>
  BY <1>1, <1>3, OutstandingNone
<1> QED
  BY <1>1, <1>4, <1>5

\* append_trace_event is a plan without records.
LEMMA PlanEvent == Event \in Seq(Steps) /\ Plan(Event) /\ Outstanding(Event) = <<>>
<1>1. Event \in Seq(Steps) /\ Len(Event) = 3 /\ Event[1] = [do |-> "event"]
      /\ Event[2] = [do |-> "lock"] /\ Event[3] = [do |-> "touch", n |-> 1]
  BY AreSteps DEF Event, Touch
<1>2. \A k \in 1..3 : PlanAt(Event, k)
  BY <1>1 DEF PlanAt, Counts, Writes
<1>3. \A k \in 1..3 : Event[k].do # "record"
  BY <1>1
<1> QED
  BY <1>1, <1>2, <1>3, PlanIs, OutstandingNone

\* append_conversation_record is a plan that writes its record.
LEMMA PlanRecord ==
    ASSUME NEW r \in Records
    PROVE  Record(r) \in Seq(Steps) /\ Plan(Record(r)) /\ Outstanding(Record(r)) = <<r>>
<1> DEFINE w == <<[do |-> "record", rec |-> r]>>
           x == Touch(0)
<1>1. Record(r) = w \o x /\ w \in Seq(Steps) /\ x \in Seq(Steps) /\ Len(x) = 2
      /\ x[1] = [do |-> "lock"] /\ x[2] = [do |-> "touch", n |-> 0]
  BY AreSteps DEF Record, Touch
<1>2. Plan(w)
  <2>1. \A k \in 1..Len(w) : PlanAt(w, k)
    BY DEF PlanAt, Counts, Writes
  <2> QED  BY <1>1, <2>1, PlanIs
<1>3. Outstanding(w) = <<r>> /\ <<r>> \o <<>> = <<r>>
  BY OutstandingOne
<1> HIDE DEF w, x
<1>4. Plan(x)
  <2>1. \A k \in 1..2 : PlanAt(x, k)
    BY <1>1 DEF PlanAt, Counts, Writes
  <2> QED  BY <1>1, <2>1, PlanIs
<1>5. Outstanding(x) = <<>>
  <2>1. \A k \in 1..2 : x[k].do # "record"
    BY <1>1
  <2> QED  BY <1>1, <2>1, OutstandingNone
<1>6. Plan(w \o x) /\ w \o x \in Seq(Steps)
  BY <1>1, <1>2, <1>4, PlanConcat
<1>7. Outstanding(w \o x) = <<r>>
  BY <1>1, <1>3, <1>5, OutstandingConcat
<1> QED
  BY <1>1, <1>6, <1>7

\* Saving the working memory is a plan that writes the facts first.
LEMMA PlanSave ==
    Save(Parts) \in Seq(Steps) /\ Plan(Save(Parts)) /\ Outstanding(Save(Parts)) = <<>>
<1> DEFINE x == Save(Parts)
<1>1. [k \in DOMAIN Parts |-> [do |-> "file", part |-> Parts[k]]]
         = <<[do |-> "file", part |-> "facts"], [do |-> "file", part |-> "agent_working_state"]>>
  BY PartSet
<1>2. x \in Seq(Steps) /\ Len(x) = 4 /\ x[1] = [do |-> "file", part |-> "facts"]
      /\ x[2] = [do |-> "file", part |-> "agent_working_state"]
      /\ x[3] = [do |-> "lock"] /\ x[4] = [do |-> "touch", n |-> 0]
  BY <1>1, AreSteps DEF Save, Touch
<1> HIDE DEF x
<1>3. \A k \in 1..4 : PlanAt(x, k)
  BY <1>2 DEF PlanAt, Counts, Writes
<1>4. \A k \in 1..4 : x[k].do # "record"
  BY <1>2
<1> QED
  BY <1>2, <1>3, <1>4, PlanIs, OutstandingNone DEF x

\* A plan that has not begun needs no lock and does not count.
LEMMA PlanBegins ==
    ASSUME NEW t \in Seq(Steps), Plan(t)
    PROVE  /\ Rest(t) /\ ~ Loading(t) /\ ~ Counting(t)
           /\ t # <<>> => t[1].do \notin {"touch", "upsert"}
<1>1. \A k \in 1..Len(t) : PlanAt(t, k)
  BY PlanIs
<1>2. t # <<>> => Len(t) \in Nat /\ Len(t) >= 1
  OBVIOUS
<1>3. Rest(t) /\ ~ Loading(t)
  BY DEF Plan, Loading
<1>4. t # <<>> => t[1].do \notin {"touch", "upsert"}
  <2>1. t # <<>> => 1 \in 1..Len(t)
    BY <1>2
  <2>2. t # <<>> => PlanAt(t, 1)
    BY <1>1, <2>1
  <2> QED  BY <2>2 DEF PlanAt
<1>5. ~ Counting(t)
  <2> SUFFICES ASSUME t # <<>>, Counting(t) PROVE FALSE
    BY DEF Counting
  <2>1. 1 \in 1..Len(t) /\ PlanAt(t, 1)
    BY <1>1, <1>2
  <2>2. ~ Counts(t[1])
    BY <2>1 DEF PlanAt
  <2>3. t[1].do = "lock" /\ Counts(t[2])
    BY <2>2 DEF Counting
  <2>4. 2 \in 1..Len(t)
    BY <2>1, <2>3 DEF PlanAt
  <2>5. PlanAt(t, 2)
    BY <1>1, <2>4
  <2> QED  BY <2>3, <2>5 DEF PlanAt
<1> QED
  BY <1>3, <1>4, <1>5

\* What is left when the first step is done.
LEMMA RestTail ==
    ASSUME NEW t \in Seq(Steps), t # <<>>, Rest(t)
    PROVE  /\ Tail(t) \in Seq(Steps) /\ Rest(Tail(t))
           /\ Len(t) \in Nat /\ Len(t) >= 1 /\ t[1] \in Steps /\ Head(t) = t[1]
           /\ Len(Tail(t)) = Len(t) - 1
           /\ \A k \in 1..Len(Tail(t)) : Tail(t)[k] = t[k + 1]
           /\ t[1].do = "lock" =>
                 Tail(t) # <<>> /\ Tail(t)[1] = t[2] /\ t[2].do \in {"touch", "upsert"}
           /\ t[1].do # "lock" => Tail(t) = <<>> \/ Tail(t)[1].do \notin {"touch", "upsert"}
<1> DEFINE u == Tail(t)
<1>1. /\ u \in Seq(Steps) /\ Len(t) \in Nat /\ Len(t) >= 1 /\ Len(u) = Len(t) - 1
      /\ t[1] \in Steps /\ Head(t) = t[1]
      /\ \A k \in 1..Len(u) : u[k] = t[k + 1]
  OBVIOUS
<1> HIDE DEF u
<1>2. \A k \in 1..Len(t) :
         /\ t[k].do = "event" => k + 2 <= Len(t) /\ t[k + 1].do = "lock" /\ Counts(t[k + 2])
         /\ t[k].do = "lock" => k < Len(t) /\ t[k + 1].do \in {"touch", "upsert"}
         /\ k > 1 /\ t[k].do \in {"touch", "upsert"} => t[k - 1].do = "lock"
         /\ k > 2 /\ Counts(t[k]) => t[k - 2].do = "event"
         /\ t[k].do = "load" =>
              k = Len(t) /\ \A j \in 1..(k - 1) : t[j].do \in {"lock", "upsert"}
  BY DEF Rest
<1>3. ASSUME NEW k \in 1..Len(u)
      PROVE  /\ u[k].do = "event" => k + 2 <= Len(u) /\ u[k + 1].do = "lock" /\ Counts(u[k + 2])
             /\ u[k].do = "lock" => k < Len(u) /\ u[k + 1].do \in {"touch", "upsert"}
             /\ k > 1 /\ u[k].do \in {"touch", "upsert"} => u[k - 1].do = "lock"
             /\ k > 2 /\ Counts(u[k]) => u[k - 2].do = "event"
             /\ u[k].do = "load" =>
                  k = Len(u) /\ \A j \in 1..(k - 1) : u[j].do \in {"lock", "upsert"}
  <2> DEFINE m == k + 1
  <2>1. m \in 1..Len(t) /\ u[k] = t[m] /\ m > 1
    BY <1>1
  <2>2. k + 1 \in 1..Len(u) => u[k + 1] = t[m + 1]
    BY <1>1
  <2>3. k + 2 \in 1..Len(u) => u[k + 2] = t[m + 2]
    <3>1. m + 2 = (k + 2) + 1
      OBVIOUS
    <3> QED  BY <1>1, <3>1
  <2>4. k > 1 => u[k - 1] = t[m - 1]
    <3>1. k > 1 => k - 1 \in 1..Len(u) /\ m - 1 = (k - 1) + 1
      BY <1>1
    <3> QED  BY <1>1, <3>1
  <2>5. k > 2 => u[k - 2] = t[m - 2]
    <3>1. k > 2 => k - 2 \in 1..Len(u) /\ m - 2 = (k - 2) + 1
      BY <1>1
    <3> QED  BY <1>1, <3>1
  <2>6. \A j \in 1..(k - 1) : u[j] = t[j + 1] /\ j + 1 \in 1..(m - 1)
    BY <1>1
  <2>7. /\ m + 2 <= Len(t) <=> k + 2 <= Len(u)
        /\ m < Len(t) <=> k < Len(u)
        /\ m = Len(t) <=> k = Len(u)
        /\ k > 2 => m > 2
    BY <1>1
  <2>8. k + 2 <= Len(u) => k + 1 \in 1..Len(u) /\ k + 2 \in 1..Len(u)
    BY <1>1
  <2>9. k < Len(u) => k + 1 \in 1..Len(u)
    BY <1>1
  <2> HIDE DEF m
  <2>10. u[k].do = "event" => k + 2 <= Len(u) /\ u[k + 1].do = "lock" /\ Counts(u[k + 2])
    BY <1>2, <2>1, <2>2, <2>3, <2>7, <2>8
  <2>11. u[k].do = "lock" => k < Len(u) /\ u[k + 1].do \in {"touch", "upsert"}
    BY <1>2, <2>1, <2>2, <2>7, <2>9
  <2>12. k > 1 /\ u[k].do \in {"touch", "upsert"} => u[k - 1].do = "lock"
    BY <1>2, <2>1, <2>4
  <2>13. k > 2 /\ Counts(u[k]) => u[k - 2].do = "event"
    BY <1>2, <2>1, <2>5, <2>7
  <2>14. u[k].do = "load" =>
            k = Len(u) /\ \A j \in 1..(k - 1) : u[j].do \in {"lock", "upsert"}
    BY <1>2, <2>1, <2>6, <2>7
  <2> QED  BY <2>10, <2>11, <2>12, <2>13, <2>14
<1>4. Rest(u)
  BY <1>1, <1>3 DEF Rest
<1>5. 1 \in 1..Len(t)
  BY <1>1
<1>6. t[1].do = "lock" => u # <<>> /\ u[1] = t[2] /\ t[2].do \in {"touch", "upsert"}
  <2> SUFFICES ASSUME t[1].do = "lock"
               PROVE  u # <<>> /\ u[1] = t[2] /\ t[2].do \in {"touch", "upsert"}
    OBVIOUS
  <2>1. 1 < Len(t) /\ t[1 + 1].do \in {"touch", "upsert"}
    BY <1>2, <1>5
  <2>2. Len(u) >= 1 /\ 1 \in 1..Len(u)
    BY <1>1, <2>1
  <2>3. u # <<>>
    BY <2>2
  <2> QED  BY <1>1, <2>1, <2>2, <2>3
<1>7. t[1].do # "lock" => u = <<>> \/ u[1].do \notin {"touch", "upsert"}
  <2> SUFFICES ASSUME u # <<>>, u[1].do \in {"touch", "upsert"} PROVE t[1].do = "lock"
    OBVIOUS
  <2>1. 1 \in 1..Len(u)
    BY <1>1
  <2>2. 2 \in 1..Len(t) /\ u[1] = t[2]
    BY <1>1, <2>1
  <2> QED  BY <1>2, <2>2
<1> QED
  BY <1>1, <1>4, <1>6, <1>7 DEF u

\* Whether an event is to be counted, an entry to be made or the files to be loaded.
LEMMA FlagsTail ==
    ASSUME NEW t \in Seq(Steps), t # <<>>, Rest(t)
    PROVE  /\ t[1].do = "lock" =>
                /\ Counting(Tail(t)) <=> Counting(t)
                /\ Entering(Tail(t)) <=> Entering(t)
           /\ t[1].do = "event" => Counting(Tail(t)) /\ ~ Counting(t)
           /\ t[1].do \notin {"event", "lock"} =>
                /\ ~ Counting(Tail(t))
                /\ Counting(t) <=> Counts(t[1])
           /\ t[1].do \notin {"lock", "upsert"} => ~ Entering(t)
           /\ t[1].do # "load" => (Loading(Tail(t)) <=> Loading(t))
           /\ t[1].do = "load" => Tail(t) = <<>>
           /\ t[1].do \notin {"lock", "upsert", "load"} => ~ Loading(t)
<1> DEFINE u == Tail(t)
<1>1. /\ u \in Seq(Steps) /\ Len(t) \in Nat /\ Len(t) >= 1 /\ Len(u) = Len(t) - 1
      /\ \A k \in 1..Len(u) : u[k] = t[k + 1]
      /\ t[1].do = "lock" => u # <<>> /\ u[1] = t[2] /\ t[2].do \in {"touch", "upsert"}
  BY RestTail
<1> HIDE DEF u
<1>2. \A k \in 1..Len(t) :
         /\ t[k].do = "event" => k + 2 <= Len(t) /\ t[k + 1].do = "lock" /\ Counts(t[k + 2])
         /\ k > 1 /\ t[k].do \in {"touch", "upsert"} => t[k - 1].do = "lock"
         /\ k > 2 /\ Counts(t[k]) => t[k - 2].do = "event"
         /\ t[k].do = "lock" => k < Len(t) /\ t[k + 1].do \in {"touch", "upsert"}
         /\ t[k].do = "load" =>
              k = Len(t) /\ \A j \in 1..(k - 1) : t[j].do \in {"lock", "upsert"}
  BY DEF Rest
<1>3. 1 \in 1..Len(t) /\ u # <<>> => 2 \in 1..Len(t) /\ u[1] = t[2] /\ 1 \in 1..Len(u)
  BY <1>1
<1>4. 2 <= Len(u) => 3 \in 1..Len(t) /\ u[2] = t[3]
  BY <1>1
<1>5. u # <<>> /\ u[1].do = "lock" => 2 <= Len(u)
  <2> SUFFICES ASSUME u # <<>>, t[2].do = "lock" PROVE 2 <= Len(u)
    BY <1>1, <1>3
  <2>1. 2 < Len(t)
    BY <1>1, <1>2, <1>3
  <2> QED  BY <1>1, <2>1
<1>6. t[1].do = "lock" => (Counting(u) <=> Counting(t)) /\ (Entering(u) <=> Entering(t))
  BY <1>1 DEF Counting, Entering, Counts
<1>7. t[1].do = "event" => Counting(u) /\ ~ Counting(t)
  <2> SUFFICES ASSUME t[1].do = "event" PROVE Counting(u) /\ ~ Counting(t)
    OBVIOUS
  <2>1. 1 + 2 <= Len(t) /\ t[1 + 1].do = "lock" /\ Counts(t[1 + 2])
    BY <1>1, <1>2
  <2>2. 2 <= Len(u) /\ u[1] = t[2] /\ u[2] = t[3] /\ u # <<>>
    BY <1>1, <2>1
  <2>3. Counting(u)
    BY <2>1, <2>2 DEF Counting
  <2>4. ~ Counting(t)
    BY DEF Counting, Counts
  <2> QED  BY <2>3, <2>4
<1>8. t[1].do \notin {"event", "lock"} => ~ Counting(u) /\ (Counting(t) <=> Counts(t[1]))
  <2> SUFFICES ASSUME t[1].do \notin {"event", "lock"}
               PROVE  ~ Counting(u) /\ (Counting(t) <=> Counts(t[1]))
    OBVIOUS
  <2>1. Counting(t) <=> Counts(t[1])
    BY DEF Counting
  <2>2. u # <<>> => ~ Counts(u[1])
    <3>1. u # <<>> /\ Counts(u[1]) => t[2 - 1].do = "lock"
      BY <1>1, <1>2, <1>3 DEF Counts
    <3> QED  BY <3>1
  <2>3. u # <<>> /\ u[1].do = "lock" => ~ Counts(u[2])
    <3>1. u # <<>> /\ u[1].do = "lock" /\ Counts(u[2]) => t[3 - 2].do = "event"
      BY <1>1, <1>2, <1>4, <1>5
    <3> QED  BY <3>1
  <2> QED  BY <2>1, <2>2, <2>3 DEF Counting
<1>9. t[1].do \notin {"lock", "upsert"} => ~ Entering(t)
  BY DEF Entering
<1>10. t[1].do # "load" => (Loading(u) <=> Loading(t))
  <2>1. ASSUME NEW k \in 1..Len(u), u[k].do = "load" PROVE Loading(t)
    <3>1. k + 1 \in 1..Len(t) /\ t[k + 1].do = "load"
      BY <1>1, <2>1
    <3> QED  BY <3>1 DEF Loading
  <2>2. ASSUME t[1].do # "load", NEW k \in 1..Len(t), t[k].do = "load" PROVE Loading(u)
    <3>1. k - 1 \in 1..Len(u) /\ (k - 1) + 1 = k
      BY <1>1, <2>2
    <3>2. u[k - 1] = t[k]
      BY <1>1, <3>1
    <3> QED  BY <2>2, <3>1, <3>2 DEF Loading
  <2> QED  BY <2>1, <2>2 DEF Loading
<1>11. t[1].do = "load" => u = <<>>
  BY <1>1, <1>2
<1>12. t[1].do \notin {"lock", "upsert", "load"} => ~ Loading(t)
  <2> SUFFICES ASSUME NEW k \in 1..Len(t), t[k].do = "load", t[1].do # "load"
               PROVE  t[1].do \in {"lock", "upsert"}
    BY DEF Loading
  <2>1. 1 \in 1..(k - 1)
    BY <1>1
  <2> QED  BY <1>2, <2>1
<1> QED
  BY <1>6, <1>7, <1>8, <1>9, <1>10, <1>11, <1>12 DEF u

\* One more item keeps a conversation paired, if a result has its action.
LEMMA PairedAppend ==
    ASSUME NEW its \in Seq(ItemSet), NEW i \in ItemSet, Paired(its),
           i.kind = "result" =>
              \E k \in 1..Len(its) : its[k].kind = "action" /\ its[k].id = i.id
    PROVE  its \o <<i>> \in Seq(ItemSet) /\ Paired(its \o <<i>>)
<1> DEFINE u == its \o <<i>>
<1>1. u \in Seq(ItemSet) /\ Len(u) = Len(its) + 1 /\ u[Len(its) + 1] = i /\ Len(its) \in Nat
      /\ \A k \in 1..Len(its) : u[k] = its[k]
  OBVIOUS
<1> HIDE DEF u
<1>2. ASSUME NEW j \in 1..Len(u), u[j].kind = "result"
      PROVE  \E k \in 1..(j - 1) : u[k].kind = "action" /\ u[k].id = u[j].id
  <2>1. CASE j <= Len(its)
    <3>1. j \in 1..Len(its) /\ u[j] = its[j]
      BY <1>1, <2>1
    <3>2. PICK k \in 1..(j - 1) : its[k].kind = "action" /\ its[k].id = its[j].id
      BY <1>2, <3>1, Zenon DEF Paired
    <3>3. k \in 1..Len(its)
      BY <1>1, <3>1, <3>2
    <3>4. u[k] = its[k]
      BY <1>1, <3>3
    <3> QED  BY <3>1, <3>2, <3>4
  <2>2. CASE j = Len(its) + 1
    <3>1. PICK k \in 1..Len(its) : its[k].kind = "action" /\ its[k].id = i.id
      BY <1>1, <1>2, <2>2
    <3>2. k \in 1..(j - 1) /\ u[k] = its[k]
      BY <1>1, <2>2, <3>1
    <3> QED  BY <1>1, <2>2, <3>1, <3>2
  <2> QED  BY <1>1, <2>1, <2>2
<1> QED
  BY <1>1, <1>2 DEF Paired, u

\* With nothing outstanding the file itself is paired.
LEMMA PairsNone ==
    ASSUME NEW recs \in Seq(Records)
    PROVE  recs \o <<>> = recs /\ (Pairs(recs, <<>>) <=> Paired(Replay(recs)))
<1>1. recs \o <<>> = recs /\ SubSeq(<<>>, 1, 0) = <<>> /\ Len(<<>>) = 0
  OBVIOUS
<1>2. recs \o SubSeq(<<>>, 1, 0) = recs
  BY <1>1
<1>3. 0..Len(<<>>) = {0}
  BY <1>1
<1> QED
  BY <1>1, <1>2, <1>3, Zenon DEF Pairs

\* One more outstanding record.
LEMMA PairsAppend ==
    ASSUME NEW recs \in Seq(Records), NEW out \in Seq(Records), NEW r \in Records,
           Pairs(recs, out), Paired(Replay(Append(recs \o out, r)))
    PROVE  Pairs(recs, Append(out, r)) /\ recs \o Append(out, r) = Append(recs \o out, r)
<1> DEFINE u == Append(out, r)
<1>1. u \in Seq(Records) /\ Len(u) = Len(out) + 1 /\ Len(out) \in Nat
      /\ (\A k \in 0..Len(out) : SubSeq(u, 1, k) = SubSeq(out, 1, k)) /\ SubSeq(u, 1, Len(u)) = u
      /\ recs \o u = Append(recs \o out, r)
  OBVIOUS
<1> HIDE DEF u
<1>2. ASSUME NEW k \in 0..Len(u) PROVE Paired(Replay(recs \o SubSeq(u, 1, k)))
  <2>1. CASE k <= Len(out)
    <3>1. k \in 0..Len(out)
      BY <1>1, <2>1
    <3> QED  BY <1>1, <3>1 DEF Pairs
  <2>2. CASE k = Len(u)
    BY <1>1, <2>2
  <2> QED  BY <1>1, <2>1, <2>2
<1> QED
  BY <1>1, <1>2 DEF Pairs, u

\* The first outstanding record is written.
LEMMA PairsTail ==
    ASSUME NEW recs \in Seq(Records), NEW out \in Seq(Records), NEW r \in Records,
           Pairs(recs, <<r>> \o out)
    PROVE  /\ Append(recs, r) \in Seq(Records)
           /\ Pairs(Append(recs, r), out)
           /\ recs \o (<<r>> \o out) = Append(recs, r) \o out
<1> DEFINE u == <<r>> \o out
<1>1. u \in Seq(Records) /\ Len(u) = Len(out) + 1 /\ Len(out) \in Nat
      /\ (\A k \in 0..Len(out) : recs \o SubSeq(u, 1, k + 1) = Append(recs, r) \o SubSeq(out, 1, k))
      /\ recs \o u = Append(recs, r) \o out /\ Append(recs, r) \in Seq(Records)
  <2>1. ASSUME NEW k \in 0..Len(out)
        PROVE  recs \o SubSeq(u, 1, k + 1) = Append(recs, r) \o SubSeq(out, 1, k)
    <3> DEFINE v == SubSeq(out, 1, k)
               w == SubSeq(u, 1, k + 1)
    <3>1. v \in Seq(Records) /\ Len(v) = k /\ \A i \in 1..k : v[i] = out[i]
      OBVIOUS
    <3>2. u \in Seq(Records) /\ Len(u) = Len(out) + 1 /\ u[1] = r
          /\ \A i \in 2..Len(u) : u[i] = out[i - 1]
      OBVIOUS
    <3>3. w \in Seq(Records) /\ Len(w) = k + 1 /\ \A i \in 1..(k + 1) : w[i] = u[i]
      <4> HIDE DEF u
      <4> QED  BY <3>2
    <3>4. <<r>> \o v \in Seq(Records) /\ Len(<<r>> \o v) = k + 1 /\ (<<r>> \o v)[1] = r
          /\ \A i \in 2..(k + 1) : (<<r>> \o v)[i] = v[i - 1]
      <4> HIDE DEF v
      <4> QED  BY <3>1
    <3> HIDE DEF u, v, w
    <3>5. w = <<r>> \o v
      <4>1. ASSUME NEW i \in 1..Len(w) PROVE w[i] = (<<r>> \o v)[i]
        <5>1. CASE i = 1
          BY <3>2, <3>3, <3>4, <5>1
        <5>2. CASE i # 1
          <6>1. i \in 2..(k + 1) /\ i \in 2..Len(u) /\ i \in 1..(k + 1) /\ i - 1 \in 1..k
            BY <3>2, <3>3, <5>2
          <6> QED  BY <3>1, <3>2, <3>3, <3>4, <6>1
        <5> QED  BY <5>1, <5>2
      <4> QED  BY <3>3, <3>4, <4>1, SeqEqual
    <3>6. <<r>> \in Seq(Records) /\ recs \o <<r>> = Append(recs, r)
      OBVIOUS
    <3>7. recs \o (<<r>> \o v) = (recs \o <<r>>) \o v
      <4>1. \A p, q, x \in Seq(Records) : (p \o q) \o x = p \o (q \o x)
        BY Associative, SMTT(40)
      <4> QED  BY <3>1, <3>6, <4>1, Zenon
    <3>8. recs \o w = Append(recs, r) \o v
      BY <3>5, <3>6, <3>7
    <3> QED  BY <3>8 DEF v, w
  <2>2. u \in Seq(Records) /\ Len(u) = Len(out) + 1 /\ Len(out) \in Nat
        /\ Append(recs, r) \in Seq(Records)
    OBVIOUS
  <2>3. recs \o u = Append(recs, r) \o out
    <3>1. <<r>> \in Seq(Records) /\ recs \o <<r>> = Append(recs, r)
      OBVIOUS
    <3>2. \A p, q, x \in Seq(Records) : (p \o q) \o x = p \o (q \o x)
      BY Associative, SMTT(40)
    <3>3. (recs \o <<r>>) \o out = recs \o (<<r>> \o out)
      BY <3>1, <3>2, Zenon
    <3> QED  BY <3>1, <3>3
  <2> QED  BY <2>1, <2>2, <2>3
<1> HIDE DEF u
<1>2. ASSUME NEW k \in 0..Len(out) PROVE Paired(Replay(Append(recs, r) \o SubSeq(out, 1, k)))
  <2>1. k + 1 \in 0..Len(u)
    BY <1>1
  <2>2. Paired(Replay(recs \o SubSeq(u, 1, k + 1)))
    BY <2>1 DEF Pairs, u
  <2> QED  BY <1>1, <2>2
<1> QED
  BY <1>1, <1>2 DEF Pairs, u

\* Nothing outstanding.
LEMMA AheadNone ==
    ASSUME NEW recs
    PROVE  Ahead(recs, <<>>) /\ Single(<<>>)
  BY DEF Ahead, Single

\* One more item is outstanding.
LEMMA SingleAppend ==
    ASSUME NEW out \in Seq(Records), NEW i \in ItemSet, Single(out)
    PROVE  Single(Append(out, ItemRec(i)))
<1> DEFINE u == Append(out, ItemRec(i))
<1>1. Len(u) = Len(out) + 1 /\ u[Len(out) + 1] = ItemRec(i) /\ Len(out) \in Nat
      /\ \A k \in 1..Len(out) : u[k] = out[k]
  OBVIOUS
<1>2. ItemRec(i).type = "item" /\ Len(ItemRec(i).items) = 1
  BY DEF ItemRec
<1> HIDE DEF u
<1>3. ASSUME NEW k \in 1..Len(u) PROVE u[k].type = "item" /\ Len(u[k].items) = 1
  <2>1. CASE k = Len(out) + 1
    BY <1>1, <1>2, <2>1
  <2>2. CASE k # Len(out) + 1
    <3>1. k \in 1..Len(out)
      BY <1>1, <2>2
    <3> QED  BY <1>1, <3>1 DEF Single
  <2> QED  BY <2>1, <2>2
<1> QED
  BY <1>3 DEF Single, u

\* The first outstanding record is written: only items can follow it.
LEMMA AheadTail ==
    ASSUME NEW recs, NEW out \in Seq(Records), NEW r \in Records, Ahead(recs, <<r>> \o out)
    PROVE  /\ \A q : Ahead(q, out)
           /\ Single(out)
           /\ \/ r.type = "item" /\ Len(r.items) = 1
              \/ out = <<>> /\ r.type = "checkpoint" /\ r.items \in Log!Compactions(Replay(recs))
<1> DEFINE u == <<r>> \o out
<1>1. Len(u) = Len(out) + 1 /\ u[1] = r /\ Len(out) \in Nat
      /\ \A k \in 1..Len(out) : u[k + 1] = out[k]
  OBVIOUS
<1> HIDE DEF u
<1>2. CASE Single(u)
  <2>1. Single(out)
    <3>1. ASSUME NEW k \in 1..Len(out) PROVE out[k].type = "item" /\ Len(out[k].items) = 1
      <4>1. k + 1 \in 1..Len(u) /\ u[k + 1] = out[k]
        BY <1>1
      <4> QED  BY <1>2, <4>1 DEF Single
    <3> QED  BY <3>1 DEF Single
  <2>2. 1 \in 1..Len(u)
    BY <1>1
  <2>3. r.type = "item" /\ Len(r.items) = 1
    BY <1>1, <1>2, <2>2 DEF Single
  <2> QED  BY <2>1, <2>3 DEF Ahead
<1>3. CASE Len(u) = 1 /\ u[1].type = "checkpoint" /\ u[1].items \in Log!Compactions(Replay(recs))
  <2>1. out = <<>>
    BY <1>1, <1>3
  <2> QED  BY <1>1, <1>3, <2>1, AheadNone
<1> QED
  BY <1>2, <1>3 DEF Ahead, u

\* The operators on sequences of the two modules are the same.
LEMMA LogFlattens ==
    ASSUME NEW seqs PROVE Log!FlattenSeq(seqs) = FlattenSeq(seqs)
  BY Zenon DEF FlattenSeq, Log!FlattenSeq

\* What a compaction retains is some of the conversation, in its order.
LEMMA RetainedFewer ==
    ASSUME NEW its \in Seq(ItemSet), NEW msgs \in Nat
    PROVE  Retained(its, msgs) \in Log!Compactions(its)
<1> DEFINE recent(k, n) == Cardinality({j \in DOMAIN its : its[j].kind = k /\ its[j].id >= n})
           fits(i) == IF i.kind = "message" THEN recent("message", i.id) <= msgs
                      ELSE recent("action", i.id) <= RetainedActions
           kept == {k \in DOMAIN its : fits(its[k])}
<1>1. Retained(its, msgs) = FlattenSeq([k \in DOMAIN its |-> IF fits(its[k]) THEN <<its[k]>> ELSE <<>>])
  BY Zenon DEF Retained
<1> HIDE DEF fits
<1>2. kept \in SUBSET DOMAIN its /\ \A k \in DOMAIN its : k \in kept <=> fits(its[k])
  OBVIOUS
<1> HIDE DEF kept
<1>3. [k \in DOMAIN its |-> IF fits(its[k]) THEN <<its[k]>> ELSE <<>>]
         = [k \in DOMAIN its |-> IF k \in kept THEN <<its[k]>> ELSE <<>>]
  BY <1>2
<1> QED
  BY <1>1, <1>2, <1>3, LogFlattens, Zenon DEF Log!Compactions

-----------------------------------------------------------------------------
(* The steps of the sessions. *)

\* An empty store satisfies the invariant.
LEMMA InitIInv == Init => IInv
<1> SUFFICES ASSUME Init PROVE IInv
  OBVIOUS
<1>1. Typed
  <2>1. <<>> \in Seq(ItemSet) /\ <<>> \in Seq(Records) /\ <<>> \in Seq(Steps)
    OBVIOUS
  <2> QED  BY <2>1, MemoryAssumption
              DEF Init, Typed, Processes, EmptyWork, EmptyTrace, EmptyConv, Entries
<1>2. ASSUME NEW s \in Sessions PROVE Working(s) /\ Kept(s)
  <2>1. proc[s].todo = <<>> /\ proc[s].seen = None /\ proc[s].pc = "new" /\ lock # s
        /\ files[s] = EmptyWork /\ work[s] = EmptyWork
    BY MemoryAssumption DEF Init
  <2>2. EmptyWork.facts = 0 /\ EmptyWork.agent_working_state = 0
    BY PartSet DEF EmptyWork
  <2>3. Rest(<<>>)
    BY PlanNothing, PlanBegins
  <2> QED  BY <2>1, <2>2, <2>3 DEF Working, Kept
<1>3. ASSUME NEW s \in Whole PROVE Counted(s) /\ Told(s)
  <2>1. proc[s].todo = <<>> /\ proc[s].pc = "new" /\ trace[s] = EmptyTrace
        /\ conv[s] = EmptyConv /\ index[s] = None
    BY DEF Init, Whole
  <2>2. <<>> \in Seq(Records) /\ Outstanding(<<>>) = <<>> /\ Replay(<<>>) = <<>>
    BY PlanNothing, ReplayEmpty
  <2>3. Pairs(<<>>, <<>>) /\ <<>> \o <<>> = <<>>
    <3>1. Paired(<<>>)
      BY DEF Paired
    <3> QED  BY <2>2, <3>1, PairsNone
  <2> QED  BY <2>1, <2>2, <2>3, AheadNone DEF Counted, Told, EmptyTrace, EmptyConv
<1> QED
  BY <1>1, <1>2, <1>3 DEF IInv

\* What an action leaves to the other sessions.
Elsewhere(s) ==
    \A u \in Sessions \ {s} :
        /\ proc'[u] = proc[u] /\ items'[u] = items[u] /\ work'[u] = work[u]
        /\ trace'[u] = trace[u] /\ conv'[u] = conv[u] /\ files'[u] = files[u]
        /\ index'[u] = index[u]
        /\ lock' = u <=> lock = u
        /\ lock = u => index' = index

\* A step of one session keeps the invariant of the others, which have their own files,
\* and of which none has the lock.
LEMMA Others ==
    ASSUME IInv, Typed', NEW s \in Sessions, Elsewhere(s), Working(s)', Kept(s)',
           s \in Whole => Counted(s)' /\ Told(s)'
    PROVE  IInv'
<1>1. ASSUME NEW u \in Sessions, u # s PROVE Working(u)' /\ Kept(u)'
  <2>1. Working(u) /\ Kept(u)
    BY DEF IInv
  <2> QED  BY <1>1, <2>1 DEF Elsewhere, Working, Kept
<1>2. ASSUME NEW u \in Whole, u # s PROVE Counted(u)' /\ Told(u)'
  <2>1. Counted(u) /\ Told(u) /\ u \in Sessions
    BY DEF IInv, Whole
  <2> QED  BY <1>2, <2>1 DEF Elsewhere, Counted, Told
<1> QED
  BY <1>1, <1>2 DEF IInv, Whole

\* A session whose operation is done has its records on disk.
LEMMA Recorded ==
    ASSUME IInv, NEW s \in Whole, proc[s].todo = <<>>
    PROVE  /\ conv[s].open = "no" /\ conv[s].recs \in Seq(Records)
           /\ Paired(Replay(conv[s].recs)) /\ Replay(conv[s].recs) \in Seq(ItemSet)
           /\ proc[s].pc = "up" => Replay(conv[s].recs) = items[s] /\ index[s] # None
           /\ proc[s].pc = "new" => conv[s].recs = <<>>
<1>1. Told(s) /\ Counted(s) /\ Typed /\ s \in Sessions
  BY DEF IInv, Whole
<1>2. conv[s].recs \in Seq(Records)
  BY <1>1 DEF Typed
<1>3. Outstanding(proc[s].todo) = <<>>
  BY PlanNothing
<1>4. Pairs(conv[s].recs, <<>>) /\ conv[s].recs \o <<>> = conv[s].recs
  BY <1>1, <1>2, <1>3, PairsNone DEF Told
<1>5. ~ Loading(proc[s].todo) /\ ~ Entering(proc[s].todo)
  BY DEF Loading, Entering
<1> QED
  BY <1>1, <1>2, <1>3, <1>4, <1>5, PairsNone, ReplayIs DEF Told, Counted

\* An operation begins: what it has to do becomes its plan.
LEMMA Begins ==
    ASSUME IInv, NEW s \in Sessions, NEW t \in Seq(Steps), Plan(t), proc[s].todo = <<>>,
           proc'[s] = [proc[s] EXCEPT !.pc = "up", !.todo = t],
           lock' = lock, index' = index, trace' = trace, files' = files,
           work'[s].agent_working_state <= work'[s].facts, files[s].facts <= work'[s].facts,
           proc[s].pc = "up" \/ Entering(t)
    PROVE  Working(s)' /\ Kept(s)' /\ (s \in Whole => Counted(s)')
<1>1. Typed /\ Working(s) /\ Kept(s)
  BY DEF IInv
<1>2. proc'[s].pc = "up" /\ proc'[s].todo = t /\ proc'[s].seen = proc[s].seen
      /\ proc'[s].crashes = proc[s].crashes
  BY <1>1 DEF Typed, Processes
<1>3. Rest(t) /\ ~ Loading(t) /\ ~ Counting(t) /\ (t # <<>> => t[1].do \notin {"touch", "upsert"})
  BY PlanBegins
<1>4. Working(s)'
  BY <1>1, <1>2, <1>3 DEF Working
<1>5. Kept(s)'
  BY <1>1, <1>2 DEF Kept, Plan
<1>6. s \in Whole => Counted(s)'
  <2> SUFFICES ASSUME s \in Whole PROVE Counted(s)'
    OBVIOUS
  <2>1. Counted(s)
    BY DEF IInv
  <2>2. ~ Counting(proc[s].todo) /\ ~ Entering(proc[s].todo)
    BY DEF Counting, Entering
  <2> QED  BY <1>2, <1>3, <2>1, <2>2 DEF Counted
<1> QED
  BY <1>4, <1>5, <1>6

\* An item that is recorded is replayed after all that came before it.
LEMMA ItemTold ==
    ASSUME NEW recs \in Seq(Records), NEW out \in Seq(Records), NEW i \in ItemSet,
           Pairs(recs, out),
           i.kind = "result" =>
              \E k \in 1..Len(Replay(recs \o out)) :
                 Replay(recs \o out)[k].kind = "action" /\ Replay(recs \o out)[k].id = i.id
    PROVE  /\ ItemRec(i) \in Records
           /\ Append(out, ItemRec(i)) \in Seq(Records)
           /\ Pairs(recs, Append(out, ItemRec(i)))
           /\ Replay(recs \o Append(out, ItemRec(i))) = Replay(recs \o out) \o <<i>>
<1> DEFINE ro == recs \o out
<1>1. ItemRec(i) \in Records /\ ItemRec(i).type = "item" /\ ItemRec(i).items = <<i>>
  <2>1. <<i>> \in Seq(ItemSet)
    OBVIOUS
  <2> QED  BY <2>1 DEF ItemRec, Records
<1>2. ro \in Seq(Records) /\ Append(out, ItemRec(i)) \in Seq(Records)
      /\ Len(out) \in 0..Len(out) /\ SubSeq(out, 1, Len(out)) = out
  BY <1>1
<1>3. Paired(Replay(ro)) /\ Replay(ro) \in Seq(ItemSet)
  <2>1. Paired(Replay(recs \o SubSeq(out, 1, Len(out))))
    BY <1>2 DEF Pairs
  <2> QED  BY <1>2, <2>1, ReplayIs
<1>4. Replay(Append(ro, ItemRec(i))) = Replay(ro) \o <<i>>
  <2> HIDE DEF ro
  <2> QED  BY <1>1, <1>2, ReplayAppend
<1>5. Paired(Replay(ro) \o <<i>>)
  BY <1>3, PairedAppend
<1>6. Pairs(recs, Append(out, ItemRec(i))) /\ recs \o Append(out, ItemRec(i)) = Append(ro, ItemRec(i))
  BY <1>1, <1>4, <1>5, PairsAppend
<1> QED
  BY <1>1, <1>2, <1>4, <1>6

\* What every operation does, once its plan, its items and its work are given.
LEMMA Operates ==
    ASSUME IInv, NEW s \in Sessions, proc[s].todo = <<>>,
           NEW t \in Seq(Steps), Plan(t), proc[s].pc = "up" \/ Entering(t),
           NEW its \in Seq(ItemSet), items' = [items EXCEPT ![s] = its],
           NEW w \in [ToSet(Parts) -> 0..(ops + 1)], work' = [work EXCEPT ![s] = w],
           w.agent_working_state <= w.facts, files[s].facts <= w.facts,
           proc' = [proc EXCEPT ![s] = [proc[s] EXCEPT !.pc = "up", !.todo = t]],
           ops < MaxOps, ops' = ops + 1, UNCHANGED <<diskVars, lock>>,
           s \in Whole => /\ Pairs(conv[s].recs, Outstanding(t)) /\ Ahead(conv[s].recs, Outstanding(t))
                          /\ Replay(conv[s].recs \o Outstanding(t)) = its
    PROVE  IInv'
<1>1. Typed /\ Working(s) /\ Kept(s)
  BY DEF IInv
<1>2. UNCHANGED <<trace, conv, files, index, lock>>
  BY DEF diskVars
<1>3. Typed'
  <2>1. proc' \in [Sessions -> Processes]
    <3>1. proc \in [Sessions -> Processes] /\ proc[s] \in Processes
      BY <1>1 DEF Typed
    <3>2. [proc[s] EXCEPT !.pc = "up", !.todo = t] \in Processes
      BY <3>1 DEF Processes
    <3> QED  BY <3>1, <3>2
  <2>2. items' \in [Sessions -> Seq(ItemSet)]
    BY <1>1 DEF Typed
  <2>3. ops \in Nat /\ ops' \in 0..MaxOps
    <3>1. ops \in 0..MaxOps /\ MaxOps \in Nat
      BY <1>1, MemoryAssumption DEF Typed
    <3> QED  BY <3>1
  <2>4. 0..ops \subseteq 0..ops'
    BY <2>3
  <2>5. work' \in [Sessions -> [ToSet(Parts) -> 0..ops']]
    <3>1. work \in [Sessions -> [ToSet(Parts) -> 0..ops]]
      BY <1>1 DEF Typed
    <3>2. \A u \in Sessions : work[u] \in [ToSet(Parts) -> 0..ops']
      BY <2>4, <3>1
    <3>3. w \in [ToSet(Parts) -> 0..ops']
      OBVIOUS
    <3> HIDE DEF Typed
    <3> QED  BY <3>1, <3>2, <3>3
  <2>6. files' \in [Sessions -> [ToSet(Parts) -> 0..ops']]
    <3>1. files \in [Sessions -> [ToSet(Parts) -> 0..ops]]
      BY <1>1 DEF Typed
    <3> QED  BY <1>2, <2>4, <3>1
  <2> QED  BY <1>1, <1>2, <2>1, <2>2, <2>3, <2>5, <2>6 DEF Typed
<1>4. proc'[s] = [proc[s] EXCEPT !.pc = "up", !.todo = t] /\ items'[s] = its /\ work'[s] = w
  BY <1>1 DEF Typed
<1>5. Working(s)' /\ Kept(s)' /\ (s \in Whole => Counted(s)')
  BY <1>2, <1>4, Begins
<1>6. s \in Whole => Told(s)'
  <2> SUFFICES ASSUME s \in Whole PROVE Told(s)'
    OBVIOUS
  <2>1. conv'[s] = conv[s] /\ conv[s].open = "no"
    BY <1>2, Recorded
  <2>2. proc'[s].todo = t /\ proc'[s].pc = "up"
    BY <1>1, <1>4 DEF Typed, Processes
  <2> QED  BY <1>4, <2>1, <2>2 DEF Told
<1>7. Elsewhere(s)
  BY <1>1, <1>2 DEF Elsewhere, Typed
<1> QED
  BY <1>3, <1>5, <1>6, <1>7, Others

\* The process of an operation that is not the first.
LEMMA Proceeds ==
    ASSUME IInv, NEW s \in Sessions, NEW t, CanBegin(s), Begin(s, t)
    PROVE  /\ proc[s].pc = "up" /\ proc[s].todo = <<>>
           /\ proc' = [proc EXCEPT ![s] = [proc[s] EXCEPT !.pc = "up", !.todo = t]]
           /\ ops < MaxOps /\ ops' = ops + 1 /\ UNCHANGED <<diskVars, lock>>
           /\ ops \in Nat /\ ops + 1 \in Nat
           /\ items[s] \in Seq(ItemSet) /\ work[s] \in [ToSet(Parts) -> 0..(ops + 1)]
           /\ work[s] \in [ToSet(Parts) -> 0..ops] /\ files[s] \in [ToSet(Parts) -> 0..ops]
           /\ work[s].agent_working_state <= work[s].facts /\ files[s].facts <= work[s].facts
<1>1. Typed /\ Kept(s)
  BY DEF IInv
<1>2. proc[s].pc = "up" /\ proc[s].todo = <<>> /\ ops < MaxOps /\ ops' = ops + 1
      /\ UNCHANGED <<diskVars, lock>> /\ proc' = [proc EXCEPT ![s].todo = t]
  BY DEF CanBegin, Ready, Begin
<1>3. proc[s] \in Processes
  BY <1>1 DEF Typed
<1>4. [proc[s] EXCEPT !.todo = t] = [proc[s] EXCEPT !.pc = "up", !.todo = t]
  BY <1>2, <1>3 DEF Processes
<1>5. ops \in Nat /\ ops + 1 \in Nat /\ 0..ops \subseteq 0..(ops + 1)
  BY <1>1, MemoryAssumption, SMTT(40) DEF Typed
<1>6. items[s] \in Seq(ItemSet) /\ work[s] \in [ToSet(Parts) -> 0..ops]
      /\ files[s] \in [ToSet(Parts) -> 0..ops]
  BY <1>1 DEF Typed
<1>7. ~ Loading(proc[s].todo)
  BY <1>2 DEF Loading
<1>8. work[s] \in [ToSet(Parts) -> 0..(ops + 1)]
  BY <1>5, <1>6
<1>9. work[s].agent_working_state <= work[s].facts /\ files[s].facts <= work[s].facts
  BY <1>1, <1>2, <1>7 DEF Kept
<1>10. proc' = [proc EXCEPT ![s] = [proc[s] EXCEPT !.pc = "up", !.todo = t]]
  BY <1>2, <1>4
<1> QED
  BY <1>2, <1>5, <1>6, <1>8, <1>9, <1>10

\* Items that an operation makes.
LEMMA MadeItems ==
    ASSUME NEW n \in Nat, NEW k \in {"message", "action", "result"}
    PROVE  Item(k, n) \in ItemSet /\ Item(k, n).kind = k /\ Item(k, n).id = n
  BY DEF Item, ItemSet

\* Recording an item is a plan that writes its record.
LEMMA PlanItem ==
    ASSUME NEW i \in ItemSet
    PROVE  ItemRecord(i) \in Seq(Steps) /\ Plan(ItemRecord(i)) /\ Outstanding(ItemRecord(i)) = <<ItemRec(i)>>
           /\ ItemRec(i) \in Records /\ <<>> \o <<ItemRec(i)>> = Append(<<>>, ItemRec(i))
<1>1. ItemRec(i) \in Records
  <2>1. <<i>> \in Seq(ItemSet)
    OBVIOUS
  <2> QED  BY <2>1 DEF ItemRec, Records
<1> QED
  BY <1>1, PlanRecord DEF ItemRecord, ItemRec

\* The beginning of a concatenation.
LEMMA FirstTwo ==
    ASSUME NEW x \in Seq(Steps), NEW y \in Seq(Steps), Len(x) >= 2
    PROVE  (x \o y)[1] = x[1] /\ (x \o y)[2] = x[2] /\ Len(x \o y) >= 2
  OBVIOUS

\* A new session is entered in the index and writes its files, an event and a message.
LEMMA StartStep ==
    ASSUME IInv, NEW s \in Sessions, Start(s)
    PROVE  IInv'
<1> DEFINE i == Item("message", Id)
           t == Upsert \o Save(Parts) \o Event \o ItemRecord(i) \o Event
<1>1. Typed /\ Kept(s) /\ Working(s) /\ proc[s].pc = "new"
  BY DEF IInv, Start
<1>2. i \in ItemSet /\ i.kind = "message" /\ ops \in Nat
  <2>1. ops \in 0..MaxOps /\ MaxOps \in Nat
    BY <1>1, MemoryAssumption DEF Typed
  <2>2. Id \in Nat /\ ops \in Nat
    BY <2>1 DEF Id
  <2> QED  BY <2>2, MadeItems
<1>3. items' = [items EXCEPT ![s] = <<i>>] /\ ops < MaxOps /\ ops' = ops + 1
      /\ proc' = [proc EXCEPT ![s] = [proc[s] EXCEPT !.pc = "up", !.todo = t]]
      /\ UNCHANGED <<work, diskVars, lock>>
  BY Zenon DEF Start
<1>4. proc[s].todo = <<>> /\ <<i>> \in Seq(ItemSet)
  BY <1>1, <1>2 DEF Working
<1>5. t \in Seq(Steps) /\ Plan(t) /\ Outstanding(t) = <<ItemRec(i)>> /\ Entering(t)
  <2> HIDE DEF i
  <2> DEFINE a == Upsert \o Save(Parts)
             b == a \o Event
             c == b \o ItemRecord(i)
  <2>1. a \in Seq(Steps) /\ Plan(a) /\ Outstanding(a) = <<>>
    BY PlanUpsert, PlanSave, PlanConcat, OutstandingConcat
  <2>2. a[1] = Upsert[1] /\ a[2] = Upsert[2] /\ Len(a) >= 2
    <3>1. Upsert \in Seq(Steps) /\ Len(Upsert) >= 2 /\ Save(Parts) \in Seq(Steps)
      BY PlanUpsert, PlanSave
    <3> QED  BY <3>1, FirstTwo
  <2> HIDE DEF a
  <2>3. b \in Seq(Steps) /\ Plan(b) /\ Outstanding(b) = <<>>
    BY <2>1, PlanEvent, PlanConcat, OutstandingConcat
  <2>4. b[1] = a[1] /\ b[2] = a[2] /\ Len(b) >= 2
    BY <2>1, <2>2, PlanEvent, FirstTwo
  <2> HIDE DEF b
  <2>5. c \in Seq(Steps) /\ Plan(c) /\ Outstanding(c) = <<ItemRec(i)>>
    BY <1>2, <2>3, PlanItem, PlanConcat, OutstandingConcat
  <2>6. c[1] = b[1] /\ c[2] = b[2] /\ Len(c) >= 2
    BY <1>2, <2>3, <2>4, PlanItem, FirstTwo
  <2> HIDE DEF c
  <2>7. c \o Event \in Seq(Steps) /\ Plan(c \o Event) /\ Outstanding(c \o Event) = <<ItemRec(i)>>
    BY <2>5, PlanEvent, PlanConcat, OutstandingConcat
  <2>8. (c \o Event)[1] = c[1] /\ (c \o Event)[2] = c[2] /\ Len(c \o Event) >= 2
    BY <2>5, <2>6, PlanEvent, FirstTwo
  <2>9. Entering(c \o Event)
    BY <2>2, <2>4, <2>6, <2>8, PlanUpsert DEF Entering
  <2> QED  BY <2>7, <2>9 DEF a, b, c
<1>6. s \in Whole => Pairs(conv[s].recs, <<ItemRec(i)>>) /\ Ahead(conv[s].recs, <<ItemRec(i)>>)
                     /\ Replay(conv[s].recs \o <<ItemRec(i)>>) = <<i>>
  <2> SUFFICES ASSUME s \in Whole
               PROVE  Pairs(conv[s].recs, <<ItemRec(i)>>) /\ Ahead(conv[s].recs, <<ItemRec(i)>>)
                      /\ Replay(conv[s].recs \o <<ItemRec(i)>>) = <<i>>
    OBVIOUS
  <2> HIDE DEF i
  <2>1. conv[s].recs = <<>> /\ <<>> \in Seq(Records)
    BY <1>1, <1>4, Recorded
  <2>2. Pairs(<<>>, <<>>) /\ <<>> \o <<>> = <<>>
    <3>1. Paired(Replay(<<>>))
      BY ReplayEmpty DEF Paired
    <3> QED  BY <2>1, <3>1, PairsNone
  <2>3. Pairs(<<>>, Append(<<>>, ItemRec(i)))
        /\ Replay(<<>> \o Append(<<>>, ItemRec(i))) = Replay(<<>> \o <<>>) \o <<i>>
    BY <1>2, <2>1, <2>2, ItemTold
  <2>4. Append(<<>>, ItemRec(i)) = <<ItemRec(i)>> /\ <<>> \o <<i>> = <<i>>
    BY <1>2
  <2>5. Single(Append(<<>>, ItemRec(i)))
    BY <1>2, <2>1, AheadNone, SingleAppend
  <2> QED  BY <2>1, <2>2, <2>3, <2>4, <2>5, ReplayEmpty DEF Ahead
<1>7. work[s] \in [ToSet(Parts) -> 0..(ops + 1)] /\ work' = [work EXCEPT ![s] = work[s]]
      /\ work[s].agent_working_state <= work[s].facts /\ files[s].facts <= work[s].facts
  <2>1. work[s] \in [ToSet(Parts) -> 0..ops] /\ work \in [Sessions -> [ToSet(Parts) -> 0..ops]]
    BY <1>1 DEF Typed
  <2>2. 0..ops \subseteq 0..(ops + 1)
    BY <1>2
  <2>3. work[s].facts \in 0..ops
    BY <2>1, PartSet
  <2> QED  BY <1>1, <1>3, <2>1, <2>2, <2>3 DEF Kept
<1> HIDE DEF i, t
<1> QED
  BY <1>3, <1>4, <1>5, <1>6, <1>7, Operates

\* The records of an operation's items are known to tell what its process knows.
LEMMA FirstItem ==
    ASSUME IInv, NEW s \in Whole, proc[s].pc = "up", proc[s].todo = <<>>,
           NEW i \in ItemSet, i.kind # "result"
    PROVE  /\ <<ItemRec(i)>> \in Seq(Records) /\ Pairs(conv[s].recs, <<ItemRec(i)>>)
           /\ Single(<<ItemRec(i)>>) /\ Ahead(conv[s].recs, <<ItemRec(i)>>)
           /\ Replay(conv[s].recs \o <<ItemRec(i)>>) = Append(items[s], i)
<1>1. /\ conv[s].recs \in Seq(Records) /\ Paired(Replay(conv[s].recs))
      /\ Replay(conv[s].recs) = items[s]
  BY Recorded
<1>2. Pairs(conv[s].recs, <<>>) /\ conv[s].recs \o <<>> = conv[s].recs /\ <<>> \in Seq(Records)
  BY <1>1, PairsNone
<1>3. /\ Append(<<>>, ItemRec(i)) \in Seq(Records)
      /\ Pairs(conv[s].recs, Append(<<>>, ItemRec(i)))
      /\ Replay(conv[s].recs \o Append(<<>>, ItemRec(i))) = Replay(conv[s].recs \o <<>>) \o <<i>>
  BY <1>1, <1>2, ItemTold
<1>4. Append(<<>>, ItemRec(i)) = <<ItemRec(i)>>
  OBVIOUS
<1>5. items[s] \in Seq(ItemSet) /\ items[s] \o <<i>> = Append(items[s], i)
  <2>1. items[s] \in Seq(ItemSet)
    BY DEF IInv, Typed, Whole
  <2> QED  BY <2>1
<1>6. Single(Append(<<>>, ItemRec(i)))
  BY <1>2, AheadNone, SingleAppend
<1> QED
  BY <1>1, <1>2, <1>3, <1>4, <1>5, <1>6 DEF Ahead

\* A user's turn records a message and an event.
LEMMA UserTurnStep ==
    ASSUME IInv, NEW s \in Sessions, UserTurn(s)
    PROVE  IInv'
<1> DEFINE i == Item("message", Id)
           t == ItemRecord(i) \o Event
<1>1. items' = [items EXCEPT ![s] = Append(items[s], i)] /\ CanBegin(s) /\ Begin(s, t)
      /\ work' = work
  BY DEF UserTurn
<1>2. /\ proc[s].pc = "up" /\ proc[s].todo = <<>>
      /\ proc' = [proc EXCEPT ![s] = [proc[s] EXCEPT !.pc = "up", !.todo = t]]
      /\ ops < MaxOps /\ ops' = ops + 1 /\ UNCHANGED <<diskVars, lock>> /\ ops \in Nat /\ ops + 1 \in Nat
      /\ items[s] \in Seq(ItemSet) /\ work[s] \in [ToSet(Parts) -> 0..(ops + 1)]
      /\ work[s].agent_working_state <= work[s].facts /\ files[s].facts <= work[s].facts
  <2> HIDE DEF t
  <2> QED  BY <1>1, Proceeds
<1>3. i \in ItemSet /\ i.kind = "message"
  BY <1>2, MadeItems DEF Id
<1> HIDE DEF i
<1>4. t \in Seq(Steps) /\ Plan(t) /\ Outstanding(t) = <<ItemRec(i)>>
  BY <1>3, PlanItem, PlanEvent, PlanConcat, OutstandingConcat
<1>5. s \in Whole => /\ Pairs(conv[s].recs, Outstanding(t)) /\ Ahead(conv[s].recs, Outstanding(t))
                     /\ Replay(conv[s].recs \o Outstanding(t)) = Append(items[s], i)
  BY <1>2, <1>3, <1>4, FirstItem
<1>6. Append(items[s], i) \in Seq(ItemSet)
  BY <1>2, <1>3
<1>7. work' = [work EXCEPT ![s] = work[s]]
  BY <1>1 DEF IInv, Typed
<1> HIDE DEF t
<1> QED
  BY <1>1, <1>2, <1>4, <1>5, <1>6, <1>7, Operates

\* A fact that is saved writes an event and the files.
LEMMA SaveFactStep ==
    ASSUME IInv, NEW s \in Sessions, SaveFact(s)
    PROVE  IInv'
<1> DEFINE t == Event \o Save(Parts)
           w == [work[s] EXCEPT !.facts = ops + 1, !.agent_working_state = ops + 1]
<1>1. work' = [work EXCEPT ![s] = w] /\ CanBegin(s) /\ Begin(s, t) /\ items' = items
  BY DEF SaveFact
<1>2. /\ proc[s].pc = "up" /\ proc[s].todo = <<>>
      /\ proc' = [proc EXCEPT ![s] = [proc[s] EXCEPT !.pc = "up", !.todo = t]]
      /\ ops < MaxOps /\ ops' = ops + 1 /\ UNCHANGED <<diskVars, lock>> /\ ops \in Nat /\ ops + 1 \in Nat
      /\ items[s] \in Seq(ItemSet) /\ work[s] \in [ToSet(Parts) -> 0..(ops + 1)]
      /\ files[s] \in [ToSet(Parts) -> 0..ops]
  <2> HIDE DEF t, w
  <2> QED  BY <1>1, Proceeds
<1>3. t \in Seq(Steps) /\ Plan(t) /\ Outstanding(t) = <<>>
  BY PlanEvent, PlanSave, PlanConcat, OutstandingConcat
<1>4. s \in Whole => /\ Pairs(conv[s].recs, Outstanding(t)) /\ Ahead(conv[s].recs, Outstanding(t))
                     /\ Replay(conv[s].recs \o Outstanding(t)) = items[s]
  <2> SUFFICES ASSUME s \in Whole
               PROVE  /\ Pairs(conv[s].recs, Outstanding(t)) /\ Ahead(conv[s].recs, Outstanding(t))
                      /\ Replay(conv[s].recs \o Outstanding(t)) = items[s]
    OBVIOUS
  <2>1. conv[s].recs \in Seq(Records) /\ Paired(Replay(conv[s].recs))
        /\ Replay(conv[s].recs) = items[s]
    BY <1>2, Recorded
  <2> QED  BY <1>3, <2>1, PairsNone, AheadNone
<1>5. w \in [ToSet(Parts) -> 0..(ops + 1)] /\ w.agent_working_state <= w.facts
      /\ files[s].facts <= w.facts
  <2>1. ops + 1 \in 0..(ops + 1) /\ files[s].facts \in 0..ops
    BY <1>2, PartSet
  <2>2. w \in [ToSet(Parts) -> 0..(ops + 1)]
    BY <1>2, <2>1
  <2>3. w.facts = ops + 1 /\ w.agent_working_state = ops + 1
    BY <1>2, PartSet
  <2> QED  BY <1>2, <2>1, <2>2, <2>3
<1>6. items' = [items EXCEPT ![s] = items[s]]
  BY <1>1 DEF IInv, Typed
<1> HIDE DEF t, w
<1> QED
  BY <1>1, <1>2, <1>3, <1>4, <1>5, <1>6, Operates

\* A compaction writes a checkpoint of what it retains: no action in it is without its
\* result.
LEMMA CompactStep ==
    ASSUME IInv, NEW s \in Sessions, NEW msgs \in Nat, Compact(s, msgs)
    PROVE  IInv'
<1> DEFINE its == Retained(items[s], msgs)
           r == [type |-> "checkpoint", items |-> its]
           t == Record(r) \o Event \o Save(Parts)
<1>1. items[s] \in Seq(ItemSet) /\ items \in [Sessions -> Seq(ItemSet)]
  BY DEF IInv, Typed
<1>2. items' = [items EXCEPT ![s] = its] /\ items'[s] = its
  <2>1. items' = [items EXCEPT ![s] = its]
    BY Zenon DEF Compact
  <2> HIDE DEF its
  <2> QED  BY <1>1, <2>1
<1>3. CanBegin(s) /\ Begin(s, t) /\ work' = work
  BY <1>2 DEF Compact
<1>4. its \in Seq(ItemSet)
  BY <1>1, RetainedType
<1> HIDE DEF its
<1>5. r \in Records /\ r.type = "checkpoint" /\ r.items = its
  BY <1>4 DEF Records
<1> HIDE DEF r
<1>6. t \in Seq(Steps) /\ Plan(t) /\ Outstanding(t) = <<r>>
  <2> DEFINE a == Record(r) \o Event
  <2>1. a \in Seq(Steps) /\ Plan(a) /\ Outstanding(a) = <<r>>
    BY <1>5, PlanRecord, PlanEvent, PlanConcat, OutstandingConcat
  <2> HIDE DEF a
  <2>2. a \o Save(Parts) \in Seq(Steps) /\ Plan(a \o Save(Parts)) /\ Outstanding(a \o Save(Parts)) = <<r>>
    BY <1>5, <2>1, PlanSave, PlanConcat, OutstandingConcat
  <2> QED  BY <2>2 DEF a
<1> HIDE DEF t
<1>7. /\ proc[s].pc = "up" /\ proc[s].todo = <<>>
      /\ proc' = [proc EXCEPT ![s] = [proc[s] EXCEPT !.pc = "up", !.todo = t]]
      /\ ops < MaxOps /\ ops' = ops + 1 /\ UNCHANGED <<diskVars, lock>> /\ ops \in Nat /\ ops + 1 \in Nat
      /\ work[s] \in [ToSet(Parts) -> 0..(ops + 1)]
      /\ work[s].agent_working_state <= work[s].facts /\ files[s].facts <= work[s].facts
  BY <1>3, Proceeds
<1>8. s \in Whole => /\ Pairs(conv[s].recs, <<r>>) /\ Ahead(conv[s].recs, <<r>>)
                     /\ Replay(conv[s].recs \o <<r>>) = its
  <2> SUFFICES ASSUME s \in Whole
               PROVE  /\ Pairs(conv[s].recs, <<r>>) /\ Ahead(conv[s].recs, <<r>>)
                      /\ Replay(conv[s].recs \o <<r>>) = its
    OBVIOUS
  <2> DEFINE recs == conv[s].recs
  <2>1. recs \in Seq(Records) /\ Paired(Replay(recs)) /\ Replay(recs) = items[s]
    BY <1>7, Recorded
  <2> HIDE DEF recs
  <2>2. Replay(Append(recs, r)) = its
    BY <1>5, <2>1, ReplayAppend
  <2>3. Paired(its)
    BY <1>1, <2>1, RetainedPaired DEF its
  <2>4. Pairs(recs, <<>>) /\ recs \o <<>> = recs /\ <<>> \in Seq(Records)
    BY <2>1, PairsNone
  <2>5. Pairs(recs, Append(<<>>, r)) /\ recs \o Append(<<>>, r) = Append(recs, r)
    BY <1>5, <2>1, <2>2, <2>3, <2>4, PairsAppend, ZenonT(40)
  <2>6. Append(<<>>, r) = <<r>>
    OBVIOUS
  <2>7. its \in Log!Compactions(Replay(recs))
    BY <1>1, <2>1, RetainedFewer DEF its
  <2>8. Ahead(recs, <<r>>)
    BY <1>5, <2>7 DEF Ahead
  <2> QED  BY <2>2, <2>5, <2>6, <2>8 DEF recs
<1>9. work' = [work EXCEPT ![s] = work[s]]
  BY <1>3 DEF IInv, Typed
<1> QED
  BY <1>2, <1>4, <1>6, <1>7, <1>8, <1>9, Operates

\* An action that is added records its items, then an event, then the files if it saves.
LEMMA AddActionStep ==
    ASSUME IInv, NEW s \in Sessions, NEW saves \in BOOLEAN, NEW made \in Seq(ItemSet),
           NEW x \in Seq(Steps), Plan(x),
           x = FlattenSeq([k \in DOMAIN made |-> ItemRecord(made[k])]),
           AddAction(s, saves, made),
           s \in Whole => /\ Pairs(conv[s].recs, Outstanding(x)) /\ Ahead(conv[s].recs, Outstanding(x))
                          /\ Replay(conv[s].recs \o Outstanding(x)) = items[s] \o made
    PROVE  IInv'
<1> DEFINE v == IF saves THEN Save(Parts) ELSE <<>>
           t == v \o Event \o x
           w == IF saves THEN [work[s] EXCEPT !.facts = ops + 1] ELSE work[s]
<1>1. /\ items' = [items EXCEPT ![s] = items[s] \o made] /\ CanBegin(s) /\ Begin(s, t)
      /\ work' = IF saves THEN [work EXCEPT ![s].facts = ops + 1] ELSE work
  BY DEF AddAction
<1>2. v \in Seq(Steps) /\ Plan(v) /\ Outstanding(v) = <<>>
  BY PlanSave, PlanNothing
<1> HIDE DEF v
<1>3. t \in Seq(Steps) /\ Plan(t) /\ Outstanding(t) = Outstanding(x)
  <2> DEFINE a == v \o Event
  <2>1. a \in Seq(Steps) /\ Plan(a) /\ Outstanding(a) = <<>>
    BY <1>2, PlanEvent, PlanConcat, OutstandingConcat
  <2> HIDE DEF a
  <2>2. a \o x \in Seq(Steps) /\ Plan(a \o x) /\ Outstanding(a \o x) = <<>> \o Outstanding(x)
    BY <2>1, PlanConcat, OutstandingConcat
  <2>3. <<>> \o Outstanding(x) = Outstanding(x)
    <3>1. Outstanding(x) \in Seq(Records)
      BY WrittenType
    <3> QED  BY <3>1
  <2> QED  BY <2>2, <2>3 DEF a
<1> HIDE DEF t
<1>4. /\ proc[s].pc = "up" /\ proc[s].todo = <<>>
      /\ proc' = [proc EXCEPT ![s] = [proc[s] EXCEPT !.pc = "up", !.todo = t]]
      /\ ops < MaxOps /\ ops' = ops + 1 /\ UNCHANGED <<diskVars, lock>> /\ ops \in Nat /\ ops + 1 \in Nat
      /\ items[s] \in Seq(ItemSet) /\ work[s] \in [ToSet(Parts) -> 0..(ops + 1)]
      /\ work[s] \in [ToSet(Parts) -> 0..ops] /\ files[s] \in [ToSet(Parts) -> 0..ops]
      /\ work[s].agent_working_state <= work[s].facts /\ files[s].facts <= work[s].facts
  BY <1>1, Proceeds
<1>5. work' = [work EXCEPT ![s] = w]
  BY <1>1 DEF IInv, Typed
<1>6. w \in [ToSet(Parts) -> 0..(ops + 1)] /\ w.agent_working_state <= w.facts
      /\ files[s].facts <= w.facts
  <2>1. CASE saves
    <3>1. files[s].facts \in 0..ops /\ work[s].agent_working_state \in 0..ops
          /\ ops + 1 \in 0..(ops + 1)
      BY <1>4, PartSet
    <3>2. w = [work[s] EXCEPT !.facts = ops + 1]
      BY <2>1
    <3>3. w \in [ToSet(Parts) -> 0..(ops + 1)]
      BY <1>4, <3>1, <3>2
    <3>4. w.facts = ops + 1 /\ w.agent_working_state = work[s].agent_working_state
      BY <1>4, <3>2, PartSet
    <3> HIDE DEF w
    <3> QED  BY <1>4, <3>1, <3>3, <3>4
  <2>2. CASE ~ saves
    BY <1>4, <2>2
  <2> QED  BY <2>1, <2>2
<1>7. items[s] \o made \in Seq(ItemSet)
  BY <1>4
<1> HIDE DEF w
<1> QED
  BY <1>1, <1>3, <1>4, <1>5, <1>6, <1>7, Operates

\* A response is a message alone.
LEMMA RespondStep ==
    ASSUME IInv, NEW s \in Sessions, Respond(s)
    PROVE  IInv'
<1> DEFINE m == Item("message", Id)
           made == <<m>>
<1>1. AddAction(s, FALSE, made)
  BY DEF Respond
<1>2. proc[s].pc = "up" /\ proc[s].todo = <<>> /\ ops + 1 \in Nat /\ items[s] \in Seq(ItemSet)
  BY <1>1, Proceeds DEF AddAction
<1>3. m \in ItemSet /\ m.kind = "message"
  BY <1>2, MadeItems DEF Id
<1> HIDE DEF m
<1>4. made \in Seq(ItemSet) /\ items[s] \o made = Append(items[s], m)
  BY <1>2, <1>3
<1>5. ItemRecord(m) = FlattenSeq([k \in DOMAIN made |-> ItemRecord(made[k])])
  <2>1. [k \in DOMAIN made |-> ItemRecord(made[k])] = Append(<<>>, ItemRecord(m))
    OBVIOUS
  <2>2. FlattenSeq(Append(<<>>, ItemRecord(m))) = FlattenSeq(<<>>) \o ItemRecord(m)
    <3>1. ItemRecord(m) \in Seq(Steps) /\ <<>> \in Seq(Seq(Steps))
      BY <1>3, PlanItem
    <3> QED  BY <3>1, FlattenAppend
  <2>3. <<>> \o ItemRecord(m) = ItemRecord(m)
    BY <1>3, PlanItem
  <2> QED  BY <2>1, <2>2, <2>3, FlattenEmpty
<1>6. s \in Whole => /\ Pairs(conv[s].recs, <<ItemRec(m)>>) /\ Ahead(conv[s].recs, <<ItemRec(m)>>)
                     /\ Replay(conv[s].recs \o <<ItemRec(m)>>) = items[s] \o made
  BY <1>2, <1>3, <1>4, FirstItem
<1> HIDE DEF made
<1>7. ItemRecord(m) \in Seq(Steps) /\ Plan(ItemRecord(m)) /\ Outstanding(ItemRecord(m)) = <<ItemRec(m)>>
  BY <1>3, PlanItem
<1> QED
  BY <1>1, <1>4, <1>5, <1>6, <1>7, AddActionStep

\* An action is recorded before its result.
LEMMA ActStep ==
    ASSUME IInv, NEW s \in Sessions, NEW saves \in BOOLEAN, Act(s, saves)
    PROVE  IInv'
<1> DEFINE a == Item("action", Id)
           b == Item("result", Id)
           made == <<a, b>>
           x == ItemRecord(a) \o ItemRecord(b)
<1>1. AddAction(s, saves, made)
  BY DEF Act
<1>2. proc[s].pc = "up" /\ proc[s].todo = <<>> /\ ops + 1 \in Nat /\ items[s] \in Seq(ItemSet)
  BY <1>1, Proceeds DEF AddAction
<1>3. a \in ItemSet /\ a.kind = "action" /\ b \in ItemSet /\ b.kind = "result" /\ a.id = b.id
  BY <1>2, MadeItems DEF Id
<1> HIDE DEF a, b
<1>4. made \in Seq(ItemSet) /\ Append(items[s], a) \o <<b>> = items[s] \o made
  BY <1>2, <1>3
<1>5. x = FlattenSeq([k \in DOMAIN made |-> ItemRecord(made[k])])
  <2>1. [k \in DOMAIN made |-> ItemRecord(made[k])]
           = Append(Append(<<>>, ItemRecord(a)), ItemRecord(b))
    OBVIOUS
  <2>2. ItemRecord(a) \in Seq(Steps) /\ ItemRecord(b) \in Seq(Steps)
    BY <1>3, PlanItem
  <2>3. FlattenSeq(Append(<<>>, ItemRecord(a))) = <<>> \o ItemRecord(a)
        /\ Append(<<>>, ItemRecord(a)) \in Seq(Seq(Steps))
    <3>1. <<>> \in Seq(Seq(Steps)) /\ Append(<<>>, ItemRecord(a)) \in Seq(Seq(Steps))
      BY <2>2
    <3> QED  BY <2>2, <3>1, FlattenAppend, FlattenEmpty
  <2>4. <<>> \o ItemRecord(a) = ItemRecord(a)
    BY <2>2
  <2>5. FlattenSeq(Append(Append(<<>>, ItemRecord(a)), ItemRecord(b)))
           = FlattenSeq(Append(<<>>, ItemRecord(a))) \o ItemRecord(b)
    BY <2>2, <2>3, FlattenAppend
  <2> QED  BY <2>1, <2>3, <2>4, <2>5
<1>6. x \in Seq(Steps) /\ Plan(x) /\ Outstanding(x) = <<ItemRec(a)>> \o <<ItemRec(b)>>
  BY <1>3, PlanItem, PlanConcat, OutstandingConcat
<1>7. <<ItemRec(a)>> \o <<ItemRec(b)>> = Append(<<ItemRec(a)>>, ItemRec(b))
  OBVIOUS
<1>8. s \in Whole => /\ Pairs(conv[s].recs, Append(<<ItemRec(a)>>, ItemRec(b)))
                     /\ Ahead(conv[s].recs, Append(<<ItemRec(a)>>, ItemRec(b)))
                     /\ Replay(conv[s].recs \o Append(<<ItemRec(a)>>, ItemRec(b))) = items[s] \o made
  <2> SUFFICES ASSUME s \in Whole
               PROVE  /\ Pairs(conv[s].recs, Append(<<ItemRec(a)>>, ItemRec(b)))
                      /\ Ahead(conv[s].recs, Append(<<ItemRec(a)>>, ItemRec(b)))
                      /\ Replay(conv[s].recs \o Append(<<ItemRec(a)>>, ItemRec(b))) = items[s] \o made
    OBVIOUS
  <2> DEFINE out == <<ItemRec(a)>>
  <2>1. out \in Seq(Records) /\ Pairs(conv[s].recs, out) /\ Single(out)
        /\ Replay(conv[s].recs \o out) = Append(items[s], a)
    BY <1>2, <1>3, FirstItem
  <2>2. conv[s].recs \in Seq(Records)
    BY <1>2, Recorded
  <2>3. Len(items[s]) + 1 \in 1..Len(Append(items[s], a))
        /\ Append(items[s], a)[Len(items[s]) + 1] = a
    BY <1>2
  <2> HIDE DEF out
  <2>4. \E k \in 1..Len(Replay(conv[s].recs \o out)) :
           Replay(conv[s].recs \o out)[k].kind = "action" /\ Replay(conv[s].recs \o out)[k].id = b.id
    BY <1>3, <2>1, <2>3
  <2>5. /\ Pairs(conv[s].recs, Append(out, ItemRec(b)))
        /\ Replay(conv[s].recs \o Append(out, ItemRec(b))) = Replay(conv[s].recs \o out) \o <<b>>
    BY <1>3, <2>1, <2>2, <2>4, ItemTold
  <2>6. Ahead(conv[s].recs, Append(out, ItemRec(b)))
    BY <1>3, <2>1, SingleAppend DEF Ahead
  <2> QED  BY <1>4, <2>1, <2>5, <2>6 DEF out
<1> HIDE DEF made, x
<1> QED
  BY <1>1, <1>4, <1>5, <1>6, <1>7, <1>8, AddActionStep

\* Stuttering keeps the invariant.
LEMMA UnchangedStep ==
    ASSUME IInv, UNCHANGED vars
    PROVE  IInv'
  BY DEF vars, memVars, diskVars, IInv, Typed, Working, Kept, Counted, Told

\* The step that is the next one of a process, and what is left after it.
LEMMA StepDone ==
    ASSUME IInv, NEW s \in Sessions, NEW do, Next1(s, do), Done1(s)
    PROVE  LET t == proc[s].todo IN
           /\ proc[s].pc = "up" /\ t \in Seq(Steps) /\ t # <<>> /\ Rest(t) /\ t[1].do = do
           /\ Head(t) = t[1] /\ t[1] \in Steps
           /\ proc' \in [Sessions -> Processes]
           /\ proc'[s].todo = Tail(t) /\ proc'[s].pc = "up"
           /\ proc'[s].seen = proc[s].seen /\ proc'[s].crashes = proc[s].crashes
           /\ \A u \in Sessions \ {s} : proc'[u] = proc[u]
<1> DEFINE t == proc[s].todo
<1>1. proc \in [Sessions -> Processes] /\ proc[s] \in Processes /\ Rest(t)
  BY DEF IInv, Typed, Working
<1>2. proc[s].pc = "up" /\ t # <<>> /\ Head(t).do = do /\ proc' = [proc EXCEPT ![s].todo = Tail(t)]
  BY DEF Next1, Done1
<1>3. t \in Seq(Steps)
  BY <1>1 DEF Processes
<1>4. Tail(t) \in Seq(Steps) /\ Head(t) = t[1] /\ t[1] \in Steps
  BY <1>2, <1>3
<1>5. [proc[s] EXCEPT !.todo = Tail(t)] \in Processes
      /\ [proc[s] EXCEPT !.todo = Tail(t)].todo = Tail(t)
      /\ [proc[s] EXCEPT !.todo = Tail(t)].pc = proc[s].pc
      /\ [proc[s] EXCEPT !.todo = Tail(t)].seen = proc[s].seen
      /\ [proc[s] EXCEPT !.todo = Tail(t)].crashes = proc[s].crashes
  BY <1>1, <1>4 DEF Processes
<1>6. proc' \in [Sessions -> Processes] /\ proc'[s] = [proc[s] EXCEPT !.todo = Tail(t)]
      /\ \A u \in Sessions \ {s} : proc'[u] = proc[u]
  BY <1>1, <1>2, <1>5
<1> QED
  BY <1>1, <1>2, <1>3, <1>4, <1>5, <1>6

\* A step that is not one of the index leaves the lock alone.
LEMMA StillWorking ==
    ASSUME IInv, NEW s \in Sessions, NEW do, Next1(s, do), Done1(s),
           do \notin {"lock", "touch", "upsert"}, UNCHANGED <<index, lock>>
    PROVE  Working(s)'
<1> DEFINE t == proc[s].todo
<1>1. /\ proc[s].pc = "up" /\ t \in Seq(Steps) /\ t # <<>> /\ Rest(t) /\ t[1].do = do
      /\ proc'[s].todo = Tail(t) /\ proc'[s].pc = "up" /\ proc'[s].seen = proc[s].seen
  BY StepDone
<1>2. Working(s)
  BY DEF IInv
<1>3. Rest(Tail(t)) /\ (Tail(t) = <<>> \/ Tail(t)[1].do \notin {"touch", "upsert"})
  BY <1>1, RestTail
<1> QED
  BY <1>1, <1>2, <1>3 DEF Working

\* What a step other than a write of the files leaves of the order of the files.
LEMMA StillKept ==
    ASSUME IInv, NEW s \in Sessions, proc[s].pc = "up", proc[s].todo # <<>>,
           proc[s].todo[1].do \notin {"file", "load"},
           proc'[s].pc = "up", proc'[s].todo = Tail(proc[s].todo),
           UNCHANGED <<work, files>>
    PROVE  Kept(s)'
<1> DEFINE t == proc[s].todo
<1>1. Kept(s) /\ t \in Seq(Steps) /\ Rest(t)
  BY DEF IInv, Typed, Working, Processes
<1>2. /\ Len(t) \in Nat /\ Len(t) >= 1 /\ Len(Tail(t)) = Len(t) - 1
      /\ \A k \in 1..Len(Tail(t)) : Tail(t)[k] = t[k + 1]
  BY <1>1, RestTail
<1>3. Loading(Tail(t)) <=> Loading(t)
  BY <1>1, FlagsTail
<1>4. ASSUME ~ Loading(t), NEW k \in 1..Len(Tail(t)), Writes(Tail(t)[k], "agent_working_state")
      PROVE  \/ files[s].facts = work[s].facts
             \/ \E j \in 1..(k - 1) : Writes(Tail(t)[j], "facts")
  <2>1. k + 1 \in 1..Len(t) /\ Writes(t[k + 1], "agent_working_state")
    BY <1>2, <1>4
  <2>2. CASE files[s].facts # work[s].facts
    <3>1. PICK j \in 1..((k + 1) - 1) : Writes(t[j], "facts")
      BY <1>1, <1>4, <2>1, <2>2 DEF Kept
    <3>2. j # 1
      BY <3>1 DEF Writes
    <3>3. j - 1 \in 1..(k - 1) /\ j - 1 \in 1..Len(Tail(t)) /\ (j - 1) + 1 = j
      BY <1>2, <3>1, <3>2
    <3>4. Tail(t)[j - 1] = t[j]
      BY <1>2, <3>3
    <3> QED  BY <3>1, <3>3, <3>4
  <2> QED  BY <2>2
<1> QED
  BY <1>1, <1>3, <1>4 DEF Kept

\* A step that leaves the trace and the index alone, and is none of theirs.
LEMMA StillCounted ==
    ASSUME IInv, NEW s \in Whole, proc[s].pc = "up", proc[s].todo # <<>>,
           proc[s].todo[1].do \in {"record", "file"},
           proc'[s].pc = "up", proc'[s].todo = Tail(proc[s].todo),
           proc'[s].crashes = proc[s].crashes, UNCHANGED <<trace, index>>
    PROVE  Counted(s)'
<1> DEFINE t == proc[s].todo
<1>1. Counted(s) /\ t \in Seq(Steps) /\ Rest(t)
  BY DEF IInv, Typed, Working, Whole, Processes
<1>2. ~ Counting(Tail(t)) /\ ~ Counting(t) /\ ~ Entering(t)
  BY <1>1, FlagsTail DEF Counts
<1> QED
  BY <1>1, <1>2 DEF Counted

\* A step other than a write of a record, or a load, leaves the records outstanding.
LEMMA StillTold ==
    ASSUME IInv, NEW s \in Whole, proc[s].pc = "up", proc[s].todo # <<>>,
           proc[s].todo[1].do \notin {"record", "load"},
           proc'[s].pc = "up", proc'[s].todo = Tail(proc[s].todo),
           UNCHANGED <<conv, items>>
    PROVE  Told(s)'
<1> DEFINE t == proc[s].todo
<1>1. Told(s) /\ t \in Seq(Steps) /\ Rest(t)
  BY DEF IInv, Typed, Working, Whole, Processes
<1>2. Outstanding(Tail(t)) = Outstanding(t)
  BY <1>1, OutstandingTail
<1>3. Loading(Tail(t)) <=> Loading(t)
  BY <1>1, FlagsTail
<1> QED
  BY <1>1, <1>2, <1>3 DEF Told

\* An event is appended to the trace: its count is now due.
LEMMA WriteEventStep ==
    ASSUME IInv, NEW s \in Sessions, WriteEvent(s)
    PROVE  IInv'
<1> DEFINE t == proc[s].todo
<1>1. Next1(s, "event") /\ Done1(s) /\ UNCHANGED <<items, work, conv, files, index, lock, ops>>
  BY DEF WriteEvent
<1>2. /\ proc[s].pc = "up" /\ t \in Seq(Steps) /\ t # <<>> /\ Rest(t) /\ t[1].do = "event"
      /\ proc' \in [Sessions -> Processes] /\ proc'[s].todo = Tail(t) /\ proc'[s].pc = "up"
      /\ proc'[s].seen = proc[s].seen /\ proc'[s].crashes = proc[s].crashes
      /\ \A u \in Sessions \ {s} : proc'[u] = proc[u]
  BY <1>1, StepDone
<1>3. Typed /\ trace[s] \in [events : Nat, open : {"no", "cut", "bare"}, unread : BOOLEAN]
  BY DEF IInv, Typed
<1>4. /\ trace' \in [Sessions -> [events : Nat, open : {"no", "cut", "bare"}, unread : BOOLEAN]]
      /\ \A u \in Sessions \ {s} : trace'[u] = trace[u]
      /\ trace[s].open = "no" => trace'[s].open = "no" /\ trace'[s].events = trace[s].events + 1
  <2> DEFINE x == [trace[s] EXCEPT !.events = trace[s].events + 1]
             y == [trace[s] EXCEPT !.open = "no", !.unread = TRUE]
  <2>1. trace' = [trace EXCEPT ![s] = IF trace[s].open = "no" THEN x ELSE y]
    BY Zenon DEF WriteEvent
  <2>2. x \in [events : Nat, open : {"no", "cut", "bare"}, unread : BOOLEAN]
        /\ (trace[s].open = "no" => x.open = "no" /\ x.events = trace[s].events + 1)
    BY <1>3
  <2>4. y \in [events : Nat, open : {"no", "cut", "bare"}, unread : BOOLEAN]
    BY <1>3
  <2> HIDE DEF x, y
  <2>3. trace \in [Sessions -> [events : Nat, open : {"no", "cut", "bare"}, unread : BOOLEAN]]
    BY <1>3 DEF Typed
  <2> QED  BY <2>1, <2>2, <2>3, <2>4
<1>5. Typed'
  BY <1>1, <1>2, <1>3, <1>4 DEF Typed
<1>6. Working(s)'
  BY <1>1, StillWorking
<1>7. Kept(s)'
  BY <1>1, <1>2, StillKept
<1>8. ASSUME s \in Whole PROVE Counted(s)'
  <2>1. Counted(s)
    BY <1>8 DEF IInv
  <2>2. Counting(Tail(t)) /\ ~ Counting(t) /\ ~ Entering(t)
    BY <1>2, FlagsTail
  <2>3. trace[s].events \in Nat /\ proc[s].crashes \in Nat /\ (index[s] # None => index[s] \in Nat)
    BY <1>3, MemoryAssumption, SMTT(40) DEF Typed, Processes, Entries
  <2> QED  BY <1>1, <1>2, <1>4, <2>1, <2>2, <2>3 DEF Counted
<1>9. s \in Whole => Told(s)'
  BY <1>1, <1>2, StillTold
<1>10. Elsewhere(s)
  BY <1>1, <1>2, <1>4 DEF Elsewhere
<1> QED
  BY <1>5, <1>6, <1>7, <1>8, <1>9, <1>10, Others

\* A record is appended to the conversation: it is no longer outstanding.
LEMMA WriteRecordStep ==
    ASSUME IInv, NEW s \in Sessions, WriteRecord(s)
    PROVE  IInv'
<1> DEFINE t == proc[s].todo
           r == t[1].rec
<1>1. Next1(s, "record") /\ Done1(s) /\ UNCHANGED <<items, work, trace, files, index, lock, ops>>
  BY DEF WriteRecord
<1>2. /\ proc[s].pc = "up" /\ t \in Seq(Steps) /\ t # <<>> /\ Rest(t) /\ t[1].do = "record"
      /\ Head(t) = t[1] /\ t[1] \in Steps
      /\ proc' \in [Sessions -> Processes] /\ proc'[s].todo = Tail(t) /\ proc'[s].pc = "up"
      /\ proc'[s].seen = proc[s].seen /\ proc'[s].crashes = proc[s].crashes
      /\ \A u \in Sessions \ {s} : proc'[u] = proc[u]
  BY <1>1, StepDone
<1>3. Typed /\ conv[s] \in [recs : Seq(Records), open : {"no", "cut", "garbled", "bare"}] /\ r \in Records
  BY <1>2, StepFacts DEF IInv, Typed
<1>4. /\ conv' \in [Sessions -> [recs : Seq(Records), open : {"no", "cut", "garbled", "bare"}]]
      /\ \A u \in Sessions \ {s} : conv'[u] = conv[u]
      /\ conv[s].open = "no" => conv'[s].open = "no" /\ conv'[s].recs = Append(conv[s].recs, r)
  <2> DEFINE x == [conv[s] EXCEPT !.recs = Append(conv[s].recs, Head(t).rec)]
             y == [conv[s] EXCEPT !.open = "no"]
             z == [conv[s] EXCEPT !.open = "no", !.recs = Front(conv[s].recs)]
  <2>1. /\ conv[s].open = "no" => conv' = [conv EXCEPT ![s] = x]
        /\ conv[s].open \in {"cut", "garbled"} => conv' = [conv EXCEPT ![s] = y]
        /\ conv[s].open = "bare" => conv' = [conv EXCEPT ![s] = z]
    <3>1. CASE conv[s].open = "no"
      BY <3>1 DEF WriteRecord
    <3>2. CASE conv[s].open \in {"cut", "garbled"}
      BY <3>2 DEF WriteRecord
    <3>3. CASE conv[s].open = "bare"
      BY <3>3 DEF WriteRecord
    <3> QED  BY <1>3, <3>1, <3>2, <3>3
  <2>2. Append(conv[s].recs, r) \in Seq(Records) /\ Front(conv[s].recs) \in Seq(Records)
    BY <1>3 DEF Front
  <2>3. /\ \A v \in {x, y, z} : v \in [recs : Seq(Records), open : {"no", "cut", "garbled", "bare"}]
        /\ conv[s].open = "no" => x.open = "no" /\ x.recs = Append(conv[s].recs, r)
    BY <1>2, <1>3, <2>2, ZenonT(40)
  <2> HIDE DEF x, y, z
  <2>4. conv \in [Sessions -> [recs : Seq(Records), open : {"no", "cut", "garbled", "bare"}]]
    BY <1>3 DEF Typed
  <2>5. \E v \in {x, y, z} : conv' = [conv EXCEPT ![s] = v] /\ (conv[s].open = "no" => v = x)
    BY <1>3, <2>1
  <2> QED  BY <2>3, <2>4, <2>5
<1>5. Typed'
  BY <1>1, <1>2, <1>3, <1>4 DEF Typed
<1>6. Working(s)'
  BY <1>1, StillWorking
<1>7. Kept(s)'
  BY <1>1, <1>2, StillKept
<1>8. s \in Whole => Counted(s)'
  BY <1>1, <1>2, StillCounted
<1>9. ASSUME s \in Whole PROVE Told(s)'
  <2> DEFINE recs == conv[s].recs
             out == Outstanding(Tail(t))
  <2>1. Told(s) /\ recs \in Seq(Records)
    BY <1>3, <1>9 DEF IInv
  <2>2. out \in Seq(Records) /\ Outstanding(t) = <<r>> \o out
    BY <1>2, OutstandingTail, WrittenType DEF Written
  <2>3. Pairs(recs, <<r>> \o out) /\ Ahead(recs, <<r>> \o out)
    BY <2>1, <2>2 DEF Told
  <2>4. Pairs(Append(recs, r), out) /\ recs \o (<<r>> \o out) = Append(recs, r) \o out
    <3> HIDE DEF recs, out, r
    <3> QED  BY <1>3, <2>1, <2>2, <2>3, PairsTail
  <2>8. Ahead(Append(recs, r), out)
    <3> HIDE DEF recs, out, r
    <3> QED  BY <1>3, <2>2, <2>3, AheadTail
  <2>5. Loading(Tail(t)) <=> Loading(t)
    BY <1>2, FlagsTail
  <2>6. conv'[s].open = "no" /\ conv'[s].recs = Append(recs, r)
    BY <1>4, <2>1 DEF Told
  <2>7. ~ Loading(t) => Replay(recs \o (<<r>> \o out)) = items[s]
    BY <1>2, <2>1, <2>2 DEF Told
  <2> HIDE DEF recs, out, r
  <2> QED  BY <1>1, <1>2, <2>4, <2>5, <2>6, <2>7, <2>8 DEF Told, out
<1>10. Elsewhere(s)
  BY <1>1, <1>2, <1>4 DEF Elsewhere
<1> QED
  BY <1>5, <1>6, <1>7, <1>8, <1>9, <1>10, Others

\* A file of the working memory is replaced: facts before the state.
LEMMA WriteFileStep ==
    ASSUME IInv, NEW s \in Sessions, WriteFile(s)
    PROVE  IInv'
<1> DEFINE t == proc[s].todo
           p == t[1].part
<1>1. Next1(s, "file") /\ Done1(s) /\ UNCHANGED <<items, work, trace, conv, index, lock, ops>>
  BY DEF WriteFile
<1>2. /\ proc[s].pc = "up" /\ t \in Seq(Steps) /\ t # <<>> /\ Rest(t) /\ t[1].do = "file"
      /\ Head(t) = t[1] /\ t[1] \in Steps
      /\ proc' \in [Sessions -> Processes] /\ proc'[s].todo = Tail(t) /\ proc'[s].pc = "up"
      /\ proc'[s].seen = proc[s].seen /\ proc'[s].crashes = proc[s].crashes
      /\ \A u \in Sessions \ {s} : proc'[u] = proc[u]
  BY <1>1, StepDone
<1>3. /\ Typed /\ Kept(s) /\ p \in {"facts", "agent_working_state"} /\ ops \in Nat
      /\ files \in [Sessions -> [ToSet(Parts) -> 0..ops]]
      /\ work[s] \in [ToSet(Parts) -> 0..ops] /\ files[s] \in [ToSet(Parts) -> 0..ops]
  <2>1. p \in {"facts", "agent_working_state"}
    BY <1>2, StepFacts
  <2>2. ops \in 0..MaxOps /\ MaxOps \in Nat
    BY MemoryAssumption DEF IInv, Typed
  <2> QED  BY <2>1, <2>2 DEF IInv, Typed
<1>4. /\ files' \in [Sessions -> [ToSet(Parts) -> 0..ops]]
      /\ \A u \in Sessions \ {s} : files'[u] = files[u]
      /\ files'[s][p] = work[s][p]
      /\ \A q \in {"facts", "agent_working_state"} : q # p => files'[s][q] = files[s][q]
  <2>1. files' = [files EXCEPT ![s][p] = work[s][p]]
    BY <1>2 DEF WriteFile
  <2> HIDE DEF p
  <2> QED  BY <1>3, <2>1, PartSet
<1>5. Typed'
  BY <1>1, <1>2, <1>3, <1>4 DEF Typed
<1>6. Working(s)'
  BY <1>1, StillWorking
<1>7. Kept(s)'
  <2>1. ~ Loading(t)
    BY <1>2, FlagsTail
  <2>2. /\ work[s].agent_working_state <= work[s].facts
        /\ files[s].agent_working_state <= files[s].facts
        /\ files[s].facts <= work[s].facts
        /\ \A k \in 1..Len(t) : Writes(t[k], "agent_working_state") =>
              \/ files[s].facts = work[s].facts
              \/ \E j \in 1..(k - 1) : Writes(t[j], "facts")
    BY <1>2, <1>3, <2>1 DEF Kept
  <2>3. /\ work[s].agent_working_state \in Nat /\ work[s].facts \in Nat
        /\ files[s].agent_working_state \in Nat /\ files[s].facts \in Nat
    BY <1>3, PartSet
  <2>4. /\ Len(t) \in Nat /\ Len(t) >= 1 /\ Len(Tail(t)) = Len(t) - 1
        /\ \A k \in 1..Len(Tail(t)) : Tail(t)[k] = t[k + 1]
    BY <1>2, RestTail
  <2>5. CASE p = "facts"
    <3>1. files'[s].facts = work[s].facts
          /\ files'[s].agent_working_state = files[s].agent_working_state
      BY <1>4, <2>5
    <3> QED  BY <1>1, <1>2, <2>2, <2>3, <3>1 DEF Kept
  <2>6. CASE p = "agent_working_state"
    <3>1. files'[s].facts = files[s].facts
          /\ files'[s].agent_working_state = work[s].agent_working_state
      BY <1>4, <2>6
    <3>2. files[s].facts = work[s].facts
      <4>1. 1 \in 1..Len(t) /\ Writes(t[1], "agent_working_state")
        BY <1>2, <2>4, <2>6 DEF Writes
      <4>2. ~ \E j \in 1..(1 - 1) : Writes(t[j], "facts")
        OBVIOUS
      <4> QED  BY <2>2, <4>1, <4>2
    <3> QED  BY <1>1, <1>2, <2>2, <2>3, <3>1, <3>2 DEF Kept
  <2> QED  BY <1>3, <2>5, <2>6
<1>8. s \in Whole => Counted(s)'
  BY <1>1, <1>2, StillCounted
<1>9. s \in Whole => Told(s)'
  BY <1>1, <1>2, StillTold
<1>10. Elsewhere(s)
  BY <1>1, <1>2, <1>4 DEF Elsewhere
<1> QED
  BY <1>5, <1>6, <1>7, <1>8, <1>9, <1>10, Others

\* The index is read under its lock.
LEMMA ReadIndexStep ==
    ASSUME IInv, NEW s \in Sessions, ReadIndex(s)
    PROVE  IInv'
<1> DEFINE t == proc[s].todo
           x == [proc[s] EXCEPT !.todo = Tail(t), !.seen = index]
<1>1. /\ Next1(s, "lock") /\ lock = None /\ lock' = s
      /\ proc' = [proc EXCEPT ![s] = x]
      /\ UNCHANGED <<items, work, trace, conv, files, index, ops>>
  BY DEF ReadIndex, diskVars
<1>2. Typed /\ Working(s) /\ Kept(s) /\ proc[s] \in Processes /\ proc \in [Sessions -> Processes]
      /\ index \in Entries
  BY DEF IInv, Typed
<1>3. proc[s].pc = "up" /\ t \in Seq(Steps) /\ t # <<>> /\ Rest(t)
  BY <1>1, <1>2 DEF Next1, Processes, Working
<1>4. t[1].do = "lock" /\ Tail(t) \in Seq(Steps)
  BY <1>1, <1>3, RestTail DEF Next1
<1>5. x \in Processes /\ x.pc = "up" /\ x.todo = Tail(t) /\ x.seen = index /\ x.crashes = proc[s].crashes
  BY <1>2, <1>3, <1>4 DEF Processes
<1> HIDE DEF x
<1>6. proc' \in [Sessions -> Processes] /\ proc'[s] = x /\ \A u \in Sessions \ {s} : proc'[u] = proc[u]
  BY <1>1, <1>2, <1>5
<1>7. Typed'
  BY <1>1, <1>2, <1>6 DEF Typed
<1>8. Rest(Tail(t)) /\ Tail(t) # <<>> /\ Tail(t)[1].do \in {"touch", "upsert"}
  BY <1>3, <1>4, RestTail
<1>9. Working(s)'
  BY <1>1, <1>5, <1>6, <1>8 DEF Working
<1>10. Kept(s)'
  BY <1>1, <1>3, <1>4, <1>5, <1>6, StillKept
<1>11. ASSUME s \in Whole PROVE Counted(s)'
  <2>1. Counted(s)
    BY <1>11 DEF IInv
  <2>2. (Counting(Tail(t)) <=> Counting(t)) /\ (Entering(Tail(t)) <=> Entering(t))
    BY <1>3, <1>4, FlagsTail
  <2> QED  BY <1>1, <1>3, <1>5, <1>6, <2>1, <2>2 DEF Counted
<1>12. s \in Whole => Told(s)'
  BY <1>1, <1>3, <1>4, <1>5, <1>6, StillTold
<1>13. Elsewhere(s)
  BY <1>1, <1>6, MemoryAssumption DEF Elsewhere
<1> QED
  BY <1>7, <1>9, <1>10, <1>11, <1>12, <1>13, Others

\* The index is written back, and the lock given up.
LEMMA WriteIndexStep ==
    ASSUME IInv, NEW s \in Sessions, WriteIndex(s)
    PROVE  IInv'
<1> DEFINE t == proc[s].todo
           x == [proc[s] EXCEPT !.todo = Tail(t), !.seen = None]
           e == NewEntry(s)
<1>1. /\ Next1(s, "upsert") \/ Next1(s, "touch")
      /\ index' = [proc[s].seen EXCEPT ![s] = e] /\ lock' = None
      /\ proc' = [proc EXCEPT ![s] = x]
      /\ UNCHANGED <<items, work, trace, conv, files, ops>>
  BY DEF WriteIndex
<1>2. Typed /\ Working(s) /\ Kept(s) /\ proc[s] \in Processes /\ proc \in [Sessions -> Processes]
      /\ index \in Entries
  BY DEF IInv, Typed
<1>3. proc[s].pc = "up" /\ t \in Seq(Steps) /\ t # <<>> /\ Rest(t)
  BY <1>1, <1>2 DEF Next1, Processes, Working
<1>4. t[1].do \in {"upsert", "touch"} /\ Tail(t) \in Seq(Steps) /\ Head(t) = t[1] /\ t[1] \in Steps
  BY <1>1, <1>3, RestTail DEF Next1
<1>5. x \in Processes /\ x.pc = "up" /\ x.todo = Tail(t) /\ x.seen = None /\ x.crashes = proc[s].crashes
  BY <1>2, <1>3, <1>4 DEF Processes
<1> HIDE DEF x
<1>6. proc' \in [Sessions -> Processes] /\ proc'[s] = x /\ \A u \in Sessions \ {s} : proc'[u] = proc[u]
  BY <1>1, <1>2, <1>5
<1>7. lock = s /\ proc[s].seen = index
  BY <1>2, <1>3, <1>4 DEF Working
<1>8. /\ t[1].do = "upsert" => e = IF index[s] = None THEN 0 ELSE index[s]
      /\ t[1].do = "touch" => e = IF index[s] = None THEN None ELSE index[s] + t[1].n
  BY <1>4, <1>7 DEF NewEntry
<1>9. index[s] \in Nat \cup {None} /\ (t[1].do = "touch" => t[1].n \in {0, 1})
  BY <1>2, <1>4, StepFacts DEF Entries
<1>10. e \in Nat \cup {None}
  BY <1>4, <1>8, <1>9
<1> HIDE DEF e
<1>11. index' \in Entries /\ index'[s] = e /\ \A u \in Sessions \ {s} : index'[u] = index[u]
  BY <1>1, <1>2, <1>7, <1>10 DEF Entries
<1>12. Typed'
  BY <1>1, <1>2, <1>6, <1>11 DEF Typed
<1>13. Rest(Tail(t)) /\ (Tail(t) = <<>> \/ Tail(t)[1].do \notin {"touch", "upsert"})
  BY <1>3, <1>4, RestTail
<1>14. Working(s)'
  BY <1>1, <1>5, <1>6, <1>13, MemoryAssumption DEF Working
<1>15. Kept(s)'
  BY <1>1, <1>3, <1>4, <1>5, <1>6, StillKept
<1>16. ASSUME s \in Whole PROVE Counted(s)'
  <2>1. Counted(s)
    BY <1>16 DEF IInv
  <2>2. ~ Counting(Tail(t)) /\ (Counting(t) <=> Counts(t[1]))
        /\ (t[1].do = "touch" => ~ Entering(t))
    BY <1>3, <1>4, FlagsTail
  <2>3. trace[s].events \in Nat /\ proc[s].crashes \in Nat
    BY <1>2, MemoryAssumption DEF Typed, Processes
  <2>4. 0 # None
    BY MemoryAssumption
  <2>5. CASE t[1].do = "upsert"
    <3>1. ~ Counting(t) /\ e # None
      BY <1>8, <1>9, <2>2, <2>4, <2>5 DEF Counts
    <3> QED  BY <1>1, <1>5, <1>6, <1>8, <1>9, <1>11, <2>1, <2>2, <2>3, <2>5, <3>1 DEF Counted
  <2>6. CASE t[1].do = "touch"
    <3>1. index[s] # None /\ index[s] \in Nat
      BY <1>3, <1>9, <2>1, <2>2, <2>6 DEF Counted
    <3>2. e = index[s] + t[1].n /\ (Counting(t) <=> t[1].n = 1)
      BY <1>8, <2>2, <2>6, <3>1 DEF Counts
    <3>3. e \in Nat /\ e # None
      BY <1>9, <2>6, <3>1, <3>2, MemoryAssumption
    <3>4. LET c == IF Counting(t) THEN 1 ELSE 0 IN
          index[s] + c <= trace[s].events /\ trace[s].events <= index[s] + c + proc[s].crashes
      BY <2>1, <3>1 DEF Counted
    <3>5. e <= trace[s].events /\ trace[s].events <= e + proc[s].crashes
      BY <1>9, <2>3, <2>6, <3>1, <3>2, <3>4
    <3>6. trace'[s].open = "no" /\ trace'[s].events = trace[s].events
          /\ proc'[s].crashes = proc[s].crashes /\ ~ Counting(proc'[s].todo)
      BY <1>1, <1>5, <1>6, <2>1, <2>2 DEF Counted
    <3> QED  BY <1>11, <2>3, <3>3, <3>5, <3>6 DEF Counted
  <2> QED  BY <1>4, <2>5, <2>6
<1>17. s \in Whole => Told(s)'
  BY <1>1, <1>3, <1>4, <1>5, <1>6, StillTold
<1>18. Elsewhere(s)
  BY <1>1, <1>6, <1>7, <1>11, MemoryAssumption DEF Elsewhere
<1> QED
  BY <1>12, <1>14, <1>15, <1>16, <1>17, <1>18, Others

\* A new process enters a dead session's index and will load it.
LEMMA ResumeStep ==
    ASSUME IInv, NEW s \in Sessions, Resume(s)
    PROVE  IInv'
<1> DEFINE t == Upsert \o <<[do |-> "load"]>>
           x == [proc[s] EXCEPT !.pc = "up", !.todo = t]
<1>1. /\ proc[s].pc = "dead" /\ proc' = [proc EXCEPT ![s] = x]
      /\ UNCHANGED <<items, work, trace, conv, files, index, lock, ops>>
  BY DEF Resume, diskVars
<1>2. Typed /\ Working(s) /\ Kept(s) /\ proc[s] \in Processes /\ proc \in [Sessions -> Processes]
  BY DEF IInv, Typed
<1>3. /\ t \in Seq(Steps) /\ Len(t) = 3 /\ t # <<>>
      /\ t[1] = [do |-> "lock"] /\ t[2] = [do |-> "upsert"] /\ t[3] = [do |-> "load"]
  BY AreSteps DEF Upsert
<1> HIDE DEF t
<1>4. /\ Rest(t) /\ Loading(t) /\ Entering(t) /\ ~ Counting(t)
  <2>1. Rest(t)
    BY <1>3 DEF Rest, Counts
  <2>2. Loading(t)
    BY <1>3 DEF Loading
  <2> QED  BY <1>3, <2>1, <2>2 DEF Entering, Counting, Counts
<1>5. Outstanding(t) = <<>>
  <2>1. \A k \in 1..Len(t) : t[k].do # "record"
    BY <1>3
  <2> QED  BY <1>3, <2>1, OutstandingNone
<1>6. x \in Processes /\ x.pc = "up" /\ x.todo = t /\ x.seen = proc[s].seen /\ x.crashes = proc[s].crashes
  BY <1>2, <1>3 DEF Processes
<1> HIDE DEF x
<1>7. proc' \in [Sessions -> Processes] /\ proc'[s] = x /\ \A u \in Sessions \ {s} : proc'[u] = proc[u]
  BY <1>1, <1>2, <1>6
<1>8. Typed'
  BY <1>1, <1>2, <1>7 DEF Typed
<1>9. Working(s)'
  BY <1>1, <1>2, <1>3, <1>4, <1>6, <1>7 DEF Working
<1>10. Kept(s)'
  BY <1>1, <1>2, <1>4, <1>6, <1>7 DEF Kept
<1>11. proc[s].todo = <<>>
  BY <1>1, <1>2 DEF Working
<1>12. ASSUME s \in Whole PROVE Counted(s)' /\ Told(s)'
  <2>1. Counted(s) /\ Told(s)
    BY <1>12 DEF IInv
  <2>2. ~ Counting(proc[s].todo)
    BY <1>11 DEF Counting
  <2>3. Pairs(conv[s].recs, <<>>)
    BY <1>11, <2>1, PlanNothing DEF Told
  <2> QED  BY <1>1, <1>4, <1>5, <1>6, <1>7, <2>1, <2>2, <2>3, AheadNone DEF Counted, Told
<1>13. Elsewhere(s)
  BY <1>1, <1>7 DEF Elsewhere
<1> QED
  BY <1>8, <1>9, <1>10, <1>12, <1>13, Others

\* A process dies: what it had not written is lost, and the index may be one event
\* behind.
LEMMA CrashStep ==
    ASSUME IInv, NEW s \in Sessions, Crash(s)
    PROVE  IInv'
<1> DEFINE n == proc[s].crashes + 1
           x == [pc |-> "dead", todo |-> <<>>, seen |-> None, crashes |-> n]
<1>1. /\ proc[s].pc = "up" /\ n <= MaxCrashes /\ proc' = [proc EXCEPT ![s] = x]
      /\ lock' = (IF lock = s THEN None ELSE lock)
      /\ items' = [items EXCEPT ![s] = <<>>] /\ work' = [work EXCEPT ![s] = EmptyWork]
      /\ UNCHANGED <<files, index, ops>>
  BY DEF Crash
<1>2. UNCHANGED <<trace, conv>> \/ (s \in Tearing /\ Torn(s) /\ proc[s].todo # <<>>)
  BY DEF Crash
<1>3. /\ Typed /\ Working(s) /\ Kept(s) /\ proc[s] \in Processes /\ proc \in [Sessions -> Processes]
      /\ trace[s] \in [events : Nat, open : {"no", "cut", "bare"}, unread : BOOLEAN]
      /\ trace \in [Sessions -> [events : Nat, open : {"no", "cut", "bare"}, unread : BOOLEAN]]
      /\ conv[s] \in [recs : Seq(Records), open : {"no", "cut", "garbled", "bare"}]
      /\ conv \in [Sessions -> [recs : Seq(Records), open : {"no", "cut", "garbled", "bare"}]]
  BY DEF IInv, Typed
<1>4. x \in Processes /\ x.pc = "dead" /\ x.todo = <<>> /\ x.seen = None /\ x.crashes = n
      /\ proc[s].crashes \in Nat
  <2>1. proc[s].crashes \in 0..MaxCrashes /\ MaxCrashes \in Nat
    BY <1>3, MemoryAssumption DEF Processes
  <2>2. n \in 0..MaxCrashes /\ <<>> \in Seq(Steps)
    BY <1>1, <2>1
  <2> HIDE DEF n
  <2> QED  BY <2>1, <2>2 DEF Processes
<1> HIDE DEF x
<1>5. proc' \in [Sessions -> Processes] /\ proc'[s] = x /\ \A u \in Sessions \ {s} : proc'[u] = proc[u]
  BY <1>1, <1>3, <1>4
<1>6. /\ trace' \in [Sessions -> [events : Nat, open : {"no", "cut", "bare"}, unread : BOOLEAN]]
      /\ conv' \in [Sessions -> [recs : Seq(Records), open : {"no", "cut", "garbled", "bare"}]]
      /\ \A u \in Sessions \ {s} : trace'[u] = trace[u] /\ conv'[u] = conv[u]
  <2>1. CASE UNCHANGED <<trace, conv>>
    BY <1>3, <2>1
  <2>2. CASE Torn(s) /\ proc[s].todo # <<>>
    <3> DEFINE r == Head(proc[s].todo).rec
    <3>1. CASE /\ trace' = [trace EXCEPT ![s].open = "cut", ![s].unread = @ \/ trace[s].open # "no"]
               /\ conv' = conv
      BY <1>3, <3>1
    <3>2. CASE /\ trace' = [trace EXCEPT ![s].open = "bare", ![s].events = @ + 1]
               /\ conv' = conv
      BY <1>3, <3>2
    <3>3. CASE /\ \E o \in {"cut", "garbled"} :
                    conv' = [conv EXCEPT ![s].open = o,
                              ![s].recs = IF conv[s].open = "bare" THEN Front(@) ELSE @]
               /\ trace' = trace
      <4>1. Front(conv[s].recs) \in Seq(Records)
        BY <1>3 DEF Front
      <4>2. PICK o \in {"cut", "garbled"} :
                    conv' = [conv EXCEPT ![s].open = o,
                              ![s].recs = IF conv[s].open = "bare" THEN Front(@) ELSE @]
        BY <3>3
      <4> QED  BY <1>3, <3>3, <4>1, <4>2
    <3>4. CASE /\ conv' = [conv EXCEPT ![s].open = "bare", ![s].recs = Append(@, r)]
               /\ trace' = trace /\ Head(proc[s].todo).do = "record"
      <4>1. proc[s].todo \in Seq(Steps)
        BY <1>3 DEF Processes
      <4>2. Head(proc[s].todo) \in Steps
        BY <2>2, <4>1
      <4>3. r \in Records
        BY <3>4, <4>2, StepFacts
      <4> HIDE DEF r
      <4>4. Append(conv[s].recs, r) \in Seq(Records)
        BY <1>3, <4>3
      <4> QED  BY <1>3, <3>4, <4>4
    <3> QED  BY <2>2, <3>1, <3>2, <3>3, <3>4 DEF Torn
  <2> QED  BY <1>2, <2>1, <2>2
<1>7. EmptyWork \in [ToSet(Parts) -> 0..ops]
      /\ EmptyWork.agent_working_state = 0 /\ EmptyWork.facts = 0
  <2>1. ops \in 0..MaxOps /\ MaxOps \in Nat
    BY <1>3, MemoryAssumption DEF Typed
  <2>2. 0 \in 0..ops
    BY <2>1
  <2> QED  BY <2>2, PartSet DEF EmptyWork
<1>8. Typed'
  <2>1. items' \in [Sessions -> Seq(ItemSet)] /\ work' \in [Sessions -> [ToSet(Parts) -> 0..ops]]
    <3>1. <<>> \in Seq(ItemSet)
      OBVIOUS
    <3> HIDE DEF n
    <3> QED  BY <1>1, <1>3, <1>7, <3>1 DEF Typed
  <2> HIDE DEF n
  <2> QED  BY <1>1, <1>3, <1>5, <1>6, <2>1 DEF Typed
<1>9. Working(s)'
  <2>1. Rest(<<>>)
    BY PlanNothing, PlanBegins
  <2> QED  BY <1>1, <1>4, <1>5, <2>1, MemoryAssumption DEF Working
<1>10. Kept(s)'
  <2>1. work'[s] = EmptyWork
    BY <1>1, <1>3 DEF Typed
  <2>2. proc'[s].pc = "dead"
    BY <1>4, <1>5
  <2> HIDE DEF n
  <2> QED  BY <1>1, <1>3, <1>7, <2>1, <2>2 DEF Kept
<1>11. ASSUME s \in Whole PROVE Counted(s)' /\ Told(s)'
  <2> DEFINE recs == conv[s].recs
             out == Outstanding(proc[s].todo)
  <2>1. Counted(s) /\ Told(s) /\ UNCHANGED <<trace, conv>>
    BY <1>2, <1>11 DEF IInv, Whole
  <2>2. trace[s].events \in Nat /\ (index[s] # None => index[s] \in Nat)
    BY <1>3 DEF Typed, Entries
  <2>3. ~ Counting(proc'[s].todo) /\ proc'[s].crashes = n /\ proc'[s].pc = "dead" /\ proc'[s].todo = <<>>
    BY <1>4, <1>5 DEF Counting
  <2>4. Counted(s)'
    BY <1>1, <1>4, <2>1, <2>2, <2>3 DEF Counted
  <2>5. proc[s].todo \in Seq(Steps) /\ recs \in Seq(Records)
    BY <1>3 DEF Processes
  <2>6. out \in Seq(Records)
    BY <2>5, WrittenType
  <2>7. Pairs(recs, out)
    BY <2>1 DEF Told
  <2>8. Pairs(recs, <<>>)
    <3> HIDE DEF recs, out
    <3>1. 0 \in 0..Len(out) /\ SubSeq(out, 1, 0) = <<>> /\ recs \o <<>> = recs
      BY <2>5, <2>6
    <3>2. Paired(Replay(recs \o SubSeq(out, 1, 0)))
      BY <2>7, <3>1 DEF Pairs
    <3> QED  BY <2>5, <3>1, <3>2, PairsNone
  <2>9. Told(s)'
    BY <2>1, <2>3, <2>8, PlanNothing, AheadNone DEF Told
  <2> QED  BY <2>4, <2>9
<1>12. Elsewhere(s)
  <2> HIDE DEF n
  <2> QED  BY <1>1, <1>3, <1>5, <1>6, MemoryAssumption, SMTT(40) DEF Elsewhere, Typed
<1> QED
  BY <1>8, <1>9, <1>10, <1>11, <1>12, Others

\* A session is read back: the memory is what the files say.
LEMMA LoadStep ==
    ASSUME IInv, NEW s \in Sessions, Load(s)
    PROVE  IInv'
<1> DEFINE t == proc[s].todo
           recs == conv[s].recs
           i == Item("message", ops)
           some == recs = <<>> /\ trace[s].events > 0
           task == IF some THEN <<i>> ELSE <<>>
           u == (IF task = <<>> THEN <<>> ELSE ItemRecord(task[1])) \o Event
           w == [files[s] EXCEPT !.agent_working_state =
                    IF files[s].agent_working_state = 0 THEN files[s].facts
                    ELSE files[s].agent_working_state]
<1>1. /\ Next1(s, "load") /\ work' = [work EXCEPT ![s] = w]
      /\ UNCHANGED <<trace, conv, files, index, lock, ops>>
  BY Zenon DEF Load, diskVars
<1>2. \/ items' = [items EXCEPT ![s] = Replay(recs) \o task] /\ proc' = [proc EXCEPT ![s].todo = u]
      \/ items' = items /\ proc' = [proc EXCEPT ![s].pc = "refused", ![s].todo = <<>>]
  BY Zenon DEF Load
<1>3. /\ Typed /\ Working(s) /\ Kept(s) /\ proc[s] \in Processes /\ proc \in [Sessions -> Processes]
      /\ recs \in Seq(Records) /\ ops \in Nat /\ files[s] \in [ToSet(Parts) -> 0..ops]
      /\ items \in [Sessions -> Seq(ItemSet)] /\ work \in [Sessions -> [ToSet(Parts) -> 0..ops]]
  <2>1. ops \in 0..MaxOps /\ MaxOps \in Nat
    BY MemoryAssumption DEF IInv, Typed
  <2>2. Typed
    BY DEF IInv
  <2>3. conv[s] \in [recs : Seq(Records), open : {"no", "cut", "garbled", "bare"}]
    BY <2>2 DEF Typed
  <2> QED  BY <2>1, <2>2, <2>3 DEF IInv, Typed
<1>4. /\ proc[s].pc = "up" /\ t \in Seq(Steps) /\ t # <<>> /\ Rest(t) /\ t[1].do = "load"
  <2>1. proc[s].pc = "up" /\ t # <<>> /\ Head(t).do = "load"
    BY <1>1 DEF Next1
  <2>2. t \in Seq(Steps) /\ Rest(t)
    BY <1>3 DEF Processes, Working
  <2> QED  BY <2>1, <2>2, RestTail
<1>5. ~ Counting(t) /\ ~ Entering(t) /\ Outstanding(t) = <<>> /\ lock # s /\ proc[s].seen = None
  <2>1. Tail(t) = <<>> /\ ~ Counting(t) /\ ~ Entering(t)
    BY <1>4, FlagsTail DEF Counts
  <2>2. Outstanding(t) = <<>>
    BY <1>4, <2>1, OutstandingTail, PlanNothing
  <2>3. lock # s /\ proc[s].seen = None
    BY <1>3, <1>4 DEF Working
  <2> QED  BY <2>1, <2>2, <2>3
<1>6. i \in ItemSet /\ i.kind = "message" /\ Replay(recs) \in Seq(ItemSet)
  BY <1>3, MadeItems, ReplayIs
<1> HIDE DEF i, some
<1>7. task = (IF some THEN <<i>> ELSE <<>>) /\ task \in Seq(ItemSet)
  BY <1>6
<1>8. u = (IF some THEN ItemRecord(i) ELSE <<>>) \o Event
  OBVIOUS
<1> HIDE DEF u, task
<1>9. u \in Seq(Steps) /\ Plan(u) /\ Outstanding(u) = (IF some THEN <<ItemRec(i)>> ELSE <<>>)
  <2>1. CASE some
    <3>1. u = ItemRecord(i) \o Event
      BY <1>8, <2>1
    <3>2. ItemRecord(i) \in Seq(Steps) /\ Plan(ItemRecord(i))
          /\ Outstanding(ItemRecord(i)) = <<ItemRec(i)>>
      BY <1>6, PlanItem
    <3>3. <<ItemRec(i)>> \o <<>> = <<ItemRec(i)>>
      OBVIOUS
    <3> QED  BY <2>1, <3>1, <3>2, <3>3, PlanEvent, PlanConcat, OutstandingConcat
  <2>2. CASE ~ some
    BY <1>8, <2>2, PlanNothing, PlanEvent, PlanConcat, OutstandingConcat
  <2> QED  BY <2>1, <2>2
<1>10. PICK x \in Processes : /\ proc' = [proc EXCEPT ![s] = x] /\ x.seen = None
                              /\ x.crashes = proc[s].crashes
                              /\ \/ x.pc = "up" /\ x.todo = u
                                    /\ items' = [items EXCEPT ![s] = Replay(recs) \o task]
                                 \/ x.pc = "refused" /\ x.todo = <<>> /\ items' = items
  <2>1. CASE items' = [items EXCEPT ![s] = Replay(recs) \o task] /\ proc' = [proc EXCEPT ![s].todo = u]
    <3> DEFINE x == [proc[s] EXCEPT !.todo = u]
    <3>1. x \in Processes /\ x.seen = None /\ x.crashes = proc[s].crashes /\ x.pc = "up" /\ x.todo = u
      BY <1>3, <1>4, <1>5, <1>9 DEF Processes
    <3>2. proc' = [proc EXCEPT ![s] = x]
      BY <2>1
    <3> HIDE DEF x
    <3> QED  BY <2>1, <3>1, <3>2
  <2>2. CASE items' = items /\ proc' = [proc EXCEPT ![s].pc = "refused", ![s].todo = <<>>]
    <3> DEFINE x == [proc[s] EXCEPT !.pc = "refused", !.todo = <<>>]
    <3>1. x \in Processes /\ x.seen = None /\ x.crashes = proc[s].crashes /\ x.pc = "refused"
          /\ x.todo = <<>>
      <4>1. <<>> \in Seq(Steps)
        OBVIOUS
      <4> QED  BY <1>3, <1>4, <1>5, <4>1 DEF Processes
    <3>2. proc' = [proc EXCEPT ![s] = x]
      BY <2>2
    <3> HIDE DEF x
    <3> QED  BY <2>2, <3>1, <3>2
  <2> QED  BY <1>2, <2>1, <2>2
<1>11. proc' \in [Sessions -> Processes] /\ proc'[s] = x /\ \A v \in Sessions \ {s} : proc'[v] = proc[v]
  BY <1>3, <1>10
<1>12. /\ w \in [ToSet(Parts) -> 0..ops] /\ w.facts = files[s].facts
       /\ w.agent_working_state <= w.facts /\ files[s].facts \in Nat
  <2>1. files[s].facts \in 0..ops /\ files[s].agent_working_state \in 0..ops
        /\ files[s].agent_working_state <= files[s].facts
    BY <1>3, PartSet DEF Kept
  <2>2. w \in [ToSet(Parts) -> 0..ops]
    BY <1>3, <2>1
  <2>3. /\ w.facts = files[s].facts
        /\ w.agent_working_state = IF files[s].agent_working_state = 0 THEN files[s].facts
                                   ELSE files[s].agent_working_state
    BY <1>3, PartSet
  <2> HIDE DEF w
  <2> QED  BY <1>3, <2>1, <2>2, <2>3
<1> HIDE DEF w
<1>13. /\ work' \in [Sessions -> [ToSet(Parts) -> 0..ops]] /\ work'[s] = w
       /\ \A v \in Sessions \ {s} : work'[v] = work[v]
  BY <1>1, <1>3, <1>12
<1>14. items' \in [Sessions -> Seq(ItemSet)] /\ \A v \in Sessions \ {s} : items'[v] = items[v]
  <2>1. Replay(recs) \o task \in Seq(ItemSet)
    BY <1>6, <1>7
  <2> QED  BY <1>3, <1>10, <2>1
<1>15. Typed'
  BY <1>1, <1>3, <1>11, <1>13, <1>14 DEF Typed
<1>16. Rest(u) /\ ~ Counting(u) /\ ~ Loading(u) /\ (u # <<>> => u[1].do \notin {"touch", "upsert"})
       /\ Rest(<<>>) /\ ~ Counting(<<>>)
  BY <1>9, PlanBegins, PlanNothing
<1>17. Working(s)'
  BY <1>1, <1>5, <1>10, <1>11, <1>16 DEF Working
<1>18. Kept(s)'
  <2>1. x.pc = "up" => x.todo = u
    BY <1>10
  <2>2. files'[s].agent_working_state <= files'[s].facts
    BY <1>1, <1>3 DEF Kept
  <2>3. x.pc # "new"
    BY <1>10
  <2> QED  BY <1>1, <1>9, <1>11, <1>12, <1>13, <2>1, <2>2, <2>3 DEF Kept, Plan
<1>19. ASSUME s \in Whole PROVE Counted(s)'
  <2>1. Counted(s)
    BY <1>19 DEF IInv
  <2>2. index[s] # None /\ ~ Counting(x.todo)
    BY <1>4, <1>5, <1>10, <1>16, <2>1 DEF Counted
  <2> QED  BY <1>1, <1>5, <1>10, <1>11, <2>1, <2>2 DEF Counted
<1>20. ASSUME s \in Whole PROVE Told(s)'
  <2>1. Told(s) /\ conv[s].open = "no" /\ Pairs(recs, <<>>)
    BY <1>5, <1>20 DEF IInv, Told
  <2>2. recs \o <<>> = recs /\ <<>> \in Seq(Records) /\ Paired(Replay(recs))
    BY <1>3, <2>1, PairsNone
  <2>3. CASE x.pc = "refused" /\ x.todo = <<>>
    BY <1>1, <1>11, <2>1, <2>3, PlanNothing, AheadNone DEF Told
  <2>4. CASE x.pc = "up" /\ x.todo = u /\ items' = [items EXCEPT ![s] = Replay(recs) \o task]
    <3>1. items'[s] = Replay(recs) \o task
      BY <1>3, <2>4
    <3>2. /\ Pairs(recs, Outstanding(u)) /\ Ahead(recs, Outstanding(u))
          /\ Replay(recs \o Outstanding(u)) = Replay(recs) \o task
      <4>1. CASE some
        <5>1. Pairs(recs, Append(<<>>, ItemRec(i)))
              /\ Replay(recs \o Append(<<>>, ItemRec(i))) = Replay(recs \o <<>>) \o <<i>>
          <6> HIDE DEF recs
          <6> QED  BY <1>3, <1>6, <2>1, <2>2, ItemTold
        <5>2. Append(<<>>, ItemRec(i)) = <<ItemRec(i)>>
          OBVIOUS
        <5>3. Ahead(recs, Append(<<>>, ItemRec(i)))
          BY <1>6, <2>2, AheadNone, SingleAppend DEF Ahead
        <5> HIDE DEF recs
        <5> QED  BY <1>7, <1>9, <2>2, <4>1, <5>1, <5>2, <5>3
      <4>2. CASE ~ some
        <5>1. Replay(recs) \o <<>> = Replay(recs)
          BY <1>6
        <5> HIDE DEF recs
        <5> QED  BY <1>7, <1>9, <2>1, <2>2, <4>2, <5>1, AheadNone
      <4> QED  BY <4>1, <4>2
    <3> QED  BY <1>1, <1>11, <2>1, <2>4, <3>1, <3>2 DEF Told
  <2> QED  BY <1>10, <2>3, <2>4
<1>21. Elsewhere(s)
  BY <1>1, <1>11, <1>13, <1>14 DEF Elsewhere
<1> QED
  BY <1>15, <1>17, <1>18, <1>19, <1>20, <1>21, Others

\* Every action of every session keeps the invariant.
LEMMA NextIInv == IInv /\ [Next]_vars => IInv'
<1> SUFFICES ASSUME IInv, [Next]_vars PROVE IInv'
  OBVIOUS
<1>1. CASE UNCHANGED vars
  BY <1>1, UnchangedStep
<1>2. ASSUME NEW s \in Sessions, Operation(s) PROVE IInv'
  <2>1. CASE Start(s)
    BY <2>1, StartStep
  <2>2. CASE UserTurn(s)
    BY <2>2, UserTurnStep
  <2>3. CASE SaveFact(s)
    BY <2>3, SaveFactStep
  <2>4. CASE Respond(s)
    BY <2>4, RespondStep
  <2>5. CASE \E saves \in BOOLEAN : Act(s, saves)
    BY <2>5, ActStep
  <2>6. CASE \E msgs \in 1..MaxOps : Compact(s, msgs)
    <3>1. PICK msgs \in 1..MaxOps : Compact(s, msgs)
      BY <2>6
    <3>2. msgs \in Nat
      OBVIOUS
    <3> QED  BY <3>1, <3>2, CompactStep
  <2> QED  BY <1>2, <2>1, <2>2, <2>3, <2>4, <2>5, <2>6 DEF Operation
<1>3. ASSUME NEW s \in Sessions, StoreStep(s) PROVE IInv'
  BY <1>3, WriteEventStep, WriteRecordStep, WriteFileStep, ReadIndexStep, WriteIndexStep, LoadStep
     DEF StoreStep
<1>4. ASSUME NEW s \in Sessions, Resume(s) PROVE IInv'
  BY <1>4, ResumeStep
<1>5. ASSUME NEW s \in Sessions, Crash(s) PROVE IInv'
  BY <1>5, CrashStep
<1> QED
  BY <1>1, <1>2, <1>3, <1>4, <1>5 DEF Next

\* However the writes of any number of sessions interleave and wherever processes
\* die, plans, files, counts and records stay in step.
THEOREM Inductive == Spec => []IInv
  BY InitIInv, NextIInv, PTL DEF Spec

\* The memory of the processes and their files (AgentMemory, JsonMemoryStore) keep
\* their types, and a process has read the index exactly while it holds the lock.
THEOREM TypeCorrect == Spec => []TypeOK
<1>1. IInv => TypeOK
  <2> SUFFICES ASSUME IInv PROVE TypeOK
    OBVIOUS
  <2>1. Typed /\ ops \in 0..MaxOps /\ MaxOps \in Nat /\ 0..ops \subseteq 0..MaxOps
    BY MemoryAssumption DEF IInv, Typed
  <2>2. ASSUME NEW s \in Sessions
        PROVE  /\ proc[s].pc \in {"new", "up", "dead", "refused"}
               /\ proc[s].crashes \in 0..MaxCrashes
               /\ items[s] \in Seq(ItemSet)
               /\ \A r \in ToSet(conv[s].recs) : r.type \in {"item", "checkpoint"} /\ r.items \in Seq(ItemSet)
               /\ conv[s].open \in {"no", "cut", "garbled", "bare"}
               /\ trace[s] \in [events : Nat, open : {"no", "cut", "bare"}, unread : BOOLEAN]
               /\ index[s] \in Nat \cup {None}
               /\ lock = s <=> proc[s].seen # None
    <3>1. proc[s] \in Processes /\ conv[s] \in [recs : Seq(Records), open : {"no", "cut", "garbled", "bare"}]
          /\ items[s] \in Seq(ItemSet) /\ index[s] \in Nat \cup {None} /\ index \in Entries
          /\ trace[s] \in [events : Nat, open : {"no", "cut", "bare"}, unread : BOOLEAN]
      BY <2>1 DEF Typed, Entries
    <3>2. lock = s <=> proc[s].seen # None
      BY <3>1, MemoryAssumption DEF IInv, Working, Entries
    <3>3. \A r \in ToSet(conv[s].recs) : r \in Records
      BY <3>1 DEF ToSet
    <3> QED  BY <3>1, <3>2, <3>3 DEF Processes, Records
  <2>3. work \in [Sessions -> [ToSet(Parts) -> 0..MaxOps]]
    BY <2>1 DEF Typed
  <2>4. files \in [Sessions -> [ToSet(Parts) -> 0..MaxOps]]
    BY <2>1 DEF Typed
  <2> QED  BY <2>1, <2>2, <2>3, <2>4 DEF Typed, TypeOK
<1> QED
  BY <1>1, Inductive, PTL

\* Between operations the records on disk replay to the conversation in memory
\* (ConversationHistory.replay, append_conversation_record), in every session whose lines
\* are written whole, through any number of compactions, crashes and resumptions.
THEOREM ReplayCorrect == Spec => []ReplayMatches
<1>1. IInv => ReplayMatches
  BY Recorded DEF ReplayMatches, Ready
<1> QED
  BY <1>1, Inductive, PTL

\* Wherever a process dies between the writes of an operation, no result is on disk
\* without its action, and no working state without the facts that it rests on.
THEOREM AloneCorrect == Spec => []NothingStandsAlone
<1>1. IInv => NothingStandsAlone
  <2> SUFFICES ASSUME IInv PROVE NothingStandsAlone
    OBVIOUS
  <2>1. ASSUME NEW s \in Whole PROVE Paired(Replay(conv[s].recs)) /\ Replay(conv[s].recs) \in Seq(ItemSet)
    <3> DEFINE recs == conv[s].recs
               out == Outstanding(proc[s].todo)
    <3>1. Typed /\ Told(s) /\ s \in Sessions
      BY DEF IInv, Whole
    <3>2. recs \in Seq(Records) /\ out \in Seq(Records) /\ Pairs(recs, out)
      <4>1. proc[s] \in Processes /\ conv[s] \in [recs : Seq(Records), open : {"no", "cut", "garbled", "bare"}]
        BY <3>1 DEF Typed
      <4>2. proc[s].todo \in Seq(Steps) /\ recs \in Seq(Records)
        BY <4>1 DEF Processes
      <4> QED  BY <3>1, <4>2, WrittenType DEF Told
    <3> HIDE DEF recs, out
    <3>3. 0 \in 0..Len(out) /\ SubSeq(out, 1, 0) = <<>> /\ recs \o <<>> = recs
      BY <3>2
    <3>4. Paired(Replay(recs \o SubSeq(out, 1, 0)))
      BY <3>2, <3>3 DEF Pairs
    <3> QED  BY <3>2, <3>3, <3>4, ReplayIs DEF recs
  <2>2. ASSUME NEW s \in Whole
        PROVE  LET its == Replay(conv[s].recs) IN
               \A j \in DOMAIN its : its[j].kind = "result" =>
                   \E i \in 1..(j - 1) : its[i].kind = "action" /\ its[i].id = its[j].id
    <3> DEFINE its == Replay(conv[s].recs)
    <3>1. Paired(its) /\ DOMAIN its = 1..Len(its)
      BY <2>1
    <3> HIDE DEF its
    <3>2. \A j \in DOMAIN its : its[j].kind = "result" =>
             \E i \in 1..(j - 1) : its[i].kind = "action" /\ its[i].id = its[j].id
      BY <3>1 DEF Paired
    <3> QED  BY <3>2 DEF its
  <2>3. \A s \in Sessions : files[s].agent_working_state <= files[s].facts
    BY DEF IInv, Kept
  <2> QED  BY <2>2, <2>3 DEF NothingStandsAlone
<1> QED
  BY <1>1, Inductive, PTL

\* The count of events in the shared index is never ahead of the trace, and behind it
\* by no more than the crashes of the session and the event being counted
\* (_touch_index_entry reads and writes the index under its lock).
THEOREM IndexCorrect == Spec => []IndexBehindByCrashes
<1>1. IInv => IndexBehindByCrashes
  <2> SUFFICES ASSUME IInv, NEW s \in Whole, index[s] # None
               PROVE  /\ index[s] <= trace[s].events
                      /\ trace[s].events <= index[s] + proc[s].crashes + (IF Ready(s) THEN 0 ELSE 1)
    BY DEF IndexBehindByCrashes
  <2>1. Typed /\ Counted(s) /\ Working(s) /\ s \in Sessions
    BY DEF IInv, Whole
  <2>2. index[s] \in Nat /\ trace[s].events \in Nat /\ proc[s].crashes \in Nat
    <3>1. proc[s] \in Processes /\ index[s] \in Nat \cup {None}
          /\ trace[s] \in [events : Nat, open : {"no", "cut", "bare"}, unread : BOOLEAN]
      BY <2>1 DEF Typed, Entries
    <3> QED  BY <3>1, MemoryAssumption DEF Processes
  <2>3. Ready(s) => ~ Counting(proc[s].todo)
    BY DEF Ready, Counting
  <2> QED  BY <2>1, <2>2, <2>3 DEF Counted
<1> QED
  BY <1>1, Inductive, PTL

-----------------------------------------------------------------------------
(* The conversations are logs. *)

\* An item that is written is the next one of what is in memory.
LEMMA Longer ==
    ASSUME NEW recs \in Seq(Records), NEW out \in Seq(Records), Single(out)
    PROVE  \E c \in Seq(ItemSet) : Replay(recs \o out) = Replay(recs) \o c
<1> DEFINE U(n) == SubSeq(out, 1, n)
           Continues(n) == \E c \in Seq(ItemSet) : Replay(recs \o U(n)) = Replay(recs) \o c
           S == {n \in Nat : n <= Len(out) => Continues(n)}
<1>1. 0 \in S
  <2>1. recs \o U(0) = recs
    OBVIOUS
  <2>2. <<>> \in Seq(ItemSet) /\ Replay(recs) \o <<>> = Replay(recs)
    BY ReplayIs
  <2> QED  BY <2>1, <2>2
<1>2. ASSUME NEW n \in Nat, n \in S PROVE n + 1 \in S
  <2> HIDE DEF U, Continues
  <2> SUFFICES ASSUME n + 1 <= Len(out) PROVE Continues(n + 1)
    OBVIOUS
  <2> DEFINE r == out[n + 1]
  <2>1. PICK c \in Seq(ItemSet) : Replay(recs \o U(n)) = Replay(recs) \o c
    <3>1. Continues(n)
      BY <1>2
    <3> QED  BY <3>1 DEF Continues
  <2>2. U(n) \in Seq(Records) /\ r \in Records /\ U(n + 1) = Append(U(n), r)
    BY DEF U
  <2>3. r.type = "item" /\ r.items \in Seq(ItemSet)
    BY <2>2 DEF Single, Records
  <2> HIDE DEF S, r
  <2>4. recs \o Append(U(n), r) = Append(recs \o U(n), r) /\ recs \o U(n) \in Seq(Records)
    BY <2>2, AppendConcat
  <2>5. Replay(Append(recs \o U(n), r)) = Replay(recs \o U(n)) \o r.items
    BY <2>2, <2>3, <2>4, ReplayAppend
  <2>6. (Replay(recs) \o c) \o r.items = Replay(recs) \o (c \o r.items) /\ c \o r.items \in Seq(ItemSet)
    <3>1. \A p, q, x \in Seq(ItemSet) : (p \o q) \o x = p \o (q \o x)
      BY SMTT(40)
    <3>2. Replay(recs) \in Seq(ItemSet)
      BY ReplayIs
    <3>3. c \o r.items \in Seq(ItemSet)
      BY <2>3
    <3> QED  BY <2>3, <3>1, <3>2, <3>3, Zenon
  <2> QED  BY <2>1, <2>2, <2>4, <2>5, <2>6 DEF Continues
<1> HIDE DEF S
<1>3. Nat \subseteq S
  BY <1>1, <1>2, Induction
<1>4. Len(out) \in S /\ U(Len(out)) = out /\ Len(out) <= Len(out)
  BY <1>3
<1> HIDE DEF U
<1> QED
  BY <1>4 DEF S

\* A sequence is a prefix of what continues it.
LEMMA PrefixConcat ==
    ASSUME NEW X, NEW a \in Seq(X), NEW b \in Seq(X)
    PROVE  Log!IsPrefix(a, a \o b) /\ (Len(b) > 0 => Log!IsStrictPrefix(a, a \o b))
<1> DEFINE c == a \o b
<1>1. c \in Seq(X) /\ Len(c) = Len(a) + Len(b) /\ Len(a) \in Nat /\ Len(b) \in Nat
      /\ SubSeq(c, 1, Len(a)) = SubSeq(a, 1, Len(a))
  OBVIOUS
<1> HIDE DEF c
<1>2. Log!IsPrefix(a, c)
  BY <1>1 DEF Log!IsPrefix
<1>3. Len(b) > 0 => a # c
  BY <1>1
<1> QED
  BY <1>2, <1>3 DEF Log!IsStrictPrefix, c

\* Steps of which one neither loads nor enters the session.
Busy(t) == \E k \in 1..Len(t) : t[k].do \notin {"lock", "upsert", "load"}

\* Nothing but an entry in the index comes before a load.
LEMMA NotLoading ==
    ASSUME NEW t \in Seq(Steps), Rest(t), Busy(t)
    PROVE  ~ Loading(t)
<1> SUFFICES ASSUME NEW j \in 1..Len(t), t[j].do = "load" PROVE FALSE
  BY DEF Loading
<1>1. j = Len(t) /\ \A i \in 1..(j - 1) : t[i].do \in {"lock", "upsert"}
  BY DEF Rest
<1>2. PICK k \in 1..Len(t) : t[k].do \notin {"lock", "upsert", "load"}
  BY DEF Busy
<1>3. k \in 1..(j - 1)
  BY <1>1, <1>2
<1> QED
  BY <1>1, <1>2, <1>3

\* A plan is busy if a part of it is, and every operation writes an event.
LEMMA BusyConcat ==
    ASSUME NEW x \in Seq(Steps), NEW y \in Seq(Steps), Busy(x) \/ Busy(y)
    PROVE  Busy(x \o y) /\ x \o y \in Seq(Steps)
<1> DEFINE z == x \o y
<1>1. z \in Seq(Steps) /\ Len(z) = Len(x) + Len(y) /\ Len(x) \in Nat /\ Len(y) \in Nat
      /\ (\A k \in 1..Len(x) : z[k] = x[k]) /\ (\A k \in 1..Len(y) : z[Len(x) + k] = y[k])
  OBVIOUS
<1> HIDE DEF z
<1>2. CASE Busy(x)
  <2>1. PICK k \in 1..Len(x) : x[k].do \notin {"lock", "upsert", "load"}
    BY <1>2 DEF Busy
  <2>2. k \in 1..Len(z) /\ z[k] = x[k]
    BY <1>1
  <2> QED  BY <1>1, <2>1, <2>2 DEF Busy, z
<1>3. CASE Busy(y)
  <2>1. PICK k \in 1..Len(y) : y[k].do \notin {"lock", "upsert", "load"}
    BY <1>3 DEF Busy
  <2>2. Len(x) + k \in 1..Len(z) /\ z[Len(x) + k] = y[k]
    BY <1>1
  <2> QED  BY <1>1, <2>1, <2>2 DEF Busy, z
<1> QED
  BY <1>2, <1>3

\* A part that every operation has.
LEMMA BusyEvent == Busy(Event)
<1>1. Event \in Seq(Steps) /\ Len(Event) = 3 /\ Event[1] = [do |-> "event"]
  BY AreSteps DEF Event, Touch
<1> QED
  BY <1>1 DEF Busy

\* Loading, as Alive says it.
LEMMA LoadingIs ==
    ASSUME NEW t \in Seq(Steps)
    PROVE  ~ Loading(t) <=> \A k \in DOMAIN t : t[k].do # "load"
<1>1. DOMAIN t = 1..Len(t)
  OBVIOUS
<1> QED
  BY <1>1 DEF Loading

\* A step that other sessions do not see.
Apart(s) == \A u \in Whole \ {s} : items'[u] = items[u] /\ conv'[u] = conv[u] /\ proc'[u] = proc[u]

\* What an action of s does to its own log is an action of the logs.
LEMMA LogMoves ==
    ASSUME NEW s \in Whole, Apart(s)
    PROVE  /\ (/\ ~ Alive(s) /\ Alive(s)' /\ conv'[s] = conv[s]
               /\ Log!IsPrefix(Replay(conv[s].recs), items'[s])) => Log!Open(s)
           /\ (/\ Alive(s) /\ Alive(s)' /\ conv'[s] = conv[s] /\ items[s] = Replay(conv[s].recs)
               /\ Log!IsPrefix(items[s], items'[s])) => Log!Extend(s)
           /\ (/\ Alive(s) /\ Alive(s)' /\ conv'[s] = conv[s] /\ items[s] = Replay(conv[s].recs)
               /\ items'[s] \in Log!Compactions(items[s])) => Log!Compact(s)
           /\ (~ Alive(s)' /\ conv'[s] = conv[s]) => Log!Die(s)
           /\ (items'[s] = items[s] /\ conv'[s] = conv[s] /\ (Alive(s)' <=> Alive(s)))
                 => UNCHANGED Log!vars
<1> DEFINE M == [u \in Whole |-> items[u]]
           D == [u \in Whole |-> Replay(conv[u].recs)]
           A == [u \in Whole |-> Alive(u)]
<1>1. ASSUME NEW u \in Whole, u # s PROVE Alive(u)' = Alive(u)
  <2>1. proc'[u] = proc[u]
    BY <1>1 DEF Apart
  <2> QED  BY <2>1, Zenon DEF Alive
<1> HIDE DEF M, D
<1>14. Alive(s)' \in BOOLEAN /\ \A u \in Whole : Alive(u) \in BOOLEAN
  BY DEF Alive
<1>15. A' = [u \in Whole |-> Alive(u)'] /\ A = [u \in Whole |-> Alive(u)]
  OBVIOUS
<1> USE DEF M, D
<1>2. M' = [M EXCEPT ![s] = M'[s]] /\ M[s] = items[s] /\ M'[s] = items'[s]
  BY DEF Apart
<1>3. conv'[s] = conv[s] => D' = D
  BY DEF Apart
<1>4. Alive(s)' => A' = [A EXCEPT ![s] = TRUE]
  BY <1>1, <1>14, <1>15, Zenon
<1>5. ~ Alive(s)' => A' = [A EXCEPT ![s] = FALSE]
  BY <1>1, <1>14, <1>15, Zenon
<1>6. (Alive(s)' <=> Alive(s)) => A' = A
  BY <1>1, <1>14, <1>15, Zenon
<1>7. (A[s] <=> Alive(s)) /\ D[s] = Replay(conv[s].recs)
  OBVIOUS
<1>8. items'[s] = items[s] => M' = M
  BY DEF Apart
<1>9. (/\ ~ Alive(s) /\ Alive(s)' /\ conv'[s] = conv[s]
       /\ Log!IsPrefix(Replay(conv[s].recs), items'[s])) => Log!Open(s)
  BY <1>2, <1>3, <1>4, <1>7, Zenon DEF Log!Open, Log!Remembers
<1>10. (/\ Alive(s) /\ Alive(s)' /\ conv'[s] = conv[s] /\ items[s] = Replay(conv[s].recs)
        /\ Log!IsPrefix(items[s], items'[s])) => Log!Extend(s)
  BY <1>2, <1>3, <1>6, <1>7, Zenon DEF Log!Extend, Log!Remembers
<1>11. (/\ Alive(s) /\ Alive(s)' /\ conv'[s] = conv[s] /\ items[s] = Replay(conv[s].recs)
        /\ items'[s] \in Log!Compactions(items[s])) => Log!Compact(s)
  BY <1>2, <1>3, <1>6, <1>7, Zenon DEF Log!Compact, Log!Remembers
<1>12. (~ Alive(s)' /\ conv'[s] = conv[s]) => Log!Die(s)
  BY <1>2, <1>3, <1>5, Zenon DEF Log!Die, Log!Remembers
<1>13. (items'[s] = items[s] /\ conv'[s] = conv[s] /\ (Alive(s)' <=> Alive(s)))
          => UNCHANGED Log!vars
  BY <1>3, <1>6, <1>8, Zenon DEF Log!vars
<1> QED
  BY <1>9, <1>10, <1>11, <1>12, <1>13

\* A record that is written reaches the log's disk.
LEMMA LogWrites ==
    ASSUME NEW s \in Whole, Apart(s), Alive(s), Alive(s)', items'[s] = items[s],
           \/ /\ Log!IsStrictPrefix(Replay(conv[s].recs), items[s])
              /\ Replay(conv'[s].recs) = SubSeq(items[s], 1, Len(Replay(conv[s].recs)) + 1)
           \/ /\ items[s] \in Log!Compactions(Replay(conv[s].recs))
              /\ Replay(conv'[s].recs) = items[s]
    PROVE  Log!Write(s)
<1> DEFINE M == [u \in Whole |-> items[u]]
           D == [u \in Whole |-> Replay(conv[u].recs)]
           A == [u \in Whole |-> Alive(u)]
<1>1. ASSUME NEW u \in Whole, u # s PROVE Alive(u)' = Alive(u)
  BY DEF Apart, Alive
<1>5. Alive(s)' = Alive(s)
  BY DEF Alive
<1>2. M' = M /\ M[s] = items[s]
  BY DEF Apart
<1>3. A' = A /\ A[s]
  BY <1>1, <1>5, Zenon
<1>4. D[s] = Replay(conv[s].recs) /\ D' = [D EXCEPT ![s] = Replay(conv'[s].recs)]
  BY DEF Apart
<1> QED
  BY <1>2, <1>3, <1>4, Zenon DEF Log!Write

\* Every action leaves the other sessions alone.
LEMMA Separate ==
    ASSUME IInv, NEW s \in Sessions, Operation(s) \/ StoreStep(s) \/ Resume(s) \/ Crash(s)
    PROVE  Apart(s)
<1>1. /\ proc \in [Sessions -> Processes] /\ items \in [Sessions -> Seq(ItemSet)] /\ Whole \subseteq Sessions
      /\ conv \in [Sessions -> [recs : Seq(Records), open : {"no", "cut", "garbled", "bare"}]]
  BY DEF IInv, Typed, Whole
<1> DEFINE P == \E x : proc' = [proc EXCEPT ![s] = x]
           I == \E x : items' = [items EXCEPT ![s] = x]
           C == \E x : conv' = [conv EXCEPT ![s] = x]
<1>2. (P /\ (I \/ items' = items) /\ (C \/ conv' = conv)) => Apart(s)
  BY <1>1 DEF Apart
<1> HIDE DEF P, I, C
<1>3. ASSUME NEW t, Begin(s, t) PROVE P /\ conv' = conv
  BY <1>3 DEF Begin, diskVars, P
<1>4. CASE Start(s)
  <2>1. P
    BY <1>4 DEF Start, P
  <2>2. I /\ conv' = conv
    BY <1>4 DEF Start, I, diskVars
  <2> QED  BY <1>2, <2>1, <2>2
<1>5. CASE UserTurn(s)
  BY <1>2, <1>3, <1>5 DEF UserTurn, I
<1>6. CASE SaveFact(s)
  BY <1>2, <1>3, <1>6 DEF SaveFact
<1>7. ASSUME NEW saves, NEW made, AddAction(s, saves, made) PROVE Apart(s)
  BY <1>2, <1>3, <1>7 DEF AddAction, I
<1>8. ASSUME NEW msgs, Compact(s, msgs) PROVE Apart(s)
  BY <1>2, <1>3, <1>8 DEF Compact, I
<1>9. CASE Operation(s)
  BY <1>4, <1>5, <1>6, <1>7, <1>8, <1>9 DEF Operation, Respond, Act
<1>10. CASE WriteEvent(s)
  BY <1>2, <1>10 DEF WriteEvent, Done1, P
<1>11. CASE WriteRecord(s)
  BY <1>2, <1>11 DEF WriteRecord, Done1, P, C
<1>12. CASE WriteFile(s)
  BY <1>2, <1>12 DEF WriteFile, Done1, P
<1>13. CASE ReadIndex(s)
  BY <1>2, <1>13 DEF ReadIndex, P, diskVars
<1>14. CASE WriteIndex(s)
  BY <1>2, <1>14 DEF WriteIndex, P
<1>15. CASE Load(s)
  <2>1. P
    BY <1>15 DEF Load, P
  <2>2. (I \/ items' = items) /\ conv' = conv
    BY <1>15 DEF Load, I, diskVars
  <2> QED  BY <1>2, <2>1, <2>2
<1>16. CASE Resume(s)
  BY <1>2, <1>16 DEF Resume, P, diskVars
<1>17. CASE Crash(s)
  <2>1. P
    BY <1>17 DEF Crash, P
  <2>2. I
    BY <1>17 DEF Crash, I
  <2>3. C \/ conv' = conv
    BY <1>17 DEF Crash, Torn, C
  <2> QED  BY <1>2, <2>1, <2>2, <2>3
<1> QED
  BY <1>9, <1>10, <1>11, <1>12, <1>13, <1>14, <1>15, <1>16, <1>17 DEF StoreStep

\* Which sessions are alive, by what their processes are to do.
LEMMA AliveIs ==
    ASSUME IInv, NEW s \in Sessions
    PROVE  Alive(s) <=> proc[s].pc = "up" /\ ~ Loading(proc[s].todo)
<1>1. proc[s].todo \in Seq(Steps)
  BY DEF IInv, Typed, Processes
<1> QED
  BY <1>1, LoadingIs DEF Alive

\* The same after a step.
LEMMA AliveNext ==
    ASSUME IInv', NEW s \in Sessions
    PROVE  /\ Alive(s)' <=> proc'[s].pc = "up" /\ ~ Loading(proc'[s].todo)
           /\ proc'[s].pc = "up" /\ Busy(proc'[s].todo) => Alive(s)'
<1>1. proc'[s].todo \in Seq(Steps) /\ Rest(proc'[s].todo)
  BY DEF IInv, Typed, Processes, Working
<1>2. Alive(s)' <=> proc'[s].pc = "up" /\ ~ Loading(proc'[s].todo)
  BY <1>1, LoadingIs DEF Alive
<1> QED
  BY <1>1, <1>2, NotLoading

\* An operation begins with its session's log on disk.
LEMMA LogReady ==
    ASSUME IInv, IInv', NEW s \in Whole, NEW t, CanBegin(s), Begin(s, t), Busy(t)
    PROVE  /\ Alive(s) /\ Alive(s)' /\ conv'[s] = conv[s]
           /\ items[s] = Replay(conv[s].recs) /\ items[s] \in Seq(ItemSet)
<1>1. /\ s \in Sessions /\ proc[s].pc = "up" /\ proc[s].todo = <<>> /\ proc[s] \in Processes
      /\ proc \in [Sessions -> Processes] /\ items[s] \in Seq(ItemSet)
  BY DEF Whole, CanBegin, Ready, IInv, Typed
<1>2. Replay(conv[s].recs) = items[s]
  BY <1>1, Recorded
<1>3. Alive(s)
  BY <1>1, AliveIs DEF Loading
<1>4. proc'[s].pc = "up" /\ proc'[s].todo = t
  BY <1>1 DEF Begin, Processes
<1> QED
  BY <1>1, <1>2, <1>3, <1>4, AliveNext DEF Begin, diskVars

\* Operations extend the log of their session, or compact it.
LEMMA LogOperates ==
    ASSUME IInv, IInv', NEW s \in Whole, Operation(s)
    PROVE  [Log!Next]_Log!vars
<1> DEFINE L == Log!Open(s) \/ Log!Extend(s) \/ Log!Compact(s)
<1>1. L => Log!Next
  BY DEF Log!Next
<1>2. s \in Sessions /\ Apart(s) /\ items \in [Sessions -> Seq(ItemSet)] /\ items'[s] \in Seq(ItemSet)
      /\ proc[s] \in Processes /\ proc \in [Sessions -> Processes] /\ ops + 1 \in Nat
  <2>1. s \in Sessions
    BY DEF Whole
  <2>2. ops \in 0..MaxOps /\ MaxOps \in Nat
    BY MemoryAssumption DEF IInv, Typed
  <2>3. /\ items \in [Sessions -> Seq(ItemSet)] /\ items' \in [Sessions -> Seq(ItemSet)]
        /\ proc \in [Sessions -> Processes]
    BY DEF IInv, Typed
  <2>4. Apart(s)
    BY <2>1, Separate
  <2> QED  BY <2>1, <2>2, <2>3, <2>4
<1>3. ASSUME NEW t, CanBegin(s), Begin(s, t), Busy(t),
             NEW c \in Seq(ItemSet), items'[s] = items[s] \o c
      PROVE  L
  <2>1. /\ Alive(s) /\ Alive(s)' /\ conv'[s] = conv[s]
        /\ items[s] = Replay(conv[s].recs) /\ items[s] \in Seq(ItemSet)
    BY <1>3, LogReady
  <2>2. Log!IsPrefix(items[s], items[s] \o c)
    BY <2>1, PrefixConcat
  <2>3. Log!IsPrefix(items[s], items'[s])
    BY <1>3, <2>2
  <2> QED  BY <1>2, <2>1, <2>3, LogMoves
<1> HIDE DEF L
<1>4. CASE Start(s)
  <2> DEFINE i == Item("message", Id)
             x == Upsert \o Save(Parts) \o Event \o ItemRecord(i)
             t == x \o Event
  <2>1. proc[s].pc = "new" /\ proc' = [proc EXCEPT ![s].pc = "up", ![s].todo = t] /\ conv' = conv
    BY <1>4, Zenon DEF Start, diskVars
  <2>2. x \in Seq(Steps)
    <3>1. i \in ItemSet
      BY <1>2, MadeItems DEF Id
    <3>2. Upsert \in Seq(Steps) /\ Save(Parts) \in Seq(Steps) /\ Event \in Seq(Steps)
          /\ ItemRecord(i) \in Seq(Steps)
      BY <3>1, PlanUpsert, PlanSave, PlanEvent, PlanItem
    <3> HIDE DEF i
    <3> QED  BY <3>2
  <2> HIDE DEF x
  <2>3. Busy(t)
    BY <2>2, PlanEvent, BusyEvent, BusyConcat
  <2> HIDE DEF t
  <2>4. Alive(s)' /\ ~ Alive(s)
    <3>1. proc'[s].pc = "up" /\ proc'[s].todo = t
      BY <1>2, <2>1 DEF Processes
    <3>2. ~ Alive(s)
      BY <2>1 DEF Alive
    <3> QED  BY <1>2, <2>3, <3>1, <3>2, AliveNext
  <2>5. Replay(conv[s].recs) = <<>>
    <3>1. proc[s].todo = <<>>
      BY <1>2, <2>1 DEF IInv, Working
    <3> QED  BY <2>1, <3>1, Recorded, ReplayEmpty
  <2>6. Log!IsPrefix(<<>>, items'[s])
    <3>1. <<>> \in Seq(ItemSet) /\ <<>> \o items'[s] = items'[s]
      BY <1>2
    <3>2. Log!IsPrefix(<<>>, <<>> \o items'[s])
      BY <1>2, <3>1, PrefixConcat
    <3> QED  BY <3>1, <3>2
  <2> QED  BY <1>1, <1>2, <2>1, <2>4, <2>5, <2>6, LogMoves DEF L
<1>5. CASE UserTurn(s)
  <2> DEFINE i == Item("message", Id)
             t == ItemRecord(i) \o Event
  <2>1. items' = [items EXCEPT ![s] = Append(items[s], i)] /\ CanBegin(s) /\ Begin(s, t)
    BY <1>5 DEF UserTurn
  <2>2. i \in ItemSet
    BY <1>2, MadeItems DEF Id
  <2> HIDE DEF i
  <2>3. Busy(t)
    BY <2>2, PlanItem, PlanEvent, BusyEvent, BusyConcat
  <2>4. <<i>> \in Seq(ItemSet) /\ items'[s] = items[s] \o <<i>>
    BY <1>2, <2>1, <2>2
  <2> HIDE DEF t
  <2> QED  BY <1>1, <1>3, <2>1, <2>3, <2>4
<1>6. CASE SaveFact(s)
  <2> DEFINE t == Event \o Save(Parts)
  <2>1. items' = items /\ CanBegin(s) /\ Begin(s, t)
    BY <1>6 DEF SaveFact
  <2>2. Busy(t)
    BY PlanSave, PlanEvent, BusyEvent, BusyConcat
  <2>3. <<>> \in Seq(ItemSet) /\ items'[s] = items[s] \o <<>>
    BY <1>2, <2>1
  <2> HIDE DEF t
  <2> QED  BY <1>1, <1>3, <2>1, <2>2, <2>3
<1>7. ASSUME NEW saves \in BOOLEAN, NEW made \in Seq(ItemSet), AddAction(s, saves, made)
      PROVE  L
  <2> DEFINE v == IF saves THEN Save(Parts) ELSE <<>>
             w == [k \in DOMAIN made |-> ItemRecord(made[k])]
             x == FlattenSeq(w)
             t == (v \o Event) \o x
  <2>1. items' = [items EXCEPT ![s] = items[s] \o made] /\ CanBegin(s) /\ Begin(s, t)
    BY <1>7 DEF AddAction
  <2>2. x \in Seq(Steps)
    <3>1. ASSUME NEW k \in 1..Len(made) PROVE ItemRecord(made[k]) \in Seq(Steps)
      <4>1. made[k] \in ItemSet
        OBVIOUS
      <4> QED  BY <4>1, PlanItem
    <3>2. w \in Seq(Seq(Steps)) /\ <<>> \in Seq(Steps)
      <4>1. DOMAIN made = 1..Len(made)
        OBVIOUS
      <4> QED  BY <3>1, <4>1
    <3> HIDE DEF w
    <3> QED  BY <3>2, FlattenAppend
  <2>3. v \in Seq(Steps)
    BY PlanSave, PlanNothing
  <2> HIDE DEF v, x
  <2>4. Busy(v \o Event) /\ v \o Event \in Seq(Steps)
    BY <2>3, PlanEvent, BusyEvent, BusyConcat
  <2>5. Busy(t)
    BY <2>2, <2>4, BusyConcat
  <2>6. items'[s] = items[s] \o made
    BY <1>2, <2>1
  <2> HIDE DEF t
  <2> QED  BY <1>3, <2>1, <2>5, <2>6
<1>8. CASE Respond(s)
  <2>1. Item("message", Id) \in ItemSet
    BY <1>2, MadeItems DEF Id
  <2>2. <<Item("message", Id)>> \in Seq(ItemSet)
    BY <2>1
  <2> QED  BY <1>1, <1>7, <1>8, <2>2 DEF Respond
<1>9. CASE \E saves \in BOOLEAN : Act(s, saves)
  <2>1. Item("action", Id) \in ItemSet /\ Item("result", Id) \in ItemSet
    BY <1>2, MadeItems DEF Id
  <2>2. <<Item("action", Id), Item("result", Id)>> \in Seq(ItemSet)
    BY <2>1
  <2> QED  BY <1>1, <1>7, <1>9, <2>2 DEF Act
<1>10. CASE \E msgs \in 1..MaxOps : Compact(s, msgs)
  <2>1. PICK msgs \in 1..MaxOps : Compact(s, msgs)
    BY <1>10
  <2>2. msgs \in Nat /\ items[s] \in Seq(ItemSet)
    BY <1>2
  <2> DEFINE its == Retained(items[s], msgs)
             x == Record([type |-> "checkpoint", items |-> its]) \o Event
             t == x \o Save(Parts)
  <2>3. items'[s] = its
    <3>1. items' = [items EXCEPT ![s] = its]
      BY <2>1, Zenon DEF Compact
    <3> HIDE DEF its
    <3> QED  BY <1>2, <3>1
  <2>4. CanBegin(s) /\ Begin(s, t)
    BY <2>1, <2>3 DEF Compact
  <2>5. its \in Log!Compactions(items[s]) /\ its \in Seq(ItemSet)
    BY <2>2, RetainedFewer, RetainedType
  <2> HIDE DEF its
  <2>6. [type |-> "checkpoint", items |-> its] \in Records
    BY <2>5 DEF Records
  <2>7. Busy(x) /\ x \in Seq(Steps)
    BY <2>6, PlanRecord, PlanEvent, BusyEvent, BusyConcat
  <2> HIDE DEF x
  <2>8. Busy(t)
    BY <2>7, PlanSave, BusyConcat
  <2> HIDE DEF t
  <2>9. /\ Alive(s) /\ Alive(s)' /\ conv'[s] = conv[s] /\ items[s] = Replay(conv[s].recs)
    BY <2>4, <2>8, LogReady
  <2> QED  BY <1>1, <1>2, <2>3, <2>5, <2>9, LogMoves DEF L
<1> QED
  BY <1>4, <1>5, <1>6, <1>8, <1>9, <1>10 DEF Operation

\* A record that is written is a step of the log, and nothing else that is is.
LEMMA LogRecords ==
    ASSUME IInv, IInv', NEW s \in Whole, WriteRecord(s)
    PROVE  [Log!Next]_Log!vars
<1> DEFINE t == proc[s].todo
           r == t[1].rec
           recs == conv[s].recs
           out == Outstanding(Tail(t))
<1>1. s \in Sessions /\ Next1(s, "record") /\ Done1(s) /\ items' = items
  BY DEF WriteRecord, Whole
<1>2. Apart(s)
  BY <1>1, Separate DEF StoreStep
<1>3. /\ proc[s].pc = "up" /\ t \in Seq(Steps) /\ t # <<>> /\ Rest(t) /\ t[1].do = "record"
      /\ Head(t) = t[1] /\ t[1] \in Steps /\ proc'[s].todo = Tail(t) /\ proc'[s].pc = "up"
  BY <1>1, StepDone
<1>4. /\ Typed /\ Told(s) /\ conv \in [Sessions -> [recs : Seq(Records), open : {"no", "cut", "garbled", "bare"}]]
      /\ conv[s] \in [recs : Seq(Records), open : {"no", "cut", "garbled", "bare"}] /\ recs \in Seq(Records)
      /\ conv[s].open = "no" /\ r \in Records
  <2>1. conv[s] \in [recs : Seq(Records), open : {"no", "cut", "garbled", "bare"}]
    BY <1>1 DEF IInv, Typed
  <2>2. Told(s)
    BY DEF IInv
  <2> QED  BY <1>3, <2>1, <2>2, StepFacts DEF IInv, Typed, Told
<1>5. conv'[s].recs = Append(recs, r)
  <2>1. conv' = [conv EXCEPT ![s] = [conv[s] EXCEPT !.recs = Append(recs, Head(t).rec)]]
    BY <1>4 DEF WriteRecord
  <2> QED  BY <1>1, <1>3, <1>4, <2>1
<1>6. ~ Loading(t) /\ ~ Loading(Tail(t))
  BY <1>3, FlagsTail
<1>7. Alive(s) /\ Alive(s)'
  BY <1>1, <1>3, <1>6, AliveIs, AliveNext
<1>8. out \in Seq(Records) /\ Outstanding(t) = <<r>> \o out
  BY <1>3, OutstandingTail, WrittenType DEF Written
<1>9. /\ Replay(recs \o (<<r>> \o out)) = items[s]
      /\ Pairs(recs, <<r>> \o out) /\ Ahead(recs, <<r>> \o out)
  BY <1>3, <1>4, <1>6, <1>8 DEF Told
<1> HIDE DEF r, recs, out
<1>10. /\ Append(recs, r) \in Seq(Records) /\ recs \o (<<r>> \o out) = Append(recs, r) \o out
  BY <1>4, <1>8, <1>9, PairsTail
<1>11. /\ Single(out)
       /\ \/ r.type = "item" /\ Len(r.items) = 1
          \/ out = <<>> /\ r.type = "checkpoint" /\ r.items \in Log!Compactions(Replay(recs))
  BY <1>4, <1>8, <1>9, AheadTail
<1>12. Replay(Append(recs, r)) = IF r.type = "item" THEN Replay(recs) \o r.items ELSE r.items
  BY <1>4, ReplayAppend
<1>13. Replay(recs) \in Seq(ItemSet) /\ r.items \in Seq(ItemSet)
  BY <1>4, ReplayIs DEF Records
<1>14. CASE r.type = "item" /\ Len(r.items) = 1
  <2> DEFINE d == Replay(recs)
             e == r.items
  <2>1. PICK c \in Seq(ItemSet) : items[s] = (d \o e) \o c
    <3>1. \E c \in Seq(ItemSet) : Replay(Append(recs, r) \o out) = Replay(Append(recs, r)) \o c
      BY <1>8, <1>10, <1>11, Longer
    <3> QED  BY <1>9, <1>10, <1>12, <1>14, <3>1
  <2> HIDE DEF d, e
  <2>2. d \in Seq(ItemSet) /\ e \in Seq(ItemSet) /\ Len(e) = 1
    BY <1>13, <1>14 DEF d, e
  <2>3. (d \o e) \o c = d \o (e \o c) /\ e \o c \in Seq(ItemSet) /\ Len(e \o c) > 0
    <3>1. \A p, q, x \in Seq(ItemSet) : (p \o q) \o x = p \o (q \o x)
      OBVIOUS
    <3>2. \A p, q \in Seq(ItemSet) : p \o q \in Seq(ItemSet) /\ Len(p \o q) = Len(p) + Len(q)
      OBVIOUS
    <3>3. Len(c) \in Nat
      OBVIOUS
    <3>4. Len(e \o c) = 1 + Len(c) /\ e \o c \in Seq(ItemSet)
      BY <2>2, <3>2
    <3>5. (d \o e) \o c = d \o (e \o c)
      BY <2>2, <3>1, Zenon
    <3>6. Len(e \o c) > 0
      BY <3>3, <3>4
    <3> QED  BY <3>4, <3>5, <3>6
  <2>4. Log!IsStrictPrefix(d, items[s])
    <3>1. Log!IsStrictPrefix(d, d \o (e \o c))
      BY <2>2, <2>3, PrefixConcat
    <3> QED  BY <2>1, <2>3, <3>1
  <2>5. SubSeq((d \o e) \o c, 1, Len(d) + 1) = d \o e
    <3> DEFINE a == d \o e
    <3>1. a \in Seq(ItemSet) /\ Len(a) = Len(d) + 1
      <4>1. \A p, q \in Seq(ItemSet) : p \o q \in Seq(ItemSet) /\ Len(p \o q) = Len(p) + Len(q)
        OBVIOUS
      <4>2. d \o e \in Seq(ItemSet)
        BY <2>2, <4>1, Zenon
      <4>3. Len(d \o e) = Len(d) + Len(e)
        BY <2>2, <4>1, Zenon
      <4>4. Len(d \o e) = Len(d) + 1
        BY <2>2, <4>3, Zenon
      <4> QED  BY <4>2, <4>4, Zenon DEF a
    <3> HIDE DEF a
    <3>2. SubSeq(a \o c, 1, Len(a)) = a
      BY <3>1
    <3> QED  BY <3>1, <3>2 DEF a
  <2>6. Log!Write(s)
    BY <1>1, <1>2, <1>5, <1>7, <1>12, <1>14, <2>1, <2>4, <2>5, LogWrites DEF d, e, recs
  <2> QED  BY <2>6 DEF Log!Next
<1>15. CASE out = <<>> /\ r.type = "checkpoint" /\ r.items \in Log!Compactions(Replay(recs))
  <2>1. Append(recs, r) \o <<>> = Append(recs, r)
    BY <1>10
  <2>2. items[s] = r.items /\ Replay(Append(recs, r)) = r.items
    BY <1>9, <1>10, <1>12, <1>15, <2>1
  <2>3. Log!Write(s)
    BY <1>1, <1>2, <1>5, <1>7, <1>15, <2>2, LogWrites DEF recs
  <2> QED  BY <2>3 DEF Log!Next
<1> QED
  BY <1>11, <1>14, <1>15

\* The other steps of the store, a death and a resumption.
LEMMA LogStores ==
    ASSUME IInv, IInv', NEW s \in Whole, StoreStep(s) \/ Resume(s) \/ Crash(s)
    PROVE  [Log!Next]_Log!vars
<1> DEFINE t == proc[s].todo
<1>1. s \in Sessions /\ Apart(s) /\ proc[s] \in Processes /\ t \in Seq(Steps) /\ Rest(t)
      /\ proc \in [Sessions -> Processes] /\ items \in [Sessions -> Seq(ItemSet)] /\ ops \in Nat
  <2>1. s \in Sessions
    BY DEF Whole
  <2>2. ops \in 0..MaxOps /\ MaxOps \in Nat
    BY MemoryAssumption DEF IInv, Typed
  <2> QED  BY <2>1, <2>2, Separate DEF IInv, Typed, Processes, Working
<1>2. ASSUME items'[s] = items[s], conv'[s] = conv[s], Alive(s)' <=> Alive(s)
      PROVE  UNCHANGED Log!vars
  BY <1>1, <1>2, LogMoves
<1>3. ASSUME ~ Alive(s)', conv'[s] = conv[s] PROVE Log!Next
  <2>1. Log!Die(s)
    BY <1>1, <1>3, LogMoves
  <2> QED  BY <2>1 DEF Log!Next
<1>4. ASSUME NEW do, Next1(s, do), do # "load", items' = items, conv' = conv,
             proc'[s].pc = "up", proc'[s].todo = Tail(t)
      PROVE  UNCHANGED Log!vars
  <2>1. proc[s].pc = "up" /\ t # <<>> /\ t[1].do = do
    BY <1>1, <1>4, RestTail DEF Next1
  <2>2. Loading(Tail(t)) <=> Loading(t)
    BY <1>1, <1>4, <2>1, FlagsTail
  <2>3. Alive(s)' <=> Alive(s)
    BY <1>1, <1>4, <2>1, <2>2, AliveIs, AliveNext
  <2> QED  BY <1>2, <1>4, <2>3
<1>5. CASE WriteEvent(s)
  <2>1. Next1(s, "event") /\ Done1(s) /\ items' = items /\ conv' = conv
    BY <1>5 DEF WriteEvent
  <2>2. proc'[s].pc = "up" /\ proc'[s].todo = Tail(t)
    BY <1>1, <2>1, StepDone
  <2> QED  BY <1>4, <2>1, <2>2
<1>6. CASE WriteFile(s)
  <2>1. Next1(s, "file") /\ Done1(s) /\ items' = items /\ conv' = conv
    BY <1>6 DEF WriteFile
  <2>2. proc'[s].pc = "up" /\ proc'[s].todo = Tail(t)
    BY <1>1, <2>1, StepDone
  <2> QED  BY <1>4, <2>1, <2>2
<1>7. CASE ReadIndex(s)
  <2>1. /\ Next1(s, "lock") /\ items' = items /\ conv' = conv
        /\ proc' = [proc EXCEPT ![s] = [proc[s] EXCEPT !.todo = Tail(t), !.seen = index]]
    BY <1>7 DEF ReadIndex, diskVars
  <2>2. proc'[s].pc = "up" /\ proc'[s].todo = Tail(t)
    BY <1>1, <2>1 DEF Next1, Processes
  <2> QED  BY <1>4, <2>1, <2>2
<1>8. CASE WriteIndex(s)
  <2>1. /\ Next1(s, "upsert") \/ Next1(s, "touch")
        /\ items' = items /\ conv' = conv
        /\ proc' = [proc EXCEPT ![s] = [proc[s] EXCEPT !.todo = Tail(t), !.seen = None]]
    BY <1>8 DEF WriteIndex
  <2>2. proc'[s].pc = "up" /\ proc'[s].todo = Tail(t)
    BY <1>1, <2>1 DEF Next1, Processes
  <2> QED  BY <1>4, <2>1, <2>2
<1>9. CASE Resume(s)
  <2> DEFINE u == Upsert \o <<[do |-> "load"]>>
  <2>1. proc[s].pc = "dead" /\ items' = items /\ conv' = conv
        /\ proc' = [proc EXCEPT ![s] = [proc[s] EXCEPT !.pc = "up", !.todo = u]]
    BY <1>9 DEF Resume, diskVars
  <2>2. Loading(u)
    <3>1. Len(u) = 3 /\ u[3] = [do |-> "load"]
      BY DEF Upsert
    <3> QED  BY <3>1 DEF Loading
  <2> HIDE DEF u
  <2>3. proc'[s].todo = u
    BY <1>1, <2>1 DEF Processes
  <2>4. ~ Alive(s) /\ ~ Alive(s)'
    BY <1>1, <2>1, <2>2, <2>3, AliveIs, AliveNext
  <2> QED  BY <1>2, <2>1, <2>4
<1>10. CASE Crash(s)
  <2> DEFINE x == [pc |-> "dead", todo |-> <<>>, seen |-> None, crashes |-> proc[s].crashes + 1]
  <2>1. proc' = [proc EXCEPT ![s] = x] /\ conv' = conv
    BY <1>10 DEF Crash, Whole
  <2>2. proc'[s].pc = "dead"
    BY <1>1, <2>1
  <2>3. ~ Alive(s)'
    BY <1>1, <2>2, AliveNext
  <2> QED  BY <1>3, <2>1, <2>3
<1>11. CASE Load(s)
  <2> DEFINE recs == conv[s].recs
             i == Item("message", ops)
             some == recs = <<>> /\ trace[s].events > 0
             task == IF some THEN <<i>> ELSE <<>>
             u == (IF task = <<>> THEN <<>> ELSE ItemRecord(task[1])) \o Event
  <2>1. /\ Next1(s, "load") /\ conv' = conv
        /\ \/ items' = [items EXCEPT ![s] = Replay(recs) \o task] /\ proc' = [proc EXCEPT ![s].todo = u]
           \/ items' = items /\ proc' = [proc EXCEPT ![s].pc = "refused", ![s].todo = <<>>]
    BY <1>11, Zenon DEF Load, diskVars
  <2>2. proc[s].pc = "up" /\ t # <<>> /\ t[1].do = "load"
    BY <1>1, <2>1, RestTail DEF Next1
  <2>3. ~ Alive(s)
    <3>1. Loading(t)
      BY <1>1, <2>2, RestTail DEF Loading
    <3> QED  BY <1>1, <3>1, AliveIs
  <2>4. CASE items' = items /\ proc' = [proc EXCEPT ![s].pc = "refused", ![s].todo = <<>>]
    <3>1. proc'[s].pc = "refused"
      BY <1>1, <2>4 DEF Processes
    <3>2. ~ Alive(s)'
      BY <1>1, <3>1, AliveNext
    <3> QED  BY <1>2, <2>1, <2>3, <2>4, <3>2
  <2>5. CASE items' = [items EXCEPT ![s] = Replay(recs) \o task] /\ proc' = [proc EXCEPT ![s].todo = u]
    <3>1. i \in ItemSet
      BY <1>1, MadeItems
    <3> HIDE DEF i, some
    <3>2. task \in Seq(ItemSet) /\ u = (IF some THEN ItemRecord(i) ELSE <<>>) \o Event
      <4>1. task \in Seq(ItemSet)
        BY <3>1
      <4>2. u = (IF some THEN ItemRecord(i) ELSE <<>>) \o Event
        OBVIOUS
      <4> QED  BY <4>1, <4>2
    <3> HIDE DEF task, u
    <3>3. Busy(u)
      BY <3>1, <3>2, PlanItem, PlanNothing, PlanEvent, BusyEvent, BusyConcat
    <3>4. proc'[s].pc = "up" /\ proc'[s].todo = u
      BY <1>1, <2>2, <2>5 DEF Processes
    <3>5. Alive(s)'
      BY <1>1, <3>3, <3>4, AliveNext
    <3>6. Replay(recs) \in Seq(ItemSet)
      BY <1>1, ReplayIs DEF IInv, Typed
    <3>7. items'[s] = Replay(recs) \o task
      BY <1>1, <2>5
    <3>8. Log!IsPrefix(Replay(recs), Replay(recs) \o task)
      BY <3>2, <3>6, PrefixConcat
    <3>9. Log!Open(s)
      BY <1>1, <2>1, <2>3, <3>5, <3>7, <3>8, LogMoves
    <3> QED  BY <3>9 DEF Log!Next
  <2> QED  BY <2>1, <2>4, <2>5
<1> QED
  BY <1>5, <1>6, <1>7, <1>8, <1>9, <1>10, <1>11, LogRecords DEF StoreStep

\* A step of a session that is no log is none of the logs.
LEMMA LogElsewhere ==
    ASSUME IInv, NEW s \in Sessions \ Whole, Apart(s)
    PROVE  UNCHANGED Log!vars
<1>1. ASSUME NEW u \in Whole PROVE items'[u] = items[u] /\ conv'[u] = conv[u] /\ Alive(u)' = Alive(u)
  <2>1. items'[u] = items[u] /\ conv'[u] = conv[u] /\ proc'[u] = proc[u]
    BY DEF Apart
  <2>2. Alive(u)' = Alive(u)
    BY <2>1, Zenon DEF Alive
  <2> QED  BY <2>1, <2>2
<1>2. [u \in Whole |-> items[u]]' = [u \in Whole |-> items[u]]
  BY <1>1
<1>3. [u \in Whole |-> Replay(conv[u].recs)]' = [u \in Whole |-> Replay(conv[u].recs)]
  BY <1>1
<1>4. [u \in Whole |-> Alive(u)]' = [u \in Whole |-> Alive(u)]
  BY <1>1, Zenon
<1> QED
  BY <1>2, <1>3, <1>4, Zenon DEF Log!vars

\* Every step of the sessions is a step of one log, or of none.
LEMMA LogStep == IInv /\ IInv' /\ [Next]_vars => [Log!Next]_Log!vars
<1> SUFFICES ASSUME IInv, IInv', [Next]_vars PROVE [Log!Next]_Log!vars
  OBVIOUS
<1>1. CASE UNCHANGED vars
  <2>1. UNCHANGED <<proc, items, conv>>
    BY <1>1 DEF vars, memVars, diskVars
  <2> QED  BY <2>1 DEF Log!vars, Alive
<1>2. ASSUME NEW s \in Sessions, Operation(s) \/ StoreStep(s) \/ Resume(s) \/ Crash(s)
      PROVE  [Log!Next]_Log!vars
  <2>1. CASE s \in Whole
    BY <1>2, <2>1, LogOperates, LogStores
  <2>2. CASE s \notin Whole
    <3>1. Apart(s)
      BY <1>2, Separate
    <3> QED  BY <2>2, <3>1, LogElsewhere
  <2> QED  BY <2>1, <2>2
<1> QED
  BY <1>1, <1>2 DEF Next

\* The conversations that sessions keep in memory and on disk, whatever records,
\* checkpoints, crashes and resumptions they go through, implement logs that are ahead of
\* their disks by one operation at most (ConversationHistory, JsonMemoryStore).
THEOREM LogCorrect == Spec => ConversationIsLog
<1>1. Init => Log!Init
  <2> SUFFICES ASSUME Init PROVE Log!Init
    OBVIOUS
  <2>1. ASSUME NEW u \in Whole
        PROVE  items[u] = <<>> /\ Replay(conv[u].recs) = <<>> /\ Alive(u) = FALSE
    <3>1. u \in Sessions
      BY DEF Whole
    <3>2. items[u] = <<>> /\ conv[u].recs = <<>> /\ proc[u].pc = "new"
      BY <3>1 DEF Init, EmptyConv
    <3> QED  BY <3>2, ReplayEmpty DEF Alive
  <2>2. [u \in Whole |-> items[u]] = [u \in Whole |-> <<>>]
    BY <2>1
  <2>3. [u \in Whole |-> Replay(conv[u].recs)] = [u \in Whole |-> <<>>]
    BY <2>1
  <2>4. [u \in Whole |-> Alive(u)] = [u \in Whole |-> FALSE]
    BY <2>1, Zenon
  <2> QED  BY <2>2, <2>3, <2>4, Zenon DEF Log!Init
<1> QED
  BY <1>1, LogStep, Inductive, PTL DEF Spec, ConversationIsLog, Log!Spec

=============================================================================
