------------------------- MODULE WorkerManager_proofs --------------------------
(***************************************************************************)
(* Proofs about the two models of sim/mcp_server/worker_mgr.py, for every      *)
(* value of their constants.  First the pool of bench workers (WorkerPool),   *)
(* for every finite set of handles, all URLs and every pool size, whatever    *)
(* ports its workers get: the load the pool balances on is exact but for      *)
(* inherited ports, never counts an environment that gave its slot back, and  *)
(* environments share a worker only when the pool is full.  Then its cache of *)
(* camera frames (RenderCache).                                               *)
(***************************************************************************)
EXTENDS MCWorkerManager, FiniteSetTheorems, TLAPS

IInv == TypeOK /\ SlotAccounting /\ NoSlotLeaks


-----------------------------------------------------------------------------
(* Lemmas on the operators. *)

\* Any set of owners is finite, with a natural number of members.
LEMMA OwnersFinite ==
    ASSUME NEW u
    PROVE  IsFiniteSet(Owners(u)) /\ Cardinality(Owners(u)) \in Nat
<1>1. Owners(u) \in SUBSET Handles
  BY DEF Owners
<1> QED
  BY <1>1, HandlesAssumption, FS_Subset, FS_CardinalityType

\* acquire_worker gives h a slot on w: w gains the owner h, nobody else moves.
LEMMA AcquireOwners ==
    ASSUME TypeOK, NEW h \in Handles, NEW w \in Urls,
           phase[h] = "unused",
           slot' = [slot EXCEPT ![h] = w],
           phase' = [phase EXCEPT ![h] = "creating"]
    PROVE  /\ Owners(w)' = Owners(w) \cup {h}
           /\ h \notin Owners(w)
           /\ \A v \in Urls : v # w => Owners(v)' = Owners(v)
  BY DEF TypeOK, Owners, Holding, Phases

\* release_worker takes h out of the owners of its worker.
LEMMA ReleaseOwners ==
    ASSUME TypeOK, NEW h \in Handles,
           phase[h] \in Holding,
           slot' = slot,
           phase' = [phase EXCEPT ![h] = "released"]
    PROVE  /\ h \in Owners(slot[h])
           /\ Owners(slot[h])' = Owners(slot[h]) \ {h}
           /\ \A v \in Urls : v # slot[h] => Owners(v)' = Owners(v)
  BY DEF TypeOK, Owners, Holding, Phases

\* A move between two phases that both hold the slot changes no owner.
LEMMA SameOwners ==
    ASSUME TypeOK, NEW h \in Handles, NEW p \in Holding,
           phase[h] \in Holding,
           slot' = slot,
           phase' = [phase EXCEPT ![h] = p]
    PROVE  \A v \in Urls : Owners(v)' = Owners(v)
  BY DEF TypeOK, Owners, Holding, Phases

-----------------------------------------------------------------------------
(* Type correctness. *)

LEMMA DropRefType ==
    ASSUME TypeOK, NEW u, DropRef(u)
    PROVE  /\ (pool \subseteq Urls)'
           /\ (envCount \in [Urls -> Nat])'
           /\ (running \subseteq Urls)'
           /\ (hosted \in [Urls -> SUBSET Handles])'
  BY DEF TypeOK, DropRef

LEMMA TypeStep ==
    ASSUME TypeOK, [Next]_poolVars
    PROVE  TypeOK'
<1>1. ASSUME NEW h \in Handles, Acquire(h) PROVE TypeOK'
  BY <1>1 DEF TypeOK, Acquire, Spawn, LeastLoaded, Live, Phases, Holding
<1>2. ASSUME NEW h \in Handles, CreateOk(h) PROVE TypeOK'
  BY <1>2 DEF TypeOK, CreateOk, Phases, Holding
<1>3. ASSUME NEW h \in Handles, CreateError(h) PROVE TypeOK'
  BY <1>3 DEF TypeOK, CreateError, Phases, Holding
<1>4. ASSUME NEW h \in Handles, Delete(h) PROVE TypeOK'
  BY <1>4 DEF TypeOK, Delete, Phases, Holding
<1>5. ASSUME NEW h \in Handles, Release(h) PROVE TypeOK'
  BY <1>5, DropRefType DEF TypeOK, Release, Phases, Holding
<1>6. CASE SpawnFails
  BY <1>6 DEF TypeOK, SpawnFails, Live
<1>7. CASE EnsureWorker
  BY <1>7 DEF TypeOK, EnsureWorker, Spawn, FreshUrls, Live
<1>8. ASSUME NEW u \in Urls, Crash(u) PROVE TypeOK'
  BY <1>8 DEF TypeOK, Crash
<1>9. CASE StopAll
  BY <1>9 DEF TypeOK, StopAll
<1>10. CASE UNCHANGED poolVars
  BY <1>10 DEF TypeOK, poolVars
<1> QED
  BY <1>1, <1>2, <1>3, <1>4, <1>5, <1>6, <1>7, <1>8, <1>9, <1>10 DEF Next

\* The state is always well typed.
THEOREM TypeCorrect == Spec => []TypeOK
<1>1. Init => TypeOK
  BY DEF Init, TypeOK, Phases
<1> QED
  BY <1>1, TypeStep, PTL DEF Spec
-----------------------------------------------------------------------------
(* The load balancer's count is exact, and never too high. *)

\* A worker that starts for the environments in new has no other owner, or is
\* known to have inherited some.
LEMMA SpawnStep ==
    ASSUME IInv, NEW w \in Urls, NEW n \in Nat, Spawn(w, n),
           n <= Cardinality(Owners(w)'),
           Owners(w) = {} => n = Cardinality(Owners(w)'),
           \A v \in Urls : v # w => Owners(v)' = Owners(v)
    PROVE  SlotAccounting' /\ NoSlotLeaks'
<1>. USE DEF IInv
<1>1. /\ pool' = Live \cup {w}
      /\ envCount' = [envCount EXCEPT ![w] = n]
      /\ inherited' = IF Owners(w) = {} THEN inherited \ {w} ELSE inherited \cup {w}
  BY DEF Spawn
<1>2. /\ envCount'[w] = n
      /\ \A v \in Urls : v # w => envCount'[v] = envCount[v]
      /\ \A v \in pool' : v # w => v \in pool
      /\ \A v \in Urls : v # w /\ v \notin inherited' => v \notin inherited
      /\ pool' \subseteq Urls
  BY <1>1 DEF TypeOK, Live
<1>3. ASSUME NEW v \in pool' \ inherited' PROVE envCount'[v] = Cardinality(Owners(v)')
  <2>1. CASE v = w
    BY <1>1, <1>2, <2>1
  <2>2. CASE v # w
    BY <1>2, <2>2 DEF SlotAccounting
  <2> QED  BY <2>1, <2>2
<1>4. ASSUME NEW v \in pool' PROVE envCount'[v] <= Cardinality(Owners(v)')
  <2>1. CASE v = w
    BY <1>2, <2>1
  <2>2. CASE v # w
    BY <1>2, <2>2 DEF NoSlotLeaks
  <2> QED  BY <2>1, <2>2
<1> QED
  BY <1>3, <1>4 DEF SlotAccounting, NoSlotLeaks

\* acquire_worker, on a worker of the pool or on a fresh one.
LEMMA AcquireStep ==
    ASSUME IInv, NEW h \in Handles, Acquire(h)
    PROVE  SlotAccounting' /\ NoSlotLeaks'
<1>. USE DEF IInv
<1>1. PICK w \in Urls :
        /\ \/ Spawn(w, 1)
           \/ /\ w \in LeastLoaded
              /\ pool' = Live
              /\ envCount' = [envCount EXCEPT ![w] = @ + 1]
              /\ UNCHANGED <<running, inherited, hosted>>
        /\ slot' = [slot EXCEPT ![h] = w]
  BY DEF Acquire
<1>2. phase[h] = "unused" /\ phase' = [phase EXCEPT ![h] = "creating"]
  BY DEF Acquire
<1>3. /\ Owners(w)' = Owners(w) \cup {h}
      /\ h \notin Owners(w)
      /\ \A v \in Urls : v # w => Owners(v)' = Owners(v)
  BY <1>1, <1>2, AcquireOwners
<1>4. /\ Cardinality(Owners(w)') = Cardinality(Owners(w)) + 1
      /\ Cardinality(Owners(w)) \in Nat
  BY <1>3, OwnersFinite, FS_AddElement
<1>5. CASE Spawn(w, 1)
  <2>1. Owners(w) = {} => Cardinality(Owners(w)') = 1
    BY <1>4, FS_EmptySet
  <2>2. 1 <= Cardinality(Owners(w)')
    BY <1>4
  <2> QED
    BY <1>3, <1>5, <2>1, <2>2, SpawnStep
<1>6. CASE /\ w \in LeastLoaded
           /\ pool' = Live
           /\ envCount' = [envCount EXCEPT ![w] = @ + 1]
           /\ UNCHANGED <<running, inherited, hosted>>
  <2>1. w \in pool /\ pool' \subseteq pool /\ pool \subseteq Urls /\ inherited' = inherited
    BY <1>6 DEF LeastLoaded, Live, TypeOK
  <2>2. /\ envCount'[w] = envCount[w] + 1 /\ envCount[w] \in Nat
        /\ \A v \in Urls : v # w => envCount'[v] = envCount[v]
    BY <1>6, <2>1 DEF TypeOK
  <2>3. ASSUME NEW v \in pool' PROVE /\ envCount'[v] <= Cardinality(Owners(v)')
                                     /\ v \notin inherited' => envCount'[v] = Cardinality(Owners(v)')
    <3>1. CASE v = w
      BY <3>1, <2>1, <2>2, <1>4 DEF SlotAccounting, NoSlotLeaks
    <3>2. CASE v # w
      BY <3>2, <2>1, <2>2, <1>3 DEF SlotAccounting, NoSlotLeaks
    <3> QED
      BY <3>1, <3>2
  <2> QED
    BY <2>3 DEF SlotAccounting, NoSlotLeaks
<1> QED
  BY <1>1, <1>5, <1>6

\* release_worker: one owner less, and one reference if there is one left.
LEMMA ReleaseStep ==
    ASSUME IInv, NEW h \in Handles, Release(h)
    PROVE  SlotAccounting' /\ NoSlotLeaks'
<1>. USE DEF IInv
<1>0. PICK u : u = slot[h]
  OBVIOUS
<1>1. /\ phase[h] \in Holding
      /\ DropRef(u)
      /\ phase' = [phase EXCEPT ![h] = "released"]
      /\ UNCHANGED <<inherited, slot>>
  BY <1>0 DEF Release, Holding
<1>2. /\ h \in Owners(u)
      /\ Owners(u)' = Owners(u) \ {h}
      /\ \A v \in Urls : v # u => Owners(v)' = Owners(v)
  BY <1>0, <1>1, ReleaseOwners
<1>3. /\ Cardinality(Owners(u)') = Cardinality(Owners(u)) - 1
      /\ Cardinality(Owners(u)) \in Nat \ {0}
  BY <1>2, OwnersFinite, FS_RemoveElement, FS_EmptySet
<1>4. pool \subseteq Urls /\ inherited' = inherited
  BY <1>1 DEF TypeOK
<1>5. ASSUME u \notin pool \/ SingleUse PROVE SlotAccounting' /\ NoSlotLeaks'
  <2>1. pool' \subseteq pool /\ envCount' = envCount /\ u \notin pool'
    BY <1>1, <1>5 DEF DropRef
  <2> QED  BY <1>2, <1>4, <2>1 DEF SlotAccounting, NoSlotLeaks
<1>6. ASSUME u \in pool, ~SingleUse PROVE SlotAccounting' /\ NoSlotLeaks'
  <2>1. pool' = pool /\ envCount' = [envCount EXCEPT ![u] = IF @ > 0 THEN @ - 1 ELSE 0]
    BY <1>6, <1>1 DEF DropRef
  <2>2. /\ envCount[u] \in Nat
        /\ envCount'[u] = IF envCount[u] > 0 THEN envCount[u] - 1 ELSE 0
        /\ \A v \in Urls : v # u => envCount'[v] = envCount[v]
    BY <1>4, <1>6, <2>1 DEF TypeOK
  <2>3. ASSUME NEW v \in pool' PROVE /\ envCount'[v] <= Cardinality(Owners(v)')
                                     /\ v \notin inherited' => envCount'[v] = Cardinality(Owners(v)')
    <3>1. CASE v = u
      <4>1. /\ envCount[u] <= Cardinality(Owners(u))
            /\ u \notin inherited => envCount[u] = Cardinality(Owners(u))
        BY <1>6 DEF SlotAccounting, NoSlotLeaks
      <4>2. /\ envCount'[u] <= Cardinality(Owners(u)')
            /\ u \notin inherited => envCount'[u] = Cardinality(Owners(u)')
        BY <4>1, <2>2, <1>3
      <4> QED
        BY <3>1, <4>2, <1>4
    <3>2. CASE v # u
      BY <3>2, <2>1, <2>2, <1>2, <1>4 DEF SlotAccounting, NoSlotLeaks
    <3> QED
      BY <3>1, <3>2
  <2> QED
    BY <2>3 DEF SlotAccounting, NoSlotLeaks
<1> QED
  BY <1>5, <1>6

\* ensure_worker: its first worker counts no environment.
LEMMA EnsureWorkerStep ==
    ASSUME IInv, EnsureWorker
    PROVE  SlotAccounting' /\ NoSlotLeaks'
<1>. USE DEF IInv
<1>1. phase' = phase /\ slot' = slot /\ \A v \in Urls : Owners(v)' = Owners(v)
  BY DEF EnsureWorker, Owners
<1>2. CASE Live # {} /\ pool' = Live /\ UNCHANGED <<envCount, running, inherited, hosted>>
  BY <1>1, <1>2 DEF SlotAccounting, NoSlotLeaks, Live, TypeOK
<1>3. ASSUME NEW w \in FreshUrls, Spawn(w, 0)
      PROVE  SlotAccounting' /\ NoSlotLeaks'
  <2>1. w \in Urls
    BY <1>3 DEF FreshUrls
  <2>2. 0 <= Cardinality(Owners(w)')
    BY <2>1, <1>1, OwnersFinite
  <2>3. Owners(w) = {} => Cardinality(Owners(w)') = 0
    BY <2>1, <1>1, FS_EmptySet
  <2> QED
    BY <1>1, <1>3, <2>1, <2>2, <2>3, SpawnStep
<1> QED
  BY <1>2, <1>3 DEF EnsureWorker

LEMMA IInvStep ==
    ASSUME IInv, [Next]_poolVars
    PROVE  IInv'
<1>. USE DEF IInv
<1>1. TypeOK'
  BY TypeStep
<1>2. ASSUME NEW h \in Handles, Acquire(h) PROVE SlotAccounting' /\ NoSlotLeaks'
  BY <1>2, AcquireStep
<1>3. ASSUME NEW h \in Handles, CreateOk(h) \/ CreateError(h) \/ Delete(h)
      PROVE  SlotAccounting' /\ NoSlotLeaks'
  <2>1. PICK p \in Holding :
          /\ phase[h] \in Holding
          /\ phase' = [phase EXCEPT ![h] = p]
          /\ UNCHANGED <<pool, envCount, inherited, slot>>
    BY <1>3 DEF CreateOk, CreateError, Delete, Holding
  <2>2. \A v \in Urls : Owners(v)' = Owners(v)
    BY <2>1, SameOwners
  <2> QED
    BY <2>1, <2>2 DEF SlotAccounting, NoSlotLeaks, TypeOK
<1>4. ASSUME NEW h \in Handles, Release(h) PROVE SlotAccounting' /\ NoSlotLeaks'
  BY <1>4, ReleaseStep
<1>5. CASE EnsureWorker
  BY <1>1, <1>5, EnsureWorkerStep
<1>6. ASSUME /\ pool' \subseteq pool
             /\ UNCHANGED <<envCount, inherited, phase, slot>>
      PROVE  SlotAccounting' /\ NoSlotLeaks'
  BY <1>6 DEF SlotAccounting, NoSlotLeaks, Owners, TypeOK
<1>7. CASE SpawnFails
  BY <1>1, <1>7, <1>6 DEF SpawnFails, Live
<1>8. ASSUME NEW u \in Urls, Crash(u) PROVE SlotAccounting' /\ NoSlotLeaks'
  BY <1>8, <1>6 DEF Crash
<1>9. CASE StopAll
  BY <1>1, <1>9, <1>6 DEF StopAll
<1>10. CASE UNCHANGED poolVars
  BY <1>1, <1>10, <1>6 DEF poolVars
<1> QED
  BY <1>1, <1>2, <1>3, <1>4, <1>5, <1>7, <1>8, <1>9, <1>10 DEF Next

LEMMA Counted == Spec => []IInv
<1>1. Init => IInv
  BY DEF Init, IInv, TypeOK, SlotAccounting, NoSlotLeaks, Phases
<1>2. IInv /\ [Next]_poolVars => IInv'
  BY IInvStep
<1> QED
  BY <1>1, <1>2, PTL DEF Spec

\* env_count of every worker of the pool is the number of environments that
\* hold a slot on it, unless it started where one still held an earlier worker's
\* (acquire_worker, release_worker).
THEOREM AccountingCorrect == Spec => []SlotAccounting
  BY Counted, PTL DEF IInv

\* And no worker ever counts an environment that gave its slot back, whatever
\* ports the workers get.
THEOREM LeaksCorrect == Spec => []NoSlotLeaks
  BY Counted, PTL DEF IInv
-----------------------------------------------------------------------------
(* The pool spreads its environments. *)

\* Only acquire_worker begins an environment's creation.
LEMMA Creating ==
    ASSUME TypeOK, Next, NEW h \in Handles, phase[h] = "unused", phase'[h] = "creating"
    PROVE  Acquire(h)
<1>1. PICK k \in Handles :
        Acquire(k) \/ CreateOk(k) \/ CreateError(k) \/ Delete(k) \/ Release(k)
  <2>1. phase' # phase
    OBVIOUS
  <2> QED
    BY <2>1 DEF Next, SpawnFails, EnsureWorker, Crash, StopAll
<1>2. k = h
  BY <1>1 DEF Acquire, CreateOk, CreateError, Delete, Release, TypeOK
<1> QED
  BY <1>1, <1>2 DEF CreateOk, CreateError, Delete, Release

\* While its counts are exact, the pool lets environments share a worker only
\* when it is full, and then the one that the fewest share (acquire_worker).
THEOREM SpreadCorrect == Spec => SpreadsLoad
<1>. DEFINE Spread == \A h \in Handles :
                         LET w == slot'[h] IN
                         /\ phase[h] = "unused" /\ phase'[h] = "creating"
                         /\ pool \cap inherited = {}
                         /\ w \in Live /\ Owners(w) # {}
                         => /\ Cardinality(Live) >= PoolMax
                            /\ \A v \in Live : Cardinality(Owners(w)) <= Cardinality(Owners(v))
<1>1. IInv /\ [Next]_poolVars => [Spread]_poolVars
  <2>1. SUFFICES ASSUME IInv, Next, NEW h \in Handles,
                        phase[h] = "unused", phase'[h] = "creating",
                        pool \cap inherited = {},
                        slot'[h] \in Live, Owners(slot'[h]) # {}
                 PROVE  /\ Cardinality(Live) >= PoolMax
                        /\ \A v \in Live : Cardinality(Owners(slot'[h])) <= Cardinality(Owners(v))
    OBVIOUS
  <2>2. TypeOK /\ SlotAccounting /\ Acquire(h)
    BY <2>1, Creating DEF IInv
  <2>3. PICK w \in Urls :
          /\ \/ w \in FreshUrls
             \/ ~WantsWorker /\ w \in LeastLoaded
          /\ slot' = [slot EXCEPT ![h] = w]
    BY <2>2 DEF Acquire
  <2>4. slot'[h] = w
    BY <2>2, <2>3 DEF TypeOK
  <2>5. ~WantsWorker /\ w \in LeastLoaded
    BY <2>1, <2>3, <2>4 DEF FreshUrls
  <2>6. \A v \in Live : envCount[v] = Cardinality(Owners(v))
    BY <2>1, <2>2 DEF SlotAccounting, Live
  <2>7. \A v \in Live : Cardinality(Owners(w)) <= Cardinality(Owners(v))
    BY <2>5, <2>6 DEF LeastLoaded
  <2>8. Cardinality(Owners(w)) \in Nat \ {0}
    BY <2>1, <2>4, OwnersFinite, FS_EmptySet
  <2>9. \A v \in Live : envCount[v] > 0
    BY <2>6, <2>7, <2>8, OwnersFinite
  <2>10. ~(Cardinality(Live) < PoolMax)
    BY <2>5, <2>9 DEF WantsWorker
  <2>11. Cardinality(Live) \in Nat
    <3>. DEFINE S == {g \in Handles : phase[g] \in Holding /\ slot[g] \in Live}
                f == [g \in S |-> slot[g]]
    <3>1. IsFiniteSet(S)
      BY HandlesAssumption, FS_Subset
    <3>2. ASSUME NEW v \in Live PROVE \E g \in S : f[g] = v
      <4>1. Owners(v) # {}
        BY <2>6, <2>9, FS_EmptySet
      <4> QED
        BY <4>1 DEF Owners
    <3>3. f \in Surjection(S, Live)
      BY <3>2 DEF Surjection
    <3>4. IsFiniteSet(Live)
      BY <3>1, <3>3, FS_Surjection
    <3> QED
      BY <3>4, FS_CardinalityType
  <2> QED
    BY <2>4, <2>7, <2>10, <2>11, PoolMaxAssumption
<1> QED
  BY <1>1, Counted, PTL DEF Spec, SpreadsLoad
-----------------------------------------------------------------------------
(* The count covers the environments that clients hold open. *)

\* What a process hosts was created there.
HostedInv == \A u \in Urls : \A h \in hosted[u] : slot[h] = u /\ phase[h] # "unused"

LEMMA HostedStep ==
    ASSUME TypeOK, HostedInv, [Next]_poolVars
    PROVE  HostedInv'
<1>1. ASSUME NEW h \in Handles, Acquire(h) PROVE HostedInv'
  <2>1. PICK w \in Urls :
          /\ Spawn(w, 1) \/ UNCHANGED hosted
          /\ slot' = [slot EXCEPT ![h] = w]
    BY <1>1 DEF Acquire
  <2>2. phase[h] = "unused" /\ phase' = [phase EXCEPT ![h] = "creating"]
    BY <1>1 DEF Acquire
  <2>3. \A u \in Urls : hosted'[u] \subseteq hosted[u] /\ h \notin hosted[u]
    BY <2>1, <2>2 DEF Spawn, TypeOK, HostedInv
  <2> QED
    BY <2>1, <2>2, <2>3 DEF HostedInv, TypeOK
<1>2. ASSUME NEW h \in Handles, CreateOk(h) \/ CreateError(h) PROVE HostedInv'
  <2>1. /\ phase[h] = "creating" /\ phase'[h] # "unused" /\ slot' = slot
        /\ \A g \in Handles : g # h => phase'[g] = phase[g]
        /\ \A u \in Urls : hosted'[u] = hosted[u] \/ (u = slot[h] /\ hosted'[u] = hosted[u] \cup {h})
    BY <1>2 DEF CreateOk, CreateError, TypeOK
  <2> QED
    BY <2>1 DEF HostedInv, TypeOK
<1>3. ASSUME slot' = slot, \A u \in Urls : hosted'[u] \subseteq hosted[u],
             \A h \in Handles : phase'[h] = phase[h] \/ phase'[h] \in {"closing", "released"}
      PROVE  HostedInv'
  BY <1>3 DEF HostedInv, TypeOK
<1>4. ASSUME NEW h \in Handles, Delete(h) PROVE HostedInv'
  BY <1>3, <1>4 DEF Delete, TypeOK
<1>5. ASSUME NEW h \in Handles, Release(h) PROVE HostedInv'
  BY <1>3, <1>5 DEF Release, DropRef, TypeOK
<1>6. CASE EnsureWorker
  BY <1>3, <1>6 DEF EnsureWorker, Spawn, TypeOK
<1>7. CASE SpawnFails \/ StopAll \/ (\E u \in Urls : Crash(u)) \/ UNCHANGED poolVars
  BY <1>3, <1>7 DEF SpawnFails, StopAll, Crash, poolVars, TypeOK
<1> QED
  BY <1>1, <1>2, <1>4, <1>5, <1>6, <1>7 DEF Next

\* The load the pool balances on is never less than the open environments in a
\* worker's process, unless it started on an inherited port.
THEOREM CoverageCorrect == Spec => []CountCoversOpen
<1>1. Init => HostedInv
  BY DEF Init, HostedInv
<1>2. IInv /\ HostedInv /\ [Next]_poolVars => HostedInv'
  BY HostedStep DEF IInv
<1>3. IInv /\ HostedInv => CountCoversOpen
  <2>1. SUFFICES ASSUME IInv, HostedInv, NEW u \in (pool \cap running) \ inherited
                 PROVE  Cardinality({h \in hosted[u] : phase[h] = "open"}) <= envCount[u]
    BY DEF CountCoversOpen
  <2>2. {h \in hosted[u] : phase[h] = "open"} \subseteq Owners(u)
    BY <2>1 DEF IInv, HostedInv, TypeOK, Owners, Holding
  <2>3. Cardinality({h \in hosted[u] : phase[h] = "open"}) <= Cardinality(Owners(u))
    BY <2>2, OwnersFinite, FS_Subset
  <2> QED
    BY <2>1, <2>3 DEF IInv, SlotAccounting
<1> QED
  BY <1>1, <1>2, <1>3, Counted, PTL DEF Spec

-----------------------------------------------------------------------------
(***************************************************************************)
(* The same manager's cache of camera frames, for any number of environments, *)
(* render threads and steps, calls of all kinds and failing renders:          *)
(* generations are in order, and no background render takes a frame of        *)
(* another back in time.                                                      *)
(***************************************************************************)

Jobs == [pc : {"idle", "snapshot", "render", "record", "finish"}, hs : SUBSET Envs,
         gen : [Envs -> Nat], frame : [Envs -> Frames \cup {Pending}]]
Ctls == [pc : {"idle", "store", "mark", "rendered", "moving", "moved", "show",
               "evict", "forget", "delete", "closed"},
         kind : AllKinds, frame : Frames, gen : Nat, move : BOOLEAN]

\* close_env is at work, or done.
Gone == {"evict", "forget", "delete", "closed"}

\* A job renders for an open environment.
For(r) == registered \cap job[r].hs

\* One render at a time for a worker, which holds its reservation.
Single ==
    \A r \in Renderers : job[r].pc # "idle" =>
        /\ inflight
        /\ \A q \in Renderers \ {r} : job[q].pc = "idle"
        /\ job[r].pc = "snapshot" => \A h \in Envs : job[r].frame[h] = Pending

\* A generation that is to be recorded has been reached.
Reached ==
    /\ \A h \in registered :
          ctl[h].pc \notin Gone /\ (ctl[h].pc = "rendered" => ctl[h].gen <= dirtyGen[h])
    /\ \A r \in Renderers : \A h \in For(r) :
          job[r].pc \in {"render", "record"} => job[r].gen[h] <= dirtyGen[h]

CacheInv == CacheTypeOK /\ Single /\ Reached

\* What a control call brings is the present state, and no frame is ahead of it.
Behind(h) ==
    /\ cache[h] <= physics[h]
    /\ ctl[h].pc \in {"store", "show"} => ctl[h].frame \in {NoFrame, physics[h]}

\* What a job has rendered is not older than what an earlier job stored.
Newer(j, h) ==
    j.pc = "render" =>
        \/ j.frame[h] \in {Pending, NoFrame}
        \/ j.frame[h] <= physics[h] /\ (by[h] = "render" => cache[h] <= j.frame[h])

ShownInv ==
    /\ \A h \in Envs : Behind(h)
    /\ \A r \in Renderers, h \in Envs : Newer(job[r], h)

-----------------------------------------------------------------------------
(* Lemmas. *)

LEMMA CacheTyped ==
    ASSUME CacheTypeOK
    PROVE  /\ ctl \in [Envs -> Ctls] /\ job \in [Renderers -> Jobs]
           /\ physics \in [Envs -> Versions] /\ cache \in [Envs -> Frames]
           /\ by \in [Envs -> {"control", "render"}]
           /\ dirtyGen \in [Envs -> Nat] /\ renderGen \in [Envs -> Nat]
           /\ registered \subseteq Envs /\ atWorker \subseteq Envs /\ inflight \in BOOLEAN
           /\ Versions \subseteq Nat \ {0} /\ Versions \subseteq Frames /\ Frames \subseteq Nat
           /\ NoFrame \in Frames /\ NoFrame = 0 /\ Pending = -1 /\ 1 \in Versions
  BY RenderAssumption DEF CacheTypeOK, Ctls, Jobs, Versions, Frames, NoFrame, Pending
\* The types of what a control call or a job may change besides its own state.
Rest ==
    /\ physics \in [Envs -> Versions] /\ cache \in [Envs -> Frames]
    /\ by \in [Envs -> {"control", "render"}]
    /\ dirtyGen \in [Envs -> Nat] /\ renderGen \in [Envs -> Nat]
    /\ registered \subseteq Envs /\ atWorker \subseteq Envs /\ inflight \in BOOLEAN

LEMMA RestTyped ==
    ASSUME CacheTypeOK
    PROVE  Rest /\ \A h \in registered : renderGen[h] <= dirtyGen[h]
  BY DEF CacheTypeOK, Rest

LEMMA AfterTyped ==
    ASSUME CacheTypeOK, NEW move
    PROVE  After(move) \in Ctls /\ After(move).pc \in {"idle", "moving"}
<1>1. NoFrame \in Frames /\ 0 \in Nat
  BY CacheTyped
<1> QED  BY <1>1 DEF After, Idle, Moving, Ctls, AllKinds

\* A step of the control call on one environment.
LEMMA CtlStep ==
    ASSUME CacheInv, NEW h \in Envs, NEW c \in Ctls, ctl' = [ctl EXCEPT ![h] = c],
           job' = job, inflight' = inflight, Rest', registered' \subseteq registered,
           h \in registered' =>
              c.pc \notin Gone /\ (c.pc = "rendered" => c.gen <= dirtyGen'[h]),
           \A g \in registered' :
              dirtyGen[g] <= dirtyGen'[g] /\ renderGen'[g] <= dirtyGen'[g]
    PROVE  CacheInv'
<1>1. /\ ctl \in [Envs -> Ctls] /\ job \in [Renderers -> Jobs]
      /\ dirtyGen \in [Envs -> Nat] /\ registered \subseteq Envs
  BY CacheTyped DEF CacheInv
<1>2. /\ ctl' \in [Envs -> Ctls] /\ ctl'[h] = c
      /\ \A g \in Envs \ {h} : ctl'[g] = ctl[g]
  BY <1>1
<1>3. CacheTypeOK'
  BY <1>1, <1>2 DEF CacheTypeOK, Ctls, Jobs, Rest
<1>4. Single'
  BY DEF CacheInv, Single
<1>5. ASSUME NEW g \in registered'
      PROVE  (ctl[g].pc \notin Gone /\ (ctl[g].pc = "rendered" => ctl[g].gen <= dirtyGen[g]))'
  <2>1. CASE g = h
    BY <1>2, <2>1
  <2>2. CASE g # h
    <3>1. ctl'[g] = ctl[g] /\ ctl[g] \in Ctls /\ dirtyGen[g] \in Nat /\ dirtyGen'[g] \in Nat
      BY <1>1, <1>2, <2>2 DEF Rest
    <3>2. ctl[g].gen \in Nat
      BY <3>1 DEF Ctls
    <3> QED  BY <3>1, <3>2 DEF CacheInv, Reached
  <2> QED  BY <2>1, <2>2
<1>6. ASSUME NEW r \in Renderers, NEW g \in For(r)', job[r].pc \in {"render", "record"}
      PROVE  job[r].gen[g] <= dirtyGen'[g]
  <2>1. g \in For(r) /\ g \in registered' /\ g \in Envs
    BY <1>1 DEF For
  <2>2. job[r].gen[g] \in Nat /\ dirtyGen[g] \in Nat /\ dirtyGen'[g] \in Nat
    BY <1>1, <2>1 DEF Jobs, Rest
  <2> QED  BY <1>6, <2>1, <2>2 DEF CacheInv, Reached
<1> QED
  BY <1>3, <1>4, <1>5, <1>6 DEF CacheInv, Reached

\* A step of a render thread.
LEMMA JobStep ==
    ASSUME CacheInv, NEW r \in Renderers, NEW j \in Jobs, job' = [job EXCEPT ![r] = j],
           UNCHANGED <<physics, dirtyGen, ctl, registered, atWorker>>, Rest', Single',
           \A g \in registered : renderGen'[g] <= dirtyGen[g],
           \A g \in registered \cap j.hs :
              j.pc \in {"render", "record"} => j.gen[g] <= dirtyGen[g]
    PROVE  CacheInv'
<1>1. /\ ctl \in [Envs -> Ctls] /\ job \in [Renderers -> Jobs]
  BY CacheTyped DEF CacheInv
<1>2. /\ job' \in [Renderers -> Jobs] /\ job'[r] = j
      /\ \A q \in Renderers \ {r} : job'[q] = job[q]
  BY <1>1
<1>3. CacheTypeOK'
  BY <1>1, <1>2 DEF CacheTypeOK, Ctls, Jobs, Rest
<1>4. ASSUME NEW q \in Renderers, NEW g \in For(q)', job'[q].pc \in {"render", "record"}
      PROVE  job'[q].gen[g] <= dirtyGen'[g]
  BY <1>2, <1>4 DEF CacheInv, Reached, For
<1> QED
  BY <1>3, <1>4 DEF CacheInv, Reached

-----------------------------------------------------------------------------
(* The generations are in order, in any deployment. *)

LEMMA WorkerKeeps ==
    ASSUME CacheInv, NEW h \in Envs, NEW kind \in AllKinds, NEW move \in BOOLEAN,
           StepWorker(h, kind, move)
    PROVE  CacheInv'
<1>1. PICK f : f = IF kind \in {"plain", "badreset"} THEN NoFrame ELSE physics[h] + 1
  OBVIOUS
<1>2. physics[h] + 1 \in Versions /\ f \in Frames
  <2>1. physics[h] \in Versions /\ physics[h] <= MaxSteps
    BY CacheTyped DEF CacheInv, StepWorker
  <2>2. physics[h] + 1 \in Versions
    BY <2>1, RenderAssumption DEF Versions, CacheInv
  <2> QED  BY <1>1, <2>2, CacheTyped DEF CacheInv
<1>3. PICK c \in {Idle, [Moving EXCEPT !.pc = "moved"],
                 [pc |-> "store", kind |-> kind, gen |-> 0, move |-> move, frame |-> f]} :
        ctl' = [ctl EXCEPT ![h] = c]
  BY <1>1 DEF StepWorker
<1>4. c \in Ctls /\ c.pc \in {"idle", "moved", "store"}
  <2>1. NoFrame \in Frames /\ 0 \in Nat
    BY CacheTyped DEF CacheInv
  <2>2. CASE c = Idle
    BY <2>1, <2>2 DEF Idle, Ctls, AllKinds
  <2>3. CASE c = [Moving EXCEPT !.pc = "moved"]
    BY <2>1, <2>3 DEF Idle, Moving, Ctls, AllKinds
  <2>4. CASE c = [pc |-> "store", kind |-> kind, gen |-> 0, move |-> move, frame |-> f]
    BY <1>2, <2>1, <2>4 DEF Ctls
  <2> QED  BY <1>3, <2>2, <2>3, <2>4
<1>5. /\ UNCHANGED <<cache, by, dirtyGen, renderGen, registered, atWorker, inflight, job>>
      /\ physics' = [physics EXCEPT ![h] = physics[h] + 1]
  BY DEF StepWorker
<1>6. Rest'
  BY <1>2, <1>5, RestTyped DEF CacheInv, Rest
<1>7. \A g \in registered' : dirtyGen[g] <= dirtyGen'[g] /\ renderGen'[g] <= dirtyGen'[g]
  BY <1>5, CacheTyped, RestTyped DEF CacheInv
<1> QED
  BY <1>3, <1>4, <1>5, <1>6, <1>7, CtlStep DEF Gone

LEMMA StoreKeeps ==
    ASSUME CacheInv, NEW h \in Envs, StepStore(h)
    PROVE  CacheInv'
<1> DEFINE c == [ctl[h] EXCEPT !.pc = "mark"]
<1>1. ctl[h] \in Ctls /\ ctl[h].frame \in Frames
  BY CacheTyped DEF CacheInv, Ctls
<1>2. c \in Ctls /\ c.pc = "mark" /\ ctl' = [ctl EXCEPT ![h] = c]
  BY <1>1 DEF Ctls, StepStore
<1> HIDE DEF c
<1>3. UNCHANGED <<physics, dirtyGen, renderGen, registered, atWorker, inflight, job>>
  BY DEF StepStore
<1>4. \/ UNCHANGED <<cache, by>>
      \/ \E f \in Frames : /\ cache' = [cache EXCEPT ![h] = f]
                           /\ by' = [by EXCEPT ![h] = "control"]
  BY <1>1 DEF StepStore
<1>5. Rest'
  BY <1>3, <1>4, RestTyped DEF CacheInv, Rest
<1>6. \A g \in registered' : dirtyGen[g] <= dirtyGen'[g] /\ renderGen'[g] <= dirtyGen'[g]
  BY <1>3, CacheTyped, RestTyped DEF CacheInv
<1> QED
  BY <1>2, <1>3, <1>5, <1>6, CtlStep DEF Gone

LEMMA MarkKeeps ==
    ASSUME CacheInv, NEW h \in Envs, StepMark(h)
    PROVE  CacheInv'
<1>0. PICK n : n = dirtyGen[h] + 1
  OBVIOUS
<1>1. /\ ctl[h] \in Ctls /\ dirtyGen[h] \in Nat /\ n \in Nat
      /\ dirtyGen \in [Envs -> Nat]
  BY <1>0, CacheTyped DEF CacheInv
<1>2. PICK c \in {After(ctl[h].move), [ctl[h] EXCEPT !.pc = "rendered", !.gen = n]} :
        ctl' = [ctl EXCEPT ![h] = c]
  BY <1>0 DEF StepMark
<1>3. c \in Ctls /\ c.pc \in {"idle", "moving", "rendered"} /\ (c.pc = "rendered" => c.gen = n)
  <2>2. After(ctl[h].move) \in Ctls /\ After(ctl[h].move).pc \in {"idle", "moving"}
    BY AfterTyped DEF CacheInv
  <2> DEFINE d == [ctl[h] EXCEPT !.pc = "rendered", !.gen = n]
  <2>3. d \in Ctls /\ d.pc = "rendered" /\ d.gen = n
    BY <1>1 DEF Ctls
  <2> HIDE DEF d
  <2>4. c = After(ctl[h].move) \/ c = d
    BY <1>2 DEF d
  <2> QED  BY <2>2, <2>3, <2>4
<1>4. /\ UNCHANGED <<physics, cache, by, renderGen, registered, atWorker, inflight, job>>
      /\ dirtyGen' = [dirtyGen EXCEPT ![h] = n]
  BY <1>0 DEF StepMark
<1>5. Rest'
  BY <1>1, <1>4, RestTyped DEF CacheInv, Rest
<1>6. dirtyGen'[h] = n /\ n <= n
  BY <1>1, <1>4
<1>7. ASSUME NEW g \in registered'
      PROVE  dirtyGen[g] <= dirtyGen'[g] /\ renderGen'[g] <= dirtyGen'[g]
  <2>1. g \in registered /\ g \in Envs /\ renderGen[g] \in Nat /\ dirtyGen[g] \in Nat
        /\ renderGen[g] <= dirtyGen[g]
    BY <1>4, CacheTyped, RestTyped DEF CacheInv
  <2>2. dirtyGen'[g] = dirtyGen[g] \/ dirtyGen'[g] = dirtyGen[g] + 1
    BY <1>0, <1>1, <1>4, <2>1
  <2> QED  BY <1>4, <2>1, <2>2
<1> QED
  BY <1>2, <1>3, <1>4, <1>5, <1>6, <1>7, CtlStep DEF Gone

\* A generation is recorded where it had been reached, so none is ahead.
LEMMA Marks ==
    ASSUME CacheInv, NEW hs \in SUBSET Envs, NEW gen \in [Envs -> Nat],
           MarkRendered(hs, gen), \A g \in registered \cap hs : gen[g] <= dirtyGen[g]
    PROVE  /\ renderGen' \in [Envs -> Nat]
           /\ \A g \in registered : renderGen'[g] <= dirtyGen[g]
<1>1. renderGen \in [Envs -> Nat] /\ registered \subseteq Envs
      /\ \A g \in registered : renderGen[g] <= dirtyGen[g]
  BY CacheTyped, RestTyped DEF CacheInv
<1> QED
  BY <1>1 DEF MarkRendered

LEMMA RenderedKeeps ==
    ASSUME CacheInv, NEW h \in Envs, StepRendered(h)
    PROVE  CacheInv'
<1> DEFINE gen == [g \in Envs |-> ctl[h].gen]
<1>1. ctl[h] \in Ctls /\ ctl[h].gen \in Nat /\ ctl[h].pc = "rendered"
  BY CacheTyped DEF CacheInv, Ctls, StepRendered
<1>2. PICK c : c = After(ctl[h].move)
  OBVIOUS
<1>2a. c \in Ctls /\ c.pc \in {"idle", "moving"}
  BY <1>2, AfterTyped DEF CacheInv
<1>3. ctl' = [ctl EXCEPT ![h] = c] /\ MarkRendered({h}, gen)
      /\ UNCHANGED <<physics, cache, by, dirtyGen, registered, atWorker, inflight, job>>
  BY <1>2 DEF StepRendered
<1>4. gen \in [Envs -> Nat] /\ \A g \in registered \cap {h} : gen[g] <= dirtyGen[g]
  BY <1>1 DEF CacheInv, Reached
<1> HIDE DEF gen
<1>5. renderGen' \in [Envs -> Nat] /\ \A g \in registered : renderGen'[g] <= dirtyGen[g]
  BY <1>3, <1>4, Marks
<1>6. Rest'
  BY <1>3, <1>5, RestTyped DEF CacheInv, Rest
<1>7. \A g \in registered' : dirtyGen[g] <= dirtyGen'[g] /\ renderGen'[g] <= dirtyGen'[g]
  BY <1>3, <1>5, CacheTyped DEF CacheInv
<1> QED
  BY <1>2a, <1>3, <1>6, <1>7, CtlStep DEF Gone

LEMMA MoveKeeps ==
    ASSUME CacheInv, NEW h \in Envs, MoveRender(h) \/ MoveStore(h)
    PROVE  CacheInv'
<1>1. /\ ctl[h] \in Ctls /\ ctl[h].frame \in Frames /\ physics[h] \in Frames
      /\ Idle \in Ctls /\ Idle.pc = "idle"
  <2>1. NoFrame \in Frames /\ 0 \in Nat /\ physics[h] \in Frames /\ ctl[h] \in Ctls
    BY CacheTyped DEF CacheInv
  <2> QED  BY <2>1 DEF Ctls, Idle, AllKinds
<1>2. PICK c : /\ ctl' = [ctl EXCEPT ![h] = c]
               /\ c \in {Idle, [ctl[h] EXCEPT !.pc = "show", !.frame = physics[h]]}
  BY <1>1, ZenonT(40) DEF MoveRender, MoveStore, Ctls
<1>3. c \in Ctls /\ c.pc \in {"idle", "show"}
  BY <1>1, <1>2 DEF Ctls
<1>4. UNCHANGED <<physics, dirtyGen, renderGen, registered, atWorker, inflight, job>>
  BY DEF MoveRender, MoveStore
<1>5. \/ UNCHANGED <<cache, by>>
      \/ \E f \in Frames : /\ cache' = [cache EXCEPT ![h] = f]
                           /\ by' = [by EXCEPT ![h] = "control"]
  BY <1>1 DEF MoveRender, MoveStore
<1>6. Rest'
  BY <1>4, <1>5, RestTyped DEF CacheInv, Rest
<1>7. \A g \in registered' : dirtyGen[g] <= dirtyGen'[g] /\ renderGen'[g] <= dirtyGen'[g]
  BY <1>4, CacheTyped, RestTyped DEF CacheInv
<1> QED
  BY <1>2, <1>3, <1>4, <1>6, <1>7, CtlStep DEF Gone

LEMMA CloseKeeps ==
    ASSUME CacheInv, NEW h \in Envs,
           ClosePop(h) \/ CloseEvict(h) \/ CloseForget(h) \/ CloseDelete(h)
    PROVE  CacheInv'
<1>1. /\ ctl[h] \in Ctls /\ inflight' = inflight /\ job' = job
      /\ Rest /\ \A g \in registered : renderGen[g] <= dirtyGen[g] /\ dirtyGen[g] <= dirtyGen[g]
  BY CacheTyped, RestTyped DEF CacheInv, ClosePop, CloseEvict, CloseForget, CloseDelete
<1>2. PICK l \in Gone : ctl' = [ctl EXCEPT ![h] = [ctl[h] EXCEPT !.pc = l]]
  BY DEF ClosePop, CloseEvict, CloseForget, CloseDelete, Gone
<1> DEFINE c == [ctl[h] EXCEPT !.pc = l]
<1>3. c \in Ctls /\ ctl' = [ctl EXCEPT ![h] = c]
  BY <1>1, <1>2 DEF Ctls, Gone
<1> HIDE DEF c
<1>4. registered' \subseteq registered \ {h}
  BY DEF ClosePop, CloseEvict, CloseForget, CloseDelete, CacheInv, Reached, Gone
<1>5. Rest'
  <2>1. NoFrame \in Frames /\ 0 \in Nat /\ 1 \in Nat
    BY CacheTyped DEF CacheInv
  <2>2. CASE ClosePop(h)
    BY <1>1, <2>2 DEF ClosePop, Rest
  <2>3. CASE CloseEvict(h)
    BY <1>1, <2>1, <2>3 DEF CloseEvict, Rest
  <2>4. CASE CloseForget(h)
    BY <1>1, <2>1, <2>4 DEF CloseForget, Rest
  <2>5. CASE CloseDelete(h)
    BY <1>1, <2>5 DEF CloseDelete, Rest
  <2> QED  BY <2>2, <2>3, <2>4, <2>5
<1>6. \A g \in registered' : dirtyGen'[g] = dirtyGen[g] /\ renderGen'[g] = renderGen[g]
  BY <1>1, <1>4 DEF ClosePop, CloseEvict, CloseForget, CloseDelete, Rest
<1> QED
  BY <1>1, <1>3, <1>4, <1>5, <1>6, CtlStep
LEMMA ReserveKeeps ==
    ASSUME CacheInv, NEW r \in Renderers, Tick(r)
    PROVE  CacheInv'
<1>1. PICK hs \in SUBSET Envs : Reserve(r, hs)
  BY CacheTyped DEF CacheInv, Tick
<1> DEFINE j == [NoJob EXCEPT !.pc = "snapshot", !.hs = hs]
<1>2. j \in Jobs /\ j.pc = "snapshot" /\ \A h \in Envs : j.frame[h] = Pending
  BY DEF NoJob, Jobs
<1>3. job' = [job EXCEPT ![r] = j] /\ inflight' = TRUE /\ ~inflight
      /\ UNCHANGED <<physics, cache, by, dirtyGen, renderGen, ctl, registered, atWorker>>
  BY <1>1 DEF Reserve
<1> HIDE DEF j
<1>4. job \in [Renderers -> Jobs] /\ \A q \in Renderers : job[q].pc = "idle"
  BY <1>3, CacheTyped DEF CacheInv, Single
<1>5. Single'
  BY <1>2, <1>3, <1>4 DEF Single
<1>6. Rest' /\ \A g \in registered : renderGen'[g] <= dirtyGen[g]
  BY <1>3, RestTyped DEF CacheInv, Rest
<1> QED
  BY <1>2, <1>3, <1>5, <1>6, JobStep

\* A render thread that keeps its reservation leaves the others idle.
LEMMA StaysSingle ==
    ASSUME CacheInv, NEW r \in Renderers, NEW j \in Jobs, job' = [job EXCEPT ![r] = j],
           job[r].pc # "idle", j.pc # "snapshot", inflight' = inflight
    PROVE  Single'
<1>1. job \in [Renderers -> Jobs]
  BY CacheTyped DEF CacheInv
<1>2. inflight /\ \A q \in Renderers \ {r} : job[q].pc = "idle"
  BY DEF CacheInv, Single
<1> QED
  BY <1>1, <1>2 DEF Single

LEMMA SnapshotKeeps ==
    ASSUME CacheInv, NEW r \in Renderers, Snapshot(r)
    PROVE  CacheInv'
<1> DEFINE gen == [h \in Envs |-> IF h \in job[r].hs THEN dirtyGen[h] ELSE 0]
<1> DEFINE j == [job[r] EXCEPT !.pc = "render", !.gen = gen]
<1>1. job[r] \in Jobs /\ dirtyGen \in [Envs -> Nat] /\ job[r].pc = "snapshot"
      /\ job[r].hs \subseteq Envs
  BY CacheTyped DEF CacheInv, Snapshot, Jobs
<1>2. gen \in [Envs -> Nat] /\ \A h \in job[r].hs : gen[h] <= dirtyGen[h]
  BY <1>1
<1>3. job' = [job EXCEPT ![r] = j]
      /\ UNCHANGED <<physics, cache, by, dirtyGen, renderGen, ctl, registered, atWorker, inflight>>
  BY DEF Snapshot
<1> HIDE DEF gen
<1>4. j \in Jobs /\ j.pc = "render" /\ j.hs = job[r].hs /\ j.gen = gen
  BY <1>1, <1>2 DEF Jobs
<1> HIDE DEF j
<1>5. Single'
  BY <1>1, <1>3, <1>4, StaysSingle
<1>6. Rest' /\ \A g \in registered : renderGen'[g] <= dirtyGen[g]
  BY <1>3, RestTyped DEF CacheInv, Rest
<1> QED
  BY <1>2, <1>3, <1>4, <1>5, <1>6, JobStep

\* The frame a job gets of an environment.
LEMMA RenderOneIs ==
    ASSUME CacheInv, NEW r \in Renderers, NEW h \in Envs, RenderOne(r, h)
    PROVE  \E f \in {physics[h], NoFrame} :
              /\ [job[r] EXCEPT !.frame[h] = f] \in Jobs
              /\ job' = [job EXCEPT ![r] = [job[r] EXCEPT !.frame[h] = f]]
              /\ f = NoFrame => h \notin atWorker \/ RenderMayFail
<1>1. job[r] \in Jobs /\ physics[h] \in Frames /\ NoFrame \in Frames /\ NoFrame \notin Versions
      /\ physics[h] \in Versions
  BY CacheTyped DEF CacheInv
<1>2. PICK f \in {physics[h], NoFrame} :
        /\ job' = [job EXCEPT ![r] = [job[r] EXCEPT !.frame[h] = f]]
        /\ f = NoFrame => h \notin atWorker \/ RenderMayFail
  BY <1>1 DEF RenderOne
<1>3. [job[r] EXCEPT !.frame[h] = f] \in Jobs
  BY <1>1, <1>2 DEF Jobs
<1> QED
  BY <1>2, <1>3

LEMMA RenderKeeps ==
    ASSUME CacheInv, NEW r \in Renderers, NEW h \in Envs, RenderOne(r, h)
    PROVE  CacheInv'
<1>1. PICK f \in {physics[h], NoFrame} :
        /\ [job[r] EXCEPT !.frame[h] = f] \in Jobs
        /\ job' = [job EXCEPT ![r] = [job[r] EXCEPT !.frame[h] = f]]
  BY RenderOneIs
<1> DEFINE j == [job[r] EXCEPT !.frame[h] = f]
<1>2. j \in Jobs /\ job' = [job EXCEPT ![r] = j]
  BY <1>1
<1>3. job[r].pc = "render" /\ j.pc = job[r].pc /\ j.hs = job[r].hs /\ j.gen = job[r].gen
      /\ UNCHANGED <<physics, cache, by, dirtyGen, renderGen, ctl, registered, atWorker, inflight>>
  BY CacheTyped DEF RenderOne, CacheInv, Jobs
<1> HIDE DEF j
<1>4. Single'
  BY <1>2, <1>3, StaysSingle
<1>5. Rest' /\ \A g \in registered : renderGen'[g] <= dirtyGen[g]
  BY <1>3, RestTyped DEF CacheInv, Rest
<1>6. \A g \in registered \cap j.hs : j.gen[g] <= dirtyGen[g]
  BY <1>3 DEF CacheInv, Reached, For
<1> QED
  BY <1>2, <1>3, <1>4, <1>5, <1>6, JobStep

LEMMA StoreFramesKeeps ==
    ASSUME CacheInv, NEW r \in Renderers, StoreFrames(r)
    PROVE  CacheInv'
<1> DEFINE j == [job[r] EXCEPT !.pc = "record", !.frame = NoJob.frame]
<1>1. /\ job[r] \in Jobs /\ job[r].pc = "render" /\ cache \in [Envs -> Frames]
      /\ by \in [Envs -> {"control", "render"}]
      /\ UNCHANGED <<physics, dirtyGen, renderGen, ctl, registered, atWorker, inflight>>
  BY CacheTyped DEF CacheInv, StoreFrames
<1>2. j \in Jobs /\ j.pc = "record" /\ j.hs = job[r].hs /\ j.gen = job[r].gen
      /\ job' = [job EXCEPT ![r] = j]
  BY <1>1 DEF Jobs, StoreFrames, NoJob
<1> HIDE DEF j
<1>3. cache' \in [Envs -> Frames] /\ by' \in [Envs -> {"control", "render"}]
  <2>1. \A h \in Envs : h \in job[r].hs => job[r].frame[h] \in Frames
    BY <1>1 DEF StoreFrames, Jobs
  <2> QED  BY <1>1, <2>1 DEF StoreFrames, Show, Shown
<1>4. Single'
  BY <1>1, <1>2, StaysSingle
<1>5. Rest' /\ \A g \in registered : renderGen'[g] <= dirtyGen[g]
  BY <1>1, <1>3, RestTyped DEF CacheInv, Rest
<1>6. \A g \in registered \cap j.hs : j.gen[g] <= dirtyGen[g]
  BY <1>1, <1>2 DEF CacheInv, Reached, For
<1> QED
  BY <1>1, <1>2, <1>4, <1>5, <1>6, JobStep

LEMMA RecordKeeps ==
    ASSUME CacheInv, NEW r \in Renderers, RecordRendered(r)
    PROVE  CacheInv'
<1> DEFINE j == [NoJob EXCEPT !.pc = "finish"]
<1>1. /\ job[r] \in Jobs /\ job[r].pc = "record" /\ MarkRendered(job[r].hs, job[r].gen)
      /\ UNCHANGED <<physics, cache, by, dirtyGen, ctl, registered, atWorker, inflight>>
  BY CacheTyped DEF CacheInv, RecordRendered
<1>2. j \in Jobs /\ j.pc = "finish" /\ job' = [job EXCEPT ![r] = j]
  BY DEF Jobs, RecordRendered, NoJob
<1> HIDE DEF j
<1>3. /\ job[r].hs \in SUBSET Envs /\ job[r].gen \in [Envs -> Nat]
      /\ \A g \in registered \cap job[r].hs : job[r].gen[g] <= dirtyGen[g]
  BY <1>1 DEF Jobs, CacheInv, Reached, For
<1>4. renderGen' \in [Envs -> Nat] /\ \A g \in registered : renderGen'[g] <= dirtyGen[g]
  BY <1>1, <1>3, Marks
<1>5. Single'
  BY <1>1, <1>2, StaysSingle
<1>6. Rest'
  BY <1>1, <1>4, RestTyped DEF CacheInv, Rest
<1> QED
  BY <1>1, <1>2, <1>4, <1>5, <1>6, JobStep

LEMMA FinishKeeps ==
    ASSUME CacheInv, NEW r \in Renderers, Finish(r)
    PROVE  CacheInv'
<1>1. NoJob \in Jobs /\ NoJob.pc = "idle"
  BY DEF NoJob, Jobs
<1>2. /\ job' = [job EXCEPT ![r] = NoJob] /\ inflight' = FALSE /\ job[r].pc = "finish"
      /\ UNCHANGED <<physics, cache, by, dirtyGen, renderGen, ctl, registered, atWorker>>
  BY DEF Finish
<1>3. Single'
  <2>1. job \in [Renderers -> Jobs] /\ \A q \in Renderers \ {r} : job[q].pc = "idle"
    BY <1>2, CacheTyped DEF CacheInv, Single
  <2> QED  BY <1>1, <1>2, <2>1 DEF Single
<1>4. Rest' /\ \A g \in registered : renderGen'[g] <= dirtyGen[g]
  BY <1>2, RestTyped DEF CacheInv, Rest
<1> QED
  BY <1>1, <1>2, <1>3, <1>4, JobStep
-----------------------------------------------------------------------------
(* The theorems. *)

\* What can happen in any deployment.
Steps ==
    \/ \E h \in Envs :
        \/ \E kind \in AllKinds, move \in BOOLEAN : StepWorker(h, kind, move)
        \/ ClosePop(h) \/ Control(h)
    \/ \E r \in Renderers : Tick(r) \/ Refresh(r)
    \/ UNCHANGED vars

LEMMA InitCacheInv ==
    ASSUME CacheInit
    PROVE  CacheInv
<1>1. /\ 1 \in Versions /\ 1 \in Frames /\ NoFrame \in Frames
      /\ 2 \in Nat /\ 0 \in Nat /\ 1 <= 1 /\ 2 <= 2
  BY RenderAssumption DEF Versions, Frames
<1>2. NoJob \in Jobs /\ NoJob.pc = "idle" /\ NoJob.hs = {} /\ Idle \in Ctls /\ Idle.pc = "idle"
  BY <1>1 DEF NoJob, Jobs, Idle, Ctls, AllKinds
<1>3. ctl \in [Envs -> Ctls] /\ job \in [Renderers -> Jobs]
  BY <1>2 DEF CacheInit
<1>4. CacheTypeOK
  BY <1>1, <1>3 DEF CacheInit, CacheTypeOK, Ctls, Jobs
<1>5. /\ \A h \in Envs : ctl[h].pc = "idle"
      /\ \A r \in Renderers : job[r].pc = "idle" /\ job[r].hs = {}
      /\ registered = Envs
  BY <1>2 DEF CacheInit
<1> QED
  BY <1>4, <1>5 DEF CacheInv, Single, Reached, Gone, For

LEMMA StepsCacheInv ==
    ASSUME CacheInv, Steps
    PROVE  CacheInv'
<1>1. CASE UNCHANGED vars
  BY <1>1 DEF vars, CacheInv, CacheTypeOK, Single, Reached, For
<1>2. ASSUME NEW h \in Envs, ClosePop(h) \/ Control(h) PROVE CacheInv'
  BY <1>2, StoreKeeps, MarkKeeps, RenderedKeeps, MoveKeeps, CloseKeeps DEF Control
<1>3. ASSUME NEW r \in Renderers, Tick(r) \/ Refresh(r) PROVE CacheInv'
  BY <1>3, ReserveKeeps, SnapshotKeeps, RenderKeeps, StoreFramesKeeps, RecordKeeps,
     FinishKeeps DEF Refresh
<1> QED
  BY <1>1, <1>2, <1>3, WorkerKeeps DEF Steps

LEMMA NextSteps == [CacheNext]_vars => Steps
  BY RenderAssumption DEF CacheNext, Steps, Quiescent

\* However renders of the pool's threads overlap control calls, one job has the
\* worker's reservation and no generation is recorded before it is reached.
THEOREM CacheInductive == CacheSpec => []CacheInv
<1>1. CacheInit => CacheInv
  BY InitCacheInv
<1>2. CacheInv /\ [CacheNext]_vars => CacheInv'
  BY NextSteps, StepsCacheInv DEF CacheInv
<1> QED  BY <1>1, <1>2, PTL DEF CacheSpec

\* The state of the cache keeps its types, and no recorded render is ahead of
\* the physics, for any number of environments and threads and all kinds of calls.
THEOREM CacheTypeCorrect == CacheSpec => []CacheTypeOK
<1>1. CacheInv => CacheTypeOK
  BY DEF CacheInv
<1> QED  BY <1>1, CacheInductive, PTL
-----------------------------------------------------------------------------
(* What the dashboard shows. *)

\* A step of the control call on one environment, which may store the present
\* state as its frame.
LEMMA ShownCtl ==
    ASSUME CacheInv, ShownInv, NEW h \in Envs, NEW c \in Ctls,
           ctl' = [ctl EXCEPT ![h] = c], job' = job,
           \A g \in Envs \ {h} : /\ physics'[g] = physics[g]
                                 /\ cache'[g] = cache[g] /\ by'[g] = by[g],
           physics[h] <= physics'[h] /\ physics'[h] \in Nat,
           \/ cache'[h] = cache[h] /\ by'[h] = by[h]
           \/ cache'[h] \in {NoFrame, physics[h]} /\ by'[h] = "control",
           c.pc \in {"store", "show"} => c.frame \in {NoFrame, physics'[h]}
    PROVE  /\ ShownInv'
           /\ \A g \in Envs : cache'[g] = NoFrame \/ cache[g] <= cache'[g]
<1>1. /\ ctl \in [Envs -> Ctls] /\ job \in [Renderers -> Jobs]
      /\ physics[h] \in Nat /\ cache[h] \in Nat /\ NoFrame = 0
      /\ \A g \in Envs : cache[g] \in Nat
  BY CacheTyped DEF CacheInv
<1>2. ctl'[h] = c /\ \A g \in Envs \ {h} : ctl'[g] = ctl[g]
  BY <1>1
<1>3. Behind(h)'
  BY <1>1, <1>2 DEF ShownInv, Behind
<1>4. \A g \in Envs \ {h} : Behind(g)'
  BY <1>2 DEF ShownInv, Behind
<1>5. ASSUME NEW r \in Renderers, NEW g \in Envs PROVE Newer(job[r], g)'
  <2>1. job[r].pc = "render" /\ job[r].frame[g] \notin {Pending, NoFrame}
           => job[r].frame[g] \in Nat
    BY <1>1, CacheTyped DEF Jobs, CacheInv
  <2>2. Newer(job[r], g)
    BY DEF ShownInv
  <2>3. CASE g # h
    BY <2>2, <2>3 DEF Newer
  <2>4. CASE g = h
    BY <1>1, <2>1, <2>2, <2>4 DEF Newer
  <2> QED  BY <2>3, <2>4
<1>6. cache'[h] = NoFrame \/ cache[h] <= cache'[h]
  BY <1>1 DEF ShownInv, Behind
<1> QED
  BY <1>1, <1>3, <1>4, <1>5, <1>6 DEF ShownInv

LEMMA ShownCtls ==
    ASSUME CacheInv, ShownInv, NEW h \in Envs,
           \/ \E kind \in AllKinds, move \in BOOLEAN : StepWorker(h, kind, move)
           \/ ClosePop(h) \/ Control(h)
    PROVE  /\ ShownInv'
           /\ \A g \in Envs : cache'[g] = NoFrame \/ cache[g] <= cache'[g]
<1>0. /\ CacheInv' /\ ctl' \in [Envs -> Ctls] /\ ctl \in [Envs -> Ctls]
  <2>1. Steps
    BY DEF Steps
  <2>2. CacheInv'
    BY <2>1, StepsCacheInv
  <2>3. CacheTypeOK'
    BY <2>2 DEF CacheInv
  <2> QED  BY <2>2, <2>3, CacheTyped DEF CacheInv, CacheTypeOK, Ctls
<1>1. ctl'[h] \in Ctls
  BY <1>0
<1>2. /\ physics[h] \in Nat /\ physics \in [Envs -> Versions]
      /\ cache \in [Envs -> Frames] /\ by \in [Envs -> {"control", "render"}]
      /\ physics[h] <= physics[h] + 1 /\ physics[h] <= physics[h]
      /\ physics[h] + 1 \in Nat
  BY CacheTyped DEF CacheInv
<1>3. ASSUME NEW kind \in AllKinds, NEW move \in BOOLEAN, StepWorker(h, kind, move)
      PROVE  /\ ctl' = [ctl EXCEPT ![h] = ctl'[h]] /\ job' = job
             /\ UNCHANGED <<cache, by>> /\ physics' = [physics EXCEPT ![h] = physics[h] + 1]
             /\ ctl'[h].pc \in {"store", "show"} => ctl'[h].frame \in {NoFrame, physics[h] + 1}
  <2>1. ctl' = [ctl EXCEPT ![h] = ctl'[h]] /\ job' = job
    BY <1>0, <1>3 DEF StepWorker
  <2>2. UNCHANGED <<cache, by>> /\ physics' = [physics EXCEPT ![h] = physics[h] + 1]
    BY <1>3 DEF StepWorker
  <2>3. kind = "error" => ctl'[h].pc \notin {"store", "show"}
    BY <1>0, <1>3 DEF StepWorker, Idle, Moving
  <2>4. kind # "error" => ctl'[h].frame \in {NoFrame, physics[h] + 1}
    BY <1>0, <1>3 DEF StepWorker
  <2> QED  BY <2>1, <2>2, <2>3, <2>4
<1>4. ASSUME ClosePop(h) \/ StepMark(h) \/ StepRendered(h) \/ CloseForget(h) \/ CloseDelete(h)
      PROVE  /\ ctl' = [ctl EXCEPT ![h] = ctl'[h]] /\ job' = job
             /\ UNCHANGED <<physics, cache, by>>
             /\ ctl'[h].pc \notin {"store", "show"}
  <2>1. CASE ClosePop(h)
    BY <1>0, <2>1 DEF ClosePop, Ctls
  <2>2. CASE StepMark(h)
    <3>1. ctl'[h].pc \in {"rendered", "idle", "moving"}
      BY <1>0, <2>2 DEF StepMark, After, Idle, Moving, Ctls
    <3>2. ctl' = [ctl EXCEPT ![h] = ctl'[h]]
      BY <1>0, <2>2 DEF StepMark
    <3> QED  BY <2>2, <3>1, <3>2 DEF StepMark
  <2>3. CASE StepRendered(h)
    BY <1>0, <2>3 DEF StepRendered, After, Idle, Moving, Ctls
  <2>4. CASE CloseForget(h)
    BY <1>0, <2>4 DEF CloseForget, Ctls
  <2>5. CASE CloseDelete(h)
    BY <1>0, <2>5 DEF CloseDelete, Ctls
  <2> QED  BY <1>4, <2>1, <2>2, <2>3, <2>4, <2>5
<1>5. ASSUME StepStore(h) \/ MoveStore(h) \/ CloseEvict(h)
      PROVE  /\ ctl' = [ctl EXCEPT ![h] = ctl'[h]] /\ job' = job /\ physics' = physics
             /\ \A g \in Envs \ {h} : cache'[g] = cache[g] /\ by'[g] = by[g]
             /\ \/ cache'[h] = cache[h] /\ by'[h] = by[h]
                \/ cache'[h] \in {NoFrame, physics[h]} /\ by'[h] = "control"
             /\ ctl'[h].pc \notin {"store", "show"}
  <2>1. ctl[h].pc \in {"store", "show"} => ctl[h].frame \in {NoFrame, physics[h]}
    BY DEF ShownInv, Behind
  <2>2. CASE StepStore(h)
    BY <1>0, <1>2, <2>1, <2>2 DEF StepStore, Ctls
  <2>3. CASE MoveStore(h)
    BY <1>0, <1>2, <2>1, <2>3 DEF MoveStore, Idle, Ctls
  <2>4. CASE CloseEvict(h)
    BY <1>0, <1>2, <2>4 DEF CloseEvict, Ctls
  <2> QED  BY <1>5, <2>2, <2>3, <2>4
<1>6. ASSUME MoveRender(h)
      PROVE  /\ ctl' = [ctl EXCEPT ![h] = ctl'[h]] /\ job' = job
             /\ UNCHANGED <<physics, cache, by>>
             /\ ctl'[h].pc \in {"store", "show"} => ctl'[h].frame = physics[h]
  BY <1>0, <1>6 DEF MoveRender, Idle, Ctls
<1>7. CASE \E kind \in AllKinds, move \in BOOLEAN : StepWorker(h, kind, move)
  <2>1. physics'[h] = physics[h] + 1 /\ \A g \in Envs \ {h} : physics'[g] = physics[g]
    BY <1>2, <1>3, <1>7
  <2> QED  BY <1>1, <1>2, <1>3, <1>7, <2>1, ShownCtl
<1>8. CASE ClosePop(h) \/ StepMark(h) \/ StepRendered(h) \/ CloseForget(h) \/ CloseDelete(h)
  BY <1>1, <1>2, <1>4, <1>8, ShownCtl
<1>9. CASE StepStore(h) \/ MoveStore(h) \/ CloseEvict(h)
  BY <1>1, <1>2, <1>5, <1>9, ShownCtl
<1>10. CASE MoveRender(h)
  BY <1>1, <1>2, <1>6, <1>10, ShownCtl
<1> QED
  BY <1>7, <1>8, <1>9, <1>10 DEF Control

\* A step of a render thread that stores no frame.
LEMMA ShownJob ==
    ASSUME CacheInv, ShownInv, NEW r \in Renderers, NEW j \in Jobs,
           job' = [job EXCEPT ![r] = j], UNCHANGED <<physics, cache, by, ctl>>,
           \A h \in Envs : Newer(j, h)
    PROVE  ShownInv'
<1>1. job'[r] = j /\ \A q \in Renderers \ {r} : job'[q] = job[q]
  BY CacheTyped DEF CacheInv
<1> QED
  BY <1>1 DEF ShownInv, Behind, Newer

LEMMA ShownJobs ==
    ASSUME CacheInv, ShownInv, NEW r \in Renderers,
           Tick(r) \/ Snapshot(r) \/ RecordRendered(r) \/ Finish(r)
    PROVE  ShownInv' /\ UNCHANGED <<cache, by>>
<1>1. job[r] \in Jobs /\ dirtyGen \in [Envs -> Nat] /\ registered \subseteq Envs
  BY CacheTyped DEF CacheInv
<1>2. UNCHANGED <<physics, cache, by, ctl>>
  BY DEF Tick, Reserve, Snapshot, RecordRendered, Finish
<1>3. CASE Tick(r)
  <2>1. PICK hs \in SUBSET Envs : Reserve(r, hs)
    BY <1>1, <1>3 DEF Tick
  <2> DEFINE j == [NoJob EXCEPT !.pc = "snapshot", !.hs = hs]
  <2>2. j \in Jobs /\ j.pc # "render" /\ job' = [job EXCEPT ![r] = j]
    BY <2>1 DEF NoJob, Jobs, Reserve
  <2> HIDE DEF j
  <2> QED  BY <1>2, <2>2, ShownJob DEF Newer
<1>4. CASE Snapshot(r)
  <2> DEFINE gen == [h \in Envs |-> IF h \in job[r].hs THEN dirtyGen[h] ELSE 0]
             j == [job[r] EXCEPT !.pc = "render", !.gen = gen]
  <2>1. gen \in [Envs -> Nat]
    BY <1>1
  <2>2. job' = [job EXCEPT ![r] = j]
    BY <1>4 DEF Snapshot
  <2>3. \A h \in Envs : job[r].frame[h] = Pending
    BY <1>4 DEF Snapshot, CacheInv, Single
  <2> HIDE DEF gen
  <2>4. j \in Jobs /\ j.frame = job[r].frame
    BY <1>1, <2>1 DEF Jobs
  <2> HIDE DEF j
  <2> QED  BY <1>2, <2>2, <2>3, <2>4, ShownJob DEF Newer
<1>5. CASE RecordRendered(r) \/ Finish(r)
  <2>1. PICK l \in {"idle", "finish"} : job' = [job EXCEPT ![r] = [NoJob EXCEPT !.pc = l]]
    BY <1>5 DEF RecordRendered, Finish, NoJob
  <2> DEFINE j == [NoJob EXCEPT !.pc = l]
  <2>2. j \in Jobs /\ j.pc # "render" /\ job' = [job EXCEPT ![r] = j]
    BY <2>1 DEF NoJob, Jobs
  <2> HIDE DEF j
  <2> QED  BY <1>2, <2>2, ShownJob DEF Newer
<1> QED
  BY <1>2, <1>3, <1>4, <1>5

\* What is rendered is the present state, which is not older than any frame.
LEMMA ShownRender ==
    ASSUME CacheInv, ShownInv, NEW r \in Renderers, NEW h \in Envs, RenderOne(r, h)
    PROVE  ShownInv' /\ UNCHANGED <<cache, by>>
<1>1. PICK f \in {physics[h], NoFrame} :
        /\ [job[r] EXCEPT !.frame[h] = f] \in Jobs
        /\ job' = [job EXCEPT ![r] = [job[r] EXCEPT !.frame[h] = f]]
  BY RenderOneIs
<1> DEFINE j == [job[r] EXCEPT !.frame[h] = f]
<1>2. job[r] \in Jobs /\ physics[h] \in Nat /\ cache[h] <= physics[h]
      /\ \A g \in Envs : Newer(job[r], g)
  BY CacheTyped DEF CacheInv, ShownInv, Behind
<1>3. /\ j \in Jobs /\ job' = [job EXCEPT ![r] = j]
      /\ j.pc = job[r].pc /\ j.frame[h] = f /\ \A g \in Envs \ {h} : j.frame[g] = job[r].frame[g]
  BY <1>1, <1>2 DEF Jobs
<1>4. UNCHANGED <<physics, cache, by, ctl>>
  BY DEF RenderOne
<1> HIDE DEF j
<1>5. \A g \in Envs : Newer(j, g)
  BY <1>2, <1>3 DEF Newer
<1> QED
  BY <1>3, <1>4, <1>5, ShownJob

\* The frames of a job replace those of earlier jobs by later ones.
LEMMA ShownStore ==
    ASSUME CacheInv, ShownInv, NEW r \in Renderers, StoreFrames(r)
    PROVE  /\ ShownInv'
           /\ \A h \in Envs : \/ cache[h] <= cache'[h]
                              \/ by[h] = "control" /\ by'[h] = "render"
<1>1. /\ job[r] \in Jobs /\ job[r].pc = "render" /\ job[r].hs \subseteq Envs
      /\ \A h \in Envs : /\ cache[h] \in Nat /\ physics[h] \in Nat
                         /\ by[h] \in {"control", "render"}
      /\ \A q \in Renderers \ {r} : job[q].pc = "idle"
      /\ NoFrame = 0 /\ job \in [Renderers -> Jobs]
  BY CacheTyped DEF CacheInv, StoreFrames, Single, Jobs
<1>2. /\ Show(r) /\ \A h \in job[r].hs : job[r].frame[h] # Pending
      /\ job'[r].pc = "record" /\ \A q \in Renderers \ {r} : job'[q] = job[q]
      /\ UNCHANGED <<physics, ctl>>
  BY <1>1 DEF StoreFrames, Jobs
<1>3. ASSUME NEW h \in Envs
      PROVE  /\ Behind(h)'
             /\ cache[h] <= cache'[h] \/ (by[h] = "control" /\ by'[h] = "render")
  <2>1. Behind(h) /\ Newer(job[r], h)
    BY DEF ShownInv
  <2>2. CASE h \in Shown(r)
    <3>1. cache'[h] = job[r].frame[h] /\ by'[h] = "render"
      BY <1>2, <2>2 DEF Show
    <3>2. job[r].frame[h] \notin {Pending, NoFrame}
      BY <1>2, <2>2 DEF Shown
    <3>3. job[r].frame[h] <= physics[h] /\ (by[h] = "render" => cache[h] <= job[r].frame[h])
      BY <1>1, <2>1, <3>2 DEF Newer
    <3> QED  BY <1>1, <1>2, <2>1, <3>1, <3>3 DEF Behind
  <2>3. CASE h \notin Shown(r)
    <3>1. cache'[h] = cache[h]
      BY <1>2, <2>3 DEF Show
    <3> QED  BY <1>1, <1>2, <2>1, <3>1 DEF Behind
  <2> QED  BY <2>2, <2>3
<1>4. ASSUME NEW q \in Renderers, NEW h \in Envs PROVE Newer(job[q], h)'
  BY <1>1, <1>2 DEF Newer
<1> QED
  BY <1>3, <1>4 DEF ShownInv

\* Only a background render takes a frame back in time, and only one that a
\* control call brought: so for any number of environments and render threads,
\* calls of all kinds and failing renders (_refresh_cache_for_worker, move_to).
THEOREM NeverBackCorrect == CacheSpec => RenderNeverGoesBack
<1> DEFINE Forth == \A h \in Envs :
                      cache'[h] # NoFrame /\ cache'[h] < cache[h]
                      => by[h] = "control" /\ by'[h] = "render"
<1>1. CacheInit => ShownInv
  <2>1. SUFFICES ASSUME CacheInit PROVE ShownInv
    OBVIOUS
  <2>2. \A h \in Envs : cache[h] = 1 /\ physics[h] = 1 /\ ctl[h].pc = "idle"
    BY <2>1 DEF CacheInit, Idle
  <2>3. \A r \in Renderers : job[r].pc = "idle"
    BY <2>1 DEF CacheInit, NoJob
  <2> QED  BY <2>2, <2>3 DEF ShownInv, Behind, Newer
<1>2. CacheInv /\ ShownInv /\ [CacheNext]_vars => ShownInv' /\ [Forth]_vars
  <2>1. SUFFICES ASSUME CacheInv, ShownInv, Steps PROVE ShownInv' /\ [Forth]_vars
    BY NextSteps
  <2>2. \A h \in Envs : cache[h] \in Nat
    BY <2>1, CacheTyped DEF CacheInv
  <2>3. ASSUME \A g \in Envs : cache'[g] = NoFrame \/ cache[g] <= cache'[g] PROVE Forth
    <3>1. SUFFICES ASSUME NEW h \in Envs, cache'[h] # NoFrame, cache'[h] < cache[h] PROVE FALSE
      OBVIOUS
    <3>2. CacheTypeOK'
      BY <2>1, StepsCacheInv DEF CacheInv
    <3>3. cache'[h] \in Nat
      BY <3>2, RenderAssumption DEF CacheTypeOK, Frames, Versions, NoFrame
    <3> QED  BY <2>2, <2>3, <3>1, <3>3
  <2>4. CASE UNCHANGED vars
    BY <2>1, <2>4 DEF vars, ShownInv, Behind, Newer
  <2>5. ASSUME NEW h \in Envs,
               \/ \E kind \in AllKinds, move \in BOOLEAN : StepWorker(h, kind, move)
               \/ ClosePop(h) \/ Control(h)
        PROVE  ShownInv' /\ Forth
    BY <2>1, <2>3, <2>5, ShownCtls
  <2>6. ASSUME NEW r \in Renderers, Tick(r) \/ Refresh(r) PROVE ShownInv' /\ Forth
    <3>1. CASE StoreFrames(r)
      <4>1. CacheTypeOK'
        BY <2>1, StepsCacheInv DEF CacheInv
      <4>2. \A h \in Envs : cache'[h] \in Nat
        BY <4>1, RenderAssumption DEF CacheTypeOK, Frames, Versions, NoFrame
      <4> QED  BY <2>1, <2>2, <3>1, <4>2, ShownStore
    <3>2. CASE ~StoreFrames(r)
      <4>1. ShownInv' /\ UNCHANGED <<cache, by>>
        BY <2>1, <2>6, <3>2, ShownJobs, ShownRender DEF Refresh
      <4> QED  BY <2>2, <4>1
    <3> QED  BY <3>1, <3>2
  <2> QED  BY <2>1, <2>4, <2>5, <2>6 DEF Steps
<1> QED
  BY <1>1, <1>2, CacheInductive, PTL DEF CacheSpec, RenderNeverGoesBack

=============================================================================
