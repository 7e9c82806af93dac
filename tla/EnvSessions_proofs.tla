-------------------------- MODULE EnvSessions_proofs --------------------------
(***************************************************************************)
(* Proofs about EnvSessions for any number of environments, sessions,       *)
(* threads, locks, calls and sweeps: the control tools exclude each other   *)
(* although close_env throws the lock away.  While no session is swept, a    *)
(* tool only talks to open environments, none is lost, and the tools use the *)
(* pool by its contract.                                                    *)
(***************************************************************************)
EXTENDS MCEnvSessions, FiniteSetTheorems, TLAPS

Labels == {"idle", "touch", "acquire", "post", "createfailed", "setdefault", "insert",
           "getlock", "lock", "lookup", "remote", "getdict", "pop", "delete", "release",
           "unlock", "droplock"}

Calls == [op : {"none", "create", "control", "close"},
          s : Sessions \cup {None}, h : Handles \cup {None},
          dict : 0..MaxSweeps, lock : Locks \cup {None}]

Making == {"touch", "acquire", "post", "createfailed", "setdefault", "insert"}
Locked == {"lookup", "remote", "getdict", "pop", "delete", "release", "unlock"}
HasLock == Locked \cup {"lock", "droplock"}

\* What a thread knows of its own call.
Thr(t) ==
    LET c == call[t] IN
    /\ pc[t] = "idle" <=> c.h = None
    /\ pc[t] = "idle" <=> c.s = None
    /\ pc[t] \in Making =>
         /\ home[c.h] = None
         /\ \A u \in Threads \ {t} : call[u].h # c.h
         /\ pc[t] \notin {"touch", "acquire"} => phase[c.h] # "unused"
         /\ pc[t] = "insert" => c.dict <= current[c.s]
    /\ pc[t] \notin Making \cup {"idle"} => home[c.h] = c.s
    /\ pc[t] \in HasLock => c.lock \in Locks
    /\ pc[t] \in Locked => holder[c.lock] = t
    /\ pc[t] \in {"getdict", "pop", "delete", "release", "droplock"} => c.op = "close"
    /\ pc[t] \in {"lookup", "remote"} => c.op # "close"
    /\ pc[t] = "pop" => /\ c.dict <= current[c.s]
                        /\ \A n \in 0..MaxSweeps : c.h \in envs[c.s][n] => n <= c.dict

\* A dictionary that has the environment is one of its session's.
Kept(h) ==
    /\ \A s \in Sessions : \A n \in 0..MaxSweeps :
          h \in envs[s][n] => home[h] = s /\ n <= current[s]
    /\ home[h] # None => phase[h] # "unused"

\* The call talks to the environment's worker, or will unless it is swept.
Hot(t) ==
    LET c == call[t] IN
    \/ pc[t] \in {"remote", "delete", "release"}
    \/ pc[t] = "pop" /\ c.h \in envs[c.s][c.dict]
    \/ pc[t] \in {"lookup", "getdict"} /\ c.h \in envs[c.s][current[c.s]]

\* Only the calls in T may still talk to the environment's worker.
Cold(h, T) ==
    /\ h \notin envs[home[h]][current[home[h]]]
    /\ \A u \in Threads \ T : call[u].h = h => ~Hot(u)

\* The call has taken its environment away, or found it gone.
After(t) == call[t].op = "close" /\ pc[t] \in {"delete", "release", "unlock", "droplock"}

\* The calls on an environment meet at one lock, the one in the table.
SameLock(h) ==
    \A t \in Threads :
        call[t].h = h /\ pc[t] \in Locked \cup {"lock"} => call[t].lock = lockOf[h]

\* What the event loop knows of its sweep.
Sweep ==
    /\ \A s \in loop.stale : current[s] < MaxSweeps
    /\ loop.pc \in {"popped", "iterate", "delete", "release"} => loop.s \in Sessions
    /\ loop.pc \in {"delete", "release"} => loop.h \in Handles /\ home[loop.h] # None

IInv ==
    /\ TypeOK
    /\ \A t \in Threads : Thr(t) /\ (After(t) => Cold(call[t].h, {t}))
    /\ \A h \in Handles : Kept(h) /\ (SameLock(h) \/ Cold(h, {}))
    /\ Sweep

-----------------------------------------------------------------------------
(* While nothing is swept. *)

\* The place of a call tells where its environment is in the pool.
Stage(t) ==
    LET c == call[t] IN
    /\ pc[t] \in {"touch", "acquire"} => phase[c.h] = "unused"
    /\ pc[t] = "post" => phase[c.h] = "creating"
    /\ pc[t] = "createfailed" => phase[c.h] = "failing"
    /\ pc[t] \in {"setdefault", "insert", "delete"} => phase[c.h] = "open"
    /\ pc[t] = "release" => phase[c.h] = "closing"
    /\ pc[t] = "remote" => c.h \in envs[c.s][0]

QuietInv ==
    /\ loop.pc = "idle"
    /\ \A s \in Sessions : current[s] = 0
    /\ \A s \in Sessions : \A h \in envs[s][0] : phase[h] = "open"
    /\ \A t \in Threads : Stage(t)
    /\ OpenIsReachable

-----------------------------------------------------------------------------
(* Lemmas on single steps. *)

LEMMA ThrTyped ==
    ASSUME TypeOK
    PROVE  /\ pc \in [Threads -> Labels] /\ call \in [Threads -> Calls]
           /\ None \notin Threads /\ None \notin Locks /\ None \notin Sessions
           /\ None \notin Handles
  BY SessionsAssumption DEF TypeOK, Labels, Calls

\* The types of the dictionaries and of the pool's phases.
LEMMA DictTyped ==
    ASSUME TypeOK
    PROVE  /\ phase \in [Handles -> P!Phases] /\ 0 \in 0..MaxSweeps
           /\ envs \in [Sessions -> [0..MaxSweeps -> SUBSET Handles]]
<1>1. P!TypeOK /\ envs \in [Sessions -> [0..MaxSweeps -> SUBSET Handles]]
  BY DEF TypeOK
<1>2. phase \in [Handles -> P!Phases]
  BY <1>1 DEF P!TypeOK
<1>3. 0 \in 0..MaxSweeps
  BY SessionsAssumption
<1> QED
  BY <1>1, <1>2, <1>3

\* Going to a place leaves the calls and the other threads theirs.
LEMMA Going ==
    ASSUME TypeOK, NEW t \in Threads, NEW l \in Labels, Goto(t, l)
    PROVE  /\ pc' \in [Threads -> Labels] /\ pc'[t] = l
           /\ \A u \in Threads : u # t => pc'[u] = pc[u]
  BY ThrTyped DEF Goto

\* A thread's call gets another dictionary, lock or nothing at all.
LEMMA Calling ==
    ASSUME TypeOK, NEW t \in Threads, NEW c \in Calls, call' = [call EXCEPT ![t] = c]
    PROVE  /\ call' \in [Threads -> Calls] /\ call'[t] = c
           /\ \A u \in Threads : u # t => call'[u] = call[u]
  BY ThrTyped

LEMMA Returning ==
    ASSUME TypeOK, NEW t \in Threads, Return(t)
    PROVE  /\ pc' \in [Threads -> Labels] /\ pc'[t] = "idle"
           /\ call' \in [Threads -> Calls] /\ call'[t].h = None /\ call'[t].s = None
           /\ call'[t].op = "none"
           /\ \A u \in Threads : u # t => pc'[u] = pc[u] /\ call'[u] = call[u]
<1> DEFINE c == [op |-> "none", s |-> None, h |-> None, dict |-> 0, lock |-> None]
<1>1. c \in Calls /\ c.h = None /\ c.s = None /\ c.op = "none"
  BY SessionsAssumption DEF Calls
<1>2. call' = [call EXCEPT ![t] = c] /\ Goto(t, "idle")
  BY DEF Return
<1> HIDE DEF c
<1> QED
  BY <1>1, <1>2, Going, Calling DEF Labels

\* The whole state is typed if its parts are.
LEMMA TypeParts ==
    ASSUME TypeOK, pc' \in [Threads -> Labels], call' \in [Threads -> Calls], P!TypeOK',
           current' \in [Sessions -> 0..MaxSweeps],
           envs' \in [Sessions -> [0..MaxSweeps -> SUBSET Handles]],
           home' \in [Handles -> Sessions \cup {None}],
           active' \in [Sessions -> {"none", "recent", "idle"}],
           sse' \subseteq minted', minted' \subseteq Sessions,
           lockOf' \in [Handles -> Locks \cup {None}],
           holder' \in [Locks -> Threads \cup {None}],
           loop' \in [pc : {"idle", "next", "popped", "iterate", "delete", "release", "dead"},
                      stale : SUBSET Sessions, s : Sessions \cup {None},
                      dict : 0..MaxSweeps, size : Nat,
                      visited : SUBSET Handles, h : Handles \cup {None}],
           calls' \in 0..MaxCalls
    PROVE  TypeOK'
  BY DEF TypeOK, Labels, Calls

\* A worker that starts is typed.
LEMMA SpawnTyped ==
    ASSUME P!TypeOK, NEW w \in Urls, NEW n \in Nat, P!Spawn(w, n)
    PROVE  /\ pool' \subseteq Urls /\ running' \subseteq Urls /\ inherited' \subseteq Urls
           /\ envCount' \in [Urls -> Nat] /\ hosted' \in [Urls -> SUBSET Handles]
  BY DEF P!TypeOK, P!Spawn, P!Live

\* So is the pool after its other steps, which no environment takes part in.
LEMMA PoolChangesTyped ==
    ASSUME P!TypeOK, (\E u \in Urls : P!Crash(u)) \/ P!EnsureWorker \/ P!SpawnFails
    PROVE  P!TypeOK' /\ phase' = phase
<1>1. CASE \E u \in Urls : P!Crash(u)
  BY <1>1 DEF P!Crash, P!TypeOK
<1>2. CASE P!SpawnFails
  BY <1>2 DEF P!SpawnFails, P!TypeOK, P!Live
<1>3. CASE P!EnsureWorker
  <2>1. CASE \E w \in Urls : P!Spawn(w, 0)
    BY <1>3, <2>1, SpawnTyped DEF P!EnsureWorker, P!TypeOK
  <2>2. CASE ~\E w \in Urls : P!Spawn(w, 0)
    <3>1. /\ pool' = P!Live
          /\ UNCHANGED <<envCount, running, inherited, hosted, phase, slot>>
      BY <1>3, <2>2 DEF P!EnsureWorker, P!FreshUrls
    <3> QED  BY <3>1 DEF P!TypeOK, P!Live
  <2> QED  BY <2>1, <2>2
<1> QED
  BY <1>1, <1>2, <1>3

\* The pool's own actions keep its types, and no environment becomes unused.
LEMMA PoolTyped ==
    ASSUME P!TypeOK, NEW h \in Handles,
           \/ P!Acquire(h) \/ P!CreateOk(h) \/ P!CreateError(h)
           \/ SendDelete(h) \/ SendRelease(h) \/ UNCHANGED poolVars
    PROVE  P!TypeOK' /\ \A g \in Handles : phase[g] # "unused" => phase'[g] # "unused"
<1>1. CASE P!Acquire(h)
  <2>1. CASE \E w \in Urls : P!Spawn(w, 1)
    BY <1>1, <2>1, SpawnTyped DEF P!TypeOK, P!Acquire, P!Phases, P!Holding
  <2>2. CASE ~\E w \in Urls : P!Spawn(w, 1)
    BY <1>1, <2>2 DEF P!TypeOK, P!Acquire, P!LeastLoaded, P!Live, P!Phases, P!Holding
  <2> QED  BY <2>1, <2>2
<1>2. CASE P!CreateOk(h)
  BY <1>2 DEF P!TypeOK, P!CreateOk, P!Phases, P!Holding
<1>3. CASE P!CreateError(h)
  BY <1>3 DEF P!TypeOK, P!CreateError, P!Phases, P!Holding
<1>4. CASE UNCHANGED poolVars
  BY <1>4 DEF P!TypeOK, poolVars
<1>5. CASE SendDelete(h)
  <2>1. CASE P!Delete(h)
    BY <2>1 DEF P!TypeOK, P!Delete, P!Phases, P!Holding
  <2> QED  BY <1>4, <1>5, <2>1 DEF SendDelete
<1>6. CASE SendRelease(h)
  BY <1>6 DEF SendRelease, P!TypeOK, P!DropRef, P!Phases, P!Holding
<1> QED
  BY <1>1, <1>2, <1>3, <1>4, <1>5, <1>6

\* What a call knows of its environment and session.
LEMMA Held ==
    ASSUME IInv, NEW t \in Threads, pc[t] # "idle"
    PROVE  /\ call[t].h \in Handles /\ call[t].s \in Sessions /\ call[t].dict \in 0..MaxSweeps
           /\ Thr(t) /\ Kept(call[t].h)
           /\ current[call[t].s] \in 0..MaxSweeps
<1>1. TypeOK /\ Thr(t) /\ call[t] \in Calls
  BY ThrTyped DEF IInv
<1>2. call[t].h # None /\ call[t].s # None
  BY <1>1 DEF Thr
<1>3. call[t].h \in Handles /\ call[t].s \in Sessions /\ call[t].dict \in 0..MaxSweeps
  BY <1>1, <1>2 DEF Calls
<1> QED
  BY <1>1, <1>3 DEF IInv, TypeOK

\* No two calls on one environment may still talk to its worker.
LEMMA OneHot ==
    ASSUME IInv, NEW t \in Threads, NEW u \in Threads, call[t].h = call[u].h,
           Hot(t), pc[u] \in Locked, Hot(u) \/ SameLock(call[t].h)
    PROVE  t = u
<1>1. pc[t] \in Locked /\ pc[t] # "idle"
  BY DEF Hot, Locked
<1>2. call[t].h \in Handles /\ Thr(t) /\ Thr(u)
  BY <1>1, Held DEF IInv
<1>3. SameLock(call[t].h)
  BY <1>2 DEF IInv, Cold
<1>4. call[t].lock = call[u].lock /\ call[t].lock \in Locks
  BY <1>1, <1>2, <1>3 DEF SameLock, Thr, HasLock
<1> QED
  BY <1>1, <1>2, <1>4 DEF Thr

-----------------------------------------------------------------------------
(* A step of one thread. *)

\* No environment changes its session or gets into a dictionary.
Settled(h) ==
    /\ home'[h] = home[h]
    /\ \A s \in Sessions : \A n \in 0..MaxSweeps : h \in envs'[s][n] => h \in envs[s][n]

\* What such a step leaves to the other threads.
LEMMA Others ==
    ASSUME IInv, NEW t \in Threads, TypeOK',
           \A u \in Threads : u # t => pc'[u] = pc[u] /\ call'[u] = call[u],
           current' = current,
           \A h \in Handles : phase[h] # "unused" => phase'[h] # "unused",
           \A l \in Locks : holder[l] \notin {t, None} => holder'[l] = holder[l],
           \A h \in Handles : Settled(h) \/ (call[t].h = h /\ pc[t] \in Making),
           \A u \in Threads : u # t /\ pc[u] \in Making => call'[t].h # call[u].h
    PROVE  \A u \in Threads : u # t => Thr(u)' /\ (Hot(u)' => Hot(u))
<1> SUFFICES ASSUME NEW u \in Threads, u # t PROVE Thr(u)' /\ (Hot(u)' => Hot(u))
  OBVIOUS
<1>1. pc'[u] = pc[u] /\ call'[u] = call[u] /\ Thr(u) /\ TypeOK
  BY DEF IInv
<1>2. CASE pc[u] = "idle"
  <2>1. call[u].h = None /\ call[u].s = None
    BY <1>1, <1>2 DEF Thr
  <2> QED  BY <1>1, <1>2, <2>1 DEF Thr, Hot, Making, HasLock, Locked
<1>3. CASE pc[u] # "idle"
  <2>1. /\ call[u].h \in Handles /\ call[u].s \in Sessions /\ call[u].dict \in 0..MaxSweeps
        /\ current[call[u].s] \in 0..MaxSweeps
    BY <1>3, Held
  <2>2. ~(call[t].h = call[u].h /\ pc[t] \in Making)
    <3>1. Thr(t) /\ u \in Threads \ {t}
      BY DEF IInv
    <3> QED  BY <3>1 DEF Thr
  <2>3. Settled(call[u].h)
    BY <2>1, <2>2
  <2>4. Hot(u)' => Hot(u)
    BY <1>1, <2>1, <2>3 DEF Hot, Settled
  <2>5. pc[u] \in Making =>
          /\ home'[call[u].h] = None
          /\ \A v \in Threads \ {u} : call'[v].h # call[u].h
          /\ pc[u] \notin {"touch", "acquire"} => phase'[call[u].h] # "unused"
          /\ pc[u] = "insert" => call[u].dict <= current'[call[u].s]
    BY <1>1, <2>1, <2>3 DEF Thr, Settled
  <2>6. pc[u] \notin Making \cup {"idle"} => home'[call[u].h] = call[u].s
    BY <1>1, <2>3 DEF Thr, Settled
  <2>7. pc[u] \in Locked => holder'[call[u].lock] = u
    <3>1. pc[u] \in Locked => call[u].lock \in Locks /\ holder[call[u].lock] = u
      BY <1>1 DEF Thr, HasLock
    <3> QED  BY <1>1, <3>1, ThrTyped
  <2>8. pc[u] = "pop" =>
          /\ call[u].dict <= current'[call[u].s]
          /\ \A n \in 0..MaxSweeps : call[u].h \in envs'[call[u].s][n] => n <= call[u].dict
    BY <1>1, <2>1, <2>3 DEF Thr, Settled
  <2>9. Thr(u)'
    BY <1>1, <1>3, <2>1, <2>5, <2>6, <2>7, <2>8 DEF Thr
  <2> QED  BY <2>4, <2>9
<1> QED
  BY <1>2, <1>3

LEMMA OneThread ==
    ASSUME IInv, NEW t \in Threads, TypeOK',
           \A u \in Threads : u # t => pc'[u] = pc[u] /\ call'[u] = call[u],
           current' = current, loop' = loop,
           \A h \in Handles : phase[h] # "unused" => phase'[h] # "unused",
           \A l \in Locks : holder[l] \notin {t, None} => holder'[l] = holder[l],
           \A h \in Handles : Settled(h) \/ (call[t].h = h /\ pc[t] \in Making /\ Kept(h)'
                                               /\ home'[h] # None),
           \A u \in Threads : u # t /\ pc[u] \in Making => call'[t].h # call[u].h,
           Thr(t)', After(t)' => Cold(call[t].h, {t})' /\ call'[t].h = call[t].h,
           Hot(t)' => \/ Hot(t) /\ call'[t].h = call[t].h
                      \/ call'[t].h \in envs[home[call'[t].h]][current[home[call'[t].h]]],
           \A h \in Handles : SameLock(h) => SameLock(h)' \/ Cold(h, {})'
    PROVE  IInv'
<1>1. TypeOK
  BY DEF IInv
<1>2. \A u \in Threads : u # t => Thr(u)' /\ (Hot(u)' => Hot(u))
  BY Others
<1>3. ASSUME NEW h \in Handles, NEW T, Cold(h, T), home[h] # None PROVE Cold(h, T)'
  <2>1. home[h] \in Sessions /\ current[home[h]] \in 0..MaxSweeps
    BY <1>1, <1>3 DEF TypeOK
  <2>2. Settled(h)
    <3>1. Thr(t)
      BY DEF IInv
    <3> QED  BY <1>3, <3>1 DEF Thr
  <2>3. h \notin envs'[home'[h]][current'[home'[h]]]
    BY <1>3, <2>1, <2>2 DEF Cold, Settled
  <2>4. ASSUME NEW u \in Threads \ T, call'[u].h = h, Hot(u)' PROVE FALSE
    BY <1>2, <1>3, <2>4 DEF Cold
  <2> QED  BY <2>3, <2>4 DEF Cold
<1>4. ASSUME NEW u \in Threads, After(u)' PROVE Cold(call[u].h, {u})' /\ call'[u].h = call[u].h
  <2>1. CASE u # t
    <3>1. After(u) /\ Cold(call[u].h, {u}) /\ call'[u] = call[u]
      BY <1>4, <2>1 DEF IInv, After
    <3>2. call[u].h \in Handles /\ home[call[u].h] # None
      BY <1>1, <3>1, Held, ThrTyped DEF After, Thr, Making
    <3> QED  BY <1>3, <3>1, <3>2
  <2> QED  BY <1>4, <2>1
<1>5. ASSUME NEW u \in Threads, After(u)' PROVE Cold(call[u].h, {u})'
  BY <1>4, <1>5
<1>6. ASSUME NEW h \in Handles PROVE Kept(h)' /\ (SameLock(h)' \/ Cold(h, {})')
  <2>1. Kept(h)'
    <3>1. CASE Settled(h)
      BY <3>1 DEF IInv, Kept, Settled
    <3> QED  BY <3>1
  <2>2. Cold(h, {}) => SameLock(h)' \/ Cold(h, {})'
    <3>1. CASE home[h] # None
      BY <1>3, <3>1
    <3>2. CASE home[h] = None
      <4>1. SameLock(h)
        <5>1. ASSUME NEW u \in Threads, call[u].h = h, pc[u] \in Locked \cup {"lock"}
              PROVE FALSE
          BY <1>1, <3>2, <5>1, Held, ThrTyped DEF Thr, Making, Locked
        <5> QED  BY <5>1 DEF SameLock
      <4> QED  BY <4>1
    <3> QED  BY <3>1, <3>2
  <2> QED  BY <2>1, <2>2 DEF IInv
<1>7. Sweep'
  <2>1. \A h \in Handles : home[h] # None => home'[h] # None
    BY DEF Settled
  <2> QED  BY <2>1 DEF IInv, Sweep
<1>8. \A u \in Threads : Thr(u)' /\ (After(u)' => Cold(call[u].h, {u})')
  BY <1>2, <1>4
<1> QED
  BY <1>1, <1>4, <1>6, <1>7, <1>8 DEF IInv

-----------------------------------------------------------------------------
(* Calls arrive. *)

LEMMA StepStart ==
    ASSUME IInv, NEW t \in Threads, NEW h \in Handles,
           \/ \E s \in Sessions : StartCreate(t, s, h)
           \/ \E op \in {"control", "close"} : StartControl(t, op, h)
    PROVE  IInv'
<1>1. PICK op \in {"create", "control", "close"}, s \in Sessions, p \in {"touch", "getlock"} :
        /\ Dispatch(t, op, s, h, p)
        /\ op = "create" => /\ p = "touch" /\ phase[h] = "unused"
                            /\ \A u \in Threads : call[u].h # h
        /\ op # "create" => p = "getlock" /\ home[h] = s
  <2>1. CASE \E s \in Sessions : StartCreate(t, s, h)
    BY <2>1 DEF StartCreate
  <2>2. CASE \E op \in {"control", "close"} : StartControl(t, op, h)
    <3>1. PICK op \in {"control", "close"} : StartControl(t, op, h)
      BY <2>2
    <3>2. home[h] \in Sessions
      BY <3>1 DEF StartControl, IInv, TypeOK
    <3> QED  BY <3>1, <3>2 DEF StartControl
  <2> QED  BY <2>1, <2>2
<1>2. UNCHANGED <<poolVars, dictVars, sessionVars, lockVars, loop>>
  BY DEF StartCreate, StartControl
<1>3. TypeOK /\ pc[t] = "idle" /\ Thr(t)
  BY <1>1 DEF IInv, Dispatch
<1> DEFINE c == [op |-> op, s |-> s, h |-> h, dict |-> 0, lock |-> None]
<1>4. c \in Calls /\ c.op = op /\ c.s = s /\ c.h = h
  BY SessionsAssumption DEF Calls
<1>5. call' = [call EXCEPT ![t] = c] /\ Goto(t, p)
  BY <1>1 DEF Dispatch
<1> HIDE DEF c
<1>6. /\ call' \in [Threads -> Calls] /\ call'[t] = c
      /\ pc' \in [Threads -> Labels] /\ pc'[t] = p
      /\ \A u \in Threads : u # t => pc'[u] = pc[u] /\ call'[u] = call[u]
  <2>1. p \in Labels
    BY DEF Labels
  <2> QED  BY <1>3, <1>4, <1>5, <2>1, Going, Calling, ZenonT(40)
<1>7. calls' \in 0..MaxCalls
  BY <1>1, <1>3, SessionsAssumption DEF Dispatch, TypeOK
<1>8. TypeOK'
  <2>1. P!TypeOK'
    BY <1>2, <1>3, PoolTyped DEF TypeOK
  <2> QED  BY <1>2, <1>3, <1>6, <1>7, <2>1, TypeParts
             DEF TypeOK, dictVars, sessionVars, lockVars
<1>9. \A g \in Handles : Settled(g)
  BY <1>2 DEF Settled, dictVars
<1>10. \A u \in Threads : u # t /\ pc[u] \in Making => call'[t].h # call[u].h
  <2>1. ASSUME NEW u \in Threads, pc[u] \in Making, call[u].h = h PROVE op = "create"
    <3>1. home[h] = None
      BY <2>1 DEF IInv, Thr
    <3> QED  BY <1>1, <1>3, <3>1, ThrTyped
  <2> QED  BY <1>1, <1>4, <1>6, <2>1
<1>11. Thr(t)'
  <2>1. CASE op = "create"
    <3>1. home[h] = None
      BY <1>1, <2>1 DEF IInv, Kept
    <3> QED  BY <1>1, <1>2, <1>3, <1>4, <1>6, <2>1, <3>1, ThrTyped
               DEF Thr, Making, HasLock, Locked, dictVars
  <2>2. CASE op # "create"
    BY <1>1, <1>2, <1>3, <1>4, <1>6, <2>2, ThrTyped DEF Thr, Making, HasLock, Locked, dictVars
  <2> QED  BY <2>1, <2>2
<1>12. ~After(t)' /\ ~Hot(t)'
  BY <1>6 DEF After, Hot
<1>13. ASSUME NEW g \in Handles, SameLock(g) PROVE SameLock(g)'
  BY <1>2, <1>6, <1>13 DEF SameLock, Locked, lockVars
<1>14. current' = current /\ holder' = holder /\ phase' = phase /\ loop' = loop
  BY <1>2 DEF dictVars, lockVars, poolVars
<1> QED
  BY <1>6, <1>8, <1>9, <1>10, <1>11, <1>12, <1>13, <1>14, OneThread

-----------------------------------------------------------------------------
(* Threads go on. *)

\* A thread goes on with its call and changes no dictionary and no lock's entry.
LEMMA Passes ==
    ASSUME IInv, NEW t \in Threads, NEW l \in Labels \ {"idle"}, Goto(t, l), call' = call,
           TypeOK', UNCHANGED <<dictVars, lockOf, loop>>, pc[t] # "idle",
           \A h \in Handles : phase[h] # "unused" => phase'[h] # "unused",
           \A k \in Locks : holder[k] \notin {t, None} => holder'[k] = holder[k],
           l \in Making => pc[t] \in Making,
           l \notin {"touch", "acquire"} /\ l \in Making => phase'[call[t].h] # "unused",
           l \notin {"insert", "pop"},
           l \in HasLock => pc[t] \in HasLock,
           l \in Locked => pc[t] \in Locked \cup {"lock"} /\ holder'[call[t].lock] = t,
           l \notin Making => pc[t] \notin Making,
           l \in {"getdict", "delete", "release", "droplock"} => call[t].op = "close",
           l \in {"lookup", "remote"} => call[t].op # "close",
           After(t)' => After(t) \/ Cold(call[t].h, {t}),
           l \in {"remote", "delete", "release"} => Hot(t),
           l # "lock"
    PROVE  IInv'
<1>1. TypeOK /\ Thr(t) /\ (After(t) => Cold(call[t].h, {t}))
  BY DEF IInv
<1>2. /\ pc' \in [Threads -> Labels] /\ pc'[t] = l
      /\ \A u \in Threads : u # t => pc'[u] = pc[u] /\ call'[u] = call[u]
  BY <1>1, Going
<1>3. \A h \in Handles : Settled(h)
  BY DEF Settled, dictVars
<1>4. home' = home /\ current' = current /\ envs' = envs /\ lockOf' = lockOf
  BY DEF dictVars
<1>5. /\ call[t].h \in Handles /\ call[t].s \in Sessions /\ call[t].dict \in 0..MaxSweeps
      /\ call[t].h # None /\ call[t].s # None
  BY Held, <1>1, ThrTyped
<1>6. ASSUME NEW u \in Threads, u # t, pc[u] \in Making PROVE call'[t].h # call[u].h
  <2>1. Thr(u) /\ t \in Threads \ {u}
    BY <1>6 DEF IInv
  <2> QED  BY <1>6, <2>1 DEF Thr
<1>7. Thr(t)'
  BY <1>1, <1>2, <1>4, <1>5, <1>6 DEF Thr
<1>8. After(t)' => Cold(call[t].h, {t})' /\ call'[t].h = call[t].h
  <2> SUFFICES ASSUME After(t)' PROVE Cold(call[t].h, {t})'
    OBVIOUS
  <2>1. Cold(call[t].h, {t})
    BY <1>1
  <2>2. \A u \in Threads : u # t => (Hot(u)' <=> Hot(u))
    BY <1>2, <1>4 DEF Hot
  <2> QED  BY <1>4, <2>1, <2>2 DEF Cold
<1>9. Hot(t)' => Hot(t) \/ call[t].h \in envs[home[call[t].h]][current[home[call[t].h]]]
  <2>1. pc[t] \notin Making \cup {"idle"} => home[call[t].h] = call[t].s
    BY <1>1 DEF Thr
  <2>2. CASE l \in {"lookup", "getdict"}
    <3>1. Hot(t)' => call[t].h \in envs[call[t].s][current[call[t].s]]
      BY <1>2, <1>4, <2>2 DEF Hot
    <3> QED  BY <2>1, <2>2, <3>1 DEF Making, Locked
  <2>3. CASE l \notin {"lookup", "getdict"}
    BY <1>2, <2>3 DEF Hot
  <2> QED  BY <2>2, <2>3
<1>10. ASSUME NEW h \in Handles, SameLock(h) PROVE SameLock(h)'
  BY <1>2, <1>4, <1>10 DEF SameLock
<1> QED
  BY <1>2, <1>3, <1>4, <1>6, <1>7, <1>8, <1>9, <1>10, OneThread

LEMMA StepCreateTouch ==
    ASSUME IInv, NEW t \in Threads, CreateTouch(t)
    PROVE  IInv'
<1>1. /\ TypeOK /\ pc[t] = "touch" /\ Goto(t, "acquire") /\ Touch(call[t].s)
      /\ UNCHANGED <<poolVars, dictVars, sse, minted, lockVars, call, calls, loop>>
  BY DEF IInv, CreateTouch
<1>2. pc' \in [Threads -> Labels] /\ pc'[t] = "acquire"
  BY <1>1, Going DEF Labels
<1>3. TypeOK'
  <2>1. P!TypeOK'
    BY <1>1, PoolTyped, Held DEF TypeOK
  <2>2. active' \in [Sessions -> {"none", "recent", "idle"}]
    BY <1>1 DEF Touch, TypeOK
  <2> QED  BY <1>1, <1>2, <2>1, <2>2, ThrTyped, TypeParts DEF TypeOK, dictVars, lockVars
<1>4. phase' = phase /\ lockOf' = lockOf /\ holder' = holder /\ ~After(t)'
  BY <1>1, <1>2 DEF poolVars, lockVars, After
<1> QED
  BY <1>1, <1>3, <1>4, Passes DEF Labels, Making, HasLock, Locked

LEMMA StepCreatePost ==
    ASSUME IInv, NEW t \in Threads, CreatePost(t)
    PROVE  IInv'
<1>1. /\ TypeOK /\ pc[t] = "post" /\ UNCHANGED <<dictVars, sessionVars, lockVars, call, calls, loop>>
  BY DEF IInv, CreatePost
<1>2. PICK l \in {"setdefault", "createfailed"} :
        Goto(t, l) /\ (P!CreateOk(call[t].h) \/ P!CreateError(call[t].h))
  BY DEF CreatePost
<1>3. pc' \in [Threads -> Labels] /\ pc'[t] = l /\ l \in Labels \ {"idle"}
  BY <1>1, <1>2, Going DEF Labels
<1>4. call[t].h \in Handles
  BY <1>1, Held
<1>5. P!TypeOK' /\ \A g \in Handles : phase[g] # "unused" => phase'[g] # "unused"
  BY <1>1, <1>2, <1>4, PoolTyped DEF TypeOK
<1>6. TypeOK'
  BY <1>1, <1>3, <1>5, ThrTyped, TypeParts DEF TypeOK, dictVars, lockVars, sessionVars
<1>7. phase'[call[t].h] # "unused" /\ lockOf' = lockOf /\ holder' = holder /\ ~After(t)'
  <2>1. Thr(t)
    BY DEF IInv
  <2> QED  BY <1>1, <1>3, <1>4, <1>5, <2>1 DEF Thr, Making, lockVars, After
<1> QED
  BY <1>1, <1>2, <1>3, <1>5, <1>6, <1>7, Passes DEF Making, HasLock, Locked

LEMMA StepTakeLock ==
    ASSUME IInv, NEW t \in Threads, TakeLock(t)
    PROVE  IInv'
<1> DEFINE l == IF call[t].op = "close" THEN "getdict" ELSE "lookup"
<1>1. /\ TypeOK /\ pc[t] = "lock" /\ Goto(t, l) /\ Touch(call[t].s)
      /\ holder[call[t].lock] = None /\ holder' = [holder EXCEPT ![call[t].lock] = t]
      /\ UNCHANGED <<poolVars, dictVars, sse, minted, lockOf, call, calls, loop>>
  BY DEF IInv, TakeLock
<1>2. pc' \in [Threads -> Labels] /\ pc'[t] = l /\ l \in Labels \ {"idle"}
  <2>1. l \in Labels \ {"idle"}
    BY DEF Labels
  <2> QED  BY <1>1, <2>1, Going
<1>3. call[t].lock \in Locks
  <2>1. Thr(t)
    BY DEF IInv
  <2> QED  BY <1>1, <2>1 DEF Thr, HasLock
<1>4. /\ holder' \in [Locks -> Threads \cup {None}] /\ holder'[call[t].lock] = t
      /\ \A k \in Locks : holder[k] \notin {t, None} => holder'[k] = holder[k]
  BY <1>1, <1>3 DEF TypeOK
<1>5. TypeOK'
  <2>1. P!TypeOK'
    BY <1>1, PoolTyped, Held DEF TypeOK
  <2>2. active' \in [Sessions -> {"none", "recent", "idle"}]
    BY <1>1 DEF Touch, TypeOK
  <2> QED  BY <1>1, <1>2, <1>4, <2>1, <2>2, ThrTyped, TypeParts DEF TypeOK, dictVars
<1>6. phase' = phase /\ ~After(t)'
  BY <1>1, <1>2 DEF poolVars, After
<1>7. /\ l \in {"getdict", "lookup"} /\ (l = "getdict" => call[t].op = "close")
      /\ l = "lookup" => call[t].op # "close"
  OBVIOUS
<1> HIDE DEF l
<1> QED
  BY <1>1, <1>2, <1>4, <1>5, <1>6, <1>7, Passes DEF Making, HasLock, Locked

LEMMA StepControl ==
    ASSUME IInv, NEW t \in Threads, ControlLookup(t) \/ ControlDone(t)
    PROVE  IInv'
<1>1. /\ TypeOK /\ Thr(t) /\ pc[t] \in {"lookup", "remote"}
      /\ UNCHANGED <<poolVars, dictVars, sessionVars, lockVars, call, calls, loop>>
  BY DEF IInv, ControlLookup, ControlDone
<1>2. PICK l \in {"remote", "unlock"} :
        Goto(t, l) /\ (l = "remote" => Hot(t))
  BY DEF ControlLookup, ControlDone, Hot
<1>3. pc' \in [Threads -> Labels] /\ pc'[t] = l /\ l \in Labels \ {"idle"}
  BY <1>1, <1>2, Going DEF Labels
<1>4. TypeOK'
  <2>1. P!TypeOK'
    BY <1>1, PoolTyped, Held DEF TypeOK
  <2> QED  BY <1>1, <1>3, <2>1, ThrTyped, TypeParts DEF TypeOK, dictVars, lockVars, sessionVars
<1>5. phase' = phase /\ lockOf' = lockOf /\ holder' = holder
  BY <1>1 DEF poolVars, lockVars
<1>6. call[t].op # "close" /\ ~After(t)' /\ holder[call[t].lock] = t
  BY <1>1, <1>3 DEF After, Thr, Locked
<1> QED
  BY <1>1, <1>2, <1>3, <1>4, <1>5, <1>6, Passes DEF Making, HasLock, Locked

LEMMA StepCloseSends ==
    ASSUME IInv, NEW t \in Threads, CloseDelete(t) \/ CloseRelease(t)
    PROVE  IInv'
<1>1. /\ TypeOK /\ Thr(t) /\ pc[t] \in {"delete", "release"}
      /\ UNCHANGED <<dictVars, sessionVars, lockVars, call, calls, loop>>
      /\ SendDelete(call[t].h) \/ SendRelease(call[t].h)
  BY DEF IInv, CloseDelete, CloseRelease
<1>2. PICK l \in {"release", "unlock"} : Goto(t, l)
  BY DEF CloseDelete, CloseRelease
<1>3. pc' \in [Threads -> Labels] /\ pc'[t] = l /\ l \in Labels \ {"idle"}
  BY <1>1, <1>2, Going DEF Labels
<1>4. P!TypeOK' /\ \A g \in Handles : phase[g] # "unused" => phase'[g] # "unused"
  BY <1>1, Held, PoolTyped DEF TypeOK
<1>5. TypeOK'
  BY <1>1, <1>3, <1>4, ThrTyped, TypeParts DEF TypeOK, dictVars, lockVars, sessionVars
<1>6. lockOf' = lockOf /\ holder' = holder
  BY <1>1 DEF lockVars
<1>7. call[t].op = "close" /\ After(t) /\ Hot(t) /\ holder[call[t].lock] = t
  BY <1>1 DEF After, Thr, Locked, Hot
<1> QED
  BY <1>1, <1>2, <1>3, <1>4, <1>5, <1>6, <1>7, Passes DEF Making, HasLock, Locked

-----------------------------------------------------------------------------
(* Calls return. *)

\* A call that returns is nobody's.
LEMMA Returns ==
    ASSUME IInv, NEW t \in Threads, Return(t), TypeOK', current' = current, loop' = loop,
           \A h \in Handles : phase[h] # "unused" => phase'[h] # "unused",
           \A k \in Locks : holder[k] \notin {t, None} => holder'[k] = holder[k],
           \A h \in Handles : Settled(h) \/ (call[t].h = h /\ pc[t] \in Making /\ Kept(h)'
                                               /\ home'[h] # None),
           \A h \in Handles : SameLock(h) => SameLock(h)' \/ Cold(h, {})'
    PROVE  IInv'
<1>1. /\ pc'[t] = "idle" /\ call'[t].h = None /\ call'[t].s = None
      /\ \A u \in Threads : u # t => pc'[u] = pc[u] /\ call'[u] = call[u]
  BY Returning DEF IInv
<1>2. Thr(t)' /\ ~After(t)' /\ ~Hot(t)'
  BY <1>1 DEF Thr, After, Hot, Making, HasLock, Locked
<1>3. \A u \in Threads : pc[u] \in Making => call[u].h # None
  BY DEF IInv, Thr, Making
<1> QED
  BY <1>1, <1>2, <1>3, OneThread

LEMMA SameLockStays ==
    ASSUME IInv, NEW t \in Threads, Return(t), lockOf' = lockOf, NEW h \in Handles, SameLock(h)
    PROVE  SameLock(h)'
<1>1. /\ pc'[t] = "idle"
      /\ \A u \in Threads : u # t => pc'[u] = pc[u] /\ call'[u] = call[u]
  BY Returning DEF IInv
<1> QED
  BY <1>1 DEF SameLock, Locked

LEMMA StepCreateAcquire ==
    ASSUME IInv, NEW t \in Threads, CreateAcquire(t)
    PROVE  IInv'
<1>1. /\ TypeOK /\ pc[t] = "acquire" /\ UNCHANGED <<dictVars, sessionVars, lockVars, calls, loop>>
  BY DEF IInv, CreateAcquire
<1>2. call[t].h \in Handles
  BY <1>1, Held
<1>3. CASE P!Acquire(call[t].h) /\ Goto(t, "post") /\ UNCHANGED call
  <2>1. pc' \in [Threads -> Labels] /\ pc'[t] = "post"
    BY <1>1, <1>3, Going DEF Labels
  <2>2. P!TypeOK' /\ \A g \in Handles : phase[g] # "unused" => phase'[g] # "unused"
    BY <1>1, <1>2, <1>3, PoolTyped DEF TypeOK
  <2>3. TypeOK'
    BY <1>1, <1>3, <2>1, <2>2, ThrTyped, TypeParts DEF TypeOK, dictVars, lockVars, sessionVars
  <2>4. phase'[call[t].h] # "unused" /\ lockOf' = lockOf /\ holder' = holder /\ ~After(t)'
    BY <1>1, <1>2, <1>3, <2>1 DEF P!Acquire, TypeOK, P!TypeOK, lockVars, After
  <2> QED  BY <1>1, <1>3, <2>2, <2>3, <2>4, Passes DEF Labels, Making, HasLock, Locked
<1>4. CASE P!SpawnFails /\ Return(t)
  <2>1. P!TypeOK' /\ phase' = phase
    BY <1>1, <1>4, PoolChangesTyped DEF TypeOK
  <2>2. TypeOK'
    BY <1>1, <1>4, <2>1, Returning, TypeParts DEF TypeOK, dictVars, lockVars, sessionVars
  <2>3. (\A h \in Handles : Settled(h)) /\ current' = current /\ holder' = holder
    BY <1>1 DEF Settled, dictVars, lockVars
  <2>4. \A h \in Handles : SameLock(h) => SameLock(h)'
    BY <1>1, <1>4, SameLockStays DEF lockVars
  <2> QED  BY <1>1, <1>4, <2>1, <2>2, <2>3, <2>4, Returns
<1> QED
  BY <1>3, <1>4 DEF CreateAcquire

LEMMA StepCreateFailed ==
    ASSUME IInv, NEW t \in Threads, CreateFailed(t)
    PROVE  IInv'
<1>1. /\ TypeOK /\ pc[t] = "createfailed" /\ SendRelease(call[t].h) /\ Return(t)
      /\ UNCHANGED <<dictVars, sessionVars, lockVars, calls, loop>>
  BY DEF IInv, CreateFailed
<1>2. P!TypeOK' /\ \A g \in Handles : phase[g] # "unused" => phase'[g] # "unused"
  BY <1>1, Held, PoolTyped DEF TypeOK
<1>3. TypeOK'
  BY <1>1, <1>2, Returning, TypeParts DEF TypeOK, dictVars, lockVars, sessionVars
<1>4. (\A h \in Handles : Settled(h)) /\ current' = current /\ holder' = holder
  BY <1>1 DEF Settled, dictVars, lockVars
<1>5. \A h \in Handles : SameLock(h) => SameLock(h)'
  BY <1>1, SameLockStays DEF lockVars
<1> QED
  BY <1>1, <1>2, <1>3, <1>4, <1>5, Returns

LEMMA StepCreateInsert ==
    ASSUME IInv, NEW t \in Threads, CreateInsert(t)
    PROVE  IInv'
<1>0. PICK h, s, n : h = call[t].h /\ s = call[t].s /\ n = call[t].dict
  OBVIOUS
<1>1. /\ TypeOK /\ pc[t] = "insert" /\ Return(t)
      /\ envs' = [envs EXCEPT ![s][n] = @ \cup {h}]
      /\ home' = [home EXCEPT ![h] = s]
      /\ UNCHANGED <<poolVars, current, sessionVars, lockVars, calls, loop>>
  BY <1>0 DEF IInv, CreateInsert
<1>2. /\ h \in Handles /\ s \in Sessions /\ n \in 0..MaxSweeps /\ Thr(t) /\ Kept(h)
  BY <1>0, <1>1, Held
<1>3. home[h] = None /\ phase[h] # "unused" /\ n <= current[s]
  BY <1>0, <1>1, <1>2 DEF Thr, Making
<1>4. /\ home' \in [Handles -> Sessions \cup {None}] /\ home'[h] = s
      /\ \A g \in Handles : g # h => home'[g] = home[g]
      /\ envs' \in [Sessions -> [0..MaxSweeps -> SUBSET Handles]]
      /\ \A g \in Handles : g # h => \A k \in Sessions : \A m \in 0..MaxSweeps :
            g \in envs'[k][m] => g \in envs[k][m]
      /\ \A k \in Sessions : \A m \in 0..MaxSweeps :
            h \in envs'[k][m] => h \in envs[k][m] \/ (k = s /\ m = n)
  BY <1>1, <1>2, ZenonT(40) DEF TypeOK
<1>5. TypeOK'
  <2>1. P!TypeOK'
    BY <1>1, <1>2, PoolTyped DEF TypeOK
  <2> QED  BY <1>1, <1>4, <2>1, Returning, TypeParts DEF TypeOK, lockVars, sessionVars
<1>6. phase' = phase /\ current' = current /\ holder' = holder /\ loop' = loop
  BY <1>1 DEF poolVars, lockVars
<1>7. Kept(h)' /\ home'[h] # None
  BY <1>2, <1>3, <1>4, <1>6, ThrTyped, <1>1 DEF Kept
<1>8. \A g \in Handles : Settled(g) \/ g = h
  BY <1>4 DEF Settled
<1>9. \A g \in Handles : SameLock(g) => SameLock(g)'
  BY <1>1, SameLockStays DEF lockVars
<1>10. \A g \in Handles : Settled(g) \/ (call[t].h = g /\ pc[t] \in Making /\ Kept(g)'
                                           /\ home'[g] # None)
  BY <1>0, <1>1, <1>7, <1>8 DEF Making
<1> QED
  BY <1>1, <1>5, <1>6, <1>9, <1>10, Returns

LEMMA StepUnlock ==
    ASSUME IInv, NEW t \in Threads, Unlock(t)
    PROVE  IInv'
<1>1. /\ TypeOK /\ Thr(t) /\ pc[t] = "unlock"
      /\ holder' = [holder EXCEPT ![call[t].lock] = None]
      /\ UNCHANGED <<poolVars, dictVars, sessionVars, lockOf, calls, loop>>
  BY DEF IInv, Unlock
<1>2. /\ call[t].lock \in Locks /\ holder[call[t].lock] = t
      /\ holder' \in [Locks -> Threads \cup {None}]
      /\ \A k \in Locks : holder[k] \notin {t, None} => holder'[k] = holder[k]
  BY <1>1 DEF Thr, HasLock, Locked, TypeOK
<1>3. P!TypeOK' /\ phase' = phase /\ current' = current
  BY <1>1, Held, PoolTyped DEF TypeOK, poolVars, dictVars
<1>4. CASE call[t].op = "close"
  <2>1. Goto(t, "droplock") /\ call' = call
    BY <1>4 DEF Unlock
  <2>2. pc' \in [Threads -> Labels] /\ "droplock" \in Labels \ {"idle"}
    BY <1>1, <2>1, Going DEF Labels
  <2>3. TypeOK'
    BY <1>1, <1>2, <1>3, <2>1, <2>2, ThrTyped, TypeParts DEF TypeOK, dictVars, sessionVars
  <2>4. After(t)
    BY <1>1, <1>4 DEF After
  <2> QED
    BY <1>1, <1>2, <1>3, <1>4, <2>1, <2>2, <2>3, <2>4, Passes DEF Making, HasLock, Locked
<1>5. CASE call[t].op # "close"
  <2>1. Return(t)
    BY <1>5 DEF Unlock
  <2>2. TypeOK'
    BY <1>1, <1>2, <1>3, <2>1, Returning, TypeParts DEF TypeOK, dictVars, sessionVars
  <2>3. \A h \in Handles : Settled(h) /\ (SameLock(h) => SameLock(h)')
    BY <1>1, <2>1, SameLockStays DEF Settled, dictVars
  <2> QED
    BY <1>1, <1>2, <1>3, <2>1, <2>2, <2>3, Returns
<1> QED
  BY <1>4, <1>5

LEMMA StepDropLock ==
    ASSUME IInv, NEW t \in Threads, DropLock(t)
    PROVE  IInv'
<1>0. PICK h : h = call[t].h
  OBVIOUS
<1>1. /\ TypeOK /\ Thr(t) /\ pc[t] = "droplock" /\ Return(t)
      /\ lockOf' = [lockOf EXCEPT ![h] = IF @ = call[t].lock THEN None ELSE @]
      /\ UNCHANGED <<poolVars, dictVars, sessionVars, holder, calls, loop>>
  BY <1>0 DEF IInv, DropLock
<1>2. h \in Handles
  BY <1>0, <1>1, Held
<1>3. /\ lockOf' \in [Handles -> Locks \cup {None}]
      /\ \A g \in Handles : g # h => lockOf'[g] = lockOf[g]
  BY <1>1, <1>2 DEF TypeOK
<1>4. P!TypeOK' /\ phase' = phase /\ current' = current
  BY <1>1, <1>2, PoolTyped DEF TypeOK, poolVars, dictVars
<1>5. TypeOK'
  BY <1>1, <1>3, <1>4, Returning, TypeParts DEF TypeOK, dictVars, sessionVars
<1>6. \A g \in Handles : Settled(g)
  BY <1>1 DEF Settled, dictVars
<1>7. /\ pc'[t] = "idle" /\ call'[t].h = None
      /\ \A u \in Threads : u # t => pc'[u] = pc[u] /\ call'[u] = call[u]
  BY <1>1, Returning
<1>8. Cold(h, {})'
  <2>1. Cold(h, {t})
    BY <1>0, <1>1 DEF IInv, After, Thr
  <2>2. \A u \in Threads : u # t => (Hot(u)' <=> Hot(u))
    BY <1>1, <1>7 DEF Hot, dictVars
  <2>3. call'[t].h # h
    BY <1>1, <1>2, <1>7, ThrTyped
  <2> QED  BY <1>1, <1>7, <2>1, <2>2, <2>3 DEF Cold, dictVars
<1>9. ASSUME NEW g \in Handles, SameLock(g), g # h PROVE SameLock(g)'
  BY <1>3, <1>7, <1>9 DEF SameLock, Locked
<1> QED
  BY <1>1, <1>4, <1>5, <1>6, <1>8, <1>9, Returns

-----------------------------------------------------------------------------
(* Calls find their lock and their dictionary. *)

\* A call that gets a lock or a dictionary stays the call it was.
LEMMA Finds ==
    ASSUME IInv, NEW t \in Threads, NEW l \in Labels, Goto(t, l),
           NEW n \in 0..MaxSweeps, NEW k \in Locks \cup {None},
           call' = [call EXCEPT ![t] = [call[t] EXCEPT !.dict = n, !.lock = k]]
    PROVE  /\ pc' \in [Threads -> Labels] /\ pc'[t] = l
           /\ call' \in [Threads -> Calls]
           /\ call'[t].h = call[t].h /\ call'[t].s = call[t].s /\ call'[t].op = call[t].op
           /\ call'[t].dict = n /\ call'[t].lock = k
           /\ \A u \in Threads : u # t => pc'[u] = pc[u] /\ call'[u] = call[u]
<1> DEFINE c == [call[t] EXCEPT !.dict = n, !.lock = k]
<1>1. TypeOK /\ call[t] \in Calls
  BY ThrTyped DEF IInv
<1>2. /\ c \in Calls /\ c.h = call[t].h /\ c.s = call[t].s /\ c.op = call[t].op
      /\ c.dict = n /\ c.lock = k
  BY <1>1 DEF Calls
<1> HIDE DEF c
<1>3. call' \in [Threads -> Calls] /\ call'[t] = c
      /\ \A u \in Threads : u # t => call'[u] = call[u]
  <2>1. call' = [call EXCEPT ![t] = c]
    BY DEF c
  <2> QED  BY <1>1, <1>2, <2>1, Calling
<1> QED
  BY <1>1, <1>2, <1>3, Going

LEMMA StepCreateGetDict ==
    ASSUME IInv, NEW t \in Threads, CreateGetDict(t)
    PROVE  IInv'
<1>0. PICK n, k : n = current[call[t].s] /\ k = call[t].lock
  OBVIOUS
<1>1. /\ TypeOK /\ pc[t] = "setdefault" /\ Goto(t, "insert")
      /\ call' = [call EXCEPT ![t].dict = n]
      /\ UNCHANGED <<poolVars, dictVars, sessionVars, lockVars, calls, loop>>
  BY <1>0 DEF IInv, CreateGetDict
<1>2. /\ Thr(t) /\ call[t] \in Calls /\ n \in 0..MaxSweeps /\ k \in Locks \cup {None}
      /\ call[t].h \in Handles /\ call[t].s \in Sessions
  BY <1>0, <1>1, Held, ThrTyped DEF Calls
<1>3. call' = [call EXCEPT ![t] = [call[t] EXCEPT !.dict = n, !.lock = k]]
  <2>1. [call[t] EXCEPT !.dict = n, !.lock = k] = [call[t] EXCEPT !.dict = n]
    BY <1>0, <1>2 DEF Calls
  <2> QED  BY <1>1, <2>1
<1>4. /\ pc' \in [Threads -> Labels] /\ pc'[t] = "insert"
      /\ call' \in [Threads -> Calls]
      /\ call'[t].h = call[t].h /\ call'[t].s = call[t].s /\ call'[t].op = call[t].op
      /\ call'[t].dict = n /\ call'[t].lock = k
      /\ \A u \in Threads : u # t => pc'[u] = pc[u] /\ call'[u] = call[u]
  <2>1. "insert" \in Labels
    BY DEF Labels
  <2> QED  BY <1>1, <1>2, <1>3, <2>1, Finds
<1>5. TypeOK'
  <2>1. P!TypeOK'
    BY <1>1, <1>2, PoolTyped DEF TypeOK
  <2> QED  BY <1>1, <1>4, <2>1, TypeParts DEF TypeOK, dictVars, lockVars, sessionVars
<1>6. /\ home' = home /\ current' = current /\ phase' = phase /\ lockOf' = lockOf
      /\ holder' = holder /\ loop' = loop /\ \A h \in Handles : Settled(h)
  BY <1>1 DEF Settled, dictVars, lockVars, poolVars
<1>7. ASSUME NEW u \in Threads, u # t, pc[u] \in Making PROVE call'[t].h # call[u].h
  <2>1. Thr(u) /\ t \in Threads \ {u}
    BY <1>7 DEF IInv
  <2> QED  BY <1>4, <1>7, <2>1 DEF Thr
<1>8. Thr(t)'
  <2>1. \A u \in Threads \ {t} : call'[u].h # call'[t].h
    BY <1>1, <1>2, <1>4 DEF Thr, Making
  <2>2. call[t].h # None /\ call[t].s # None /\ home[call[t].h] = None
        /\ phase[call[t].h] # "unused"
    BY <1>1, <1>2 DEF Thr, Making
  <2>3. n <= current[call[t].s]
    BY <1>0, <1>2
  <2> QED  BY <1>4, <1>6, <2>1, <2>2, <2>3 DEF Thr, Making, HasLock, Locked
<1>9. ~After(t)' /\ ~Hot(t)'
  BY <1>4 DEF After, Hot
<1>10. ASSUME NEW h \in Handles, SameLock(h) PROVE SameLock(h)'
  BY <1>4, <1>6, <1>10 DEF SameLock, Locked
<1> QED
  BY <1>4, <1>5, <1>6, <1>7, <1>8, <1>9, <1>10, OneThread

LEMMA StepCloseGetDict ==
    ASSUME IInv, NEW t \in Threads, CloseGetDict(t)
    PROVE  IInv'
<1>0. PICK n, k : n = current[call[t].s] /\ k = call[t].lock
  OBVIOUS
<1>1. /\ TypeOK /\ pc[t] = "getdict" /\ Goto(t, "pop")
      /\ call' = [call EXCEPT ![t].dict = n]
      /\ UNCHANGED <<poolVars, dictVars, sessionVars, lockVars, calls, loop>>
  BY <1>0 DEF IInv, CloseGetDict
<1>2. /\ Thr(t) /\ Kept(call[t].h) /\ call[t] \in Calls /\ n \in 0..MaxSweeps
      /\ k \in Locks \cup {None} /\ call[t].h \in Handles /\ call[t].s \in Sessions
  BY <1>0, <1>1, Held, ThrTyped DEF Calls
<1>3. call' = [call EXCEPT ![t] = [call[t] EXCEPT !.dict = n, !.lock = k]]
  <2>1. [call[t] EXCEPT !.dict = n, !.lock = k] = [call[t] EXCEPT !.dict = n]
    BY <1>0, <1>2 DEF Calls
  <2> QED  BY <1>1, <2>1
<1>4. /\ pc' \in [Threads -> Labels] /\ pc'[t] = "pop"
      /\ call' \in [Threads -> Calls]
      /\ call'[t].h = call[t].h /\ call'[t].s = call[t].s /\ call'[t].op = call[t].op
      /\ call'[t].dict = n /\ call'[t].lock = k
      /\ \A u \in Threads : u # t => pc'[u] = pc[u] /\ call'[u] = call[u]
  <2>1. "pop" \in Labels
    BY DEF Labels
  <2> QED  BY <1>1, <1>2, <1>3, <2>1, Finds
<1>5. TypeOK'
  <2>1. P!TypeOK'
    BY <1>1, <1>2, PoolTyped DEF TypeOK
  <2> QED  BY <1>1, <1>4, <2>1, TypeParts DEF TypeOK, dictVars, lockVars, sessionVars
<1>6. /\ home' = home /\ current' = current /\ phase' = phase /\ lockOf' = lockOf
      /\ envs' = envs /\ holder' = holder /\ loop' = loop /\ \A h \in Handles : Settled(h)
  BY <1>1 DEF Settled, dictVars, lockVars, poolVars
<1>7. ASSUME NEW u \in Threads, u # t, pc[u] \in Making PROVE call'[t].h # call[u].h
  <2>1. Thr(u) /\ t \in Threads \ {u}
    BY <1>7 DEF IInv
  <2> QED  BY <1>4, <1>7, <2>1 DEF Thr
<1>8. Thr(t)'
  <2>1. /\ call[t].h # None /\ call[t].s # None /\ home[call[t].h] = call[t].s
        /\ call[t].lock \in Locks /\ holder[call[t].lock] = t /\ call[t].op = "close"
    BY <1>1, <1>2 DEF Thr, Making, HasLock, Locked
  <2>2. n <= current[call[t].s]
    BY <1>0, <1>2
  <2>3. \A m \in 0..MaxSweeps : call[t].h \in envs[call[t].s][m] => m <= n
    BY <1>0, <1>2 DEF Kept
  <2> QED  BY <1>0, <1>4, <1>6, <2>1, <2>2, <2>3 DEF Thr, Making, HasLock, Locked
<1>9. ~After(t)' /\ (Hot(t)' => Hot(t) /\ call'[t].h = call[t].h)
  BY <1>0, <1>1, <1>4, <1>6 DEF After, Hot
<1>10. ASSUME NEW h \in Handles, SameLock(h) PROVE SameLock(h)'
  BY <1>0, <1>1, <1>4, <1>6, <1>10 DEF SameLock, Locked
<1> QED
  BY <1>4, <1>5, <1>6, <1>7, <1>8, <1>9, <1>10, OneThread

LEMMA StepGetLock ==
    ASSUME IInv, NEW t \in Threads, GetLock(t)
    PROVE  IInv'
<1>0. PICK h, n : h = call[t].h /\ n = call[t].dict
  OBVIOUS
<1>1. PICK l \in Locks :
        /\ IF lockOf[h] # None
           THEN l = lockOf[h]
           ELSE /\ \A g \in Handles : lockOf[g] # l
                /\ \A u \in Threads : call[u].lock # l
        /\ lockOf' = [lockOf EXCEPT ![h] = l]
        /\ call' = [call EXCEPT ![t].lock = l]
  BY <1>0 DEF GetLock
<1>2. /\ TypeOK /\ pc[t] = "getlock" /\ Goto(t, "lock")
      /\ UNCHANGED <<poolVars, dictVars, sessionVars, holder, calls, loop>>
  BY DEF IInv, GetLock
<1>3. /\ Thr(t) /\ call[t] \in Calls /\ n \in 0..MaxSweeps /\ h \in Handles
      /\ call[t].s \in Sessions
  BY <1>0, <1>2, Held, ThrTyped DEF Calls
<1>4. call' = [call EXCEPT ![t] = [call[t] EXCEPT !.dict = n, !.lock = l]]
  <2>1. [call[t] EXCEPT !.dict = n, !.lock = l] = [call[t] EXCEPT !.lock = l]
    BY <1>0, <1>3 DEF Calls
  <2> QED  BY <1>1, <2>1
<1>5. /\ pc' \in [Threads -> Labels] /\ pc'[t] = "lock"
      /\ call' \in [Threads -> Calls]
      /\ call'[t].h = call[t].h /\ call'[t].s = call[t].s /\ call'[t].op = call[t].op
      /\ call'[t].dict = n /\ call'[t].lock = l
      /\ \A u \in Threads : u # t => pc'[u] = pc[u] /\ call'[u] = call[u]
  <2>1. "lock" \in Labels /\ l \in Locks \cup {None}
    BY DEF Labels
  <2> QED  BY <1>2, <1>3, <1>4, <2>1, Finds
<1>6. /\ lockOf' \in [Handles -> Locks \cup {None}] /\ lockOf'[h] = l
      /\ \A g \in Handles : g # h => lockOf'[g] = lockOf[g]
  BY <1>1, <1>2, <1>3 DEF TypeOK
<1>7. TypeOK'
  <2>1. P!TypeOK'
    BY <1>2, <1>3, PoolTyped DEF TypeOK
  <2> QED  BY <1>2, <1>5, <1>6, <2>1, TypeParts DEF TypeOK, dictVars, sessionVars
<1>8. /\ home' = home /\ current' = current /\ phase' = phase
      /\ envs' = envs /\ holder' = holder /\ loop' = loop /\ \A g \in Handles : Settled(g)
  BY <1>2 DEF Settled, dictVars, poolVars
<1>9. ASSUME NEW u \in Threads, u # t, pc[u] \in Making PROVE call'[t].h # call[u].h
  <2>1. Thr(u) /\ t \in Threads \ {u}
    BY <1>9 DEF IInv
  <2> QED  BY <1>5, <1>9, <2>1 DEF Thr
<1>10. Thr(t)'
  <2>1. call[t].h # None /\ call[t].s # None /\ home[call[t].h] = call[t].s
    BY <1>2, <1>3 DEF Thr, Making
  <2> QED  BY <1>5, <1>8, <2>1 DEF Thr, Making, HasLock, Locked
<1>11. ~After(t)' /\ ~Hot(t)'
  BY <1>5 DEF After, Hot
<1>12. ASSUME NEW g \in Handles, SameLock(g) PROVE SameLock(g)'
  <2>1. CASE g # h
    BY <1>0, <1>5, <1>6, <1>12, <2>1 DEF SameLock
  <2>2. CASE g = h /\ lockOf[h] # None
    BY <1>0, <1>1, <1>5, <1>6, <1>12, <2>2 DEF SameLock
  <2>3. CASE g = h /\ lockOf[h] = None
    <3>1. ASSUME NEW u \in Threads, call[u].h = h, pc[u] \in Locked \cup {"lock"}
          PROVE FALSE
      <4>1. call[u].lock = None
        BY <1>12, <2>3, <3>1 DEF SameLock
      <4>2. Thr(u)
        BY DEF IInv
      <4> QED  BY <1>2, <3>1, <4>1, <4>2, ThrTyped DEF Thr, HasLock
    <3> QED  BY <1>5, <1>6, <2>3, <3>1 DEF SameLock
  <2> QED  BY <2>1, <2>2, <2>3
<1> QED
  BY <1>5, <1>7, <1>8, <1>9, <1>10, <1>11, <1>12, OneThread

LEMMA StepClosePop ==
    ASSUME IInv, NEW t \in Threads, ClosePop(t)
    PROVE  IInv'
<1>0. PICK h, s, n : h = call[t].h /\ s = call[t].s /\ n = call[t].dict
  OBVIOUS
<1> DEFINE l == IF h \in envs[s][n] THEN "delete" ELSE "unlock"
<1>1. /\ TypeOK /\ pc[t] = "pop" /\ Goto(t, l)
      /\ envs' = [envs EXCEPT ![s][n] = @ \ {h}]
      /\ UNCHANGED <<poolVars, current, home, sessionVars, lockVars, call, calls, loop>>
  BY <1>0 DEF IInv, ClosePop
<1>2. /\ Thr(t) /\ Kept(h) /\ n \in 0..MaxSweeps /\ h \in Handles /\ s \in Sessions
      /\ current[s] \in 0..MaxSweeps
  BY <1>0, <1>1, Held
<1>3. /\ home[h] = s /\ n <= current[s] /\ call[t].op = "close" /\ h # None /\ s # None
      /\ call[t].lock \in Locks /\ holder[call[t].lock] = t
      /\ \A m \in 0..MaxSweeps : h \in envs[s][m] => m <= n
  BY <1>0, <1>1, <1>2 DEF Thr, Making, HasLock, Locked
<1>4. /\ pc' \in [Threads -> Labels] /\ pc'[t] = l /\ l \in {"delete", "unlock"}
      /\ \A u \in Threads : u # t => pc'[u] = pc[u]
  <2>1. l \in Labels
    BY DEF Labels
  <2> QED  BY <1>1, <2>1, Going
<1>5. /\ envs' \in [Sessions -> [0..MaxSweeps -> SUBSET Handles]]
      /\ h \notin envs'[s][n]
      /\ \A m \in 0..MaxSweeps : m # n => envs'[s][m] = envs[s][m]
      /\ \A g \in Handles : Settled(g)
  BY <1>1, <1>2, ZenonT(40) DEF TypeOK, Settled
<1>6. TypeOK'
  <2>1. P!TypeOK'
    BY <1>1, <1>2, PoolTyped DEF TypeOK
  <2> QED  BY <1>1, <1>4, <1>5, <2>1, ThrTyped, TypeParts DEF TypeOK, lockVars, sessionVars
<1>7. /\ home' = home /\ current' = current /\ phase' = phase /\ lockOf' = lockOf
      /\ holder' = holder /\ loop' = loop /\ call' = call
  BY <1>1 DEF lockVars, poolVars
<1>8. ASSUME NEW u \in Threads, u # t, pc[u] \in Making PROVE call'[t].h # call[u].h
  <2>1. Thr(u) /\ t \in Threads \ {u}
    BY <1>8 DEF IInv
  <2> QED  BY <1>7, <1>8, <2>1 DEF Thr
<1>9. Thr(t)'
  BY <1>0, <1>3, <1>4, <1>7 DEF Thr, Making, HasLock, Locked
<1>10. Hot(t)' => Hot(t)
  BY <1>0, <1>1, <1>4 DEF Hot
<1>11. \A u \in Threads : u # t => (Hot(u)' => Hot(u))
  <2>1. \A g \in Handles : phase[g] # "unused" => phase'[g] # "unused"
    BY <1>7
  <2> QED  BY <1>4, <1>5, <1>6, <1>7, <1>8, <2>1, Others
<1>12. h \notin envs'[s][current[s]]
  <2>1. CASE current[s] = n
    BY <1>5, <2>1
  <2>2. CASE current[s] # n
    <3>1. ~(current[s] <= n)
      BY <1>2, <1>3, <2>2
    <3> QED  BY <1>2, <1>3, <1>5, <2>2, <3>1
  <2> QED  BY <2>1, <2>2
<1>13. Cold(h, {t})'
  <2>1. h \notin envs'[home'[h]][current'[home'[h]]]
    BY <1>3, <1>7, <1>12
  <2>2. ASSUME NEW u \in Threads \ {t}, call'[u].h = h, Hot(u)' PROVE FALSE
    <3>1. Hot(u) /\ call[u].h = h
      BY <1>7, <1>11, <2>2
    <3>2. CASE Hot(t)
      <4>1. pc[t] \in Locked
        BY <1>1 DEF Locked
      <4> QED  BY <1>0, <3>1, <3>2, <4>1, OneHot
    <3>3. CASE ~Hot(t)
      <4>1. ~Cold(h, {})
        BY <3>1 DEF Cold
      <4>2. SameLock(h)
        BY <1>2, <4>1 DEF IInv
      <4> QED  BY <1>0, <1>1, <3>1, <4>2, OneHot DEF Locked
    <3> QED  BY <3>2, <3>3
  <2> QED  BY <2>1, <2>2 DEF Cold
<1>14. ASSUME NEW g \in Handles, SameLock(g) PROVE SameLock(g)'
  BY <1>1, <1>4, <1>7, <1>14 DEF SameLock, Locked
<1>15. \A u \in Threads : u # t => pc'[u] = pc[u] /\ call'[u] = call[u]
  BY <1>4, <1>7
<1>16. After(t)' => Cold(call[t].h, {t})' /\ call'[t].h = call[t].h
  BY <1>0, <1>7, <1>13
<1>17. \A g \in Handles : phase[g] # "unused" => phase'[g] # "unused"
  BY <1>7
<1> QED
  BY <1>5, <1>6, <1>7, <1>8, <1>9, <1>10, <1>14, <1>15, <1>16, <1>17, OneThread

-----------------------------------------------------------------------------
(* The event loop. *)

Loops == [pc : {"idle", "next", "popped", "iterate", "delete", "release", "dead"},
          stale : SUBSET Sessions, s : Sessions \cup {None},
          dict : 0..MaxSweeps, size : Nat,
          visited : SUBSET Handles, h : Handles \cup {None}]

\* A step of the event loop changes no call; a session that gets a new
\* dictionary gets an empty one.
LEMMA LoopStep ==
    ASSUME IInv, P!TypeOK', loop' \in Loops, Sweep',
           current' \in [Sessions -> 0..MaxSweeps],
           \A s \in Sessions : current[s] <= current'[s],
           active' \in [Sessions -> {"none", "recent", "idle"}],
           sse' \subseteq minted', minted' \subseteq Sessions,
           UNCHANGED <<envs, home, lockVars, threadVars>>,
           \A h \in Handles : phase[h] # "unused" => phase'[h] # "unused"
    PROVE  IInv'
<1>1. TypeOK
  BY DEF IInv
<1>2. TypeOK'
  BY <1>1, ThrTyped, TypeParts DEF TypeOK, Loops, lockVars, threadVars
<1>3. /\ envs' = envs /\ home' = home /\ lockOf' = lockOf /\ holder' = holder
      /\ pc' = pc /\ call' = call
  BY DEF lockVars, threadVars
<1>4. ASSUME NEW s \in Sessions, NEW h \in Handles, h \in envs[s][current'[s]]
      PROVE  current'[s] = current[s]
  <2>1. current'[s] \in 0..MaxSweeps /\ current[s] \in 0..MaxSweeps /\ Kept(h)
    BY <1>1 DEF IInv, TypeOK
  <2>2. current'[s] <= current[s]
    BY <1>4, <2>1 DEF Kept
  <2> QED  BY <2>1, <2>2
<1>5. ASSUME NEW t \in Threads PROVE Thr(t)' /\ (Hot(t)' => Hot(t))
  <2>1. CASE pc[t] = "idle"
    <3>1. Thr(t) /\ call[t].h = None /\ call[t].s = None
      BY <2>1 DEF IInv, Thr
    <3> QED  BY <1>3, <2>1, <3>1 DEF Thr, Hot, Making, HasLock, Locked
  <2>2. CASE pc[t] # "idle"
    <3>1. /\ call[t].h \in Handles /\ call[t].s \in Sessions /\ Thr(t)
          /\ call[t].dict \in 0..MaxSweeps /\ current[call[t].s] \in 0..MaxSweeps
      BY <2>2, Held
    <3>2. Hot(t)' => Hot(t)
      BY <1>3, <1>4, <3>1 DEF Hot
    <3>3. phase[call[t].h] # "unused" => phase'[call[t].h] # "unused"
      BY <3>1
    <3>4. call[t].dict <= current[call[t].s] => call[t].dict <= current'[call[t].s]
      <4>1. current[call[t].s] <= current'[call[t].s] /\ current'[call[t].s] \in 0..MaxSweeps
        BY <3>1
      <4> QED  BY <3>1, <4>1
    <3>5. Thr(t)'
      BY <1>3, <3>1, <3>3, <3>4 DEF Thr
    <3> QED  BY <3>2, <3>5
  <2> QED  BY <2>1, <2>2
<1>6. ASSUME NEW h \in Handles, NEW T, Cold(h, T), home[h] # None PROVE Cold(h, T)'
  <2>1. home[h] \in Sessions
    BY <1>1, <1>6 DEF TypeOK
  <2>2. h \notin envs'[home'[h]][current'[home'[h]]]
    BY <1>3, <1>4, <1>6, <2>1 DEF Cold
  <2>3. \A u \in Threads \ T : call'[u].h = h => ~Hot(u)'
    BY <1>3, <1>5, <1>6 DEF Cold
  <2> QED  BY <2>2, <2>3 DEF Cold
<1>7. ASSUME NEW t \in Threads, After(t)' PROVE Cold(call[t].h, {t})'
  <2>1. After(t) /\ Cold(call[t].h, {t})
    BY <1>3, <1>7 DEF IInv, After
  <2>2. PICK h : h = call[t].h
    OBVIOUS
  <2>3. h \in Handles /\ home[h] # None
    BY <1>1, <2>1, <2>2, Held, ThrTyped DEF After, Thr, Making
  <2>4. Cold(h, {t})'
    BY <1>6, <2>1, <2>2, <2>3
  <2> QED  BY <1>3, <2>2, <2>4
<1>8. ASSUME NEW h \in Handles PROVE Kept(h)' /\ (SameLock(h)' \/ Cold(h, {})')
  <2>1. Kept(h) /\ (SameLock(h) \/ Cold(h, {}))
    BY DEF IInv
  <2>2. Kept(h)'
    <3>1. \A s \in Sessions : \A n \in 0..MaxSweeps :
            n <= current[s] => n <= current'[s]
      <4>1. ASSUME NEW s \in Sessions, NEW n \in 0..MaxSweeps, n <= current[s]
            PROVE n <= current'[s]
        <5>1. current[s] \in 0..MaxSweeps /\ current'[s] \in 0..MaxSweeps
              /\ current[s] <= current'[s]
          BY <1>1 DEF TypeOK
        <5> QED  BY <4>1, <5>1
      <4> QED  BY <4>1
    <3> QED  BY <1>3, <2>1, <3>1 DEF Kept
  <2>3. SameLock(h) => SameLock(h)'
    BY <1>3 DEF SameLock
  <2>4. CASE home[h] = None
    <3>1. ASSUME NEW u \in Threads, call[u].h = h, pc[u] \in Locked \cup {"lock"}
          PROVE FALSE
      BY <1>1, <2>4, <3>1, Held, ThrTyped DEF Thr, Making, Locked
    <3> QED  BY <2>2, <2>3, <3>1 DEF SameLock
  <2>5. CASE home[h] # None
    BY <1>6, <2>1, <2>2, <2>3, <2>5
  <2> QED  BY <2>4, <2>5
<1>9. \A t \in Threads : Thr(t)' /\ (After(t)' => Cold(call[t].h, {t})')
  BY <1>5, <1>7
<1> QED
  BY <1>2, <1>7, <1>8, <1>9 DEF IInv

LEMMA LoopTyped ==
    ASSUME IInv
    PROVE  /\ loop \in Loops /\ Sweep /\ P!TypeOK
           /\ current \in [Sessions -> 0..MaxSweeps]
           /\ \A s \in Sessions : current[s] <= current[s]
           /\ active \in [Sessions -> {"none", "recent", "idle"}]
           /\ sse \subseteq minted /\ minted \subseteq Sessions
  BY DEF IInv, TypeOK, Loops

LEMMA StepSession ==
    ASSUME IInv, NEW s \in Sessions, SseConnect(s) \/ SseDetach(s) \/ Expire(s)
    PROVE  IInv'
<1>1. UNCHANGED <<poolVars, dictVars, lockVars, threadVars, loop>>
  BY DEF SseConnect, SseDetach, Expire
<1>2. P!TypeOK' /\ phase' = phase
  BY <1>1, LoopTyped DEF P!TypeOK, poolVars
<1>3. /\ active' \in [Sessions -> {"none", "recent", "idle"}]
      /\ sse' \subseteq minted' /\ minted' \subseteq Sessions
  BY LoopTyped DEF SseConnect, SseDetach, Expire, Touch
<1>4. Sweep' /\ loop' \in Loops
  BY <1>1, LoopTyped DEF Sweep, dictVars
<1> QED
  BY <1>1, <1>2, <1>3, <1>4, LoopTyped, LoopStep DEF dictVars

LEMMA StepPoolChanges ==
    ASSUME IInv, PoolChanges
    PROVE  IInv'
<1>1. /\ UNCHANGED <<dictVars, sessionVars, lockVars, threadVars, loop>>
      /\ P!TypeOK' /\ phase' = phase
  BY LoopTyped, PoolChangesTyped DEF PoolChanges
<1>2. Sweep' /\ loop' \in Loops
  BY <1>1, LoopTyped DEF Sweep, dictVars
<1> QED
  BY <1>1, <1>2, LoopTyped, LoopStep DEF dictVars, sessionVars

LEMMA StepLists ==
    ASSUME IInv, SweepStart \/ CleanupIter \/ CleanupRaises \/ \E h \in Handles : CleanupNext(h)
    PROVE  IInv'
<1>1. UNCHANGED <<poolVars, dictVars, sessionVars, lockVars, threadVars>>
  BY DEF SweepStart, CleanupIter, CleanupRaises, CleanupNext
<1>2. P!TypeOK' /\ phase' = phase
  BY <1>1, LoopTyped DEF P!TypeOK, poolVars
<1>3. Sweep' /\ loop' \in Loops
  <2>1. CASE SweepStart
    BY <1>1, <2>1, LoopTyped DEF SweepStart, Loops, Sweep, dictVars
  <2>2. CASE CleanupIter
    <3>1. loop.s \in Sessions /\ loop.dict \in 0..MaxSweeps
      BY <2>2, LoopTyped DEF CleanupIter, Sweep, Loops
    <3>2. Cleaned \subseteq Handles
      <4>1. envs \in [Sessions -> [0..MaxSweeps -> SUBSET Handles]]
        BY DEF IInv, TypeOK
      <4> QED  BY <3>1, <4>1 DEF Cleaned
    <3>3. Cardinality(Cleaned) \in Nat
      BY <3>2, SessionsAssumption, FS_Subset, FS_CardinalityType
    <3>4. PICK k \in Nat : k = Cardinality(Cleaned)
      BY <3>3
    <3>5. loop' = [loop EXCEPT !.pc = "iterate", !.size = k]
      BY <2>2, <3>4 DEF CleanupIter
    <3> QED  BY <1>1, <3>1, <3>5, LoopTyped DEF Loops, Sweep, dictVars
  <2>3. CASE CleanupRaises
    <3>1. 0 \in 0..MaxSweeps
      BY SessionsAssumption
    <3>2. loop' = [loop EXCEPT !.pc = "dead", !.stale = {}, !.visited = {}, !.size = 0,
                               !.dict = 0, !.s = None]
      BY <2>3 DEF CleanupRaises
    <3> QED  BY <1>1, <3>1, <3>2, LoopTyped DEF Loops, Sweep, dictVars
  <2>4. CASE \E h \in Handles : CleanupNext(h)
    <3>1. PICK h \in Handles : CleanupNext(h)
      BY <2>4
    <3>2. loop.s \in Sessions /\ loop.dict \in 0..MaxSweeps /\ h \in envs[loop.s][loop.dict]
      BY <3>1, LoopTyped DEF CleanupNext, Cleaned, Sweep, Loops
    <3>3. home[h] # None
      BY <3>2, SessionsAssumption DEF IInv, Kept
    <3> QED  BY <1>1, <3>1, <3>2, <3>3, LoopTyped DEF CleanupNext, Loops, Sweep, dictVars
  <2> QED  BY <2>1, <2>2, <2>3, <2>4
<1> QED
  BY <1>1, <1>2, <1>3, LoopTyped, LoopStep DEF dictVars, sessionVars

LEMMA StepCleanupPop ==
    ASSUME IInv, NEW s \in Sessions, CleanupPop(s)
    PROVE  IInv'
<1>1. /\ s \in loop.stale /\ current' = [current EXCEPT ![s] = @ + 1]
      /\ loop' = [loop EXCEPT !.pc = "popped", !.stale = @ \ {s}, !.s = s,
                              !.dict = current[s]]
      /\ UNCHANGED <<poolVars, envs, home, sessionVars, lockVars, threadVars>>
  BY DEF CleanupPop
<1>2. P!TypeOK' /\ phase' = phase
  BY <1>1, LoopTyped DEF P!TypeOK, poolVars
<1>3. current[s] < MaxSweeps /\ current[s] \in 0..MaxSweeps /\ MaxSweeps \in Nat
  BY <1>1, LoopTyped, SessionsAssumption DEF Sweep
<1>4. current[s] + 1 \in 0..MaxSweeps /\ current[s] <= current[s] + 1
  BY <1>3
<1>5. /\ current' \in [Sessions -> 0..MaxSweeps] /\ current'[s] = current[s] + 1
      /\ \A r \in Sessions : r # s => current'[r] = current[r]
  BY <1>1, <1>4, LoopTyped
<1>6. \A r \in Sessions : current[r] <= current'[r]
  BY <1>4, <1>5, LoopTyped
<1>7. loop' \in Loops
  BY <1>1, <1>3, LoopTyped DEF Loops
<1>8. Sweep'
  <2>1. loop.stale \subseteq Sessions /\ loop'.stale = loop.stale \ {s} /\ loop'.s = s
        /\ loop'.pc = "popped"
    BY <1>1, LoopTyped DEF Loops
  <2> QED  BY <1>1, <1>5, <2>1, LoopTyped DEF Sweep
<1> QED
  BY <1>1, <1>2, <1>5, <1>6, <1>7, <1>8, LoopTyped, LoopStep DEF sessionVars

LEMMA StepCleanupSends ==
    ASSUME IInv, CleanupDelete \/ CleanupRelease
    PROVE  IInv'
<1>1. /\ UNCHANGED <<dictVars, sessionVars, lockVars, threadVars>>
      /\ loop.pc \in {"delete", "release"}
      /\ SendDelete(loop.h) \/ SendRelease(loop.h)
  BY DEF CleanupDelete, CleanupRelease
<1>2. loop.h \in Handles /\ loop.s \in Sessions /\ home[loop.h] # None
  BY <1>1, LoopTyped DEF Sweep
<1>3. P!TypeOK' /\ \A g \in Handles : phase[g] # "unused" => phase'[g] # "unused"
  BY <1>1, <1>2, LoopTyped, PoolTyped
<1>4. loop' \in Loops /\ Sweep'
  <2>1. CASE CleanupDelete
    BY <1>1, <1>2, <2>1, LoopTyped DEF CleanupDelete, Loops, Sweep, dictVars
  <2>2. CASE CleanupRelease
    BY <1>1, <1>2, <2>2, LoopTyped DEF CleanupRelease, Loops, Sweep, dictVars
  <2> QED  BY <2>1, <2>2
<1> QED
  BY <1>1, <1>3, <1>4, LoopTyped, LoopStep DEF dictVars, sessionVars

LEMMA StepCleanupEnd ==
    ASSUME IInv, CleanupEnd
    PROVE  IInv'
<1>1. /\ active' = [active EXCEPT ![loop.s] = "none"] /\ sse' = sse \ {loop.s}
      /\ UNCHANGED <<poolVars, dictVars, minted, lockVars, threadVars>>
  BY DEF CleanupEnd
<1>2. P!TypeOK' /\ phase' = phase
  BY <1>1, LoopTyped DEF P!TypeOK, poolVars
<1>3. /\ active' \in [Sessions -> {"none", "recent", "idle"}]
      /\ sse' \subseteq minted'
  BY <1>1, LoopTyped
<1>4. PICK l \in {"idle", "next"} :
        loop' = [loop EXCEPT !.pc = l, !.s = None, !.visited = {}, !.size = 0, !.dict = 0]
  BY DEF CleanupEnd
<1>5. 0 \in 0..MaxSweeps
  BY SessionsAssumption
<1>6. loop' \in Loops /\ Sweep'
  BY <1>1, <1>4, <1>5, LoopTyped DEF Loops, Sweep, dictVars
<1> QED
  BY <1>1, <1>2, <1>3, <1>6, LoopTyped, LoopStep DEF dictVars

-----------------------------------------------------------------------------
(* The invariant. *)

LEMMA InitIInv ==
    ASSUME Init
    PROVE  IInv
<1>1. 0 \in 0..MaxSweeps /\ 0 \in 0..MaxCalls /\ 0 \in Nat
  BY SessionsAssumption
<1>2. TypeOK
  <2>1. P!TypeOK
    BY DEF Init, P!Init, P!TypeOK, P!Phases
  <2>2. call \in [Threads -> Calls] /\ loop \in Loops /\ pc \in [Threads -> Labels]
    BY <1>1 DEF Init, Calls, Loops, Labels
  <2> QED  BY <1>1, <2>1, <2>2 DEF Init, TypeOK, Calls, Loops, Labels
<1>3. \A t \in Threads : Thr(t) /\ ~After(t)
  BY DEF Init, Thr, After, Making, HasLock, Locked
<1>4. \A h \in Handles : Kept(h) /\ SameLock(h)
  BY DEF Init, Kept, SameLock, Locked
<1>5. Sweep
  BY DEF Init, Sweep
<1> QED
  BY <1>2, <1>3, <1>4, <1>5 DEF IInv

LEMMA Stutter ==
    ASSUME IInv, UNCHANGED vars
    PROVE  IInv'
<1>1. P!TypeOK' /\ phase' = phase /\ loop' \in Loops /\ Sweep'
      /\ UNCHANGED <<dictVars, sessionVars, lockVars, threadVars>>
  BY LoopTyped DEF P!TypeOK, poolVars, vars, Sweep, dictVars
<1> QED
  BY <1>1, LoopTyped, LoopStep DEF dictVars, sessionVars

LEMMA NextIInv ==
    ASSUME IInv, [Next]_vars
    PROVE  IInv'
<1>1. CASE \E t \in Threads : Thread(t)
  BY <1>1, StepCreateTouch, StepCreateAcquire, StepCreatePost, StepCreateFailed,
     StepCreateGetDict, StepCreateInsert, StepGetLock, StepTakeLock, StepControl,
     StepCloseGetDict, StepClosePop, StepCloseSends, StepUnlock, StepDropLock DEF Thread
<1>2. CASE \E t \in Threads : \E h \in Handles :
              \/ \E s \in Sessions : StartCreate(t, s, h)
              \/ \E op \in {"control", "close"} : StartControl(t, op, h)
  BY <1>2, StepStart
<1>3. CASE \E s \in Sessions : SseConnect(s) \/ SseDetach(s) \/ Expire(s)
  BY <1>3, StepSession
<1>4. CASE Sweeper
  BY <1>4, StepLists, StepCleanupPop, StepCleanupSends, StepCleanupEnd DEF Sweeper
<1>5. CASE UNCHANGED vars
  BY <1>5, Stutter
<1>6. CASE PoolChanges
  BY <1>6, StepPoolChanges
<1> QED
  BY <1>1, <1>2, <1>3, <1>4, <1>5, <1>6 DEF Next, Quiescent

\* The invariant of the sessions, with sweeps or without.
THEOREM Inductive == Spec => []IInv
<1>1. Init => IInv
  BY InitIInv
<1>2. IInv /\ [Next]_vars => IInv'
  BY NextIInv
<1> QED
  BY <1>1, <1>2, PTL DEF Spec

\* Every variable of the sessions has its type: no handle, lock or dictionary
\* appears that the server did not hand out (session.py, _serialized_env_control).
THEOREM TypeCorrect == Spec => []TypeOK
<1>1. IInv => TypeOK
  BY DEF IInv
<1> QED
  BY <1>1, Inductive, PTL

LEMMA Excludes ==
    ASSUME IInv
    PROVE  ControlExclusion
<1> SUFFICES ASSUME NEW t \in Threads, NEW u \in Threads, Engaged(t), Engaged(u),
                    call[t].h = call[u].h
             PROVE  t = u
  BY DEF ControlExclusion
<1>1. Hot(t) /\ Hot(u) /\ pc[u] \in Locked
  BY DEF Engaged, Hot, Locked
<1> QED
  BY <1>1, OneHot

\* The requests of two control tools or closes never overlap on one
\* environment, although close_env throws the lock object away while others
\* may wait for it, and although a sweep takes whole dictionaries away
\* (_serialized_env_control, close_env, _cleanup_session).
THEOREM ExclusionCorrect == Spec => []ControlExclusion
<1>1. IInv => ControlExclusion
  BY Excludes
<1> QED
  BY <1>1, Inductive, PTL

-----------------------------------------------------------------------------
(* While nothing is swept: the places of the calls and the pool agree. *)

\* What can happen without the sweeper.
Served ==
    \/ \E t \in Threads :
        \/ Thread(t)
        \/ \E h \in Handles :
            \/ \E s \in Sessions : StartCreate(t, s, h)
            \/ \E op \in {"control", "close"} : StartControl(t, op, h)
    \/ \E s \in Sessions : SseConnect(s) \/ SseDetach(s) \/ Expire(s)
    \/ PoolChanges
    \/ UNCHANGED vars

\* Where a call's place fixes the phase of its environment, and where the call
\* is what keeps an open environment from being lost.
Staged == Making \cup {"remote", "delete", "release"}
Opening == {"setdefault", "insert", "delete"}

\* Nobody else's place depends on an environment that is made or closed.
LEMMA Alone ==
    ASSUME IInv, NEW t \in Threads, pc[t] \in Making \/ Hot(t),
           NEW u \in Threads \ {t}, call[u].h = call[t].h
    PROVE  pc[u] \notin Staged
<1>1. Thr(t) /\ Thr(u)
  BY DEF IInv
<1>2. pc[t] \notin Making
  BY <1>1 DEF Thr
<1>3. pc[u] \notin Making
  <2>1. t \in Threads \ {u}
    OBVIOUS
  <2> QED  BY <1>1, <2>1 DEF Thr
<1>4. pc[u] \notin {"remote", "delete", "release"}
  <2> SUFFICES ASSUME pc[u] \in {"remote", "delete", "release"} PROVE FALSE
    OBVIOUS
  <2>1. Hot(u) /\ pc[u] \in Locked
    BY DEF Hot, Locked
  <2>2. call[t].h = call[u].h
    OBVIOUS
  <2> QED  BY <1>2, <2>1, <2>2, OneHot
<1> QED
  BY <1>3, <1>4 DEF Staged

\* A step of one call keeps the places if it does its own environment right.
LEMMA QuietThread ==
    ASSUME IInv, IInv', QuietInv, NEW t \in Threads, loop' = loop, current' = current,
           \A u \in Threads : u # t => pc'[u] = pc[u] /\ call'[u] = call[u],
           Stage(t)',
           \A g \in Handles :
              \/ /\ phase'[g] = phase[g]
                 /\ \A s \in Sessions : g \in envs'[s][0] <=> g \in envs[s][0]
                 /\ call[t].h = g /\ pc[t] \in Opening => call'[t].h = g /\ pc'[t] \in Opening
              \/ /\ call[t].h = g /\ (pc[t] \in Making \/ Hot(t))
                 /\ \A s \in Sessions : g \in envs'[s][0] => phase'[g] = "open"
                 /\ phase'[g] = "open" => \/ \E s \in Sessions : g \in envs'[s][0]
                                          \/ call'[t].h = g /\ pc'[t] \in Opening
    PROVE  QuietInv'
<1>1. loop'.pc = "idle" /\ \A s \in Sessions : current'[s] = 0 /\ current[s] = 0
  BY DEF QuietInv
<1>2. ASSUME NEW s \in Sessions, NEW h \in envs'[s][0] PROVE phase'[h] = "open"
  <2>1. h \in Handles
    <3>1. envs' \in [Sessions -> [0..MaxSweeps -> SUBSET Handles]] /\ 0 \in 0..MaxSweeps
      BY SessionsAssumption DEF IInv, TypeOK
    <3> QED  BY <3>1, ZenonT(40)
  <2> QED  BY <2>1 DEF QuietInv
<1>3. ASSUME NEW u \in Threads PROVE Stage(u)'
  <2>1. CASE u = t
    BY <2>1
  <2>2. CASE u # t /\ pc[u] \notin Staged
    BY <2>2 DEF Stage, Staged, Making
  <2>3. CASE u # t /\ pc[u] \in Staged
    <3>1. pc[u] # "idle"
      BY <2>3 DEF Staged, Making
    <3>2. call[u].h \in Handles /\ call[u].s \in Sessions
      BY <3>1, Held
    <3>3. ~(call[t].h = call[u].h /\ (pc[t] \in Making \/ Hot(t)))
      BY <2>3, Alone
    <3>4. /\ phase'[call[u].h] = phase[call[u].h]
          /\ \A s \in Sessions : call[u].h \in envs'[s][0] <=> call[u].h \in envs[s][0]
      BY <3>2, <3>3
    <3>5. Stage(u) /\ pc'[u] = pc[u] /\ call'[u] = call[u]
      BY <2>3 DEF QuietInv
    <3> QED  BY <3>2, <3>4, <3>5 DEF Stage
  <2> QED  BY <2>1, <2>2, <2>3
<1>4. OpenIsReachable'
  <2> SUFFICES ASSUME NEW g \in Handles, phase'[g] = "open"
               PROVE  \/ \E s \in Sessions : g \in envs'[s][0]
                      \/ \E u \in Threads : call'[u].h = g /\ pc'[u] \in Opening
    BY <1>1 DEF OpenIsReachable, Opening
  <2>1. CASE /\ phase'[g] = phase[g]
             /\ \A s \in Sessions : g \in envs'[s][0] <=> g \in envs[s][0]
             /\ call[t].h = g /\ pc[t] \in Opening => call'[t].h = g /\ pc'[t] \in Opening
    <3>1. \/ \E s \in Sessions : g \in envs[s][0]
          \/ \E u \in Threads : call[u].h = g /\ pc[u] \in Opening
      BY <1>1, <2>1 DEF QuietInv, OpenIsReachable, Opening
    <3> QED  BY <2>1, <3>1
  <2> QED  BY <2>1
<1> QED
  BY <1>1, <1>2, <1>3, <1>4 DEF QuietInv

\* Most steps of a call touch neither its environment nor its dictionary.
LEMMA QuietPlain ==
    ASSUME IInv, IInv', QuietInv, NEW t \in Threads, loop' = loop, current' = current,
           envs' = envs, UNCHANGED poolVars,
           \A u \in Threads : u # t => pc'[u] = pc[u] /\ call'[u] = call[u],
           pc[t] \notin Opening, Stage(t)'
    PROVE  QuietInv' /\ [P!Next]_poolVars
<1>1. phase' = phase
  BY DEF poolVars
<1> QED
  BY <1>1, QuietThread

LEMMA QuietStart ==
    ASSUME IInv, IInv', QuietInv, NEW t \in Threads, NEW h \in Handles,
           \/ \E s \in Sessions : StartCreate(t, s, h)
           \/ \E op \in {"control", "close"} : StartControl(t, op, h)
    PROVE  QuietInv' /\ [P!Next]_poolVars
<1>1. PICK op, s, p :
        /\ Dispatch(t, op, s, h, p) /\ p \in {"touch", "getlock"}
        /\ p = "touch" => phase[h] = "unused"
        /\ UNCHANGED <<poolVars, dictVars, loop>>
  BY DEF StartCreate, StartControl
<1>2. /\ pc' = [pc EXCEPT ![t] = p] /\ pc[t] = "idle"
      /\ call' = [call EXCEPT ![t] = [op |-> op, s |-> s, h |-> h, dict |-> 0, lock |-> None]]
  BY <1>1 DEF Dispatch, Goto
<1>3. pc \in [Threads -> Labels] /\ call \in [Threads -> Calls]
  BY ThrTyped DEF IInv
<1>4. /\ pc'[t] = p /\ call'[t].h = h
      /\ \A u \in Threads : u # t => pc'[u] = pc[u] /\ call'[u] = call[u]
  BY <1>2, <1>3
<1>5. Stage(t)'
  BY <1>1, <1>4 DEF Stage, poolVars
<1> QED
  BY <1>1, <1>2, <1>4, <1>5, QuietPlain DEF Opening, dictVars

\* Steps on the way to an environment's dictionary or out of a call.
LEMMA QuietPasses ==
    ASSUME IInv, IInv', QuietInv, NEW t \in Threads,
           \/ CreateTouch(t) \/ GetLock(t) \/ TakeLock(t) \/ ControlLookup(t)
           \/ ControlDone(t) \/ CloseGetDict(t) \/ Unlock(t) \/ DropLock(t)
    PROVE  QuietInv' /\ [P!Next]_poolVars
<1>1. pc \in [Threads -> Labels] /\ call \in [Threads -> Calls]
  BY ThrTyped DEF IInv
<1>2. UNCHANGED <<poolVars, dictVars, loop>> /\ pc[t] \notin Opening
  BY DEF CreateTouch, GetLock, TakeLock, ControlLookup, ControlDone, CloseGetDict, Unlock,
         DropLock, Opening
<1>3. envs' = envs /\ current' = current /\ loop' = loop /\ phase' = phase
  BY <1>2 DEF dictVars, poolVars
<1>4. CASE CreateTouch(t)
  <2>1. pc' = [pc EXCEPT ![t] = "acquire"] /\ call' = call /\ pc[t] = "touch" /\ Stage(t)
    BY <1>4 DEF CreateTouch, Goto, QuietInv
  <2>2. Stage(t)'
    BY <1>1, <1>3, <2>1 DEF Stage
  <2>3. \A u \in Threads : u # t => pc'[u] = pc[u] /\ call'[u] = call[u]
    BY <1>1, <2>1
  <2> QED  BY <1>2, <1>3, <2>2, <2>3, QuietPlain
<1>5. CASE ControlLookup(t)
  <2>1. PICK l \in {"remote", "unlock"} :
          /\ pc' = [pc EXCEPT ![t] = l] /\ call' = call /\ pc[t] = "lookup"
          /\ l = "remote" => call[t].h \in envs[call[t].s][current[call[t].s]]
    BY <1>5 DEF ControlLookup, Goto
  <2>2. call[t].s \in Sessions
    BY <2>1, Held
  <2>3. Stage(t)'
    BY <1>1, <1>3, <2>1, <2>2 DEF Stage, QuietInv
  <2>4. \A u \in Threads : u # t => pc'[u] = pc[u] /\ call'[u] = call[u]
    BY <1>1, <2>1
  <2> QED  BY <1>2, <1>3, <2>3, <2>4, QuietPlain
<1>6. CASE GetLock(t) \/ TakeLock(t) \/ ControlDone(t) \/ CloseGetDict(t) \/ Unlock(t)
           \/ DropLock(t)
  <2>1. PICK l \in {"lock", "getdict", "lookup", "unlock", "pop", "droplock", "idle"} :
          pc' = [pc EXCEPT ![t] = l]
    BY <1>6 DEF GetLock, TakeLock, ControlDone, CloseGetDict, Unlock, DropLock, Goto, Return
  <2>2. Stage(t)'
    BY <1>1, <2>1 DEF Stage
  <2>3. \A u \in Threads : u # t => call'[u] = call[u]
    BY <1>1, <1>6 DEF GetLock, TakeLock, ControlDone, CloseGetDict, Unlock, DropLock, Return
  <2>4. \A u \in Threads : u # t => pc'[u] = pc[u] /\ call'[u] = call[u]
    BY <1>1, <2>1, <2>3
  <2> QED  BY <1>2, <1>3, <2>2, <2>4, QuietPlain
<1> QED
  BY <1>4, <1>5, <1>6

\* An environment that is being made is in no dictionary.
LEMMA MadeOutside ==
    ASSUME IInv, NEW t \in Threads, pc[t] \in Making, NEW s \in Sessions
    PROVE  call[t].h \notin envs[s][0]
<1>1. pc[t] # "idle"
  BY DEF Making
<1>2. Thr(t) /\ Kept(call[t].h) /\ 0 \in 0..MaxSweeps
  BY <1>1, Held, SessionsAssumption
<1> QED
  BY <1>2, SessionsAssumption DEF Thr, Kept

LEMMA QuietCreates ==
    ASSUME IInv, IInv', QuietInv, NEW t \in Threads,
           (CreateAcquire(t) /\ ~P!SpawnFails) \/ CreatePost(t)
    PROVE  QuietInv' /\ [P!Next]_poolVars
<1>0. PICK h : h = call[t].h
  OBVIOUS
<1>1. /\ pc[t] \in {"acquire", "post"} /\ UNCHANGED <<dictVars, call, loop>>
      /\ P!Acquire(h) \/ P!CreateOk(h) \/ P!CreateError(h)
  BY <1>0 DEF CreateAcquire, CreatePost
<1>2. /\ pc \in [Threads -> Labels] /\ phase \in [Handles -> P!Phases]
      /\ h \in Handles
  BY <1>0, <1>1, ThrTyped, DictTyped, Held DEF IInv
<1>3. PICK l \in {"post", "setdefault", "createfailed"} :
        /\ pc' = [pc EXCEPT ![t] = l]
        /\ phase' = [phase EXCEPT ![h] = CASE l = "post" -> "creating"
                                           [] l = "setdefault" -> "open"
                                           [] l = "createfailed" -> "failing"]
  BY <1>0 DEF CreateAcquire, CreatePost, Goto, P!Acquire, P!CreateOk, P!CreateError
<1>4. /\ envs' = envs /\ current' = current /\ loop' = loop /\ call' = call /\ pc'[t] = l
      /\ \A u \in Threads : u # t => pc'[u] = pc[u] /\ call'[u] = call[u]
  BY <1>1, <1>2, <1>3 DEF dictVars
<1>5. /\ phase'[h] = CASE l = "post" -> "creating" [] l = "setdefault" -> "open"
                       [] l = "createfailed" -> "failing"
      /\ \A g \in Handles : g # h => phase'[g] = phase[g]
  BY <1>2, <1>3
<1>6. Stage(t)'
  BY <1>0, <1>3, <1>4, <1>5 DEF Stage
<1>7. pc[t] \in Making /\ \A s \in Sessions : h \notin envs[s][0]
  BY <1>0, <1>1, MadeOutside DEF Making
<1>8. phase'[h] = "open" => pc'[t] \in Opening
  BY <1>3, <1>4, <1>5 DEF Opening
<1>9. P!Next
  BY <1>1, <1>2 DEF P!Next
<1> QED
  BY <1>0, <1>4, <1>5, <1>6, <1>7, <1>8, <1>9, QuietThread

\* The release that follows a failed create or a close is the pool's.
LEMMA QuietRelease ==
    ASSUME NEW h \in Handles, phase[h] \in {"failing", "closing"}, SendRelease(h)
    PROVE  P!Release(h) /\ phase' = [phase EXCEPT ![h] = "released"]
  BY DEF SendRelease, P!Release

LEMMA QuietCreateEnds ==
    ASSUME IInv, IInv', QuietInv, NEW t \in Threads,
           CreateFailed(t) \/ CreateGetDict(t) \/ CreateInsert(t)
    PROVE  QuietInv' /\ [P!Next]_poolVars
<1>0. PICK h, s, n : h = call[t].h /\ s = call[t].s /\ n = call[t].dict
  OBVIOUS
<1>1. /\ pc[t] \in Making /\ pc[t] # "idle" /\ loop' = loop /\ current' = current
      /\ pc[t] \in {"createfailed", "setdefault", "insert"}
  BY DEF CreateFailed, CreateGetDict, CreateInsert, Making, dictVars
<1>2. /\ pc \in [Threads -> Labels] /\ call \in [Threads -> Calls]
      /\ phase \in [Handles -> P!Phases] /\ 0 \in 0..MaxSweeps
      /\ envs \in [Sessions -> [0..MaxSweeps -> SUBSET Handles]]
  BY ThrTyped, DictTyped DEF IInv
<1>3. /\ h \in Handles /\ s \in Sessions /\ n \in 0..MaxSweeps /\ Thr(t) /\ Stage(t)
      /\ \A r \in Sessions : h \notin envs[r][0]
  BY <1>0, <1>1, Held, MadeOutside DEF QuietInv
<1>4. /\ pc' = [pc EXCEPT ![t] = IF pc[t] = "setdefault" THEN "insert" ELSE "idle"]
      /\ \A u \in Threads : u # t => call'[u] = call[u]
  BY <1>2 DEF CreateFailed, CreateGetDict, CreateInsert, Goto, Return
<1>5. /\ pc'[t] = IF pc[t] = "setdefault" THEN "insert" ELSE "idle"
      /\ \A u \in Threads : u # t => pc'[u] = pc[u] /\ call'[u] = call[u]
  BY <1>2, <1>4
<1>6. CASE CreateFailed(t)
  <2>1. pc[t] = "createfailed" /\ SendRelease(h) /\ envs' = envs
    BY <1>0, <1>6 DEF CreateFailed, dictVars
  <2>2. phase[h] = "failing"
    BY <1>0, <1>3, <2>1 DEF Stage
  <2>3. P!Release(h) /\ phase' = [phase EXCEPT ![h] = "released"]
    BY <1>3, <2>1, <2>2, QuietRelease
  <2>4. phase'[h] = "released" /\ \A g \in Handles : g # h => phase'[g] = phase[g]
    BY <1>2, <1>3, <2>3
  <2>5. Stage(t)'
    BY <1>5, <2>1 DEF Stage
  <2>6. QuietInv'
    BY <1>0, <1>1, <1>3, <1>5, <2>1, <2>4, <2>5, QuietThread
  <2>7. P!Next
    BY <1>3, <2>3 DEF P!Next
  <2> QED  BY <2>6, <2>7
<1>7. CASE CreateGetDict(t)
  <2>1. /\ pc[t] = "setdefault" /\ envs' = envs /\ UNCHANGED poolVars
        /\ call' = [call EXCEPT ![t].dict = current[s]]
    BY <1>0, <1>7 DEF CreateGetDict, dictVars
  <2>2. phase[h] = "open" /\ phase' = phase
    BY <1>0, <1>3, <2>1 DEF Stage, poolVars
  <2>3. call'[t].h = h /\ pc'[t] = "insert"
    BY <1>0, <1>2, <1>5, <2>1 DEF Calls
  <2>4. Stage(t)'
    BY <2>2, <2>3 DEF Stage
  <2>5. QuietInv'
    BY <1>0, <1>1, <1>5, <2>1, <2>2, <2>3, <2>4, QuietThread DEF Opening
  <2> QED  BY <2>1, <2>5
<1>8. CASE CreateInsert(t)
  <2>1. /\ pc[t] = "insert" /\ envs' = [envs EXCEPT ![s][n] = @ \cup {h}] /\ UNCHANGED poolVars
    BY <1>0, <1>8 DEF CreateInsert
  <2>2. phase[h] = "open" /\ phase' = phase
    BY <1>0, <1>3, <2>1 DEF Stage, poolVars
  <2>3. n = 0
    <3>1. n <= current[s] /\ current[s] = 0
      BY <1>0, <1>3, <2>1 DEF Thr, Making, QuietInv
    <3> QED  BY <1>3, <3>1, SessionsAssumption
  <2>4. /\ h \in envs'[s][0]
        /\ \A g \in Handles : g # h => \A r \in Sessions : g \in envs'[r][0] <=> g \in envs[r][0]
    BY <1>2, <1>3, <2>1, <2>3
  <2>5. Stage(t)'
    BY <1>5, <2>1 DEF Stage
  <2>6. QuietInv'
    BY <1>0, <1>1, <1>3, <1>5, <2>2, <2>4, <2>5, QuietThread
  <2> QED  BY <2>1, <2>6
<1> QED
  BY <1>6, <1>7, <1>8

LEMMA QuietClosePop ==
    ASSUME IInv, IInv', QuietInv, NEW t \in Threads, ClosePop(t)
    PROVE  QuietInv' /\ [P!Next]_poolVars
<1>0. PICK h, s, n : h = call[t].h /\ s = call[t].s /\ n = call[t].dict
  OBVIOUS
<1>1. /\ pc[t] = "pop" /\ pc[t] # "idle" /\ envs' = [envs EXCEPT ![s][n] = @ \ {h}]
      /\ pc' = [pc EXCEPT ![t] = IF h \in envs[s][n] THEN "delete" ELSE "unlock"]
      /\ UNCHANGED <<poolVars, current, call, loop>>
  BY <1>0 DEF ClosePop, Goto
<1>2. /\ pc \in [Threads -> Labels] /\ 0 \in 0..MaxSweeps
      /\ envs \in [Sessions -> [0..MaxSweeps -> SUBSET Handles]]
  <2>1. TypeOK
    BY DEF IInv
  <2>2. envs \in [Sessions -> [0..MaxSweeps -> SUBSET Handles]]
    BY <2>1 DEF TypeOK
  <2> QED  BY <2>1, <2>2, ThrTyped, SessionsAssumption
<1>3. h \in Handles /\ s \in Sessions /\ n \in 0..MaxSweeps /\ Thr(t) /\ Kept(h)
  BY <1>0, <1>1, Held
<1>4. n = 0 /\ current[s] = 0
  <2>1. n <= current[s] /\ current[s] = 0
    BY <1>0, <1>1, <1>3 DEF Thr, QuietInv
  <2> QED  BY <1>3, <2>1, SessionsAssumption
<1>5. /\ pc'[t] = IF h \in envs[s][0] THEN "delete" ELSE "unlock"
      /\ \A u \in Threads : u # t => pc'[u] = pc[u] /\ call'[u] = call[u]
      /\ phase' = phase
  BY <1>1, <1>2, <1>4 DEF poolVars
<1>6. /\ \A g \in Handles : g # h => \A r \in Sessions : g \in envs'[r][0] <=> g \in envs[r][0]
      /\ \A r \in Sessions : h \in envs'[r][0] => h \in envs[r][0]
      /\ h \notin envs[s][0] => \A r \in Sessions : h \in envs'[r][0] <=> h \in envs[r][0]
  BY <1>1, <1>2, <1>3, <1>4
<1>7. \A r \in Sessions : h \in envs[r][0] => phase[h] = "open"
  BY DEF QuietInv
<1>8. Stage(t)'
  BY <1>0, <1>1, <1>3, <1>5, <1>7 DEF Stage
<1>9. h \in envs[s][0] => Hot(t)
  BY <1>0, <1>1, <1>4 DEF Hot
<1>10. pc'[t] \in Opening \/ h \notin envs[s][0]
  BY <1>5 DEF Opening
<1>11. QuietInv'
  <2>1. pc[t] \notin Opening /\ call' = call
    BY <1>1 DEF Opening
  <2>2. CASE h \in envs[s][0]
    BY <1>0, <1>1, <1>5, <1>6, <1>7, <1>8, <1>9, <1>10, <2>1, <2>2, QuietThread, SMTT(40)
  <2>3. CASE h \notin envs[s][0]
    BY <1>0, <1>1, <1>5, <1>6, <1>8, <2>1, <2>3, QuietThread, SMTT(40)
  <2> QED  BY <2>2, <2>3
<1> QED
  BY <1>1, <1>11

LEMMA QuietCloseSends ==
    ASSUME IInv, IInv', QuietInv, NEW t \in Threads, CloseDelete(t) \/ CloseRelease(t)
    PROVE  QuietInv' /\ [P!Next]_poolVars
<1>0. PICK h : h = call[t].h
  OBVIOUS
<1>1. /\ pc[t] \in {"delete", "release"} /\ pc[t] # "idle" /\ UNCHANGED <<dictVars, call, loop>>
      /\ pc' = [pc EXCEPT ![t] = IF pc[t] = "delete" THEN "release" ELSE "unlock"]
      /\ pc[t] = "delete" => SendDelete(h)
      /\ pc[t] = "release" => SendRelease(h)
  BY <1>0 DEF CloseDelete, CloseRelease, Goto
<1>2. pc \in [Threads -> Labels] /\ phase \in [Handles -> P!Phases] /\ 0 \in 0..MaxSweeps
  BY ThrTyped, DictTyped DEF IInv
<1>3. h \in Handles /\ Thr(t) /\ Kept(h) /\ Stage(t)
  BY <1>0, <1>1, Held DEF QuietInv
<1>4. phase[h] = IF pc[t] = "delete" THEN "open" ELSE "closing"
  BY <1>0, <1>1, <1>3 DEF Stage
<1>5. /\ P!Delete(h) \/ P!Release(h)
      /\ phase' = [phase EXCEPT ![h] = IF pc[t] = "delete" THEN "closing" ELSE "released"]
  <2>1. CASE pc[t] = "delete"
    BY <1>1, <1>4, <2>1 DEF SendDelete, P!Delete
  <2>2. CASE pc[t] = "release"
    BY <1>1, <1>3, <1>4, <2>2, QuietRelease
  <2> QED  BY <1>1, <2>1, <2>2
<1>6. /\ phase'[h] = IF pc[t] = "delete" THEN "closing" ELSE "released"
      /\ \A g \in Handles : g # h => phase'[g] = phase[g]
  BY <1>2, <1>3, <1>5
<1>7. /\ pc'[t] = IF pc[t] = "delete" THEN "release" ELSE "unlock"
      /\ \A u \in Threads : u # t => pc'[u] = pc[u] /\ call'[u] = call[u]
      /\ call' = call /\ envs' = envs /\ current' = current /\ loop' = loop
  BY <1>1, <1>2 DEF dictVars
<1>8. Stage(t)'
  BY <1>0, <1>1, <1>6, <1>7 DEF Stage
<1>9. \A s \in Sessions : h \notin envs[s][0]
  <2>1. Cold(h, {t})
    BY <1>0, <1>1, <1>3 DEF IInv, After, Thr
  <2>2. ASSUME NEW s \in Sessions, h \in envs[s][0] PROVE FALSE
    <3>1. home[h] = s /\ current[s] = 0
      BY <1>2, <1>3, <2>2 DEF Kept, QuietInv
    <3> QED  BY <2>1, <2>2, <3>1 DEF Cold
  <2> QED  BY <2>2
<1>10. Hot(t) /\ call[t].h = h
  BY <1>0, <1>1 DEF Hot
<1>11. QuietInv'
  BY <1>6, <1>7, <1>8, <1>9, <1>10, QuietThread
<1>12. P!Next
  BY <1>3, <1>5 DEF P!Next
<1> QED
  BY <1>11, <1>12

\* A create that gets no worker leaves as it came.
LEMMA QuietTurnedDown ==
    ASSUME IInv, IInv', QuietInv, NEW t \in Threads, CreateAcquire(t), P!SpawnFails
    PROVE  QuietInv' /\ [P!Next]_poolVars
<1>1. /\ pc[t] = "acquire" /\ Return(t) /\ phase' = phase
      /\ loop' = loop /\ current' = current /\ envs' = envs
  <2>1. call[t].h \in Handles
    BY Held DEF CreateAcquire
  <2>2. phase' = phase
    BY DEF P!SpawnFails
  <2>3. ~P!Acquire(call[t].h)
    BY <2>1, <2>2, DictTyped DEF P!Acquire, IInv
  <2> QED  BY <2>2, <2>3 DEF CreateAcquire, dictVars
<1>2. /\ pc'[t] = "idle"
      /\ \A u \in Threads : u # t => pc'[u] = pc[u] /\ call'[u] = call[u]
  BY <1>1, Returning DEF IInv
<1>3. Stage(t)' /\ pc[t] \notin Opening
  BY <1>1, <1>2 DEF Stage, Opening
<1>4. P!Next
  BY DEF P!Next
<1> QED
  BY <1>1, <1>2, <1>3, <1>4, QuietThread

\* The pool's own steps move no environment.
LEMMA QuietPool ==
    ASSUME IInv, QuietInv, PoolChanges
    PROVE  QuietInv' /\ [P!Next]_poolVars
<1>1. phase' = phase /\ UNCHANGED <<dictVars, threadVars, loop>>
  BY LoopTyped, PoolChangesTyped DEF PoolChanges
<1>2. P!Next
  BY DEF PoolChanges, P!Next
<1> QED
  BY <1>1, <1>2 DEF QuietInv, Stage, OpenIsReachable, dictVars, threadVars

\* The event loop's other work, and waiting.
LEMMA QuietLoop ==
    ASSUME QuietInv, UNCHANGED <<poolVars, dictVars, threadVars, loop>>
    PROVE  QuietInv' /\ [P!Next]_poolVars
  BY DEF QuietInv, Stage, OpenIsReachable, poolVars, dictVars, threadVars

\* No step but the sweeper's can disturb the places.
LEMMA QuietStep ==
    ASSUME IInv, QuietInv, Served
    PROVE  IInv' /\ QuietInv' /\ [P!Next]_poolVars
<1>1. IInv'
  <2>1. [Next]_vars
    BY DEF Served, Next
  <2> QED  BY <2>1, NextIInv
<1>2. CASE \E t \in Threads : Thread(t)
  <2>1. PICK t \in Threads : Thread(t)
    BY <1>2
  <2>2. CASE CreateAcquire(t) \/ CreatePost(t)
    <3>1. CASE CreateAcquire(t) /\ P!SpawnFails
      BY <1>1, <3>1, QuietTurnedDown
    <3>2. CASE CreateAcquire(t) /\ ~P!SpawnFails
      BY <1>1, <3>2, QuietCreates
    <3>3. CASE CreatePost(t)
      BY <1>1, <3>3, QuietCreates
    <3> QED  BY <2>2, <3>1, <3>2, <3>3
  <2> QED
    BY <1>1, <2>1, <2>2, QuietPasses, QuietCreateEnds, QuietClosePop, QuietCloseSends
       DEF Thread
<1>3. CASE \E t \in Threads : \E h \in Handles :
              \/ \E s \in Sessions : StartCreate(t, s, h)
              \/ \E op \in {"control", "close"} : StartControl(t, op, h)
  BY <1>1, <1>3, QuietStart
<1>4. CASE \E s \in Sessions : SseConnect(s) \/ SseDetach(s) \/ Expire(s)
  <2>1. UNCHANGED <<poolVars, dictVars, threadVars, loop>>
    BY <1>4 DEF SseConnect, SseDetach, Expire
  <2> QED  BY <1>1, <2>1, QuietLoop
<1>5. CASE UNCHANGED vars
  BY <1>1, <1>5, QuietLoop DEF vars
<1>6. CASE PoolChanges
  BY <1>1, <1>6, QuietPool
<1> QED
  BY <1>2, <1>3, <1>4, <1>5, <1>6 DEF Served

LEMMA QuietBegins ==
    ASSUME Init
    PROVE  IInv /\ QuietInv
<1>1. \A s \in Sessions : envs[s][0] = {}
  BY SessionsAssumption DEF Init
<1>2. \A h \in Handles : phase[h] = "unused"
  BY DEF Init, P!Init
<1>3. QuietInv
  BY <1>1, <1>2 DEF Init, QuietInv, Stage, OpenIsReachable
<1> QED
  BY <1>3, InitIInv

LEMMA QuietShows ==
    ASSUME IInv, QuietInv
    PROVE  ControlOnOpen /\ OpenIsReachable
<1>1. ASSUME NEW t \in Threads, pc[t] = "remote" PROVE phase[call[t].h] = "open"
  <2>1. call[t].s \in Sessions /\ call[t].h \in envs[call[t].s][0]
    BY <1>1, Held DEF QuietInv, Stage
  <2> QED  BY <2>1 DEF QuietInv
<1> QED
  BY <1>1 DEF ControlOnOpen, QuietInv

\* With no room for a sweep, the sweeper finds nothing to do.
LEMMA NothingToSweep ==
    ASSUME IInv, QuietInv, MaxSweeps = 0, [Next]_vars
    PROVE  Served
<1>1. ~Sweeper
  <2>1. ~SweepStart
    <3>1. \A s \in Sessions : ~(current[s] < MaxSweeps)
      BY DEF QuietInv
    <3> QED  BY <3>1 DEF SweepStart
  <2> QED
    BY <2>1 DEF QuietInv, Sweeper, CleanupPop, CleanupIter, CleanupNext, CleanupRaises,
                CleanupDelete, CleanupRelease, CleanupEnd
<1> QED
  BY <1>1 DEF Next, Served, Quiescent

\* A server that never sweeps: a control tool only ever talks to an open
\* environment (_serialized_env_control, the tools of server.py).
THEOREM UnsweptControlOnOpen == MaxSweeps = 0 => (Spec => []ControlOnOpen)
<1> SUFFICES ASSUME MaxSweeps = 0 PROVE Spec => []ControlOnOpen
  OBVIOUS
<1>1. Init => IInv /\ QuietInv
  BY QuietBegins
<1>2. (IInv /\ QuietInv) /\ [Next]_vars => (IInv /\ QuietInv)'
  BY NothingToSweep, QuietStep
<1>3. IInv /\ QuietInv => ControlOnOpen
  BY QuietShows
<1> QED
  BY <1>1, <1>2, <1>3, PTL DEF Spec

\* A server that never sweeps loses no environment: each one that is open on a
\* worker can be reached by its client, or a call is about to make it so or to
\* close it (create_env, close_env).
THEOREM UnsweptOpenIsReachable == MaxSweeps = 0 => (Spec => []OpenIsReachable)
<1> SUFFICES ASSUME MaxSweeps = 0 PROVE Spec => []OpenIsReachable
  OBVIOUS
<1>1. Init => IInv /\ QuietInv
  BY QuietBegins
<1>2. (IInv /\ QuietInv) /\ [Next]_vars => (IInv /\ QuietInv)'
  BY NothingToSweep, QuietStep
<1>3. IInv /\ QuietInv => OpenIsReachable
  BY QuietShows
<1> QED
  BY <1>1, <1>2, <1>3, PTL DEF Spec

\* A server that never sweeps implements the pool's specification: each of its
\* steps is one of the pool's or leaves the pool alone (create_env, close_env
\* and what they ask of acquire_worker and release_worker).
THEOREM UnsweptImplementsPool == MaxSweeps = 0 => (Spec => P!Spec)
<1> SUFFICES ASSUME MaxSweeps = 0 PROVE Spec => P!Spec
  OBVIOUS
<1>1. Init => IInv /\ QuietInv /\ P!Init
  BY QuietBegins DEF Init
<1>2. (IInv /\ QuietInv) /\ [Next]_vars => (IInv /\ QuietInv)'
  BY NothingToSweep, QuietStep
<1>3. (IInv /\ QuietInv) /\ [Next]_vars => [P!Next]_poolVars
  BY NothingToSweep, QuietStep
<1> QED
  BY <1>1, <1>2, <1>3, PTL DEF Spec, P!Spec, poolVars, P!poolVars

-----------------------------------------------------------------------------
(* The two servers that TLC checks. *)

MCvars == <<vars, server>>

MCInv == Unswept => IInv /\ QuietInv

\* Apart from the sweeper, no step depends on the bound on sweeps: the quiet
\* server's are those of the whole specification.
LEMMA QuietArrives ==
    ASSUME NEW t \in Threads, NEW h \in Handles
    PROVE  /\ \A s \in Sessions : Quiet!StartCreate(t, s, h) => StartCreate(t, s, h)
           /\ \A op : Quiet!StartControl(t, op, h) => StartControl(t, op, h)
  BY DEF Quiet!StartCreate, StartCreate, Quiet!StartControl, StartControl, Quiet!Dispatch,
         Dispatch, Quiet!Goto, Goto, Quiet!poolVars, poolVars, Quiet!dictVars,
         dictVars, Quiet!sessionVars, sessionVars, Quiet!lockVars, lockVars,
         Quiet!threadVars, threadVars

LEMMA QuietMakes ==
    ASSUME NEW t \in Threads
    PROVE  /\ Quiet!CreateTouch(t) => CreateTouch(t)
           /\ Quiet!CreateAcquire(t) => CreateAcquire(t)
           /\ Quiet!CreatePost(t) => CreatePost(t)
           /\ Quiet!CreateFailed(t) => CreateFailed(t)
           /\ Quiet!CreateGetDict(t) => CreateGetDict(t)
           /\ Quiet!CreateInsert(t) => CreateInsert(t)
<1>1. Quiet!CreateTouch(t) => CreateTouch(t)
  BY DEF Quiet!CreateTouch, CreateTouch, Quiet!Touch, Touch, Quiet!Goto, Goto, Quiet!poolVars, poolVars, Quiet!dictVars,
         dictVars, Quiet!sessionVars, sessionVars, Quiet!lockVars, lockVars,
         Quiet!threadVars, threadVars
<1>2. Quiet!CreateAcquire(t) => CreateAcquire(t)
  <2>1. Quiet!P!Live = P!Live
    BY DEF Quiet!P!Live, P!Live
  <2>2. Quiet!P!WantsWorker <=> P!WantsWorker
    BY DEF Quiet!P!WantsWorker, P!WantsWorker, Quiet!P!Live, P!Live,
           Quiet!P!Cardinality, P!Cardinality
  <2>3. Quiet!P!LeastLoaded = P!LeastLoaded
    BY DEF Quiet!P!LeastLoaded, P!LeastLoaded, Quiet!P!Live, P!Live
  <2>4. Quiet!P!FreshUrls = P!FreshUrls
    BY <2>1 DEF Quiet!P!FreshUrls, P!FreshUrls
  <2>5. \A w, n : Quiet!P!Spawn(w, n) <=> P!Spawn(w, n)
    BY <2>1 DEF Quiet!P!Spawn, P!Spawn, Quiet!P!Owners, P!Owners, Quiet!P!Holding, P!Holding
  <2>6. \A h : Quiet!P!Acquire(h) => P!Acquire(h)
    BY <2>1, <2>2, <2>3, <2>4, <2>5, Zenon DEF Quiet!P!Acquire, P!Acquire
  <2>7. Quiet!P!SpawnFails => P!SpawnFails
    BY <2>1, <2>2 DEF Quiet!P!SpawnFails, P!SpawnFails
  <2> QED
    BY <2>6, <2>7 DEF Quiet!CreateAcquire, CreateAcquire, Quiet!Goto, Goto, Quiet!Return, Return,
                Quiet!dictVars, dictVars, Quiet!sessionVars, sessionVars, Quiet!lockVars, lockVars
<1>3. Quiet!CreatePost(t) => CreatePost(t)
  BY DEF Quiet!CreatePost, CreatePost, Quiet!P!CreateOk, P!CreateOk, Quiet!P!CreateError,
         P!CreateError, Quiet!Goto, Goto, Quiet!poolVars, poolVars, Quiet!dictVars,
         dictVars, Quiet!sessionVars, sessionVars, Quiet!lockVars, lockVars,
         Quiet!threadVars, threadVars
<1>4. Quiet!CreateFailed(t) => CreateFailed(t)
  BY DEF Quiet!CreateFailed, CreateFailed, Quiet!SendRelease, SendRelease, Quiet!P!DropRef,
         P!DropRef, Quiet!Return, Return, Quiet!Goto, Goto, Quiet!poolVars, poolVars, Quiet!dictVars,
         dictVars, Quiet!sessionVars, sessionVars, Quiet!lockVars, lockVars,
         Quiet!threadVars, threadVars
<1>5. /\ Quiet!CreateGetDict(t) => CreateGetDict(t)
      /\ Quiet!CreateInsert(t) => CreateInsert(t)
  BY DEF Quiet!CreateGetDict, CreateGetDict, Quiet!CreateInsert, CreateInsert,
         Quiet!Return, Return, Quiet!Goto, Goto, Quiet!poolVars, poolVars, Quiet!dictVars,
         dictVars, Quiet!sessionVars, sessionVars, Quiet!lockVars, lockVars,
         Quiet!threadVars, threadVars
<1> QED
  BY <1>1, <1>2, <1>3, <1>4, <1>5

LEMMA QuietControls ==
    ASSUME NEW t \in Threads
    PROVE  /\ Quiet!GetLock(t) => GetLock(t)
           /\ Quiet!TakeLock(t) => TakeLock(t)
           /\ Quiet!ControlLookup(t) => ControlLookup(t)
           /\ Quiet!ControlDone(t) => ControlDone(t)
           /\ Quiet!Unlock(t) => Unlock(t)
           /\ Quiet!DropLock(t) => DropLock(t)
<1>1. /\ Quiet!GetLock(t) => GetLock(t)
      /\ Quiet!TakeLock(t) => TakeLock(t)
  BY DEF Quiet!GetLock, GetLock, Quiet!TakeLock, TakeLock, Quiet!Touch, Touch,
         Quiet!Goto, Goto, Quiet!poolVars, poolVars, Quiet!dictVars,
         dictVars, Quiet!sessionVars, sessionVars, Quiet!lockVars, lockVars,
         Quiet!threadVars, threadVars
<1>2. /\ Quiet!ControlLookup(t) => ControlLookup(t)
      /\ Quiet!ControlDone(t) => ControlDone(t)
  BY DEF Quiet!ControlLookup, ControlLookup, Quiet!ControlDone, ControlDone,
         Quiet!Goto, Goto, Quiet!poolVars, poolVars, Quiet!dictVars,
         dictVars, Quiet!sessionVars, sessionVars, Quiet!lockVars, lockVars,
         Quiet!threadVars, threadVars
<1>3. /\ Quiet!Unlock(t) => Unlock(t)
      /\ Quiet!DropLock(t) => DropLock(t)
  BY DEF Quiet!Unlock, Unlock, Quiet!DropLock, DropLock, Quiet!Return, Return,
         Quiet!Goto, Goto, Quiet!poolVars, poolVars, Quiet!dictVars,
         dictVars, Quiet!sessionVars, sessionVars, Quiet!lockVars, lockVars,
         Quiet!threadVars, threadVars
<1> QED
  BY <1>1, <1>2, <1>3

LEMMA QuietCloses ==
    ASSUME NEW t \in Threads
    PROVE  /\ Quiet!CloseGetDict(t) => CloseGetDict(t)
           /\ Quiet!ClosePop(t) => ClosePop(t)
           /\ Quiet!CloseDelete(t) => CloseDelete(t)
           /\ Quiet!CloseRelease(t) => CloseRelease(t)
<1>1. /\ Quiet!CloseGetDict(t) => CloseGetDict(t)
      /\ Quiet!ClosePop(t) => ClosePop(t)
  BY DEF Quiet!CloseGetDict, CloseGetDict, Quiet!ClosePop, ClosePop, Quiet!Goto, Goto, Quiet!poolVars, poolVars, Quiet!dictVars,
         dictVars, Quiet!sessionVars, sessionVars, Quiet!lockVars, lockVars,
         Quiet!threadVars, threadVars
<1>2. Quiet!CloseDelete(t) => CloseDelete(t)
  BY DEF Quiet!CloseDelete, CloseDelete, Quiet!SendDelete, SendDelete, Quiet!P!Delete,
         P!Delete, Quiet!Goto, Goto, Quiet!poolVars, poolVars, Quiet!dictVars,
         dictVars, Quiet!sessionVars, sessionVars, Quiet!lockVars, lockVars,
         Quiet!threadVars, threadVars
<1>3. Quiet!CloseRelease(t) => CloseRelease(t)
  BY DEF Quiet!CloseRelease, CloseRelease, Quiet!SendRelease, SendRelease,
         Quiet!P!DropRef, P!DropRef, Quiet!Goto, Goto, Quiet!poolVars, poolVars, Quiet!dictVars,
         dictVars, Quiet!sessionVars, sessionVars, Quiet!lockVars, lockVars,
         Quiet!threadVars, threadVars
<1> QED
  BY <1>1, <1>2, <1>3

LEMMA QuietPoolChanges ==
    ASSUME Quiet!PoolChanges
    PROVE  PoolChanges
<1>1. Quiet!P!Live = P!Live
  BY DEF Quiet!P!Live, P!Live
<1>2. Quiet!P!SpawnFails => P!SpawnFails
  BY <1>1 DEF Quiet!P!SpawnFails, P!SpawnFails, Quiet!P!WantsWorker, P!WantsWorker,
              Quiet!P!Cardinality, P!Cardinality
<1>3. Quiet!P!EnsureWorker => P!EnsureWorker
  BY <1>1 DEF Quiet!P!EnsureWorker, P!EnsureWorker, Quiet!P!FreshUrls, P!FreshUrls,
              Quiet!P!Spawn, P!Spawn, Quiet!P!Owners, P!Owners, Quiet!P!Holding, P!Holding
<1>4. \A u : Quiet!P!Crash(u) => P!Crash(u)
  BY DEF Quiet!P!Crash, P!Crash
<1> QED
  BY <1>2, <1>3, <1>4 DEF Quiet!PoolChanges, PoolChanges, Quiet!dictVars, dictVars,
     Quiet!sessionVars, sessionVars, Quiet!lockVars, lockVars, Quiet!threadVars, threadVars

LEMMA QuietServes ==
    ASSUME IInv, QuietInv, Quiet!Next
    PROVE  Served
<1>1. ~Quiet!Sweeper
  <2>1. ~Quiet!SweepStart
    <3>1. \A s \in Sessions : ~(current[s] < 0)
      BY DEF QuietInv
    <3> QED  BY <3>1 DEF Quiet!SweepStart
  <2> QED
    BY <2>1 DEF QuietInv, Quiet!Sweeper, Quiet!CleanupPop, Quiet!CleanupIter,
                Quiet!CleanupNext, Quiet!CleanupRaises, Quiet!CleanupDelete,
                Quiet!CleanupRelease, Quiet!CleanupEnd
<1>2. CASE Quiet!Quiescent
  BY <1>2 DEF Quiet!Quiescent, Served, Quiet!vars, vars, Quiet!poolVars, poolVars, Quiet!dictVars,
         dictVars, Quiet!sessionVars, sessionVars, Quiet!lockVars, lockVars,
         Quiet!threadVars, threadVars
<1>3. ASSUME NEW s \in Sessions, Quiet!SseConnect(s) \/ Quiet!SseDetach(s) \/ Quiet!Expire(s)
      PROVE  SseConnect(s) \/ SseDetach(s) \/ Expire(s)
  BY <1>3 DEF Quiet!SseConnect, SseConnect, Quiet!SseDetach, SseDetach, Quiet!Expire, Expire,
              Quiet!Touch, Touch, Quiet!poolVars, poolVars, Quiet!dictVars,
         dictVars, Quiet!sessionVars, sessionVars, Quiet!lockVars, lockVars,
         Quiet!threadVars, threadVars
<1>4. ASSUME NEW t \in Threads, Quiet!Thread(t) PROVE Thread(t)
  BY <1>4, QuietMakes, QuietControls, QuietCloses DEF Quiet!Thread, Thread
<1> QED
  BY <1>1, <1>2, <1>3, <1>4, QuietArrives, QuietPoolChanges DEF Quiet!Next, Served

LEMMA MCStep ==
    ASSUME MCInv, [MCNext]_MCvars
    PROVE  /\ MCInv'
           /\ Unswept => [P!Next]_poolVars
<1>1. server' = server
  BY DEF MCNext, MCvars
<1>2. CASE Unswept
  <2>1. IInv /\ QuietInv
    BY <1>2 DEF MCInv
  <2>2. Served
    <3>1. CASE UNCHANGED MCvars
      BY <3>1 DEF MCvars, Served
    <3>2. CASE MCNext
      BY <1>2, <2>1, <3>2, QuietServes DEF MCNext, Unswept
    <3> QED  BY <3>1, <3>2
  <2> QED  BY <1>1, <1>2, <2>1, <2>2, QuietStep DEF MCInv, Unswept
<1> QED
  BY <1>1, <1>2 DEF MCInv, Unswept

LEMMA MCInductive == MCSpec => []MCInv
<1>1. MCInit => MCInv
  BY QuietBegins DEF MCInit, MCInv
<1>2. MCInv /\ [MCNext]_<<vars, server>> => MCInv'
  BY MCStep DEF MCvars
<1> QED
  BY <1>1, <1>2, PTL DEF MCSpec

\* On the quiet server a control tool only ever talks to an open environment.
THEOREM QuietControlCorrect == MCSpec => []QuietControlOnOpen
<1>1. MCInv => QuietControlOnOpen
  BY QuietShows DEF MCInv, QuietControlOnOpen
<1> QED
  BY <1>1, MCInductive, PTL

\* On the quiet server no open environment is out of its client's reach.
THEOREM QuietReachCorrect == MCSpec => []QuietOpenIsReachable
<1>1. MCInv => QuietOpenIsReachable
  BY QuietShows DEF MCInv, QuietOpenIsReachable
<1> QED
  BY <1>1, MCInductive, PTL

\* On the quiet server the tools take every step on the pool that its
\* specification allows and no other, so that each slot is released once.
THEOREM QuietPoolCorrect == MCSpec => QuietUsesPoolCorrectly
<1>1. MCInv /\ [MCNext]_<<vars, server>> => [Unswept => P!Next]_poolVars
  BY MCStep DEF MCvars
<1> QED
  BY <1>1, MCInductive, PTL DEF MCSpec, QuietUsesPoolCorrectly

=============================================================================
