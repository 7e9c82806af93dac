-------------------------- MODULE BenchWorker_proofs --------------------------
(***************************************************************************)
(* Proofs about BenchWorker for any number of environments, requests and    *)
(* steps, and whether or not clients close an environment twice: a step only *)
(* reaches a simulator that is open and in an episode that goes on, and the  *)
(* terminal result that is kept is exact.                                    *)
(***************************************************************************)
EXTENDS BenchWorker, TLAPS

Labels == {"free", "register", "read", "getlock", "wait", "gl", "sim", "publish", "end",
           "pick", "pop", "closing", "resume", "unlock"}

Reqs == [op : AllOps \cup {"none"}, h : Handles \cup {None}, pc : Labels,
         lock : Locks \cup {None}, left : 0..MaxSteps, todo : SUBSET Handles,
         term : BOOLEAN]

\* Where a request of each kind can be.
Places(op) ==
    CASE op = "none"       -> {"free"}
      [] op = "create"     -> {"gl", "sim", "register"}
      [] op = "step"       -> {"getlock", "wait", "gl", "sim", "publish", "end"}
      [] op = "reset"      -> {"getlock", "wait", "gl", "sim", "publish", "end"}
      [] op = "observe"    -> {"read", "getlock", "wait", "gl", "sim", "end"}
      [] op = "render_all" -> {"pick", "read", "getlock", "wait", "gl", "sim", "end"}
      [] op = "close"      -> {"getlock", "wait", "pop", "closing", "resume", "unlock"}

\* The observation lock has been taken.
Inside(r) ==
    /\ req[r].op # "create"
    /\ req[r].pc \in {"gl", "sim", "publish", "end", "pop", "closing", "resume", "unlock"}

\* The request keeps the event loop busy.
OnLoop(r) ==
    \/ req[r].op = "render_all"
    \/ req[r].op = "close" /\ req[r].pc \in {"getlock", "wait", "pop", "unlock"}

\* What a request knows of its own place.
Shape(r) ==
    /\ req[r].pc \in Places(req[r].op)
    /\ OnLoop(r) => loop = r
    /\ req[r].pc \notin {"free", "pick"} => req[r].h \in Handles
    /\ req[r].pc = "wait" \/ Inside(r) => req[r].lock \in Locks
    /\ Inside(r) => holder[req[r].lock] = r

\* An environment that has not been registered yet.
Unborn(h) ==
    episode[h] = 0 \/ \E q \in Requests : req[q].h = h /\ req[q].op = "create"

\* Nobody but its creator, and whoever keeps the loop busy with closing it,
\* knows of such an environment.
Unknown(h) ==
    /\ h \notin envs \cup lastObs \cup done \cup closed \cup finished
    /\ terminal[h] = 0
    /\ \A q \in Requests : req[q].h = h =>
          /\ req[q].op \in {"create", "close"}
          /\ req[q].op = "create" => \A p \in Requests \ {q} :
                                        ~(req[p].op = "create" /\ req[p].h = h)
          /\ req[q].op = "close" => OnLoop(q)

\* The bookkeeping of the end of an episode agrees with the simulator, unless an
\* exception kept an outcome from it.
Exact(h) ==
    h \notin unpublished => terminal[h] = IF h \in finished THEN episode[h] ELSE 0

\* While an environment is open all its requests use the lock in the table.
Open(h) ==
    /\ h \notin closed
    /\ h \in done <=> terminal[h] # 0
    /\ \A q \in Requests :
          req[q].h = h => /\ req[q].pc = "wait" \/ Inside(q) => req[q].lock = lockOf[h]
                          /\ req[q].pc \notin {"closing", "resume", "unlock"}
    /\ (\A q \in Requests : req[q].h = h => req[q].pc # "publish") => Exact(h)

\* What a step or a reset knows of the simulator it holds the lock of.
Acting(r) ==
    LET h == req[r].h IN
    /\ req[r].op = "create" => (req[r].pc = "register" <=> episode[h] # 0)
    /\ req[r].op = "step" /\ req[r].pc \in {"gl", "sim"} =>
         /\ h \in envs \ done /\ terminal[h] = 0
         /\ h \in finished => h \in unpublished
    /\ req[r].op = "step" /\ req[r].pc = "publish" =>
         /\ h \in envs \ done /\ terminal[h] = 0
         /\ h \notin unpublished => (req[r].term <=> h \in finished)
    /\ req[r].op = "reset" /\ req[r].pc = "publish" => h \notin envs \cap finished

IInv ==
    /\ TypeOK
    /\ \A r \in Requests : Shape(r) /\ Acting(r)
    /\ \A h \in Handles : Unborn(h) => Unknown(h)
    /\ \A h \in envs : Open(h)

-----------------------------------------------------------------------------
(* Lemmas on single steps. *)

LEMMA ReqTyped ==
    ASSUME TypeOK, NEW r \in Requests
    PROVE  /\ req[r] \in Reqs /\ req \in [Requests -> Reqs]
           /\ None \notin Requests /\ None \notin Handles /\ None \notin Locks
  BY WorkerAssumption DEF TypeOK, Reqs, Labels

\* Giving one request a new state leaves the others theirs.
LEMMA Assign ==
    ASSUME TypeOK, NEW r \in Requests, NEW x \in Reqs, req' = [req EXCEPT ![r] = x]
    PROVE  /\ req'[r] = x /\ \A q \in Requests : q # r => req'[q] = req[q]
           /\ req' \in [Requests -> Reqs]
  BY ReqTyped

\* Going to a place changes nothing else of the request.
LEMMA Move ==
    ASSUME TypeOK, NEW r \in Requests, NEW l \in Labels, Goto(r, l)
    PROVE  /\ req' \in [Requests -> Reqs]
           /\ req'[r].pc = l /\ req'[r].op = req[r].op /\ req'[r].h = req[r].h
           /\ req'[r].lock = req[r].lock /\ req'[r].left = req[r].left
           /\ req'[r].todo = req[r].todo /\ req'[r].term = req[r].term
           /\ \A q \in Requests : q # r => req'[q] = req[q]
<1> DEFINE x == [req[r] EXCEPT !.pc = l]
<1>1. req[r] \in Reqs
  BY ReqTyped
<1>2. /\ x \in Reqs /\ x.pc = l /\ x.op = req[r].op /\ x.h = req[r].h
      /\ x.lock = req[r].lock /\ x.left = req[r].left /\ x.todo = req[r].todo
      /\ x.term = req[r].term
  BY <1>1 DEF Reqs
<1>3. req' = [req EXCEPT ![r] = x]
  BY DEF Goto
<1> HIDE DEF x
<1> QED
  BY <1>2, <1>3, Assign

LEMMA FreeTyped ==
    /\ Free \in Reqs /\ Free.pc = "free" /\ Free.op = "none" /\ Free.h = None
    /\ 1..MaxSteps \subseteq 0..MaxSteps
  BY WorkerAssumption DEF Free, Reqs, Labels

\* A request that is answered is forgotten.
LEMMA Gone ==
    ASSUME TypeOK, NEW r \in Requests, Answer(r)
    PROVE  /\ req' \in [Requests -> Reqs]
           /\ req'[r].pc = "free" /\ req'[r].op = "none" /\ req'[r].h = None
           /\ \A q \in Requests : q # r => req'[q] = req[q]
  BY FreeTyped, Assign DEF Answer

\* Nobody else is inside an open environment's locked region.
LEMMA Exclusive ==
    ASSUME IInv, NEW r \in Requests, NEW q \in Requests, q # r,
           req[r].h \in envs, req[q].h = req[r].h, Inside(r),
           Inside(q) \/ (req[q].pc = "wait" /\ holder[req[q].lock] = None)
    PROVE  FALSE
<1>1. Open(req[r].h) /\ Shape(r) /\ Shape(q)
  BY DEF IInv
<1>2. req[r].lock = req[q].lock
  BY <1>1 DEF Open
<1> QED
  BY <1>1, <1>2, ReqTyped DEF IInv, Shape

\* A step of one request that takes no lock, and no loop, from another one
\* leaves the others in their places.
LEMMA ShapeStays ==
    ASSUME IInv, NEW r \in Requests, \A q \in Requests : q # r => req'[q] = req[q],
           Shape(r)', loop \notin {r, None} => loop' = loop,
           \A l \in Locks : holder[l] \notin {r, None} => holder'[l] = holder[l]
    PROVE  \A q \in Requests : Shape(q)'
<1> SUFFICES ASSUME NEW q \in Requests, q # r PROVE Shape(q)'
  OBVIOUS
<1>1. req'[q] = req[q] /\ Shape(q)
  BY DEF IInv
<1>2. (Inside(q)' <=> Inside(q)) /\ (OnLoop(q)' <=> OnLoop(q))
  BY <1>1 DEF Inside, OnLoop
<1> QED
  BY <1>1, <1>2, ReqTyped DEF IInv, Shape

\* An environment is left as it is.
Same(h) ==
    /\ h \in envs' <=> h \in envs
    /\ h \in lastObs' <=> h \in lastObs
    /\ h \in done' <=> h \in done
    /\ h \in closed' <=> h \in closed
    /\ h \in finished' <=> h \in finished
    /\ h \in unpublished' <=> h \in unpublished
    /\ terminal'[h] = terminal[h] /\ episode'[h] = episode[h]

\* What others know of an environment that is left as it is.
LEMMA ActingStays ==
    ASSUME IInv, NEW q \in Requests, req'[q] = req[q], \A h \in Handles : h = req[q].h => Same(h)
    PROVE  Acting(q)'
<1>1. Acting(q) /\ Shape(q)
  BY DEF IInv
<1>2. req[q].h \in Handles \/ req[q].op \in {"none", "render_all"}
  BY <1>1, ReqTyped DEF IInv, Shape, Places, Reqs, AllOps
<1> QED
  BY <1>1, <1>2 DEF Acting, Same

\* The other variables keep their types.
Typed ==
    /\ lockOf' \in [Handles -> Locks \cup {None}]
    /\ holder' \in [Locks -> Requests \cup {None}]
    /\ gl' \in Requests \cup {None} /\ loop' \in Requests \cup {None}
    /\ count' \in 0..MaxReqs

\* A step of one request that changes no environment.
LEMMA Quiet ==
    ASSUME IInv, NEW r \in Requests, req' \in [Requests -> Reqs],
           \A q \in Requests : q # r => req'[q] = req[q],
           UNCHANGED <<obsVars, simVars>>, Typed,
           \A h \in envs : lockOf'[h] = lockOf[h] \/
              \A q \in Requests : req[q].h = h => req[q].pc # "wait" /\ ~Inside(q),
           loop \notin {r, None} => loop' = loop,
           \A l \in Locks : holder[l] \notin {r, None} => holder'[l] = holder[l],
           Shape(r)', Acting(r)', req[r].pc # "publish",
           \A h \in Handles : req'[r].h = h =>
              /\ h \in envs => /\ req'[r].pc = "wait" \/ Inside(r)' => req'[r].lock = lockOf'[h]
                               /\ req'[r].pc \notin {"closing", "resume", "unlock"}
              /\ req'[r].op = "create" =>
                   /\ Unborn(h)
                   /\ \A q \in Requests \ {r} : ~(req[q].op = "create" /\ req[q].h = h)
              /\ Unborn(h) => /\ req'[r].op \in {"create", "close"}
                              /\ req'[r].op = "close" => OnLoop(r)'
    PROVE  IInv'
<1>1. TypeOK'
  BY DEF IInv, TypeOK, Typed, Reqs, Labels, obsVars, simVars
<1>2. \A q \in Requests : Shape(q)'
  BY ShapeStays
<1>3. \A h \in Handles : Same(h)
  BY DEF Same, obsVars, simVars
<1>4. \A q \in Requests : Acting(q)'
  BY <1>3, ActingStays
<1>5. ASSUME NEW h \in Handles, Unborn(h)' PROVE Unknown(h)'
  <2>1. Unborn(h)
    BY <1>5 DEF Unborn, simVars
  <2>2. Unknown(h)
    BY <2>1 DEF IInv
  <2>3. \A q \in Requests : q # r => (OnLoop(q)' <=> OnLoop(q))
    BY DEF OnLoop
  <2>4. /\ h \notin envs' \cup lastObs' \cup done' \cup closed' \cup finished'
        /\ terminal'[h] = 0
    BY <2>2 DEF Unknown, obsVars, simVars
  <2>5. ASSUME NEW q \in Requests, req'[q].h = h
        PROVE  /\ req'[q].op \in {"create", "close"}
               /\ req'[q].op = "create" => \A p \in Requests \ {q} :
                                              ~(req'[p].op = "create" /\ req'[p].h = h)
               /\ req'[q].op = "close" => OnLoop(q)'
    <3>1. CASE q = r
      BY <2>1, <2>5, <3>1
    <3>2. CASE q # r
      BY <2>1, <2>2, <2>3, <2>5, <3>2 DEF Unknown
    <3> QED  BY <3>1, <3>2
  <2> QED  BY <2>4, <2>5 DEF Unknown
<1>6. ASSUME NEW h \in envs' PROVE Open(h)'
  <2>1. h \in envs /\ h \in Handles /\ Open(h)
    BY <1>6 DEF IInv, TypeOK, obsVars
  <2>2. \A q \in Requests : q # r => (Inside(q)' <=> Inside(q))
    BY DEF Inside
  <2>3. ASSUME NEW q \in Requests, req'[q].h = h
        PROVE  /\ req'[q].pc = "wait" \/ Inside(q)' => req'[q].lock = lockOf'[h]
               /\ req'[q].pc \notin {"closing", "resume", "unlock"}
    BY <2>1, <2>2, <2>3 DEF Open
  <2>4. ASSUME \A q \in Requests : req'[q].h = h => req'[q].pc # "publish"
        PROVE  Exact(h)'
    <3>1. Exact(h)
      BY <2>1, <2>4 DEF Open
    <3> QED  BY <3>1 DEF Exact, obsVars, simVars
  <2>5. h \notin closed' /\ (h \in done' <=> terminal'[h] # 0)
    BY <2>1 DEF Open, obsVars, simVars
  <2> QED  BY <2>3, <2>4, <2>5 DEF Open
<1> QED
  BY <1>1, <1>2, <1>4, <1>5, <1>6 DEF IInv

\* A step of one request that changes only its own environment.
LEMMA Local ==
    ASSUME IInv, NEW r \in Requests, NEW g \in Handles, req' \in [Requests -> Reqs],
           \A q \in Requests : q # r => req'[q] = req[q],
           req[r].h = g, req'[r].h \in {g, None},
           req'[r].h = g => req'[r].op = req[r].op,
           envs' \subseteq Handles, lastObs' \subseteq Handles, done' \subseteq Handles,
           closed' \subseteq Handles, finished' \subseteq Handles, unpublished' \subseteq Handles,
           terminal' \in [Handles -> Nat], episode' \in [Handles -> Nat],
           \A h \in Handles : h # g => Same(h),
           Typed, lockOf' = lockOf,
           \A q \in Requests : Shape(q)',
           Acting(r)', \A q \in Requests : q # r /\ req[q].h = g => Acting(q)',
           Unborn(g)' => Unknown(g)', g \in envs' => Open(g)'
    PROVE  IInv'
<1>1. TypeOK'
  BY DEF TypeOK, Typed, Reqs, Labels
<1>2. ASSUME NEW q \in Requests PROVE Acting(q)'
  <2>1. CASE q # r /\ req[q].h # g
    BY <2>1, ActingStays
  <2> QED  BY <2>1
<1>3. \A h \in Handles : h # g =>
        \A q \in Requests : req'[q].h = h => req'[q] = req[q]
  BY ReqTyped DEF IInv
<1>4. \A h \in Handles : h # g =>
        \A q \in Requests : req[q].h = h => req'[q] = req[q]
  BY ReqTyped DEF IInv
<1>5. \A q \in Requests : req'[q] = req[q] =>
         (OnLoop(q)' <=> OnLoop(q)) /\ (Inside(q)' <=> Inside(q))
  BY DEF OnLoop, Inside
<1>6. ASSUME NEW h \in Handles, Unborn(h)', h # g PROVE Unknown(h)'
  <2>1. Unborn(h)
    BY <1>3, <1>6 DEF Unborn, Same
  <2>2. Unknown(h) /\ Same(h)
    BY <1>6, <2>1 DEF IInv
  <2>3. /\ h \notin envs' \cup lastObs' \cup done' \cup closed' \cup finished'
        /\ terminal'[h] = 0
    BY <2>2 DEF Unknown, Same
  <2>4. ASSUME NEW q \in Requests, req'[q].h = h
        PROVE  /\ req'[q].op \in {"create", "close"}
               /\ req'[q].op = "create" => \A p \in Requests \ {q} :
                                              ~(req'[p].op = "create" /\ req'[p].h = h)
               /\ req'[q].op = "close" => OnLoop(q)'
    BY <1>3, <1>5, <1>6, <2>2, <2>4 DEF Unknown
  <2> QED  BY <2>3, <2>4 DEF Unknown
<1>7. ASSUME NEW h \in envs', h # g PROVE Open(h)'
  <2>1. h \in envs /\ h \in Handles /\ Open(h) /\ Same(h)
    BY <1>7 DEF IInv, Same
  <2>2. ASSUME NEW q \in Requests, req'[q].h = h
        PROVE  /\ req'[q].pc = "wait" \/ Inside(q)' => req'[q].lock = lockOf'[h]
               /\ req'[q].pc \notin {"closing", "resume", "unlock"}
    BY <1>3, <1>5, <1>7, <2>1, <2>2 DEF Open
  <2>3. ASSUME \A q \in Requests : req'[q].h = h => req'[q].pc # "publish"
        PROVE  Exact(h)'
    <3>1. Exact(h)
      BY <1>4, <1>7, <2>1, <2>3 DEF Open
    <3> QED  BY <2>1, <3>1 DEF Exact, Same
  <2> QED  BY <2>1, <2>2, <2>3 DEF Open, Same
<1> QED
  BY <1>1, <1>2, <1>6, <1>7 DEF IInv

-----------------------------------------------------------------------------
(* Arrivals. *)

\* A request that arrives is the only thing that is new.
LEMMA Arrival ==
    ASSUME IInv, NEW r \in Requests, NEW x \in Reqs, Arrive(r, x),
           UNCHANGED <<obsVars, lockVars, simVars>>, loop' \in {loop, r},
           x.pc \in {"gl", "getlock", "read", "pick"}, x.pc \in Places(x.op),
           x.pc = "gl" => x.op = "create",
           x.pc # "pick" => x.h \in Handles,
           x.op \in {"close", "render_all"} => loop' = r,
           x.op = "create" => episode[x.h] = 0 /\ \A q \in Requests : req[q].h # x.h,
           x.h \in Handles /\ x.op \notin {"create", "close"} => x.h \in envs
    PROVE  IInv'
<1>1. /\ req'[r] = x /\ \A q \in Requests : q # r => req'[q] = req[q]
      /\ req' \in [Requests -> Reqs]
  BY Assign DEF IInv, Arrive
<1>2. loop = None /\ req[r].pc = "free" /\ count' \in 0..MaxReqs
  BY WorkerAssumption DEF Arrive, IInv, TypeOK
<1>3. Typed
  BY <1>2 DEF Typed, IInv, TypeOK, lockVars
<1>4. ~Inside(r)' /\ (OnLoop(r)' => loop' = r)
  BY <1>1 DEF Inside, OnLoop
<1>5. Shape(r)'
  BY <1>1, <1>4 DEF Shape
<1>6. Acting(r)'
  BY <1>1, <1>4 DEF Acting, simVars
<1>7. ASSUME NEW h \in Handles, x.h = h
      PROVE  /\ x.op = "create" =>
                  /\ Unborn(h)
                  /\ \A q \in Requests \ {r} : ~(req[q].op = "create" /\ req[q].h = h)
             /\ Unborn(h) => x.op \in {"create", "close"}
             /\ x.op = "close" => OnLoop(r)'
             /\ x.pc \notin {"closing", "resume", "unlock", "wait"}
  <2>1. Unborn(h) => h \notin envs
    BY DEF IInv, Unknown
  <2>2. x.op = "close" => x.pc = "getlock"
    BY DEF Places
  <2> QED  BY <1>1, <1>7, <2>1, <2>2 DEF Unborn, OnLoop
<1> QED
  BY <1>1, <1>2, <1>3, <1>4, <1>5, <1>6, <1>7, Quiet DEF lockVars

LEMMA StepStart ==
    ASSUME IInv, NEW r \in Requests,
           \/ StartRenderAll(r)
           \/ \E h \in Handles :
                 \/ \E n \in 1..MaxSteps : StartStep(r, h, n)
                 \/ StartCreate(r, h) \/ StartReset(r, h)
                 \/ StartObserve(r, h) \/ StartClose(r, h)
    PROVE  IInv'
<1>1. CASE StartRenderAll(r)
  <2> DEFINE x == [Free EXCEPT !.op = "render_all", !.todo = envs, !.pc = "pick"]
  <2>1. x \in Reqs /\ x.op = "render_all" /\ x.pc = "pick" /\ x.h = None
    BY FreeTyped DEF Reqs, Labels, AllOps, IInv, TypeOK
  <2>2. Arrive(r, x) /\ loop' = r /\ UNCHANGED <<obsVars, lockVars, simVars>>
    BY <1>1 DEF StartRenderAll
  <2> HIDE DEF x
  <2> QED  BY <2>1, <2>2, Arrival, WorkerAssumption DEF Places
<1>2. ASSUME NEW h \in Handles, NEW n \in 1..MaxSteps, StartStep(r, h, n) PROVE IInv'
  <2> DEFINE x == [Free EXCEPT !.op = "step", !.h = h, !.left = n, !.pc = "getlock"]
  <2>1. x \in Reqs /\ x.op = "step" /\ x.pc = "getlock" /\ x.h = h
    BY FreeTyped DEF Reqs, Labels, AllOps
  <2>2. /\ Arrive(r, x) /\ loop' = loop /\ UNCHANGED <<obsVars, lockVars, simVars>>
        /\ h \in envs
    BY <1>2 DEF StartStep
  <2> HIDE DEF x
  <2> QED  BY <2>1, <2>2, Arrival DEF Places
<1>3. ASSUME NEW h \in Handles, StartCreate(r, h) PROVE IInv'
  <2> DEFINE x == [Free EXCEPT !.op = "create", !.h = h, !.pc = "gl"]
  <2>1. x \in Reqs /\ x.op = "create" /\ x.pc = "gl" /\ x.h = h
    BY FreeTyped DEF Reqs, Labels, AllOps
  <2>2. /\ Arrive(r, x) /\ loop' = loop /\ UNCHANGED <<obsVars, lockVars, simVars>>
        /\ episode[h] = 0 /\ \A q \in Requests : req[q].h # h
    BY <1>3 DEF StartCreate
  <2> HIDE DEF x
  <2> QED  BY <2>1, <2>2, Arrival DEF Places
<1>4. ASSUME NEW h \in Handles, StartReset(r, h) PROVE IInv'
  <2> DEFINE x == [Free EXCEPT !.op = "reset", !.h = h, !.pc = "getlock"]
  <2>1. x \in Reqs /\ x.op = "reset" /\ x.pc = "getlock" /\ x.h = h
    BY FreeTyped DEF Reqs, Labels, AllOps
  <2>2. /\ Arrive(r, x) /\ loop' = loop /\ UNCHANGED <<obsVars, lockVars, simVars>>
        /\ h \in envs
    BY <1>4 DEF StartReset
  <2> HIDE DEF x
  <2> QED  BY <2>1, <2>2, Arrival DEF Places
<1>5. ASSUME NEW h \in Handles, StartObserve(r, h) PROVE IInv'
  <2> DEFINE x == [Free EXCEPT !.op = "observe", !.h = h, !.pc = "read"]
  <2>1. x \in Reqs /\ x.op = "observe" /\ x.pc = "read" /\ x.h = h
    BY FreeTyped DEF Reqs, Labels, AllOps
  <2>2. /\ Arrive(r, x) /\ loop' = loop /\ UNCHANGED <<obsVars, lockVars, simVars>>
        /\ h \in envs
    BY <1>5 DEF StartObserve
  <2> HIDE DEF x
  <2> QED  BY <2>1, <2>2, Arrival DEF Places
<1>6. ASSUME NEW h \in Handles, StartClose(r, h) PROVE IInv'
  <2> DEFINE x == [Free EXCEPT !.op = "close", !.h = h, !.pc = "getlock"]
  <2>1. x \in Reqs /\ x.op = "close" /\ x.pc = "getlock" /\ x.h = h
    BY FreeTyped DEF Reqs, Labels, AllOps
  <2>2. Arrive(r, x) /\ loop' = r /\ UNCHANGED <<obsVars, lockVars, simVars>>
    BY <1>6 DEF StartClose
  <2> HIDE DEF x
  <2> QED  BY <2>1, <2>2, Arrival DEF Places
<1> QED
  BY <1>1, <1>2, <1>3, <1>4, <1>5, <1>6

-----------------------------------------------------------------------------
(* Steps that change no environment. *)

\* A request that goes on with its environment is still its creator, or its
\* closer, if it was.
LEMMA GoesOn ==
    ASSUME IInv, NEW r \in Requests, NEW h \in Handles, req[r].h = h,
           req'[r].op = req[r].op, OnLoop(r) => OnLoop(r)'
    PROVE  /\ req'[r].op = "create" =>
                /\ Unborn(h)
                /\ \A q \in Requests \ {r} : ~(req[q].op = "create" /\ req[q].h = h)
           /\ Unborn(h) => /\ req'[r].op \in {"create", "close"}
                           /\ req'[r].op = "close" => OnLoop(r)'
<1>1. req[r].op = "create" => Unborn(h)
  BY DEF Unborn
<1>2. Unborn(h) => Unknown(h)
  BY DEF IInv
<1> QED
  BY <1>1, <1>2 DEF Unknown

\* A request without an environment: it was answered, or renders them all.
LEMMA Parts ==
    ASSUME IInv, NEW r \in Requests, req' \in [Requests -> Reqs],
           \A q \in Requests : q # r => req'[q] = req[q], req'[r].h = None,
           \/ req'[r].op = "none" /\ req'[r].pc = "free"
           \/ req'[r].op = "render_all" /\ req'[r].pc = "pick" /\ loop' = r,
           UNCHANGED <<obsVars, simVars, count>>,
           \/ lockOf' = lockOf
           \/ req[r].h \notin envs /\ lockOf' = [lockOf EXCEPT ![req[r].h] = None],
           \/ holder' = holder
           \/ Inside(r) /\ holder' = [holder EXCEPT ![req[r].lock] = None],
           gl' \in {gl, None}, loop' = loop \/ (OnLoop(r) /\ loop' = None),
           req[r].pc # "publish"
    PROVE  IInv'
<1>1. Shape(r) /\ TypeOK
  BY DEF IInv
<1>2. Typed
  BY <1>1 DEF Typed, TypeOK
<1>3. \A l \in Locks : holder[l] \notin {r, None} => holder'[l] = holder[l]
  BY <1>1 DEF Shape, TypeOK
<1>4. loop \notin {r, None} => loop' = loop
  BY <1>1 DEF Shape
<1>5. \A h \in envs : lockOf'[h] = lockOf[h]
  BY <1>1 DEF TypeOK
<1>6. Shape(r)' /\ Acting(r)'
  BY DEF Shape, Acting, Inside, OnLoop, Places
<1>7. \A h \in Handles : req'[r].h # h
  BY <1>1, ReqTyped
<1> QED
  BY <1>2, <1>3, <1>4, <1>5, <1>6, <1>7, Quiet

LEMMA StepGetLock ==
    ASSUME IInv, NEW r \in Requests, GetLock(r)
    PROVE  IInv'
<1> DEFINE h == req[r].h
           l == IF lockOf[h] # None THEN lockOf[h] ELSE CHOOSE k \in UnusedLocks : TRUE
           x == [req[r] EXCEPT !.lock = l, !.pc = "wait"]
<1>1. TypeOK /\ Shape(r) /\ Acting(r) /\ req[r].pc = "getlock"
  BY DEF IInv, GetLock
<1>2. h \in Handles
  BY <1>1 DEF Shape
<1>3. l \in Locks
  BY <1>1, <1>2 DEF GetLock, UnusedLocks, TypeOK
<1>4. /\ lockOf' = [lockOf EXCEPT ![h] = l] /\ req' = [req EXCEPT ![r] = x]
      /\ UNCHANGED <<obsVars, holder, gl, simVars, loop, count>>
  BY <1>1 DEF GetLock, TypeOK
<1>5. lockOf[h] # None => l = lockOf[h]
  OBVIOUS
<1> HIDE DEF l
<1>6. /\ x \in Reqs /\ x.pc = "wait" /\ x.lock = l /\ x.op = req[r].op /\ x.h = h
  BY <1>1, <1>3, ReqTyped, ZenonT(40) DEF Reqs, Labels
<1> HIDE DEF x, h
<1>7. /\ req'[r] = x /\ req' \in [Requests -> Reqs]
      /\ \A q \in Requests : q # r => req'[q] = req[q]
  BY <1>1, <1>4, <1>6, Assign
<1>8. Typed /\ lockOf'[h] = l
  BY <1>1, <1>2, <1>3, <1>4 DEF Typed, TypeOK
<1>9. ASSUME NEW g \in envs
      PROVE  lockOf'[g] = lockOf[g] \/
                \A q \in Requests : req[q].h = g => req[q].pc # "wait" /\ ~Inside(q)
  <2>1. g \in Handles /\ Open(g)
    BY <1>1, <1>9 DEF IInv, TypeOK
  <2>2. g # h => lockOf'[g] = lockOf[g]
    BY <1>1, <1>2, <1>4, <2>1 DEF TypeOK
  <2>3. CASE lockOf[g] = None
    <3>1. \A q \in Requests : req[q].pc = "wait" \/ Inside(q) => req[q].lock # None
      BY <1>1, ReqTyped DEF IInv, Shape
    <3> QED  BY <2>1, <2>3, <3>1 DEF Open
  <2> QED  BY <1>5, <1>8, <2>2, <2>3
<1>10. ~Inside(r)' /\ (OnLoop(r)' <=> OnLoop(r))
  BY <1>1, <1>6, <1>7 DEF Inside, OnLoop
<1>11. "wait" \in Places(req[r].op)
  BY <1>1, ReqTyped DEF Shape, Places, Reqs, AllOps
<1>12. Shape(r)'
  BY <1>1, <1>2, <1>3, <1>4, <1>6, <1>7, <1>10, <1>11 DEF Shape
<1>13. Acting(r)'
  BY <1>6, <1>7, <1>11 DEF Acting, Places
<1>14. \A g \in Handles : req'[r].h = g =>
         /\ g \in envs => /\ req'[r].pc = "wait" \/ Inside(r)' => req'[r].lock = lockOf'[g]
                          /\ req'[r].pc \notin {"closing", "resume", "unlock"}
         /\ req'[r].op = "create" =>
              /\ Unborn(g)
              /\ \A q \in Requests \ {r} : ~(req[q].op = "create" /\ req[q].h = g)
         /\ Unborn(g) => /\ req'[r].op \in {"create", "close"}
                         /\ req'[r].op = "close" => OnLoop(r)'
  BY <1>2, <1>6, <1>7, <1>8, <1>10, GoesOn DEF h
<1> QED
  BY <1>1, <1>4, <1>7, <1>8, <1>9, <1>12, <1>13, <1>14, Quiet

\* A request goes on inside its locked region, or enters it.
LEMMA Moves ==
    ASSUME IInv, NEW r \in Requests, NEW h \in Handles, req[r].h = h,
           req' \in [Requests -> Reqs], \A q \in Requests : q # r => req'[q] = req[q],
           req'[r].h = h, req'[r].op = req[r].op, req'[r].lock = req[r].lock,
           req[r].pc # "publish", req'[r].pc # "wait", req'[r].pc \in Places(req[r].op),
           UNCHANGED <<obsVars, simVars, lockOf, count>>,
           holder' = holder \/ (holder[req[r].lock] = None /\ req[r].lock \in Locks
                                  /\ holder' = [holder EXCEPT ![req[r].lock] = r]),
           gl' \in {gl, r, None}, loop' = loop \/ (loop = None /\ loop' = r),
           OnLoop(r)' => loop' = r, OnLoop(r) => OnLoop(r)',
           Inside(r)' => /\ req[r].lock \in Locks /\ holder'[req[r].lock] = r
                         /\ Inside(r) \/ req[r].pc = "wait",
           req'[r].pc \in {"closing", "resume", "unlock"} => h \notin envs,
           Acting(r)'
    PROVE  IInv'
<1>1. TypeOK /\ Shape(r)
  BY DEF IInv
<1>2. Typed
  BY <1>1 DEF Typed, TypeOK
<1>3. \A l \in Locks : holder[l] \notin {r, None} => holder'[l] = holder[l]
  BY <1>1 DEF TypeOK
<1>4. Shape(r)'
  BY DEF Shape
<1>5. h \in envs => /\ req'[r].pc = "wait" \/ Inside(r)' => req'[r].lock = lockOf'[h]
                    /\ req'[r].pc \notin {"closing", "resume", "unlock"}
  BY DEF IInv, Open
<1>6. \A g \in envs : lockOf'[g] = lockOf[g]
  OBVIOUS
<1>7. \A g \in Handles : req'[r].h = g =>
         /\ g \in envs => /\ req'[r].pc = "wait" \/ Inside(r)' => req'[r].lock = lockOf'[g]
                          /\ req'[r].pc \notin {"closing", "resume", "unlock"}
         /\ req'[r].op = "create" =>
              /\ Unborn(g)
              /\ \A q \in Requests \ {r} : ~(req[q].op = "create" /\ req[q].h = g)
         /\ Unborn(g) => /\ req'[r].op \in {"create", "close"}
                         /\ req'[r].op = "close" => OnLoop(r)'
  BY <1>5, GoesOn
<1> QED
  BY <1>2, <1>3, <1>4, <1>6, <1>7, Quiet

LEMMA StepTakeLock ==
    ASSUME IInv, NEW r \in Requests, TakeLock(r)
    PROVE  IInv'
<1> DEFINE h == req[r].h
           l == req[r].lock
           p == IF req[r].op = "close" THEN "pop"
                ELSE IF req[r].op = "step" /\ (h \in done \/ h \notin envs)
                THEN "end" ELSE "gl"
<1>1. TypeOK /\ Shape(r) /\ Acting(r) /\ req[r].pc = "wait"
  BY DEF IInv, TakeLock
<1>2. h \in Handles /\ l \in Locks /\ holder[l] = None
  BY <1>1 DEF Shape, TakeLock
<1>3. /\ holder' = [holder EXCEPT ![l] = r] /\ Goto(r, p)
      /\ UNCHANGED <<obsVars, lockOf, gl, simVars, loop, count>>
  BY DEF TakeLock
<1>4. p \in Labels
  BY DEF Labels
<1>5. /\ req' \in [Requests -> Reqs]
      /\ req'[r].pc = p /\ req'[r].op = req[r].op /\ req'[r].h = h /\ req'[r].lock = l
      /\ \A q \in Requests : q # r => req'[q] = req[q]
  BY <1>1, <1>3, <1>4, Move
<1>6. p \in Places(req[r].op) /\ p \in {"pop", "end", "gl"}
  BY <1>1, ReqTyped DEF Places, Shape, Reqs, AllOps
<1>7. OnLoop(r)' <=> OnLoop(r)
  BY <1>1, <1>5 DEF OnLoop
<1>8. holder'[l] = r
  BY <1>1, <1>2, <1>3 DEF TypeOK
<1>9. Acting(r)'
  <2>1. req[r].op # "create"
    BY <1>1 DEF Shape, Places
  <2>2. CASE req[r].op = "step" /\ p = "gl"
    <3>1. h \in envs /\ h \notin done /\ Open(h)
      BY <1>1, <2>2 DEF IInv
    <3>2. ASSUME NEW q \in Requests, req[q].h = h, req[q].pc = "publish" PROVE FALSE
      <4>1. Inside(q) /\ q # r
        BY <1>1, <3>2, ReqTyped DEF IInv, Shape, Inside, Places
      <4> QED  BY <1>1, <1>2, <3>1, <3>2, <4>1, Exclusive
    <3>3. terminal[h] = 0 /\ Exact(h)
      BY <3>1, <3>2 DEF Open
    <3>5. episode[h] # 0
      <4>1. h \in Handles /\ ~Unknown(h)
        BY <1>1, <3>1 DEF TypeOK, Unknown
      <4> QED  BY <4>1 DEF IInv, Unborn
    <3>4. h \in finished => h \in unpublished
      BY <3>3, <3>5 DEF Exact
    <3> QED  BY <1>3, <1>5, <2>2, <3>1, <3>3, <3>4 DEF Acting, obsVars, simVars
  <2>3. CASE ~(req[r].op = "step" /\ p = "gl")
    <3> HIDE DEF p
    <3> QED  BY <1>5, <1>6, <2>1, <2>3 DEF Acting
  <2> QED  BY <2>2, <2>3
<1> HIDE DEF p, h, l
<1>10. req[r].pc # "publish" /\ req'[r].pc # "wait"
       /\ req'[r].pc \notin {"closing", "resume", "unlock"}
  BY <1>1, <1>5, <1>6
<1> QED
  BY <1>1, <1>2, <1>3, <1>5, <1>6, <1>7, <1>8, <1>9, <1>10, Moves DEF h, l, Shape

LEMMA StepTakeGL ==
    ASSUME IInv, NEW r \in Requests, TakeGL(r)
    PROVE  IInv'
<1>1. TypeOK /\ Shape(r) /\ Acting(r) /\ req[r].pc = "gl"
  BY DEF IInv, TakeGL
<1>2. /\ req' \in [Requests -> Reqs] /\ req'[r].lock = req[r].lock
      /\ req'[r].pc = "sim" /\ req'[r].op = req[r].op /\ req'[r].h = req[r].h
      /\ \A q \in Requests : q # r => req'[q] = req[q]
  BY <1>1, Move DEF TakeGL, Labels
<1>3. req[r].h \in Handles
  BY <1>1 DEF Shape
<1>4. "sim" \in Places(req[r].op)
  BY <1>1, ReqTyped DEF Places, Shape, Reqs, AllOps
<1>5. /\ UNCHANGED <<obsVars, simVars, lockOf, holder, count, loop>> /\ gl' = r
  BY DEF TakeGL
<1>6. (OnLoop(r)' <=> OnLoop(r)) /\ (Inside(r)' <=> Inside(r))
  BY <1>1, <1>2, <1>4 DEF OnLoop, Inside, Places
<1>7. Acting(r)'
  BY <1>1, <1>2, <1>5 DEF Acting, obsVars, simVars
<1> QED
  BY <1>1, <1>2, <1>3, <1>4, <1>5, <1>6, <1>7, Moves DEF Shape

\* The simulator raises, or it has rendered.
LEMMA StepSimEnds ==
    ASSUME IInv, NEW r \in Requests, SimRaises(r) \/ SimRender(r)
    PROVE  IInv'
<1>1. TypeOK /\ Shape(r) /\ Acting(r) /\ req[r].pc = "sim"
  BY DEF IInv, SimRaises, SimRender
<1>2. /\ req' \in [Requests -> Reqs] /\ req'[r].lock = req[r].lock
      /\ req'[r].pc = "end" /\ req'[r].op = req[r].op /\ req'[r].h = req[r].h
      /\ \A q \in Requests : q # r => req'[q] = req[q]
  <2>1. CASE SimRaises(r)
    <3> DEFINE x == [req[r] EXCEPT !.pc = "end", !.left = 0]
    <3>1. /\ x \in Reqs /\ x.lock = req[r].lock /\ x.pc = "end" /\ x.op = req[r].op
          /\ x.h = req[r].h
      <4>1. req[r] \in Reqs /\ 0 \in 0..MaxSteps
        BY <1>1, ReqTyped, WorkerAssumption
      <4> QED  BY <4>1 DEF Reqs, Labels
    <3>2. req' = [req EXCEPT ![r] = x]
      BY <2>1 DEF SimRaises
    <3> HIDE DEF x
    <3> QED  BY <1>1, <3>1, <3>2, Assign
  <2>2. CASE SimRender(r)
    BY <1>1, <2>2, Move DEF SimRender, Labels
  <2> QED  BY <2>1, <2>2
<1>3. req[r].h \in Handles
  BY <1>1 DEF Shape
<1>4. "end" \in Places(req[r].op) /\ req[r].op # "create"
  BY DEF Places, SimRaises, SimRender
<1>5. /\ UNCHANGED <<obsVars, simVars, lockOf, holder, count, loop>> /\ gl' = None
  BY DEF SimRaises, SimRender
<1>6. (OnLoop(r)' <=> OnLoop(r)) /\ (Inside(r)' <=> Inside(r))
  BY <1>1, <1>2, <1>4 DEF OnLoop, Inside, Places
<1>7. Acting(r)'
  BY <1>2, <1>4 DEF Acting
<1> QED
  BY <1>1, <1>2, <1>3, <1>4, <1>5, <1>6, <1>7, Moves DEF Shape

LEMMA StepCloseResume ==
    ASSUME IInv, NEW r \in Requests, CloseResume(r)
    PROVE  IInv'
<1>1. TypeOK /\ Shape(r) /\ Acting(r) /\ req[r].pc = "resume" /\ loop = None
  BY DEF IInv, CloseResume
<1>2. /\ req' \in [Requests -> Reqs] /\ req'[r].lock = req[r].lock
      /\ req'[r].pc = "unlock" /\ req'[r].op = req[r].op /\ req'[r].h = req[r].h
      /\ \A q \in Requests : q # r => req'[q] = req[q]
  BY <1>1, Move DEF CloseResume, Labels
<1>3. req[r].h \in Handles /\ req[r].h \notin envs
  BY <1>1 DEF IInv, Shape, Open
<1>4. "unlock" \in Places(req[r].op) /\ req[r].op = "close"
  BY <1>1, ReqTyped DEF Places, Shape, Reqs, AllOps
<1>5. /\ UNCHANGED <<obsVars, simVars, lockOf, holder, count, gl>> /\ loop' = r
  BY DEF CloseResume, lockVars
<1>6. OnLoop(r)' /\ (Inside(r)' <=> Inside(r))
  BY <1>1, <1>2, <1>4 DEF OnLoop, Inside, Places
<1>7. Acting(r)'
  BY <1>2, <1>4 DEF Acting
<1> QED
  BY <1>1, <1>2, <1>3, <1>4, <1>5, <1>6, <1>7, Moves DEF Shape

LEMMA StepReadObs ==
    ASSUME IInv, NEW r \in Requests, ReadObs(r)
    PROVE  IInv'
<1>1. TypeOK /\ Shape(r) /\ Acting(r) /\ req[r].pc = "read"
  BY DEF IInv, ReadObs
<1>2. UNCHANGED <<obsVars, lockVars, simVars, loop, count>>
  BY DEF ReadObs
<1>3. req[r].h \in Handles /\ ~Inside(r) /\ req[r].op # "create"
  BY <1>1 DEF Shape, Inside, Places
<1>4. CASE req[r].h \in lastObs
  <2>1. /\ req' \in [Requests -> Reqs] /\ req'[r].lock = req[r].lock
        /\ req'[r].pc = "getlock" /\ req'[r].op = req[r].op /\ req'[r].h = req[r].h
        /\ \A q \in Requests : q # r => req'[q] = req[q]
    BY <1>1, <1>4, Move DEF ReadObs, Labels
  <2>2. "getlock" \in Places(req[r].op) /\ req[r].op # "close"
    BY <1>1, ReqTyped DEF Places, Shape, Reqs, AllOps
  <2>3. (OnLoop(r)' <=> OnLoop(r)) /\ ~Inside(r)'
    BY <2>1, <2>2 DEF OnLoop, Inside
  <2>4. Acting(r)'
    BY <1>3, <2>1 DEF Acting
  <2>5. holder' = holder /\ lockOf' = lockOf /\ gl' = gl
    BY <1>2 DEF lockVars
  <2>6. OnLoop(r)' => loop' = r
    BY <1>1, <1>2, <2>3 DEF Shape
  <2> QED
    BY <1>1, <1>2, <1>3, <2>1, <2>2, <2>3, <2>4, <2>5, <2>6, Moves
<1>5. CASE req[r].h \notin lastObs /\ req[r].op = "render_all"
  <2> DEFINE x == [req[r] EXCEPT !.pc = "pick", !.h = None]
  <2>1. x \in Reqs /\ x.pc = "pick" /\ x.h = None /\ x.op = "render_all"
    BY <1>1, <1>5, ReqTyped, ZenonT(40) DEF Reqs, Labels
  <2>2. req' = [req EXCEPT ![r] = x] /\ loop' = r
    BY <1>1, <1>2, <1>5 DEF ReadObs, Shape, OnLoop
  <2> HIDE DEF x
  <2>3. /\ req' \in [Requests -> Reqs] /\ req'[r] = x
        /\ \A q \in Requests : q # r => req'[q] = req[q]
    BY <1>1, <2>1, <2>2, Assign
  <2> QED
    BY <1>1, <1>2, <2>1, <2>2, <2>3, Parts DEF lockVars
<1>6. CASE req[r].h \notin lastObs /\ req[r].op # "render_all"
  BY <1>1, <1>2, <1>6, Gone, Parts DEF ReadObs, lockVars
<1> QED
  BY <1>4, <1>5, <1>6

LEMMA StepPickNext ==
    ASSUME IInv, NEW r \in Requests, NEW h \in Handles, PickNext(r, h)
    PROVE  IInv'
<1>1. TypeOK /\ Shape(r) /\ Acting(r) /\ req[r].pc = "pick" /\ req[r].op = "render_all"
  BY ReqTyped DEF IInv, PickNext, Shape, Places, Reqs, AllOps
<1>2. UNCHANGED <<obsVars, lockVars, simVars, loop, count>> /\ loop' = r
  BY <1>1 DEF PickNext, Shape, OnLoop
<1> DEFINE g == IF h \in envs THEN h ELSE None
           p == IF h \in envs THEN "read" ELSE "pick"
           x == [req[r] EXCEPT !.pc = p, !.h = g, !.todo = @ \ {h}]
<1>3. p \in Labels /\ g \in Handles \cup {None}
  BY DEF Labels
<1>4. req' = [req EXCEPT ![r] = x]
  BY DEF PickNext
<1>5. x \in Reqs /\ x.pc = p /\ x.h = g /\ x.op = "render_all"
  <2> HIDE DEF p, g
  <2> QED  BY <1>1, <1>3, ReqTyped DEF Reqs
<1> HIDE DEF x
<1>6. /\ req' \in [Requests -> Reqs] /\ req'[r] = x
      /\ \A q \in Requests : q # r => req'[q] = req[q]
  BY <1>1, <1>4, <1>5, Assign
<1>7. CASE h \notin envs
  BY <1>1, <1>2, <1>5, <1>6, <1>7, Parts DEF lockVars
<1>8. CASE h \in envs
  <2>1. ~Unborn(h)
    BY <1>8 DEF IInv, Unknown
  <2>2. ~Inside(r)' /\ Shape(r)' /\ Acting(r)'
    BY <1>2, <1>5, <1>6, <1>8 DEF Inside, Shape, Acting, Places
  <2>3. Typed /\ lockOf' = lockOf /\ holder' = holder
    BY <1>1, <1>2 DEF Typed, TypeOK, lockVars
  <2> QED  BY <1>1, <1>2, <1>5, <1>6, <1>8, <2>1, <2>2, <2>3, Quiet
<1> QED
  BY <1>7, <1>8

LEMMA StepRenderAllDone ==
    ASSUME IInv, NEW r \in Requests, RenderAllDone(r)
    PROVE  IInv'
<1>1. TypeOK /\ Shape(r) /\ req[r].pc = "pick" /\ req[r].op = "render_all"
  BY ReqTyped DEF IInv, RenderAllDone, Shape, Places, Reqs, AllOps
<1>2. UNCHANGED <<obsVars, lockVars, simVars, count>> /\ loop' = None /\ OnLoop(r)
  BY <1>1 DEF RenderAllDone, OnLoop
<1> QED
  BY <1>1, <1>2, Gone, Parts DEF RenderAllDone, lockVars

LEMMA StepLeave ==
    ASSUME IInv, NEW r \in Requests, Leave(r)
    PROVE  IInv'
<1> DEFINE c == req[r]
<1>1. TypeOK /\ Shape(r) /\ Acting(r) /\ c.pc = "end" /\ c \in Reqs
  BY ReqTyped DEF IInv, Leave
<1>2. /\ UNCHANGED <<obsVars, lockOf, gl, simVars, loop, count>>
      /\ holder' = [holder EXCEPT ![c.lock] = None]
  BY DEF Leave
<1>3. Inside(r) /\ c.op # "close" /\ c.op # "create" /\ c.h \in Handles
  BY <1>1 DEF Inside, Shape, Places
<1>4. CASE c.op = "render_all"
  <2> DEFINE x == [c EXCEPT !.pc = "pick", !.lock = None, !.h = None]
  <2>1. x \in Reqs /\ x.pc = "pick" /\ x.h = None /\ x.op = "render_all"
    BY <1>1, <1>4 DEF Reqs, Labels
  <2>2. req' = [req EXCEPT ![r] = x] /\ loop' = r
    BY <1>1, <1>2, <1>4 DEF Leave, Shape, OnLoop
  <2> HIDE DEF x
  <2>3. /\ req' \in [Requests -> Reqs] /\ req'[r] = x
        /\ \A q \in Requests : q # r => req'[q] = req[q]
    BY <1>1, <2>1, <2>2, Assign
  <2> QED
    BY <1>1, <1>2, <1>3, <2>1, <2>2, <2>3, Parts
<1>5. CASE c.op = "step" /\ c.left > 1 /\ ~c.term /\ c.h \notin done /\ c.h \in envs
  <2> DEFINE x == [c EXCEPT !.pc = "getlock", !.lock = None, !.left = @ - 1]
  <2>1. c.left - 1 \in 0..MaxSteps
    BY <1>1, <1>5, WorkerAssumption DEF Reqs
  <2>2. x \in Reqs /\ x.pc = "getlock" /\ x.h = c.h /\ x.op = "step"
    BY <1>1, <1>5, <2>1 DEF Reqs, Labels
  <2>3. req' = [req EXCEPT ![r] = x]
    BY <1>5 DEF Leave
  <2> HIDE DEF x
  <2>4. /\ req' \in [Requests -> Reqs] /\ req'[r] = x
        /\ \A q \in Requests : q # r => req'[q] = req[q]
    BY <1>1, <2>2, <2>3, Assign
  <2>5. ~Inside(r)' /\ ~OnLoop(r)' /\ ~OnLoop(r)
    BY <1>5, <2>2, <2>4 DEF Inside, OnLoop
  <2>6. Shape(r)' /\ Acting(r)'
    BY <1>3, <2>2, <2>4, <2>5 DEF Shape, Acting, Places
  <2>7. Typed
    BY <1>1, <1>2 DEF Typed, TypeOK
  <2>8. \A l \in Locks : holder[l] \notin {r, None} => holder'[l] = holder[l]
    BY <1>1, <1>2, <1>3 DEF Shape, TypeOK
  <2>9. ~Unborn(c.h)
    BY <1>5, <1>3 DEF IInv, Unknown
  <2> QED
    BY <1>1, <1>2, <1>3, <2>2, <2>4, <2>5, <2>6, <2>7, <2>8, <2>9, Quiet
<1>6. CASE ~(c.op = "render_all") /\
           ~(c.op = "step" /\ c.left > 1 /\ ~c.term /\ c.h \notin done /\ c.h \in envs)
  <2>1. Answer(r)
    BY <1>6 DEF Leave
  <2> QED
    BY <1>1, <1>2, <1>3, <2>1, Gone, Parts
<1> QED
  BY <1>4, <1>5, <1>6

LEMMA StepCloseEnd ==
    ASSUME IInv, NEW r \in Requests, CloseEnd(r)
    PROVE  IInv'
<1>1. TypeOK /\ Shape(r) /\ req[r].pc = "unlock" /\ req[r].op = "close"
  BY ReqTyped DEF IInv, CloseEnd, Shape, Places, Reqs, AllOps
<1>2. Inside(r) /\ OnLoop(r) /\ req[r].h \in Handles
  BY <1>1 DEF Inside, OnLoop, Shape
<1>3. req[r].h \notin envs
  BY <1>1, <1>2 DEF IInv, Open
<1> QED
  BY <1>1, <1>2, <1>3, Gone, Parts DEF CloseEnd

-----------------------------------------------------------------------------
(* Steps that change an environment. *)

LEMMA StepSimCreate ==
    ASSUME IInv, NEW r \in Requests, SimCreate(r)
    PROVE  IInv'
<1> DEFINE g == req[r].h
<1>1. TypeOK /\ Shape(r) /\ Acting(r) /\ req[r].pc = "sim" /\ req[r].op = "create"
  BY DEF IInv, SimCreate
<1>2. /\ UNCHANGED <<obsVars, lockOf, holder, closed, finished, loop, count>>
      /\ gl' = None
  BY DEF SimCreate
<1>3. g \in Handles /\ Unborn(g) /\ Unknown(g)
  BY <1>1 DEF IInv, Shape, Unborn
<1>4. CASE Answer(r) /\ UNCHANGED episode
  BY <1>1, <1>2, <1>4, Gone, Parts DEF simVars
<1>5. CASE episode' = [episode EXCEPT ![g] = 1] /\ Goto(r, "register")
  <2>1. /\ req' \in [Requests -> Reqs]
        /\ req'[r].pc = "register" /\ req'[r].op = "create" /\ req'[r].h = g
        /\ \A q \in Requests : q # r => req'[q] = req[q]
    BY <1>1, <1>5, Move DEF Labels
  <2>2. /\ episode' \in [Handles -> Nat] /\ episode'[g] = 1
        /\ \A h \in Handles : h # g => episode'[h] = episode[h]
    BY <1>1, <1>3, <1>5 DEF TypeOK
  <2>3. \A h \in Handles : h # g => Same(h)
    BY <1>2, <2>2 DEF Same, obsVars
  <2>4. Shape(r)' /\ Acting(r)'
    BY <1>3, <2>1, <2>2 DEF Shape, Acting, Places, Inside, OnLoop
  <2>5. \A q \in Requests : Shape(q)'
    BY <1>2, <2>1, <2>4, ShapeStays
  <2>6. ASSUME NEW q \in Requests, q # r, req[q].h = g PROVE Acting(q)'
    <3>1. req'[q].op = "close"
      BY <1>1, <1>3, <2>1, <2>6 DEF Unknown
    <3> QED  BY <3>1 DEF Acting
  <2>7. Unknown(g)'
    <3>1. \A q \in Requests : q # r => (OnLoop(q)' <=> OnLoop(q))
      BY <2>1 DEF OnLoop
    <3> QED  BY <1>1, <1>2, <1>3, <2>1, <3>1 DEF Unknown, obsVars
  <2>8. g \notin envs'
    BY <1>2, <1>3 DEF Unknown, obsVars
  <2>9. Typed
    BY <1>1, <1>2 DEF Typed, TypeOK
  <2> QED
    BY <1>1, <1>2, <1>3, <2>1, <2>2, <2>3, <2>4, <2>5, <2>6, <2>7, <2>8, <2>9, Local
       DEF TypeOK, obsVars
<1> QED
  BY <1>4, <1>5 DEF SimCreate

LEMMA StepRegister ==
    ASSUME IInv, NEW r \in Requests, Register(r)
    PROVE  IInv'
<1>0. PICK g : g = req[r].h
  OBVIOUS
<1>1. TypeOK /\ Shape(r) /\ Acting(r) /\ req[r].pc = "register" /\ req[r].op = "create"
  BY ReqTyped DEF IInv, Register, Shape, Places, Reqs, AllOps
<1>2. /\ UNCHANGED <<lastObs, done, terminal, unpublished, lockVars, simVars, loop, count>>
      /\ envs' = envs \cup {g} /\ loop = None
  BY <1>0 DEF Register
<1>3. g \in Handles /\ Unborn(g) /\ Unknown(g) /\ episode[g] # 0
  BY <1>0, <1>1 DEF IInv, Shape, Unborn, Acting
<1>4. /\ req' \in [Requests -> Reqs] /\ req'[r].pc = "free" /\ req'[r].op = "none"
      /\ req'[r].h = None /\ \A q \in Requests : q # r => req'[q] = req[q]
  BY <1>0, <1>1, Gone DEF Register
<1>5. \A q \in Requests : q # r => req[q].h # g
  <2>1. \A q \in Requests : ~OnLoop(q)
    BY <1>0, <1>1, <1>2, ReqTyped DEF IInv, Shape
  <2> QED  BY <1>0, <1>1, <1>3, <2>1 DEF Unknown
<1>6. \A h \in Handles : h # g => Same(h)
  BY <1>0, <1>2 DEF Same, simVars
<1>7. Shape(r)' /\ Acting(r)'
  BY <1>4 DEF Shape, Acting, Places, Inside, OnLoop
<1>8. \A q \in Requests : Shape(q)'
  BY <1>0, <1>2, <1>4, <1>7, ShapeStays DEF lockVars
<1>9. \A q \in Requests : req'[q].h # g
  BY <1>0, <1>1, <1>3, <1>4, <1>5, ReqTyped
<1>10. ~Unborn(g)'
  BY <1>0, <1>2, <1>3, <1>9 DEF Unborn, simVars
<1>11. Open(g)'
  BY <1>0, <1>2, <1>3, <1>9 DEF Open, Exact, Unknown, simVars
<1>12. Typed
  BY <1>0, <1>1, <1>2 DEF Typed, TypeOK, lockVars
<1>13. /\ envs' \subseteq Handles /\ lastObs' \subseteq Handles /\ done' \subseteq Handles
       /\ closed' \subseteq Handles /\ finished' \subseteq Handles /\ unpublished' \subseteq Handles
       /\ terminal' \in [Handles -> Nat] /\ episode' \in [Handles -> Nat]
  BY <1>1, <1>2, <1>3 DEF TypeOK, simVars
<1>14. lockOf' = lockOf /\ req[r].h = g /\ req'[r].h \in {g, None}
  BY <1>0, <1>2, <1>4 DEF lockVars
<1> QED
  BY <1>3, <1>4, <1>5, <1>6, <1>7, <1>8, <1>9, <1>10, <1>11, <1>12, <1>13, <1>14, Local

LEMMA StepSimStep ==
    ASSUME IInv, NEW r \in Requests, SimStep(r)
    PROVE  IInv'
<1> DEFINE g == req[r].h
<1>1. TypeOK /\ Shape(r) /\ Acting(r) /\ req[r].pc = "sim" /\ req[r].op = "step"
  BY DEF IInv, SimStep
<1>2. /\ UNCHANGED <<obsVars, lockOf, holder, closed, episode, loop, count>>
      /\ gl' = None
  BY DEF SimStep
<1>3. PICK term \in BOOLEAN :
        /\ finished' = IF term THEN finished \cup {g} ELSE finished
        /\ req' = [req EXCEPT ![r].pc = "publish", ![r].term = term]
  BY DEF SimStep
<1> DEFINE x == [req[r] EXCEPT !.pc = "publish", !.term = term]
<1>4. /\ x \in Reqs /\ x.pc = "publish" /\ x.term = term /\ x.op = "step" /\ x.h = g
      /\ x.lock = req[r].lock
  BY <1>1, ReqTyped, ZenonT(40) DEF Reqs, Labels
<1>5. req' = [req EXCEPT ![r] = x]
  BY <1>1, <1>3 DEF TypeOK
<1> HIDE DEF x
<1>6. /\ req' \in [Requests -> Reqs] /\ req'[r] = x
      /\ \A q \in Requests : q # r => req'[q] = req[q]
  BY <1>1, <1>4, <1>5, Assign
<1>7. /\ g \in Handles /\ g \in envs \ done /\ terminal[g] = 0 /\ Inside(r)
      /\ g \in finished => g \in unpublished
  BY <1>1 DEF Shape, Acting, Inside
<1>8. \A h \in Handles : h # g => Same(h)
  BY <1>2, <1>3 DEF Same, obsVars
<1>9. ASSUME NEW q \in Requests, q # r, req[q].h = g PROVE ~Inside(q)
  BY <1>7, <1>9, Exclusive
<1>10. \A q \in Requests : q # r /\ req[q].h = g => req[q].op # "create" /\ req[q].pc # "publish"
  <2>1. Unborn(g) => FALSE
    BY <1>7 DEF IInv, Unknown
  <2>2. \A q \in Requests : req[q].pc = "publish" => Inside(q) \/ req[q].op = "create"
    BY DEF Inside
  <2> QED  BY <1>9, <2>1, <2>2 DEF Unborn
<1>12. Shape(r)' /\ Inside(r)'
  BY <1>1, <1>2, <1>4, <1>6, <1>7 DEF Shape, Inside, Places, OnLoop
<1>13. \A q \in Requests : Shape(q)'
  BY <1>2, <1>6, <1>12, ShapeStays
<1>14. Acting(r)'
  <2>2. g \notin unpublished' => (term <=> g \in finished')
    BY <1>2, <1>3, <1>7 DEF obsVars
  <2>3. g \in envs' /\ g \notin done' /\ terminal'[g] = 0
    BY <1>2, <1>7 DEF obsVars
  <2> QED  BY <1>4, <1>6, <2>2, <2>3 DEF Acting
<1>15. ASSUME NEW q \in Requests, q # r, req[q].h = g PROVE Acting(q)'
  <2>1. ~Inside(q) /\ req[q].op # "create" /\ req'[q] = req[q]
    BY <1>6, <1>9, <1>10, <1>15
  <2> QED  BY <2>1 DEF Acting, Inside
<1>16. ~Unborn(g)'
  <2>1. ~Unborn(g)
    BY <1>7 DEF IInv, Unknown
  <2> QED  BY <1>2, <1>4, <1>6, <2>1 DEF Unborn
<1>17. Open(g)'
  <2>1. Open(g)
    BY <1>7 DEF IInv
  <2>2. \A q \in Requests : q # r => (Inside(q)' <=> Inside(q))
    BY <1>6 DEF Inside
  <2> QED  BY <1>2, <1>4, <1>6, <1>7, <2>1, <2>2 DEF Open, obsVars
<1>18. Typed
  BY <1>1, <1>2 DEF Typed, TypeOK
<1> QED
  BY <1>1, <1>2, <1>3, <1>4, <1>6, <1>7, <1>8, <1>13, <1>14, <1>15, <1>16, <1>17, <1>18, Local
     DEF TypeOK, obsVars

\* Whoever is inside an environment's locked region is alone there while the
\* environment is open.
LEMMA Sole ==
    ASSUME IInv, NEW r \in Requests, NEW g \in Handles, req[r].h = g,
           Inside(r), req[r].op # "close" \/ g \in envs
    PROVE  /\ ~Unborn(g)
           /\ \A q \in Requests : q # r /\ req[q].h = g =>
                 /\ req[q].op # "create"
                 /\ g \in envs => ~Inside(q) /\ req[q].pc # "publish"
<1>1. ~Unborn(g)
  BY DEF IInv, Unknown, Inside
<1>2. ASSUME NEW q \in Requests, q # r, req[q].h = g
      PROVE  /\ req[q].op # "create"
             /\ g \in envs => ~Inside(q) /\ req[q].pc # "publish"
  <2>1. req[q].op # "create"
    BY <1>1, <1>2 DEF Unborn
  <2>2. g \in envs => ~Inside(q)
    BY <1>2, Exclusive
  <2> QED  BY <2>1, <2>2 DEF Inside
<1> QED
  BY <1>1, <1>2

LEMMA StepSimReset ==
    ASSUME IInv, NEW r \in Requests, SimReset(r)
    PROVE  IInv'
<1>0. PICK g : g = req[r].h
  OBVIOUS
<1>1. TypeOK /\ Shape(r) /\ Acting(r) /\ req[r].pc = "sim" /\ req[r].op = "reset"
  BY DEF IInv, SimReset
<1>2. /\ UNCHANGED <<obsVars, lockOf, holder, closed, loop, count>> /\ gl' = None
      /\ finished' = finished \ {g} /\ episode' = [episode EXCEPT ![g] = @ + 1]
  BY <1>0 DEF SimReset
<1>3. /\ req' \in [Requests -> Reqs] /\ req'[r].lock = req[r].lock
      /\ req'[r].pc = "publish" /\ req'[r].op = "reset" /\ req'[r].h = g
      /\ \A q \in Requests : q # r => req'[q] = req[q]
  BY <1>0, <1>1, Move DEF SimReset, Labels
<1>4. g \in Handles /\ Inside(r)
  BY <1>0, <1>1 DEF Shape, Inside
<1>5. /\ episode' \in [Handles -> Nat] /\ episode'[g] # 0
      /\ \A h \in Handles : h # g => episode'[h] = episode[h]
  BY <1>1, <1>2, <1>4 DEF TypeOK
<1>6. \A h \in Handles : h # g => Same(h)
  BY <1>2, <1>5 DEF Same, obsVars
<1>7. /\ ~Unborn(g)
      /\ \A q \in Requests : q # r /\ req[q].h = g =>
            /\ req[q].op # "create"
            /\ g \in envs => ~Inside(q) /\ req[q].pc # "publish"
  BY <1>0, <1>1, <1>4, Sole
<1>8. Shape(r)' /\ Inside(r)'
  BY <1>1, <1>2, <1>3, <1>4 DEF Shape, Inside, Places, OnLoop
<1>9. \A q \in Requests : Shape(q)'
  BY <1>2, <1>3, <1>8, ShapeStays
<1>10. Acting(r)'
  BY <1>2, <1>3 DEF Acting
<1>11. ASSUME NEW q \in Requests, q # r, req[q].h = g PROVE Acting(q)'
  <2>1. Acting(q) /\ req'[q] = req[q] /\ envs' = envs
    BY <1>2, <1>3, <1>11 DEF IInv, obsVars
  <2>2. req[q].op = "step" => req[q].pc \notin {"gl", "sim", "publish"}
    BY <1>7, <1>11, <2>1 DEF Acting, Inside
  <2>3. req[q].op = "reset" => g \notin envs' \cap finished'
    BY <1>2
  <2> QED  BY <1>7, <1>11, <2>1, <2>2, <2>3 DEF Acting
<1>12. ~Unborn(g)'
  BY <1>3, <1>5, <1>7 DEF Unborn
<1>13. g \in envs' => Open(g)'
  <2> SUFFICES ASSUME g \in envs PROVE Open(g)'
    BY <1>2 DEF obsVars
  <2>1. Open(g)
    BY DEF IInv
  <2>2. \A q \in Requests : q # r => (Inside(q)' <=> Inside(q))
    BY <1>3 DEF Inside
  <2> QED  BY <1>0, <1>2, <1>3, <1>4, <2>1, <2>2 DEF Open, obsVars
<1>14. Typed
  BY <1>1, <1>2 DEF Typed, TypeOK
<1>15. /\ envs' \subseteq Handles /\ lastObs' \subseteq Handles /\ done' \subseteq Handles
       /\ closed' \subseteq Handles /\ finished' \subseteq Handles /\ unpublished' \subseteq Handles
       /\ terminal' \in [Handles -> Nat]
  BY <1>1, <1>2 DEF TypeOK, obsVars
<1> QED
  BY <1>0, <1>1, <1>2, <1>3, <1>4, <1>5, <1>6, <1>9, <1>10, <1>11, <1>12, <1>13, <1>14,
     <1>15, Local

LEMMA StepPublish ==
    ASSUME IInv, NEW r \in Requests, PublishStep(r) \/ PublishReset(r) \/ PublishRaises(r)
    PROVE  IInv'
<1>0. PICK g : g = req[r].h
  OBVIOUS
<1>1. /\ TypeOK /\ Shape(r) /\ Acting(r) /\ req[r].pc = "publish"
      /\ req[r].op \in {"step", "reset"}
  BY ReqTyped DEF IInv, PublishStep, PublishReset, PublishRaises, Shape, Places, Reqs, AllOps
<1>2. UNCHANGED <<envs, lockVars, simVars, loop, count>> /\ lastObs' \in {lastObs, lastObs \cup {g}}
  BY <1>0 DEF PublishStep, PublishReset, PublishRaises
<1>3. /\ req' \in [Requests -> Reqs] /\ req'[r].lock = req[r].lock
      /\ req'[r].pc = "end" /\ req'[r].op = req[r].op /\ req'[r].h = g
      /\ \A q \in Requests : q # r => req'[q] = req[q]
  <2>1. CASE PublishStep(r) \/ PublishReset(r)
    BY <1>0, <1>1, <2>1, Move DEF PublishStep, PublishReset, Labels
  <2>2. CASE PublishRaises(r)
    <3> DEFINE x == [req[r] EXCEPT !.pc = "end", !.left = 0]
    <3>1. /\ x \in Reqs /\ x.lock = req[r].lock /\ x.pc = "end" /\ x.op = req[r].op
          /\ x.h = req[r].h
      <4>1. req[r] \in Reqs /\ 0 \in 0..MaxSteps
        BY <1>1, ReqTyped, WorkerAssumption
      <4> QED  BY <4>1 DEF Reqs, Labels
    <3>2. req' = [req EXCEPT ![r] = x]
      BY <2>2 DEF PublishRaises
    <3> HIDE DEF x
    <3> QED  BY <1>0, <1>1, <3>1, <3>2, Assign
  <2> QED  BY <2>1, <2>2
<1>4. g \in Handles /\ Inside(r)
  BY <1>0, <1>1 DEF Shape, Inside
<1>5. /\ ~Unborn(g)
      /\ \A q \in Requests : q # r /\ req[q].h = g =>
            /\ req[q].op # "create"
            /\ g \in envs => ~Inside(q) /\ req[q].pc # "publish"
  BY <1>0, <1>1, <1>4, Sole
<1>6. /\ done' \in SUBSET Handles /\ terminal' \in [Handles -> Nat]
      /\ unpublished' \in SUBSET Handles
      /\ \A h \in Handles : h # g =>
            /\ h \in done' <=> h \in done
            /\ terminal'[h] = terminal[h]
            /\ h \in unpublished' <=> h \in unpublished
  <2>1. CASE PublishStep(r)
    BY <1>0, <1>1, <1>4, <2>1 DEF PublishStep, TypeOK
  <2>2. CASE PublishReset(r)
    BY <1>0, <1>1, <1>4, <2>2 DEF PublishReset, TypeOK
  <2>3. CASE PublishRaises(r)
    BY <1>0, <1>1, <1>4, <2>3 DEF PublishRaises, TypeOK
  <2> QED  BY <2>1, <2>2, <2>3
<1>7. g \in envs => Exact(g)' /\ (g \in done' <=> terminal'[g] # 0)
  <2> SUFFICES ASSUME g \in envs
               PROVE  /\ g \notin unpublished' =>
                            terminal'[g] = IF g \in finished THEN episode[g] ELSE 0
                      /\ g \in done' <=> terminal'[g] # 0
    BY <1>2 DEF Exact, simVars
  <2>0. episode[g] # 0 /\ (g \in done <=> terminal[g] # 0)
    BY <1>4, <1>5 DEF IInv, Open, Unborn
  <2>1. CASE PublishStep(r)
    <3>1. /\ g \notin done /\ terminal[g] = 0 /\ unpublished' = unpublished
          /\ g \notin unpublished => (req[r].term <=> g \in finished)
      BY <1>0, <1>1, <2>1 DEF Acting, PublishStep
    <3>2. CASE req[r].term
      <4>1. done' = done \cup {g} /\ terminal' = [terminal EXCEPT ![g] = episode[g]]
        BY <1>0, <2>1, <3>2 DEF PublishStep
      <4> QED  BY <1>1, <1>4, <2>0, <3>1, <3>2, <4>1 DEF TypeOK
    <3>3. CASE ~req[r].term
      <4>1. done' = done /\ terminal' = terminal
        BY <2>1, <3>3 DEF PublishStep
      <4> QED  BY <3>1, <3>3, <4>1
    <3> QED  BY <3>2, <3>3
  <2>2. CASE PublishReset(r)
    <3>1. g \notin finished
      BY <1>0, <1>1, <2>2 DEF Acting, PublishReset
    <3>2. done' = done \ {g} /\ terminal' = [terminal EXCEPT ![g] = 0]
      BY <1>0, <2>2 DEF PublishReset
    <3> QED  BY <1>1, <1>4, <3>1, <3>2 DEF TypeOK
  <2>3. CASE PublishRaises(r) /\ req[r].op = "step"
    <3>1. /\ terminal[g] = 0 /\ done' = done /\ terminal' = terminal
          /\ g \notin unpublished => (req[r].term <=> g \in finished)
          /\ unpublished' = IF req[r].term THEN unpublished \cup {g} ELSE unpublished
      BY <1>0, <1>1, <2>3 DEF Acting, PublishRaises
    <3> QED  BY <2>0, <3>1
  <2>4. CASE PublishRaises(r) /\ req[r].op # "step"
    BY <1>0, <2>0, <2>4 DEF PublishRaises
  <2> QED  BY <2>1, <2>2, <2>3, <2>4
<1>8. \A h \in Handles : h # g => Same(h)
  BY <1>2, <1>6 DEF Same, simVars
<1>9. Shape(r)' /\ Inside(r)'
  <2>1. "end" \in Places(req[r].op)
    BY <1>1 DEF Places
  <2> QED  BY <1>1, <1>2, <1>3, <1>4, <2>1 DEF Shape, Inside, OnLoop, lockVars
<1>10. \A q \in Requests : Shape(q)'
  BY <1>2, <1>3, <1>9, ShapeStays DEF lockVars
<1>11. Acting(r)'
  BY <1>1, <1>3 DEF Acting
<1>12. ASSUME NEW q \in Requests, q # r, req[q].h = g PROVE Acting(q)'
  <2>1. Acting(q) /\ req'[q] = req[q] /\ envs' = envs /\ finished' = finished
    BY <1>2, <1>3, <1>12 DEF IInv, simVars
  <2>2. req[q].op = "step" => req[q].pc \notin {"gl", "sim", "publish"}
    BY <1>5, <1>12, <2>1 DEF Acting, Inside
  <2> QED  BY <1>5, <1>12, <2>1, <2>2 DEF Acting
<1>13. ~Unborn(g)'
  BY <1>0, <1>1, <1>2, <1>3, <1>5 DEF Unborn, simVars
<1>14. g \in envs' => Open(g)'
  <2> SUFFICES ASSUME g \in envs PROVE Open(g)'
    BY <1>2
  <2>1. Open(g)
    BY DEF IInv
  <2>2. \A q \in Requests : q # r => (Inside(q)' <=> Inside(q))
    BY <1>3 DEF Inside
  <2>3. g \notin closed' /\ lockOf' = lockOf
    BY <1>2, <2>1 DEF Open, simVars, lockVars
  <2>4. ASSUME NEW q \in Requests, req'[q].h = g
        PROVE  /\ req'[q].pc = "wait" \/ Inside(q)' => req'[q].lock = lockOf'[g]
               /\ req'[q].pc \notin {"closing", "resume", "unlock"}
    BY <1>0, <1>3, <1>4, <2>1, <2>2, <2>3, <2>4 DEF Open
  <2> QED  BY <1>7, <2>3, <2>4 DEF Open
<1>15. Typed
  BY <1>1, <1>2 DEF Typed, TypeOK, lockVars
<1>16. /\ envs' \subseteq Handles /\ lastObs' \subseteq Handles /\ done' \subseteq Handles
       /\ closed' \subseteq Handles /\ finished' \subseteq Handles /\ unpublished' \subseteq Handles
       /\ episode' \in [Handles -> Nat] /\ lockOf' = lockOf
  BY <1>1, <1>2, <1>4, <1>6 DEF TypeOK, simVars, lockVars
<1> QED
  BY <1>0, <1>1, <1>3, <1>4, <1>6, <1>8, <1>10, <1>11, <1>12, <1>13, <1>14, <1>15, <1>16, Local

LEMMA StepClosePop ==
    ASSUME IInv, NEW r \in Requests, ClosePop(r)
    PROVE  IInv'
<1>0. PICK g : g = req[r].h
  OBVIOUS
<1>1. /\ TypeOK /\ Shape(r) /\ Acting(r) /\ req[r].pc = "pop" /\ req[r].op = "close"
  BY ReqTyped DEF IInv, ClosePop, Shape, Places, Reqs, AllOps
<1>2. /\ envs' = envs \ {g} /\ lastObs' = lastObs \ {g} /\ done' = done \ {g}
      /\ terminal' = [terminal EXCEPT ![g] = 0]
      /\ UNCHANGED <<unpublished, lockVars, simVars, count>>
  BY <1>0 DEF ClosePop
<1> DEFINE p == IF g \in envs THEN "closing" ELSE "unlock"
<1>3. /\ Goto(r, p) /\ p \in Labels
      /\ g \in envs => loop' = None
      /\ g \notin envs => loop' = loop
  BY <1>0 DEF ClosePop, Labels
<1>4. /\ req' \in [Requests -> Reqs] /\ req'[r].lock = req[r].lock
      /\ req'[r].pc = p /\ req'[r].op = "close" /\ req'[r].h = g
      /\ \A q \in Requests : q # r => req'[q] = req[q]
  BY <1>0, <1>1, <1>3, Move
<1>5. g \in Handles /\ Inside(r) /\ OnLoop(r) /\ loop = r
  BY <1>0, <1>1 DEF Shape, Inside, OnLoop
<1>6. /\ terminal' \in [Handles -> Nat] /\ terminal'[g] = 0
      /\ \A h \in Handles : h # g => terminal'[h] = terminal[h]
  BY <1>1, <1>2, <1>5 DEF TypeOK
<1>7. \A h \in Handles : h # g => Same(h)
  BY <1>2, <1>6 DEF Same, simVars
<1>8. OnLoop(r)' <=> g \notin envs
  BY <1>4 DEF OnLoop
<1>9. Shape(r)'
  <2>1. p \in Places("close") /\ Inside(r)'
    BY <1>4 DEF Places, Inside
  <2>2. OnLoop(r)' => loop' = r
    BY <1>3, <1>5, <1>8
  <2> QED  BY <1>1, <1>2, <1>4, <1>5, <2>1, <2>2 DEF Shape, lockVars
<1>10. \A q \in Requests : Shape(q)'
  BY <1>2, <1>4, <1>5, <1>9, ShapeStays DEF lockVars
<1>11. Acting(r)'
  BY <1>4 DEF Acting
<1>12. ASSUME NEW q \in Requests, q # r, req[q].h = g PROVE Acting(q)'
  <2>1. Acting(q) /\ req'[q] = req[q] /\ episode' = episode
    BY <1>2, <1>4, <1>12 DEF IInv, simVars
  <2>2. req[q].op = "step" => req[q].pc \notin {"gl", "sim", "publish"}
    <3>1. req[q].op = "step" /\ req[q].pc \in {"gl", "sim", "publish"} => g \in envs /\ Inside(q)
      BY <1>12, <2>1 DEF Acting, Inside
    <3> QED  BY <1>0, <1>5, <1>12, <3>1, Exclusive
  <2>3. g \notin envs'
    BY <1>2
  <2> QED  BY <1>12, <2>1, <2>2, <2>3 DEF Acting
<1>13. Unborn(g)' => Unknown(g)'
  <2> SUFFICES ASSUME Unborn(g)' PROVE Unknown(g)'
    OBVIOUS
  <2>1. Unborn(g)
    BY <1>1, <1>2, <1>4 DEF Unborn, simVars
  <2>2. Unknown(g) /\ g \notin envs
    BY <1>5, <2>1 DEF IInv, Unknown
  <2>3. \A q \in Requests : q # r => (OnLoop(q)' <=> OnLoop(q))
    BY <1>4 DEF OnLoop
  <2>4. /\ g \notin envs' \cup lastObs' \cup done' \cup closed' \cup finished'
    BY <1>2, <2>2 DEF Unknown, simVars
  <2> QED  BY <1>1, <1>4, <1>6, <1>8, <2>2, <2>3, <2>4 DEF Unknown
<1>14. Typed
  BY <1>1, <1>2, <1>3 DEF Typed, TypeOK, lockVars
<1>15. /\ envs' \subseteq Handles /\ lastObs' \subseteq Handles /\ done' \subseteq Handles
       /\ closed' \subseteq Handles /\ finished' \subseteq Handles /\ unpublished' \subseteq Handles
       /\ episode' \in [Handles -> Nat] /\ lockOf' = lockOf /\ g \notin envs'
  BY <1>1, <1>2 DEF TypeOK, simVars, lockVars
<1> QED
  BY <1>0, <1>1, <1>4, <1>5, <1>6, <1>7, <1>10, <1>11, <1>12, <1>13, <1>14, <1>15, Local

LEMMA StepSimClose ==
    ASSUME IInv, NEW r \in Requests, SimClose(r)
    PROVE  IInv'
<1>0. PICK g : g = req[r].h
  OBVIOUS
<1>1. /\ TypeOK /\ Shape(r) /\ Acting(r) /\ req[r].pc = "closing" /\ req[r].op = "close"
  BY ReqTyped DEF IInv, SimClose, Shape, Places, Reqs, AllOps
<1>2. /\ closed' = closed \cup {g}
      /\ UNCHANGED <<obsVars, lockVars, episode, finished, loop, count>>
  BY <1>0 DEF SimClose
<1>3. /\ req' \in [Requests -> Reqs] /\ req'[r].lock = req[r].lock
      /\ req'[r].pc = "resume" /\ req'[r].op = "close" /\ req'[r].h = g
      /\ \A q \in Requests : q # r => req'[q] = req[q]
  BY <1>0, <1>1, Move DEF SimClose, Labels
<1>4. g \in Handles /\ Inside(r) /\ ~OnLoop(r) /\ ~OnLoop(r)'
  BY <1>0, <1>1, <1>3 DEF Shape, Inside, OnLoop
<1>5. g \notin envs
  BY <1>0, <1>1 DEF IInv, Open
<1>6. \A h \in Handles : h # g => Same(h)
  BY <1>2 DEF Same, obsVars
<1>7. ~Unborn(g)
  BY <1>0, <1>1, <1>4 DEF IInv, Unknown
<1>8. ~Unborn(g)'
  BY <1>1, <1>2, <1>3, <1>7 DEF Unborn
<1>9. Shape(r)'
  BY <1>1, <1>2, <1>3, <1>4 DEF Shape, Inside, Places, lockVars
<1>10. \A q \in Requests : Shape(q)'
  BY <1>2, <1>3, <1>9, ShapeStays DEF lockVars
<1>11. Acting(r)'
  BY <1>3 DEF Acting
<1>12. ASSUME NEW q \in Requests, q # r, req[q].h = g PROVE Acting(q)'
  BY <1>2, <1>3, <1>12 DEF IInv, Acting, obsVars
<1>13. Typed
  BY <1>1, <1>2 DEF Typed, TypeOK, lockVars
<1>14. /\ envs' \subseteq Handles /\ lastObs' \subseteq Handles /\ done' \subseteq Handles
       /\ closed' \subseteq Handles /\ finished' \subseteq Handles /\ unpublished' \subseteq Handles
       /\ terminal' \in [Handles -> Nat] /\ episode' \in [Handles -> Nat]
       /\ lockOf' = lockOf /\ g \notin envs'
  BY <1>1, <1>2, <1>4, <1>5 DEF TypeOK, obsVars, lockVars
<1> QED
  BY <1>0, <1>1, <1>3, <1>4, <1>6, <1>8, <1>10, <1>11, <1>12, <1>13, <1>14, Local

-----------------------------------------------------------------------------
(* The theorems. *)

LEMMA InitIInv == Init => IInv
<1> SUFFICES ASSUME Init PROVE IInv
  OBVIOUS
<1>1. TypeOK
  <2>1. req \in [Requests -> Reqs]
    BY FreeTyped DEF Init
  <2> QED  BY <2>1, WorkerAssumption DEF Init, TypeOK, Reqs, Labels
<1>2. \A r \in Requests : req[r].op = "none" /\ req[r].pc = "free" /\ req[r].h = None
  BY FreeTyped DEF Init
<1>3. \A r \in Requests : Shape(r) /\ Acting(r)
  BY <1>2 DEF Shape, Acting, Inside, OnLoop, Places
<1>4. \A h \in Handles : Unknown(h)
  BY <1>2, WorkerAssumption DEF Init, Unknown
<1> QED
  BY <1>1, <1>3, <1>4 DEF Init, IInv

LEMMA NextIInv == IInv /\ [Next]_vars => IInv'
<1> SUFFICES ASSUME IInv, [Next]_vars PROVE IInv'
  OBVIOUS
<1>1. CASE UNCHANGED vars
  BY <1>1 DEF vars, IInv, TypeOK, Shape, Acting, Unborn, Unknown, Open, Exact, Inside, OnLoop
<1>2. ASSUME NEW r \in Requests, Serve(r) PROVE IInv'
  BY <1>2, StepGetLock, StepTakeLock, StepTakeGL, StepSimCreate, StepRegister, StepSimStep,
     StepSimReset, StepSimEnds, StepPublish, StepLeave, StepReadObs, StepPickNext,
     StepRenderAllDone, StepClosePop, StepSimClose, StepCloseResume, StepCloseEnd DEF Serve
<1> QED
  BY <1>1, <1>2, StepStart DEF Next, Quiescent

\* However requests, locks and the event loop interleave, the worker's bookkeeping
\* agrees with the simulators whenever nobody is between the two.
THEOREM Inductive == Spec => []IInv
<1> QED  BY InitIInv, NextIInv, PTL DEF Spec

\* The state of a worker keeps its types for any number of environments,
\* requests and steps.
THEOREM TypeCorrect == Spec => []TypeOK
<1>1. IInv => TypeOK
  BY DEF IInv
<1> QED  BY <1>1, Inductive, PTL

\* env.step is never called on an environment that close_env has torn down, nor on
\* a finished episode whose end was published, however requests overlap and
\* however often clients close an environment.
THEOREM StepCorrect == Spec => []StepOnlyLive
<1>1. IInv => StepOnlyLive
  BY DEF IInv, StepOnlyLive, Acting, Open
<1> QED  BY <1>1, Inductive, PTL

\* The end of an episode and its result are always published together, and are
\* those of the current episode unless an exception kept an outcome back.
THEOREM TerminalCorrect == Spec => []TerminalResultExact
<1>1. ASSUME IInv PROVE TerminalResultExact
  <2> SUFFICES ASSUME NEW h \in envs, Calm(h)
               PROVE  (h \in done <=> terminal[h] # 0) /\ Exact(h)
    BY DEF TerminalResultExact, Exact
  <2> QED  BY <1>1 DEF IInv, Open, Calm
<1> QED  BY <1>1, Inductive, PTL

=============================================================================
