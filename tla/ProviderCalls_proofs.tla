------------------------ MODULE ProviderCalls_proofs ------------------------
(***************************************************************************)
(* Proofs about ProviderCalls for any number of planners, any limit, any     *)
(* number of attempts and requests and any history limit: the limiter's slots *)
(* are conserved, and the manual proxy never forgets a request that waits nor *)
(* tells a client what is not so.                                            *)
(***************************************************************************)
EXTENDS ProviderCalls, SequenceTheorems, FiniteSetTheorems, TLAPS

Requests == [status : {"pending", "responded", "cancelled"},
             thread : {"waiting", "late", "ended"},
             conn : {"open", "ok", "unavailable", "dropped", "hungup", "stranger"}]

Calls == [pc : Holding \cup {"idle", "queue"}, preferred : Roles, role : Roles,
          attempt : Nat, tried : SUBSET Roles, req : Nat, refused : SUBSET Roles]

Kinds == {"busy", "error", "denied", "fatal"}

\* The planners that hold a slot, and those of them that are counted.
Held == {p \in Planners : call[p].pc \in Holding}
Counts == {p \in Planners : call[p].pc \in Counted}

\* What the store and the threads of the proxy maintain.
ProxyInv ==
    /\ reqs \in Seq(Requests)
    /\ stored \subseteq Arrived
    /\ PendingIsStored
    /\ OutcomeAgrees

\* What the limiter maintains.
SlotInv ==
    /\ permits \in Nat
    /\ permits + Cardinality(Held) = Limit
    /\ active = Cardinality(Counts)

\* A call that waits for the human has its request at the proxy.
AtProxy(c) == c.pc = "sent" /\ c.role = config.human => c.req \in Arrived

SentInv == \A p \in Planners : AtProxy(call[p])

\* A connection that is open is that of a planner's present request.
Waits(c, i) == c.pc = "sent" /\ c.role = config.human /\ c.req = i

Open == {i \in Arrived : reqs[i].conn = "open"}

OpenInv == \A i \in Open : \E p \in Planners : Waits(call[p], i)

IInv ==
    /\ ProxyInv
    /\ call \in [Planners -> Calls]
    /\ config \in Configs
    /\ SlotInv
    /\ SentInv
    /\ OpenInv

-----------------------------------------------------------------------------
(* The proxy. *)

\* One request changes.
LEMMA RequestStep ==
    ASSUME ProxyInv, NEW i \in Arrived, NEW r \in Requests,
           reqs' = [reqs EXCEPT ![i] = r], stored' = stored,
           r.status = "pending" => reqs[i].status = "pending",
           r.conn = "ok" => r.status = "responded",
           r.conn = "unavailable" => r.status = "cancelled",
           r.conn = "open" => reqs[i].conn = "open"
    PROVE  /\ ProxyInv' /\ Open' \subseteq Open
           /\ r.conn # "open" => i \notin Open'
<1>1. reqs \in Seq(Requests) /\ Arrived = 1..Len(reqs)
  BY LenProperties DEF ProxyInv, Arrived
<1>2. reqs' \in Seq(Requests) /\ Len(reqs') = Len(reqs)
  BY <1>1, ExceptSeq
<1>3. Arrived' = Arrived
  BY <1>1, <1>2, LenProperties DEF Arrived
<1>4. \A j \in Arrived : reqs'[j] = IF j = i THEN r ELSE reqs[j]
  BY DEF Arrived
<1>5. PendingIsStored' /\ OutcomeAgrees'
  BY <1>3, <1>4 DEF ProxyInv, PendingIsStored, OutcomeAgrees
<1>6. Open' \subseteq Open /\ (r.conn # "open" => i \notin Open')
  BY <1>3, <1>4 DEF Open
<1> QED
  BY <1>2, <1>3, <1>5, <1>6 DEF ProxyInv

\* A request arrives, and answered ones may be forgotten for it.
LEMMA AddStep ==
    ASSUME ProxyInv, NEW conn \in {"open", "stranger"}, Add(conn)
    PROVE  /\ ProxyInv'
           /\ Len(reqs') \in Nat
           /\ Open' = IF conn = "open" THEN Open \cup {Len(reqs')} ELSE Open
<1> DEFINE r == NewRequest(conn)
           n == Len(reqs) + 1
<1>1. /\ r \in Requests /\ r.status = "pending" /\ r.conn = conn
      /\ r.conn \notin {"ok", "unavailable"}
  BY DEF NewRequest, Requests
<1>2. reqs \in Seq(Requests) /\ Arrived = 1..Len(reqs) /\ Len(reqs) \in Nat
  BY LenProperties DEF ProxyInv, Arrived
<1>3. reqs' = Append(reqs, r) /\ stored' = Kept(reqs', stored \cup {n})
  BY DEF Add
<1> HIDE DEF r
<1>4. /\ reqs' \in Seq(Requests) /\ Arrived' = Arrived \cup {n} /\ Len(reqs') = n
      /\ \A j \in Arrived : reqs'[j] = reqs[j]
      /\ reqs'[n] = r
  BY <1>1, <1>2, <1>3 DEF Arrived
<1>5. stored' \subseteq Arrived'
  BY <1>3, <1>4 DEF Kept, ProxyInv
<1>6. PendingIsStored'
  <2> SUFFICES ASSUME NEW j \in Arrived', reqs'[j].status = "pending"
               PROVE  j \in stored'
    BY DEF PendingIsStored
  <2>1. j \in stored \cup {n}
    BY <1>4 DEF ProxyInv, PendingIsStored
  <2> QED  BY <1>3, <2>1 DEF Kept
<1>7. OutcomeAgrees'
  BY <1>1, <1>4 DEF ProxyInv, OutcomeAgrees
<1>8. Open' = IF conn = "open" THEN Open \cup {n} ELSE Open
  BY <1>1, <1>4 DEF Open
<1> QED
  BY <1>2, <1>4, <1>5, <1>6, <1>7, <1>8 DEF ProxyInv

LEMMA RequestType ==
    ASSUME ProxyInv, NEW i \in Arrived
    PROVE  reqs[i] \in Requests
  BY ElementOfSeq, LenProperties DEF ProxyInv, Arrived

\* The operator answers or cancels.
LEMMA OperatorStep ==
    ASSUME ProxyInv, NEW i \in Arrived, Respond(i) \/ Cancel(i)
    PROVE  ProxyInv' /\ Open' \subseteq Open
<1>1. reqs[i] \in Requests
  BY RequestType
<1>2. PICK s \in {"responded", "cancelled"} :
        /\ reqs' = [reqs EXCEPT ![i] = [reqs[i] EXCEPT !.status = s]]
        /\ stored' = stored /\ reqs[i].status = "pending"
  BY DEF Respond, Cancel
<1> DEFINE r == [reqs[i] EXCEPT !.status = s]
<1>3. r \in Requests /\ r.status = s /\ r.conn = reqs[i].conn
  BY <1>1, <1>2 DEF Requests
<1>4. reqs[i].conn \notin {"ok", "unavailable"}
  BY <1>2 DEF ProxyInv, OutcomeAgrees
<1> HIDE DEF r
<1>5. reqs' = [reqs EXCEPT ![i] = r]
  BY <1>2 DEF r
<1> QED
  BY <1>2, <1>3, <1>4, <1>5, RequestStep, ZenonT(40)

\* A server thread wakes up, is late, or gives up.
LEMMA ServerStep ==
    ASSUME ProxyInv, NEW i \in Arrived, ServerThread(i)
    PROVE  ProxyInv' /\ Open' \subseteq Open
<1>1. reqs[i] \in Requests
  BY RequestType
<1>2. /\ reqs[i].conn = "ok" => reqs[i].status = "responded"
      /\ reqs[i].conn = "unavailable" => reqs[i].status = "cancelled"
  BY DEF ProxyInv, OutcomeAgrees
<1>3. CASE Woken(i)
  <2> DEFINE c == Sent(reqs[i].conn, reqs[i].status)
             r == [reqs[i] EXCEPT !.thread = "ended", !.conn = c]
  <2>1. c \in {"ok", "unavailable"} \/ c = reqs[i].conn
    BY DEF Sent
  <2>2. /\ c = "ok" => reqs[i].status = "responded"
        /\ c = "unavailable" => reqs[i].status = "cancelled"
    BY <1>1, <1>2, <1>3 DEF Sent, Woken, Requests
  <2>3. reqs' = [reqs EXCEPT ![i] = r] /\ stored' = stored
    BY <1>3 DEF Woken
  <2> HIDE DEF c
  <2>4. r \in Requests /\ r.status = reqs[i].status /\ r.conn = c
    BY <1>1, <2>1 DEF Requests
  <2> HIDE DEF r
  <2> QED  BY <2>1, <2>2, <2>3, <2>4, RequestStep
<1>4. CASE WaitExpires(i)
  <2> DEFINE r == [reqs[i] EXCEPT !.thread = "late"]
  <2>1. reqs' = [reqs EXCEPT ![i] = r] /\ stored' = stored
    BY <1>4 DEF WaitExpires
  <2>2. r \in Requests /\ r.status = reqs[i].status /\ r.conn = reqs[i].conn
    BY <1>1 DEF Requests
  <2> HIDE DEF r
  <2> QED  BY <1>2, <2>1, <2>2, RequestStep
<1>5. CASE Late(i)
  <2> DEFINE s == IF reqs[i].status = "pending" THEN "cancelled" ELSE reqs[i].status
             c == IF i \in stored THEN Sent(reqs[i].conn, s)
                  ELSE IF reqs[i].conn = "open" THEN "dropped" ELSE reqs[i].conn
             r == [reqs[i] EXCEPT !.thread = "ended", !.status = s, !.conn = c]
  <2>1. s \in {"responded", "cancelled"} /\ (reqs[i].status # "pending" => s = reqs[i].status)
    BY <1>1 DEF Requests
  <2>2. c \in {"ok", "unavailable", "dropped"} \/ c = reqs[i].conn
    BY DEF Sent
  <2>3. reqs' = [reqs EXCEPT ![i] = r] /\ stored' = stored
    BY <1>5 DEF Late
  <2> HIDE DEF s
  <2>4. /\ c = "ok" => s = "responded"
        /\ c = "unavailable" => s = "cancelled"
    BY <1>2, <2>1 DEF Sent
  <2> HIDE DEF c
  <2>5. r \in Requests /\ r.status = s /\ r.conn = c
    BY <1>1, <2>1, <2>2 DEF Requests
  <2> HIDE DEF r
  <2> QED  BY <2>1, <2>2, <2>3, <2>4, <2>5, RequestStep
<1> QED
  BY <1>3, <1>4, <1>5 DEF ServerThread

\* The client hangs up.
LEMMA HangUpStep ==
    ASSUME ProxyInv, NEW i \in Arrived, HangUp(i)
    PROVE  ProxyInv' /\ Open' \subseteq Open \ {i}
<1> DEFINE r == [reqs[i] EXCEPT !.conn = "hungup"]
<1>1. reqs[i] \in Requests
  BY RequestType
<1>2. reqs' = [reqs EXCEPT ![i] = r] /\ stored' = stored
  BY DEF HangUp
<1>3. r \in Requests /\ r.status = reqs[i].status /\ r.conn = "hungup"
  BY <1>1 DEF Requests
<1> HIDE DEF r
<1> QED
  BY <1>2, <1>3, RequestStep

-----------------------------------------------------------------------------
(* The limiter. *)

\* Planners are finitely many, and so are those that hold a slot.
LEMMA HeldFinite ==
    /\ IsFiniteSet(Held) /\ Cardinality(Held) \in Nat
    /\ IsFiniteSet(Counts) /\ Cardinality(Counts) \in Nat
<1>1. Held \subseteq Planners /\ Counts \subseteq Planners
  BY DEF Held, Counts
<1> QED
  BY <1>1, ProviderAssumption, FS_Subset, FS_CardinalityType

\* One planner's call changes.
LEMMA CallStep ==
    ASSUME call \in [Planners -> Calls], NEW p \in Planners, NEW c \in Calls,
           call' = [call EXCEPT ![p] = c]
    PROVE  /\ call' \in [Planners -> Calls]
           /\ call'[p] = c /\ \A q \in Planners : q # p => call'[q] = call[q]
           /\ Held' = IF c.pc \in Holding THEN Held \cup {p} ELSE Held \ {p}
           /\ Counts' = IF c.pc \in Counted THEN Counts \cup {p} ELSE Counts \ {p}
<1>1. call'[p] = c /\ \A q \in Planners : q # p => call'[q] = call[q]
  OBVIOUS
<1> QED
  BY <1>1 DEF Held, Counts

\* Slots are taken and given back one by one, and calls counted likewise.
LEMMA SlotStep ==
    ASSUME call \in [Planners -> Calls], SlotInv, NEW p \in Planners, NEW c \in Calls,
           call' = [call EXCEPT ![p] = c],
           \/ (call[p].pc \in Holding <=> c.pc \in Holding) /\ permits' = permits
           \/ call[p].pc \notin Holding /\ c.pc \in Holding /\ permits > 0 /\ permits' = permits - 1
           \/ call[p].pc \in Holding /\ c.pc \notin Holding /\ permits' = permits + 1,
           \/ (call[p].pc \in Counted <=> c.pc \in Counted) /\ active' = active
           \/ call[p].pc \notin Counted /\ c.pc \in Counted /\ active' = active + 1
           \/ call[p].pc \in Counted /\ c.pc \notin Counted /\ active' = active - 1
    PROVE  SlotInv'
<1>1. /\ Held' = IF c.pc \in Holding THEN Held \cup {p} ELSE Held \ {p}
      /\ Counts' = IF c.pc \in Counted THEN Counts \cup {p} ELSE Counts \ {p}
  BY CallStep
<1>2. (p \in Held <=> call[p].pc \in Holding) /\ (p \in Counts <=> call[p].pc \in Counted)
  BY DEF Held, Counts
<1>3. /\ p \notin Held => Cardinality(Held \cup {p}) = Cardinality(Held) + 1
      /\ p \in Held => Cardinality(Held \ {p}) = Cardinality(Held) - 1
      /\ p \notin Counts => Cardinality(Counts \cup {p}) = Cardinality(Counts) + 1
      /\ p \in Counts => Cardinality(Counts \ {p}) = Cardinality(Counts) - 1
  BY HeldFinite, FS_AddElement, FS_RemoveElement
<1>4. permits' \in Nat /\ permits' + Cardinality(Held') = Limit
  <2>1. permits \in Nat /\ permits + Cardinality(Held) = Limit /\ Limit \in Nat
    BY ProviderAssumption DEF SlotInv
  <2>2. CASE (call[p].pc \in Holding <=> c.pc \in Holding) /\ permits' = permits
    <3>1. Held' = Held
      BY <2>2, <1>1, <1>2
    <3> QED  BY <2>1, <2>2, <3>1
  <2>3. CASE call[p].pc \notin Holding /\ c.pc \in Holding /\ permits > 0 /\ permits' = permits - 1
    <3>1. Cardinality(Held') = Cardinality(Held) + 1
      BY <2>3, <1>1, <1>2, <1>3
    <3> QED  BY <2>1, <2>3, <3>1, HeldFinite
  <2>4. CASE call[p].pc \in Holding /\ c.pc \notin Holding /\ permits' = permits + 1
    <3>1. Cardinality(Held') = Cardinality(Held) - 1
      BY <2>4, <1>1, <1>2, <1>3
    <3> QED  BY <2>1, <2>4, <3>1, HeldFinite
  <2> QED  BY <2>2, <2>3, <2>4
<1>5. active' = Cardinality(Counts')
  <2>1. active = Cardinality(Counts)
    BY DEF SlotInv
  <2>2. CASE (call[p].pc \in Counted <=> c.pc \in Counted) /\ active' = active
    <3>1. Counts' = Counts
      BY <2>2, <1>1, <1>2
    <3> QED  BY <2>1, <2>2, <3>1
  <2>3. CASE call[p].pc \notin Counted /\ c.pc \in Counted /\ active' = active + 1
    BY <2>1, <2>3, <1>1, <1>2, <1>3
  <2>4. CASE call[p].pc \in Counted /\ c.pc \notin Counted /\ active' = active - 1
    BY <2>1, <2>4, <1>1, <1>2, <1>3
  <2> QED  BY <2>2, <2>3, <2>4
<1> QED
  BY <1>4, <1>5 DEF SlotInv

-----------------------------------------------------------------------------
(* The calls. *)

LEMMA ConfigType ==
    ASSUME config \in Configs
    PROVE  config.attempts \in Nat /\ config.fallback \in BOOLEAN
  BY ProviderAssumption

\* A call that ends leaves nothing behind.
LEMMA OverCall ==
    ASSUME NEW r \in Roles
    PROVE  /\ Over(r) \in Calls
           /\ Over(r).pc = "uncount"
  BY DEF Over, Blank, Calls, Holding, Counted, Roles

\* A failed attempt ends the call or is repeated.
LEMMA FailedCall ==
    ASSUME config \in Configs, NEW c \in Calls, NEW kind \in Kinds
    PROVE  /\ Failed(c, kind) \in Calls
           /\ Failed(c, kind).pc \in {"uncount", "backoff"}
<1> DEFINE r == NextRole(c, kind)
           t == c.tried \cup {r}
           d == IF kind = "denied" THEN c.refused \cup {c.role} ELSE c.refused
           e == [c EXCEPT !.pc = "backoff", !.role = r, !.attempt = c.attempt + 1,
                          !.tried = t, !.req = 0, !.refused = d]
<1>1. /\ c.role \in Roles /\ c.preferred \in Roles /\ c.tried \subseteq Roles
      /\ c.refused \subseteq Roles /\ c.attempt \in Nat
  BY DEF Calls
<1>2. r \in Roles /\ t \in SUBSET Roles /\ d \in SUBSET Roles /\ c.attempt + 1 \in Nat
  BY <1>1 DEF NextRole, Other, Roles
<1>3. Failed(c, kind) \in {e, Over(c.preferred)}
  BY DEF Failed
<1> HIDE DEF r, t, d
<1>4. e \in Calls /\ e.pc = "backoff"
  BY <1>2 DEF Calls, Holding, Counted
<1> HIDE DEF e
<1> QED
  BY <1>1, <1>3, <1>4, OverCall

\* A step of one call preserves the invariant, if it keeps count of the
\* slots and leaves the proxy in order.
LEMMA OneCall ==
    ASSUME IInv, NEW p \in Planners, NEW c \in Calls,
           call' = [call EXCEPT ![p] = c], config' = config,
           ProxyInv', Len(reqs) =< Len(reqs'), SlotInv',
           c.pc = "sent" /\ c.role = config.human => c.req \in Arrived',
           \A i \in Open' : Waits(c, i) \/ (i \in Open /\ ~Waits(call[p], i))
    PROVE  IInv'
<1>1. /\ call' \in [Planners -> Calls]
      /\ call'[p] = c /\ \A q \in Planners : q # p => call'[q] = call[q]
  BY CallStep DEF IInv
<1>2. Arrived \subseteq Arrived'
  <2>1. reqs \in Seq(Requests) /\ reqs' \in Seq(Requests)
    BY DEF IInv, ProxyInv
  <2>2. Arrived = 1..Len(reqs) /\ Arrived' = 1..Len(reqs')
        /\ Len(reqs) \in Nat /\ Len(reqs') \in Nat
    BY <2>1, LenProperties DEF Arrived
  <2> QED  BY <2>2
<1>4. SentInv'
  <2> SUFFICES ASSUME NEW q \in Planners, call'[q].pc = "sent", call'[q].role = config'.human
               PROVE  call'[q].req \in Arrived'
    BY DEF SentInv, AtProxy
  <2>1. CASE q = p
    BY <1>1, <2>1
  <2>2. CASE q # p
    BY <1>1, <1>2, <2>2 DEF IInv, SentInv, AtProxy
  <2> QED  BY <2>1, <2>2
<1>5. OpenInv'
  <2> SUFFICES ASSUME NEW i \in Open' PROVE \E q \in Planners : Waits(call'[q], i)
    BY DEF OpenInv, Waits
  <2>1. CASE Waits(c, i)
    BY <1>1, <2>1
  <2>2. CASE i \in Open /\ ~Waits(call[p], i)
    BY <1>1, <2>2 DEF IInv, OpenInv
  <2> QED  BY <2>1, <2>2
<1> QED
  BY <1>1, <1>4, <1>5 DEF IInv

\* The same, if no request changes.
LEMMA OneCallAlone ==
    ASSUME IInv, NEW p \in Planners, NEW c \in Calls,
           call' = [call EXCEPT ![p] = c], UNCHANGED <<config, proxyVars>>, SlotInv',
           c.pc # "sent" \/ c.role # config.human,
           \A i \in Open : ~Waits(call[p], i)
    PROVE  IInv'
<1>1. ProxyInv'
  BY DEF IInv, ProxyInv, proxyVars, Arrived, PendingIsStored, OutcomeAgrees
<1>2. Len(reqs) =< Len(reqs') /\ config' = config
  BY LenProperties DEF IInv, ProxyInv, proxyVars
<1>3. c.pc = "sent" /\ c.role = config.human => c.req \in Arrived'
  OBVIOUS
<1>4. Open' = Open
  BY DEF Open, Arrived, proxyVars
<1> QED
  BY <1>1, <1>2, <1>3, <1>4, OneCall

LEMMA InitIInv == Init => IInv
<1> SUFFICES ASSUME Init PROVE IInv
  OBVIOUS
<1>1. ProxyInv
  BY EmptySeq, LenProperties
     DEF Init, ProxyInit, ProxyInv, Arrived, PendingIsStored, OutcomeAgrees
<1>2. \A p \in Planners : call[p] = Blank("idle", "primary")
  BY DEF Init
<1>3. Blank("idle", "primary") \in Calls
      /\ Blank("idle", "primary").pc = "idle"
  BY DEF Blank, Calls, Holding, Counted, Roles
<1>4. call \in [Planners -> Calls]
  BY <1>3 DEF Init
<1>5. SentInv /\ OpenInv
  <2>1. Arrived = {}
    BY LenProperties, EmptySeq DEF Init, ProxyInit, Arrived
  <2> QED  BY <1>2, <1>3, <2>1 DEF SentInv, AtProxy, OpenInv, Open
<1>6. Held = {} /\ Counts = {}
  BY <1>2, <1>3 DEF Held, Counts, Holding, Counted
<1>7. SlotInv
  BY <1>6, ProviderAssumption, FS_EmptySet DEF Init, SlotInv
<1> QED
  BY <1>1, <1>4, <1>5, <1>7 DEF Init, IInv

\* A failed attempt, whatever has become of its request.
LEMMA FailStep ==
    ASSUME IInv, NEW p \in Planners, NEW kind \in Kinds, call[p].pc \in {"attempt", "sent"},
           Fail(p, kind), UNCHANGED <<config, permits, active>>,
           ProxyInv', Len(reqs) =< Len(reqs'),
           \A i \in Open' : i \in Open /\ ~Waits(call[p], i)
    PROVE  IInv'
<1> DEFINE c == Failed(call[p], kind)
<1>1. call[p] \in Calls /\ config \in Configs
  BY DEF IInv
<1>2. c \in Calls /\ c.pc \in {"uncount", "backoff"}
  BY <1>1, FailedCall
<1>3. call' = [call EXCEPT ![p] = c]
  BY DEF Fail
<1> HIDE DEF c
<1>4. SlotInv'
  BY <1>2, <1>3, SlotStep DEF IInv, Holding, Counted
<1> QED
  BY <1>2, <1>3, <1>4, OneCall

\* Only the label of a call changes.
LEMMA GotoStep ==
    ASSUME IInv, NEW p \in Planners, NEW l \in {"idle", "queue", "count", "release", "attempt"},
           Goto(p, l), UNCHANGED <<config, proxyVars>>,
           l = "attempt" <=> call[p].pc = "backoff",
           \/ (call[p].pc \in Holding <=> l \in Holding) /\ permits' = permits
           \/ call[p].pc \notin Holding /\ l \in Holding /\ permits > 0 /\ permits' = permits - 1
           \/ call[p].pc \in Holding /\ l \notin Holding /\ permits' = permits + 1,
           \/ (call[p].pc \in Counted <=> l \in Counted) /\ active' = active
           \/ call[p].pc \notin Counted /\ l \in Counted /\ active' = active + 1
           \/ call[p].pc \in Counted /\ l \notin Counted /\ active' = active - 1,
           call[p].pc \notin {"attempt", "sent"}
    PROVE  IInv'
<1> DEFINE c == [call[p] EXCEPT !.pc = l]
<1>1. call[p] \in Calls
  BY DEF IInv
<1>2. /\ c \in Calls /\ c.pc = l /\ c.role = call[p].role
  BY <1>1 DEF Calls, Holding, Counted
<1>3. call' = [call EXCEPT ![p] = c]
  BY DEF Goto
<1> HIDE DEF c
<1>5. SlotInv'
  BY <1>2, <1>3, SlotStep DEF IInv
<1>6. \A i \in Open : ~Waits(call[p], i)
  BY DEF Waits
<1> QED
  BY <1>2, <1>3, <1>5, <1>6, OneCallAlone

LEMMA NextIInv == IInv /\ [Next]_vars => IInv'
<1> SUFFICES ASSUME IInv, [Next]_vars PROVE IInv'
  OBVIOUS
<1> USE DEF Holding, Counted
<1>0. /\ \A q \in Planners : call[q] \in Calls /\ AtProxy(call[q])
      /\ config \in Configs /\ ProxyInv /\ Len(reqs) \in Nat
  BY LenProperties DEF IInv, SentInv, ProxyInv
<1>1. CASE UNCHANGED vars
  BY <1>1 DEF IInv, vars, proxyVars, ProxyInv, PendingIsStored, OutcomeAgrees, Arrived,
              SlotInv, Held, Counts, SentInv, AtProxy, OpenInv, Open, Waits
<1>2. CASE ProxyStep
  <2>1. ProxyInv' /\ Arrived \subseteq Arrived' /\ Open' \subseteq Open
    <3>1. CASE Operator
      <4>1. PICK i \in Arrived : Respond(i) \/ Cancel(i)
        BY <3>1 DEF Operator
      <4> QED  BY <4>1, <1>0, OperatorStep DEF Respond, Cancel, Arrived
    <3>2. CASE ServerThreads
      <4>1. PICK i \in Arrived : ServerThread(i)
        BY <3>2 DEF ServerThreads
      <4> QED
        BY <4>1, <1>0, ServerStep DEF ServerThread, Woken, WaitExpires, Late, Arrived
    <3>3. CASE Add("stranger")
      <4>1. ProxyInv' /\ Open' = Open /\ reqs' = Append(reqs, NewRequest("stranger"))
        BY <3>3, <1>0, AddStep DEF Add
      <4>2. Arrived = 1..Len(reqs) /\ Arrived' = 1..Len(reqs') /\ Len(reqs') \in Nat
        BY <4>1, <1>0, LenProperties DEF ProxyInv, Arrived
      <4>3. Len(reqs') = Len(reqs) + 1
        BY <3>3, <1>0, AppendProperties DEF ProxyInv, Add, NewRequest, Requests
      <4> QED  BY <4>1, <4>2, <4>3, <1>0
    <3> QED  BY <1>2, <3>1, <3>2, <3>3 DEF ProxyStep
  <2>2. UNCHANGED <<config, permits, active, call>>
    BY <1>2 DEF ProxyStep
  <2>3. SlotInv'
    BY <2>2 DEF IInv, SlotInv, Held, Counts
  <2>4. SentInv'
    BY <2>1, <2>2 DEF IInv, SentInv, AtProxy
  <2>5. OpenInv'
    BY <2>1, <2>2 DEF IInv, OpenInv, Waits
  <2> QED  BY <2>1, <2>2, <2>3, <2>4, <2>5 DEF IInv
<1>3. ASSUME NEW p \in Planners, Decide(p) PROVE IInv'
  BY <1>3, GotoStep DEF Decide
<1>4. ASSUME NEW p \in Planners, Acquire(p) PROVE IInv'
  BY <1>4, GotoStep DEF Acquire
<1>5. ASSUME NEW p \in Planners, QueueTimesOut(p) PROVE IInv'
  BY <1>5, GotoStep DEF QueueTimesOut
<1>6. ASSUME NEW p \in Planners, Count(p) PROVE IInv'
  <2> DEFINE r == IF config.fallback THEN call[p].preferred ELSE "primary"
             c == [call[p] EXCEPT !.pc = "attempt", !.role = r, !.attempt = 1, !.tried = {r}]
  <2>1. r \in Roles
    BY <1>0 DEF Calls, Roles
  <2>2. call' = [call EXCEPT ![p] = c]
    BY <1>6 DEF Count
  <2> HIDE DEF r
  <2>3. /\ c \in Calls /\ c.pc = "attempt" /\ c.role = r /\ c.tried = {r}
    BY <1>0, <2>1 DEF Calls
  <2> HIDE DEF c
  <2>5. SlotInv'
    BY <1>6, <2>2, <2>3, SlotStep DEF IInv, Count
  <2>6. \A i \in Open : ~Waits(call[p], i)
    BY <1>6 DEF Waits, Count
  <2> QED  BY <1>6, <2>2, <2>3, <2>5, <2>6, OneCallAlone DEF Count
<1>7. ASSUME NEW p \in Planners, Post(p) PROVE IInv'
  <2>1. CASE call[p].role = config.human
    <3> DEFINE c == [call[p] EXCEPT !.pc = "sent", !.req = Len(reqs')]
    <3>1. call' = [call EXCEPT ![p] = c] /\ Add("open")
      BY <1>7, <2>1 DEF Post
    <3>2. ProxyInv' /\ Len(reqs') \in Nat /\ Open' = Open \cup {Len(reqs')}
      BY <1>0, <3>1, AddStep
    <3>3. Len(reqs') = Len(reqs) + 1 /\ Arrived' = 1..Len(reqs')
      BY <3>1, <3>2, <1>0, AppendProperties, LenProperties
         DEF ProxyInv, Add, NewRequest, Requests, Arrived
    <3>4. /\ c \in Calls /\ c.pc = "sent" /\ c.req = Len(reqs') /\ c.role = call[p].role
      BY <1>0, <3>2 DEF Calls
    <3> HIDE DEF c
    <3>5. c.req \in Arrived'
      BY <3>2, <3>3, <3>4
    <3>6. SlotInv'
      BY <1>7, <3>1, <3>4, SlotStep DEF IInv, Post
    <3>7. config' = config /\ Len(reqs) =< Len(reqs')
      BY <1>0, <1>7, <3>3 DEF Post
    <3>8. \A i \in Open' : Waits(c, i) \/ (i \in Open /\ ~Waits(call[p], i))
      BY <1>7, <2>1, <3>2, <3>4 DEF Waits, Post
    <3>9. c \in Calls /\ ProxyInv'
      BY <3>2, <3>4
    <3> QED  BY <3>1, <3>5, <3>6, <3>7, <3>8, <3>9, OneCall
  <2>2. CASE call[p].role # config.human
    <3> DEFINE c == [call[p] EXCEPT !.pc = "sent"]
    <3>1. call' = [call EXCEPT ![p] = c]
      BY <1>7, <2>2 DEF Post, Goto
    <3>2. /\ c \in Calls /\ c.pc = "sent" /\ c.role = call[p].role
      BY <1>0 DEF Calls
    <3> HIDE DEF c
    <3>4. SlotInv'
      BY <1>7, <3>1, <3>2, SlotStep DEF IInv, Post
    <3>5. \A i \in Open : ~Waits(call[p], i)
      BY <2>2 DEF Waits
    <3> QED  BY <1>7, <2>2, <3>1, <3>2, <3>4, <3>5, OneCallAlone DEF Post
  <2> QED  BY <2>1, <2>2
<1>8. ASSUME NEW p \in Planners, Refused(p) PROVE IInv'
  <2>1. ProxyInv' /\ Len(reqs) =< Len(reqs')
    BY <1>0, <1>8 DEF Refused, proxyVars, ProxyInv, Arrived, PendingIsStored, OutcomeAgrees
  <2>2. \A i \in Open' : i \in Open /\ ~Waits(call[p], i)
    BY <1>8 DEF Refused, proxyVars, Open, Arrived, Waits
  <2> QED  BY <1>8, <2>1, <2>2, FailStep DEF Refused, Kinds
<1>9. ASSUME NEW p \in Planners, Succeed(p), call[p].pc = "sent",
             UNCHANGED <<proxyVars, config, permits, active>>,
             \A i \in Open : ~Waits(call[p], i)
      PROVE  IInv'
  <2> DEFINE c == Over(call[p].role)
  <2>1. c \in Calls /\ c.pc = "uncount"
    BY <1>0, OverCall DEF Calls
  <2>2. call' = [call EXCEPT ![p] = c]
    BY <1>9 DEF Succeed
  <2> HIDE DEF c
  <2>3. SlotInv'
    BY <1>9, <2>1, <2>2, SlotStep DEF IInv
  <2> QED  BY <1>9, <2>1, <2>2, <2>3, OneCallAlone
<1>10. ASSUME NEW p \in Planners, NEW kind \in Kinds, Fail(p, kind), call[p].pc = "sent",
              UNCHANGED <<proxyVars, config, permits, active>>,
              \A i \in Open : ~Waits(call[p], i)
       PROVE  IInv'
  <2>1. ProxyInv' /\ Len(reqs) =< Len(reqs')
    BY <1>0, <1>10 DEF proxyVars, ProxyInv, Arrived, PendingIsStored, OutcomeAgrees
  <2>2. Open' = Open
    BY <1>10 DEF proxyVars, Open, Arrived
  <2> QED  BY <1>10, <2>1, <2>2, FailStep
<1>11. ASSUME NEW p \in Planners, OtherAnswers(p) PROVE IInv'
  <2>1. \A i \in Open : ~Waits(call[p], i)
    BY <1>11 DEF OtherAnswers, Waits
  <2> QED  BY <1>9, <1>10, <1>11, <2>1 DEF OtherAnswers, Kinds
<1>12. ASSUME NEW p \in Planners, HumanAnswers(p) PROVE IInv'
  <2>1. \A i \in Open : ~Waits(call[p], i)
    BY <1>12 DEF HumanAnswers, Waits, Open
  <2> QED  BY <1>9, <1>10, <1>12, <2>1 DEF HumanAnswers, Kinds
<1>13. ASSUME NEW p \in Planners, TimesOut(p) PROVE IInv'
  <2>1. call[p].req \in Arrived /\ HangUp(call[p].req)
    BY <1>0, <1>13 DEF TimesOut, AtProxy
  <2>2. ProxyInv' /\ Open' \subseteq Open \ {call[p].req}
    BY <1>0, <2>1, HangUpStep
  <2>3. Len(reqs) =< Len(reqs')
    <3>1. reqs[call[p].req] \in Requests
      BY <1>0, <2>1, RequestType
    <3>2. [reqs[call[p].req] EXCEPT !.conn = "hungup"] \in Requests
      BY <3>1 DEF Requests
    <3> QED
      BY <1>0, <2>1, <3>2, ExceptSeq, LenProperties DEF HangUp, ProxyInv, Arrived
  <2>4. \A i \in Open' : i \in Open /\ ~Waits(call[p], i)
    BY <2>2 DEF Waits
  <2> QED  BY <1>13, <2>2, <2>3, <2>4, FailStep DEF TimesOut, Kinds
<1>14. ASSUME NEW p \in Planners, Backoff(p) PROVE IInv'
  BY <1>14, GotoStep DEF Backoff
<1>15. ASSUME NEW p \in Planners, Uncount(p) PROVE IInv'
  BY <1>15, GotoStep DEF Uncount
<1>16. ASSUME NEW p \in Planners, Release(p) PROVE IInv'
  BY <1>16, GotoStep DEF Release
<1> QED
  BY <1>1, <1>2, <1>3, <1>4, <1>5, <1>6, <1>7, <1>8, <1>11, <1>12, <1>13, <1>14, <1>15, <1>16
     DEF Next, Proceed

LEMMA InvariantIInv == Spec => []IInv
  BY InitIInv, NextIInv, PTL DEF Spec

-----------------------------------------------------------------------------
(* The theorems. *)

\* Different open connections belong to different planners that hold a slot.
LEMMA OpenAreHeld ==
    ASSUME IInv
    PROVE  Cardinality(Open) \in Nat /\ Cardinality(Open) =< Cardinality(Held)
<1> DEFINE who == [i \in Open |-> CHOOSE p \in Planners : Waits(call[p], i)]
<1>1. \A i \in Open : who[i] \in Planners /\ Waits(call[who[i]], i)
  BY DEF IInv, OpenInv
<1> HIDE DEF who
<1>2. \A i \in Open : who[i] \in Held /\ call[who[i]].req = i
  BY <1>1 DEF Waits, Held, Holding, Counted
<1>3. who \in [Open -> Held]
  BY <1>2 DEF who
<1>4. \A i, j \in Open : who[i] = who[j] => i = j
  BY <1>2
<1>5. who \in Injection(Open, Held)
  BY <1>3, <1>4 DEF Injection, IsInjective
<1> QED
  BY <1>5, HeldFinite, FS_Injection, FS_CardinalityType

\* No slot of the limiter is lost or given twice, and there are never more calls
\* counted or connections open than slots (ProviderConcurrencyLimiter).
THEOREM SlotsCorrect == Spec => []SlotsConserved
<1>1. ASSUME IInv PROVE SlotsConserved
  <2>1. Counts \subseteq Held
    BY DEF Counts, Held, Holding
  <2>2. Cardinality(Counts) =< Cardinality(Held)
    BY <2>1, HeldFinite, FS_Subset
  <2>3. /\ permits \in Nat /\ permits + Cardinality(Held) = Limit
        /\ active = Cardinality(Counts)
    BY <1>1 DEF IInv, SlotInv
  <2>4. Cardinality(Held) =< Limit
    BY <2>3, HeldFinite
  <2>5. active =< Limit /\ Cardinality(Open) =< Limit
    BY <1>1, <2>2, <2>3, <2>4, HeldFinite, OpenAreHeld, ProviderAssumption
  <2> QED
    BY <2>3, <2>5 DEF SlotsConserved, Held, Open
<1> QED
  BY <1>1, InvariantIInv, PTL

\* The proxy does not forget a request that waits (RequestStore._prune_locked).
THEOREM PendingCorrect == Spec => []PendingIsStored
<1>1. IInv => PendingIsStored
  BY DEF IInv, ProxyInv
<1> QED
  BY <1>1, InvariantIInv, PTL

\* The client is told what became of its request (_handle_completion).
THEOREM OutcomeCorrect == Spec => []OutcomeAgrees
<1>1. IInv => OutcomeAgrees
  BY DEF IInv, ProxyInv
<1> QED
  BY <1>1, InvariantIInv, PTL

=============================================================================
