---------------------------- MODULE ProviderCalls ---------------------------
(***************************************************************************)
(* The calls of planners to their model provider (agent/backends/planner.py) *)
(* in a batch: all planners share one ProviderConcurrencyLimiter, and each    *)
(* call makes up to a number of requests, of which a failed one may be        *)
(* repeated or sent to the other endpoint.  One of the endpoints may be the   *)
(* manual proxy, where a human answers (ManualProxy).                         *)
(***************************************************************************)
EXTENDS ManualProxy

CONSTANTS
    Planners,       \* threads that decide, each with a backend of its own
    Limit,          \* ProviderConcurrencyLimiter.limit
    Configs,        \* configurations a batch may have: attempts is max_attempts,
                    \* fallback TRUE if there is a fallback endpoint, human the
                    \* endpoint that is the manual proxy, or "nobody"
    MaxDecisions,   \* bound: decisions begun in a behaviour
    MaxRequests,    \* bound: requests that reach the proxy in a behaviour
    MaxStrangers    \* bound: those of them that other clients make

ASSUME ProviderAssumption ==
    /\ IsFiniteSet(Planners) /\ Limit \in Nat \ {0}
    /\ Configs \subseteq [attempts : Nat \ {0}, fallback : BOOLEAN,
                           human : {"nobody", "primary", "fallback"}]
    /\ MaxDecisions \in Nat /\ MaxRequests \in Nat /\ MaxStrangers \in Nat

VARIABLES
    config,     \* the configuration of the batch
    permits,    \* value of the limiter's semaphore
    active,     \* _active
    call,       \* each planner: the progress of its call of decide
    decisions   \* decisions begun (bound)

vars == <<proxyVars, config, permits, active, call, decisions>>

Roles == {"primary", "fallback"}
Other(r) == IF r = "primary" THEN "fallback" ELSE "primary"

\* preferred: _preferred_provider_role; role, attempt, tried: locals of
\* _request_with_retry; req: the request at the proxy, or 0; refused: the
\* endpoints that answered an attempt with an account failure.
Blank(pc, preferred) ==
    [pc |-> pc, preferred |-> preferred, role |-> "primary",
     attempt |-> 0, tried |-> {}, req |-> 0, refused |-> {}]

Init ==
    /\ ProxyInit
    /\ config \in Configs
    /\ permits = Limit
    /\ active = 0
    /\ call = [p \in Planners |-> Blank("idle", "primary")]
    /\ decisions = 0

Goto(p, l) == call' = [call EXCEPT ![p] = [@ EXCEPT !.pc = l]]

-----------------------------------------------------------------------------
(* ProviderConcurrencyLimiter.                                               *)

Decide(p) ==
    /\ call[p].pc = "idle"
    /\ decisions < MaxDecisions /\ decisions' = decisions + 1
    /\ Goto(p, "queue")
    /\ UNCHANGED <<proxyVars, config, permits, active>>

Acquire(p) ==
    /\ call[p].pc = "queue" /\ permits > 0
    /\ permits' = permits - 1
    /\ Goto(p, "count")
    /\ UNCHANGED <<proxyVars, config, active, decisions>>

\* Mutant: the slot that was not acquired is given back.
QueueTimesOutReleasing(p) ==
    /\ call[p].pc = "queue" /\ permits = 0
    /\ Goto(p, "release")
    /\ UNCHANGED <<proxyVars, config, permits, active, decisions>>

\* ProviderQueueTimeoutError ends the call; the semaphore looks once more
\* before it gives up.
QueueTimesOut(p) ==
    /\ call[p].pc = "queue" /\ permits = 0
    /\ Goto(p, "idle")
    /\ UNCHANGED <<proxyVars, config, permits, active, decisions>>

\* _acquire counts the call; decide goes on to the first attempt, at the
\* endpoint that answered last.
Count(p) ==
    /\ call[p].pc = "count"
    /\ active' = active + 1
    /\ LET r == IF config.fallback THEN call[p].preferred ELSE "primary" IN
       call' = [call EXCEPT ![p] = [@ EXCEPT !.pc = "attempt", !.role = r,
                                           !.attempt = 1, !.tried = {r}]]
    /\ UNCHANGED <<proxyVars, config, permits, decisions>>

\* _release, in two steps.
Uncount(p) ==
    /\ call[p].pc = "uncount"
    /\ active' = active - 1
    /\ Goto(p, "release")
    /\ UNCHANGED <<proxyVars, config, permits, decisions>>

Release(p) ==
    /\ call[p].pc = "release"
    /\ permits' = permits + 1
    /\ Goto(p, "idle")
    /\ UNCHANGED <<proxyVars, config, active, decisions>>

-----------------------------------------------------------------------------
(* _request_with_retry.  Failures are told apart by what follows from them:   *)
(* "busy" is transient and worth the other endpoint, "error" transient only,  *)
(* "denied" an account failure, and "fatal" ends the call.                    *)

\* The call is over; its locals are gone.
Over(role) == Blank("uncount", role)

Succeed(p) == call' = [call EXCEPT ![p] = Over(call[p].role)]

\* The endpoint of the next attempt.
NextRole(c, kind) ==
    IF /\ config.fallback /\ kind \in {"busy", "denied"}
       /\ kind = "denied" => Other(c.role) \notin c.tried
    THEN Other(c.role) ELSE c.role

Retryable(c, kind) == kind \in {"busy", "error"} \/ NextRole(c, kind) # c.role

\* Mutant: an attempt that is repeated at once is not counted.
FailedUncounted(c, kind) ==
    LET r == NextRole(c, kind) IN
    IF c.attempt >= config.attempts \/ ~Retryable(c, kind)
    THEN Over(c.preferred)
    ELSE [c EXCEPT !.pc = "backoff", !.role = r, !.tried = @ \cup {r}, !.req = 0]

\* What a failed attempt makes of the call.
Failed(c, kind) ==
    LET r == NextRole(c, kind) IN
    IF c.attempt >= config.attempts \/ ~Retryable(c, kind)
    THEN Over(c.preferred)
    ELSE [c EXCEPT !.pc = "backoff", !.role = r, !.attempt = c.attempt + 1,
                   !.tried = c.tried \cup {r}, !.req = 0,
                   !.refused = IF kind = "denied" THEN c.refused \cup {c.role} ELSE c.refused]

Fail(p, kind) == call' = [call EXCEPT ![p] = Failed(call[p], kind)]

\* The transport posts the request; at the proxy it becomes a pending one.
Post(p) ==
    /\ call[p].pc = "attempt"
    /\ IF call[p].role = config.human
       THEN /\ Len(reqs) < MaxRequests /\ Add("open")
            /\ call' = [call EXCEPT ![p] = [@ EXCEPT !.pc = "sent", !.req = Len(reqs')]]
       ELSE /\ Goto(p, "sent")
            /\ UNCHANGED proxyVars
    /\ UNCHANGED <<config, permits, active, decisions>>

\* The proxy does not run, or not any more: URLError.
Refused(p) ==
    /\ call[p].pc = "attempt" /\ call[p].role = config.human
    /\ Fail(p, "busy")
    /\ UNCHANGED <<proxyVars, config, permits, active, decisions>>

\* Any other provider answers, fails or is too late.
OtherAnswers(p) ==
    /\ call[p].pc = "sent" /\ call[p].role # config.human
    /\ Succeed(p) \/ \E kind \in {"busy", "error", "denied", "fatal"} : Fail(p, kind)
    /\ UNCHANGED <<proxyVars, config, permits, active, decisions>>

\* The proxy's answer: 200 with a usable message or without one, 503, or the
\* end of the connection.
HumanAnswers(p) ==
    /\ call[p].pc = "sent" /\ call[p].role = config.human
    /\ \/ reqs[call[p].req].conn = "ok" /\ Succeed(p)
       \/ reqs[call[p].req].conn \in {"ok", "unavailable", "dropped"} /\ Fail(p, "busy")
    /\ UNCHANGED <<proxyVars, config, permits, active, decisions>>

\* Mutant: the connection stays open when the client has given up.
TimesOutOpen(p) ==
    /\ call[p].pc = "sent" /\ call[p].role = config.human
    /\ reqs[call[p].req].conn = "open"
    /\ Fail(p, "busy")
    /\ UNCHANGED <<proxyVars, config, permits, active, decisions>>

\* timeout_s passes before the human has answered.
TimesOut(p) ==
    /\ call[p].pc = "sent" /\ call[p].role = config.human
    /\ HangUp(call[p].req)
    /\ Fail(p, "busy")
    /\ UNCHANGED <<config, permits, active, decisions>>

Backoff(p) ==
    /\ call[p].pc = "backoff"
    /\ Goto(p, "attempt")
    /\ UNCHANGED <<proxyVars, config, permits, active, decisions>>

-----------------------------------------------------------------------------

Proceed(p) ==
    \/ Acquire(p) \/ QueueTimesOut(p) \/ Count(p) \/ Post(p) \/ Refused(p) \/ OtherAnswers(p)
    \/ HumanAnswers(p) \/ TimesOut(p) \/ Backoff(p) \/ Uncount(p) \/ Release(p)

ProxyStep ==
    /\ \/ Operator \/ ServerThreads
       \/ /\ config.human # "nobody" /\ Len(reqs) < MaxRequests
          /\ Cardinality({i \in Arrived : reqs[i].conn = "stranger"}) < MaxStrangers
          /\ Add("stranger")
    /\ UNCHANGED <<config, permits, active, call, decisions>>

Next == ProxyStep \/ \E p \in Planners : Decide(p) \/ Proceed(p)

Spec == Init /\ [][Next]_vars

\* Threads are scheduled, and a client waits no longer than its timeout; nothing
\* is expected of the proxy or its operator.
FairSpec == Spec /\ \A p \in Planners : WF_vars(Proceed(p))

-----------------------------------------------------------------------------
(* Properties *)

Counted == {"attempt", "sent", "backoff", "uncount"}
Holding == Counted \cup {"count", "release"}

TypeOK ==
    /\ ProxyTypeOK
    /\ config \in Configs
    /\ permits \in 0..Limit
    /\ active \in Nat
    /\ call \in [Planners -> [pc : Holding \cup {"idle", "queue"},
                              preferred : Roles, role : Roles,
                              attempt : 0..config.attempts, tried : SUBSET Roles,
                              req : 0..Len(reqs), refused : SUBSET Roles]]
    /\ decisions \in 0..MaxDecisions

\* No slot of the limiter is lost or given twice, whatever becomes of the calls;
\* the metrics never show more active calls than there are slots, and the
\* provider never sees more open connections.
SlotsConserved ==
    /\ permits + Cardinality({p \in Planners : call[p].pc \in Holding}) = Limit
    /\ active <= Limit
    /\ Cardinality({i \in Arrived : reqs[i].conn = "open"}) <= Limit

\* Every call of decide comes to an end, without any help from the operator.
EveryDecisionEnds ==
    \A p \in Planners : call[p].pc = "queue" ~> call[p].pc = "idle"

\* "Try the alternate endpoint once, but do not cycle back to an endpoint that
\* already returned the same class of account failure" (_request_with_retry).
\* It does not hold: only an account failure looks at what was tried, so a
\* transient failure of the alternate endpoint leads back.
NeverBackToRefused ==
    \A p \in Planners : call[p].pc = "sent" => call[p].role \notin call[p].refused

=============================================================================
