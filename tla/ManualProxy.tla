----------------------------- MODULE ManualProxy ----------------------------
(***************************************************************************)
(* The human-driven provider (tools/manual_vlm_proxy.py): chat completions   *)
(* wait in RequestStore until an operator answers or cancels them from the   *)
(* browser, or the decision timeout passes.  Every request has a server      *)
(* thread of its own, which stays when the client has hung up.  A request is *)
(* a position in "reqs".                                                     *)
(***************************************************************************)
EXTENDS Integers, Sequences, FiniteSets

CONSTANTS
    HistoryLimit,   \* requests kept before answered ones are forgotten
    Timed           \* TRUE if the server has a decision timeout

ASSUME ProxyAssumption ==
    /\ HistoryLimit \in Nat \ {0}
    /\ Timed \in BOOLEAN

VARIABLES
    reqs,    \* the requests received: status, server thread, connection
    stored   \* the requests in _requests, in the order of their arrival

proxyVars == <<reqs, stored>>

Arrived == DOMAIN reqs

ProxyInit ==
    /\ reqs = <<>>
    /\ stored = {}

\* status follows the event and response_error of PendingRequest; conn is the
\* connection as its client sees it, or "stranger" for a client of whom nothing
\* else is known.
NewRequest(conn) == [status |-> "pending", thread |-> "waiting", conn |-> conn]

-----------------------------------------------------------------------------
(* RequestStore, whose methods hold its lock throughout. *)

\* Mutant: the oldest requests are forgotten, answered or not.
KeptOldest(rs, ids) ==
    {i \in ids : Cardinality({j \in ids : j >= i}) <= HistoryLimit}

\* _prune_locked: the oldest answered requests go until the limit is met or
\* only pending ones are left.
Kept(rs, ids) ==
    LET answered == {i \in ids : rs[i].status # "pending"}
        excess == Cardinality(ids) - HistoryLimit
    IN ids \ {i \in answered : Cardinality({j \in answered : j <= i}) <= excess}

\* add
Add(conn) ==
    LET n == Len(reqs) + 1 IN
    /\ reqs' = Append(reqs, NewRequest(conn))
    /\ stored' = Kept(reqs', stored \cup {n})

\* Mutant: cancel does not look whether the request was answered.
CancelUnchecked(i) ==
    /\ i \in stored
    /\ reqs' = [reqs EXCEPT ![i] = [@ EXCEPT !.status = "cancelled"]]
    /\ UNCHANGED stored

\* respond and cancel, by an operator: an unknown request is answered with 404,
\* an answered one with 409, and nothing changes.
Respond(i) ==
    /\ i \in stored /\ reqs[i].status = "pending"
    /\ reqs' = [reqs EXCEPT ![i] = [@ EXCEPT !.status = "responded"]]
    /\ UNCHANGED stored

Cancel(i) ==
    /\ i \in stored /\ reqs[i].status = "pending"
    /\ reqs' = [reqs EXCEPT ![i] = [@ EXCEPT !.status = "cancelled"]]
    /\ UNCHANGED stored

-----------------------------------------------------------------------------
(* _handle_completion: the thread of a request. *)

\* What the client gets, which is nothing if it has hung up.
Sent(conn, status) ==
    IF conn # "open" THEN conn ELSE IF status = "responded" THEN "ok" ELSE "unavailable"

\* Woken by the operator, the thread sends what it finds.
Woken(i) ==
    /\ reqs[i].thread = "waiting" /\ reqs[i].status # "pending"
    /\ reqs' = [reqs EXCEPT ![i] = [@ EXCEPT !.thread = "ended",
                                           !.conn = Sent(reqs[i].conn, reqs[i].status)]]
    /\ UNCHANGED stored

\* event.wait returns False; the operator may still be faster than the cancel.
WaitExpires(i) ==
    /\ Timed
    /\ reqs[i].thread = "waiting" /\ reqs[i].status = "pending"
    /\ reqs' = [reqs EXCEPT ![i] = [@ EXCEPT !.thread = "late"]]
    /\ UNCHANGED stored

\* The thread cancels its own request.  Answered meanwhile, it sends the answer
\* (ValueError is caught); answered and forgotten meanwhile, KeyError ends the
\* thread and the connection is closed without an answer.
Late(i) ==
    /\ reqs[i].thread = "late"
    /\ LET status == IF reqs[i].status = "pending" THEN "cancelled" ELSE reqs[i].status
           conn == IF i \in stored THEN Sent(reqs[i].conn, status)
                   ELSE IF reqs[i].conn = "open" THEN "dropped" ELSE reqs[i].conn
       IN reqs' = [reqs EXCEPT ![i] =
                     [@ EXCEPT !.thread = "ended", !.status = status, !.conn = conn]]
    /\ UNCHANGED stored

\* The client's own timeout: it closes the connection, of which the server
\* learns nothing.
HangUp(i) ==
    /\ reqs[i].conn = "open"
    /\ reqs' = [reqs EXCEPT ![i] = [@ EXCEPT !.conn = "hungup"]]
    /\ UNCHANGED stored

-----------------------------------------------------------------------------

Operator == \E i \in Arrived : Respond(i) \/ Cancel(i)
ServerThread(i) == Woken(i) \/ WaitExpires(i) \/ Late(i)
ServerThreads == \E i \in Arrived : ServerThread(i)

ProxyTypeOK ==
    /\ reqs \in Seq([status : {"pending", "responded", "cancelled"},
                     thread : {"waiting", "late", "ended"},
                     conn : {"open", "ok", "unavailable", "dropped", "hungup", "stranger"}])
    /\ stored \subseteq Arrived

\* A request that nobody has answered is never forgotten, however many arrive:
\* the operator finds it, and its thread can cancel it.
PendingIsStored ==
    \A i \in Arrived : reqs[i].status = "pending" => i \in stored

\* What the client got is what became of the request: a timeout that races the
\* operator's answer gives one of the two to the client and to the history.
OutcomeAgrees ==
    \A i \in Arrived :
        /\ reqs[i].conn = "ok" => reqs[i].status = "responded"
        /\ reqs[i].conn = "unavailable" => reqs[i].status = "cancelled"

=============================================================================
