------------------------- MODULE EpisodeBatch_proofs -------------------------
(***************************************************************************)
(* Proofs about EpisodeBatch for any number of episodes, pool threads,      *)
(* turns, recovery turns and startup attempts: late results are never        *)
(* committed, close_env is called once, and no environment is left open.     *)
(***************************************************************************)
EXTENDS EpisodeBatch, TLAPS

Batches == [cancelled : BOOLEAN, pc : {"running", "listing", "calling"},
            todo : SUBSET Episodes, told : SUBSET Episodes]
Places == {"queued", "factory", "check", "start", "reset", "giveup", "loop", "step", "turn",
           "commit", "flags", "result", "close", "closing", "settled", "cancelled"}
Outcomes == {"none", "success", "need_human", "fail"}
Runners == [cancel : BOOLEAN, failed : BOOLEAN, terminated : BOOLEAN,
            truncated : BOOLEAN, waiting : BOOLEAN, started : BOOLEAN,
            won : BOOLEAN, turns : 0..BaseTurns + RecoveryTurns,
            limit : BaseTurns..BaseTurns + RecoveryTurns, mine : Envs \cup {NoEnv}]
Resets == [pc : {"none", "create", "reset", "retry", "again", "finish",
                 "raise", "result", "error", "done", "dropped"},
           attempt : Envs, abandoned : BOOLEAN]
Turns == [pc : {"none", "act", "env", "finish", "raise", "result", "error", "done"},
          kind : {"work", "win", "lose", "ask"}, abandoned : BOOLEAN, late : BOOLEAN]

RemoteTyped ==
    /\ handle \in [Episodes -> Envs \cup {NoEnv}]
    /\ opened \in [Episodes -> SUBSET Envs] /\ closing \in [Episodes -> SUBSET Envs]
    /\ unclosed \in [Episodes -> SUBSET Envs]
    /\ closeCalls \in [Episodes -> [Envs -> Nat]]

\* The pool thread has not begun the reset, runs the episode, or is giving it up.
Early == {"queued", "factory", "check", "start", "cancelled"}
Midway == {"reset", "loop", "step", "turn", "commit", "flags"}
Ending == {"giveup", "result", "close", "closing", "settled"}

\* The reset thread is at work.
Resetting == {"create", "reset", "retry", "again", "finish", "raise"}

\* How a pool thread at p, whose runner is r, agrees with its reset thread x and
\* its turn thread y.
PlaceOf(p, r, x, y) ==
    /\ p \in Early => x.pc = "none"
    /\ p \in Midway => x.pc # "none"
    /\ x.pc = "none" => x = NoReset /\ y = NoTurn
    /\ x.pc \in Resetting /\ ~x.abandoned => p = "reset"
    /\ x.abandoned \/ y.abandoned => p \in Ending
    /\ y.late => y.pc \in {"act", "raise", "error", "done"} /\ p \in Ending \cup {"turn"}
    /\ y.late /\ y.pc = "act" => r.cancel
    /\ p = "commit" => y.pc = "result"
    /\ p \in {"step", "turn", "commit"} => r.turns < r.limit

\* The handle is that of the present attempt, and while it is kept its
\* environment has not been closed.
HandledOf(x, h, calls) ==
    /\ h \in {NoEnv, x.attempt}
    /\ x.pc \in {"none", "create"} => h = NoEnv /\ calls[x.attempt] = 0
    /\ \A i \in Envs : i > x.attempt => calls[i] = 0
    /\ x.pc # "again" => calls[x.attempt] <= 1 /\ (h # NoEnv => calls[x.attempt] = 0)
    /\ x.pc = "again" => x.attempt < Attempts

\* An environment that is open has its handle kept, is being closed or has
\* failed to close; a handle outlives the pool thread with a late reset only.
TrackedOf(p, x, h, open, sent, left) ==
    /\ open \subseteq left \cup sent \cup {h}
    /\ x.pc = "again" => open \subseteq left \cup sent
    /\ x.pc = "done" => h = NoEnv
    /\ x.pc \in {"result", "error"} /\ p \in {"closing", "settled"} => h = NoEnv

Place(e) == PlaceOf(pc[e], runner[e], reset[e], turn[e])
Handled(e) == HandledOf(reset[e], handle[e], closeCalls[e])
Tracked(e) == TrackedOf(pc[e], reset[e], handle[e], opened[e], closing[e], unclosed[e])

IInv == TypeOK /\ \A e \in Episodes : Place(e) /\ Handled(e) /\ Tracked(e)

-----------------------------------------------------------------------------
(* Lemmas. *)

LEMMA Typed ==
    TypeOK <=> /\ batch \in Batches /\ active \subseteq Episodes
               /\ pc \in [Episodes -> Places] /\ outcome \in [Episodes -> Outcomes]
               /\ runner \in [Episodes -> Runners] /\ expired \in [Episodes -> BOOLEAN]
               /\ reset \in [Episodes -> Resets] /\ turn \in [Episodes -> Turns]
               /\ RemoteTyped
  BY DEF TypeOK, Batches, Places, Outcomes, Runners, Resets, Turns, RemoteTyped

LEMMA Now ==
    ASSUME IInv, NEW e \in Episodes
    PROVE  /\ pc[e] \in Places /\ outcome[e] \in Outcomes /\ runner[e] \in Runners
           /\ reset[e] \in Resets /\ turn[e] \in Turns /\ expired[e] \in BOOLEAN
           /\ handle[e] \in Envs \cup {NoEnv} /\ opened[e] \subseteq Envs
           /\ closing[e] \subseteq Envs /\ unclosed[e] \subseteq Envs
           /\ closeCalls[e] \in [Envs -> Nat]
           /\ PlaceOf(pc[e], runner[e], reset[e], turn[e])
           /\ HandledOf(reset[e], handle[e], closeCalls[e])
           /\ TrackedOf(pc[e], reset[e], handle[e], opened[e], closing[e], unclosed[e])
  BY Typed DEF IInv, Place, Handled, Tracked, RemoteTyped

\* What a step of one episode leaves to the others.
Elsewhere(e) ==
    \A d \in Episodes \ {e} :
        /\ handle'[d] = handle[d] /\ opened'[d] = opened[d] /\ closing'[d] = closing[d]
        /\ unclosed'[d] = unclosed[d] /\ closeCalls'[d] = closeCalls[d]

\* A step that puts one episode right keeps the invariant.
LEMMA OneEpisode ==
    ASSUME IInv, NEW e \in Episodes, batch' \in Batches, active' \subseteq Episodes,
           NEW p \in Places, NEW o \in Outcomes, NEW r \in Runners, NEW z \in BOOLEAN,
           NEW x \in Resets, NEW y \in Turns,
           pc' = [pc EXCEPT ![e] = p], outcome' = [outcome EXCEPT ![e] = o],
           runner' = [runner EXCEPT ![e] = r], expired' = [expired EXCEPT ![e] = z],
           reset' = [reset EXCEPT ![e] = x], turn' = [turn EXCEPT ![e] = y],
           RemoteTyped', Elsewhere(e),
           PlaceOf(p, r, x, y), HandledOf(x, handle'[e], closeCalls'[e]),
           TrackedOf(p, x, handle'[e], opened'[e], closing'[e], unclosed'[e])
    PROVE  IInv'
<1>1. /\ pc \in [Episodes -> Places] /\ outcome \in [Episodes -> Outcomes]
      /\ runner \in [Episodes -> Runners] /\ expired \in [Episodes -> BOOLEAN]
      /\ reset \in [Episodes -> Resets] /\ turn \in [Episodes -> Turns]
  BY Typed DEF IInv
<1>2. /\ pc' \in [Episodes -> Places] /\ outcome' \in [Episodes -> Outcomes]
      /\ runner' \in [Episodes -> Runners] /\ expired' \in [Episodes -> BOOLEAN]
      /\ reset' \in [Episodes -> Resets] /\ turn' \in [Episodes -> Turns]
  BY <1>1
<1>3. TypeOK'
  BY <1>2 DEF TypeOK, Batches, Places, Outcomes, Runners, Resets, Turns, RemoteTyped
<1>4. pc'[e] = p /\ runner'[e] = r /\ reset'[e] = x /\ turn'[e] = y
  BY <1>1
<1>5. ASSUME NEW d \in Episodes PROVE Place(d)' /\ Handled(d)' /\ Tracked(d)'
  <2>1. CASE d = e
    BY <1>4, <2>1 DEF Place, Handled, Tracked
  <2>2. CASE d # e
    <3>1. pc'[d] = pc[d] /\ runner'[d] = runner[d] /\ reset'[d] = reset[d] /\ turn'[d] = turn[d]
      BY <1>1, <2>2
    <3>2. d \in Episodes \ {e}
      BY <2>2
    <3> QED  BY <3>1, <3>2, Now DEF Elsewhere, Place, Handled, Tracked
  <2> QED  BY <2>1, <2>2
<1> QED
  BY <1>3, <1>5 DEF IInv

\* close() by anyone takes the handle, and sends at most one close_env.
LEMMA Claims ==
    ASSUME IInv, NEW e \in Episodes, Claim(e), NEW p \in Places, NEW x \in Resets,
           x.attempt = reset[e].attempt,
           x.pc = reset[e].pc \/ (reset[e].pc = "finish" /\ x.pc = "done")
    PROVE  /\ RemoteTyped' /\ Elsewhere(e)
           /\ HandledOf(x, handle'[e], closeCalls'[e])
           /\ TrackedOf(p, x, handle'[e], opened'[e], closing'[e], unclosed'[e])
<1>0. PICK h : h = handle[e]
  OBVIOUS
<1>1. RemoteTyped
  BY Typed DEF IInv
<1>2. /\ h \in Envs \cup {NoEnv} /\ reset[e] \in Resets
      /\ HandledOf(reset[e], h, closeCalls[e])
      /\ TrackedOf(pc[e], reset[e], h, opened[e], closing[e], unclosed[e])
  BY <1>0, Now
<1>3. /\ handle' \in [Episodes -> Envs \cup {NoEnv}] /\ handle'[e] = NoEnv
      /\ \A d \in Episodes \ {e} : handle'[d] = handle[d]
      /\ opened' = opened /\ unclosed' = unclosed
  BY <1>1 DEF Claim, RemoteTyped
<1>4. CASE h = NoEnv
  <2>1. closing' = closing /\ closeCalls' = closeCalls
    BY <1>0, <1>4 DEF Claim
  <2> QED
    BY <1>1, <1>2, <1>3, <1>4, <2>1 DEF HandledOf, TrackedOf, RemoteTyped, Elsewhere
<1>5. CASE h # NoEnv
  <2>1. closing' = [closing EXCEPT ![e] = @ \cup {h}]
        /\ closeCalls' = [closeCalls EXCEPT ![e][h] = @ + 1]
    BY <1>0, <1>5 DEF Claim, SendClose
  <2>2. h \in Envs /\ h = reset[e].attempt
    BY <1>2, <1>5 DEF HandledOf
  <2>3. /\ closing' \in [Episodes -> SUBSET Envs] /\ closing'[e] = closing[e] \cup {h}
        /\ \A d \in Episodes \ {e} : closing'[d] = closing[d]
    BY <1>1, <2>1, <2>2 DEF RemoteTyped
  <2>4. /\ closeCalls' \in [Episodes -> [Envs -> Nat]]
        /\ closeCalls'[e][h] = closeCalls[e][h] + 1
        /\ \A i \in Envs : i # h => closeCalls'[e][i] = closeCalls[e][i]
        /\ \A d \in Episodes \ {e} : closeCalls'[d] = closeCalls[d]
    BY <1>1, <2>1, <2>2 DEF RemoteTyped
  <2>5. RemoteTyped' /\ Elsewhere(e)
    BY <1>1, <1>3, <2>3, <2>4 DEF RemoteTyped, Elsewhere
  <2>6. HandledOf(x, handle'[e], closeCalls'[e])
    <3>1. closeCalls[e][h] \in Nat /\ Envs \subseteq Int
      <4>1. closeCalls[e] \in [Envs -> Nat]
        BY Now
      <4>2. Envs \subseteq Int
        BY BatchAssumption DEF Envs
      <4> QED  BY <2>2, <4>1, <4>2
    <3>2. x.pc = "again" => reset[e].pc = "again"
      OBVIOUS
    <3>3. x.pc # "again" => closeCalls'[e][h] = 1
      BY <1>2, <1>5, <2>2, <2>4, <3>1 DEF HandledOf
    <3>4. x.pc \notin {"none", "create"}
      BY <1>2, <1>5 DEF HandledOf
    <3> QED  BY <1>2, <1>3, <2>2, <2>4, <3>1, <3>2, <3>3, <3>4 DEF HandledOf
  <2>7. TrackedOf(p, x, handle'[e], opened'[e], closing'[e], unclosed'[e])
    BY <1>2, <1>3, <2>3 DEF TrackedOf
  <2> QED
    BY <2>5, <2>6, <2>7
<1> QED
  BY <1>4, <1>5

\* A step that leaves the environments alone.
LEMMA Leaves ==
    ASSUME IInv, NEW e \in Episodes, UNCHANGED remoteVars, NEW p \in Places, NEW x \in Resets,
           x.attempt = reset[e].attempt, x.pc = reset[e].pc,
           p \in {"closing", "settled"} => pc[e] \in {"closing", "settled"} \/ x.pc = "none"
    PROVE  /\ RemoteTyped' /\ Elsewhere(e)
           /\ HandledOf(x, handle'[e], closeCalls'[e])
           /\ TrackedOf(p, x, handle'[e], opened'[e], closing'[e], unclosed'[e])
<1>1. RemoteTyped
  BY Typed DEF IInv
<1> QED
  BY <1>1, Now DEF HandledOf, TrackedOf, RemoteTyped, Elsewhere, remoteVars

LEMMA Keeps ==
    ASSUME IInv, NEW e \in Episodes
    PROVE  /\ pc = [pc EXCEPT ![e] = pc[e]] /\ outcome = [outcome EXCEPT ![e] = outcome[e]]
           /\ runner = [runner EXCEPT ![e] = runner[e]]
           /\ expired = [expired EXCEPT ![e] = expired[e]]
           /\ reset = [reset EXCEPT ![e] = reset[e]] /\ turn = [turn EXCEPT ![e] = turn[e]]
  BY Typed DEF IInv

-----------------------------------------------------------------------------
(* The pool threads and the harness. *)

\* A pool thread, or an interrupt, that leaves the reset and turn threads alone.
LEMMA PoolStep ==
    ASSUME IInv, NEW e \in Episodes, batch' \in Batches, active' \subseteq Episodes,
           NEW p \in Places, NEW o \in Outcomes, NEW r \in Runners,
           pc' = [pc EXCEPT ![e] = p], outcome' = [outcome EXCEPT ![e] = o],
           runner' = [runner EXCEPT ![e] = r], UNCHANGED <<expired, threadVars>>,
           PlaceOf(p, r, reset[e], turn[e]),
           \/ Claim(e)
           \/ /\ UNCHANGED remoteVars
              /\ p \in {"closing", "settled"} =>
                    pc[e] \in {"closing", "settled"} \/ reset[e].pc = "none"
    PROVE  IInv'
<1>1. reset' = [reset EXCEPT ![e] = reset[e]] /\ turn' = [turn EXCEPT ![e] = turn[e]]
      /\ expired' = [expired EXCEPT ![e] = expired[e]]
  BY Keeps DEF threadVars
<1>2. reset[e] \in Resets /\ turn[e] \in Turns /\ expired[e] \in BOOLEAN
  BY Now
<1>3. /\ RemoteTyped' /\ Elsewhere(e)
      /\ HandledOf(reset[e], handle'[e], closeCalls'[e])
      /\ TrackedOf(p, reset[e], handle'[e], opened'[e], closing'[e], unclosed'[e])
  BY <1>2, Claims, Leaves
<1> QED
  BY <1>1, <1>2, <1>3, OneEpisode

LEMMA FailedTyped ==
    ASSUME NEW r \in Runners
    PROVE  /\ Failed(r) \in Runners /\ [Failed(r) EXCEPT !.cancel = TRUE] \in Runners
           /\ Failed(r).turns = r.turns /\ Failed(r).limit = r.limit
           /\ Failed(r).cancel = r.cancel /\ Failed(r).won = r.won
           /\ [Failed(r) EXCEPT !.cancel = TRUE].turns = r.turns
           /\ [Failed(r) EXCEPT !.cancel = TRUE].limit = r.limit
           /\ [Failed(r) EXCEPT !.cancel = TRUE].won = r.won
           /\ ~Failed(r).waiting /\ ~[Failed(r) EXCEPT !.cancel = TRUE].waiting
           /\ [Failed(r) EXCEPT !.cancel = TRUE].cancel
  BY DEF Failed, Runners

\* An interrupt changes nothing that the places rest on.
LEMMA Interrupts ==
    ASSUME IInv, NEW e \in Episodes, Interrupt(e), batch' \in Batches,
           active' \subseteq Episodes, NEW p \in Places, NEW o \in Outcomes,
           pc' = [pc EXCEPT ![e] = p], outcome' = [outcome EXCEPT ![e] = o],
           UNCHANGED <<expired, threadVars>>,
           \A r \in Runners : r.cancel /\ r.turns = runner[e].turns /\ r.limit = runner[e].limit
                                 => PlaceOf(p, r, reset[e], turn[e])
    PROVE  IInv'
<1> DEFINE r == [Failed(runner[e]) EXCEPT !.cancel = TRUE]
<1>1. runner' = [runner EXCEPT ![e] = r] /\ Claim(e)
  BY DEF Interrupt
<1>2. r \in Runners /\ r.cancel /\ r.turns = runner[e].turns /\ r.limit = runner[e].limit
  BY Now, FailedTyped
<1> HIDE DEF r
<1> QED
  BY <1>1, <1>2, PoolStep

LEMMA StepPool ==
    ASSUME IInv, NEW e \in Episodes,
           \/ Start(e) \/ Register(e) \/ CancelQueued(e) \/ TurnReturned(e)
    PROVE  IInv'
<1>1. /\ batch' \in Batches /\ active' \subseteq Episodes /\ UNCHANGED <<expired, threadVars>>
      /\ UNCHANGED remoteVars /\ runner' = [runner EXCEPT ![e] = runner[e]]
      /\ runner[e] \in Runners
  BY Typed, Keeps, Now DEF IInv, Start, Register, CancelQueued, TurnReturned
<1>2. PICK p \in {"factory", "check", "settled", "cancelled", "commit", "close"},
           o \in Outcomes :
        /\ pc' = [pc EXCEPT ![e] = p] /\ outcome' = [outcome EXCEPT ![e] = o]
        /\ \/ pc[e] \in {"queued", "factory"} /\ p \in {"factory", "check", "settled", "cancelled"}
           \/ pc[e] = "turn" /\ p \in {"commit", "close"}
        /\ p = "commit" => turn[e].pc = "result"
  <2>1. "fail" \in Outcomes /\ outcome[e] \in Outcomes
        /\ outcome = [outcome EXCEPT ![e] = outcome[e]]
    BY Keeps, Now DEF Outcomes
  <2>2. CASE Start(e)
    BY <2>1, <2>2 DEF Start, Goto
  <2>3. CASE CancelQueued(e)
    BY <2>1, <2>3 DEF CancelQueued, Goto
  <2>4. CASE Register(e)
    BY <2>1, <2>4 DEF Register, Goto
  <2>5. CASE TurnReturned(e)
    BY <2>1, <2>5 DEF TurnReturned, Goto, Raise
  <2> QED  BY <2>2, <2>3, <2>4, <2>5
<1>3. p \in Places
  BY DEF Places
<1>4. PlaceOf(p, runner[e], reset[e], turn[e])
  BY <1>2, Now DEF PlaceOf, Early, Midway, Ending, Resetting
<1>5. p \in {"closing", "settled"} => reset[e].pc = "none"
  BY <1>2, Now DEF PlaceOf, Early
<1> QED
  BY <1>1, <1>2, <1>3, <1>4, <1>5, PoolStep

LEMMA StepCheck ==
    ASSUME IInv, NEW e \in Episodes, CheckCancelled(e)
    PROVE  IInv'
<1>1. /\ batch' \in Batches /\ active' \subseteq Episodes /\ UNCHANGED <<expired, threadVars>>
      /\ pc[e] = "check"
  BY Typed DEF IInv, CheckCancelled
<1>2. "fail" \in Outcomes /\ outcome[e] \in Outcomes /\ runner[e] \in Runners
  BY Now DEF Outcomes
<1>3. CASE Interrupt(e) /\ Raise(e)
  <2>1. pc' = [pc EXCEPT ![e] = "close"] /\ outcome' = [outcome EXCEPT ![e] = "fail"]
        /\ "close" \in Places
    BY <1>3 DEF Raise, Goto, Places
  <2>2. ASSUME NEW r \in Runners PROVE PlaceOf("close", r, reset[e], turn[e])
    BY <1>1, Now DEF PlaceOf, Early, Midway, Ending, Resetting, NoReset, NoTurn
  <2> QED  BY <1>1, <1>2, <1>3, <2>1, <2>2, Interrupts
<1>4. CASE Goto(e, "start") /\ UNCHANGED <<runner, remoteVars, outcome>>
  <2>1. pc' = [pc EXCEPT ![e] = "start"] /\ "start" \in Places
        /\ outcome' = [outcome EXCEPT ![e] = outcome[e]]
        /\ runner' = [runner EXCEPT ![e] = runner[e]]
    BY <1>4, Keeps DEF Goto, Places
  <2>2. PlaceOf("start", runner[e], reset[e], turn[e])
    BY <1>1, Now DEF PlaceOf, Early, Midway, Ending, Resetting, NoReset, NoTurn
  <2> QED  BY <1>1, <1>2, <1>4, <2>1, <2>2, PoolStep, ZenonT(40)
<1> QED
  BY <1>3, <1>4 DEF CheckCancelled

LEMMA StepClose ==
    ASSUME IInv, NEW e \in Episodes, Close(e)
    PROVE  IInv'
<1> DEFINE r == [runner[e] EXCEPT !.mine = handle[e]]
<1>1. /\ batch' \in Batches /\ active' \subseteq Episodes /\ UNCHANGED <<expired, threadVars>>
      /\ pc[e] = "close" /\ Claim(e) /\ pc' = [pc EXCEPT ![e] = "closing"]
      /\ outcome' = [outcome EXCEPT ![e] = outcome[e]] /\ outcome[e] \in Outcomes
      /\ "closing" \in Places
  BY Typed, Keeps, Now DEF IInv, Close, Goto, Places
<1>2. r \in Runners
  BY Now DEF Runners
<1>3. runner' = [runner EXCEPT ![e] = r]
  BY DEF Close
<1>4. PlaceOf("closing", r, reset[e], turn[e])
  <2>1. r.cancel = runner[e].cancel
    BY Now DEF Runners
  <2> QED  BY <1>1, <2>1, Now DEF PlaceOf, Early, Midway, Ending, Resetting
<1> HIDE DEF r
<1> QED
  BY <1>1, <1>2, <1>3, <1>4, PoolStep

LEMMA StepSettle ==
    ASSUME IInv, NEW e \in Episodes, Settle(e)
    PROVE  IInv'
<1>1. /\ batch' \in Batches /\ active' \subseteq Episodes /\ UNCHANGED <<expired, threadVars>>
      /\ pc[e] = "closing" /\ UNCHANGED remoteVars /\ pc' = [pc EXCEPT ![e] = "settled"]
      /\ runner' = [runner EXCEPT ![e] = runner[e]] /\ runner[e] \in Runners
      /\ "settled" \in Places
  BY Typed, Keeps, Now DEF IInv, Settle, Goto, Places
<1>2. PICK o \in Outcomes : outcome' = [outcome EXCEPT ![e] = o]
  <2>1. "fail" \in Outcomes /\ outcome[e] \in Outcomes
    BY Now DEF Outcomes
  <2> QED  BY <2>1 DEF Settle
<1>3. PlaceOf("settled", runner[e], reset[e], turn[e])
  BY <1>1, Now DEF PlaceOf, Early, Midway, Ending, Resetting
<1> QED
  BY <1>1, <1>2, <1>3, PoolStep

LEMMA StepResetReturned ==
    ASSUME IInv, NEW e \in Episodes, ResetReturned(e)
    PROVE  IInv'
<1>1. /\ batch' \in Batches /\ active' \subseteq Episodes /\ UNCHANGED <<expired, threadVars>>
      /\ pc[e] = "reset" /\ UNCHANGED remoteVars /\ reset[e].pc \in {"result", "error"}
  BY Typed DEF IInv, ResetReturned
<1>2. PICK p \in {"loop", "close"}, o \in Outcomes :
        pc' = [pc EXCEPT ![e] = p] /\ outcome' = [outcome EXCEPT ![e] = o]
  <2>1. "fail" \in Outcomes /\ outcome[e] \in Outcomes
        /\ outcome = [outcome EXCEPT ![e] = outcome[e]]
    BY Keeps, Now DEF Outcomes
  <2> QED  BY <2>1 DEF ResetReturned, Goto, Raise
<1>3. PICK r \in Runners : runner' = [runner EXCEPT ![e] = r] /\ r.cancel = runner[e].cancel
  <2>1. CASE runner' = runner
    BY <2>1, Keeps, Now
  <2>2. CASE runner' = [runner EXCEPT ![e].started = TRUE]
    <3> DEFINE r == [runner[e] EXCEPT !.started = TRUE]
    <3>1. r \in Runners /\ r.cancel = runner[e].cancel
      BY Now DEF Runners
    <3>2. runner' = [runner EXCEPT ![e] = r]
      BY <2>2
    <3> QED  BY <3>1, <3>2
  <2> QED  BY <2>1, <2>2 DEF ResetReturned
<1>4. p \in Places /\ p \notin {"closing", "settled"}
  BY DEF Places
<1>5. PlaceOf(p, r, reset[e], turn[e])
  BY <1>1, <1>3, Now DEF PlaceOf, Early, Midway, Ending, Resetting
<1> QED
  BY <1>1, <1>2, <1>3, <1>4, <1>5, PoolStep

LEMMA StepGiveUp ==
    ASSUME IInv, NEW e \in Episodes, GiveUp(e)
    PROVE  IInv'
<1>1. /\ batch' \in Batches /\ active' \subseteq Episodes /\ UNCHANGED <<expired, threadVars>>
      /\ pc[e] = "giveup" /\ Interrupt(e) /\ pc' = [pc EXCEPT ![e] = "result"]
      /\ outcome' = [outcome EXCEPT ![e] = outcome[e]] /\ outcome[e] \in Outcomes
      /\ "result" \in Places
  BY Typed, Keeps, Now DEF IInv, GiveUp, Goto, Places
<1>2. ASSUME NEW r \in Runners, r.cancel PROVE PlaceOf("result", r, reset[e], turn[e])
  BY <1>1, <1>2, Now DEF PlaceOf, Early, Midway, Ending, Resetting
<1> QED
  BY <1>1, <1>2, Interrupts

LEMMA StepLoop ==
    ASSUME IInv, NEW e \in Episodes, Loop(e)
    PROVE  IInv'
<1>1. /\ batch' \in Batches /\ active' \subseteq Episodes /\ UNCHANGED <<expired, threadVars>>
      /\ pc[e] = "loop" /\ outcome' = [outcome EXCEPT ![e] = outcome[e]]
      /\ outcome[e] \in Outcomes /\ runner[e] \in Runners
  BY Typed, Keeps, Now DEF IInv, Loop
<1>2. CASE Interrupt(e) /\ Goto(e, "result")
  <2>1. pc' = [pc EXCEPT ![e] = "result"] /\ "result" \in Places
    BY <1>2 DEF Goto, Places
  <2>2. ASSUME NEW r \in Runners, r.cancel PROVE PlaceOf("result", r, reset[e], turn[e])
    BY <1>1, <2>2, Now DEF PlaceOf, Early, Midway, Ending, Resetting
  <2> QED  BY <1>1, <1>2, <2>1, <2>2, Interrupts
<1>3. CASE UNCHANGED <<runner, remoteVars>>
  <2>1. PICK p \in {"step", "result"} :
          /\ pc' = [pc EXCEPT ![e] = p]
          /\ p = "step" => runner[e].turns < runner[e].limit
    BY <1>3, <1>2 DEF Loop, Goto
  <2>2. p \in Places /\ runner' = [runner EXCEPT ![e] = runner[e]]
    BY <1>3, Keeps DEF Places
  <2>3. PlaceOf(p, runner[e], reset[e], turn[e])
    BY <1>1, <2>1, Now DEF PlaceOf, Early, Midway, Ending, Resetting
  <2> QED  BY <1>1, <1>3, <2>1, <2>2, <2>3, PoolStep
<1> QED
  BY <1>2, <1>3 DEF Loop

LEMMA StepResult ==
    ASSUME IInv, NEW e \in Episodes, Result(e)
    PROVE  IInv'
<1>1. /\ batch' \in Batches /\ active' \subseteq Episodes /\ UNCHANGED <<expired, threadVars>>
      /\ pc[e] = "result" /\ UNCHANGED remoteVars /\ pc' = [pc EXCEPT ![e] = "close"]
      /\ "close" \in Places
  BY Typed DEF IInv, Result, Goto, Places
<1>2. PICK o \in Outcomes : outcome' = [outcome EXCEPT ![e] = o]
  BY DEF Result, Outcomes
<1>3. PICK b \in BOOLEAN : runner' = [runner EXCEPT ![e] = [runner[e] EXCEPT !.truncated = b]]
  <2>1. PICK b : b = (\/ runner[e].truncated
                      \/ /\ runner[e].started /\ ~runner[e].terminated
                         /\ runner[e].turns >= runner[e].limit)
    OBVIOUS
  <2>2. b \in BOOLEAN
    BY <2>1, Now DEF Runners
  <2>3. runner' = [runner EXCEPT ![e] = [runner[e] EXCEPT !.truncated = b]]
    BY <2>1 DEF Result
  <2> QED  BY <2>2, <2>3
<1> DEFINE r == [runner[e] EXCEPT !.truncated = b]
<1>4. r \in Runners /\ r.cancel = runner[e].cancel
  BY Now DEF Runners
<1> HIDE DEF r
<1>5. PlaceOf("close", r, reset[e], turn[e])
  BY <1>1, <1>4, Now DEF PlaceOf, Early, Midway, Ending, Resetting
<1>6. runner' = [runner EXCEPT ![e] = r]
  BY <1>3 DEF r
<1> QED
  BY <1>1, <1>2, <1>4, <1>5, <1>6, PoolStep

LEMMA StepCallRunner ==
    ASSUME IInv, NEW e \in Episodes, CallRunner(e)
    PROVE  IInv'
<1>1. /\ active' \subseteq Episodes /\ UNCHANGED <<expired, threadVars>> /\ Interrupt(e)
      /\ batch' = [batch EXCEPT !.todo = @ \ {e}, !.told = @ \cup {e}]
      /\ pc' = [pc EXCEPT ![e] = pc[e]] /\ pc[e] \in Places
      /\ outcome' = [outcome EXCEPT ![e] = outcome[e]] /\ outcome[e] \in Outcomes
  BY Typed, Keeps, Now DEF IInv, CallRunner
<1>2. batch' \in Batches
  BY <1>1, Typed DEF IInv, Batches
<1>3. ASSUME NEW r \in Runners, r.cancel, r.turns = runner[e].turns, r.limit = runner[e].limit
      PROVE  PlaceOf(pc[e], r, reset[e], turn[e])
  BY <1>3, Now DEF PlaceOf
<1> QED
  BY <1>1, <1>2, <1>3, Interrupts

\* A deadline that passes, or a harness that looks around, touches no episode.
LEMMA StepLooks ==
    ASSUME IInv,
           \/ BatchInterrupt \/ ListActive \/ UNCHANGED vars
           \/ \E e \in Episodes : Expire(e)
    PROVE  IInv'
<1>1. /\ UNCHANGED <<active, pc, outcome, runner, threadVars, remoteVars>>
  BY DEF BatchInterrupt, ListActive, vars, Expire
<1>2. batch' \in Batches
  BY Typed DEF IInv, BatchInterrupt, ListActive, vars, Expire, Batches
<1>3. expired' \in [Episodes -> BOOLEAN]
  BY Typed DEF IInv, BatchInterrupt, ListActive, vars, Expire
<1>4. TypeOK'
  BY <1>1, <1>2, <1>3 DEF IInv, TypeOK, Batches, threadVars, remoteVars
<1> QED
  BY <1>1, <1>4 DEF IInv, Place, Handled, Tracked, threadVars, remoteVars

LEMMA StepBeginStart ==
    ASSUME IInv, NEW e \in Episodes, BeginStart(e)
    PROVE  IInv'
<1> DEFINE x == [NoReset EXCEPT !.pc = "create"]
<1>1. /\ batch' \in Batches /\ active' \subseteq Episodes /\ pc[e] = "start"
      /\ UNCHANGED remoteVars /\ pc' = [pc EXCEPT ![e] = "reset"] /\ "reset" \in Places
      /\ outcome' = [outcome EXCEPT ![e] = outcome[e]] /\ outcome[e] \in Outcomes
      /\ expired' = [expired EXCEPT ![e] = expired[e]] /\ expired[e] \in BOOLEAN
      /\ turn' = [turn EXCEPT ![e] = turn[e]] /\ turn[e] \in Turns
      /\ runner' = [runner EXCEPT ![e] = FreshRunner]
      /\ reset' = [reset EXCEPT ![e] = x]
  BY Typed, Keeps, Now DEF IInv, BeginStart, Goto, Places
<1>2. reset[e] = NoReset /\ turn[e] = NoTurn
  BY <1>1, Now DEF PlaceOf, Early
<1>3. FreshRunner \in Runners
  <2>1. /\ 0 \in 0..BaseTurns + RecoveryTurns
        /\ BaseTurns \in BaseTurns..BaseTurns + RecoveryTurns
    BY BatchAssumption
  <2> QED  BY <2>1 DEF FreshRunner, Runners
<1>4. x \in Resets /\ x.pc = "create" /\ x.attempt = 1 /\ ~x.abandoned
  <2>1. 1 \in Envs
    BY BatchAssumption DEF Envs
  <2> QED  BY <2>1 DEF NoReset, Resets
<1> HIDE DEF x
<1>5. PlaceOf("reset", FreshRunner, x, turn[e])
  BY <1>2, <1>4 DEF PlaceOf, Early, Midway, Ending, Resetting, NoTurn
<1>6. RemoteTyped' /\ Elsewhere(e)
  BY <1>1, Typed DEF IInv, RemoteTyped, Elsewhere, remoteVars
<1>7. /\ HandledOf(x, handle[e], closeCalls[e])
      /\ TrackedOf("reset", x, handle[e], opened[e], closing[e], unclosed[e])
  BY <1>2, <1>4, Now DEF HandledOf, TrackedOf, NoReset
<1>8. /\ HandledOf(x, handle'[e], closeCalls'[e])
      /\ TrackedOf("reset", x, handle'[e], opened'[e], closing'[e], unclosed'[e])
  BY <1>1, <1>7 DEF remoteVars
<1> QED
  BY <1>1, <1>3, <1>4, <1>5, <1>6, <1>8, OneEpisode

LEMMA StepTimeouts ==
    ASSUME IInv, NEW e \in Episodes, ResetTimeout(e) \/ TurnTimeout(e)
    PROVE  IInv'
<1>1. /\ batch' \in Batches /\ active' \subseteq Episodes /\ pc[e] \in {"reset", "turn"}
      /\ UNCHANGED remoteVars /\ pc' = [pc EXCEPT ![e] = "giveup"] /\ "giveup" \in Places
      /\ outcome' = [outcome EXCEPT ![e] = outcome[e]] /\ outcome[e] \in Outcomes
      /\ expired' = [expired EXCEPT ![e] = expired[e]] /\ expired[e] \in BOOLEAN
      /\ runner' = [runner EXCEPT ![e] = runner[e]] /\ runner[e] \in Runners
  BY Typed, Keeps, Now DEF IInv, ResetTimeout, TurnTimeout, Goto, Places
<1>2. PICK x \in Resets :
        /\ reset' = [reset EXCEPT ![e] = x] /\ x.pc = reset[e].pc
        /\ x.attempt = reset[e].attempt
        /\ x = reset[e] \/ (x.abandoned /\ pc[e] = "reset")
        /\ pc[e] = "reset" => x.abandoned
  <2>1. CASE ResetTimeout(e)
    <3> DEFINE x == [reset[e] EXCEPT !.abandoned = TRUE]
    <3>1. x \in Resets /\ x.pc = reset[e].pc /\ x.attempt = reset[e].attempt /\ x.abandoned
      BY Now DEF Resets
    <3>2. reset' = [reset EXCEPT ![e] = x] /\ pc[e] = "reset"
      BY <2>1 DEF ResetTimeout
    <3> QED  BY <3>1, <3>2
  <2>2. CASE TurnTimeout(e)
    BY <2>2, Keeps, Now DEF TurnTimeout
  <2> QED  BY <2>1, <2>2
<1>3. PICK y \in Turns :
        /\ turn' = [turn EXCEPT ![e] = y] /\ y.pc = turn[e].pc /\ y.late = turn[e].late
        /\ pc[e] = "reset" => y = turn[e]
  <2>1. CASE ResetTimeout(e)
    BY <2>1, Keeps, Now DEF ResetTimeout
  <2>2. CASE TurnTimeout(e)
    <3> DEFINE y == [turn[e] EXCEPT !.abandoned = TRUE]
    <3>1. y \in Turns /\ y.pc = turn[e].pc /\ y.late = turn[e].late
      BY Now DEF Turns
    <3>2. turn' = [turn EXCEPT ![e] = y] /\ pc[e] = "turn"
      BY <2>2 DEF TurnTimeout
    <3> QED  BY <3>1, <3>2
  <2> QED  BY <2>1, <2>2
<1>4. PlaceOf("giveup", runner[e], x, y)
  BY <1>1, <1>2, <1>3, Now DEF PlaceOf, Early, Midway, Ending, Resetting
<1>5. /\ RemoteTyped' /\ Elsewhere(e)
      /\ HandledOf(x, handle'[e], closeCalls'[e])
      /\ TrackedOf("giveup", x, handle'[e], opened'[e], closing'[e], unclosed'[e])
  BY <1>1, <1>2, Leaves
<1> QED
  BY <1>1, <1>2, <1>3, <1>4, <1>5, OneEpisode

LEMMA StepStep ==
    ASSUME IInv, NEW e \in Episodes, Step(e)
    PROVE  IInv'
<1>1. /\ batch' \in Batches /\ active' \subseteq Episodes /\ UNCHANGED <<expired, reset>>
      /\ pc[e] = "step" /\ outcome[e] \in Outcomes /\ "fail" \in Outcomes
      /\ outcome = [outcome EXCEPT ![e] = outcome[e]]
      /\ runner = [runner EXCEPT ![e] = runner[e]] /\ runner[e] \in Runners
  BY Typed, Keeps, Now DEF IInv, Step, Outcomes
<1>2. CASE Raise(e) /\ UNCHANGED <<runner, turn, remoteVars>>
  <2>1. pc' = [pc EXCEPT ![e] = "close"] /\ outcome' = [outcome EXCEPT ![e] = "fail"]
        /\ "close" \in Places /\ runner' = [runner EXCEPT ![e] = runner[e]]
        /\ UNCHANGED <<expired, threadVars>>
    BY <1>1, <1>2 DEF Raise, Goto, Places, threadVars
  <2>2. PlaceOf("close", runner[e], reset[e], turn[e])
    BY <1>1, Now DEF PlaceOf, Early, Midway, Ending, Resetting
  <2> QED  BY <1>1, <1>2, <2>1, <2>2, PoolStep
<1>3. CASE Interrupt(e) /\ Goto(e, "result") /\ UNCHANGED <<outcome, turn>>
  <2>1. pc' = [pc EXCEPT ![e] = "result"] /\ "result" \in Places
        /\ outcome' = [outcome EXCEPT ![e] = outcome[e]] /\ UNCHANGED <<expired, threadVars>>
    BY <1>1, <1>3 DEF Goto, Places, threadVars
  <2>2. ASSUME NEW r \in Runners, r.cancel PROVE PlaceOf("result", r, reset[e], turn[e])
    BY <1>1, <2>2, Now DEF PlaceOf, Early, Midway, Ending, Resetting
  <2> QED  BY <1>1, <1>3, <2>1, <2>2, Interrupts
<1>4. CASE /\ turn' = [turn EXCEPT ![e] = [NoTurn EXCEPT !.pc = "act", !.late = runner[e].cancel]]
           /\ Goto(e, "turn") /\ UNCHANGED <<outcome, runner, remoteVars>>
  <2> DEFINE y == [NoTurn EXCEPT !.pc = "act", !.late = runner[e].cancel]
  <2>1. y \in Turns /\ y.pc = "act" /\ y.late = runner[e].cancel /\ ~y.abandoned
    BY Now DEF Turns, NoTurn, Runners
  <2>2. turn' = [turn EXCEPT ![e] = y]
    BY <1>4
  <2> HIDE DEF y
  <2>3. /\ pc' = [pc EXCEPT ![e] = "turn"] /\ "turn" \in Places
        /\ outcome' = [outcome EXCEPT ![e] = outcome[e]]
        /\ runner' = [runner EXCEPT ![e] = runner[e]]
        /\ expired' = [expired EXCEPT ![e] = expired[e]] /\ expired[e] \in BOOLEAN
        /\ reset' = [reset EXCEPT ![e] = reset[e]] /\ reset[e] \in Resets
    BY <1>1, <1>4, Keeps, Now DEF Goto, Places
  <2>4. PlaceOf("turn", runner[e], reset[e], y)
    BY <1>1, <2>1, Now DEF PlaceOf, Early, Midway, Ending, Resetting
  <2>5. /\ RemoteTyped' /\ Elsewhere(e)
        /\ HandledOf(reset[e], handle'[e], closeCalls'[e])
        /\ TrackedOf("turn", reset[e], handle'[e], opened'[e], closing'[e], unclosed'[e])
    BY <1>4, <2>3, Leaves
  <2> QED  BY <1>1, <2>1, <2>2, <2>3, <2>4, <2>5, OneEpisode
<1> QED
  BY <1>2, <1>3, <1>4 DEF Step

LEMMA StepCommit ==
    ASSUME IInv, NEW e \in Episodes, Commit(e)
    PROVE  IInv'
<1>1. /\ batch' \in Batches /\ active' \subseteq Episodes /\ pc[e] = "commit"
      /\ expired' = [expired EXCEPT ![e] = expired[e]] /\ expired[e] \in BOOLEAN
      /\ reset' = [reset EXCEPT ![e] = reset[e]] /\ reset[e] \in Resets
      /\ UNCHANGED remoteVars
  BY Typed, Keeps, Now DEF IInv, Commit
<1>2. /\ runner[e] \in Runners /\ runner[e].turns < runner[e].limit
      /\ turn[e] \in Turns /\ PlaceOf(pc[e], runner[e], reset[e], turn[e])
  BY <1>1, Now DEF PlaceOf
<1>3. PICK p \in {"flags", "close"} : pc' = [pc EXCEPT ![e] = p]
  BY DEF Commit, Goto, Raise
<1>4. PICK o \in Outcomes : outcome' = [outcome EXCEPT ![e] = o]
  <2>1. outcome = [outcome EXCEPT ![e] = outcome[e]] /\ outcome[e] \in Outcomes
    BY Keeps, Now
  <2> QED  BY <2>1 DEF Commit, Raise, Outcomes
<1> DEFINE z == [runner[e] EXCEPT !.turns = runner[e].turns + 1,
                                  !.won = runner[e].won \/ turn[e].kind = "win"]
<1>5. z \in Runners
  <2>1. runner[e].turns + 1 \in 0..BaseTurns + RecoveryTurns
    BY <1>2, BatchAssumption DEF Runners
  <2>2. (runner[e].won \/ turn[e].kind = "win") \in BOOLEAN
    OBVIOUS
  <2> QED  BY <1>2, <2>1, <2>2 DEF Runners
<1>6. runner' = [runner EXCEPT ![e] = z]
  BY DEF Commit
<1> HIDE DEF z
<1> DEFINE y == [turn[e] EXCEPT !.pc = "done"]
<1>7. y \in Turns /\ y.pc = "done" /\ y.late = turn[e].late /\ y.abandoned = turn[e].abandoned
  BY <1>2 DEF Turns
<1>8. turn' = [turn EXCEPT ![e] = y]
  BY DEF Commit
<1> HIDE DEF y
<1>9. PlaceOf(p, z, reset[e], y)
  BY <1>1, <1>2, <1>7 DEF PlaceOf, Early, Midway, Ending, Resetting
<1>10. p \in Places
  BY DEF Places
<1>11. /\ RemoteTyped' /\ Elsewhere(e)
       /\ HandledOf(reset[e], handle'[e], closeCalls'[e])
       /\ TrackedOf(p, reset[e], handle'[e], opened'[e], closing'[e], unclosed'[e])
  BY <1>1, <1>10, Leaves
<1> QED
  BY <1>1, <1>3, <1>4, <1>5, <1>6, <1>7, <1>8, <1>9, <1>10, <1>11, OneEpisode

\* What the flags of a turn make of the runner keeps its budgets and its count.
LEMMA Flags ==
    ASSUME NEW r \in Runners, NEW kind, NEW branches \in 0..2
    PROVE  /\ Flagged(r, kind, branches) \in Runners
           /\ Flagged(r, kind, branches).turns = r.turns
           /\ Flagged(r, kind, branches).won = r.won
<1>1. BaseTurns \in Nat /\ BranchTurns \in Nat /\ RecoveryTurns \in Nat
  BY BatchAssumption
<1>2. PICK k \in Nat : k = BranchTurns * branches
  <2>1. BranchTurns * branches \in Nat
    <3>1. branches = 0 \/ branches = 1 \/ branches = 2
      OBVIOUS
    <3> QED  BY <1>1, <3>1
  <2> QED  BY <2>1
<1>3. r.limit \in BaseTurns..BaseTurns + RecoveryTurns
  BY DEF Runners
<1>4. PICK granted : granted = r.limit - BaseTurns
  OBVIOUS
<1>5. PICK more : more = IF k < RecoveryTurns - granted THEN k ELSE RecoveryTurns - granted
  OBVIOUS
<1>6. r.limit + more \in BaseTurns..BaseTurns + RecoveryTurns
  BY <1>1, <1>2, <1>3, <1>4, <1>5
<1>7. PICK a \in BOOLEAN, b \in BOOLEAN, c \in BOOLEAN :
        a = (kind = "win") /\ b = (kind = "lose") /\ c = (kind = "ask")
  OBVIOUS
<1>8. Flagged(r, kind, branches) =
        [r EXCEPT !.limit = r.limit + more, !.terminated = a, !.truncated = b, !.waiting = c]
  BY <1>2, <1>4, <1>5, <1>7 DEF Flagged
<1> QED
  BY <1>6, <1>8 DEF Runners

\* What the end of a step does to the runner and its environment.
LEMMA FlagEffect ==
    ASSUME IInv, NEW e \in Episodes, Flag(e)
    PROVE  \E z \in Runners :
              /\ runner' = [runner EXCEPT ![e] = z] /\ (Claim(e) \/ UNCHANGED remoteVars)
              /\ z.turns = runner[e].turns /\ z.won = runner[e].won
<1>1. runner[e] \in Runners
  BY Now
<1>2. PICK branches \in 0..2 :
        LET r == Flagged(runner[e], turn[e].kind, branches) IN
        \/ /\ r.failed \/ ~expired[e]
           /\ \E r2 \in {r} \cup (IF r.failed THEN {} ELSE {Failed(r)}) :
                runner' = [runner EXCEPT ![e] = r2]
           /\ UNCHANGED remoteVars
        \/ /\ ~r.failed /\ expired[e]
           /\ runner' = [runner EXCEPT ![e] = [Failed(r) EXCEPT !.cancel = TRUE]]
           /\ Claim(e)
  BY DEF Flag
<1> DEFINE r == Flagged(runner[e], turn[e].kind, branches)
<1>3. r \in Runners /\ r.turns = runner[e].turns /\ r.won = runner[e].won
  BY <1>1, Flags
<1>4. \/ runner' = [runner EXCEPT ![e] = r] /\ UNCHANGED remoteVars
      \/ runner' = [runner EXCEPT ![e] = Failed(r)] /\ UNCHANGED remoteVars
      \/ runner' = [runner EXCEPT ![e] = [Failed(r) EXCEPT !.cancel = TRUE]] /\ Claim(e)
  BY <1>2
<1> HIDE DEF r
<1>5. /\ Failed(r) \in Runners /\ [Failed(r) EXCEPT !.cancel = TRUE] \in Runners
      /\ Failed(r).turns = r.turns /\ [Failed(r) EXCEPT !.cancel = TRUE].turns = r.turns
      /\ Failed(r).won = r.won /\ [Failed(r) EXCEPT !.cancel = TRUE].won = r.won
  BY <1>3, FailedTyped
<1> DEFINE c == [Failed(r) EXCEPT !.cancel = TRUE]
           f == Failed(r)
<1>6. \/ runner' = [runner EXCEPT ![e] = r] /\ UNCHANGED remoteVars
      \/ runner' = [runner EXCEPT ![e] = f] /\ UNCHANGED remoteVars
      \/ runner' = [runner EXCEPT ![e] = c] /\ Claim(e)
  BY <1>4
<1>7. /\ f \in Runners /\ c \in Runners /\ f.turns = r.turns /\ c.turns = r.turns
      /\ f.won = r.won /\ c.won = r.won
  BY <1>5
<1> HIDE DEF c, f
<1> QED
  BY <1>3, <1>6, <1>7

LEMMA StepFlag ==
    ASSUME IInv, NEW e \in Episodes, Flag(e)
    PROVE  IInv'
<1>1. PICK z \in Runners :
        runner' = [runner EXCEPT ![e] = z] /\ (Claim(e) \/ UNCHANGED remoteVars)
  BY FlagEffect
<1>2. /\ batch' \in Batches /\ active' \subseteq Episodes /\ pc[e] = "flags"
      /\ UNCHANGED <<expired, threadVars>>
  BY Typed DEF IInv, Flag
<1>3. PICK p \in {"loop", "close"} : pc' = [pc EXCEPT ![e] = p]
  BY DEF Flag, Goto, Raise
<1>4. PICK o \in Outcomes : outcome' = [outcome EXCEPT ![e] = o]
  <2>1. outcome = [outcome EXCEPT ![e] = outcome[e]] /\ outcome[e] \in Outcomes
    BY Keeps, Now
  <2> QED  BY <2>1 DEF Flag, Raise, Outcomes
<1>5. PlaceOf(p, z, reset[e], turn[e])
  BY <1>2, Now DEF PlaceOf, Early, Midway, Ending, Resetting
<1>6. p \in Places
  BY DEF Places
<1> QED
  BY <1>1, <1>2, <1>3, <1>4, <1>5, <1>6, PoolStep

-----------------------------------------------------------------------------
(* The answers of the server, and the reset and turn threads. *)

LEMMA StepAnswered ==
    ASSUME IInv, NEW e \in Episodes, NEW i \in Envs, CloseAnswered(e, i)
    PROVE  IInv'
<1>1. /\ batch' \in Batches /\ active' \subseteq Episodes
      /\ pc' = [pc EXCEPT ![e] = pc[e]] /\ pc[e] \in Places
      /\ outcome' = [outcome EXCEPT ![e] = outcome[e]] /\ outcome[e] \in Outcomes
      /\ expired' = [expired EXCEPT ![e] = expired[e]] /\ expired[e] \in BOOLEAN
      /\ runner' = [runner EXCEPT ![e] = runner[e]] /\ runner[e] \in Runners
      /\ reset' = [reset EXCEPT ![e] = reset[e]] /\ reset[e] \in Resets
      /\ turn' = [turn EXCEPT ![e] = turn[e]] /\ turn[e] \in Turns
      /\ handle' = handle /\ closeCalls' = closeCalls
  BY Typed, Keeps, Now DEF IInv, CloseAnswered, threadVars
<1>2. RemoteTyped
  BY Typed DEF IInv
<1>3. PICK o \in SUBSET Envs, u \in SUBSET Envs :
        /\ opened' = [opened EXCEPT ![e] = o] /\ unclosed' = [unclosed EXCEPT ![e] = u]
        /\ o \ {i} = opened[e] \ {i} /\ unclosed[e] \subseteq u
        /\ i \in o => i \in u
  <2>1. /\ opened[e] \subseteq Envs /\ unclosed[e] \subseteq Envs
        /\ opened = [opened EXCEPT ![e] = opened[e]]
        /\ unclosed = [unclosed EXCEPT ![e] = unclosed[e]]
    BY <1>2 DEF RemoteTyped
  <2>2. CASE opened' = [opened EXCEPT ![e] = @ \ {i}] /\ UNCHANGED unclosed
    <3>1. opened' = [opened EXCEPT ![e] = opened[e] \ {i}]
      BY <2>2
    <3>2. opened[e] \ {i} \in SUBSET Envs /\ unclosed[e] \in SUBSET Envs
      BY <2>1
    <3>3. unclosed' = [unclosed EXCEPT ![e] = unclosed[e]]
      BY <2>1, <2>2
    <3>4. (opened[e] \ {i}) \ {i} = opened[e] \ {i} /\ i \notin opened[e] \ {i}
      OBVIOUS
    <3> QED  BY <3>1, <3>2, <3>3, <3>4
  <2>3. CASE unclosed' = [unclosed EXCEPT ![e] = @ \cup {i}] /\ UNCHANGED opened
    <3>1. unclosed' = [unclosed EXCEPT ![e] = unclosed[e] \cup {i}]
      BY <2>3
    <3>2. unclosed[e] \cup {i} \in SUBSET Envs /\ opened[e] \in SUBSET Envs
      BY <2>1
    <3> QED  BY <2>1, <2>3, <3>1, <3>2
  <2> QED  BY <2>2, <2>3 DEF CloseAnswered
<1>4. closing' = [closing EXCEPT ![e] = @ \ {i}]
  BY DEF CloseAnswered
<1>5. /\ RemoteTyped' /\ Elsewhere(e) /\ opened'[e] = o /\ unclosed'[e] = u
      /\ closing'[e] = closing[e] \ {i}
  BY <1>1, <1>2, <1>3, <1>4 DEF RemoteTyped, Elsewhere
<1>6. PlaceOf(pc[e], runner[e], reset[e], turn[e])
      /\ HandledOf(reset[e], handle'[e], closeCalls'[e])
  BY <1>1, Now
<1>7. TrackedOf(pc[e], reset[e], handle'[e], opened'[e], closing'[e], unclosed'[e])
  <2>1. TrackedOf(pc[e], reset[e], handle[e], opened[e], closing[e], unclosed[e])
    BY Now
  <2>2. ASSUME NEW S, opened[e] \subseteq unclosed[e] \cup closing[e] \cup S
        PROVE  o \subseteq u \cup (closing[e] \ {i}) \cup S
    BY <1>3, <2>2
  <2>3. opened[e] \subseteq unclosed[e] \cup closing[e]
           => o \subseteq u \cup (closing[e] \ {i})
    BY <1>3
  <2>4. o \subseteq u \cup (closing[e] \ {i}) \cup {handle[e]}
    BY <2>1, <2>2 DEF TrackedOf
  <2> QED  BY <1>1, <1>5, <2>1, <2>3, <2>4 DEF TrackedOf
<1> QED
  BY <1>1, <1>5, <1>6, <1>7, OneEpisode

LEMMA StepTurnThread ==
    ASSUME IInv, NEW e \in Episodes, TurnThread(e)
    PROVE  IInv'
<1>1. /\ batch' \in Batches /\ active' \subseteq Episodes
      /\ pc' = [pc EXCEPT ![e] = pc[e]] /\ pc[e] \in Places
      /\ outcome' = [outcome EXCEPT ![e] = outcome[e]] /\ outcome[e] \in Outcomes
      /\ expired' = [expired EXCEPT ![e] = expired[e]] /\ expired[e] \in BOOLEAN
      /\ runner' = [runner EXCEPT ![e] = runner[e]] /\ runner[e] \in Runners
      /\ reset' = [reset EXCEPT ![e] = reset[e]] /\ reset[e] \in Resets
      /\ Claim(e) \/ UNCHANGED remoteVars
  BY Typed, Keeps, Now DEF IInv, TurnThread, TurnAct, TurnEnv, TurnFinish, TurnRaise
<1>2. PICK l \in {"env", "finish", "raise", "done", "result", "error"},
           kind \in {"work", "win", "lose", "ask"} :
        /\ turn' = [turn EXCEPT ![e].pc = l, ![e].kind = kind]
        /\ turn[e].pc \in {"act", "env", "finish", "raise"}
        /\ turn[e].pc = "act" => l = "raise" \/ ~runner[e].cancel
        /\ turn[e].pc = "raise" => l \in {"done", "error"}
  <2>1. turn[e].kind \in {"work", "win", "lose", "ask"}
    BY Now DEF Turns
  <2>2. CASE TurnAct(e)
    BY <2>2 DEF TurnAct, TurnGoto
  <2>3. CASE TurnEnv(e)
    BY <2>3 DEF TurnEnv, TurnGoto
  <2>4. CASE TurnFinish(e)
    BY <2>1, <2>4 DEF TurnFinish, TurnGoto
  <2>5. CASE TurnRaise(e)
    BY <2>1, <2>5 DEF TurnRaise, TurnGoto
  <2> QED  BY <2>2, <2>3, <2>4, <2>5 DEF TurnThread
<1> DEFINE y == [turn[e] EXCEPT !.pc = l, !.kind = kind]
<1>3. y \in Turns /\ y.pc = l /\ y.late = turn[e].late /\ y.abandoned = turn[e].abandoned
  BY Now DEF Turns
<1>4. turn' = [turn EXCEPT ![e] = y]
  BY <1>2
<1> HIDE DEF y
<1>5. PlaceOf(pc[e], runner[e], reset[e], y)
  <2>1. PlaceOf(pc[e], runner[e], reset[e], turn[e])
    BY Now
  <2>2. reset[e].pc # "none"
    BY <1>2, <2>1 DEF PlaceOf, NoTurn
  <2>3. pc[e] # "commit"
    BY <1>2, <2>1 DEF PlaceOf
  <2> QED  BY <1>2, <1>3, <2>1, <2>2, <2>3 DEF PlaceOf
<1>6. /\ RemoteTyped' /\ Elsewhere(e)
      /\ HandledOf(reset[e], handle'[e], closeCalls'[e])
      /\ TrackedOf(pc[e], reset[e], handle'[e], opened'[e], closing'[e], unclosed'[e])
  BY <1>1, Claims, Leaves
<1> QED
  BY <1>1, <1>3, <1>4, <1>5, <1>6, OneEpisode

\* A step of the reset thread.
LEMMA ResetStep ==
    ASSUME IInv, NEW e \in Episodes,
           UNCHANGED <<batch, active, pc, outcome, runner, expired, turn>>,
           NEW x \in Resets, reset' = [reset EXCEPT ![e] = x],
           reset[e].pc \in Resetting, x.pc # "none", x.abandoned = reset[e].abandoned,
           RemoteTyped', Elsewhere(e), HandledOf(x, handle'[e], closeCalls'[e]),
           TrackedOf(pc[e], x, handle'[e], opened'[e], closing'[e], unclosed'[e])
    PROVE  IInv'
<1>1. /\ batch' \in Batches /\ active' \subseteq Episodes
      /\ pc' = [pc EXCEPT ![e] = pc[e]] /\ pc[e] \in Places
      /\ outcome' = [outcome EXCEPT ![e] = outcome[e]] /\ outcome[e] \in Outcomes
      /\ expired' = [expired EXCEPT ![e] = expired[e]] /\ expired[e] \in BOOLEAN
      /\ runner' = [runner EXCEPT ![e] = runner[e]] /\ runner[e] \in Runners
      /\ turn' = [turn EXCEPT ![e] = turn[e]] /\ turn[e] \in Turns
  BY Typed, Keeps, Now DEF IInv
<1>2. PlaceOf(pc[e], runner[e], x, turn[e])
  BY Now DEF PlaceOf, Early, Resetting
<1> QED
  BY <1>1, <1>2, OneEpisode, ZenonT(40)
\* A step of the reset thread that changes its place only.
LEMMA ResetMoves ==
    ASSUME IInv, NEW e \in Episodes,
           NEW l \in {"reset", "retry", "finish", "raise", "result", "error", "dropped"},
           UNCHANGED <<batch, active, pc, outcome, runner, expired, turn, remoteVars>>,
           ResetGoto(e, l), reset[e].pc \in Resetting \ {"again"},
           l \in {"result", "error"} => ~reset[e].abandoned
    PROVE  IInv'
<1> DEFINE x == [reset[e] EXCEPT !.pc = l]
<1>1. x \in Resets /\ x.pc = l /\ x.attempt = reset[e].attempt
      /\ x.abandoned = reset[e].abandoned
  BY Now DEF Resets, Resetting
<1>2. reset' = [reset EXCEPT ![e] = x]
  BY DEF ResetGoto
<1> HIDE DEF x
<1>3. RemoteTyped' /\ Elsewhere(e)
  BY Typed DEF IInv, RemoteTyped, Elsewhere, remoteVars
<1>4. HandledOf(x, handle[e], closeCalls[e])
  <2>1. HandledOf(reset[e], handle[e], closeCalls[e])
    BY Now
  <2>2. 0 <= 1
    OBVIOUS
  <2> QED  BY <1>1, <2>1, <2>2 DEF HandledOf, Resetting
<1>5. TrackedOf(pc[e], x, handle[e], opened[e], closing[e], unclosed[e])
  <2>1. /\ TrackedOf(pc[e], reset[e], handle[e], opened[e], closing[e], unclosed[e])
        /\ PlaceOf(pc[e], runner[e], reset[e], turn[e])
    BY Now
  <2>2. l \in {"result", "error"} => pc[e] = "reset"
    BY <2>1 DEF PlaceOf
  <2> QED  BY <1>1, <2>1, <2>2 DEF TrackedOf, Resetting
<1>6. x.pc # "none"
  BY <1>1 DEF Resetting
<1>7. /\ HandledOf(x, handle'[e], closeCalls'[e])
      /\ TrackedOf(pc[e], x, handle'[e], opened'[e], closing'[e], unclosed'[e])
  BY <1>4, <1>5 DEF remoteVars
<1> QED
  BY <1>1, <1>2, <1>3, <1>6, <1>7, ResetStep

LEMMA StepResetCreate ==
    ASSUME IInv, NEW e \in Episodes, ResetCreate(e)
    PROVE  IInv'
<1>0. PICK i : i = reset[e].attempt
  OBVIOUS
<1>1. /\ reset[e].pc = "create" /\ i \in Envs /\ reset[e].pc \in Resetting \ {"again"}
      /\ UNCHANGED <<batch, active, pc, outcome, runner, expired, turn>>
  BY <1>0, Now DEF ResetCreate, Resets, Resetting
<1>2. CASE /\ opened' = [opened EXCEPT ![e] = @ \cup {i}]
           /\ handle' = [handle EXCEPT ![e] = i] /\ UNCHANGED unclosed
           /\ ResetGoto(e, "reset")
  <2> DEFINE x == [reset[e] EXCEPT !.pc = "reset"]
  <2>1. x \in Resets /\ x.pc = "reset" /\ x.attempt = i /\ x.abandoned = reset[e].abandoned
    BY <1>0, Now DEF Resets
  <2>2. reset' = [reset EXCEPT ![e] = x]
    BY <1>2 DEF ResetGoto
  <2> HIDE DEF x
  <2>3. /\ RemoteTyped' /\ Elsewhere(e) /\ handle'[e] = i /\ opened'[e] = opened[e] \cup {i}
        /\ closeCalls' = closeCalls /\ closing' = closing /\ unclosed' = unclosed
    BY <1>1, <1>2, Typed DEF IInv, RemoteTyped, Elsewhere, ResetCreate
  <2>4. HandledOf(reset[e], handle[e], closeCalls[e])
        /\ TrackedOf(pc[e], reset[e], handle[e], opened[e], closing[e], unclosed[e])
    BY Now
  <2>5. closeCalls[e][i] = 0 /\ handle[e] = NoEnv /\ opened[e] \subseteq Envs
    BY <1>0, <1>1, <2>4, Now DEF HandledOf
  <2>6. HandledOf(x, i, closeCalls[e])
    BY <1>0, <2>1, <2>4, <2>5 DEF HandledOf
  <2>7. NoEnv \notin Envs
    BY BatchAssumption DEF NoEnv, Envs
  <2>8. opened[e] \cup {i} \subseteq unclosed[e] \cup closing[e] \cup {i}
    BY <2>4, <2>5, <2>7 DEF TrackedOf
  <2>9. TrackedOf(pc[e], x, i, opened[e] \cup {i}, closing[e], unclosed[e])
    BY <2>1, <2>8 DEF TrackedOf
  <2>10. x.pc # "none" /\ reset[e].pc \in Resetting
    BY <1>1, <2>1
  <2> QED  BY <1>1, <2>1, <2>2, <2>3, <2>6, <2>9, <2>10, ResetStep
<1>3. ASSUME NEW l \in {"raise", "retry"}, ResetGoto(e, l), UNCHANGED <<opened, unclosed, handle>>
      PROVE  IInv'
  <2>1. UNCHANGED remoteVars
    BY <1>3 DEF ResetCreate, remoteVars
  <2> QED  BY <1>1, <1>3, <2>1, ResetMoves DEF Resetting
<1>4. ASSUME NEW l \in {"raise", "retry"}, ResetGoto(e, l), UNCHANGED handle,
             opened' = [opened EXCEPT ![e] = @ \cup {i}],
             unclosed' = [unclosed EXCEPT ![e] = @ \cup {i}]
      PROVE  IInv'
  <2> DEFINE x == [reset[e] EXCEPT !.pc = l]
  <2>1. x \in Resets /\ x.pc = l /\ x.attempt = i /\ x.abandoned = reset[e].abandoned
    BY <1>0, Now DEF Resets
  <2>2. reset' = [reset EXCEPT ![e] = x]
    BY <1>4 DEF ResetGoto
  <2> HIDE DEF x
  <2>3. /\ RemoteTyped' /\ Elsewhere(e) /\ handle' = handle
        /\ opened'[e] = opened[e] \cup {i} /\ unclosed'[e] = unclosed[e] \cup {i}
        /\ closeCalls' = closeCalls /\ closing' = closing
    BY <1>1, <1>4, Typed DEF IInv, RemoteTyped, Elsewhere, ResetCreate
  <2>4. HandledOf(reset[e], handle[e], closeCalls[e])
        /\ TrackedOf(pc[e], reset[e], handle[e], opened[e], closing[e], unclosed[e])
    BY Now
  <2>5. HandledOf(x, handle'[e], closeCalls'[e])
    <3>1. 0 <= 1
      OBVIOUS
    <3> QED  BY <1>0, <1>1, <2>1, <2>3, <2>4, <3>1 DEF HandledOf
  <2>6. TrackedOf(pc[e], x, handle'[e], opened'[e], closing'[e], unclosed'[e])
    BY <2>1, <2>3, <2>4 DEF TrackedOf
  <2>7. x.pc # "none" /\ reset[e].pc \in Resetting
    BY <1>1, <2>1
  <2> QED  BY <1>1, <2>1, <2>2, <2>3, <2>5, <2>6, <2>7, ResetStep
<1> QED
  BY <1>0, <1>2, <1>3, <1>4 DEF ResetCreate

LEMMA StepResetReset ==
    ASSUME IInv, NEW e \in Episodes, ResetReset(e)
    PROVE  IInv'
<1>1. /\ reset[e].pc \in Resetting \ {"again"}
      /\ UNCHANGED <<batch, active, pc, outcome, runner, expired, turn, remoteVars>>
  BY DEF ResetReset, Resetting
<1>2. PICK l \in {"finish", "raise", "retry"} : ResetGoto(e, l)
  BY DEF ResetReset
<1> QED
  BY <1>1, <1>2, ResetMoves DEF Resetting

\* Before another attempt the environment of the last one is closed.
LEMMA StepResetRetry ==
    ASSUME IInv, NEW e \in Episodes, ResetRetry(e)
    PROVE  IInv'
<1>0. PICK h : h = handle[e]
  OBVIOUS
<1>1. /\ reset[e].pc = "retry" /\ reset[e].pc \in Resetting \ {"again"}
      /\ UNCHANGED <<batch, active, pc, outcome, runner, expired, turn, handle, opened, unclosed>>
  BY DEF ResetRetry, Resetting
<1>2. /\ HandledOf(reset[e], h, closeCalls[e]) /\ reset[e] \in Resets
      /\ TrackedOf(pc[e], reset[e], h, opened[e], closing[e], unclosed[e])
      /\ opened[e] \subseteq Envs /\ closeCalls[e] \in [Envs -> Nat] /\ NoEnv \notin Envs
  BY <1>0, Now, BatchAssumption DEF NoEnv, Envs
<1>3. RemoteTyped
  BY Typed DEF IInv
<1> DEFINE x == [reset[e] EXCEPT !.pc = "again"]
<1>4. x \in Resets /\ x.pc = "again" /\ x.attempt = reset[e].attempt
      /\ x.abandoned = reset[e].abandoned
  BY <1>2 DEF Resets
<1>5. ResetGoto(e, "again") => reset' = [reset EXCEPT ![e] = x]
  BY DEF ResetGoto
<1> HIDE DEF x
<1>6. CASE ResetGoto(e, "raise") /\ UNCHANGED <<closing, closeCalls>>
  <2>1. UNCHANGED remoteVars
    BY <1>1, <1>6 DEF remoteVars
  <2> QED  BY <1>1, <1>6, <2>1, ResetMoves DEF Resetting
<1>7. CASE /\ reset[e].attempt < Attempts /\ h = NoEnv
           /\ ResetGoto(e, "again") /\ UNCHANGED <<closing, closeCalls>>
  <2>1. RemoteTyped' /\ Elsewhere(e)
    BY <1>1, <1>3, <1>7 DEF RemoteTyped, Elsewhere
  <2>2. HandledOf(x, h, closeCalls[e])
    BY <1>1, <1>2, <1>4, <1>7 DEF HandledOf
  <2>3. opened[e] \subseteq unclosed[e] \cup closing[e]
    BY <1>2, <1>7 DEF TrackedOf
  <2>4. TrackedOf(pc[e], x, h, opened[e], closing[e], unclosed[e])
    BY <1>4, <2>3 DEF TrackedOf
  <2>5. /\ HandledOf(x, handle'[e], closeCalls'[e])
        /\ TrackedOf(pc[e], x, handle'[e], opened'[e], closing'[e], unclosed'[e])
    BY <1>0, <1>1, <1>7, <2>2, <2>4
  <2> QED  BY <1>1, <1>4, <1>5, <1>7, <2>1, <2>5, ResetStep
<1>8. CASE /\ reset[e].attempt < Attempts /\ h # NoEnv
           /\ SendClose(e, h) /\ ResetGoto(e, "again")
  <2>1. h \in Envs /\ h = reset[e].attempt
    BY <1>2, <1>8 DEF HandledOf, Resets
  <2>2. /\ closing' = [closing EXCEPT ![e] = @ \cup {h}]
        /\ closeCalls' = [closeCalls EXCEPT ![e][h] = @ + 1]
    BY <1>8 DEF SendClose
  <2>3. /\ closing' \in [Episodes -> SUBSET Envs] /\ closing'[e] = closing[e] \cup {h}
        /\ \A d \in Episodes \ {e} : closing'[d] = closing[d]
    BY <1>3, <2>1, <2>2 DEF RemoteTyped
  <2>4. /\ closeCalls' \in [Episodes -> [Envs -> Nat]]
        /\ \A i \in Envs : i # h => closeCalls'[e][i] = closeCalls[e][i]
        /\ \A d \in Episodes \ {e} : closeCalls'[d] = closeCalls[d]
    BY <1>3, <2>1, <2>2 DEF RemoteTyped
  <2>5. RemoteTyped' /\ Elsewhere(e)
    BY <1>1, <1>3, <2>3, <2>4 DEF RemoteTyped, Elsewhere
  <2>6. HandledOf(x, handle'[e], closeCalls'[e])
    <3>1. Envs \subseteq Int
      BY BatchAssumption DEF Envs
    <3> QED  BY <1>0, <1>1, <1>2, <1>4, <1>8, <2>1, <2>4, <3>1 DEF HandledOf
  <2>7. opened[e] \subseteq unclosed[e] \cup (closing[e] \cup {h})
    BY <1>2 DEF TrackedOf
  <2>8. TrackedOf(pc[e], x, handle'[e], opened'[e], closing'[e], unclosed'[e])
    BY <1>1, <1>4, <2>3, <2>7 DEF TrackedOf
  <2> QED  BY <1>1, <1>4, <1>5, <1>8, <2>5, <2>6, <2>8, ResetStep
<1> QED
  BY <1>0, <1>6, <1>7, <1>8 DEF ResetRetry

LEMMA StepResetAgain ==
    ASSUME IInv, NEW e \in Episodes, ResetAgain(e)
    PROVE  IInv'
<1>0. PICK n : n = reset[e].attempt
  OBVIOUS
<1>1. /\ reset[e].pc = "again" /\ reset[e].pc \in Resetting
      /\ UNCHANGED <<batch, active, pc, outcome, runner, expired, turn>>
      /\ handle' = [handle EXCEPT ![e] = NoEnv]
      /\ opened' = opened /\ closing' = closing /\ closeCalls' = closeCalls
      /\ unclosed' = unclosed
  BY DEF ResetAgain, Resetting
<1>2. /\ HandledOf(reset[e], handle[e], closeCalls[e]) /\ reset[e] \in Resets
      /\ TrackedOf(pc[e], reset[e], handle[e], opened[e], closing[e], unclosed[e])
  BY Now
<1>3. n \in Envs /\ n < Attempts /\ n + 1 \in Envs /\ n + 1 > n
  <2>1. n \in Envs /\ n < Attempts
    BY <1>0, <1>1, <1>2 DEF HandledOf, Resets
  <2> QED  BY <2>1, BatchAssumption DEF Envs
<1> DEFINE x == [reset[e] EXCEPT !.pc = "create", !.attempt = n + 1]
<1>4. x \in Resets /\ x.pc = "create" /\ x.attempt = n + 1 /\ x.abandoned = reset[e].abandoned
  BY <1>2, <1>3 DEF Resets
<1>5. reset' = [reset EXCEPT ![e] = x]
  BY <1>0 DEF ResetAgain
<1> HIDE DEF x
<1>6. RemoteTyped' /\ Elsewhere(e) /\ handle'[e] = NoEnv
  BY <1>1, Typed DEF IInv, RemoteTyped, Elsewhere
<1>7. HandledOf(x, NoEnv, closeCalls[e])
  <2>1. \A i \in Envs : i > n => closeCalls[e][i] = 0
    BY <1>0, <1>2 DEF HandledOf
  <2>2. closeCalls[e][n + 1] = 0
    BY <1>3, <2>1
  <2>3. \A i \in Envs : i > n + 1 => i > n
    BY <1>3, BatchAssumption DEF Envs
  <2> QED  BY <1>4, <2>1, <2>2, <2>3 DEF HandledOf
<1>8. TrackedOf(pc[e], x, NoEnv, opened[e], closing[e], unclosed[e])
  BY <1>1, <1>2, <1>4 DEF TrackedOf
<1>9. x.pc # "none"
  BY <1>4
<1> QED
  BY <1>1, <1>4, <1>5, <1>6, <1>7, <1>8, <1>9, ResetStep

LEMMA StepResetFinish ==
    ASSUME IInv, NEW e \in Episodes, ResetFinish(e)
    PROVE  IInv'
<1>1. /\ reset[e].pc = "finish" /\ reset[e].pc \in Resetting \ {"again"}
      /\ UNCHANGED <<batch, active, pc, outcome, runner, expired, turn>>
  BY DEF ResetFinish, Resetting
<1>2. CASE reset[e].abandoned
  <2> DEFINE x == [reset[e] EXCEPT !.pc = "done"]
  <2>1. x \in Resets /\ x.pc = "done" /\ x.attempt = reset[e].attempt
        /\ x.abandoned = reset[e].abandoned
    BY Now DEF Resets
  <2>2. reset' = [reset EXCEPT ![e] = x] /\ Claim(e)
    BY <1>2 DEF ResetFinish, ResetGoto
  <2> HIDE DEF x
  <2>3. /\ RemoteTyped' /\ Elsewhere(e) /\ HandledOf(x, handle'[e], closeCalls'[e])
        /\ TrackedOf(pc[e], x, handle'[e], opened'[e], closing'[e], unclosed'[e])
    BY <1>1, <2>1, <2>2, Now, Claims
  <2>4. x.pc # "none" /\ reset[e].pc \in Resetting
    BY <1>1, <2>1
  <2> QED  BY <1>1, <2>1, <2>2, <2>3, <2>4, ResetStep
<1>3. CASE ~reset[e].abandoned
  <2>1. ResetGoto(e, "result") /\ UNCHANGED remoteVars
    BY <1>3 DEF ResetFinish
  <2> QED  BY <1>1, <1>3, <2>1, ResetMoves DEF Resetting
<1> QED
  BY <1>2, <1>3

LEMMA StepResetRaise ==
    ASSUME IInv, NEW e \in Episodes, ResetRaise(e)
    PROVE  IInv'
<1>1. /\ reset[e].pc \in Resetting \ {"again"}
      /\ UNCHANGED <<batch, active, pc, outcome, runner, expired, turn, remoteVars>>
  BY DEF ResetRaise, Resetting
<1>2. CASE reset[e].abandoned
  BY <1>1, <1>2, ResetMoves DEF ResetRaise, Resetting
<1>3. CASE ~reset[e].abandoned
  BY <1>1, <1>3, ResetMoves DEF ResetRaise, Resetting
<1> QED
  BY <1>2, <1>3
-----------------------------------------------------------------------------
(* The theorems. *)

LEMMA InitIInv == Init => IInv
<1> SUFFICES ASSUME Init PROVE IInv
  OBVIOUS
<1>1. /\ 1 \in Envs /\ NoEnv = 0 /\ 0 \in 0..BaseTurns + RecoveryTurns /\ 0 \in Nat /\ 0 <= 1
      /\ BaseTurns \in BaseTurns..BaseTurns + RecoveryTurns
  BY BatchAssumption DEF Envs, NoEnv
<1>2. NoReset \in Resets /\ NoTurn \in Turns /\ FreshRunner \in Runners
  BY <1>1 DEF NoReset, NoTurn, FreshRunner, Resets, Turns, Runners
<1>3. /\ batch \in Batches /\ active \subseteq Episodes /\ pc \in [Episodes -> Places]
      /\ outcome \in [Episodes -> Outcomes] /\ expired \in [Episodes -> BOOLEAN]
  BY DEF Init, Fresh, Batches, Places, Outcomes
<1>4. /\ runner \in [Episodes -> Runners] /\ reset \in [Episodes -> Resets]
      /\ turn \in [Episodes -> Turns]
  BY <1>2 DEF Init, Fresh
<1>5. RemoteTyped
  BY <1>1 DEF Init, Fresh, RemoteTyped
<1>6. TypeOK
  BY <1>3, <1>4, <1>5, Typed
<1>7. ASSUME NEW e \in Episodes PROVE Place(e) /\ Handled(e) /\ Tracked(e)
  <2>1. /\ pc[e] = "queued" /\ reset[e] = NoReset /\ turn[e] = NoTurn /\ handle[e] = NoEnv
        /\ opened[e] = {} /\ \A i \in Envs : closeCalls[e][i] = 0
    BY DEF Init, Fresh
  <2>2. Place(e)
    BY <2>1 DEF Place, PlaceOf, NoReset, NoTurn, Early, Midway, Ending, Resetting
  <2>3. Handled(e)
    BY <1>1, <2>1 DEF Handled, HandledOf, NoReset
  <2>4. Tracked(e)
    BY <2>1 DEF Tracked, TrackedOf, NoReset
  <2> QED  BY <2>2, <2>3, <2>4
<1> QED
  BY <1>6, <1>7 DEF IInv

LEMMA NextIInv == IInv /\ [Next]_vars => IInv'
<1> SUFFICES ASSUME IInv, [Next]_vars PROVE IInv'
  OBVIOUS
<1>1. CASE UNCHANGED vars
  BY <1>1, StepLooks
<1>2. ASSUME NEW e \in Episodes, Runner(e) PROVE IInv'
  BY <1>2, StepPool, StepCheck, StepClose, StepSettle, StepBeginStart, StepResetReturned,
     StepTimeouts, StepGiveUp, StepLoop, StepStep, StepCommit, StepFlag, StepResult DEF Runner
<1>3. ASSUME NEW e \in Episodes, ResetThread(e) PROVE IInv'
  BY <1>3, StepResetCreate, StepResetReset, StepResetRetry, StepResetAgain, StepResetFinish,
     StepResetRaise DEF ResetThread
<1>4. CASE Harness
  BY <1>4, StepLooks, StepCallRunner, StepPool DEF Harness
<1> QED
  BY <1>1, <1>2, <1>3, <1>4, StepTurnThread, StepLooks, StepAnswered DEF Next, Over

\* Nobody counts a turn for an episode, nobody takes one back, and nobody asks.
Stays(d) ==
    /\ runner'[d].turns = runner[d].turns /\ runner'[d].won = runner[d].won
    /\ runner'[d].waiting => runner[d].waiting

LEMMA InterruptStays ==
    ASSUME IInv, NEW e \in Episodes, Interrupt(e), NEW d \in Episodes
    PROVE  Stays(d)
<1> DEFINE r == [Failed(runner[e]) EXCEPT !.cancel = TRUE]
<1>1. r.turns = runner[e].turns /\ r.won = runner[e].won /\ ~r.waiting
  BY Now, FailedTyped
<1>2. runner' = [runner EXCEPT ![e] = r] /\ runner \in [Episodes -> Runners]
  BY Typed DEF IInv, Interrupt
<1> HIDE DEF r
<1> QED
  BY <1>1, <1>2 DEF Stays

\* Only the commit of a turn and a new start touch the count of turns, and only its
\* flags ask.
LEMMA RunnerStays ==
    ASSUME IInv, NEW e \in Episodes, NEW d \in Episodes, Runner(e),
           ~Commit(e), ~Flag(e), ~BeginStart(e)
    PROVE  Stays(d)
<1>1. runner \in [Episodes -> Runners]
  BY Typed DEF IInv
<1>2. CASE UNCHANGED runner
  BY <1>2 DEF Stays
<1>3. CASE Interrupt(e)
  BY <1>3, InterruptStays
<1>4. CASE Close(e)
  <2>1. runner' = [runner EXCEPT ![e] = [runner[e] EXCEPT !.mine = handle[e]]]
    BY <1>4 DEF Close
  <2> QED  BY <1>1, <2>1 DEF Stays, Runners
<1>5. CASE runner' = [runner EXCEPT ![e].started = TRUE]
  BY <1>1, <1>5 DEF Stays, Runners
<1>6. CASE Result(e)
  <2>1. PICK b : b = (\/ runner[e].truncated
                      \/ /\ runner[e].started /\ ~runner[e].terminated
                         /\ runner[e].turns >= runner[e].limit)
    OBVIOUS
  <2>2. runner' = [runner EXCEPT ![e] = [runner[e] EXCEPT !.truncated = b]]
    BY <1>6, <2>1 DEF Result
  <2> QED  BY <1>1, <2>2 DEF Stays, Runners
<1> QED
  BY <1>2, <1>3, <1>4, <1>5, <1>6
     DEF Runner, Start, Register, CheckCancelled, Settle, ResetReturned, ResetTimeout,
         GiveUp, Loop, Step, TurnReturned, TurnTimeout

LEMMA LateStep ==
    ASSUME IInv, [Next]_vars, NEW d \in Episodes,
           reset[d].abandoned \/ turn[d].abandoned \/ turn[d].late
    PROVE  Stays(d)
<1>0. runner \in [Episodes -> Runners] /\ PlaceOf(pc[d], runner[d], reset[d], turn[d])
  BY Typed, Now DEF IInv
<1>1. CASE UNCHANGED runner
  BY <1>1 DEF Stays
<1>2. ASSUME NEW e \in Episodes, Commit(e) PROVE Stays(d)
  <2>1. pc[e] = "commit"
    BY <1>2 DEF Commit
  <2>2. d # e
    BY <1>0, <2>1 DEF PlaceOf, Ending
  <2>3. runner'[d] = runner[d]
    BY <1>0, <1>2, <2>2 DEF Commit
  <2> QED  BY <2>3 DEF Stays
<1>7. ASSUME NEW e \in Episodes, Flag(e) PROVE Stays(d)
  <2>1. pc[e] = "flags"
    BY <1>7 DEF Flag
  <2>2. d # e
    BY <1>0, <2>1 DEF PlaceOf, Ending
  <2>3. runner'[d] = runner[d]
    BY <1>0, <1>7, <2>2, FlagEffect
  <2> QED  BY <2>3 DEF Stays
<1>3. ASSUME NEW e \in Episodes, BeginStart(e) PROVE Stays(d)
  <2>1. pc[e] = "start"
    BY <1>3 DEF BeginStart
  <2>2. d # e
    BY <1>0, <2>1 DEF PlaceOf, Early, Ending, NoReset, NoTurn
  <2>3. runner'[d] = runner[d]
    BY <1>0, <1>3, <2>2 DEF BeginStart
  <2> QED  BY <2>3 DEF Stays
<1>4. ASSUME NEW e \in Episodes, Runner(e) PROVE Stays(d)
  BY <1>2, <1>3, <1>4, <1>7, RunnerStays
<1>5. ASSUME NEW e \in Episodes, \/ ResetThread(e) \/ TurnThread(e) \/ Expire(e)
                                \/ \E i \in Envs : CloseAnswered(e, i)
      PROVE  UNCHANGED runner
  BY <1>5 DEF ResetThread, ResetCreate, ResetReset, ResetRetry, ResetAgain, ResetFinish,
              ResetRaise, TurnThread, TurnAct, TurnEnv, TurnFinish, TurnRaise, Expire,
              CloseAnswered
<1>6. CASE Harness
  <2>1. ASSUME NEW e \in Episodes, CallRunner(e) PROVE Stays(d)
    BY <2>1, InterruptStays DEF CallRunner
  <2> QED  BY <1>1, <1>6, <2>1 DEF Harness, BatchInterrupt, ListActive, CancelQueued
<1> QED
  BY <1>1, <1>4, <1>5, <1>6 DEF Next, Over, vars

\* However pool threads, reset threads, turn threads and the interrupt interleave,
\* they agree on each episode's place, its handle and its environment.
THEOREM Inductive == Spec => []IInv
<1> QED  BY InitIInv, NextIInv, PTL DEF Spec

\* The state of a batch keeps its types, the counts of turns their budgets, for
\* any number of episodes, pool threads, turns and startup attempts.
THEOREM TypeCorrect == Spec => []TypeOK
<1>1. IInv => TypeOK
  BY DEF IInv
<1> QED  BY <1>1, Inductive, PTL

\* However many threads want an environment closed (the runner, an interrupt, a
\* late reset, a late turn), one close_env is sent for it, but for a reset that
\* retries.
THEOREM ClosedOnceCorrect == Spec => []ClosedOnce
<1>1. ASSUME IInv PROVE ClosedOnce
  <2> SUFFICES ASSUME NEW e \in Episodes, NEW i \in Envs, closeCalls[e][i] > 1,
                      reset[e].pc # "again"
               PROVE  i < reset[e].attempt
    BY DEF ClosedOnce
  <2>1. /\ HandledOf(reset[e], handle[e], closeCalls[e]) /\ reset[e].attempt \in Envs
        /\ closeCalls[e][i] \in Nat
    BY <1>1, Now DEF Resets
  <2>2. ~(i > reset[e].attempt) /\ i # reset[e].attempt
    BY <2>1 DEF HandledOf
  <2> QED  BY <2>1, <2>2, BatchAssumption DEF Envs
<1> QED  BY <1>1, Inductive, PTL

\* Once an episode, its reset thread and its closes are at rest, nothing is open but
\* what nobody can close, and what an abandoned reset that raised still holds.
THEOREM NothingLeftCorrect == Spec => []NothingLeft
<1>1. ASSUME IInv PROVE NothingLeft
  <2> SUFFICES ASSUME NEW e \in Episodes, Quiet(e)
               PROVE  opened[e] \subseteq
                        unclosed[e] \cup (IF reset[e].pc = "dropped" THEN {handle[e]} ELSE {})
    BY DEF NothingLeft
  <2>1. /\ PlaceOf(pc[e], runner[e], reset[e], turn[e])
        /\ HandledOf(reset[e], handle[e], closeCalls[e])
        /\ TrackedOf(pc[e], reset[e], handle[e], opened[e], closing[e], unclosed[e])
        /\ opened[e] \subseteq Envs
    BY <1>1, Now
  <2>2. /\ pc[e] \in {"settled", "cancelled"} /\ closing[e] = {}
        /\ reset[e].pc \in {"none", "result", "error", "done", "dropped"}
    BY DEF Quiet
  <2>3. opened[e] \subseteq unclosed[e] \cup {handle[e]}
    BY <2>1, <2>2 DEF TrackedOf
  <2>4. reset[e].pc # "dropped" => handle[e] = NoEnv
    BY <2>1, <2>2 DEF PlaceOf, HandledOf, TrackedOf, Early
  <2>5. NoEnv \notin Envs
    BY BatchAssumption DEF NoEnv, Envs
  <2> QED  BY <2>1, <2>3, <2>4, <2>5
<1> QED  BY <1>1, Inductive, PTL

\* Nothing is committed for an episode whose reset or turn was abandoned, nor by
\* a turn that began when its runner was cancelled.
THEOREM LateCorrect == Spec => LateTurnNeverCommits
<1>1. ASSUME IInv, [Next]_vars
      PROVE  [\A e \in Episodes :
                 GivenUp(e) => runner'[e].turns = runner[e].turns
                               /\ runner'[e].won = runner[e].won]_vars
  BY <1>1, LateStep DEF Stays, GivenUp
<1> QED  BY <1>1, Inductive, PTL DEF Spec, LateTurnNeverCommits

-----------------------------------------------------------------------------
(* The ledger. *)

\* What is reported of an episode at p, with outcome o and runner r: what the turns
\* came to.
ReportedOf(p, o, r) ==
    /\ p \in Early => r.turns = 0 /\ ~r.won
    /\ r.waiting \/ p = "flags" => r.turns > 0
    /\ o = "success" => r.won
    /\ o = "need_human" => r.turns > 0
    /\ p \in {"close", "closing", "settled"} => o # "none"

Reported ==
    /\ batch.pc # "running" => batch.cancelled
    /\ \A e \in Episodes : ReportedOf(pc[e], outcome[e], runner[e])

\* A step of one episode.
Only(e) ==
    \A d \in Episodes \ {e} :
        /\ pc'[d] = pc[d] /\ outcome'[d] = outcome[d] /\ runner'[d] = runner[d]
        /\ reset'[d] = reset[d] /\ turn'[d] = turn[d]

LEMMA OnlyPool ==
    ASSUME IInv, NEW e \in Episodes, Runner(e)
    PROVE  Only(e) /\ batch' = batch
<1>1. /\ pc \in [Episodes -> Places] /\ outcome \in [Episodes -> Outcomes]
      /\ runner \in [Episodes -> Runners] /\ reset \in [Episodes -> Resets]
      /\ turn \in [Episodes -> Turns]
  BY Typed DEF IInv
<1>2. CASE Start(e) \/ Register(e) \/ CheckCancelled(e) \/ Close(e) \/ Settle(e)
  BY <1>1, <1>2 DEF Start, Register, CheckCancelled, Close, Settle, Goto, Raise, Interrupt,
                    Only, threadVars
<1>3. CASE BeginStart(e) \/ ResetReturned(e) \/ ResetTimeout(e) \/ GiveUp(e) \/ Loop(e)
  BY <1>1, <1>3 DEF BeginStart, ResetReturned, ResetTimeout, GiveUp, Loop, Goto, Raise,
                    Interrupt, Only, threadVars
<1>4. CASE Step(e) \/ TurnReturned(e) \/ TurnTimeout(e)
  BY <1>1, <1>4 DEF Step, TurnReturned, TurnTimeout, Goto, Raise, Interrupt, Only, threadVars
<1>5. CASE Result(e)
  BY <1>1, <1>5 DEF Result, Goto, Only, threadVars
<1>6. CASE Commit(e)
  BY <1>1, <1>6 DEF Commit, Goto, Raise, Only
<1>7. CASE Flag(e)
  <2>1. PICK r : runner' = [runner EXCEPT ![e] = r]
    BY <1>7, FlagEffect
  <2> QED  BY <1>1, <1>7, <2>1 DEF Flag, Goto, Raise, Only, threadVars
<1> QED
  BY <1>2, <1>3, <1>4, <1>5, <1>6, <1>7 DEF Runner

\* What the ledger has of an episode's turns stays.
Same(e) ==
    /\ GivenUp(e)' = GivenUp(e)
    /\ runner'[e].turns = runner[e].turns /\ runner'[e].won = runner[e].won

\* What a step of one episode may do to the ledger.
Begins(e) ==
    /\ Phase(e) = "waiting" /\ Cardinality(Running) < Concurrency
    /\ Phase(e)' = "running" /\ Outcome(e)' = Outcome(e) /\ Same(e)

CommitsTurn(e) ==
    /\ Phase(e) = "running" /\ ~GivenUp(e) /\ runner[e].turns < BaseTurns + RecoveryTurns
    /\ Phase(e)' = Phase(e) /\ Outcome(e)' = Outcome(e) /\ GivenUp(e)' = GivenUp(e)
    /\ runner'[e].turns = runner[e].turns + 1
    /\ runner'[e].won = runner[e].won \/ runner'[e].won = TRUE

GivesUp(e) ==
    /\ Phase(e) = "running" /\ ~GivenUp(e) /\ GivenUp(e)'
    /\ Phase(e)' = Phase(e) /\ Outcome(e)' = Outcome(e)
    /\ runner'[e].turns = runner[e].turns /\ runner'[e].won = runner[e].won

Settles(e) ==
    /\ Phase(e) = "running" /\ Phase(e)' = "settled" /\ Same(e)
    /\ \/ Outcome(e)' = "fail"
       \/ Outcome(e)' = "success" /\ runner[e].won
       \/ Outcome(e)' = "need_human" /\ runner[e].turns > 0

Cancels(e) ==
    /\ Phase(e) = "waiting" /\ batch.cancelled
    /\ Phase(e)' = "cancelled" /\ Outcome(e)' = Outcome(e) /\ Same(e)

LedgerKept(e) == Phase(e)' = Phase(e) /\ Outcome(e)' = Outcome(e) /\ Same(e)

LEMMA LedgerMoves ==
    ASSUME IInv, NEW e \in Episodes, Only(e), batch'.cancelled = batch.cancelled,
           \/ Begins(e) \/ CommitsTurn(e) \/ GivesUp(e) \/ Settles(e) \/ Cancels(e)
           \/ LedgerKept(e)
    PROVE  [Ledger!Next]_(Ledger!vars)
<1> DEFINE ph == [d \in Episodes |-> Phase(d)]
           gu == [d \in Episodes |-> GivenUp(d)]
           tu == [d \in Episodes |-> runner[d].turns]
           wo == [d \in Episodes |-> runner[d].won]
           ou == [d \in Episodes |-> Outcome(d)]
<1>1. ASSUME NEW d \in Episodes, d # e
      PROVE  /\ Phase(d)' = Phase(d) /\ GivenUp(d)' = GivenUp(d) /\ Outcome(d)' = Outcome(d)
             /\ runner'[d] = runner[d]
  <2>1. d \in Episodes \ {e}
    BY <1>1
  <2> QED  BY <2>1, Zenon DEF Only, Phase, GivenUp, Outcome
<1>2. /\ ph' = [ph EXCEPT ![e] = Phase(e)'] /\ tu' = [tu EXCEPT ![e] = runner'[e].turns]
      /\ wo' = [wo EXCEPT ![e] = runner'[e].won] /\ ou' = [ou EXCEPT ![e] = Outcome(e)']
  BY <1>1
<1>3. gu' = [gu EXCEPT ![e] = GivenUp(e)']
  BY <1>1, Zenon
<1>4. /\ Phase(e)' = Phase(e) => ph' = ph
      /\ runner'[e].turns = runner[e].turns => tu' = tu
      /\ runner'[e].won = runner[e].won => wo' = wo
      /\ Outcome(e)' = Outcome(e) => ou' = ou
  BY <1>1
<1>5. GivenUp(e)' = GivenUp(e) => gu' = gu
  BY <1>1, Zenon
<1>6. /\ ph[e] = Phase(e) /\ tu[e] = runner[e].turns /\ wo[e] = runner[e].won
      /\ ou[e] = Outcome(e)
  OBVIOUS
<1>7. gu[e] = GivenUp(e)
  BY Zenon
<1>8. Ledger!Running = Running
  <2>1. ASSUME NEW d \in Episodes
        PROVE  ph[d] = "running" <=> pc[d] \notin {"queued", "settled", "cancelled"}
    BY DEF Phase
  <2> QED  BY <2>1 DEF Running, Ledger!Running
<1>9. CASE Begins(e)
  <2>0. Ledger!Cardinality(Running) = Cardinality(Running)
    BY Zenon DEF Ledger!Cardinality, Cardinality
  <2>1. Ledger!Cardinality(Ledger!Running) < Concurrency
    BY <1>8, <1>9, <2>0 DEF Begins
  <2>2. ph[e] = "waiting" /\ ph' = [ph EXCEPT ![e] = "running"]
    BY <1>2, <1>6, <1>9, Zenon DEF Begins
  <2>3. UNCHANGED <<batch.cancelled, gu, tu, wo, ou>>
    BY <1>4, <1>5, <1>9, Zenon DEF Begins, Same
  <2>4. Ledger!Begin(e)
    BY <2>1, <2>2, <2>3, Zenon DEF Ledger!Begin
  <2> QED  BY <2>4 DEF Ledger!Next
<1>10. CASE CommitsTurn(e)
  <2>1. tu' = [tu EXCEPT ![e] = tu[e] + 1] /\ tu[e] < BaseTurns + RecoveryTurns
    BY <1>2, <1>6, <1>10 DEF CommitsTurn
  <2>2. wo' \in {wo, [wo EXCEPT ![e] = TRUE]}
    BY <1>2, <1>4, <1>10, Zenon DEF CommitsTurn
  <2>3. ph[e] = "running" /\ ~gu[e] /\ UNCHANGED <<batch.cancelled, ph, gu, ou>>
    BY <1>4, <1>5, <1>6, <1>7, <1>10, Zenon DEF CommitsTurn
  <2>4. Ledger!Commit(e)
    BY <2>1, <2>2, <2>3, Zenon DEF Ledger!Commit
  <2> QED  BY <2>4 DEF Ledger!Next
<1>11. CASE GivesUp(e)
  <2>1. gu' = [gu EXCEPT ![e] = TRUE]
    <3>1. GivenUp(e)' = TRUE
      BY <1>11, Zenon DEF GivesUp, GivenUp
    <3> QED  BY <1>3, <3>1, Zenon
  <2>2. Ledger!GiveUp(e)
    BY <1>4, <1>6, <1>7, <1>11, <2>1, Zenon DEF GivesUp, Ledger!GiveUp
  <2> QED  BY <2>2 DEF Ledger!Next
<1>12. CASE Settles(e)
  <2>1. Outcome(e)' \in Ledger!Reports(e)
    BY <1>6, <1>12 DEF Settles, Ledger!Reports
  <2>2. Ledger!Settle(e)
    BY <1>2, <1>4, <1>5, <1>6, <1>12, <2>1, Zenon DEF Settles, Same, Ledger!Settle
  <2> QED  BY <2>2 DEF Ledger!Next
<1>13. CASE Cancels(e)
  <2>1. Ledger!Cancel(e)
    BY <1>2, <1>4, <1>5, <1>6, <1>13, Zenon DEF Cancels, Same, Ledger!Cancel
  <2> QED  BY <2>1 DEF Ledger!Next
<1>14. CASE LedgerKept(e)
  <2>1. UNCHANGED <<batch.cancelled, ph, gu, tu, wo, ou>>
    BY <1>4, <1>5, <1>14, Zenon DEF LedgerKept, Same
  <2> QED  BY <2>1 DEF Ledger!vars
<1> QED
  BY <1>9, <1>10, <1>11, <1>12, <1>13, <1>14

\* The phases by the places, and what a place has to do with being given up.
LEMMA Phases ==
    ASSUME IInv, NEW e \in Episodes
    PROVE  /\ Phase(e) = "waiting" <=> pc[e] = "queued"
           /\ Phase(e) = "running" <=> pc[e] \notin {"queued", "settled", "cancelled"}
           /\ pc[e] \in {"settled", "cancelled"} => Phase(e) = pc[e]
           /\ pc[e] # "settled" => Outcome(e) = "none"
           /\ pc[e] = "settled" => Outcome(e) = outcome[e]
           /\ pc[e] \in Early \cup {"reset", "loop", "step", "commit", "flags"} => ~GivenUp(e)
<1>1. /\ PlaceOf(pc[e], runner[e], reset[e], turn[e]) /\ reset[e] \in Resets /\ turn[e] \in Turns
      /\ pc[e] \in Places
  BY Now
<1> QED
  BY <1>1 DEF Phase, Outcome, GivenUp, PlaceOf, Early, Midway, Ending, NoReset, NoTurn

\* A step of one episode that leaves its report right.
LEMMA ReportKept ==
    ASSUME Reported, NEW e \in Episodes, Only(e), batch' = batch,
           ReportedOf(pc'[e], outcome'[e], runner'[e])
    PROVE  Reported'
<1>1. ASSUME NEW d \in Episodes PROVE ReportedOf(pc'[d], outcome'[d], runner'[d])
  <2>1. CASE d = e
    BY <2>1
  <2>2. CASE d # e
    BY <2>2 DEF Reported, Only
  <2> QED  BY <2>1, <2>2
<1> QED
  BY <1>1 DEF Reported

\* An outcome the episode's turns have earned, or that it had.
Earned(e, o) ==
    \/ o = outcome[e] \/ o = "fail"
    \/ o = "success" /\ runner[e].won
    \/ o = "need_human" /\ runner[e].waiting

\* A step within an episode that runs, of its pool thread alone.
LEMMA PoolKeeps ==
    ASSUME IInv, Reported, NEW e \in Episodes, Runner(e), Stays(e), UNCHANGED threadVars,
           NEW p \in Places, NEW o \in Outcomes, pc'[e] = p, outcome'[e] = o,
           {pc[e], p} \cap {"queued", "settled", "cancelled"} = {},
           p \in Early => pc[e] \in Early, p # "flags", Earned(e, o),
           p = "close" => o # "none", p = "closing" => pc[e] = "close" /\ o = outcome[e]
    PROVE  [Ledger!Next]_(Ledger!vars) /\ Reported'
<1>1. Only(e) /\ batch' = batch
  BY OnlyPool
<1>2. LedgerKept(e)
  BY Zenon DEF LedgerKept, Same, Stays, Phase, Outcome, GivenUp, threadVars
<1>3. ReportedOf(pc[e], outcome[e], runner[e])
  BY DEF Reported
<1>4. ReportedOf(p, o, runner'[e])
  BY <1>3 DEF ReportedOf, Stays, Earned
<1> QED
  BY <1>1, <1>2, <1>4, LedgerMoves, ReportKept

LEMMA LedgerPool ==
    ASSUME IInv, Reported, NEW e \in Episodes,
           \/ CheckCancelled(e) \/ Close(e) \/ ResetReturned(e) \/ GiveUp(e)
           \/ Loop(e) \/ TurnReturned(e) \/ Result(e)
    PROVE  [Ledger!Next]_(Ledger!vars) /\ Reported'
<1>1. Runner(e) /\ ~Commit(e) /\ ~Flag(e) /\ ~BeginStart(e) /\ UNCHANGED threadVars
  BY DEF Runner, CheckCancelled, Close, ResetReturned, GiveUp, Loop, TurnReturned, Result,
         Commit, Flag, BeginStart
<1>2. Stays(e)
  BY <1>1, RunnerStays
<1>3. pc \in [Episodes -> Places] /\ outcome \in [Episodes -> Outcomes]
  BY Typed DEF IInv
<1>4. CASE CheckCancelled(e)
  <2>1. /\ pc[e] = "check"
        /\ \/ pc'[e] = "close" /\ outcome'[e] = "fail"
           \/ pc'[e] = "start" /\ outcome'[e] = outcome[e]
    BY <1>3, <1>4 DEF CheckCancelled, Raise, Goto
  <2> QED  BY <1>1, <1>2, <1>3, <2>1, PoolKeeps DEF Places, Outcomes, Early, Earned
<1>5. CASE Close(e)
  <2>1. pc[e] = "close" /\ pc'[e] = "closing" /\ outcome'[e] = outcome[e]
    BY <1>3, <1>5 DEF Close, Goto
  <2> QED  BY <1>1, <1>2, <1>3, <2>1, PoolKeeps DEF Places, Outcomes, Early, Earned
<1>6. CASE ResetReturned(e) \/ TurnReturned(e)
  <2>1. /\ pc[e] \in {"reset", "turn"}
        /\ \/ pc'[e] = "close" /\ outcome'[e] = "fail"
           \/ pc'[e] \in {"loop", "commit"} /\ outcome'[e] = outcome[e]
    BY <1>3, <1>6 DEF ResetReturned, TurnReturned, Raise, Goto
  <2> QED  BY <1>1, <1>2, <1>3, <2>1, PoolKeeps DEF Places, Outcomes, Early, Earned
<1>7. CASE GiveUp(e) \/ Loop(e)
  <2>1. /\ pc[e] \in {"giveup", "loop"}
        /\ pc'[e] \in {"result", "step"} /\ outcome'[e] = outcome[e]
    BY <1>3, <1>7 DEF GiveUp, Loop, Goto
  <2> QED  BY <1>1, <1>2, <1>3, <2>1, PoolKeeps DEF Places, Outcomes, Early, Earned
<1>8. CASE Result(e)
  <2>1. PICK o \in IF runner[e].waiting THEN {"need_human", "fail"}
                  ELSE IF runner[e].won THEN {"success", "fail"} ELSE {"fail"} :
             outcome' = [outcome EXCEPT ![e] = o]
    BY <1>8, Zenon DEF Result
  <2>2. \/ o = "fail"
        \/ o = "success" /\ runner[e].won
        \/ o = "need_human" /\ runner[e].waiting
    BY <2>1
  <2>3. Earned(e, o)
    BY <2>2, Zenon DEF Earned
  <2>4. o = "fail" \/ o = "success" \/ o = "need_human"
    BY <2>2, Zenon
  <2>5. pc[e] = "result" /\ pc'[e] = "close" /\ outcome'[e] = o
    BY <1>3, <1>8, <2>1 DEF Result, Goto
  <2>6. o \in Outcomes /\ o # "none"
    BY <2>4 DEF Outcomes
  <2> QED  BY <1>1, <1>2, <2>3, <2>5, <2>6, PoolKeeps DEF Places, Early
<1> QED
  BY <1>4, <1>5, <1>6, <1>7, <1>8

LEMMA LedgerStarts ==
    ASSUME IInv, Reported, NEW e \in Episodes, Start(e) \/ Register(e)
    PROVE  [Ledger!Next]_(Ledger!vars) /\ Reported'
<1>1. Runner(e) /\ ~Commit(e) /\ ~Flag(e) /\ ~BeginStart(e) /\ UNCHANGED threadVars
  BY DEF Runner, Start, Register, Commit, Flag, BeginStart
<1>2. Stays(e) /\ Only(e) /\ batch' = batch
  BY <1>1, RunnerStays, OnlyPool
<1>3. pc \in [Episodes -> Places] /\ outcome \in [Episodes -> Outcomes]
  BY Typed DEF IInv
<1>4. ReportedOf(pc[e], outcome[e], runner[e])
  BY DEF Reported
<1>5. Same(e)
  BY <1>1, <1>2, Zenon DEF Same, Stays, GivenUp, threadVars
<1>6. CASE Start(e)
  <2>1. /\ pc[e] = "queued" /\ Cardinality(Running) < Concurrency /\ pc'[e] = "factory"
        /\ outcome'[e] = outcome[e]
    BY <1>3, <1>6 DEF Start, Goto
  <2>2. Begins(e)
    BY <1>5, <2>1 DEF Begins, Phase, Outcome
  <2>3. ReportedOf(pc'[e], outcome'[e], runner'[e])
    BY <1>2, <1>4, <2>1 DEF ReportedOf, Stays, Early
  <2> QED  BY <1>2, <2>2, <2>3, LedgerMoves, ReportKept
<1>7. CASE Register(e) /\ pc'[e] = "check"
  <2>1. pc[e] = "factory" /\ outcome'[e] = outcome[e]
    BY <1>3, <1>7 DEF Register, Goto
  <2> QED  BY <1>1, <1>2, <1>3, <1>7, <2>1, PoolKeeps DEF Places, Outcomes, Early, Earned
<1>8. CASE Register(e) /\ pc'[e] # "check"
  <2>1. pc[e] = "factory" /\ pc'[e] = "settled" /\ outcome'[e] = "fail"
    BY <1>3, <1>8 DEF Register, Goto
  <2>2. Settles(e)
    BY <1>5, <2>1 DEF Settles, Phase, Outcome
  <2>3. ReportedOf(pc'[e], outcome'[e], runner'[e])
    BY <1>2, <1>4, <2>1 DEF ReportedOf, Stays, Early
  <2> QED  BY <1>2, <2>2, <2>3, LedgerMoves, ReportKept
<1> QED
  BY <1>6, <1>7, <1>8

LEMMA LedgerSettles ==
    ASSUME IInv, Reported, NEW e \in Episodes, Settle(e)
    PROVE  [Ledger!Next]_(Ledger!vars) /\ Reported'
<1>1. Runner(e) /\ ~Commit(e) /\ ~Flag(e) /\ ~BeginStart(e) /\ UNCHANGED threadVars
  BY DEF Runner, Settle, Commit, Flag, BeginStart
<1>2. Stays(e) /\ Only(e) /\ batch' = batch
  BY <1>1, RunnerStays, OnlyPool
<1>3. pc \in [Episodes -> Places] /\ outcome \in [Episodes -> Outcomes]
  BY Typed DEF IInv
<1>4. ReportedOf(pc[e], outcome[e], runner[e])
  BY DEF Reported
<1>5. /\ pc[e] = "closing" /\ pc'[e] = "settled"
      /\ outcome'[e] \in {outcome[e], "fail"}
  BY <1>3 DEF Settle, Goto
<1>6. Same(e)
  BY <1>1, <1>2, Zenon DEF Same, Stays, GivenUp, threadVars
<1>7. Settles(e)
  <2>1. outcome[e] \in {"fail", "success", "need_human"}
    BY <1>3, <1>4, <1>5 DEF ReportedOf, Outcomes
  <2> QED  BY <1>4, <1>5, <1>6, <2>1 DEF Settles, Phase, Outcome, ReportedOf
<1>8. ReportedOf(pc'[e], outcome'[e], runner'[e])
  BY <1>2, <1>4, <1>5 DEF ReportedOf, Stays, Early
<1> QED
  BY <1>2, <1>7, <1>8, LedgerMoves, ReportKept

LEMMA LedgerResets ==
    ASSUME IInv, Reported, NEW e \in Episodes, BeginStart(e)
    PROVE  [Ledger!Next]_(Ledger!vars) /\ Reported'
<1>1. Only(e) /\ batch' = batch
  BY OnlyPool DEF Runner
<1>2. /\ pc \in [Episodes -> Places] /\ outcome \in [Episodes -> Outcomes]
      /\ runner \in [Episodes -> Runners] /\ reset \in [Episodes -> Resets]
  BY Typed DEF IInv
<1>3. /\ pc[e] = "start" /\ pc'[e] = "reset" /\ outcome'[e] = outcome[e]
      /\ runner'[e] = FreshRunner /\ turn' = turn /\ ~reset'[e].abandoned
  BY <1>2 DEF BeginStart, Goto, NoReset
<1>4. reset[e] = NoReset /\ turn[e] = NoTurn
  BY <1>3, Now DEF PlaceOf, Early
<1>5. ReportedOf(pc[e], outcome[e], runner[e])
  BY DEF Reported
<1>6. runner'[e].turns = runner[e].turns /\ runner'[e].won = runner[e].won
  <2>1. runner'[e].turns = 0 /\ runner'[e].won = FALSE
    BY <1>3 DEF FreshRunner
  <2>2. runner[e].turns = 0 /\ ~runner[e].won
    BY <1>3, <1>5 DEF ReportedOf, Early
  <2>3. runner[e].won \in BOOLEAN
    BY Now DEF Runners
  <2>4. runner[e].won = FALSE
    BY <2>2, <2>3, Zenon
  <2> QED  BY <2>1, <2>2, <2>4, Zenon
<1>7. ~GivenUp(e) /\ ~GivenUp(e)'
  BY <1>3, <1>4 DEF GivenUp, NoReset, NoTurn
<1>8. LedgerKept(e)
  <2>1. GivenUp(e)' = GivenUp(e)
    BY <1>7, Zenon DEF GivenUp
  <2>2. Phase(e)' = Phase(e) /\ Outcome(e)' = Outcome(e)
    BY <1>3 DEF Phase, Outcome
  <2> QED  BY <1>6, <2>1, <2>2 DEF LedgerKept, Same
<1>9. ReportedOf(pc'[e], outcome'[e], runner'[e])
  BY <1>3, <1>5, <1>6 DEF ReportedOf, Early, FreshRunner
<1> QED
  BY <1>1, <1>8, <1>9, LedgerMoves, ReportKept

\* A reset or a turn that is abandoned, and a turn that begins too late.
LEMMA LedgerGivesUp ==
    ASSUME IInv, Reported, NEW e \in Episodes, ResetTimeout(e) \/ TurnTimeout(e) \/ Step(e)
    PROVE  [Ledger!Next]_(Ledger!vars) /\ Reported'
<1>1. Runner(e) /\ ~Commit(e) /\ ~Flag(e) /\ ~BeginStart(e)
  BY DEF Runner, ResetTimeout, TurnTimeout, Step, Commit, Flag, BeginStart
<1>2. Stays(e) /\ Only(e) /\ batch' = batch
  BY <1>1, RunnerStays, OnlyPool
<1>3. /\ pc \in [Episodes -> Places] /\ outcome \in [Episodes -> Outcomes]
      /\ reset \in [Episodes -> Resets] /\ turn \in [Episodes -> Turns]
  BY Typed DEF IInv
<1>4. ReportedOf(pc[e], outcome[e], runner[e])
  BY DEF Reported
<1>5. /\ pc[e] \in {"reset", "turn", "step"} /\ pc'[e] \in {"giveup", "close", "result", "turn"}
      /\ outcome'[e] = outcome[e] \/ (outcome'[e] = "fail" /\ pc'[e] = "close")
      /\ pc'[e] = "close" => outcome'[e] = "fail"
  BY <1>3 DEF ResetTimeout, TurnTimeout, Step, Raise, Goto
<1>6. ReportedOf(pc'[e], outcome'[e], runner'[e])
  BY <1>2, <1>4, <1>5 DEF ReportedOf, Stays, Early
<1>7. GivenUp(e) => GivenUp(e)'
  <2>1. CASE Step(e)
    <3>1. ~GivenUp(e)
      BY <2>1, Phases DEF Step
    <3> QED  BY <3>1
  <2>2. CASE ResetTimeout(e)
    BY <1>3, <2>2 DEF ResetTimeout, GivenUp
  <2>3. CASE TurnTimeout(e)
    BY <1>3, <2>3 DEF TurnTimeout, GivenUp
  <2> QED  BY <2>1, <2>2, <2>3
<1>8. GivesUp(e) \/ LedgerKept(e)
  <2>1. Phase(e) = "running" /\ Phase(e)' = Phase(e) /\ Outcome(e)' = Outcome(e)
    BY <1>5 DEF Phase, Outcome
  <2>2. GivenUp(e) \in BOOLEAN /\ GivenUp(e)' \in BOOLEAN
    <3>1. /\ reset'[e].abandoned \in BOOLEAN /\ turn'[e].abandoned \in BOOLEAN
          /\ turn'[e].late \in BOOLEAN
      <4>1. runner[e].cancel \in BOOLEAN
        BY Now DEF Runners
      <4>2. reset' \in [Episodes -> Resets]
        BY <1>3, ZenonT(40) DEF ResetTimeout, TurnTimeout, Step, Resets
      <4>3. turn' \in [Episodes -> Turns]
        <5>1. [NoTurn EXCEPT !.pc = "act", !.late = runner[e].cancel] \in Turns
          BY Now DEF Turns, NoTurn, Runners
        <5>2. \/ turn' = [turn EXCEPT ![e] = [NoTurn EXCEPT !.pc = "act", !.late = runner[e].cancel]]
              \/ turn' = turn \/ turn' = [turn EXCEPT ![e].abandoned = TRUE]
          BY Zenon DEF ResetTimeout, TurnTimeout, Step
        <5>3. [turn[e] EXCEPT !.abandoned = TRUE] \in Turns
          BY Now DEF Turns
        <5> QED  BY <1>3, <5>1, <5>2, <5>3
      <4> QED  BY <4>2, <4>3 DEF Resets, Turns
    <3> QED  BY <3>1, Now DEF GivenUp, Resets, Turns
  <2> QED  BY <1>2, <1>7, <2>1, <2>2, Zenon DEF GivesUp, LedgerKept, Same, Stays
<1> QED
  BY <1>2, <1>6, <1>8, LedgerMoves, ReportKept

\* A turn is counted once, and wins at most.
LEMMA CommitCounts ==
    ASSUME IInv, NEW e \in Episodes, Commit(e)
    PROVE  /\ runner'[e].turns = runner[e].turns + 1
           /\ runner'[e].won = runner[e].won \/ runner'[e].won = TRUE
<1>1. runner \in [Episodes -> Runners] /\ runner[e] \in Runners
  BY Typed, Now DEF IInv
<1>2. PICK w \in BOOLEAN : w = (runner[e].won \/ turn[e].kind = "win")
  OBVIOUS
<1>3. runner' = [runner EXCEPT ![e] = [runner[e] EXCEPT !.turns = runner[e].turns + 1, !.won = w]]
  BY <1>2 DEF Commit
<1>4. /\ runner'[e].turns = runner[e].turns + 1
      /\ runner'[e].won = w
  BY <1>1, <1>3 DEF Runners
<1>5. w = runner[e].won \/ w = TRUE
  <2>1. runner[e].won \in BOOLEAN
    BY <1>1 DEF Runners
  <2> QED  BY <1>2, <2>1
<1> QED
  BY <1>4, <1>5

LEMMA LedgerCommits ==
    ASSUME IInv, Reported, NEW e \in Episodes, Commit(e)
    PROVE  [Ledger!Next]_(Ledger!vars) /\ Reported'
<1>1. Only(e) /\ batch' = batch
  BY OnlyPool DEF Runner
<1>2. /\ pc \in [Episodes -> Places] /\ outcome \in [Episodes -> Outcomes]
      /\ turn \in [Episodes -> Turns] /\ runner[e] \in Runners
  BY Typed, Now DEF IInv
<1>3. /\ pc[e] = "commit" /\ pc'[e] \in {"flags", "close"} /\ reset' = reset
      /\ outcome'[e] = outcome[e] \/ outcome'[e] = "fail"
      /\ pc'[e] = "close" => outcome'[e] = "fail"
      /\ turn'[e].abandoned = turn[e].abandoned /\ turn'[e].late = turn[e].late
  BY <1>2 DEF Commit, Goto, Raise, Turns
<1>4. /\ runner'[e].turns = runner[e].turns + 1
      /\ runner'[e].won = runner[e].won \/ runner'[e].won = TRUE
  BY CommitCounts
<1>5. runner[e].turns \in Nat /\ runner[e].turns < BaseTurns + RecoveryTurns
  <2>1. runner[e].turns < runner[e].limit
    BY <1>3, Now DEF PlaceOf
  <2> QED  BY <1>2, <2>1, BatchAssumption DEF Runners
<1>6. ReportedOf(pc[e], outcome[e], runner[e])
  BY DEF Reported
<1>7. ReportedOf(pc'[e], outcome'[e], runner'[e])
  <2>1. runner'[e].turns > 0 /\ (outcome[e] = "success" => runner'[e].won)
    BY <1>4, <1>5, <1>6 DEF ReportedOf
  <2> QED  BY <1>3, <2>1 DEF ReportedOf, Early
<1>8. CommitsTurn(e)
  <2>1. ~GivenUp(e)
    BY <1>3, Phases
  <2>2. GivenUp(e)' = GivenUp(e)
    BY <1>3, Zenon DEF GivenUp
  <2>3. Phase(e) = "running" /\ Phase(e)' = Phase(e) /\ Outcome(e)' = Outcome(e)
    BY <1>3 DEF Phase, Outcome
  <2> QED  BY <1>4, <1>5, <2>1, <2>2, <2>3, Zenon DEF CommitsTurn
<1> QED
  BY <1>1, <1>7, <1>8, LedgerMoves, ReportKept

\* The flags of a turn that is counted are none of the ledger's business.
LEMMA LedgerFlags ==
    ASSUME IInv, Reported, NEW e \in Episodes, Flag(e)
    PROVE  [Ledger!Next]_(Ledger!vars) /\ Reported'
<1>1. Only(e) /\ batch' = batch
  BY OnlyPool DEF Runner
<1>2. /\ pc \in [Episodes -> Places] /\ outcome \in [Episodes -> Outcomes]
      /\ runner \in [Episodes -> Runners]
  BY Typed DEF IInv
<1>3. /\ pc[e] = "flags" /\ pc'[e] \in {"loop", "close"} /\ UNCHANGED <<reset, turn>>
      /\ outcome'[e] = outcome[e] \/ outcome'[e] = "fail"
      /\ pc'[e] = "close" => outcome'[e] = "fail"
  BY <1>2 DEF Flag, Goto, Raise, threadVars
<1>4. runner'[e].turns = runner[e].turns /\ runner'[e].won = runner[e].won
  BY <1>2, FlagEffect
<1>5. ReportedOf(pc[e], outcome[e], runner[e])
  BY DEF Reported
<1>6. ReportedOf(pc'[e], outcome'[e], runner'[e])
  BY <1>3, <1>4, <1>5 DEF ReportedOf, Early
<1>7. LedgerKept(e)
  <2>1. GivenUp(e)' = GivenUp(e)
    BY <1>3, Zenon DEF GivenUp
  <2>2. Phase(e)' = Phase(e) /\ Outcome(e)' = Outcome(e)
    BY <1>3 DEF Phase, Outcome
  <2> QED  BY <1>4, <2>1, <2>2 DEF LedgerKept, Same
<1> QED
  BY <1>1, <1>6, <1>7, LedgerMoves, ReportKept

\* Reset and turn threads, time and the server's answers are none of the ledger's business.
LEMMA LedgerThreads ==
    ASSUME IInv, Reported, NEW e \in Episodes,
           \/ ResetThread(e) \/ TurnThread(e) \/ Expire(e)
           \/ \E i \in Envs : CloseAnswered(e, i)
    PROVE  [Ledger!Next]_(Ledger!vars) /\ Reported'
<1>1. UNCHANGED <<batch, pc, outcome, runner>>
  BY DEF ResetThread, ResetCreate, ResetReset, ResetRetry, ResetAgain, ResetFinish,
         ResetRaise, TurnThread, TurnAct, TurnEnv, TurnFinish, TurnRaise, Expire,
         CloseAnswered
<1>2. reset \in [Episodes -> Resets] /\ turn \in [Episodes -> Turns]
  BY Typed DEF IInv
<1>3. PICK x : /\ reset' = [reset EXCEPT ![e] = x] /\ x.abandoned = reset[e].abandoned
  <2>1. CASE reset' = reset
    BY <1>2, <2>1
  <2>2. CASE \E l : reset' = [reset EXCEPT ![e].pc = l]
    <3>1. PICK l : reset' = [reset EXCEPT ![e] = [reset[e] EXCEPT !.pc = l]]
      BY <2>2
    <3>2. [reset[e] EXCEPT !.pc = l].abandoned = reset[e].abandoned
      BY <1>2 DEF Resets
    <3> QED  BY <3>1, <3>2
  <2>3. CASE ResetAgain(e)
    <3> DEFINE x == [reset[e] EXCEPT !.pc = "create", !.attempt = reset[e].attempt + 1]
    <3>1. reset' = [reset EXCEPT ![e] = x]
      BY <2>3 DEF ResetAgain
    <3>2. x.abandoned = reset[e].abandoned
      BY <1>2 DEF Resets
    <3> QED  BY <3>1, <3>2
  <2> QED
    BY <2>1, <2>2, <2>3
       DEF ResetThread, ResetCreate, ResetReset, ResetRetry, ResetFinish, ResetRaise,
           ResetGoto, TurnThread, TurnAct, TurnEnv, TurnFinish, TurnRaise, Expire,
           CloseAnswered, threadVars
<1>4. PICK y : /\ turn' = [turn EXCEPT ![e] = y] /\ y.abandoned = turn[e].abandoned
               /\ y.late = turn[e].late
  <2>1. CASE turn' = turn
    BY <1>2, <2>1
  <2>2. CASE \E l, k : turn' = [turn EXCEPT ![e].pc = l, ![e].kind = k]
    <3>1. PICK l, k : turn' = [turn EXCEPT ![e] = [turn[e] EXCEPT !.pc = l, !.kind = k]]
      BY <2>2, ZenonT(40)
    <3>2. /\ [turn[e] EXCEPT !.pc = l, !.kind = k].abandoned = turn[e].abandoned
          /\ [turn[e] EXCEPT !.pc = l, !.kind = k].late = turn[e].late
      BY <1>2 DEF Turns
    <3> QED  BY <3>1, <3>2
  <2>3. CASE TurnThread(e)
    <3>1. PICK l, k : TurnGoto(e, l, k)
      BY <2>3 DEF TurnThread, TurnAct, TurnEnv, TurnFinish, TurnRaise
    <3> QED  BY <2>2, <3>1 DEF TurnGoto
  <2> QED
    BY <2>1, <2>3
       DEF ResetThread, ResetCreate, ResetReset, ResetRetry, ResetAgain, ResetFinish,
           ResetRaise, Expire, CloseAnswered, threadVars
<1>5. /\ reset'[e].abandoned = reset[e].abandoned /\ turn'[e].abandoned = turn[e].abandoned
      /\ turn'[e].late = turn[e].late
  BY <1>2, <1>3, <1>4
<1>6. Only(e)
  BY <1>1, <1>2, <1>3, <1>4 DEF Only
<1>7. LedgerKept(e)
  BY <1>1, <1>5, Zenon DEF LedgerKept, Same, Phase, Outcome, GivenUp
<1>8. Reported'
  BY <1>1, Zenon DEF Reported
<1> QED
  BY <1>1, <1>6, <1>7, <1>8, LedgerMoves

LEMMA LedgerHarness ==
    ASSUME IInv, Reported, Harness
    PROVE  [Ledger!Next]_(Ledger!vars) /\ Reported'
<1>1. /\ pc \in [Episodes -> Places] /\ batch \in Batches
      /\ runner \in [Episodes -> Runners]
  BY Typed DEF IInv
<1>2. CASE BatchInterrupt \/ ListActive
  <2>1. UNCHANGED <<pc, outcome, runner, reset, turn>>
    BY <1>2 DEF BatchInterrupt, ListActive, threadVars
  <2>2. batch'.cancelled /\ (batch'.cancelled = TRUE \/ batch'.cancelled = batch.cancelled)
    <3>1. CASE BatchInterrupt
      BY <1>1, <3>1 DEF BatchInterrupt, Batches
    <3>2. CASE ListActive
      BY <1>1, <3>2 DEF ListActive, Batches, Reported
    <3> QED  BY <1>2, <3>1, <3>2
  <2>3. Reported'
    BY <2>1, <2>2, Zenon DEF Reported
  <2>4. UNCHANGED <<[d \in Episodes |-> Phase(d)], [d \in Episodes |-> GivenUp(d)],
                    [d \in Episodes |-> runner[d].turns], [d \in Episodes |-> runner[d].won],
                    [d \in Episodes |-> Outcome(d)]>>
    BY <2>1, Zenon DEF Phase, GivenUp, Outcome
  <2>5. Ledger!Interrupt \/ UNCHANGED Ledger!vars
    BY <2>2, <2>4, Zenon DEF Ledger!Interrupt, Ledger!vars
  <2> QED  BY <2>3, <2>5 DEF Ledger!Next
<1>3. ASSUME NEW e \in Episodes, CallRunner(e)
      PROVE  [Ledger!Next]_(Ledger!vars) /\ Reported'
  <2>1. /\ batch.pc = "calling" /\ batch'.cancelled = batch.cancelled
        /\ UNCHANGED <<pc, outcome, reset, turn>> /\ Interrupt(e)
    BY <1>1, <1>3 DEF CallRunner, Batches, threadVars
  <2>2. Stays(e)
    BY <2>1, InterruptStays
  <2>3. Only(e)
    BY <1>1, <2>1 DEF Interrupt, Only
  <2>4. LedgerKept(e)
    BY <2>1, <2>2, Zenon DEF LedgerKept, Same, Stays, Phase, Outcome, GivenUp
  <2>5. batch'.cancelled
    BY <2>1 DEF Reported
  <2>6. ASSUME NEW d \in Episodes PROVE ReportedOf(pc'[d], outcome'[d], runner'[d])
    <3>1. Stays(d) /\ ReportedOf(pc[d], outcome[d], runner[d])
      BY <2>1, InterruptStays DEF Reported
    <3> QED  BY <2>1, <3>1 DEF ReportedOf, Stays
  <2>7. Reported'
    BY <2>5, <2>6 DEF Reported
  <2> QED  BY <2>1, <2>3, <2>4, <2>7, LedgerMoves
<1>4. ASSUME NEW e \in Episodes, CancelQueued(e)
      PROVE  [Ledger!Next]_(Ledger!vars) /\ Reported'
  <2>1. /\ batch.pc = "calling" /\ pc[e] = "queued" /\ pc'[e] = "cancelled"
        /\ UNCHANGED <<batch, outcome, runner, reset, turn>>
    BY <1>1, <1>4 DEF CancelQueued, Goto, threadVars
  <2>2. Only(e)
    BY <1>1, <1>4, <2>1 DEF CancelQueued, Goto, Only
  <2>3. batch.cancelled
    BY <2>1 DEF Reported
  <2>4. Same(e)
    BY <2>1, Zenon DEF Same, GivenUp
  <2>5. Cancels(e)
    BY <2>1, <2>3, <2>4 DEF Cancels, Phase, Outcome
  <2>6. ReportedOf(pc[e], outcome[e], runner[e])
    BY DEF Reported
  <2>7. ReportedOf(pc'[e], outcome'[e], runner'[e])
    BY <2>1, <2>6 DEF ReportedOf, Early
  <2> QED  BY <2>1, <2>2, <2>5, <2>7, LedgerMoves, ReportKept
<1> QED
  BY <1>2, <1>3, <1>4 DEF Harness

LEMMA LedgerStep == IInv /\ Reported /\ [Next]_vars => [Ledger!Next]_(Ledger!vars) /\ Reported'
<1> SUFFICES ASSUME IInv, Reported, [Next]_vars
             PROVE  [Ledger!Next]_(Ledger!vars) /\ Reported'
  OBVIOUS
<1>1. CASE UNCHANGED vars
  <2>1. UNCHANGED <<batch, pc, outcome, runner, reset, turn>>
    BY <1>1 DEF vars, threadVars
  <2>2. Reported'
    BY <2>1, Zenon DEF Reported
  <2>3. UNCHANGED Ledger!vars
    BY <2>1, Zenon DEF Ledger!vars, Phase, GivenUp, Outcome
  <2> QED  BY <2>2, <2>3
<1>2. ASSUME NEW e \in Episodes, Runner(e)
      PROVE  [Ledger!Next]_(Ledger!vars) /\ Reported'
  BY <1>2, LedgerStarts, LedgerPool, LedgerSettles, LedgerResets, LedgerGivesUp,
     LedgerCommits, LedgerFlags DEF Runner
<1> QED
  BY <1>1, <1>2, LedgerThreads, LedgerHarness DEF Next, Over

LEMMA InitReported == Init => Reported /\ Ledger!Init
<1> SUFFICES ASSUME Init PROVE Reported /\ Ledger!Init
  OBVIOUS
<1>1. ASSUME NEW e \in Episodes
      PROVE  /\ pc[e] = "queued" /\ outcome[e] = "none" /\ runner[e] = FreshRunner
             /\ reset[e] = NoReset /\ turn[e] = NoTurn
  BY DEF Init, Fresh
<1>2. batch.pc = "running" /\ batch.cancelled = FALSE
  BY DEF Init, Fresh
<1>3. Reported
  BY <1>1, <1>2 DEF Reported, ReportedOf, FreshRunner
<1>4. ASSUME NEW e \in Episodes
      PROVE  /\ Phase(e) = "waiting" /\ GivenUp(e) = FALSE /\ Outcome(e) = "none"
             /\ runner[e].turns = 0 /\ runner[e].won = FALSE
  BY <1>1 DEF Phase, GivenUp, Outcome, FreshRunner, NoReset, NoTurn
<1>5. /\ [e \in Episodes |-> Phase(e)] = [e \in Episodes |-> "waiting"]
      /\ [e \in Episodes |-> GivenUp(e)] = [e \in Episodes |-> FALSE]
      /\ [e \in Episodes |-> runner[e].turns] = [e \in Episodes |-> 0]
      /\ [e \in Episodes |-> runner[e].won] = [e \in Episodes |-> FALSE]
      /\ [e \in Episodes |-> Outcome(e)] = [e \in Episodes |-> "none"]
  BY <1>4, Zenon
<1>6. Ledger!Init
  BY <1>2, <1>5, Zenon DEF Ledger!Init
<1> QED
  BY <1>3, <1>6

\* However threads, deadlines, interrupts and closes fall together, every step of a batch is
\* one of the ledger that its caller relies on, or leaves it alone (run, _run_one,
\* the runner's commit and its classified result).
THEOREM LedgerCorrect == Spec => ImplementsLedger /\ KeepsLedger
<1>1. Init => Reported /\ Ledger!Init
  BY InitReported
<1>2. IInv /\ Reported /\ [Next]_vars => [Ledger!Next]_(Ledger!vars) /\ Reported'
  BY LedgerStep
<1> QED
  BY <1>1, <1>2, Inductive, PTL DEF Spec, ImplementsLedger, KeepsLedger, Ledger!Spec

=============================================================================
