---------------------------- MODULE EpisodeBatch ----------------------------
(***************************************************************************)
(* A batch of simulator episodes: agent/runtime/parallel.py runs each one in *)
(* a pool thread with a runner of its own (agent/runtime/episode.py), which   *)
(* resets the environment and then takes one turn after another, every reset  *)
(* and turn in a daemon thread that is abandoned when the episode's deadline  *)
(* passes.  The environment (SimulatorMcpEpisodeEnvironment of                *)
(* agent/tools/sim_mcp.py) keeps one remote handle, which several threads may *)
(* want to close.  Another thread may interrupt the whole batch.              *)
(***************************************************************************)
EXTENDS Integers, FiniteSets

CONSTANTS
    Episodes,       \* episodes of the batch
    Concurrency,    \* pool threads
    BaseTurns,      \* max_turns of an episode
    BranchTurns,    \* recovery_turns_per_branch
    RecoveryTurns,  \* max_recovery_turns
    Attempts,       \* startup_attempts of the environment
    Faults          \* how a remote call may fail: "transient" (worth a retry), "fatal"

ASSUME BatchAssumption ==
    /\ Concurrency \in Nat \ {0} /\ BaseTurns \in Nat \ {0} /\ Attempts \in Nat \ {0}
    /\ BranchTurns \in Nat /\ RecoveryTurns \in Nat
    /\ Faults \subseteq {"transient", "fatal"}

VARIABLES
    batch,      \* cancelled: _cancel_event; pc, todo: progress of interrupt(); told: runners interrupted
    active,     \* _active_workers
    pc,         \* the pool thread of each episode, in _run_one and the runner
    outcome,    \* status of each episode's outcome
    runner,     \* fields of each OpenEtaEpisodeRunner
    expired,    \* the episode's deadline has passed
    reset,      \* each episode's reset thread
    turn,       \* the thread of each episode's current turn
    handle,     \* config.handle, the attempt that created the environment, or NoEnv
    opened,     \* environments the simulator server holds for the episode
    closing,    \* close_env calls on their way
    closeCalls, \* close_env calls made for each environment
    unclosed    \* environments nobody will close: close_env failed, or the handle was lost

remoteVars == <<handle, opened, closing, closeCalls, unclosed>>
threadVars == <<reset, turn>>
vars == <<batch, active, pc, outcome, runner, expired, threadVars, remoteVars>>

NoEnv == 0
Envs == 1..Attempts

FreshRunner == [cancel |-> FALSE, failed |-> FALSE, terminated |-> FALSE,
                truncated |-> FALSE, waiting |-> FALSE, started |-> FALSE,
                won |-> FALSE, turns |-> 0, limit |-> BaseTurns, mine |-> NoEnv]
NoReset == [pc |-> "none", attempt |-> 1, abandoned |-> FALSE]
NoTurn == [pc |-> "none", kind |-> "work", abandoned |-> FALSE, late |-> FALSE]

\* Nothing has been started yet.
Fresh ==
    /\ batch = [cancelled |-> FALSE, pc |-> "running", todo |-> {}, told |-> {}]
    /\ active = {}
    /\ outcome = [e \in Episodes |-> "none"]
    /\ runner = [e \in Episodes |-> FreshRunner]
    /\ expired = [e \in Episodes |-> FALSE]
    /\ reset = [e \in Episodes |-> NoReset]
    /\ turn = [e \in Episodes |-> NoTurn]
    /\ handle = [e \in Episodes |-> NoEnv]
    /\ opened = [e \in Episodes |-> {}]
    /\ closing = [e \in Episodes |-> {}]
    /\ closeCalls = [e \in Episodes |-> [i \in Envs |-> 0]]
    /\ unclosed = [e \in Episodes |-> {}]

Init == Fresh /\ pc = [e \in Episodes |-> "queued"]

Goto(e, l) == pc' = [pc EXCEPT ![e] = l]

-----------------------------------------------------------------------------
(* Closing the environment and interrupting a runner. *)

SendClose(e, i) ==
    /\ closing' = [closing EXCEPT ![e] = @ \cup {i}]
    /\ closeCalls' = [closeCalls EXCEPT ![e][i] = @ + 1]

\* Mutant: the handle is read but not taken.
ClaimKeeping(e) ==
    /\ IF handle[e] = NoEnv THEN UNCHANGED <<closing, closeCalls>>
                            ELSE SendClose(e, handle[e])
    /\ UNCHANGED <<handle, opened, unclosed>>

\* close(): whoever takes the handle, under the close lock, closes it.
Claim(e) ==
    /\ handle' = [handle EXCEPT ![e] = NoEnv]
    /\ IF handle[e] = NoEnv THEN UNCHANGED <<closing, closeCalls>>
                            ELSE SendClose(e, handle[e])
    /\ UNCHANGED <<opened, unclosed>>

\* A close_env call is answered, or fails.
CloseAnswered(e, i) ==
    /\ i \in closing[e]
    /\ closing' = [closing EXCEPT ![e] = @ \ {i}]
    /\ \/ opened' = [opened EXCEPT ![e] = @ \ {i}] /\ UNCHANGED unclosed
       \/ Faults # {} /\ unclosed' = [unclosed EXCEPT ![e] = @ \cup {i}] /\ UNCHANGED opened
    /\ UNCHANGED <<batch, active, pc, outcome, runner, expired, threadVars, handle, closeCalls>>

\* _set_failure
Failed(r) == [r EXCEPT !.failed = TRUE, !.terminated = FALSE,
                       !.truncated = TRUE, !.waiting = FALSE]

\* interrupt(): cancel, mark the failure, ask for the environment to be closed.
\* The caller waits for the close no longer than a grace period.
Interrupt(e) ==
    /\ runner' = [runner EXCEPT ![e] = [Failed(@) EXCEPT !.cancel = TRUE]]
    /\ Claim(e)

-----------------------------------------------------------------------------
(* The harness: run, interrupt and _run_one. *)

Running == {e \in Episodes : pc[e] \notin {"queued", "settled", "cancelled"}}

\* Mutant: pool threads are not counted.
StartUncounted(e) ==
    /\ pc[e] = "queued"
    /\ Goto(e, "factory")
    /\ UNCHANGED <<batch, active, outcome, runner, expired, threadVars, remoteVars>>

\* A pool thread takes the next episode and builds its runner and environment.
Start(e) ==
    /\ pc[e] = "queued" /\ Cardinality(Running) < Concurrency
    /\ Goto(e, "factory")
    /\ UNCHANGED <<batch, active, outcome, runner, expired, threadVars, remoteVars>>

Register(e) ==
    /\ pc[e] = "factory"
    /\ \/ active' = active \cup {e} /\ Goto(e, "check") /\ UNCHANGED outcome
       \/ /\ Goto(e, "settled")
          /\ outcome' = [outcome EXCEPT ![e] = "fail"]
          /\ UNCHANGED active
    /\ UNCHANGED <<batch, runner, expired, threadVars, remoteVars>>

\* The call raised: the outcome is a failure and the environment is closed.
Raise(e) ==
    /\ outcome' = [outcome EXCEPT ![e] = "fail"]
    /\ Goto(e, "close")

CheckCancelled(e) ==
    /\ pc[e] = "check"
    /\ \/ batch.cancelled /\ Interrupt(e) /\ Raise(e)
       \/ ~batch.cancelled /\ Goto(e, "start") /\ UNCHANGED <<runner, remoteVars, outcome>>
    /\ UNCHANGED <<batch, active, expired, threadVars>>

\* The finally clause: close, wait for the answer, leave the active workers.
Close(e) ==
    /\ pc[e] = "close"
    /\ Claim(e)
    /\ runner' = [runner EXCEPT ![e].mine = handle[e]]
    /\ Goto(e, "closing")
    /\ UNCHANGED <<batch, active, outcome, expired, threadVars>>

Settle(e) ==
    /\ pc[e] = "closing"
    /\ runner[e].mine \notin closing[e]
    /\ active' = active \ {e}
    /\ outcome' = [outcome EXCEPT ![e] =
                     IF runner[e].mine \in unclosed[e] /\ @ # "need_human" THEN "fail" ELSE @]
    /\ Goto(e, "settled")
    /\ UNCHANGED <<batch, runner, expired, threadVars, remoteVars>>

\* interrupt(): the event first, then the workers active at that moment.
BatchInterrupt ==
    /\ batch.pc = "running"
    /\ batch' = [batch EXCEPT !.cancelled = TRUE, !.pc = "listing"]
    /\ UNCHANGED <<active, pc, outcome, runner, expired, threadVars, remoteVars>>

ListActive ==
    /\ batch.pc = "listing"
    /\ batch' = [batch EXCEPT !.pc = "calling", !.todo = active]
    /\ UNCHANGED <<active, pc, outcome, runner, expired, threadVars, remoteVars>>

CallRunner(e) ==
    /\ batch.pc = "calling" /\ e \in batch.todo
    /\ Interrupt(e)
    /\ batch' = [batch EXCEPT !.todo = @ \ {e}, !.told = @ \cup {e}]
    /\ UNCHANGED <<active, pc, outcome, expired, threadVars>>

\* When run() itself was interrupted, the futures not yet started are cancelled.
CancelQueued(e) ==
    /\ batch.pc = "calling" /\ batch.todo = {}
    /\ pc[e] = "queued"
    /\ Goto(e, "cancelled")
    /\ UNCHANGED <<batch, active, outcome, runner, expired, threadVars, remoteVars>>

-----------------------------------------------------------------------------
(* The runner: start, continue_run and step. *)

\* start() makes the fields new, the cancel event too, and resets the
\* environment in a thread.
BeginStart(e) ==
    /\ pc[e] = "start"
    /\ runner' = [runner EXCEPT ![e] = FreshRunner]
    /\ reset' = [reset EXCEPT ![e] = [NoReset EXCEPT !.pc = "create"]]
    /\ Goto(e, "reset")
    /\ UNCHANGED <<batch, active, outcome, expired, turn, remoteVars>>

\* The deadline passes; time goes on whatever the threads do.
Expire(e) ==
    /\ reset[e].pc # "none" /\ ~expired[e]
    /\ expired' = [expired EXCEPT ![e] = TRUE]
    /\ UNCHANGED <<batch, active, pc, outcome, runner, threadVars, remoteVars>>

ResetReturned(e) ==
    /\ pc[e] = "reset"
    /\ \/ /\ reset[e].pc = "result"
          /\ runner' = [runner EXCEPT ![e].started = TRUE]
          /\ Goto(e, "loop") /\ UNCHANGED outcome
       \/ reset[e].pc = "error" /\ Raise(e) /\ UNCHANGED runner
    /\ UNCHANGED <<batch, active, expired, threadVars, remoteVars>>

\* The join times out while the thread is alive, be it about to end.
ResetTimeout(e) ==
    /\ pc[e] = "reset" /\ expired[e]
    /\ reset' = [reset EXCEPT ![e].abandoned = TRUE]
    /\ Goto(e, "giveup")
    /\ UNCHANGED <<batch, active, outcome, runner, expired, turn, remoteVars>>

\* Mutant: a result that arrived at the last moment is used all the same.
GiveUpSalvaging(e) ==
    /\ pc[e] = "giveup"
    /\ Interrupt(e)
    /\ Goto(e, IF turn[e].pc = "result" THEN "commit" ELSE "result")
    /\ UNCHANGED <<batch, active, outcome, expired, threadVars>>

\* After the deadline of a reset or of a turn: interrupt, and leave the loop
\* (continue_run breaks on EpisodeTimeoutError).
GiveUp(e) ==
    /\ pc[e] = "giveup"
    /\ Interrupt(e)
    /\ Goto(e, "result")
    /\ UNCHANGED <<batch, active, outcome, expired, threadVars>>

Stopped(r) == r.terminated \/ r.truncated \/ r.waiting

\* One round of continue_run: budgets, then another turn or the end.
Loop(e) ==
    /\ pc[e] = "loop"
    /\ \/ /\ runner[e].turns < runner[e].limit /\ expired[e] /\ ~runner[e].failed
          /\ Interrupt(e) /\ Goto(e, "result")
       \/ /\ runner[e].turns >= runner[e].limit \/ ~expired[e] \/ runner[e].failed
          /\ Goto(e, IF runner[e].turns < runner[e].limit /\ ~Stopped(runner[e])
                     THEN "step" ELSE "result")
          /\ UNCHANGED <<runner, remoteVars>>
    /\ UNCHANGED <<batch, active, outcome, expired, threadVars>>

\* step(): refuse, time out, or start the turn's thread.
Step(e) ==
    /\ pc[e] = "step"
    /\ \/ Stopped(runner[e]) /\ Raise(e) /\ UNCHANGED <<runner, turn, remoteVars>>
       \/ /\ ~Stopped(runner[e]) /\ expired[e]
          /\ Interrupt(e) /\ Goto(e, "result") /\ UNCHANGED <<outcome, turn>>
       \/ /\ ~Stopped(runner[e]) /\ ~expired[e]
          /\ turn' = [turn EXCEPT ![e] = [NoTurn EXCEPT !.pc = "act", !.late = runner[e].cancel]]
          /\ Goto(e, "turn") /\ UNCHANGED <<outcome, runner, remoteVars>>
    /\ UNCHANGED <<batch, active, expired, reset>>

TurnReturned(e) ==
    /\ pc[e] = "turn"
    /\ \/ turn[e].pc = "result" /\ Goto(e, "commit") /\ UNCHANGED outcome
       \/ turn[e].pc = "error" /\ Raise(e)
    /\ UNCHANGED <<batch, active, runner, expired, threadVars, remoteVars>>

\* Mutant: the runner waits for the environment as long as it takes.
TurnTimeoutPlanning(e) ==
    /\ pc[e] = "turn" /\ expired[e] /\ turn[e].pc = "act"
    /\ turn' = [turn EXCEPT ![e].abandoned = TRUE]
    /\ Goto(e, "giveup")
    /\ UNCHANGED <<batch, active, outcome, runner, expired, reset, remoteVars>>

TurnTimeout(e) ==
    /\ pc[e] = "turn" /\ expired[e]
    /\ turn' = [turn EXCEPT ![e].abandoned = TRUE]
    /\ Goto(e, "giveup")
    /\ UNCHANGED <<batch, active, outcome, runner, expired, reset, remoteVars>>

\* The result is read: the turn is counted first.  What comes after may raise
\* (the memory, the interaction resolver, the recorder), which ends the episode.
Commit(e) ==
    /\ pc[e] = "commit"
    /\ runner' = [runner EXCEPT ![e].turns = @ + 1, ![e].won = @ \/ turn[e].kind = "win"]
    /\ turn' = [turn EXCEPT ![e].pc = "done"]
    /\ \/ Goto(e, "flags") /\ UNCHANGED outcome
       \/ Raise(e)
    /\ UNCHANGED <<batch, active, expired, reset, remoteVars>>

\* Mutant: the recovery turns of one grant are not cut to what remains.
FlaggedUncut(r, kind, branches) ==
    [r EXCEPT !.limit = @ + IF r.limit - BaseTurns < RecoveryTurns THEN BranchTurns * branches ELSE 0,
              !.terminated = kind = "win", !.truncated = kind = "lose",
              !.waiting = kind = "ask"]

\* The flags of the turn's result; recovery turns granted for distinct branches.
Flagged(r, kind, branches) ==
    LET granted == r.limit - BaseTurns
        more == IF BranchTurns * branches < RecoveryTurns - granted
                THEN BranchTurns * branches ELSE RecoveryTurns - granted
    IN [r EXCEPT !.limit = @ + more,
                 !.terminated = kind = "win", !.truncated = kind = "lose",
                 !.waiting = kind = "ask"]

\* The end of step(): the flags are set, over those of an interrupt, then the
\* budgets are enforced (tools and tokens, or time) unless a failure is set.
Flag(e) ==
    /\ pc[e] = "flags"
    /\ \E branches \in 0..2 :
        LET r == Flagged(runner[e], turn[e].kind, branches) IN
        \/ /\ r.failed \/ ~expired[e]
           /\ \E r2 \in {r} \cup (IF r.failed THEN {} ELSE {Failed(r)}) :
                runner' = [runner EXCEPT ![e] = r2]
           /\ UNCHANGED remoteVars
        \/ /\ ~r.failed /\ expired[e]
           /\ runner' = [runner EXCEPT ![e] = [Failed(r) EXCEPT !.cancel = TRUE]]
           /\ Claim(e)
    /\ \/ Goto(e, "loop") /\ UNCHANGED outcome
       \/ Raise(e)
    /\ UNCHANGED <<batch, active, expired, threadVars>>

\* The episode's result is classified (classify_episode_result): a win may lack
\* the official reward, and a pause that is not wanted or cannot be recorded is a
\* failure.
Result(e) ==
    /\ pc[e] = "result"
    /\ runner' = [runner EXCEPT ![e].truncated =
                    @ \/ /\ runner[e].started /\ ~runner[e].terminated
                         /\ runner[e].turns >= runner[e].limit]
    /\ \E o \in IF runner[e].waiting THEN {"need_human", "fail"}
              ELSE IF runner[e].won THEN {"success", "fail"} ELSE {"fail"} :
         outcome' = [outcome EXCEPT ![e] = o]
    /\ Goto(e, "close")
    /\ UNCHANGED <<batch, active, expired, threadVars, remoteVars>>

-----------------------------------------------------------------------------
(* The reset thread: SimulatorMcpEpisodeEnvironment.reset. *)

ResetGoto(e, l) == reset' = [reset EXCEPT ![e].pc = l]

\* create_env: the server opens an environment and its handle is kept; or the call
\* fails, and the server may have opened one all the same whose handle is lost.
ResetCreate(e) ==
    /\ reset[e].pc = "create"
    /\ \/ /\ opened' = [opened EXCEPT ![e] = @ \cup {reset[e].attempt}]
          /\ handle' = [handle EXCEPT ![e] = reset[e].attempt]
          /\ ResetGoto(e, "reset")
          /\ UNCHANGED unclosed
       \/ /\ \/ "fatal" \in Faults /\ ResetGoto(e, "raise")
             \/ "transient" \in Faults /\ ResetGoto(e, "retry")
          /\ \/ UNCHANGED <<opened, unclosed>>
             \/ /\ opened' = [opened EXCEPT ![e] = @ \cup {reset[e].attempt}]
                /\ unclosed' = [unclosed EXCEPT ![e] = @ \cup {reset[e].attempt}]
          /\ UNCHANGED handle
    /\ UNCHANGED <<batch, active, pc, outcome, runner, expired, turn, closing, closeCalls>>

\* reset_env, with the handle the configuration holds now: none if an
\* interrupt has taken it ("Unknown: ", which is not transient).
ResetReset(e) ==
    /\ reset[e].pc = "reset"
    /\ \/ handle[e] # NoEnv /\ ResetGoto(e, "finish")
       \/ (handle[e] = NoEnv \/ "fatal" \in Faults) /\ ResetGoto(e, "raise")
       \/ "transient" \in Faults /\ ResetGoto(e, "retry")
    /\ UNCHANGED <<batch, active, pc, outcome, runner, expired, turn, remoteVars>>

\* A transient error: raise on the last attempt, else close what there is.
ResetRetry(e) ==
    /\ reset[e].pc = "retry"
    /\ \/ reset[e].attempt = Attempts /\ ResetGoto(e, "raise") /\ UNCHANGED <<closing, closeCalls>>
       \/ /\ reset[e].attempt < Attempts /\ handle[e] = NoEnv
          /\ ResetGoto(e, "again") /\ UNCHANGED <<closing, closeCalls>>
       \/ /\ reset[e].attempt < Attempts /\ handle[e] # NoEnv
          /\ SendClose(e, handle[e])
          /\ ResetGoto(e, "again")
    /\ UNCHANGED <<batch, active, pc, outcome, runner, expired, turn, handle, opened, unclosed>>

\* The close has been answered: forget the handle and try again.
ResetAgain(e) ==
    /\ reset[e].pc = "again" /\ reset[e].attempt \notin closing[e]
    /\ handle' = [handle EXCEPT ![e] = NoEnv]
    /\ reset' = [reset EXCEPT ![e].pc = "create", ![e].attempt = @ + 1]
    /\ UNCHANGED <<batch, active, pc, outcome, runner, expired, turn, opened, closing, closeCalls, unclosed>>

\* Mutant: an abandoned reset just ends.
ResetFinishSilent(e) ==
    /\ reset[e].pc = "finish"
    /\ ResetGoto(e, IF reset[e].abandoned THEN "done" ELSE "result")
    /\ UNCHANGED <<batch, active, pc, outcome, runner, expired, turn, remoteVars>>

\* reset_environment: an abandoned reset closes its late environment.
ResetFinish(e) ==
    /\ reset[e].pc = "finish"
    /\ IF reset[e].abandoned THEN Claim(e) /\ ResetGoto(e, "done")
                             ELSE ResetGoto(e, "result") /\ UNCHANGED remoteVars
    /\ UNCHANGED <<batch, active, pc, outcome, runner, expired, turn>>

\* Its except clause: an abandoned reset says nothing.
ResetRaise(e) ==
    /\ reset[e].pc = "raise"
    /\ ResetGoto(e, IF reset[e].abandoned THEN "dropped" ELSE "error")
    /\ UNCHANGED <<batch, active, pc, outcome, runner, expired, turn, remoteVars>>

-----------------------------------------------------------------------------
(* The turn thread: _execute_step. *)

TurnGoto(e, l, kind) == turn' = [turn EXCEPT ![e].pc = l, ![e].kind = kind]

\* Mutant: act does not look at the cancel event.
TurnActUnchecked(e) ==
    /\ turn[e].pc = "act"
    /\ \/ TurnGoto(e, "env", "work")
       \/ \E kind \in {"win", "lose", "ask"} : TurnGoto(e, "finish", kind)
       \/ TurnGoto(e, "raise", "work")
    /\ UNCHANGED <<batch, active, pc, outcome, runner, expired, reset, remoteVars>>

\* runtime.act: refused once cancelled; a tool call goes on to the
\* environment, a response of the agent ends or pauses the episode; it may raise.
TurnAct(e) ==
    /\ turn[e].pc = "act"
    /\ \/ ~runner[e].cancel /\ TurnGoto(e, "env", "work")
       \/ ~runner[e].cancel /\ \E kind \in {"win", "lose", "ask"} : TurnGoto(e, "finish", kind)
       \/ TurnGoto(e, "raise", "work")
    /\ UNCHANGED <<batch, active, pc, outcome, runner, expired, reset, remoteVars>>

\* environment.step renders with the current handle.
TurnEnv(e) ==
    /\ turn[e].pc = "env"
    /\ \/ handle[e] # NoEnv /\ \E kind \in {"work", "win", "lose"} : TurnGoto(e, "finish", kind)
       \/ (handle[e] = NoEnv \/ Faults # {}) /\ TurnGoto(e, "raise", "work")
    /\ UNCHANGED <<batch, active, pc, outcome, runner, expired, reset, remoteVars>>

\* execute: an abandoned turn asks again for the environment to be closed.
TurnFinish(e) ==
    /\ turn[e].pc = "finish"
    /\ IF turn[e].abandoned THEN Claim(e) /\ TurnGoto(e, "done", turn[e].kind)
                            ELSE TurnGoto(e, "result", turn[e].kind) /\ UNCHANGED remoteVars
    /\ UNCHANGED <<batch, active, pc, outcome, runner, expired, reset>>

TurnRaise(e) ==
    /\ turn[e].pc = "raise"
    /\ TurnGoto(e, IF turn[e].abandoned THEN "done" ELSE "error", turn[e].kind)
    /\ UNCHANGED <<batch, active, pc, outcome, runner, expired, reset, remoteVars>>

-----------------------------------------------------------------------------
Runner(e) ==
    \/ Start(e) \/ Register(e) \/ CheckCancelled(e) \/ Close(e) \/ Settle(e)
    \/ BeginStart(e) \/ ResetReturned(e) \/ ResetTimeout(e) \/ GiveUp(e)
    \/ Loop(e) \/ Step(e) \/ TurnReturned(e) \/ TurnTimeout(e)
    \/ Commit(e) \/ Flag(e) \/ Result(e)

ResetThread(e) ==
    \/ ResetCreate(e) \/ ResetReset(e) \/ ResetRetry(e) \/ ResetAgain(e)
    \/ ResetFinish(e) \/ ResetRaise(e)

TurnThread(e) == TurnAct(e) \/ TurnEnv(e) \/ TurnFinish(e) \/ TurnRaise(e)

Harness == BatchInterrupt \/ ListActive \/ \E e \in Episodes : CallRunner(e) \/ CancelQueued(e)

\* The batch is over.
Over ==
    /\ \A e \in Episodes : pc[e] \in {"settled", "cancelled"}
    /\ UNCHANGED vars

Next ==
    \/ \E e \in Episodes :
        \/ Runner(e) \/ ResetThread(e) \/ TurnThread(e) \/ Expire(e)
        \/ \E i \in Envs : CloseAnswered(e, i)
    \/ Harness
    \/ Over

\* The pool threads run, time passes and close_env is answered or times out.  Of
\* the reset and turn threads nothing is assumed: they may hang for ever.
Fairness ==
    \A e \in Episodes :
        /\ WF_vars(Runner(e)) /\ WF_vars(Expire(e))
        /\ \A i \in Envs : WF_vars(CloseAnswered(e, i))

Spec == Init /\ [][Next]_vars /\ Fairness
-----------------------------------------------------------------------------
(* Properties. *)

TypeOK ==
    /\ batch \in [cancelled : BOOLEAN, pc : {"running", "listing", "calling"},
                  todo : SUBSET Episodes, told : SUBSET Episodes]
    /\ active \subseteq Episodes
    /\ pc \in [Episodes -> {"queued", "factory", "check", "start", "reset", "giveup",
                            "loop", "step", "turn", "commit", "flags", "result", "close",
                            "closing", "settled", "cancelled"}]
    /\ outcome \in [Episodes -> {"none", "success", "need_human", "fail"}]
    /\ runner \in [Episodes -> [cancel : BOOLEAN, failed : BOOLEAN, terminated : BOOLEAN,
                                truncated : BOOLEAN, waiting : BOOLEAN, started : BOOLEAN,
                                won : BOOLEAN, turns : 0..BaseTurns + RecoveryTurns,
                                limit : BaseTurns..BaseTurns + RecoveryTurns,
                                mine : Envs \cup {NoEnv}]]
    /\ expired \in [Episodes -> BOOLEAN]
    /\ reset \in [Episodes -> [pc : {"none", "create", "reset", "retry", "again", "finish",
                                     "raise", "result", "error", "done", "dropped"},
                               attempt : Envs, abandoned : BOOLEAN]]
    /\ turn \in [Episodes -> [pc : {"none", "act", "env", "finish", "raise", "result",
                                    "error", "done"},
                              kind : {"work", "win", "lose", "ask"},
                              abandoned : BOOLEAN, late : BOOLEAN]]
    /\ handle \in [Episodes -> Envs \cup {NoEnv}]
    /\ opened \in [Episodes -> SUBSET Envs] /\ closing \in [Episodes -> SUBSET Envs]
    /\ unclosed \in [Episodes -> SUBSET Envs]
    /\ closeCalls \in [Episodes -> [Envs -> Nat]]

\* Nobody waits for what a reset or a turn of the episode comes to, or should.
GivenUp(e) == reset[e].abandoned \/ turn[e].abandoned \/ turn[e].late

\* "A runner deadline actively abandons a blocked turn, requests environment
\* close, and prevents its late result from becoming an EpisodeStep"
\* (step, start): nothing is committed once a reset or a turn was abandoned, nor
\* by a turn that begins when the runner is already cancelled, because the result
\* of the turn before was committed over an interrupt (act's cancel event).
LateTurnNeverCommits ==
    [][\A e \in Episodes :
          GivenUp(e) => runner'[e].turns = runner[e].turns /\ runner'[e].won = runner[e].won]_vars

\* "Simulator close is handle-claiming and thread-safe": an environment is closed
\* once, whoever wants it closed, unless a retrying reset closes it as well.
ClosedOnce ==
    \A e \in Episodes : \A i \in Envs :
        closeCalls[e][i] > 1 => i < reset[e].attempt \/ reset[e].pc = "again"

\* An episode's thread is done, its reset thread too, and no close is on its way.
Quiet(e) ==
    /\ pc[e] \in {"settled", "cancelled"} /\ closing[e] = {}
    /\ reset[e].pc \in {"none", "result", "error", "done", "dropped"}

\* In the end no environment is left open on the server, however deadlines,
\* interrupts and failures fell together (_run_one, reset_environment), except
\* those of which it is known that nobody can close them, because close_env failed
\* or their handle never arrived, and the one that an abandoned reset still holds
\* when it raises.
NothingLeft ==
    \A e \in Episodes :
        Quiet(e) => opened[e] \subseteq
            unclosed[e] \cup (IF reset[e].pc = "dropped" THEN {handle[e]} ELSE {})

\* "test_runner_interrupts_blocked_reset_and_closes_late_handle": the environment
\* an abandoned reset has made is closed.  It does not hold when that reset raises
\* after its environment was made.
LateHandleIsClosed ==
    \A e \in Episodes : Quiet(e) => opened[e] \subseteq unclosed[e]

\* "Stop future runner commits" (interrupt): a runner that the batch has
\* interrupted commits no further turn.  It does not hold of a turn whose result
\* was taken just before, nor of a runner that starts after it was interrupted.
InterruptStopsCommits ==
    [][\A e \in batch.told : runner'[e].turns = runner[e].turns]_vars

\* What the ledger has of an episode.
Phase(e) ==
    IF pc[e] = "queued" THEN "waiting"
    ELSE IF pc[e] \in {"settled", "cancelled"} THEN pc[e] ELSE "running"
Outcome(e) == IF pc[e] = "settled" THEN outcome[e] ELSE "none"

Ledger == INSTANCE BatchLedger
             WITH Budget <- BaseTurns + RecoveryTurns,
                  interrupted <- batch.cancelled,
                  phase <- [e \in Episodes |-> Phase(e)],
                  givenUp <- [e \in Episodes |-> GivenUp(e)],
                  turns <- [e \in Episodes |-> runner[e].turns],
                  won <- [e \in Episodes |-> runner[e].won],
                  outcome <- [e \in Episodes |-> Outcome(e)]

\* The batch keeps its ledger (run, _run_one and the runner): no more episodes at a time
\* than max_concurrency, no more turns than the budget and its recovery grants,
\* none in an episode that was given up, and an outcome that is what the turns
\* came to, once and for all, although interrupts, late threads and closes go on.
KeepsLedger == [][Ledger!Next]_(Ledger!vars)
ImplementsLedger == Ledger!Spec

\* "Ordered aggregate returned after every worker has settled": every episode
\* settles, although resets and turns may hang for ever.
EveryEpisodeSettles ==
    \A e \in Episodes : <>(pc[e] \in {"settled", "cancelled"})
=============================================================================
