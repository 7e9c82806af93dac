--------------------------- MODULE PausedEpisodes ---------------------------
(***************************************************************************)
(* An episode that waits for a human, between processes: the batch command     *)
(* that pauses it (cli/batch_eval.py, pause) and the commands that resume it   *)
(* with an answer (resume_paused_episode), each of which may pause it again.   *)
(* They meet in one record of the session, replaced by way of a temporary file *)
(* (runtime/interactions.py), and in the agent's memory, which keeps every     *)
(* answer.  A command may die at any point; how the agent's run ends is a      *)
(* choice, and answers are told apart by the question they are for.            *)
(***************************************************************************)
EXTENDS Integers, Sequences, FiniteSets, SequencesExt

CONSTANTS
    Commands,   \* the processes; each runs one command
    Batch,      \* the one that runs the batch, the others resume
    NoFile

ASSUME CommandsAssumption == Batch \in Commands /\ NoFile \notin Commands

VARIABLES
    alone,     \* whether the operator waits for a command to end before the next
    cmd,      \* the commands: where they are, the question they answer and what was asked before
    file,      \* the record's file, named by the command that created it
    tmp,       \* the temporary file, likewise
    content,   \* what the file that each command created holds
    answers,   \* the questions whose answers are in the agent's memory
    asked,     \* the number of questions; new_interaction_id counts up
    told,      \* the questions a command has given to the operator
    settled    \* the questions answered in a run that did not end with one

pauseVars == <<alone, cmd, file, tmp, content, answers, asked, told, settled>>
recordVars == <<file, tmp, content>>

\* PausedEpisodeRecord in a file: the question, how many were answered before it,
\* and those.  A file that was only opened is empty, one that cannot be parsed torn.
PausedRecord(q, count, history) ==
    [state |-> "whole", q |-> q, count |-> count, history |-> history]
Empty == [state |-> "empty", q |-> 0, count |-> 0, history |-> <<>>]
TornRecord == [Empty EXCEPT !.state = "torn"]
WholeRecord(c) == content[c].state = "whole"

\* answering: the question whose answer the command brings (0: none), count and
\* history: human_intervention_count and interaction_history with this answer,
\* pausing: the question its run ended with.
Launched == [pc |-> "new", answering |-> 0, count |-> 0, history |-> <<>>,
         pausing |-> 0, fd |-> NoFile]

PauseInit ==
    /\ alone \in BOOLEAN
    /\ cmd = [c \in Commands |-> IF c = Batch THEN [Launched EXCEPT !.pc = "run"] ELSE Launched]
    /\ file = NoFile /\ tmp = NoFile
    /\ content = [c \in Commands |-> Empty]
    /\ answers = {} /\ asked = 0 /\ told = {} /\ settled = {}

Goto(c, l) == cmd' = [cmd EXCEPT ![c].pc = l]

-----------------------------------------------------------------------------
(* resume_paused_episode, until the run: what fails here leaves the record.    *)

Over(c) == cmd[c].pc \in {"new", "done"}

\* PausedEpisodeStore.load and the comparison of the ids
Loadable(q) ==
    /\ file # NoFile
    /\ WholeRecord(file)
    /\ content[file].q = q

\* Mutant: the human's answer is counted and the questions before are not kept.
ResumeForgetting(c, q) ==
    /\ cmd[c].pc = "new" /\ (alone => \A d \in Commands : Over(d))
    /\ q \in told
    /\ cmd' = [cmd EXCEPT ![c] =
          IF Loadable(q)
          THEN [Launched EXCEPT !.pc = "build", !.answering = q, !.count = content[file].count + 1,
                            !.history = <<q>>]
          ELSE [Launched EXCEPT !.pc = "done"]]
    /\ UNCHANGED <<alone, recordVars, answers, asked, told, settled>>

\* The operator answers a question that a command has told.
ResumePaused(c, q) ==
    /\ cmd[c].pc = "new" /\ (alone => \A d \in Commands : Over(d))
    /\ q \in told
    /\ cmd' = [cmd EXCEPT ![c] =
          IF Loadable(q)
          THEN [Launched EXCEPT !.pc = "build", !.answering = q, !.count = content[file].count + 1,
                            !.history = Append(content[file].history, q)]
          ELSE [Launched EXCEPT !.pc = "done"]]
    /\ UNCHANGED <<alone, recordVars, answers, asked, told, settled>>

\* Building the worker, the session's resumption or the tool catalogue fails.
BuildFails(c) ==
    /\ cmd[c].pc = "build" /\ Goto(c, "done")
    /\ UNCHANGED <<alone, recordVars, answers, asked, told, settled>>

\* Mutant: the run starts without the answer in the agent's memory.
TakeAnswerUnsaved(c) ==
    /\ cmd[c].pc = "build" /\ Goto(c, "run")
    /\ UNCHANGED <<alone, recordVars, answers, asked, told, settled>>

\* update_memory with the human's answer
TakeAnswer(c) ==
    /\ cmd[c].pc = "build" /\ Goto(c, "run")
    /\ answers' = answers \cup {cmd[c].answering}
    /\ UNCHANGED <<alone, recordVars, asked, told, settled>>

-----------------------------------------------------------------------------
(* The run's end, which the record follows.                                    *)

\* need_human
AskHuman(c) ==
    /\ cmd[c].pc = "run"
    /\ asked' = asked + 1
    /\ cmd' = [cmd EXCEPT ![c].pc = "open", ![c].pausing = asked + 1]
    /\ UNCHANGED <<alone, recordVars, answers, told, settled>>

\* A command that resumed deletes the record whatever fails, the batch has none.
Fail(c) ==
    /\ cmd' = [cmd EXCEPT ![c].pc = IF c = Batch THEN "close" ELSE "delete",
                            ![c].pausing = 0]
    /\ settled' = settled \cup ToSet(cmd[c].history)

\* The run succeeds, fails or raises.
EndRun(c) ==
    /\ cmd[c].pc = "run" /\ Fail(c)
    /\ UNCHANGED <<alone, recordVars, answers, asked, told>>

\* Mutant: the record is opened for writing itself.
OpenInPlace(c) ==
    /\ cmd[c].pc = "open"
    /\ LET i == IF file = NoFile THEN c ELSE file IN
       /\ file' = i /\ tmp' = i
       /\ content' = [content EXCEPT ![i] = Empty]
       /\ cmd' = [cmd EXCEPT ![c].pc = "write", ![c].fd = i]
    /\ UNCHANGED <<alone, answers, asked, told, settled>>

\* save: write_text opens the temporary file, empties it if it is there
Open(c) ==
    /\ cmd[c].pc = "open"
    /\ LET i == IF tmp = NoFile THEN c ELSE tmp IN
       /\ tmp' = i
       /\ content' = [content EXCEPT ![i] = Empty]
       /\ cmd' = [cmd EXCEPT ![c].pc = "write", ![c].fd = i]
    /\ UNCHANGED <<alone, file, answers, asked, told, settled>>

OpenFails(c) ==
    /\ cmd[c].pc = "open" /\ Fail(c)
    /\ UNCHANGED <<alone, recordVars, answers, asked, told>>

\* ... writes it, wherever it has been moved meanwhile; over something longer
\* that another command wrote meanwhile, the end of that remains
Write(c) ==
    /\ cmd[c].pc = "write" /\ Goto(c, "replace")
    /\ \E rest \in BOOLEAN :
         /\ rest => content[cmd[c].fd] # Empty
         /\ content' = [content EXCEPT ![cmd[c].fd] =
               IF rest THEN TornRecord
               ELSE PausedRecord(cmd[c].pausing, cmd[c].count, cmd[c].history)]
    /\ UNCHANGED <<alone, file, tmp, answers, asked, told, settled>>

WriteFails(c) ==
    /\ cmd[c].pc = "write" /\ Fail(c)
    /\ content' = [content EXCEPT ![cmd[c].fd] = TornRecord]
    /\ UNCHANGED <<alone, file, tmp, answers, asked, told>>

\* ... and moves whatever bears the temporary file's name
Replace(c) ==
    /\ cmd[c].pc = "replace" /\ tmp # NoFile
    /\ file' = tmp /\ tmp' = NoFile /\ Goto(c, "close")
    /\ UNCHANGED <<alone, content, answers, asked, told, settled>>

ReplaceFails(c) ==
    /\ cmd[c].pc = "replace" /\ tmp = NoFile /\ Fail(c)
    /\ UNCHANGED <<alone, recordVars, answers, asked, told>>

Delete(c) ==
    /\ cmd[c].pc = "delete" /\ Goto(c, "close")
    /\ file' = NoFile
    /\ UNCHANGED <<alone, tmp, content, answers, asked, told, settled>>

\* worker.close; then the command prints its outcome, with the question if it
\* has paused.
Report(c) ==
    /\ cmd[c].pc = "close" /\ Goto(c, "done")
    /\ told' = told \cup ({cmd[c].pausing} \ {0})
    /\ UNCHANGED <<alone, recordVars, answers, asked, settled>>

Die(c) ==
    /\ ~Over(c) /\ Goto(c, "done")
    /\ UNCHANGED <<alone, recordVars, answers, asked, told, settled>>

CommandStep(c) ==
    \/ \E q \in told : ResumePaused(c, q)
    \/ BuildFails(c) \/ TakeAnswer(c)
    \/ AskHuman(c) \/ EndRun(c)
    \/ Open(c) \/ OpenFails(c) \/ Write(c) \/ WriteFails(c)
    \/ Replace(c) \/ ReplaceFails(c) \/ Delete(c)
    \/ Report(c) \/ Die(c)

PauseNext == \E c \in Commands : CommandStep(c)

PauseSpec == PauseInit /\ [][PauseNext]_pauseVars

-----------------------------------------------------------------------------
(* Properties.                                                                 *)

FileSet == [state : {"empty", "whole", "torn"}, q : Nat, count : Nat, history : Seq(Nat)]

PauseTypeOK ==
    /\ alone \in BOOLEAN
    /\ cmd \in [Commands ->
         [pc : {"new", "build", "run", "open", "write", "replace", "delete", "close", "done"},
          answering : Nat, count : Nat, history : Seq(Nat), pausing : Nat,
          fd : Commands \cup {NoFile}]]
    /\ file \in Commands \cup {NoFile} /\ tmp \in Commands \cup {NoFile}
    /\ content \in [Commands -> FileSet]
    /\ answers \subseteq Nat /\ asked \in Nat /\ told \subseteq Nat /\ settled \subseteq Nat

\* "A paused record is written atomically": when the operator waits for each
\* command to end, a question that was told can be answered, wherever commands
\* fail or die, until a run that had its answer asks the next one, which is then
\* on file with the answer noted, or ends for good (save, resume).
QuestionKept ==
    alone => \A q \in told \ settled :
        /\ file # NoFile /\ WholeRecord(file)
        /\ content[file].q # q => content[file].q > q /\ q \in ToSet(content[file].history)

\* A record, whoever wrote it, counts and names the questions answered before
\* its own, each once and in the order they were asked, and their answers are
\* in the agent's memory; when commands do not overlap it has all of them.
AnswersAgree ==
    /\ \A c \in Commands : WholeRecord(c) =>
         LET h == content[c].history IN
         /\ content[c].count = Len(h)
         /\ \A i \in DOMAIN h : h[i] \in answers /\ h[i] < content[c].q
         /\ \A i, j \in DOMAIN h : i < j => h[i] < h[j]
    /\ alone /\ file # NoFile /\ WholeRecord(file) =>
         answers \subseteq ToSet(content[file].history) \cup {content[file].q}
=============================================================================
