---------------------------- MODULE SessionMemory ---------------------------
(***************************************************************************)
(* What an agent session keeps on disk (agent/runtime/memory_store.py), in    *)
(* the order agent/runtime/memory.py writes it: an event trace and a          *)
(* conversation, both appended line by line, the files of the working memory  *)
(* and the session's entry in an index that all sessions share.  Every        *)
(* session has a process of its own, which may die at any point and resume    *)
(* the session from the files; the conversation (agent/runtime/               *)
(* conversation.py) is replayed from its records.                             *)
(***************************************************************************)
EXTENDS Integers, Sequences, FiniteSets, SequencesExt

CONSTANTS
    Sessions,
    None,
    RetainedActions,   \* max_retained_actions of a compaction
    Tearing,           \* sessions whose process may die within the write of a line
    Bystanders,        \* bound: sessions that are only started and resumed
    MaxOps,            \* bound: operations begun in a behaviour
    MaxCrashes         \* bound: processes that die in a behaviour

ASSUME MemoryAssumption ==
    /\ None \notin Sessions /\ None \notin Nat /\ None \notin [Sessions -> Nat \cup {None}]
    /\ RetainedActions \in Nat
    /\ Tearing \subseteq Sessions /\ Bystanders \subseteq Sessions
    /\ MaxOps \in Nat /\ MaxCrashes \in Nat

VARIABLES
    proc,      \* the process of each session: state, writes to be done, crashes
    items,     \* conversation.items, in memory
    work,      \* the working memory, in memory: the save that changed each part
    trace,     \* trace.jsonl: events in it, and whether its lines can be parsed
    conv,      \* conversation.jsonl: the records in it, in their order
    files,     \* the files of the working memory: what of "work" they hold
    index,     \* session_index.json: the entry of each session
    lock,      \* the session that holds .session_index.lock
    ops        \* operations begun (bound)

memVars == <<proc, items, work>>
diskVars == <<trace, conv, files, index>>
vars == <<memVars, diskVars, lock, ops>>

(* The parts of the working memory that depend on each other; artifacts,      *)
(* skill_notes and compact_summary are written after them in the same way.    *)
Parts == <<"facts", "agent_working_state">>
EmptyWork == [p \in ToSet(Parts) |-> 0]

\* open: the last line has no newline; "cut" is part of a record, "bare" a
\* whole one, "garbled" ends within a character of a conversation.  unread:
\* load_events cannot parse some other line.
EmptyTrace == [events |-> 0, open |-> "no", unread |-> FALSE]
EmptyConv == [recs |-> <<>>, open |-> "no"]

Init ==
    /\ proc = [s \in Sessions |-> [pc |-> "new", todo |-> <<>>, seen |-> None, crashes |-> 0]]
    /\ items = [s \in Sessions |-> <<>>]
    /\ work = [s \in Sessions |-> EmptyWork]
    /\ trace = [s \in Sessions |-> EmptyTrace]
    /\ conv = [s \in Sessions |-> EmptyConv]
    /\ files = [s \in Sessions |-> EmptyWork]
    /\ index = [s \in Sessions |-> None]
    /\ lock = None
    /\ ops = 0

-----------------------------------------------------------------------------
(* What an operation has the store do, as a sequence of steps.               *)

Touch(n) == <<[do |-> "lock"], [do |-> "touch", n |-> n]>>
Upsert == <<[do |-> "lock"], [do |-> "upsert"]>>

\* append_event and append_conversation_record
Event == <<[do |-> "event"]>> \o Touch(1)
Record(r) == <<[do |-> "record", rec |-> r]>> \o Touch(0)
ItemRecord(i) == Record([type |-> "item", items |-> <<i>>])

\* Mutant: the files are written in the opposite order.
SaveReversed(parts) ==
    [k \in DOMAIN parts |-> [do |-> "file", part |-> parts[Len(parts) + 1 - k]]] \o Touch(0)

\* save_working_memory: file by file, each replaced in one step
Save(parts) == [k \in DOMAIN parts |-> [do |-> "file", part |-> parts[k]]] \o Touch(0)

-----------------------------------------------------------------------------
(* ConversationHistory: items, its compaction and its replay.                *)

Item(kind, n) == [kind |-> kind, id |-> n]

\* compact: the last messages that fit the budget, of which there is one at
\* least, and the last actions with their results.
Retained(its, msgs) ==
    LET recent(k, n) == Cardinality({j \in DOMAIN its : its[j].kind = k /\ its[j].id >= n})
        fits(i) == IF i.kind = "message" THEN recent("message", i.id) <= msgs
                   ELSE recent("action", i.id) <= RetainedActions
    IN FlattenSeq([k \in DOMAIN its |-> IF fits(its[k]) THEN <<its[k]>> ELSE <<>>])

Checkpoints(recs) == {i \in DOMAIN recs : recs[i].type = "checkpoint"}

\* replay: a checkpoint replaces all items before it.
Replay(recs) ==
    LET first == IF Checkpoints(recs) = {} THEN 1
                 ELSE CHOOSE i \in Checkpoints(recs) : \A j \in Checkpoints(recs) : j <= i
    IN FlattenSeq([i \in DOMAIN recs |-> IF i < first THEN <<>> ELSE recs[i].items])

-----------------------------------------------------------------------------
(* SessionMemory's operations, begun when the one before is done.            *)

\* The id of the items an operation makes.
Id == ops + 1

Begin(s, steps) ==
    /\ ops < MaxOps /\ ops' = ops + 1
    /\ proc' = [proc EXCEPT ![s].todo = steps]
    /\ UNCHANGED <<diskVars, lock>>

Ready(s) == proc[s].pc = "up" /\ proc[s].todo = <<>>
CanBegin(s) == Ready(s) /\ s \notin Bystanders

\* start_session, which begins the first turn
Start(s) ==
    /\ proc[s].pc = "new"
    /\ ops < MaxOps /\ ops' = ops + 1
    /\ LET i == Item("message", Id) IN
       /\ items' = [items EXCEPT ![s] = <<i>>]
       /\ proc' = [proc EXCEPT ![s].pc = "up",
                      ![s].todo = Upsert \o Save(Parts) \o Event \o ItemRecord(i) \o Event]
    /\ UNCHANGED <<work, diskVars, lock>>

\* begin_user_turn
UserTurn(s) ==
    /\ CanBegin(s)
    /\ LET i == Item("message", Id) IN
       /\ items' = [items EXCEPT ![s] = Append(@, i)]
       /\ Begin(s, ItemRecord(i) \o Event)
    /\ UNCHANGED work

\* add_action: what a tool's result changed in the working memory is saved first, if
\* anything; a response is one item, any other action two.
AddAction(s, saves, made) ==
    /\ CanBegin(s)
    /\ items' = [items EXCEPT ![s] = @ \o made]
    /\ work' = IF saves THEN [work EXCEPT ![s].facts = ops + 1] ELSE work
    /\ Begin(s, (IF saves THEN Save(Parts) ELSE <<>>) \o Event
                \o FlattenSeq([k \in DOMAIN made |-> ItemRecord(made[k])]))

Respond(s) == AddAction(s, FALSE, <<Item("message", Id)>>)

\* Mutant: the result is recorded before its action.
ActSwapped(s, saves) == AddAction(s, saves, <<Item("result", Id), Item("action", Id)>>)

Act(s, saves) == AddAction(s, saves, <<Item("action", Id), Item("result", Id)>>)

\* save_fact, for the save_memory tool
SaveFact(s) ==
    /\ CanBegin(s)
    /\ work' = [work EXCEPT ![s].facts = ops + 1, ![s].agent_working_state = ops + 1]
    /\ Begin(s, Event \o Save(Parts))
    /\ UNCHANGED items

\* Mutant: the checkpoint holds the items from before the compaction.
CompactStale(s, msgs) ==
    /\ CanBegin(s)
    /\ items' = [items EXCEPT ![s] = Retained(@, msgs)]
    /\ Begin(s, Record([type |-> "checkpoint", items |-> items[s]]) \o Event \o Save(Parts))
    /\ UNCHANGED work

\* compact
Compact(s, msgs) ==
    /\ CanBegin(s)
    /\ items' = [items EXCEPT ![s] = Retained(@, msgs)]
    /\ Begin(s, Record([type |-> "checkpoint", items |-> items'[s]]) \o Event \o Save(Parts))
    /\ UNCHANGED work

\* resume_session, of a session that was started
Resume(s) ==
    /\ proc[s].pc = "dead"
    /\ proc' = [proc EXCEPT ![s].pc = "up", ![s].todo = Upsert \o <<[do |-> "load"]>>]
    /\ UNCHANGED <<items, work, diskVars, lock, ops>>

-----------------------------------------------------------------------------
(* The steps of the store.                                                   *)

Next1(s, do) == proc[s].pc = "up" /\ proc[s].todo # <<>> /\ Head(proc[s].todo).do = do
Done1(s) == proc' = [proc EXCEPT ![s].todo = Tail(@)]

\* A line that follows one without newline becomes part of it.
WriteEvent(s) ==
    /\ Next1(s, "event")
    /\ trace' = [trace EXCEPT ![s] =
          IF @.open = "no" THEN [@ EXCEPT !.events = trace[s].events + 1]
          ELSE [@ EXCEPT !.open = "no", !.unread = TRUE]]
    /\ Done1(s)
    /\ UNCHANGED <<items, work, conv, files, index, lock, ops>>

WriteRecord(s) ==
    /\ Next1(s, "record")
    /\ conv' = [conv EXCEPT ![s] =
          CASE @.open = "no"   -> [@ EXCEPT !.recs = Append(conv[s].recs, Head(proc[s].todo).rec)]
            [] @.open \in {"cut", "garbled"} -> [@ EXCEPT !.open = "no"]
            [] @.open = "bare" -> [@ EXCEPT !.open = "no", !.recs = Front(conv[s].recs)]]
    /\ Done1(s)
    /\ UNCHANGED <<items, work, trace, files, index, lock, ops>>

WriteFile(s) ==
    /\ Next1(s, "file")
    /\ LET p == Head(proc[s].todo).part IN files' = [files EXCEPT ![s][p] = work[s][p]]
    /\ Done1(s)
    /\ UNCHANGED <<items, work, trace, conv, index, lock, ops>>

\* Mutant: the index is read without the lock.
ReadIndexUnlocked(s) ==
    /\ Next1(s, "lock")
    /\ lock' = s
    /\ proc' = [proc EXCEPT ![s].todo = Tail(@), ![s].seen = index]
    /\ UNCHANGED <<items, work, diskVars, ops>>

\* _locked_index and _read_index
ReadIndex(s) ==
    /\ Next1(s, "lock")
    /\ lock = None /\ lock' = s
    /\ proc' = [proc EXCEPT ![s].todo = Tail(@), ![s].seen = index]
    /\ UNCHANGED <<items, work, diskVars, ops>>

\* What _upsert_index_entry and _touch_index_entry make of the index; a session
\* without an entry is not touched.
NewEntry(s) ==
    LET entry == proc[s].seen[s] IN
    IF Head(proc[s].todo).do = "upsert" THEN (IF entry = None THEN 0 ELSE entry)
    ELSE IF entry = None THEN None ELSE entry + Head(proc[s].todo).n

\* _write_index replaces the whole file, and the lock is given back.
WriteIndex(s) ==
    /\ Next1(s, "upsert") \/ Next1(s, "touch")
    /\ index' = [proc[s].seen EXCEPT ![s] = NewEntry(s)]
    /\ lock' = None
    /\ proc' = [proc EXCEPT ![s].todo = Tail(@), ![s].seen = None]
    /\ UNCHANGED <<items, work, trace, conv, files, ops>>

Readable(s) ==
    /\ ~trace[s].unread /\ trace[s].open # "cut"
    /\ conv[s].open # "garbled"

\* The rest of resume_session.  load_events raises when a line cannot be
\* parsed, and read_text when a file ends within a character;
\* load_conversation_records skips what it cannot parse.  A conversation without
\* records is made from the trace, which has the task if it has an event.
Load(s) ==
    /\ Next1(s, "load")
    /\ LET old == Replay(conv[s].recs)
           task == IF conv[s].recs = <<>> /\ trace[s].events > 0
                   THEN <<Item("message", ops)>> ELSE <<>>
       IN IF Readable(s)
          THEN /\ items' = [items EXCEPT ![s] = old \o task]
               /\ proc' = [proc EXCEPT ![s].todo =
                              (IF task = <<>> THEN <<>> ELSE ItemRecord(task[1])) \o Event]
          ELSE /\ proc' = [proc EXCEPT ![s].pc = "refused", ![s].todo = <<>>]
               /\ UNCHANGED items
    /\ work' = [work EXCEPT ![s] =
          [files[s] EXCEPT !.agent_working_state =
              IF files[s].agent_working_state = 0 THEN files[s].facts
              ELSE files[s].agent_working_state]]
    /\ UNCHANGED <<diskVars, lock, ops>>

\* What a process leaves of a line it was writing when it died.
Torn(s) ==
    \/ /\ Head(proc[s].todo).do = "event"
       /\ \/ trace' = [trace EXCEPT ![s].open = "cut", ![s].unread = @ \/ trace[s].open # "no"]
          \/ /\ trace[s].open = "no"
             /\ trace' = [trace EXCEPT ![s].open = "bare", ![s].events = @ + 1]
       /\ UNCHANGED conv
    \/ /\ Head(proc[s].todo).do = "record"
       /\ \/ \E o \in {"cut", "garbled"} :
                conv' = [conv EXCEPT ![s].open = o,
                     ![s].recs = IF conv[s].open = "bare" THEN Front(@) ELSE @]
          \/ /\ conv[s].open = "no"
             /\ conv' = [conv EXCEPT ![s].open = "bare",
                                     ![s].recs = Append(@, Head(proc[s].todo).rec)]
       /\ UNCHANGED trace

\* The process dies; the system gives back its lock.
Crash(s) ==
    /\ proc[s].pc = "up"
    /\ LET n == proc[s].crashes + 1 IN
       /\ \A t \in Sessions : t # s => proc[t].crashes + n <= MaxCrashes
       /\ n <= MaxCrashes
       /\ proc' = [proc EXCEPT ![s] = [pc |-> "dead", todo |-> <<>>, seen |-> None, crashes |-> n]]
    /\ lock' = IF lock = s THEN None ELSE lock
    /\ items' = [items EXCEPT ![s] = <<>>]
    /\ work' = [work EXCEPT ![s] = EmptyWork]
    /\ \/ UNCHANGED <<trace, conv>>
       \/ s \in Tearing /\ proc[s].todo # <<>> /\ Torn(s)
    /\ UNCHANGED <<files, index, ops>>

-----------------------------------------------------------------------------

Operation(s) ==
    \/ Start(s) \/ UserTurn(s) \/ SaveFact(s)
    \/ Respond(s) \/ \E saves \in BOOLEAN : Act(s, saves)
    \/ \E msgs \in 1..MaxOps : Compact(s, msgs)

StoreStep(s) ==
    \/ WriteEvent(s) \/ WriteRecord(s) \/ WriteFile(s)
    \/ ReadIndex(s) \/ WriteIndex(s) \/ Load(s)

Next == \E s \in Sessions : Operation(s) \/ StoreStep(s) \/ Resume(s) \/ Crash(s)

Spec == Init /\ [][Next]_vars

-----------------------------------------------------------------------------
(* Properties.  Those of the trace and the conversation are about sessions     *)
(* whose lines are written whole; another session's torn lines do not matter. *)

ItemSet == [kind : {"message", "action", "result"}, id : Nat]

TypeOK ==
    /\ \A s \in Sessions :
         /\ proc[s].pc \in {"new", "up", "dead", "refused"}
         /\ proc[s].crashes \in 0..MaxCrashes
         /\ items[s] \in Seq(ItemSet)
         /\ \A r \in ToSet(conv[s].recs) : r.type \in {"item", "checkpoint"} /\ r.items \in Seq(ItemSet)
         /\ conv[s].open \in {"no", "cut", "garbled", "bare"}
         /\ trace[s] \in [events : Nat, open : {"no", "cut", "bare"}, unread : BOOLEAN]
         /\ index[s] \in Nat \cup {None}
         /\ lock = s <=> proc[s].seen # None
    /\ work \in [Sessions -> [ToSet(Parts) -> 0..MaxOps]]
    /\ files \in [Sessions -> [ToSet(Parts) -> 0..MaxOps]]
    /\ lock \in Sessions \cup {None}
    /\ ops \in 0..MaxOps

Whole == Sessions \ Tearing

\* The conversation on disk is the one in memory whenever no write is
\* outstanding: what a resumed process replays is what the dead one knew,
\* through compactions and earlier crashes.
ReplayMatches ==
    \A s \in Whole : Ready(s) => Replay(conv[s].recs) = items[s]

\* Nothing stands on disk without what it rests on, wherever the process died
\* and whatever a compaction dropped: no result without its action before it, and
\* no plan newer than the facts it was saved with, although a crash may leave the
\* files of two saves.
NothingStandsAlone ==
    /\ \A s \in Whole :
         LET its == Replay(conv[s].recs) IN
         \A j \in DOMAIN its : its[j].kind = "result" =>
             \E i \in 1..(j - 1) : its[i].kind = "action" /\ its[i].id = its[j].id
    /\ \A s \in Sessions : files[s].agent_working_state <= files[s].facts

\* The event count of the index lags behind the trace by one event for each
\* crash at most, and else only by the one being counted: processes that share
\* the index lose none of each other's updates.
IndexBehindByCrashes ==
    \A s \in Whole :
        index[s] # None =>
            /\ index[s] <= trace[s].events
            /\ trace[s].events <= index[s] + proc[s].crashes + (IF Ready(s) THEN 0 ELSE 1)

\* The conversations are logs that are ahead of the disk by one operation at most:
\* however the writes of sessions interleave and wherever processes die, no
\* operation begins before the one before is on disk, the disk gets what the
\* memory has in its order, and what is on disk is what is resumed.
Alive(s) == proc[s].pc = "up" /\ \A k \in DOMAIN proc[s].todo : proc[s].todo[k].do # "load"

Log == INSTANCE ConversationLog
          WITH Sessions <- Whole,
               memory <- [s \in Whole |-> items[s]],
               disk <- [s \in Whole |-> Replay(conv[s].recs)],
               alive <- [s \in Whole |-> Alive(s)]

ConversationIsLog == Log!Spec

\* A session whose process died can be resumed.
ResumeSucceeds == \A s \in Sessions : proc[s].pc # "refused"

=============================================================================
