------------------------ MODULE PausedEpisodes_proofs ------------------------
(***************************************************************************)
(* Proofs about PausedEpisodes for any number of commands: a record agrees     *)
(* with the agent's memory, and when commands do not overlap a question stays  *)
(* answerable until a run that had its answer has ended.                       *)
(***************************************************************************)
EXTENDS PausedEpisodes, TLAPS

Early == {"new", "build", "run", "open"}        \* has created no file
Saving == {"open", "write", "replace"}
Busy == {"build", "run"} \cup Saving
Labels == Busy \cup {"new", "delete", "close", "done"}

Procs == [pc : Labels, answering : Nat, count : Nat, history : Seq(Nat),
          pausing : Nat, fd : Commands \cup {NoFile}]

Increasing(h) == \A i, j \in DOMAIN h : i < j => h[i] < h[j]
Below(h, n) == \A x \in ToSet(h) : x < n

\* What a command knows is consistent, whatever the others do.
Cmd(c) ==
    /\ cmd[c].pausing <= asked
    /\ cmd[c].pc \in Early => file # c /\ tmp # c
    /\ c = Batch => cmd[c].pc \notin {"new", "build", "delete"}
    /\ cmd[c].pc \in Busy =>
         /\ cmd[c].count = Len(cmd[c].history) /\ Increasing(cmd[c].history)
         /\ Below(cmd[c].history, asked + 1)
         /\ ToSet(cmd[c].history) \subseteq
               answers \cup (IF cmd[c].pc = "build" THEN {cmd[c].answering} ELSE {})
    /\ cmd[c].pc \in Saving => Below(cmd[c].history, cmd[c].pausing)
    /\ cmd[c].pc = "write" => cmd[c].fd # NoFile
    /\ cmd[c].pc = "delete" => cmd[c].pausing = 0

\* A whole file holds a record that agrees with the memory.
Sound(f) ==
    WholeRecord(f) =>
      /\ content[f].count = Len(content[f].history) /\ Increasing(content[f].history)
      /\ Below(content[f].history, content[f].q) /\ content[f].q <= asked
      /\ ToSet(content[f].history) \subseteq answers

\* A command that runs alone answers what is on file until it replaces it.
Sole(c) ==
    /\ c # Batch /\ cmd[c].pc \in Busy =>
         /\ Loadable(cmd[c].answering)
         /\ cmd[c].history = Append(content[file].history, cmd[c].answering)
    /\ c = Batch => told = {}
    /\ cmd[c].pc \in Busy \ {"build"} => answers \subseteq ToSet(cmd[c].history)
    /\ cmd[c].pc \in Saving => \A q \in told : q < cmd[c].pausing
    /\ cmd[c].pc = "write" => cmd[c].fd = tmp /\ content[tmp] = Empty
    /\ cmd[c].pc = "replace" =>
         /\ tmp # NoFile
         /\ content[tmp] = PausedRecord(cmd[c].pausing, cmd[c].count, cmd[c].history)
    /\ cmd[c].pc = "delete" => told \subseteq settled
    /\ cmd[c].pc = "close" /\ cmd[c].pausing # 0 => Loadable(cmd[c].pausing)

AllAnswers ==
    file # NoFile /\ WholeRecord(file) =>
        answers \subseteq ToSet(content[file].history) \cup {content[file].q}

AloneInv ==
    /\ \A c, d \in Commands : ~Over(c) /\ ~Over(d) => c = d
    /\ \A c \in Commands : ~Over(c) => Sole(c)
    /\ AllAnswers

IInv ==
    /\ PauseTypeOK
    /\ \A c \in Commands : Cmd(c) /\ Sound(c)
    /\ tmp # NoFile => tmp # file
    /\ \A q \in told : q <= asked
    /\ alone => AloneInv
    /\ QuestionKept

-----------------------------------------------------------------------------
(* Lemmas on single steps. *)

\* The question answered last goes to the end of the history.
LEMMA AppendFacts ==
    ASSUME NEW h \in Seq(Nat), NEW q \in Nat, Increasing(h), Below(h, q)
    PROVE  /\ Append(h, q) \in Seq(Nat) /\ Len(Append(h, q)) = Len(h) + 1
           /\ ToSet(Append(h, q)) = ToSet(h) \cup {q}
           /\ Increasing(Append(h, q))
<1> DEFINE a == Append(h, q)
<1>1. /\ a \in Seq(Nat) /\ Len(a) = Len(h) + 1 /\ Len(h) \in Nat
      /\ DOMAIN h = 1..Len(h) /\ DOMAIN a = 1..(Len(h) + 1)
      /\ a[Len(h) + 1] = q /\ \A i \in 1..Len(h) : a[i] = h[i]
  OBVIOUS
<1> HIDE DEF a
<1>2. DOMAIN a = DOMAIN h \cup {Len(h) + 1}
  BY <1>1
<1>3. ToSet(a) = ToSet(h) \cup {q}
  <2>1. ASSUME NEW x PROVE x \in ToSet(a) <=> x \in ToSet(h) \cup {q}
    <3>1. x \in ToSet(a) <=> \E i \in DOMAIN a : a[i] = x
      BY DEF ToSet
    <3>2. x \in ToSet(h) <=> \E i \in DOMAIN h : h[i] = x
      BY DEF ToSet
    <3> QED  BY <1>1, <1>2, <3>1, <3>2
  <2> QED  BY <2>1
<1>4. Increasing(a)
  <2>1. \A i \in DOMAIN h : h[i] < q
    BY DEF Below, ToSet
  <2>2. ASSUME NEW i \in DOMAIN a, NEW j \in DOMAIN a, i < j PROVE a[i] < a[j]
    <3>1. i \in DOMAIN h /\ a[i] = h[i]
      BY <1>1, <2>2
    <3>2. CASE j = Len(h) + 1
      BY <1>1, <2>1, <3>1, <3>2
    <3>3. CASE j \in DOMAIN h
      BY <1>1, <2>2, <3>1, <3>3 DEF Increasing
    <3> QED  BY <1>2, <3>2, <3>3
  <2> QED  BY <2>2 DEF Increasing
<1> QED
  BY <1>1, <1>3, <1>4 DEF a

\* Giving one command a new state leaves the others theirs.
LEMMA Assign ==
    ASSUME PauseTypeOK, NEW c \in Commands, NEW r \in Procs, cmd' = [cmd EXCEPT ![c] = r]
    PROVE  /\ cmd'[c] = r /\ \A d \in Commands : d # c => cmd'[d] = cmd[d]
           /\ cmd' \in [Commands -> Procs]
  BY DEF PauseTypeOK, Procs, Labels, Busy, Saving

LEMMA ProcTyped ==
    ASSUME PauseTypeOK, NEW c \in Commands
    PROVE  /\ cmd[c] \in Procs /\ content[c] \in FileSet
           /\ cmd \in [Commands -> Procs]
  BY DEF PauseTypeOK, Procs, Labels, Busy, Saving

\* Going to a place changes nothing else that the command knows.
LEMMA GotoStep ==
    ASSUME PauseTypeOK, NEW c \in Commands, NEW l \in Labels, Goto(c, l)
    PROVE  /\ cmd' \in [Commands -> Procs]
           /\ cmd'[c].pc = l /\ cmd'[c].answering = cmd[c].answering
           /\ cmd'[c].count = cmd[c].count /\ cmd'[c].history = cmd[c].history
           /\ cmd'[c].pausing = cmd[c].pausing /\ cmd'[c].fd = cmd[c].fd
           /\ \A d \in Commands : d # c => cmd'[d] = cmd[d]
<1> DEFINE r == [cmd[c] EXCEPT !.pc = l]
<1>1. cmd[c] \in Procs
  BY ProcTyped
<1>2. /\ r \in Procs /\ r.pc = l /\ r.answering = cmd[c].answering
      /\ r.count = cmd[c].count /\ r.history = cmd[c].history
      /\ r.pausing = cmd[c].pausing /\ r.fd = cmd[c].fd
  BY <1>1 DEF Procs
<1>3. cmd' = [cmd EXCEPT ![c] = r]
  BY DEF Goto
<1> HIDE DEF r
<1> QED
  BY <1>2, <1>3, Assign

\* A step of one command that answers, asks, creates and moves files only in
\* its own name is none of the other commands' business.
LEMMA OneCommand ==
    ASSUME IInv, NEW c \in Commands,
           cmd' \in [Commands -> Procs], \A d \in Commands : d # c => cmd'[d] = cmd[d],
           alone' = alone, asked' \in Nat, asked <= asked',
           answers \subseteq answers', answers' \subseteq Nat,
           file' \in {file, tmp, NoFile}, tmp' \in {tmp, NoFile, c},
           tmp' # NoFile => tmp' # file',
           content' \in [Commands -> FileSet],
           told' \subseteq Nat, settled' \subseteq Nat, \A q \in told' : q <= asked',
           Cmd(c)', \A f \in Commands : Sound(f)',
           alone => ~Over(c) \/ \A d \in Commands : Over(d),
           alone => AllAnswers' /\ (Over(c)' \/ Sole(c)'),
           QuestionKept'
    PROVE  IInv'
<1>1. PauseTypeOK'
  BY DEF IInv, PauseTypeOK, Procs, Labels, Busy, Saving
<1>2. ASSUME NEW d \in Commands, d # c PROVE Cmd(d)'
  <2>1. cmd'[d] = cmd[d] /\ Cmd(d) /\ cmd[d] \in Procs
    BY <1>2, ProcTyped DEF IInv
  <2>2. cmd[d].pc \in Early => file' # d /\ tmp' # d
    BY <1>2, <2>1, CommandsAssumption DEF Cmd
  <2>3. asked \in Nat /\ cmd[d].pausing \in Nat
    BY <2>1 DEF IInv, PauseTypeOK, Procs
  <2>4. ToSet(cmd[d].history) \subseteq Nat
    BY <2>1 DEF Procs, ToSet
  <2>5. \A x \in ToSet(cmd[d].history) : x < asked + 1 => x < asked' + 1
    BY <2>3, <2>4
  <2>6. cmd[d].pausing <= asked'
    BY <2>1, <2>3 DEF Cmd
  <2>7. cmd[d].pc \in Busy => Below(cmd[d].history, asked' + 1)
    BY <2>1, <2>5 DEF Cmd, Below
  <2>8. cmd[d].pc \in Busy =>
          ToSet(cmd[d].history) \subseteq
             answers' \cup (IF cmd[d].pc = "build" THEN {cmd[d].answering} ELSE {})
    BY <2>1 DEF Cmd
  <2> QED  BY <2>1, <2>2, <2>6, <2>7, <2>8 DEF Cmd
<1>3. ASSUME alone PROVE AloneInv'
  <2>1. AloneInv
    BY <1>3 DEF IInv
  <2>2. \A d \in Commands : d # c => (Over(d)' <=> Over(d))
    BY DEF Over
  <2>3. \A d, e \in Commands : ~Over(d)' /\ ~Over(e)' => d = e
    BY <1>3, <2>1, <2>2 DEF AloneInv
  <2>4. ASSUME NEW d \in Commands, ~Over(d)' PROVE Sole(d)'
    BY <1>3, <2>1, <2>2, <2>4 DEF AloneInv
  <2> QED  BY <1>3, <2>3, <2>4 DEF AloneInv
<1> QED
  BY <1>1, <1>2, <1>3 DEF IInv

\* What is on file stays sound as questions and answers are added.
LEMMA SoundStays ==
    ASSUME IInv, NEW f \in Commands, content'[f] = content[f],
           asked' \in Nat, asked <= asked', answers \subseteq answers'
    PROVE  Sound(f)'
<1>1. Sound(f) /\ content[f] \in FileSet /\ asked \in Nat
  BY ProcTyped DEF IInv, PauseTypeOK
<1>2. WholeRecord(f)' <=> WholeRecord(f)
  BY DEF WholeRecord
<1>3. content[f].q <= asked => content[f].q <= asked'
  BY <1>1 DEF FileSet
<1> QED  BY <1>1, <1>2, <1>3 DEF Sound

\* What the other variables promise while nothing is written, told or settled.
LEMMA FilesStay ==
    ASSUME IInv, UNCHANGED <<alone, recordVars, told, settled>>,
           asked' \in Nat, asked <= asked', answers \subseteq answers'
    PROVE  /\ \A f \in Commands : Sound(f)'
           /\ QuestionKept' /\ content' \in [Commands -> FileSet]
           /\ alone' = alone /\ file' = file /\ tmp' = tmp
           /\ told' \subseteq Nat /\ settled' \subseteq Nat
           /\ tmp' # NoFile => tmp' # file'
           /\ \A q \in told' : q <= asked'
<1>1. \A f \in Commands : Sound(f)'
  BY SoundStays DEF recordVars
<1>2. QuestionKept'
  BY DEF IInv, QuestionKept, WholeRecord, recordVars
<1>3. content' \in [Commands -> FileSet] /\ asked \in Nat /\ told \subseteq Nat
      /\ settled \subseteq Nat
  BY DEF IInv, PauseTypeOK, recordVars
<1>4. \A q \in told' : q <= asked'
  BY <1>3 DEF IInv
<1> QED  BY <1>1, <1>2, <1>3, <1>4 DEF IInv, recordVars

\* A command that ends without touching anything.
LEMMA Ends ==
    ASSUME IInv, NEW c \in Commands, cmd' \in [Commands -> Procs],
           cmd'[c].pc = "done", cmd'[c].pausing <= asked,
           \A d \in Commands : d # c => cmd'[d] = cmd[d],
           alone => ~Over(c) \/ \A d \in Commands : Over(d),
           UNCHANGED <<alone, recordVars, answers, asked, told, settled>>
    PROVE  IInv'
<1>1. asked \in Nat /\ answers \subseteq Nat
  BY DEF IInv, PauseTypeOK
<1>2. Cmd(c)'
  BY DEF Cmd, Early, Busy, Saving
<1>3. alone => AllAnswers' /\ Over(c)'
  BY DEF IInv, AloneInv, AllAnswers, WholeRecord, Over, recordVars
<1> QED  BY <1>1, <1>2, <1>3, FilesStay, OneCommand

-----------------------------------------------------------------------------
(* The invariant. *)

LEMMA InitIInv == PauseInit => IInv
<1> SUFFICES ASSUME PauseInit PROVE IInv
  OBVIOUS
<1>1. \A c \in Commands : cmd[c] = IF c = Batch THEN [Launched EXCEPT !.pc = "run"] ELSE Launched
  BY DEF PauseInit
<1>2. Len(<<>>) = 0 /\ DOMAIN <<>> = {} /\ <<>> \in Seq(Nat)
  OBVIOUS
<1>3. PauseTypeOK
  BY <1>2 DEF PauseInit, PauseTypeOK, Launched, Empty, FileSet
<1>4. Increasing(<<>>) /\ Below(<<>>, 1) /\ ToSet(<<>>) = {}
  BY <1>2 DEF Increasing, Below, ToSet
<1>5. \A c \in Commands : Cmd(c) /\ Sound(c)
  BY <1>1, <1>2, <1>4, CommandsAssumption
     DEF PauseInit, Launched, Cmd, Sound, WholeRecord, Empty, Early, Busy, Saving
<1>6. \A c \in Commands : ~Over(c) => c = Batch /\ Sole(c)
  BY <1>1, <1>4 DEF PauseInit, Launched, Over, Sole, Busy, Saving
<1>7. AloneInv /\ QuestionKept
  BY <1>6 DEF PauseInit, AloneInv, AllAnswers, QuestionKept
<1> QED  BY <1>3, <1>5, <1>7 DEF IInv, PauseInit

LEMMA ResumeStep ==
    ASSUME IInv, NEW c \in Commands, NEW q \in told, ResumePaused(c, q)
    PROVE  IInv'
<1> DEFINE h == content[file].history
           r == [Launched EXCEPT !.pc = "build", !.answering = q, !.count = content[file].count + 1,
                             !.history = Append(h, q)]
           e == [Launched EXCEPT !.pc = "done"]
<1>1. /\ cmd[c].pc = "new" /\ (alone => \A d \in Commands : Over(d))
      /\ UNCHANGED <<alone, recordVars, answers, asked, told, settled>>
      /\ cmd' = [cmd EXCEPT ![c] = IF Loadable(q) THEN r ELSE e]
  BY DEF ResumePaused
<1>2. q \in Nat /\ asked \in Nat /\ answers \subseteq Nat /\ PauseTypeOK /\ Cmd(c) /\ q <= asked
  BY DEF IInv, PauseTypeOK
<1>3. <<>> \in Seq(Nat)
  OBVIOUS
<1>4. CASE ~Loadable(q)
  <2>1. e \in Procs /\ e.pc = "done" /\ e.pausing = 0
    BY <1>3 DEF Launched, Procs, Labels
  <2>2. cmd' = [cmd EXCEPT ![c] = e]
    BY <1>1, <1>4
  <2> HIDE DEF e
  <2>3. /\ cmd'[c] = e /\ \A d \in Commands : d # c => cmd'[d] = cmd[d]
        /\ cmd' \in [Commands -> Procs]
    BY <1>2, <2>1, <2>2, Assign
  <2>4. cmd'[c].pc = "done" /\ cmd'[c].pausing <= asked
    BY <1>2, <2>1, <2>3
  <2> QED  BY <1>1, <2>3, <2>4, Ends
<1>5. CASE Loadable(q)
  <2>1. /\ file \in Commands /\ content[file] \in FileSet /\ content[file].q = q
        /\ WholeRecord(file)
    BY <1>2, <1>5, ProcTyped DEF Loadable, PauseTypeOK
  <2>2. /\ h \in Seq(Nat) /\ Increasing(h) /\ Below(h, q) /\ ToSet(h) \subseteq answers
        /\ content[file].count = Len(h)
    BY <2>1 DEF IInv, Sound, FileSet
  <2>3. /\ Append(h, q) \in Seq(Nat) /\ Len(Append(h, q)) = Len(h) + 1
        /\ ToSet(Append(h, q)) = ToSet(h) \cup {q} /\ Increasing(Append(h, q))
    BY <1>2, <2>2, AppendFacts
  <2>4. /\ r \in Procs /\ r.pc = "build" /\ r.answering = q /\ r.pausing = 0
        /\ r.history = Append(h, q) /\ r.count = Len(h) + 1
    <3>1. content[file].count + 1 \in Nat /\ content[file].count + 1 = Len(h) + 1
      BY <2>1, <2>2 DEF FileSet
    <3> HIDE DEF h
    <3> QED  BY <1>2, <2>3, <3>1 DEF Launched, Procs, Labels, Busy
  <2>5. cmd' = [cmd EXCEPT ![c] = r]
    BY <1>1, <1>5
  <2>6. ToSet(h) \subseteq Nat
    BY <2>2 DEF ToSet
  <2> HIDE DEF r, h
  <2>7. /\ cmd'[c] = r /\ \A d \in Commands : d # c => cmd'[d] = cmd[d]
        /\ cmd' \in [Commands -> Procs]
    BY <1>2, <2>4, <2>5, Assign
  <2>8. Below(Append(h, q), asked + 1)
    BY <1>2, <2>2, <2>3, <2>6 DEF Below
  <2>9. Cmd(c)'
    <3>1. c # Batch /\ file # c /\ tmp # c
      BY <1>1, <1>2 DEF Cmd, Early
    <3>2. file' = file /\ tmp' = tmp /\ asked' = asked /\ answers' = answers
      BY <1>1 DEF recordVars
    <3>3. ToSet(Append(h, q)) \subseteq answers \cup {q}
      BY <2>2, <2>3 DEF h
    <3>4. /\ cmd'[c].pc = "build" /\ cmd'[c].answering = q /\ cmd'[c].pausing <= asked'
          /\ cmd'[c].history = Append(h, q) /\ cmd'[c].count = Len(h) + 1
      BY <1>2, <2>4, <2>7, <3>2
    <3>5. /\ cmd'[c].count = Len(cmd'[c].history) /\ Increasing(cmd'[c].history)
          /\ Below(cmd'[c].history, asked' + 1)
          /\ ToSet(cmd'[c].history) \subseteq answers' \cup {cmd'[c].answering}
      BY <2>3, <2>8, <3>2, <3>3, <3>4
    <3> HIDE DEF h
    <3> QED  BY <3>1, <3>2, <3>4, <3>5 DEF Cmd, Saving
  <2>10. Sole(c)'
    <3>1. c # Batch
      BY <1>1, <1>2 DEF Cmd
    <3>2. Loadable(q)'
      BY <1>1, <1>5 DEF Loadable, WholeRecord, recordVars
    <3> QED  BY <1>1, <2>4, <2>7, <3>1, <3>2 DEF Sole, Busy, Saving, recordVars, h
  <2>11. alone => AllAnswers'
    BY <1>1 DEF IInv, AloneInv, AllAnswers, WholeRecord, recordVars
  <2> QED
    BY <1>1, <1>2, <2>7, <2>9, <2>10, <2>11, FilesStay, OneCommand
<1> QED  BY <1>4, <1>5

LEMMA TakeAnswerStep ==
    ASSUME IInv, NEW c \in Commands, TakeAnswer(c)
    PROVE  IInv'
<1> DEFINE q == cmd[c].answering
<1>1. /\ cmd[c].pc = "build" /\ answers' = answers \cup {q}
      /\ UNCHANGED <<alone, recordVars, asked, told, settled>>
  BY DEF TakeAnswer
<1>2. PauseTypeOK /\ Cmd(c) /\ asked \in Nat /\ answers \subseteq Nat /\ cmd[c] \in Procs
  BY ProcTyped DEF IInv, PauseTypeOK
<1>3. /\ cmd' \in [Commands -> Procs] /\ cmd'[c].pc = "run"
      /\ cmd'[c].count = cmd[c].count /\ cmd'[c].history = cmd[c].history
      /\ cmd'[c].answering = q /\ cmd'[c].pausing = cmd[c].pausing
      /\ \A d \in Commands : d # c => cmd'[d] = cmd[d]
  BY <1>2, GotoStep DEF TakeAnswer, Labels, Busy
<1>4. answers' \subseteq Nat
  BY <1>1, <1>2 DEF Procs
<1>5. Cmd(c)'
  BY <1>1, <1>2, <1>3 DEF Cmd, Busy, Saving, Early, recordVars
<1>6. ASSUME alone PROVE Sole(c)' /\ AllAnswers'
  <2>1. c # Batch /\ Sole(c) /\ AllAnswers
    BY <1>1, <1>2, <1>6 DEF IInv, AloneInv, Over, Cmd
  <2>2. Loadable(q) /\ cmd[c].history = Append(content[file].history, q)
    BY <1>1, <2>1 DEF Sole, Busy
  <2>3. /\ file \in Commands /\ content[file] \in FileSet /\ content[file].q = q
        /\ WholeRecord(file)
    BY <1>2, <2>2, ProcTyped DEF Loadable, PauseTypeOK
  <2>4. /\ content[file].history \in Seq(Nat) /\ Increasing(content[file].history)
        /\ Below(content[file].history, q) /\ q \in Nat
    BY <1>2, <2>3 DEF IInv, Sound, FileSet, Procs
  <2>5. ToSet(cmd[c].history) = ToSet(content[file].history) \cup {q}
    BY <2>2, <2>4, AppendFacts
  <2>6. answers' \subseteq ToSet(content[file].history) \cup {q}
    BY <1>1, <2>1, <2>3, CommandsAssumption DEF AllAnswers
  <2>7. AllAnswers'
    BY <1>1, <2>3, <2>6 DEF AllAnswers, recordVars
  <2>8. Loadable(q)'
    BY <1>1, <1>3, <2>2 DEF Loadable, WholeRecord, recordVars
  <2> QED
    BY <1>1, <1>3, <2>1, <2>2, <2>5, <2>6, <2>7, <2>8 DEF Sole, Busy, Saving, recordVars
<1>7. alone => ~Over(c)
  BY <1>1 DEF Over
<1> QED
  BY <1>1, <1>2, <1>3, <1>4, <1>5, <1>6, <1>7, FilesStay, OneCommand

LEMMA AskStep ==
    ASSUME IInv, NEW c \in Commands, AskHuman(c)
    PROVE  IInv'
<1> DEFINE r == [cmd[c] EXCEPT !.pc = "open", !.pausing = asked + 1]
<1>1. /\ cmd[c].pc = "run" /\ asked' = asked + 1
      /\ cmd' = [cmd EXCEPT ![c] = r]
      /\ UNCHANGED <<alone, recordVars, answers, told, settled>>
  BY DEF AskHuman
<1>2. PauseTypeOK /\ Cmd(c) /\ asked \in Nat /\ answers \subseteq Nat /\ cmd[c] \in Procs
  BY ProcTyped DEF IInv, PauseTypeOK
<1>3. /\ r \in Procs /\ r.pc = "open" /\ r.pausing = asked + 1 /\ r.count = cmd[c].count
      /\ r.history = cmd[c].history /\ r.answering = cmd[c].answering
  <2>1. asked + 1 \in Nat /\ "open" \in Labels
    BY <1>2 DEF Labels, Busy, Saving
  <2> QED  BY <1>2, <2>1 DEF Procs
<1> HIDE DEF r
<1>4. /\ cmd'[c] = r /\ \A d \in Commands : d # c => cmd'[d] = cmd[d]
      /\ cmd' \in [Commands -> Procs]
  BY <1>1, <1>2, <1>3, Assign
<1>5. /\ cmd[c].count = Len(cmd[c].history) /\ Increasing(cmd[c].history)
      /\ Below(cmd[c].history, asked + 1) /\ ToSet(cmd[c].history) \subseteq answers
  BY <1>1, <1>2 DEF Cmd, Busy
<1>6. Below(cmd[c].history, asked' + 1)
  <2>1. ToSet(cmd[c].history) \subseteq Nat
    BY <1>2 DEF Procs, ToSet
  <2> QED  BY <1>1, <1>2, <1>5, <2>1 DEF Below
<1>7. Cmd(c)'
  <2>1. file' # c /\ tmp' # c
    BY <1>1, <1>2 DEF Cmd, Early, recordVars
  <2> QED  BY <1>1, <1>2, <1>3, <1>4, <1>5, <1>6, <2>1 DEF Cmd, Saving
<1>8. ASSUME alone PROVE Sole(c)' /\ AllAnswers'
  <2>1. Sole(c) /\ AllAnswers
    BY <1>1, <1>8 DEF IInv, AloneInv, Over
  <2>2. \A q \in told : q < asked + 1
    <3>1. told \subseteq Nat /\ \A q \in told : q <= asked
      BY DEF IInv, PauseTypeOK
    <3> QED  BY <1>2, <3>1
  <2>3. Loadable(cmd[c].answering) => Loadable(cmd[c].answering)'
    BY <1>1, <1>3, <1>4 DEF Loadable, WholeRecord, recordVars
  <2>4. AllAnswers'
    BY <1>1, <2>1 DEF AllAnswers, WholeRecord, recordVars
  <2> QED
    BY <1>1, <1>3, <1>4, <2>1, <2>2, <2>3, <2>4 DEF Sole, Busy, Saving, recordVars
<1>9. alone => ~Over(c)
  BY <1>1 DEF Over
<1> QED
  BY <1>1, <1>2, <1>4, <1>7, <1>8, <1>9, FilesStay, OneCommand

\* A command that runs alone has been told the answer to every open question.
LEMMA HistoryHasTold ==
    ASSUME IInv, alone, NEW c \in Commands, cmd[c].pc \in Busy \ {"build"},
           NEW q \in told, q \notin settled
    PROVE  c # Batch /\ q \in ToSet(cmd[c].history)
<1>1. Sole(c)
  BY DEF IInv, AloneInv, Over, Busy, Saving
<1>2. c # Batch /\ Loadable(cmd[c].answering)
      /\ cmd[c].history = Append(content[file].history, cmd[c].answering)
  BY <1>1 DEF Sole
<1>3. /\ file # NoFile /\ WholeRecord(file) /\ content[file].q = cmd[c].answering
      /\ file \in Commands
  BY <1>2 DEF Loadable, IInv, PauseTypeOK
<1>4. /\ content[file].history \in Seq(Nat) /\ Increasing(content[file].history)
      /\ Below(content[file].history, cmd[c].answering) /\ cmd[c].answering \in Nat
  BY <1>3, ProcTyped DEF IInv, Sound, FileSet, Procs
<1>5. ToSet(cmd[c].history) = ToSet(content[file].history) \cup {cmd[c].answering}
  BY <1>2, <1>4, AppendFacts
<1>6. content[file].q # q => q \in ToSet(content[file].history)
  BY DEF IInv, QuestionKept
<1> QED  BY <1>2, <1>3, <1>5, <1>6

LEMMA FailStep ==
    ASSUME IInv, NEW c \in Commands, cmd[c].pc \in Busy \ {"build"}, Fail(c),
           content' \in [Commands -> FileSet], \A f \in Commands : Sound(f)',
           alone /\ file # NoFile => content'[file] = content[file],
           UNCHANGED <<alone, file, tmp, answers, asked, told>>
    PROVE  IInv'
<1> DEFINE r == [cmd[c] EXCEPT !.pc = IF c = Batch THEN "close" ELSE "delete",
                                !.pausing = 0]
<1>1. cmd' = [cmd EXCEPT ![c] = r] /\ settled' = settled \cup ToSet(cmd[c].history)
  BY DEF Fail
<1>2. /\ PauseTypeOK /\ Cmd(c) /\ asked \in Nat /\ answers \subseteq Nat /\ cmd[c] \in Procs
      /\ settled \subseteq Nat /\ told \subseteq Nat
  BY ProcTyped DEF IInv, PauseTypeOK
<1>3. /\ r \in Procs /\ r.pc = (IF c = Batch THEN "close" ELSE "delete") /\ r.pausing = 0
  BY <1>2 DEF Procs, Labels
<1> HIDE DEF r
<1>4. /\ cmd'[c] = r /\ \A d \in Commands : d # c => cmd'[d] = cmd[d]
      /\ cmd' \in [Commands -> Procs]
  BY <1>1, <1>2, <1>3, Assign
<1>5. settled' \subseteq Nat
  <2>1. ToSet(cmd[c].history) \subseteq Nat
    BY <1>2 DEF Procs, ToSet
  <2> QED  BY <1>1, <1>2, <2>1
<1>6. Cmd(c)'
  <2>1. cmd'[c].pc \in {"close", "delete"} /\ cmd'[c].pausing = 0
    BY <1>3, <1>4
  <2>2. c = Batch => cmd'[c].pc = "close"
    BY <1>3, <1>4
  <2>3. asked' \in Nat
    BY <1>2
  <2> QED  BY <2>1, <2>2, <2>3 DEF Cmd, Busy, Saving, Early
<1>7. ~Over(c)
  BY DEF Over, Busy, Saving
<1>8. ASSUME alone PROVE Sole(c)' /\ AllAnswers'
  <2>1. Sole(c) /\ AllAnswers
    BY <1>7, <1>8 DEF IInv, AloneInv
  <2>2. told \subseteq settled'
    BY <1>1, <1>8, HistoryHasTold
  <2>3. AllAnswers'
    BY <1>8, <2>1 DEF AllAnswers, WholeRecord
  <2>4. cmd'[c].pc \in {"close", "delete"} /\ cmd'[c].pausing = 0
    BY <1>3, <1>4
  <2>5. c = Batch => told = {}
    BY <2>1 DEF Sole
  <2> QED
    BY <2>2, <2>3, <2>4, <2>5 DEF Sole, Busy, Saving
<1>9. QuestionKept'
  BY <1>1 DEF IInv, QuestionKept, WholeRecord
<1>10. /\ tmp' # NoFile => tmp' # file'
       /\ \A q \in told' : q <= asked'
  BY DEF IInv
<1> QED
  BY <1>2, <1>4, <1>5, <1>6, <1>7, <1>8, <1>9, <1>10, OneCommand

LEMMA FailingStep ==
    ASSUME IInv, NEW c \in Commands,
           EndRun(c) \/ OpenFails(c) \/ WriteFails(c) \/ ReplaceFails(c)
    PROVE  IInv'
<1>1. PauseTypeOK /\ asked \in Nat /\ Cmd(c) /\ cmd[c] \in Procs
  BY ProcTyped DEF IInv, PauseTypeOK
<1>2. CASE EndRun(c) \/ OpenFails(c) \/ ReplaceFails(c)
  <2>1. /\ cmd[c].pc \in Busy \ {"build"} /\ Fail(c)
        /\ UNCHANGED <<alone, recordVars, answers, asked, told>>
    BY <1>2 DEF EndRun, OpenFails, ReplaceFails, Busy, Saving
  <2>2. \A f \in Commands : Sound(f)'
    BY <1>1, <2>1, SoundStays DEF recordVars
  <2>3. content' \in [Commands -> FileSet]
    BY <1>1, <2>1 DEF PauseTypeOK, recordVars
  <2> QED
    BY <2>1, <2>2, <2>3, FailStep DEF recordVars
<1>3. CASE WriteFails(c)
  <2>1. /\ cmd[c].pc = "write" /\ Fail(c)
        /\ content' = [content EXCEPT ![cmd[c].fd] = TornRecord]
        /\ UNCHANGED <<alone, file, tmp, answers, asked, told>>
    BY <1>3 DEF WriteFails
  <2>2. content \in [Commands -> FileSet] /\ TornRecord \in FileSet /\ TornRecord.state = "torn"
    <3>1. <<>> \in Seq(Nat)
      OBVIOUS
    <3> QED  BY <1>1, <3>1 DEF PauseTypeOK, TornRecord, Empty, FileSet
  <2>3. content' \in [Commands -> FileSet]
    BY <2>1, <2>2
  <2>4. ASSUME NEW f \in Commands PROVE Sound(f)'
    <3>1. CASE f = cmd[c].fd
      BY <2>1, <2>2, <3>1 DEF Sound, WholeRecord
    <3>2. CASE f # cmd[c].fd
      BY <1>1, <2>1, <2>2, <3>2, SoundStays
    <3> QED  BY <3>1, <3>2
  <2>5. alone /\ file # NoFile => content'[file] = content[file]
    <3>1. alone => cmd[c].fd = tmp
      BY <2>1 DEF IInv, AloneInv, Over, Sole
    <3>2. cmd[c].fd # NoFile
      BY <1>1, <2>1 DEF Cmd
    <3>3. file \in Commands \cup {NoFile}
      BY <1>1 DEF PauseTypeOK
    <3> QED  BY <2>1, <2>2, <3>1, <3>2, <3>3 DEF IInv
  <2>6. cmd[c].pc \in Busy \ {"build"}
    BY <2>1 DEF Busy, Saving
  <2> QED
    BY <2>1, <2>3, <2>4, <2>5, <2>6, FailStep
<1> QED  BY <1>2, <1>3

LEMMA OpenStep ==
    ASSUME IInv, NEW c \in Commands, Open(c)
    PROVE  IInv'
<1> DEFINE i == IF tmp = NoFile THEN c ELSE tmp
           r == [cmd[c] EXCEPT !.pc = "write", !.fd = i]
<1>1. /\ cmd[c].pc = "open" /\ tmp' = i
      /\ content' = [content EXCEPT ![i] = Empty]
      /\ cmd' = [cmd EXCEPT ![c] = r]
      /\ UNCHANGED <<alone, file, answers, asked, told, settled>>
  BY DEF Open
<1>2. /\ PauseTypeOK /\ Cmd(c) /\ asked \in Nat /\ answers \subseteq Nat /\ cmd[c] \in Procs
      /\ told \subseteq Nat /\ settled \subseteq Nat /\ file \in Commands \cup {NoFile}
      /\ tmp \in Commands \cup {NoFile} /\ content \in [Commands -> FileSet]
  BY ProcTyped DEF IInv, PauseTypeOK
<1>3. i \in Commands /\ i # file /\ (i = tmp \/ i = c)
  BY <1>1, <1>2 DEF Cmd, Early, IInv
<1> HIDE DEF i
<1>4. /\ r \in Procs /\ r.pc = "write" /\ r.fd = i /\ r.count = cmd[c].count
      /\ r.history = cmd[c].history /\ r.answering = cmd[c].answering
      /\ r.pausing = cmd[c].pausing
  <2>1. "write" \in Labels
    BY DEF Labels, Busy, Saving
  <2> QED  BY <1>2, <1>3, <2>1 DEF Procs
<1> HIDE DEF r
<1>5. /\ cmd'[c] = r /\ \A d \in Commands : d # c => cmd'[d] = cmd[d]
      /\ cmd' \in [Commands -> Procs]
  BY <1>1, <1>2, <1>4, Assign
<1>6. Empty \in FileSet /\ Empty.state = "empty"
  <2>1. <<>> \in Seq(Nat)
    OBVIOUS
  <2> QED  BY <2>1 DEF Empty, FileSet
<1>7. /\ content' \in [Commands -> FileSet] /\ content'[i] = Empty
      /\ \A f \in Commands : f # i => content'[f] = content[f]
  BY <1>1, <1>2, <1>3, <1>6
<1>8. ASSUME NEW f \in Commands PROVE Sound(f)'
  <2>1. CASE f = i
    BY <1>6, <1>7, <2>1 DEF Sound, WholeRecord
  <2>2. CASE f # i
    BY <1>1, <1>2, <1>7, <2>2, SoundStays
  <2> QED  BY <2>1, <2>2
<1>9. Cmd(c)'
  <2>1. i # NoFile
    BY <1>3, CommandsAssumption
  <2> QED  BY <1>1, <1>2, <1>4, <1>5, <2>1 DEF Cmd, Early, Busy, Saving
<1>10. file # NoFile => content'[file] = content[file]
  BY <1>2, <1>3, <1>7
<1>11. ASSUME alone PROVE Sole(c)' /\ AllAnswers'
  <2>1. Sole(c) /\ AllAnswers
    BY <1>1, <1>11 DEF IInv, AloneInv, Over
  <2>2. Loadable(cmd[c].answering) => Loadable(cmd[c].answering)'
    BY <1>1, <1>4, <1>5, <1>10 DEF Loadable, WholeRecord
  <2>3. AllAnswers'
    BY <1>1, <1>10, <2>1 DEF AllAnswers, WholeRecord
  <2>4. Loadable(cmd[c].answering) => file # NoFile
    BY DEF Loadable
  <2> QED
    BY <1>1, <1>4, <1>5, <1>7, <1>10, <2>1, <2>2, <2>3, <2>4 DEF Sole, Busy, Saving
<1>12. QuestionKept'
  BY <1>1, <1>10 DEF IInv, QuestionKept, WholeRecord
<1>13. /\ ~Over(c) /\ (tmp' # NoFile => tmp' # file')
       /\ \A q \in told' : q <= asked'
  BY <1>1, <1>3 DEF Over, IInv
<1>14. tmp' \in {tmp, NoFile, c}
  BY <1>1, <1>3
<1> QED
  BY <1>1, <1>2, <1>5, <1>7, <1>8, <1>9, <1>11, <1>12, <1>13, <1>14, OneCommand

LEMMA WriteStep ==
    ASSUME IInv, NEW c \in Commands, Write(c)
    PROVE  IInv'
<1> DEFINE i == cmd[c].fd
           k == PausedRecord(cmd[c].pausing, cmd[c].count, cmd[c].history)
<1>1. PICK rest \in BOOLEAN :
        /\ rest => content[i] # Empty
        /\ content' = [content EXCEPT ![i] = IF rest THEN TornRecord ELSE k]
  BY DEF Write
<1>2. /\ cmd[c].pc = "write" /\ Goto(c, "replace")
      /\ UNCHANGED <<alone, file, tmp, answers, asked, told, settled>>
  BY DEF Write
<1>3. /\ PauseTypeOK /\ Cmd(c) /\ asked \in Nat /\ answers \subseteq Nat /\ cmd[c] \in Procs
      /\ told \subseteq Nat /\ settled \subseteq Nat /\ file \in Commands \cup {NoFile}
      /\ content \in [Commands -> FileSet]
  BY ProcTyped DEF IInv, PauseTypeOK
<1>4. i \in Commands
  BY <1>2, <1>3 DEF Cmd, Procs
<1>5. /\ k \in FileSet /\ k.q = cmd[c].pausing /\ k.count = cmd[c].count
      /\ k.history = cmd[c].history
  BY <1>3 DEF PausedRecord, FileSet, Procs
<1>6. TornRecord \in FileSet /\ TornRecord.state = "torn"
  <2>1. <<>> \in Seq(Nat)
    OBVIOUS
  <2> QED  BY <2>1 DEF TornRecord, Empty, FileSet
<1>7. /\ cmd' \in [Commands -> Procs] /\ cmd'[c].pc = "replace"
      /\ cmd'[c].answering = cmd[c].answering
      /\ cmd'[c].count = cmd[c].count /\ cmd'[c].history = cmd[c].history
      /\ cmd'[c].pausing = cmd[c].pausing
      /\ \A d \in Commands : d # c => cmd'[d] = cmd[d]
  <2>1. "replace" \in Labels
    BY DEF Labels, Busy, Saving
  <2> QED  BY <1>2, <1>3, <2>1, GotoStep
<1> HIDE DEF k, i
<1>8. /\ content' \in [Commands -> FileSet]
      /\ content'[i] = (IF rest THEN TornRecord ELSE k)
      /\ \A f \in Commands : f # i => content'[f] = content[f]
  BY <1>1, <1>3, <1>4, <1>5, <1>6
<1>9. ASSUME NEW f \in Commands PROVE Sound(f)'
  <2>1. CASE f # i
    BY <1>2, <1>3, <1>8, <2>1, SoundStays
  <2>2. CASE f = i /\ rest
    BY <1>6, <1>8, <2>2 DEF Sound, WholeRecord
  <2>3. CASE f = i /\ ~rest
    <3>1. content'[f] = k
      BY <1>8, <2>3
    <3>2. /\ cmd[c].count = Len(cmd[c].history) /\ Increasing(cmd[c].history)
          /\ ToSet(cmd[c].history) \subseteq answers
          /\ Below(cmd[c].history, cmd[c].pausing) /\ cmd[c].pausing <= asked
      BY <1>2, <1>3 DEF Cmd, Busy, Saving
    <3> QED  BY <1>2, <1>5, <3>1, <3>2 DEF Sound
  <2> QED  BY <2>1, <2>2, <2>3
<1>10. Cmd(c)'
  BY <1>2, <1>3, <1>7 DEF Cmd, Early, Busy, Saving
<1>11. ~Over(c)
  BY <1>2 DEF Over
<1>12. alone => i = tmp /\ tmp # NoFile /\ tmp # file /\ content[i] = Empty
  <2>1. alone => cmd[c].fd = tmp /\ content[tmp] = Empty
    BY <1>2, <1>11 DEF IInv, AloneInv, Sole
  <2>2. cmd[c].fd # NoFile
    BY <1>2, <1>3 DEF Cmd
  <2> QED  BY <2>1, <2>2 DEF IInv, i
<1>13. alone /\ file # NoFile => content'[file] = content[file]
  BY <1>3, <1>8, <1>12
<1>14. ASSUME alone PROVE Sole(c)' /\ AllAnswers'
  <2>1. Sole(c) /\ AllAnswers
    BY <1>11, <1>14 DEF IInv, AloneInv
  <2>2. Loadable(cmd[c].answering) => Loadable(cmd[c].answering)'
    BY <1>2, <1>7, <1>13, <1>14 DEF Loadable, WholeRecord
  <2>3. AllAnswers'
    BY <1>2, <1>13, <1>14, <2>1 DEF AllAnswers, WholeRecord
  <2>4. content'[tmp'] = PausedRecord(cmd'[c].pausing, cmd'[c].count, cmd'[c].history)
    BY <1>1, <1>2, <1>7, <1>8, <1>12, <1>14 DEF k
  <2>5. Loadable(cmd[c].answering) => file # NoFile
    BY DEF Loadable
  <2> QED
    BY <1>2, <1>7, <1>12, <1>13, <1>14, <2>1, <2>2, <2>3, <2>4, <2>5
    DEF Sole, Busy, Saving
<1>15. QuestionKept'
  BY <1>2, <1>13 DEF IInv, QuestionKept, WholeRecord
<1>16. (tmp' # NoFile => tmp' # file') /\ \A q \in told' : q <= asked'
  BY <1>2 DEF IInv
<1> QED
  BY <1>2, <1>3, <1>7, <1>8, <1>9, <1>10, <1>11, <1>14, <1>15, <1>16, OneCommand

LEMMA ReplaceStep ==
    ASSUME IInv, NEW c \in Commands, Replace(c)
    PROVE  IInv'
<1>1. /\ cmd[c].pc = "replace" /\ tmp # NoFile /\ Goto(c, "close")
      /\ file' = tmp /\ tmp' = NoFile
      /\ UNCHANGED <<alone, content, answers, asked, told, settled>>
  BY DEF Replace
<1>2. /\ PauseTypeOK /\ Cmd(c) /\ asked \in Nat /\ answers \subseteq Nat /\ cmd[c] \in Procs
      /\ told \subseteq Nat /\ settled \subseteq Nat /\ content \in [Commands -> FileSet]
  BY ProcTyped DEF IInv, PauseTypeOK
<1>3. /\ cmd' \in [Commands -> Procs] /\ cmd'[c].pc = "close"
      /\ cmd'[c].pausing = cmd[c].pausing
      /\ \A d \in Commands : d # c => cmd'[d] = cmd[d]
  BY <1>1, <1>2, GotoStep DEF Labels
<1>4. ~Over(c)
  BY <1>1 DEF Over
<1>5. \A f \in Commands : Sound(f)'
  BY <1>1, <1>2, SoundStays
<1>6. Cmd(c)'
  BY <1>1, <1>2, <1>3 DEF Cmd, Early, Busy, Saving
<1>7. ASSUME alone PROVE Sole(c)' /\ AllAnswers' /\ QuestionKept'
  <2>1. Sole(c)
    BY <1>4, <1>7 DEF IInv, AloneInv
  <2>2. /\ content[tmp] = PausedRecord(cmd[c].pausing, cmd[c].count, cmd[c].history)
        /\ answers \subseteq ToSet(cmd[c].history)
        /\ \A q \in told : q < cmd[c].pausing
    BY <1>1, <2>1 DEF Sole, Busy, Saving
  <2>3. /\ content'[file'] = content[tmp] /\ WholeRecord(file)'
        /\ content[tmp].q = cmd[c].pausing /\ content[tmp].history = cmd[c].history
    BY <1>1, <2>2 DEF PausedRecord, WholeRecord
  <2>4. AllAnswers'
    BY <1>1, <2>2, <2>3 DEF AllAnswers
  <2>5. Loadable(cmd[c].pausing)'
    BY <1>1, <1>3, <2>3 DEF Loadable
  <2>6. Sole(c)'
    BY <1>1, <1>3, <2>1, <2>5 DEF Sole, Busy, Saving
  <2>7. ASSUME NEW q \in told \ settled PROVE q \in ToSet(cmd[c].history)
    BY <1>1, <1>7, <2>7, HistoryHasTold DEF Busy, Saving
  <2>8. QuestionKept'
    BY <1>1, <1>2, <2>2, <2>3, <2>7 DEF QuestionKept, Procs
  <2> QED  BY <2>4, <2>6, <2>8
<1>8. QuestionKept'
  BY <1>1, <1>7 DEF QuestionKept
<1>9. /\ tmp' = NoFile /\ \A q \in told' : q <= asked'
  BY <1>1 DEF IInv
<1> QED
  BY <1>1, <1>2, <1>3, <1>4, <1>5, <1>6, <1>7, <1>8, <1>9, OneCommand

LEMMA DeleteStep ==
    ASSUME IInv, NEW c \in Commands, Delete(c)
    PROVE  IInv'
<1>1. /\ cmd[c].pc = "delete" /\ Goto(c, "close") /\ file' = NoFile
      /\ UNCHANGED <<alone, tmp, content, answers, asked, told, settled>>
  BY DEF Delete
<1>2. /\ PauseTypeOK /\ Cmd(c) /\ asked \in Nat /\ answers \subseteq Nat /\ cmd[c] \in Procs
      /\ told \subseteq Nat /\ settled \subseteq Nat /\ content \in [Commands -> FileSet]
  BY ProcTyped DEF IInv, PauseTypeOK
<1>3. /\ cmd' \in [Commands -> Procs] /\ cmd'[c].pc = "close"
      /\ cmd'[c].pausing = cmd[c].pausing
      /\ \A d \in Commands : d # c => cmd'[d] = cmd[d]
  BY <1>1, <1>2, GotoStep DEF Labels
<1>4. ~Over(c) /\ cmd[c].pausing = 0
  BY <1>1, <1>2 DEF Over, Cmd
<1>5. \A f \in Commands : Sound(f)'
  BY <1>1, <1>2, SoundStays
<1>6. Cmd(c)'
  BY <1>1, <1>2, <1>3 DEF Cmd, Early, Busy, Saving
<1>7. ASSUME alone PROVE Sole(c)' /\ AllAnswers' /\ QuestionKept'
  <2>1. Sole(c) /\ told \subseteq settled
    BY <1>1, <1>4, <1>7 DEF IInv, AloneInv, Sole
  <2>2. Sole(c)'
    BY <1>1, <1>3, <1>4, <2>1 DEF Sole, Busy, Saving
  <2> QED  BY <1>1, <2>1, <2>2 DEF AllAnswers, QuestionKept
<1>8. QuestionKept'
  BY <1>1, <1>7 DEF QuestionKept
<1>9. (tmp' # NoFile => tmp' # file') /\ \A q \in told' : q <= asked'
  BY <1>1 DEF IInv
<1> QED
  BY <1>1, <1>2, <1>3, <1>4, <1>5, <1>6, <1>7, <1>8, <1>9, OneCommand

LEMMA ReportStep ==
    ASSUME IInv, NEW c \in Commands, Report(c)
    PROVE  IInv'
<1>1. /\ cmd[c].pc = "close" /\ Goto(c, "done")
      /\ told' = told \cup ({cmd[c].pausing} \ {0})
      /\ UNCHANGED <<alone, recordVars, answers, asked, settled>>
  BY DEF Report
<1>2. /\ PauseTypeOK /\ Cmd(c) /\ asked \in Nat /\ answers \subseteq Nat /\ cmd[c] \in Procs
      /\ told \subseteq Nat /\ settled \subseteq Nat /\ content \in [Commands -> FileSet]
  BY ProcTyped DEF IInv, PauseTypeOK
<1>3. /\ cmd' \in [Commands -> Procs] /\ cmd'[c].pc = "done"
      /\ cmd'[c].pausing = cmd[c].pausing
      /\ \A d \in Commands : d # c => cmd'[d] = cmd[d]
  BY <1>1, <1>2, GotoStep DEF Labels
<1>4. ~Over(c) /\ Over(c)' /\ cmd[c].pausing <= asked /\ cmd[c].pausing \in Nat
  BY <1>1, <1>2, <1>3 DEF Over, Cmd, Procs
<1>5. \A f \in Commands : Sound(f)'
  BY <1>1, <1>2, SoundStays DEF recordVars
<1>6. Cmd(c)'
  BY <1>1, <1>2, <1>3, <1>4 DEF Cmd, Early, Busy, Saving
<1>7. alone => AllAnswers'
  BY <1>1 DEF IInv, AloneInv, AllAnswers, WholeRecord, recordVars
<1>8. QuestionKept'
  <2> SUFFICES ASSUME alone, NEW q \in told', q \notin settled
               PROVE  /\ file # NoFile /\ WholeRecord(file)
                      /\ content[file].q # q =>
                           content[file].q > q /\ q \in ToSet(content[file].history)
    BY <1>1 DEF QuestionKept, WholeRecord, recordVars
  <2>1. CASE q \in told
    BY <2>1 DEF IInv, QuestionKept
  <2>2. CASE q = cmd[c].pausing /\ q # 0
    <3>1. Sole(c)
      BY <1>4 DEF IInv, AloneInv
    <3> QED  BY <1>1, <2>2, <3>1 DEF Sole, Loadable
  <2> QED  BY <1>1, <2>1, <2>2
<1>9. (tmp' # NoFile => tmp' # file') /\ (\A q \in told' : q <= asked') /\ told' \subseteq Nat
  BY <1>1, <1>4, <1>2 DEF IInv, recordVars
<1> QED
  BY <1>1, <1>2, <1>3, <1>4, <1>5, <1>6, <1>7, <1>8, <1>9, OneCommand DEF recordVars

LEMMA NextIInv ==
    ASSUME IInv, [PauseNext]_pauseVars
    PROVE  IInv'
<1>1. CASE UNCHANGED pauseVars
  BY <1>1, ZenonT(40) DEF IInv, PauseTypeOK, Cmd, Sound, AloneInv, Over, Sole, AllAnswers, QuestionKept,
              WholeRecord, Loadable, pauseVars, recordVars
<1>2. ASSUME NEW c \in Commands, CommandStep(c) PROVE IInv'
  <2>1. CASE BuildFails(c) \/ Die(c)
    <3>1. /\ ~Over(c) /\ Goto(c, "done")
          /\ UNCHANGED <<alone, recordVars, answers, asked, told, settled>>
      BY <2>1 DEF BuildFails, Die, Over
    <3>2. PauseTypeOK /\ Cmd(c) /\ "done" \in Labels
      BY DEF IInv, Labels
    <3>3. /\ cmd' \in [Commands -> Procs] /\ cmd'[c].pc = "done"
          /\ cmd'[c].pausing = cmd[c].pausing
          /\ \A d \in Commands : d # c => cmd'[d] = cmd[d]
      BY <3>1, <3>2, GotoStep
    <3>4. cmd'[c].pausing <= asked
      BY <3>2, <3>3 DEF Cmd
    <3> QED  BY <3>1, <3>3, <3>4, Ends
  <2> QED
    BY <1>2, <2>1, ResumeStep, TakeAnswerStep, AskStep, FailingStep, OpenStep, WriteStep,
       ReplaceStep, DeleteStep, ReportStep
    DEF CommandStep
<1> QED  BY <1>1, <1>2 DEF PauseNext

LEMMA Inductive == PauseSpec => []IInv
<1>1. PauseInit => IInv
  BY InitIInv
<1>2. IInv /\ [PauseNext]_pauseVars => IInv'
  BY NextIInv
<1> QED  BY <1>1, <1>2, PTL DEF PauseSpec

-----------------------------------------------------------------------------
(* Theorems. *)

\* The state of any number of commands keeps its types.
THEOREM TypeCorrect == PauseSpec => []PauseTypeOK
<1>1. IInv => PauseTypeOK
  BY DEF IInv
<1> QED  BY <1>1, Inductive, PTL

\* However commands fail or die, a question that was told can be answered until a
\* run with its answer has asked the next one or ended for good, if the operator
\* waits for each command to end (save, resume_paused_episode).
THEOREM KeptCorrect == PauseSpec => []QuestionKept
<1>1. IInv => QuestionKept
  BY DEF IInv
<1> QED  BY <1>1, Inductive, PTL

\* Whether commands overlap or not, a record counts and names the questions that
\* were answered before, whose answers are in the agent's memory.
THEOREM AgreeCorrect == PauseSpec => []AnswersAgree
<1>1. ASSUME IInv PROVE AnswersAgree
  <2>1. ASSUME NEW c \in Commands, WholeRecord(c)
        PROVE  LET h == content[c].history IN
               /\ content[c].count = Len(h)
               /\ \A i \in DOMAIN h : h[i] \in answers /\ h[i] < content[c].q
               /\ \A i, j \in DOMAIN h : i < j => h[i] < h[j]
    <3>1. Sound(c)
      BY <1>1 DEF IInv
    <3> QED  BY <2>1, <3>1 DEF Sound, Increasing, Below, ToSet
  <2>2. alone => AllAnswers
    BY <1>1 DEF IInv, AloneInv
  <2> QED  BY <2>1, <2>2 DEF AnswersAgree, AllAnswers
<1> QED  BY <1>1, Inductive, PTL
=============================================================================
