-------------------------- MODULE RealBench_proofs --------------------------
(***************************************************************************)
(* Proofs about RealBench for any number of server processes, environments   *)
(* and crashes: the hardware is only used under the lock, and the lock is of  *)
(* an environment.  Where the arm is they leave open.                        *)
(***************************************************************************)
EXTENDS RealBench, TLAPS

Labels == {"idle", "drop", "stuck", "dead"} \cup Opening \cup Using

\* What a process may know, when n handles have been given out.
Servers(n) == [pc : Labels, handle : 0..n, needsReset : BOOLEAN,
               leaked : BOOLEAN, exits : BOOLEAN]

\* How one process stands to the lock, the hardware and the arm.
Bench(p) ==
    /\ srv[p].pc \in Opening => flock = p /\ ~HasEnv(p) /\ ~srv[p].leaked
    /\ srv[p].pc \in Using => HasEnv(p)
    /\ HasEnv(p) => flock = p /\ ~srv[p].leaked
    /\ srv[p].leaked => flock = p /\ srv[p].pc = "idle"
    /\ srv[p].pc = "stuck" => flock = p
    /\ srv[p].pc = "drop" => flock # p /\ ~HasEnv(p) /\ ~srv[p].leaked
    /\ srv[p].pc \in {"idle", "dead"} =>
         /\ flock = p => HasEnv(p) \/ srv[p].leaked
         /\ p \in connected <=> HasEnv(p)
    /\ srv[p].pc \in {"stamp", "releasing"} => p \notin connected
    /\ srv[p].pc \in ({"reading"} \cup Using) \ {"releasing"} => p \in connected
    /\ p \in connected => flock = p \/ srv[p].pc = "drop"

IInv == TypeOK /\ \A p \in Procs : Bench(p)

-----------------------------------------------------------------------------
(* Lemmas on single steps. *)

\* Giving one process a new record leaves the others theirs.
LEMMA Assign ==
    ASSUME TypeOK, NEW p \in Procs, NEW r, srv' = [srv EXCEPT ![p] = r]
    PROVE  srv'[p] = r /\ \A q \in Procs : q # p => srv'[q] = srv[q]
  BY DEF TypeOK

\* Going to a place changes nothing else that the process knows.
LEMMA GotoStep ==
    ASSUME TypeOK, NEW p \in Procs, NEW l \in Labels, Goto(p, l)
    PROVE  /\ srv' \in [Procs -> Servers(created)]
           /\ srv'[p].pc = l /\ srv'[p].handle = srv[p].handle
           /\ srv'[p].needsReset = srv[p].needsReset
           /\ srv'[p].leaked = srv[p].leaked /\ srv'[p].exits = srv[p].exits
           /\ \A q \in Procs : q # p => srv'[q] = srv[q]
<1> DEFINE r == [srv[p] EXCEPT !.pc = l]
<1>1. srv[p] \in Servers(created)
  BY DEF TypeOK, Servers, Labels
<1>2. /\ r \in Servers(created)
      /\ r.pc = l /\ r.handle = srv[p].handle /\ r.needsReset = srv[p].needsReset
      /\ r.leaked = srv[p].leaked /\ r.exits = srv[p].exits
  BY <1>1 DEF Servers
<1>3. srv' = [srv EXCEPT ![p] = r]
  BY DEF Goto
<1> HIDE DEF r
<1>4. srv'[p] = r /\ \A q \in Procs : q # p => srv'[q] = srv[q]
  BY <1>3, Assign
<1>5. srv' \in [Procs -> Servers(created)]
  <2>1. srv \in [Procs -> Servers(created)]
    BY DEF TypeOK, Servers, Labels
  <2> QED  BY <1>2, <1>3, <2>1
<1> QED
  BY <1>2, <1>4, <1>5

\* A step of one process that takes or gives back only its own lock, and
\* touches only its own connection, is none of the other processes' business.
LEMMA OneServer ==
    ASSUME IInv, NEW p \in Procs,
           srv' \in [Procs -> Servers(created')], \A q \in Procs : q # p => srv'[q] = srv[q],
           \/ created' = created /\ srv'[p].handle \in {NoHandle, srv[p].handle}
           \/ created' = created + 1 /\ srv'[p].handle = created + 1,
           flock' = flock \/ (flock \in {None, p} /\ flock' \in {None, p}),
           connected' \in {connected, connected \cup {p}, connected \ {p}},
           astray' \in BOOLEAN,
           crashes' \in Nat,
           Bench(p)'
    PROVE  IInv'
<1>1. created \in Nat /\ created' \in Nat
  BY DEF IInv, TypeOK
<1>2. \A q \in Procs : srv[q] \in Servers(created)
  BY DEF IInv, TypeOK, Servers, Labels
<1>3. ASSUME NEW q \in Procs, NEW r \in Procs, srv'[q].handle = srv'[r].handle, HasEnv(q)'
      PROVE  q = r
  <2>1. \A o \in Procs : srv[o].handle \in 0..created
    BY <1>2 DEF Servers
  <2>2. \A o \in Procs : o # p => srv'[o].handle = srv[o].handle
    OBVIOUS
  <2>3. srv[q].handle = srv[r].handle /\ srv[q].handle # NoHandle => q = r
    BY DEF IInv, TypeOK, HasEnv
  <2>4. srv'[q].handle # NoHandle
    BY <1>3 DEF HasEnv
  <2>5. CASE created' = created /\ srv'[p].handle \in {NoHandle, srv[p].handle}
    BY <1>3, <2>2, <2>3, <2>4, <2>5
  <2>6. CASE created' = created + 1 /\ srv'[p].handle = created + 1
    BY <1>1, <1>3, <2>1, <2>2, <2>3, <2>4, <2>6
  <2> QED  BY <2>5, <2>6
<1>4. TypeOK'
  <2>1. srv' \in [Procs -> Servers(created')] /\ flock' \in Procs \cup {None}
        /\ connected' \subseteq Procs
    BY DEF IInv, TypeOK
  <2> QED  BY <1>1, <1>3, <2>1 DEF TypeOK, Servers, Labels
<1>5. ASSUME NEW q \in Procs, q # p PROVE Bench(q)'
  <2>1. srv'[q] = srv[q] /\ (q \in connected' <=> q \in connected)
    BY <1>5
  <2>2. flock' = q <=> flock = q
    BY <1>5, BenchAssumption
  <2>4. Bench(q)
    BY DEF IInv
  <2>5. HasEnv(q)' <=> HasEnv(q)
    BY <2>1 DEF HasEnv
  <2> QED  BY <2>1, <2>2, <2>4, <2>5 DEF Bench
<1> QED
  BY <1>4, <1>5 DEF IInv

-----------------------------------------------------------------------------
(* The invariant. *)

LEMMA InitIInv == Init => IInv
<1> SUFFICES ASSUME Init PROVE IInv
  OBVIOUS
<1>1. \A p \in Procs : srv[p] = Fresh("idle") /\ ~HasEnv(p)
  BY DEF Init, HasEnv, Fresh
<1>2. TypeOK
  BY <1>1 DEF Init, TypeOK, Fresh, NoHandle
<1>3. \A p \in Procs : Bench(p)
  BY <1>1, BenchAssumption DEF Init, Bench, Fresh, Opening, Using
<1> QED
  BY <1>2, <1>3 DEF IInv

\* A step that only goes to another place.
LEMMA GotoServer ==
    ASSUME IInv, NEW p \in Procs, NEW l \in Labels, Goto(p, l),
           UNCHANGED <<created, crashes>>,
           flock' = flock \/ (flock \in {None, p} /\ flock' \in {None, p}),
           connected' \in {connected, connected \cup {p}, connected \ {p}},
           astray' \in BOOLEAN,
           Bench(p)'
    PROVE  IInv'
<1>1. TypeOK
  BY DEF IInv
<1>2. /\ srv' \in [Procs -> Servers(created)] /\ srv'[p].handle = srv[p].handle
      /\ \A q \in Procs : q # p => srv'[q] = srv[q]
  BY <1>1, GotoStep
<1>3. created' = created /\ crashes' \in Nat
  BY <1>1 DEF TypeOK
<1> QED
  BY <1>2, <1>3, OneServer

\* A step that gives the process a new record.
LEMMA AssignServer ==
    ASSUME IInv, NEW p \in Procs, NEW r \in Servers(created'), srv' = [srv EXCEPT ![p] = r],
           \/ created' = created /\ r.handle \in {NoHandle, srv[p].handle}
           \/ created' = created + 1 /\ r.handle = created + 1,
           flock' = flock \/ (flock \in {None, p} /\ flock' \in {None, p}),
           connected' \in {connected, connected \ {p}},
           astray' \in BOOLEAN,
           crashes' \in Nat,
           Bench(p)'
    PROVE  IInv'
<1>1. created \in Nat /\ \A q \in Procs : srv[q] \in Servers(created)
  BY DEF IInv, TypeOK, Servers, Labels
<1>2. \A q \in Procs : srv[q] \in Servers(created')
  BY <1>1 DEF Servers
<1>3. srv' \in [Procs -> Servers(created')]
  BY <1>2 DEF IInv, TypeOK
<1>4. srv'[p] = r /\ \A q \in Procs : q # p => srv'[q] = srv[q]
  BY Assign DEF IInv
<1> QED
  BY <1>3, <1>4, OneServer

\* The steps that only go somewhere, whatever they do to the lock, the hardware
\* and the arm.
LEMMA GotoIInv ==
    ASSUME IInv, NEW p \in Procs, NEW h \in Nat,
           \/ CreateLock(p) \/ Stamp(p) \/ Connect(p) \/ ReadFails(p) \/ GiveBack(p)
           \/ Drop(p) \/ Observe(p, h) \/ Observed(p) \/ Reset(p, h) \/ Homed(p)
           \/ ResetFails(p) \/ Control(p, h) \/ Checked(p) \/ Moved(p) \/ ReadGripper(p)
           \/ Close(p, h) \/ CloseHardware(p) \/ Restart(p)
    PROVE  IInv'
<1>0. TypeOK /\ Bench(p) /\ astray \in BOOLEAN
  BY DEF IInv, TypeOK
<1>1. CASE CreateLock(p)
  <2>1. PICK l \in {"stamp"} : Goto(p, l)
    BY <1>1 DEF CreateLock
  <2>2. l \in Labels
    BY <2>1 DEF Labels, Opening, Using
  <2>3. Bench(p)'
    BY <1>1, <1>0, <2>1, <2>2, GotoStep, BenchAssumption DEF CreateLock, Bench, HasEnv, Opening, Using
  <2>4. /\ UNCHANGED <<created, crashes>>
        /\ flock' = flock \/ (flock \in {None, p} /\ flock' \in {None, p})
        /\ connected' \in {connected, connected \cup {p}, connected \ {p}}
    BY <1>1, <1>0 DEF CreateLock, Bench, Opening
  <2>5. astray' \in BOOLEAN
    BY <1>1, <1>0 DEF CreateLock
  <2> QED  BY <2>1, <2>2, <2>3, <2>4, <2>5, GotoServer
<1>2. CASE Stamp(p)
  <2>1. PICK l \in {"build"} : Goto(p, l)
    BY <1>2 DEF Stamp, Goto
  <2>2. l \in Labels
    BY <2>1 DEF Labels, Opening, Using
  <2>3. Bench(p)'
    BY <1>2, <1>0, <2>1, <2>2, GotoStep, BenchAssumption DEF Stamp, Bench, HasEnv, Opening, Using
  <2>4. /\ UNCHANGED <<created, crashes>>
        /\ flock' = flock \/ (flock \in {None, p} /\ flock' \in {None, p})
        /\ connected' \in {connected, connected \cup {p}, connected \ {p}}
    BY <1>2 DEF Stamp
  <2>5. astray' \in BOOLEAN
    BY <1>2, <1>0 DEF Stamp, Goto
  <2> QED  BY <2>1, <2>2, <2>3, <2>4, <2>5, GotoServer
<1>3. CASE Connect(p)
  <2>1. PICK l \in {"reading", "failed"} : Goto(p, l)
    BY <1>3 DEF Connect
  <2>2. l \in Labels
    BY <2>1 DEF Labels, Opening, Using
  <2>3. Bench(p)'
    BY <1>3, <1>0, <2>1, <2>2, GotoStep, BenchAssumption DEF Connect, Bench, HasEnv, Opening, Using
  <2>4. /\ UNCHANGED <<created, crashes>>
        /\ flock' = flock \/ (flock \in {None, p} /\ flock' \in {None, p})
        /\ connected' \in {connected, connected \cup {p}, connected \ {p}}
    BY <1>3 DEF Connect
  <2>5. astray' \in BOOLEAN
    BY <1>3, <1>0 DEF Connect
  <2> QED  BY <2>1, <2>2, <2>3, <2>4, <2>5, GotoServer
<1>4. CASE ReadFails(p)
  <2>1. PICK l \in {"failed"} : Goto(p, l)
    BY <1>4 DEF ReadFails
  <2>2. l \in Labels
    BY <2>1 DEF Labels, Opening, Using
  <2>3. Bench(p)'
    BY <1>4, <1>0, <2>1, <2>2, GotoStep, BenchAssumption DEF ReadFails, Bench, HasEnv, Opening, Using
  <2>4. /\ UNCHANGED <<created, crashes>>
        /\ flock' = flock \/ (flock \in {None, p} /\ flock' \in {None, p})
        /\ connected' \in {connected, connected \cup {p}, connected \ {p}}
    BY <1>4 DEF ReadFails
  <2>5. astray' \in BOOLEAN
    BY <1>4, <1>0 DEF ReadFails
  <2> QED  BY <2>1, <2>2, <2>3, <2>4, <2>5, GotoServer
<1>5. CASE GiveBack(p)
  <2>1. PICK l \in {"drop"} : Goto(p, l)
    BY <1>5 DEF GiveBack
  <2>2. l \in Labels
    BY <2>1 DEF Labels, Opening, Using
  <2>3. Bench(p)'
    BY <1>5, <1>0, <2>1, <2>2, GotoStep, BenchAssumption DEF GiveBack, Bench, HasEnv, Opening, Using
  <2>4. /\ UNCHANGED <<created, crashes>>
        /\ flock' = flock \/ (flock \in {None, p} /\ flock' \in {None, p})
        /\ connected' \in {connected, connected \cup {p}, connected \ {p}}
    BY <1>5, <1>0 DEF GiveBack, Bench, Opening
  <2>5. astray' \in BOOLEAN
    BY <1>5, <1>0 DEF GiveBack
  <2> QED  BY <2>1, <2>2, <2>3, <2>4, <2>5, GotoServer
<1>6. CASE Drop(p)
  <2>1. PICK l \in {"idle"} : Goto(p, l)
    BY <1>6 DEF Drop
  <2>2. l \in Labels
    BY <2>1 DEF Labels, Opening, Using
  <2>3. Bench(p)'
    BY <1>6, <1>0, <2>1, <2>2, GotoStep, BenchAssumption DEF Drop, Bench, HasEnv, Opening, Using
  <2>4. /\ UNCHANGED <<created, crashes>>
        /\ flock' = flock \/ (flock \in {None, p} /\ flock' \in {None, p})
        /\ connected' \in {connected, connected \cup {p}, connected \ {p}}
    BY <1>6 DEF Drop
  <2>5. astray' \in BOOLEAN
    BY <1>6, <1>0 DEF Drop
  <2> QED  BY <2>1, <2>2, <2>3, <2>4, <2>5, GotoServer
<1>7. CASE Observe(p, h)
  <2>1. PICK l \in {"observing"} : Goto(p, l)
    BY <1>7 DEF Observe
  <2>2. l \in Labels
    BY <2>1 DEF Labels, Opening, Using
  <2>3. Bench(p)'
    BY <1>7, <1>0, <2>1, <2>2, GotoStep, BenchAssumption DEF Observe, Bench, HasEnv, Opening, Using, Resolves
  <2>4. /\ UNCHANGED <<created, crashes>>
        /\ flock' = flock \/ (flock \in {None, p} /\ flock' \in {None, p})
        /\ connected' \in {connected, connected \cup {p}, connected \ {p}}
    BY <1>7 DEF Observe
  <2>5. astray' \in BOOLEAN
    BY <1>7, <1>0 DEF Observe
  <2> QED  BY <2>1, <2>2, <2>3, <2>4, <2>5, GotoServer
<1>8. CASE Observed(p)
  <2>1. PICK l \in {"idle"} : Goto(p, l)
    BY <1>8 DEF Observed
  <2>2. l \in Labels
    BY <2>1 DEF Labels, Opening, Using
  <2>3. Bench(p)'
    BY <1>8, <1>0, <2>1, <2>2, GotoStep, BenchAssumption DEF Observed, Bench, HasEnv, Opening, Using
  <2>4. /\ UNCHANGED <<created, crashes>>
        /\ flock' = flock \/ (flock \in {None, p} /\ flock' \in {None, p})
        /\ connected' \in {connected, connected \cup {p}, connected \ {p}}
    BY <1>8 DEF Observed
  <2>5. astray' \in BOOLEAN
    BY <1>8, <1>0 DEF Observed
  <2> QED  BY <2>1, <2>2, <2>3, <2>4, <2>5, GotoServer
<1>9. CASE Reset(p, h)
  <2>1. PICK l \in {"homing"} : Goto(p, l)
    BY <1>9 DEF Reset
  <2>2. l \in Labels
    BY <2>1 DEF Labels, Opening, Using
  <2>3. Bench(p)'
    BY <1>9, <1>0, <2>1, <2>2, GotoStep, BenchAssumption DEF Reset, Bench, HasEnv, Opening, Using, Resolves
  <2>4. /\ UNCHANGED <<created, crashes>>
        /\ flock' = flock \/ (flock \in {None, p} /\ flock' \in {None, p})
        /\ connected' \in {connected, connected \cup {p}, connected \ {p}}
    BY <1>9 DEF Reset
  <2>5. astray' \in BOOLEAN
    BY <1>9, <1>0 DEF Reset
  <2> QED  BY <2>1, <2>2, <2>3, <2>4, <2>5, GotoServer
<1>10. CASE Homed(p)
  <2>1. PICK l \in {"resetting"} : Goto(p, l)
    BY <1>10 DEF Homed
  <2>2. l \in Labels
    BY <2>1 DEF Labels, Opening, Using
  <2>3. Bench(p)'
    BY <1>10, <1>0, <2>1, <2>2, GotoStep, BenchAssumption DEF Homed, Bench, HasEnv, Opening, Using
  <2>4. /\ UNCHANGED <<created, crashes>>
        /\ flock' = flock \/ (flock \in {None, p} /\ flock' \in {None, p})
        /\ connected' \in {connected, connected \cup {p}, connected \ {p}}
    BY <1>10 DEF Homed
  <2>5. astray' \in BOOLEAN
    BY <1>10, <1>0 DEF Homed
  <2> QED  BY <2>1, <2>2, <2>3, <2>4, <2>5, GotoServer
<1>11. CASE ResetFails(p)
  <2>1. PICK l \in {"idle"} : Goto(p, l)
    BY <1>11 DEF ResetFails
  <2>2. l \in Labels
    BY <2>1 DEF Labels, Opening, Using
  <2>3. Bench(p)'
    BY <1>11, <1>0, <2>1, <2>2, GotoStep, BenchAssumption DEF ResetFails, Bench, HasEnv, Opening, Using
  <2>4. /\ UNCHANGED <<created, crashes>>
        /\ flock' = flock \/ (flock \in {None, p} /\ flock' \in {None, p})
        /\ connected' \in {connected, connected \cup {p}, connected \ {p}}
    BY <1>11 DEF ResetFails
  <2>5. astray' \in BOOLEAN
    BY <1>11, <1>0 DEF ResetFails
  <2> QED  BY <2>1, <2>2, <2>3, <2>4, <2>5, GotoServer
<1>12. CASE Control(p, h)
  <2>1. PICK l \in {"checking"} : Goto(p, l)
    BY <1>12 DEF Control
  <2>2. l \in Labels
    BY <2>1 DEF Labels, Opening, Using
  <2>3. Bench(p)'
    BY <1>12, <1>0, <2>1, <2>2, GotoStep, BenchAssumption DEF Control, Bench, HasEnv, Opening, Using, Resolves
  <2>4. /\ UNCHANGED <<created, crashes>>
        /\ flock' = flock \/ (flock \in {None, p} /\ flock' \in {None, p})
        /\ connected' \in {connected, connected \cup {p}, connected \ {p}}
    BY <1>12 DEF Control
  <2>5. astray' \in BOOLEAN
    BY <1>12, <1>0 DEF Control
  <2> QED  BY <2>1, <2>2, <2>3, <2>4, <2>5, GotoServer
<1>13. CASE Checked(p)
  <2>1. PICK l \in {"idle", "moving"} : Goto(p, l)
    BY <1>13 DEF Checked
  <2>2. l \in Labels
    BY <2>1 DEF Labels, Opening, Using
  <2>3. Bench(p)'
    BY <1>13, <1>0, <2>1, <2>2, GotoStep, BenchAssumption DEF Checked, Bench, HasEnv, Opening, Using
  <2>4. /\ UNCHANGED <<created, crashes>>
        /\ flock' = flock \/ (flock \in {None, p} /\ flock' \in {None, p})
        /\ connected' \in {connected, connected \cup {p}, connected \ {p}}
    BY <1>13 DEF Checked
  <2>5. astray' \in BOOLEAN
    BY <1>13, <1>0 DEF Checked
  <2> QED  BY <2>1, <2>2, <2>3, <2>4, <2>5, GotoServer
<1>14. CASE Moved(p)
  <2>1. PICK l \in {"idle", "observing"} : Goto(p, l)
    BY <1>14 DEF Moved
  <2>2. l \in Labels
    BY <2>1 DEF Labels, Opening, Using
  <2>3. Bench(p)'
    BY <1>14, <1>0, <2>1, <2>2, GotoStep, BenchAssumption DEF Moved, Bench, HasEnv, Opening, Using
  <2>4. /\ UNCHANGED <<created, crashes>>
        /\ flock' = flock \/ (flock \in {None, p} /\ flock' \in {None, p})
        /\ connected' \in {connected, connected \cup {p}, connected \ {p}}
    BY <1>14 DEF Moved
  <2>5. astray' \in BOOLEAN
    BY <1>14, <1>0 DEF Moved
  <2> QED  BY <2>1, <2>2, <2>3, <2>4, <2>5, GotoServer
<1>15. CASE ReadGripper(p)
  <2>1. PICK l \in {"stuck"} : Goto(p, l)
    BY <1>15 DEF ReadGripper
  <2>2. l \in Labels
    BY <2>1 DEF Labels, Opening, Using
  <2>3. Bench(p)'
    BY <1>15, <1>0, <2>1, <2>2, GotoStep, BenchAssumption DEF ReadGripper, Bench, HasEnv, Opening, Using
  <2>4. /\ UNCHANGED <<created, crashes>>
        /\ flock' = flock \/ (flock \in {None, p} /\ flock' \in {None, p})
        /\ connected' \in {connected, connected \cup {p}, connected \ {p}}
    BY <1>15 DEF ReadGripper
  <2>5. astray' \in BOOLEAN
    BY <1>15, <1>0 DEF ReadGripper
  <2> QED  BY <2>1, <2>2, <2>3, <2>4, <2>5, GotoServer
<1>16. CASE Close(p, h)
  <2>1. PICK l \in {"closing"} : Goto(p, l)
    BY <1>16 DEF Close
  <2>2. l \in Labels
    BY <2>1 DEF Labels, Opening, Using
  <2>3. Bench(p)'
    BY <1>16, <1>0, <2>1, <2>2, GotoStep, BenchAssumption DEF Close, Bench, HasEnv, Opening, Using
  <2>4. /\ UNCHANGED <<created, crashes>>
        /\ flock' = flock \/ (flock \in {None, p} /\ flock' \in {None, p})
        /\ connected' \in {connected, connected \cup {p}, connected \ {p}}
    BY <1>16 DEF Close
  <2>5. astray' \in BOOLEAN
    BY <1>16, <1>0 DEF Close
  <2> QED  BY <2>1, <2>2, <2>3, <2>4, <2>5, GotoServer
<1>17. CASE CloseHardware(p)
  <2>1. PICK l \in {"releasing"} : Goto(p, l)
    BY <1>17 DEF CloseHardware
  <2>2. l \in Labels
    BY <2>1 DEF Labels, Opening, Using
  <2>3. Bench(p)'
    BY <1>17, <1>0, <2>1, <2>2, GotoStep, BenchAssumption DEF CloseHardware, Bench, HasEnv, Opening, Using
  <2>4. /\ UNCHANGED <<created, crashes>>
        /\ flock' = flock \/ (flock \in {None, p} /\ flock' \in {None, p})
        /\ connected' \in {connected, connected \cup {p}, connected \ {p}}
    BY <1>17 DEF CloseHardware
  <2>5. astray' \in BOOLEAN
    BY <1>17, <1>0 DEF CloseHardware
  <2> QED  BY <2>1, <2>2, <2>3, <2>4, <2>5, GotoServer
<1>18. CASE Restart(p)
  <2>1. PICK l \in {"idle"} : Goto(p, l)
    BY <1>18 DEF Restart
  <2>2. l \in Labels
    BY <2>1 DEF Labels, Opening, Using
  <2>3. Bench(p)'
    BY <1>18, <1>0, <2>1, <2>2, GotoStep, BenchAssumption DEF Restart, Bench, HasEnv, Opening, Using
  <2>4. /\ UNCHANGED <<created, crashes>>
        /\ flock' = flock \/ (flock \in {None, p} /\ flock' \in {None, p})
        /\ connected' \in {connected, connected \cup {p}, connected \ {p}}
    BY <1>18 DEF Restart
  <2>5. astray' \in BOOLEAN
    BY <1>18, <1>0 DEF Restart
  <2> QED  BY <2>1, <2>2, <2>3, <2>4, <2>5, GotoServer
<1> QED
  BY <1>1, <1>2, <1>3, <1>4, <1>5, <1>6, <1>7, <1>8, <1>9, <1>10, <1>11, <1>12, <1>13, <1>14, <1>15, <1>16, <1>17, <1>18

\* What a process that has just started, or just ended, knows.
LEMMA FreshRecord ==
    ASSUME NEW l \in {"idle", "dead"}, NEW n \in Nat
    PROVE  /\ Fresh(l) \in Servers(n) /\ Fresh(l).pc = l
           /\ Fresh(l).handle = NoHandle /\ Fresh(l).leaked = FALSE
  BY DEF Fresh, NoHandle, Servers, Labels

\* The steps that give the process a new record.
LEMMA AssignIInv ==
    ASSUME IInv, NEW p \in Procs,
           StampFails(p) \/ Opened(p) \/ ResetDone(p) \/ CloseRelease(p) \/ Teardown(p) \/ Crash(p)
    PROVE  IInv'
<1>0. TypeOK /\ Bench(p) /\ astray \in BOOLEAN /\ created \in Nat /\ crashes \in Nat
  BY DEF IInv, TypeOK
<1>1. srv[p] \in Servers(created)
  BY <1>0 DEF TypeOK, Servers, Labels
<1>2. CASE StampFails(p)
  <2> DEFINE r == [srv[p] EXCEPT !.pc = "idle", !.leaked = TRUE]
  <2>1. srv' = [srv EXCEPT ![p] = r] /\ UNCHANGED <<flock, connected, astray, created, crashes>>
    BY <1>2 DEF StampFails
  <2>2. /\ r \in Servers(created) /\ r.pc = "idle" /\ r.leaked = TRUE
        /\ r.handle = srv[p].handle
    BY <1>1 DEF Servers, Labels
  <2> HIDE DEF r
  <2>3. srv'[p] = r
    BY <1>0, <2>1, Assign
  <2>4. Bench(p)'
    BY <1>0, <1>2, <2>1, <2>2, <2>3 DEF StampFails, Bench, HasEnv, Opening, Using
  <2>5. astray' \in BOOLEAN
    BY <2>1, <1>0
  <2> QED  BY <1>0, <2>1, <2>2, <2>4, <2>5, AssignServer
<1>3. CASE Opened(p)
  <2> DEFINE r == [srv[p] EXCEPT !.pc = "idle", !.handle = created + 1, !.needsReset = TRUE]
  <2>1. /\ srv' = [srv EXCEPT ![p] = r] /\ created' = created + 1
        /\ UNCHANGED <<flock, connected, astray, crashes>>
    BY <1>3 DEF Opened
  <2>2. /\ r \in Servers(created') /\ r.pc = "idle" /\ r.handle = created + 1
        /\ r.needsReset = TRUE /\ r.leaked = srv[p].leaked
    <3>1. created + 1 \in 0..created' /\ srv[p] \in Servers(created')
      BY <1>0, <1>1, <2>1 DEF Servers
    <3> QED  BY <3>1 DEF Servers, Labels
  <2> HIDE DEF r
  <2>3. srv'[p] = r
    BY <1>0, <2>1, Assign
  <2>4. Bench(p)'
    BY <1>0, <1>3, <2>1, <2>2, <2>3 DEF Opened, Bench, HasEnv, NoHandle, Opening, Using
  <2>5. astray' \in BOOLEAN
    BY <2>1, <1>0
  <2> QED  BY <1>0, <2>1, <2>2, <2>4, <2>5, AssignServer
<1>4. CASE ResetDone(p)
  <2> DEFINE r == [srv[p] EXCEPT !.pc = "idle", !.needsReset = FALSE]
  <2>1. srv' = [srv EXCEPT ![p] = r] /\ UNCHANGED <<flock, connected, astray, created, crashes>>
    BY <1>4 DEF ResetDone
  <2>2. /\ r \in Servers(created) /\ r.pc = "idle" /\ r.handle = srv[p].handle
        /\ r.leaked = srv[p].leaked
    BY <1>1 DEF Servers, Labels
  <2> HIDE DEF r
  <2>3. srv'[p] = r
    BY <1>0, <2>1, Assign
  <2>4. Bench(p)'
    BY <1>0, <1>4, <2>1, <2>2, <2>3 DEF ResetDone, Bench, HasEnv, Opening, Using
  <2>5. astray' \in BOOLEAN
    BY <2>1, <1>0
  <2> QED  BY <1>0, <2>1, <2>2, <2>4, <2>5, AssignServer
<1>5. CASE CloseRelease(p)
  <2>1. PICK l \in {"idle", "dead"} :
          /\ srv' = [srv EXCEPT ![p] = Fresh(l)]
          /\ flock' = None /\ UNCHANGED <<connected, astray, created, crashes>>
    BY <1>5 DEF CloseRelease
  <2> DEFINE r == Fresh(l)
  <2>2. /\ r \in Servers(created) /\ r.pc = l /\ r.handle = NoHandle
        /\ r.leaked = FALSE
    BY <1>0, FreshRecord
  <2> HIDE DEF r
  <2>3. srv' = [srv EXCEPT ![p] = r] /\ srv'[p] = r
    BY <1>0, <2>1, Assign DEF r
  <2>4. flock = p /\ p \notin connected
    BY <1>0, <1>5 DEF CloseRelease, Bench, Using
  <2>5. Bench(p)'
    BY <1>0, <2>1, <2>2, <2>3, <2>4, BenchAssumption DEF Bench, HasEnv, Opening, Using
  <2>6. astray' \in BOOLEAN
    BY <2>1, <1>0
  <2> QED  BY <1>0, <2>1, <2>2, <2>3, <2>4, <2>5, <2>6, AssignServer
<1>6. CASE Teardown(p) /\ HasEnv(p)
  <2> DEFINE r == [srv[p] EXCEPT !.pc = "closing", !.exits = TRUE]
  <2>1. srv' = [srv EXCEPT ![p] = r] /\ UNCHANGED <<flock, connected, astray, created, crashes>>
    BY <1>6 DEF Teardown
  <2>2. /\ r \in Servers(created) /\ r.pc = "closing" /\ r.handle = srv[p].handle
        /\ r.leaked = srv[p].leaked /\ r.needsReset = srv[p].needsReset
    BY <1>1 DEF Servers, Labels, Using
  <2> HIDE DEF r
  <2>3. srv'[p] = r
    BY <1>0, <2>1, Assign
  <2>4. Bench(p)'
    BY <1>0, <1>6, <2>1, <2>2, <2>3 DEF Teardown, Bench, HasEnv, Opening, Using
  <2>5. astray' \in BOOLEAN
    BY <2>1, <1>0
  <2> QED  BY <1>0, <2>1, <2>2, <2>4, <2>5, AssignServer
\* The process is gone: the system gives its lock and its connections back.
<1>7. CASE Crash(p) \/ (Teardown(p) /\ ~HasEnv(p))
  <2> DEFINE r == Fresh("dead")
  <2>1. /\ srv' = [srv EXCEPT ![p] = r] /\ created' = created
        /\ flock' = IF flock = p THEN None ELSE flock
        /\ connected' \in {connected, connected \ {p}}
        /\ crashes' \in Nat
    BY <1>0, <1>7 DEF Crash, Teardown
  <2>2. r \in Servers(created) /\ r.pc = "dead" /\ r.handle = NoHandle /\ r.leaked = FALSE
    BY <1>0, FreshRecord
  <2> HIDE DEF r
  <2>3. srv'[p] = r
    BY <1>0, <2>1, Assign
  <2>4. p \notin connected'
    BY <1>0, <1>7 DEF Crash, Teardown, Bench
  <2>5. Bench(p)'
    BY <2>1, <2>2, <2>3, <2>4, BenchAssumption DEF Bench, HasEnv, Opening, Using
  <2>6. astray' \in BOOLEAN
    BY <1>0, <1>7 DEF Crash, Teardown
  <2> QED  BY <1>0, <2>1, <2>2, <2>5, <2>6, AssignServer
<1> QED
  BY <1>2, <1>3, <1>4, <1>5, <1>6, <1>7

LEMMA NextIInv == IInv /\ [Next]_vars => IInv'
<1> SUFFICES ASSUME IInv, [Next]_vars PROVE IInv'
  OBVIOUS
<1>1. ASSUME NEW p \in Procs, Call(p) PROVE IInv'
  <2>1. \A h \in 0..created : h \in Nat
    BY DEF IInv, TypeOK
  <2> QED  BY <1>1, <2>1, GotoIInv DEF Call
<1>2. ASSUME NEW p \in Procs, Proceed(p) PROVE IInv'
  BY <1>2, GotoIInv, AssignIInv DEF Proceed
<1>3. ASSUME NEW p \in Procs, Teardown(p) \/ Crash(p) \/ Restart(p) PROVE IInv'
  BY <1>3, GotoIInv, AssignIInv
<1>4. CASE UNCHANGED vars
  BY <1>4 DEF vars, IInv, TypeOK, Bench, HasEnv
<1> QED
  BY <1>1, <1>2, <1>3, <1>4 DEF Next

LEMMA InvariantIInv == Spec => []IInv
  BY InitIInv, NextIInv, PTL DEF Spec

-----------------------------------------------------------------------------
(* What follows. *)

\* The state keeps its types, and no two environments have one handle.
THEOREM TypeCorrect == Spec => []TypeOK
<1>1. IInv => TypeOK
  BY DEF IInv
<1> QED
  BY <1>1, InvariantIInv, PTL

\* Whoever talks to the hardware has the lock on the bench's file, but for a
\* failed create on its way out (_acquire_lock, create_env, _close_active_env).
THEOREM LockCorrect == Spec => []HardwareUnderLock
<1>1. IInv => HardwareUnderLock
  BY DEF IInv, TypeOK, Bench, HardwareUnderLock
<1> QED
  BY <1>1, InvariantIInv, PTL

\* A process between calls has the lock exactly if it has an environment, or
\* lost the descriptor while stamping (create_env, close_env, main's finally).
THEOREM OwnershipCorrect == Spec => []LockFollowsEnv
<1>1. IInv => LockFollowsEnv
  BY DEF IInv, Bench, LockFollowsEnv
<1> QED
  BY <1>1, InvariantIInv, PTL

=============================================================================
