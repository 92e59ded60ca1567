--------------------------- MODULE RunStatusProofs ---------------------------
(***************************************************************************)
(* What is proved of a run's directory, for any number of resumes and of   *)
(* readers, with any of them dying or failing to write: one leg at a time, *)
(* and no reader is told a living leg is dead.                             *)
(***************************************************************************)
EXTENDS RunStatus, TLAPS

\* The verdict is chosen before the closing event is written, and only the
\* launch plans.
StageInv == \A p \in Leg :
    /\ pc[p] = "finishing" => verdict[p] # "none"
    /\ pc[p] = "planning" => p = First

\* An open leg is one its process can still close, unless it died or its
\* closing event was lost; a process that has announced nothing opened none.
OpenInv ==
    /\ stream.open =>
        /\ stream.by # Nobody
        /\ \/ pc[stream.by] \in {"planning", "ready", "running", "finishing", "dead"}
           \/ stream.by \in unsaid
    /\ \A p \in Leg :
        \/ pc[p] \in {"idle", "refused", "locked", "rewriting", "held"}
        \/ pc[p] = "ready" /\ p # First
        => stream.by # p

\* What a reader has read stays true enough: the leg it read about has begun,
\* and one it calls abandoned is over.
ViewInv == \A r \in Reader :
    /\ view[r].leg.open => view[r].leg.by # Nobody
    /\ view[r].leg.by # Nobody => pc[view[r].leg.by] # "idle"
    /\ view[r].at \in {"stream", "snapshot", "probe"} => view[r].answer = "-"
    /\ view[r].answer = "ABANDONED" =>
        /\ view[r].leg.open
        /\ view[r].held = Nobody
        /\ pc[view[r].leg.by] \notin Inside

IInv == StatusTypeOK /\ StageInv /\ OneLegAtATime /\ OpenInv /\ ViewInv

USE ProcessAssumption
USE DEF files, Inside, Stage, At, Go

----------------------------------------------------------------------------
LEMMA InitHolds == Init => IInv
BY DEF Init, IInv, StatusTypeOK, StageInv, OneLegAtATime, OpenInv, ViewInv,
       NoLeg, NoView, LastLeg, Snapshot, Word, Ended

\* What opening or closing a leg leaves of the stream.
LEMMA StreamTyped ==
    ASSUME StatusTypeOK, NEW p \in Leg
    PROVE  /\ \A planning \in BOOLEAN : Opened(p, planning) \in LastLeg
           /\ \A o \in Ended : Closed(o) \in LastLeg
           /\ \A planning \in BOOLEAN :
                Opened(p, planning).open /\ Opened(p, planning).by = p
           /\ \A o \in Ended :
                /\ ~Closed(o).open /\ Closed(o).by = stream.by
                /\ Closed(o).started => Closed(o).outcome # "none"
BY DEF StatusTypeOK, LastLeg, Opened, Closed, Ended

\* How a leg's process moves: only from the lock's acquisition on is it inside,
\* and only an idle one can still get there.
LEMMA LegMoves ==
    ASSUME IInv, NEW p \in Leg, LegStep(p)
    PROVE  /\ view' = view /\ shared' = shared
           /\ \E stage \in Stage \ {"idle"} : Go(p, stage)
           /\ pc[p] \in Inside \cup {"idle"}
<1> USE DEF IInv, StatusTypeOK
<1>1. CASE TakeLock(p) \/ Refused(p) \/ Truncate(p) \/ WriteBody(p)
  BY <1>1 DEF TakeLock, Refused, Truncate, WriteBody, Arrives
<1>2. CASE BeginPlanning(p) \/ WriteInitial(p)
  BY <1>2 DEF BeginPlanning, WriteInitial
<1>3. CASE Abort(p)
  BY <1>3 DEF Abort, Aborts
<1>4. CASE LoadSnapshot(p)
  BY <1>4 DEF LoadSnapshot
<1>5. CASE StartScheduler(p)
  BY <1>5 DEF StartScheduler
<1>6. CASE LastNodePasses(p)
  <2>1. Go(p, "running")
    BY <1>6 DEF LastNodePasses
  <2> QED
    BY <1>6, <2>1 DEF LastNodePasses
<1>7. CASE SchedulerReturns(p)
  BY <1>7 DEF SchedulerReturns, Returns
<1>8. CASE EmitFinished(p)
  BY <1>8 DEF EmitFinished
<1>9. CASE Release(p) \/ Crash(p)
  BY <1>9 DEF Release, Crash
<1> QED
  BY <1>1, <1>2, <1>3, <1>4, <1>5, <1>6, <1>7, <1>8, <1>9 DEF LegStep

\* Every step of a leg keeps the types.
LEMMA LegTyped ==
    ASSUME IInv, NEW p \in Leg, LegStep(p)
    PROVE  StatusTypeOK'
<1>0. StatusTypeOK
  BY DEF IInv
<1>1. pc' \in [Leg -> Stage] /\ view' = view /\ shared' = shared
  <2>1. pc \in [Leg -> Stage]
    BY <1>0 DEF StatusTypeOK
  <2>2. view' = view /\ shared' = shared /\ \E stage \in Stage : Go(p, stage)
    BY LegMoves
  <2> QED
    BY <2>1, <2>2
<1> USE DEF LegStep, TakeLock, Refused, Truncate, WriteBody, BeginPlanning,
            WriteInitial, Abort, LoadSnapshot, StartScheduler, LastNodePasses,
            SchedulerReturns, EmitFinished, Release, Crash
<1>2. flock' \in Leg \cup {Nobody} /\ body' \in {"missing", "empty", "marked"}
  <2>1. flock \in Leg \cup {Nobody} /\ body \in {"missing", "empty", "marked"}
    BY <1>0 DEF StatusTypeOK
  <2> QED
    BY <2>1 DEF Returns
<1>5. snapshot' \in Snapshot /\ unsaid' \subseteq Leg
  <2>1. snapshot \in Snapshot /\ unsaid \subseteq Leg
    BY <1>0 DEF StatusTypeOK
  <2> QED
    BY <2>1 DEF Snapshot
<1>6. verdict' \in [Leg -> Ended \cup {"none"}]
  <2>1. verdict \in [Leg -> Ended \cup {"none"}]
    BY <1>0 DEF StatusTypeOK
  <2> QED
    BY <2>1 DEF Aborts, Ended
<1>7. forbidRemoteChanges' \in BOOLEAN
  <2>1. forbidRemoteChanges' = forbidRemoteChanges
    OBVIOUS
  <2> QED
    BY <1>0, <2>1 DEF StatusTypeOK
<1>3. \/ UNCHANGED stream
      \/ \E planning \in BOOLEAN : stream' = Opened(p, planning)
      \/ \E o \in Ended : stream' = Closed(o)
  <2>1. CASE EmitFinished(p)
    BY <2>1 DEF IInv, StageInv, StatusTypeOK
  <2>2. CASE ~EmitFinished(p)
    BY <2>2
  <2> QED
    BY <2>1, <2>2
<1>4. stream' \in LastLeg /\ (stream'.started /\ ~stream'.open => stream'.outcome # "none")
  <2>1. CASE UNCHANGED stream
    BY <1>0, <2>1 DEF StatusTypeOK
  <2>2. ASSUME NEW planning \in BOOLEAN, stream' = Opened(p, planning)
        PROVE  stream' \in LastLeg /\ stream'.open
    BY <1>0, <2>2, StreamTyped
  <2>3. ASSUME NEW o \in Ended, stream' = Closed(o)
        PROVE  stream' \in LastLeg /\ (stream'.started => stream'.outcome # "none")
    BY <1>0, <2>3, StreamTyped
  <2> QED
    BY <1>3, <2>1, <2>2, <2>3
<1> QED
  BY <1>0, <1>1, <1>2, <1>4, <1>5, <1>6, <1>7 DEF StatusTypeOK

\* A leg enters the lock's stages only when it takes the lock, and gives the
\* lock back only when it leaves them.
LEMMA LegExcludes ==
    ASSUME IInv, NEW p \in Leg, LegStep(p)
    PROVE  StageInv' /\ OneLegAtATime'
<1>0. /\ pc \in [Leg -> Stage] /\ verdict \in [Leg -> Ended \cup {"none"}]
      /\ flock \in Leg \cup {Nobody}
      /\ StageInv /\ OneLegAtATime
  BY DEF IInv, StatusTypeOK
<1> USE <1>0 DEF StageInv, OneLegAtATime, Ended
<1>1. CASE TakeLock(p)
  BY <1>1 DEF TakeLock, Arrives, LockUncontended
<1>9. CASE Refused(p)
  BY <1>9 DEF Refused, Arrives
<1>10. CASE Truncate(p) \/ WriteBody(p)
  BY <1>10 DEF Truncate, WriteBody
<1>2. CASE BeginPlanning(p) \/ WriteInitial(p)
  BY <1>2 DEF BeginPlanning, WriteInitial
<1>3. CASE Abort(p)
  BY <1>3 DEF Abort, Aborts
<1>4. CASE LoadSnapshot(p)
  BY <1>4 DEF LoadSnapshot
<1>5. CASE StartScheduler(p) \/ LastNodePasses(p)
  BY <1>5 DEF StartScheduler, LastNodePasses
<1>6. CASE SchedulerReturns(p)
  BY <1>6 DEF SchedulerReturns, Returns
<1>7. CASE EmitFinished(p)
  BY <1>7 DEF EmitFinished
<1>8. CASE Release(p) \/ Crash(p)
  <2>1. /\ pc[p] \in Inside /\ flock = p /\ flock' = Nobody
        /\ \E stage \in {"told nothing to do", "out", "dead"} : Go(p, stage)
        /\ verdict' = verdict
    BY <1>8 DEF Release, Crash
  <2>2. PICK stage \in {"told nothing to do", "out", "dead"} : Go(p, stage)
    BY <2>1
  <2>3. StageInv'
    BY <2>1, <2>2
  <2>4. \A q \in Leg : pc'[q] \notin Inside
    BY <2>1, <2>2
  <2>5. OneLegAtATime'
    BY <2>1, <2>4
  <2> QED
    BY <2>3, <2>5
<1> QED
  BY <1>1, <1>9, <1>10, <1>2, <1>3, <1>4, <1>5, <1>6, <1>7, <1>8 DEF LegStep

\* A leg leaves the stages that may close its stream only by closing it, by
\* losing the event that would have, or by dying.
LEMMA LegCloses ==
    ASSUME IInv, NEW p \in Leg, LegStep(p)
    PROVE  OpenInv'
<1>0. /\ StatusTypeOK /\ OpenInv
      /\ pc \in [Leg -> Stage] /\ unsaid \subseteq Leg
      /\ stream.by \in Leg \cup {Nobody}
      /\ verdict \in [Leg -> Ended \cup {"none"}]
  BY DEF IInv, StatusTypeOK, LastLeg
<1> USE <1>0 DEF OpenInv
<1>1. CASE TakeLock(p) \/ Refused(p) \/ Truncate(p) \/ WriteBody(p)
  <2>1. /\ pc[p] \in {"idle", "locked", "rewriting"}
        /\ \E stage \in {"refused", "locked", "rewriting", "held"} : Go(p, stage)
        /\ UNCHANGED <<stream, unsaid>>
    BY <1>1 DEF TakeLock, Refused, Truncate, WriteBody, Arrives
  <2> QED
    BY <2>1
<1>10. \A planning \in BOOLEAN :
        Opened(p, planning).open /\ Opened(p, planning).by = p
  BY StreamTyped
<1>2. CASE BeginPlanning(p)
  <2>1. CASE stream' = Opened(p, TRUE)
    <3>1. stream'.open /\ stream'.by = p /\ Go(p, "planning") /\ unsaid' = unsaid
      BY <1>2, <2>1, <1>10 DEF BeginPlanning
    <3> QED
      BY <3>1
  <2>2. CASE UNCHANGED stream /\ Go(p, "releasing")
    BY <1>2, <2>2 DEF BeginPlanning
  <2> QED
    BY <1>2, <2>1, <2>2 DEF BeginPlanning
<1>3. CASE WriteInitial(p)
  BY <1>3 DEF WriteInitial
<1>4. CASE Abort(p)
  BY <1>4 DEF Abort, Aborts, IInv, StageInv
<1>5. CASE LoadSnapshot(p)
  BY <1>5 DEF LoadSnapshot
<1>6. CASE StartScheduler(p)
  <2>1. Go(p, "running") /\ unsaid' = unsaid /\ pc[p] = "ready"
    BY <1>6 DEF StartScheduler
  <2>2. CASE stream' = Opened(p, FALSE)
    <3>1. stream'.open /\ stream'.by = p
      BY <2>2, <1>10
    <3> QED
      BY <2>1, <3>1
  <2>3. CASE UNCHANGED stream
    BY <2>1, <2>3
  <2> QED
    BY <1>6, <2>2, <2>3 DEF StartScheduler
<1>7. CASE LastNodePasses(p)
  BY <1>7 DEF LastNodePasses
<1>11. CASE SchedulerReturns(p)
  <2>1. Go(p, "finishing") /\ pc[p] = "running" /\ UNCHANGED <<stream, unsaid>>
    BY <1>11 DEF SchedulerReturns, Returns
  <2> QED
    BY <2>1
<1>8. CASE EmitFinished(p)
  <2>1. verdict[p] \in Ended /\ pc[p] = "finishing" /\ Go(p, "releasing")
    BY <1>8 DEF EmitFinished, IInv, StageInv
  <2>2. CASE stream' = Closed(verdict[p])
    <3>1. ~stream'.open /\ stream'.by = stream.by
      BY <2>1, <2>2, StreamTyped
    <3> QED
      BY <2>1, <3>1
  <2>3. CASE UNCHANGED stream /\ unsaid' = unsaid \cup {p}
    BY <2>1, <2>3
  <2> QED
    BY <1>8, <2>2, <2>3 DEF EmitFinished
<1>9. CASE Release(p)
  <2>1. /\ pc[p] \in {"noop", "releasing"} /\ UNCHANGED <<stream, unsaid>>
        /\ \E stage \in {"told nothing to do", "out"} : Go(p, stage)
    BY <1>9 DEF Release
  <2> QED
    BY <2>1
<1>12. CASE Crash(p)
  <2>1. Go(p, "dead") /\ pc[p] \in Inside /\ UNCHANGED <<stream, unsaid>>
    BY <1>12 DEF Crash
  <2> QED
    BY <2>1
<1> QED
  BY <1>12, <1>1, <1>2, <1>3, <1>4, <1>5, <1>6, <1>7, <1>11, <1>8, <1>9
  DEF LegStep

\* No leg that has begun comes back to life, so what readers hold stays true.
LEMMA LegKeepsViews ==
    ASSUME IInv, NEW p \in Leg, LegStep(p)
    PROVE  ViewInv'
<1>1. /\ view' = view /\ pc \in [Leg -> Stage]
      /\ \E stage \in Stage \ {"idle"} : Go(p, stage)
      /\ pc[p] \in Inside \cup {"idle"}
  BY LegMoves DEF IInv, StatusTypeOK
<1>2. \A r \in Reader : view[r].leg.by \in Leg \cup {Nobody}
  BY DEF IInv, StatusTypeOK, LastLeg
<1>3. ASSUME NEW q \in Leg
      PROVE  /\ pc[q] # "idle" => pc'[q] # "idle"
             /\ pc[q] # "idle" /\ pc[q] \notin Inside => pc'[q] \notin Inside
  BY <1>1
<1> QED
  BY <1>1, <1>2, <1>3 DEF IInv, ViewInv

\* A reader changes its own view and the shared lock, nothing else.
LEMMA ReaderTyped ==
    ASSUME IInv, NEW r \in Reader, ReaderStep(r)
    PROVE  /\ UNCHANGED <<flock, files, pc, verdict, unsaid, forbidRemoteChanges>>
           /\ StatusTypeOK'
<1>1. UNCHANGED <<flock, files, pc, verdict, unsaid, forbidRemoteChanges>>
  BY DEF ReaderStep, ReadStream, ReadSnapshot, AskLock, Unlock, LookAgain
<1>2. StatusTypeOK
  BY DEF IInv
<1>3. \A leg, snap, lock : Derive(leg, snap, lock) \in Word
  BY DEF Derive, OpenWord, ClosedWord, Word
<1>4. shared' \subseteq Reader
  <2>1. shared' \subseteq shared \cup {r}
    BY DEF ReaderStep, ReadStream, ReadSnapshot, AskLock, Unlock, LookAgain
  <2> QED
    BY <2>1, <1>2 DEF StatusTypeOK
<1> DEFINE Views == [at : {"stream", "snapshot", "probe", "unlock", "answered"},
                     leg : LastLeg, snap : Snapshot, held : Leg \cup {Nobody},
                     answer : Word]
<1>5. /\ view \in [Reader -> Views] /\ stream \in LastLeg /\ snapshot \in Snapshot
      /\ flock \in Leg \cup {Nobody}
  BY <1>2 DEF StatusTypeOK
<1>6. view' \in [Reader -> Views]
  <2>1. CASE ReadStream(r)
    BY <1>5, <2>1 DEF ReadStream
  <2>2. CASE ReadSnapshot(r)
    <3> DEFINE answer == Derive(view[r].leg, snapshot, "unknown")
    <3>1. answer \in Word
      BY <1>3
    <3>2. \/ view' = [view EXCEPT ![r] =
                [view[r] EXCEPT !.snap = snapshot, !.at = "probe"]]
          \/ view' = [view EXCEPT ![r] =
                [view[r] EXCEPT !.snap = snapshot, !.at = "answered", !.answer = answer]]
      BY <2>2 DEF ReadSnapshot, Settle
    <3> HIDE DEF answer
    <3>3. /\ [view[r] EXCEPT !.snap = snapshot, !.at = "probe"] \in Views
          /\ [view[r] EXCEPT !.snap = snapshot, !.at = "answered", !.answer = answer]
                \in Views
      BY <1>5, <3>1
    <3> HIDE DEF Views
    <3> QED
      BY <1>5, <3>2, <3>3
  <2>3. CASE AskLock(r)
    <3> DEFINE answer == Derive(view[r].leg, view[r].snap, ProbeLock)
               at == IF ProbeLock = "free" THEN "unlock" ELSE "answered"
    <3>1. answer \in Word /\ at \in {"unlock", "answered"}
      BY <1>3
    <3>2. view' = [view EXCEPT ![r] =
                    [view[r] EXCEPT !.at = at, !.held = flock, !.answer = answer]]
      BY <2>3 DEF AskLock
    <3> HIDE DEF answer, at
    <3> QED
      BY <1>5, <3>1, <3>2
  <2>4. CASE Unlock(r)
    BY <1>5, <2>4 DEF Unlock
  <2>5. CASE LookAgain(r)
    <3>1. NoView \in Views
      BY DEF NoView, NoLeg, LastLeg, Snapshot, Word, Ended
    <3> QED
      BY <1>5, <2>5, <3>1 DEF LookAgain
  <2> QED
    BY <2>1, <2>2, <2>3, <2>4, <2>5 DEF ReaderStep
<1> QED
  BY <1>1, <1>2, <1>4, <1>6 DEF StatusTypeOK

\* A reader says ABANDONED only of an open leg and of a lock that was free when
\* it asked, and then no leg is inside at all.
LEMMA ReaderJudges ==
    ASSUME IInv, NEW r \in Reader, ReaderStep(r)
    PROVE  ViewInv'
<1>1. /\ UNCHANGED <<flock, files, pc, verdict, unsaid>>
      /\ \A q \in Reader \ {r} : view'[q] = view[q]
  <2>1. UNCHANGED <<flock, files, pc, verdict, unsaid>>
    BY ReaderTyped
  <2>2. \E v : view' = [view EXCEPT ![r] = v]
    <3>1. ReadStream(r) => \E v : view' = [view EXCEPT ![r] = v]
      BY DEF ReadStream
    <3>2. Unlock(r) => \E v : view' = [view EXCEPT ![r] = v]
      BY DEF Unlock
    <3> QED
      BY <3>1, <3>2 DEF ReaderStep, ReadSnapshot, AskLock, LookAgain
  <2>3. view = [q \in Reader |-> view[q]]
    BY DEF IInv, StatusTypeOK
  <2> QED
    BY <2>1, <2>2, <2>3
<1>2. /\ view \in [Reader -> [at : {"stream", "snapshot", "probe", "unlock", "answered"},
                              leg : LastLeg, snap : Snapshot,
                              held : Leg \cup {Nobody}, answer : Word]]
      /\ ViewInv /\ OpenInv /\ OneLegAtATime
  BY DEF IInv, StatusTypeOK
<1>3. /\ stream.open => stream.by # Nobody
      /\ stream.by \in Leg => pc[stream.by] # "idle"
      /\ stream.by \in Leg \cup {Nobody}
  BY <1>2 DEF OpenInv, IInv, StatusTypeOK, LastLeg
<1>4. view[r].leg.by \in Leg \cup {Nobody}
  BY <1>2 DEF LastLeg
<1> DEFINE Sound(v) ==
      /\ v.leg.open => v.leg.by # Nobody
      /\ v.leg.by # Nobody => pc[v.leg.by] # "idle"
      /\ v.at \in {"stream", "snapshot", "probe"} => v.answer = "-"
      /\ v.answer = "ABANDONED" =>
          v.leg.open /\ v.held = Nobody /\ pc[v.leg.by] \notin Inside
<1>5. Sound(view[r])
  BY <1>2 DEF ViewInv
<1>6. \A leg, snap, lock : Derive(leg, snap, lock) = "ABANDONED" =>
          leg.open /\ lock = "free"
  BY DEF Derive, OpenWord, ClosedWord
<1>7. Sound(view'[r])
  <2>1. CASE ReadStream(r)
    <3>1. /\ view'[r].leg = stream /\ view'[r].at = "snapshot"
          /\ view'[r].answer = view[r].answer /\ view[r].at = "stream"
      BY <1>2, <2>1 DEF ReadStream
    <3> QED
      BY <1>3, <1>5, <3>1
  <2>2. CASE ReadSnapshot(r)
    <3>1. CASE view[r].leg.open
      <4>1. /\ view'[r].leg = view[r].leg /\ view'[r].at = "probe"
            /\ view'[r].answer = view[r].answer /\ view[r].at = "snapshot"
        BY <1>2, <2>2, <3>1 DEF ReadSnapshot
      <4> QED
        BY <1>5, <4>1
    <3>2. CASE ~view[r].leg.open
      <4>1. /\ view'[r].leg = view[r].leg /\ view'[r].at = "answered"
            /\ view'[r].answer = Derive(view[r].leg, snapshot, "unknown")
        BY <1>2, <2>2, <3>2 DEF ReadSnapshot, Settle
      <4> QED
        BY <1>5, <1>6, <4>1
    <3> QED
      BY <3>1, <3>2
  <2>3. CASE AskLock(r)
    <3>1. /\ view'[r].leg = view[r].leg /\ view'[r].held = flock
          /\ view'[r].at \in {"unlock", "answered"}
          /\ view'[r].answer = Derive(view[r].leg, view[r].snap, ProbeLock)
      <4>1. view' = [view EXCEPT ![r] = [view[r] EXCEPT
                !.at = IF ProbeLock = "free" THEN "unlock" ELSE "answered",
                !.held = flock,
                !.answer = Derive(view[r].leg, view[r].snap, ProbeLock)]]
        BY <2>3 DEF AskLock
      <4> QED
        BY <1>2, <4>1
    <3>2. CASE view'[r].answer # "ABANDONED"
      BY <1>5, <3>1, <3>2
    <3>3. CASE view'[r].answer = "ABANDONED"
      <4>1. view[r].leg.open /\ ProbeLock = "free"
        BY <1>6, <3>1, <3>3
      <4>2. flock = Nobody
        BY <4>1 DEF ProbeLock
      <4>3. view[r].leg.by \in Leg
        BY <1>4, <1>5, <4>1
      <4>4. pc[view[r].leg.by] \notin Inside
        BY <1>2, <4>2, <4>3 DEF OneLegAtATime
      <4> QED
        BY <1>5, <3>1, <4>1, <4>2, <4>4
    <3> QED
      BY <3>2, <3>3
  <2>4. CASE Unlock(r)
    <3>1. /\ view'[r].leg = view[r].leg /\ view'[r].held = view[r].held
          /\ view'[r].at = "answered" /\ view'[r].answer = view[r].answer
      BY <1>2, <2>4 DEF Unlock
    <3> QED
      BY <1>5, <3>1
  <2>5. CASE LookAgain(r)
    BY <1>2, <2>5 DEF LookAgain, NoView, NoLeg
  <2> QED
    BY <2>1, <2>2, <2>3, <2>4, <2>5 DEF ReaderStep
<1> QED
  BY <1>1, <1>2, <1>7 DEF ViewInv

LEMMA StepHolds == IInv /\ [Next]_vars => IInv'
<1> SUFFICES ASSUME IInv, [Next]_vars PROVE IInv'
  OBVIOUS
<1>1. ASSUME NEW p \in Leg, LegStep(p) PROVE IInv'
  BY <1>1, LegTyped, LegExcludes, LegCloses, LegKeepsViews DEF IInv
<1>2. ASSUME NEW r \in Reader, ReaderStep(r) PROVE IInv'
  <2>1. StageInv' /\ OneLegAtATime' /\ OpenInv'
    BY <1>2, ReaderTyped DEF IInv, StageInv, OneLegAtATime, OpenInv
  <2> QED
    BY <1>2, <2>1, ReaderTyped, ReaderJudges DEF IInv
<1>3. CASE UNCHANGED vars
  BY <1>3 DEF vars, IInv, StatusTypeOK, StageInv, OneLegAtATime, OpenInv, ViewInv
<1> QED
  BY <1>1, <1>2, <1>3 DEF Next

LEMMA Invariant == Spec => []IInv
BY InitHolds, StepHolds, PTL DEF Spec

----------------------------------------------------------------------------
\* At most one process is ever inside a leg of a run, and exactly while it
\* holds the flock (acquireLock, heldLock.release, the kernel on a death).
THEOREM OneLegAlways == Spec => []OneLegAtATime
<1>1. IInv => OneLegAtATime
  BY DEF IInv
<1> QED
  BY <1>1, Invariant, PTL

\* A leg whose process neither died nor lost its closing event is never left
\* open beside a free lock (runLeg.Close closes before it releases).
THEOREM OpenLegsHeld == Spec => []OpenLegIsHeld
<1>1. IInv => OpenLegIsHeld
  BY DEF IInv, StatusTypeOK, OpenInv, OneLegAtATime, OpenLegIsHeld, LastLeg
<1> QED
  BY <1>1, Invariant, PTL

\* No interleaving of a reader's three reads with the legs' steps makes it call
\* a living leg dead (runstatus.Derive and Probe).
THEOREM NeverFalselyDead == Spec => []NoFalseDeath
<1>1. IInv => NoFalseDeath
  BY DEF IInv, ViewInv, NoFalseDeath
<1> QED
  BY <1>1, Invariant, PTL

----------------------------------------------------------------------------
(* A run whose every node passed, and a retry of it. *)

Working == {"planning", "ready", "running", "finishing"}

\* The launch, which writes the first snapshot, is past it.
FirstInv == snapshot # "missing" =>
    pc[First] \notin {"idle", "locked", "rewriting", "held", "planning"}

\* Nothing a leg still at work could say changes a run some retry found complete
\* and unfailed.
NoOpInv ==
    /\ FirstInv
    /\ ~forbidRemoteChanges /\ (\E p \in Leg : pc[p] \in {"noop", "told nothing to do"}) =>
        /\ snapshot = "complete"
        /\ stream.open \/ stream.outcome # "failed"
        /\ \A q \in Leg : pc[q] \notin Working

\* What the status word says of a complete snapshot.
LEMMA CompleteStatus ==
    ASSUME StatusTypeOK, snapshot = "complete"
    PROVE  StatusNow = "FAIL" <=> ~stream.open /\ stream.outcome = "failed"
BY DEF StatusTypeOK, LastLeg, Ended, StatusNow, Derive, Spoken, OpenWord, ClosedWord

LEMMA NoOpStep == IInv /\ NoOpInv /\ [Next]_vars => NoOpInv'
<1> SUFFICES ASSUME IInv, NoOpInv, [Next]_vars PROVE NoOpInv'
  OBVIOUS
<1>0. /\ pc \in [Leg -> Stage] /\ StatusTypeOK /\ StageInv /\ OneLegAtATime
      /\ NoOpInv
  BY DEF IInv, StatusTypeOK
<1> USE <1>0 DEF NoOpInv, FirstInv, StageInv, OneLegAtATime, Working
<1> DEFINE Early == {"idle", "locked", "rewriting", "held", "planning"}
           Told == {"noop", "told nothing to do"}
<1>4. ASSUME NEW p \in Leg, NEW stage \in Stage, Go(p, stage),
             UNCHANGED <<stream, snapshot, forbidRemoteChanges>>,
             stage \in Told => pc[p] \in Told,
             stage \in Working =>
                pc[p] \in Working \/ (p = First /\ pc[p] \in Early),
             stage \in Early => pc[p] \in Early
      PROVE  NoOpInv'
  BY <1>4
<1>1. ASSUME NEW p \in Leg, LegStep(p) PROVE NoOpInv'
  <2>1. CASE TakeLock(p) \/ Refused(p) \/ Truncate(p) \/ WriteBody(p)
    <3>1. /\ pc[p] \in {"idle", "locked", "rewriting"}
          /\ \E stage \in {"refused", "locked", "rewriting", "held"} : Go(p, stage)
          /\ UNCHANGED <<stream, snapshot, forbidRemoteChanges>>
      BY <2>1 DEF TakeLock, Refused, Truncate, WriteBody, Arrives
    <3> QED
      BY <3>1, <1>4
  <2>2. CASE BeginPlanning(p)
    BY <2>2 DEF BeginPlanning
  <2>3. CASE WriteInitial(p)
    BY <2>3 DEF WriteInitial
  <2>4. CASE Abort(p)
    <3>1. /\ pc[p] \in {"held", "planning", "ready"}
          /\ UNCHANGED <<files, forbidRemoteChanges>>
          /\ \/ Go(p, "releasing")
             \/ Go(p, "finishing") /\ p = First
      BY <2>4 DEF Abort, Aborts
    <3> QED
      BY <3>1, <1>4
  <2>5. CASE LoadSnapshot(p)
    <3>1. pc[p] = "held" /\ p # First /\ UNCHANGED <<files, forbidRemoteChanges>>
      BY <2>5 DEF LoadSnapshot
    <3>2. CASE Go(p, "releasing")
      BY <3>1, <3>2, <1>4
    <3>3. CASE Go(p, "ready") /\ snapshot = "partial"
      BY <3>1, <3>3
    <3>4. CASE Go(p, "ready") /\ snapshot = "complete" /\ StatusNow = "FAIL"
      BY <3>1, <3>4, CompleteStatus
    <3>5. CASE Go(p, "noop") /\ snapshot = "complete" /\ StatusNow # "FAIL"
      BY <3>1, <3>5, CompleteStatus
    <3>6. CASE Go(p, "noop") /\ forbidRemoteChanges
      BY <3>1, <3>6
    <3> QED
      BY <2>5, <3>2, <3>3, <3>4, <3>5, <3>6 DEF LoadSnapshot, ClosesFailedLeg
  <2>6. CASE StartScheduler(p)
    BY <2>6 DEF StartScheduler
  <2>7. CASE LastNodePasses(p) \/ SchedulerReturns(p)
    BY <2>7 DEF LastNodePasses, SchedulerReturns, Returns
  <2>8. CASE EmitFinished(p)
    BY <2>8 DEF EmitFinished
  <2>9. CASE Release(p)
    <3>1. /\ pc[p] \in {"noop", "releasing"} /\ UNCHANGED <<files, forbidRemoteChanges>>
          /\ Go(p, IF pc[p] = "noop" THEN "told nothing to do" ELSE "out")
      BY <2>9 DEF Release
    <3> QED
      BY <3>1, <1>4
  <2>10. CASE Crash(p)
    <3>1. pc[p] \in Inside /\ Go(p, "dead") /\ UNCHANGED <<files, forbidRemoteChanges>>
      BY <2>10 DEF Crash
    <3> QED
      BY <3>1, <1>4
  <2> QED
    BY <1>1, <2>1, <2>2, <2>3, <2>4, <2>5, <2>6, <2>7, <2>8, <2>9, <2>10 DEF LegStep
<1>2. ASSUME NEW r \in Reader, ReaderStep(r) PROVE NoOpInv'
  BY <1>2, ReaderTyped
<1>3. CASE UNCHANGED vars
  BY <1>3 DEF vars
<1> QED
  BY <1>1, <1>2, <1>3 DEF Next

\* A retry of an unguarded run says it has nothing to do, and exits 0, only over a
\* run that does not read FAIL (interruptedAfterEveryNodePassed).
LEMMA NoOpsTruthful == Spec => []NoOpNeverOverFail
<1>1. Init => NoOpInv
  BY DEF Init, NoOpInv, FirstInv
<1>2. IInv /\ NoOpInv => NoOpNeverOverFail
  BY CompleteStatus DEF IInv, NoOpInv, NoOpNeverOverFail
<1> QED
  BY <1>1, <1>2, NoOpStep, Invariant, PTL DEF Spec

\* No process is about to open a leg over a guarded run whose every node passed.
GuardedInv == forbidRemoteChanges /\ snapshot = "complete" =>
    \A p \in Leg : pc[p] # "ready"

LEMMA GuardedStep == IInv /\ FirstInv /\ GuardedInv /\ [Next]_vars => GuardedInv'
<1> SUFFICES ASSUME IInv, FirstInv, GuardedInv, [Next]_vars,
                    forbidRemoteChanges', snapshot' = "complete", NEW q \in Leg
             PROVE  pc'[q] # "ready"
  BY DEF GuardedInv
<1>0. pc \in [Leg -> Stage] /\ OneLegAtATime
  BY DEF IInv, StatusTypeOK
<1>1. ASSUME NEW p \in Leg, LegStep(p) PROVE pc'[q] # "ready"
  <2> USE <1>0
  <2>0. forbidRemoteChanges
    BY <1>1 DEF LegStep, TakeLock, Refused, Truncate, WriteBody, BeginPlanning,
                WriteInitial, Abort, LoadSnapshot, StartScheduler, LastNodePasses,
                SchedulerReturns, EmitFinished, Release, Crash
  <2>1. CASE LastNodePasses(p)
    BY <2>1 DEF LastNodePasses, OneLegAtATime
  <2>2. CASE WriteInitial(p)
    BY <2>2 DEF WriteInitial
  <2>3. CASE LoadSnapshot(p)
    <3>1. snapshot = "complete" /\ (Go(p, "noop") \/ Go(p, "releasing"))
      BY <2>0, <2>3 DEF LoadSnapshot, ClosesFailedLeg
    <3> QED
      BY <2>0, <3>1 DEF GuardedInv
  <2>4. CASE ~(LastNodePasses(p) \/ WriteInitial(p) \/ LoadSnapshot(p))
    <3>1. snapshot = "complete" /\ \E stage \in Stage \ {"ready"} : Go(p, stage)
      BY <1>1, <2>4
         DEF LegStep, TakeLock, Refused, Truncate, WriteBody, BeginPlanning, Abort,
             Aborts, StartScheduler, SchedulerReturns, Returns, EmitFinished, Release,
             Crash
    <3> QED
      BY <2>0, <3>1 DEF GuardedInv
  <2> QED
    BY <2>1, <2>2, <2>3, <2>4
<1>2. ASSUME NEW r \in Reader, ReaderStep(r) PROVE pc'[q] # "ready"
  BY <1>2, ReaderTyped DEF GuardedInv
<1>3. CASE UNCHANGED vars
  BY <1>3 DEF vars, GuardedInv
<1> QED
  BY <1>1, <1>2, <1>3 DEF Next

\* Then no step changes the word: the leg is closed, and what opens one is past.
LEMMA GuardedFailKept ==
    ASSUME IInv, FirstInv, GuardedInv, [Next]_vars,
           forbidRemoteChanges, snapshot = "complete", StatusNow = "FAIL"
    PROVE  snapshot' = "complete" /\ StatusNow' = "FAIL"
<1>0. StatusTypeOK /\ ~stream.open /\ stream.outcome = "failed"
  BY CompleteStatus DEF IInv
<1>1. UNCHANGED <<stream, snapshot>>
  <2>1. ASSUME NEW p \in Leg, LegStep(p) PROVE UNCHANGED <<stream, snapshot>>
    <3>1. ~BeginPlanning(p) /\ ~WriteInitial(p)
      BY DEF BeginPlanning, WriteInitial, FirstInv
    <3>2. ~StartScheduler(p) /\ ~LastNodePasses(p)
      BY DEF StartScheduler, LastNodePasses, GuardedInv
    <3>3. EmitFinished(p) => UNCHANGED <<stream, snapshot>>
      BY <1>0 DEF EmitFinished, Closed
    <3> QED
      BY <2>1, <3>1, <3>2, <3>3
      DEF LegStep, TakeLock, Refused, Truncate, WriteBody, Abort, LoadSnapshot,
          SchedulerReturns, Release, Crash
  <2>2. ASSUME NEW r \in Reader, ReaderStep(r) PROVE UNCHANGED <<stream, snapshot>>
    BY <2>2, ReaderTyped
  <2>3. CASE UNCHANGED vars
    BY <2>3 DEF vars
  <2> QED
    BY <2>1, <2>2, <2>3 DEF Next
<1> QED
  BY <1>0, <1>1 DEF StatusTypeOK, LastLeg, Ended, StatusNow, Derive, Spoken, OpenWord,
                    ClosedWord

\* A guarded run that reads FAIL after every node passed reads FAIL for ever: no
\* empty leg papers over its exit 6 (interruptedAfterEveryNodePassed).
LEMMA GuardedFailsStand == Spec => [][GuardedFailStands]_vars
<1>1. Init => NoOpInv /\ GuardedInv
  BY DEF Init, NoOpInv, FirstInv, GuardedInv
<1>2. NoOpInv => FirstInv
  BY DEF NoOpInv
<1>3. IInv /\ FirstInv /\ GuardedInv /\ [Next]_vars => GuardedFailStands
  BY GuardedFailKept DEF GuardedFailStands
<1> QED
  BY <1>1, <1>2, <1>3, NoOpStep, GuardedStep, Invariant, PTL DEF Spec

\* A run whose last leg closed failed after every node passed is answered as
\* interruptedAfterEveryNodePassed says, guarded or not, whatever resumes, readers,
\* deaths and lost events there are.
THEOREM FailsAnswered == Spec => FailAnswered
BY NoOpsTruthful, GuardedFailsStand, PTL DEF FailAnswered
=============================================================================
