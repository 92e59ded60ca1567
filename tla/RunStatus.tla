------------------------------ MODULE RunStatus ------------------------------
(***************************************************************************)
(* Who is working on a run, as its directory tells it.  A leg is a process *)
(* that takes the flock of resume.lock, brackets its work between          *)
(* run_started and run_finished on the event stream, and gives the lock    *)
(* back; it may die at any point.  A reader (runs list, watch, the         *)
(* dashboard, and `resume` itself before it locks) reads the stream, then  *)
(* the snapshot, then probes the lock, and derives one word from what it   *)
(* saw.  Lock files of engines older than the flock are left out.          *)
(***************************************************************************)
EXTENDS Naturals, FiniteSets

CONSTANTS
    Leg,            \* the processes that may run a leg
    First,          \* the one that launches the run; the others resume it
    Watcher,        \* the readers that only look
    Planned,        \* an auto run: the first leg opens with a planner call
    AllowEmitFault, \* whether an event may fail to reach the stream
    AllowCrash,     \* whether a leg's process may die
    Nobody

ASSUME ProcessAssumption ==
    /\ IsFiniteSet(Leg) /\ First \in Leg
    /\ Watcher \cap Leg = {} /\ Nobody \notin Leg \cup Watcher
    /\ {Planned, AllowEmitFault, AllowCrash} \subseteq BOOLEAN

Reader == Watcher \cup (Leg \ {First})

VARIABLES
    flock,     \* the leg process that holds the exclusive lock
    shared,    \* the readers inside a probe, holding the shared lock
    body,      \* the lock file: "missing", "empty" (truncated) or "marked"
    stream,    \* LastLeg of events.jsonl, and (by) who opened that leg
    snapshot,  \* state.json: "missing", "partial", or "complete" (all PASS)
    pc,        \* where each leg process is
    verdict,   \* the outcome its run_finished will carry
    unsaid,    \* history: legs whose run_finished never reached the stream
    view,      \* what each reader has read, and what it answered
    forbidRemoteChanges \* state.json: the run was launched guarded

vars == <<flock, shared, body, stream, snapshot, pc, verdict, unsaid, view,
          forbidRemoteChanges>>
files == <<body, stream, snapshot>>

Word == {"-", "PLANNING", "RUNNING", "ABANDONED", "PAUSED", "PASS", "FAIL"}
Ended == {"passed", "paused", "failed"}
LastLeg == [open : BOOLEAN, started : BOOLEAN, planning : BOOLEAN,
            outcome : Ended \cup {"none"}, by : Leg \cup {Nobody}]
NoLeg == [open |-> FALSE, started |-> FALSE, planning |-> FALSE,
          outcome |-> "none", by |-> Nobody]
Snapshot == {"missing", "partial", "complete"}

\* The stages at which a leg's process holds the lock.
Inside == {"locked", "rewriting", "held", "planning", "ready", "running",
           "finishing", "noop", "releasing"}
Stage == Inside \cup {"idle", "refused", "out", "told nothing to do", "dead"}

NoView == [at |-> "stream", leg |-> NoLeg, snap |-> "missing", held |-> Nobody,
           answer |-> "-"]

StatusTypeOK ==
    /\ flock \in Leg \cup {Nobody}
    /\ shared \subseteq Reader
    /\ body \in {"missing", "empty", "marked"}
    /\ stream \in LastLeg
    /\ stream.started /\ ~stream.open => stream.outcome # "none"
    /\ snapshot \in Snapshot
    /\ pc \in [Leg -> Stage]
    /\ verdict \in [Leg -> Ended \cup {"none"}]
    /\ unsaid \subseteq Leg
    /\ view \in [Reader ->
        [at : {"stream", "snapshot", "probe", "unlock", "answered"}, leg : LastLeg,
         snap : Snapshot, held : Leg \cup {Nobody}, answer : Word]]
    /\ forbidRemoteChanges \in BOOLEAN

Init ==
    /\ flock = Nobody /\ shared = {}
    /\ body = "missing" /\ stream = NoLeg /\ snapshot = "missing"
    /\ pc = [p \in Leg |-> "idle"]
    /\ verdict = [p \in Leg |-> "none"]
    /\ unsaid = {}
    /\ view = [r \in Reader |-> NoView]
    /\ forbidRemoteChanges \in BOOLEAN

----------------------------------------------------------------------------
(* The stream, as LastLeg folds it. *)

Opened(p, planning) == [stream EXCEPT !.open = TRUE, !.started = TRUE,
                                      !.planning = planning, !.by = p]
\* Only a run_finished that closes an open leg says anything.
Closed(outcome) ==
    IF stream.open THEN [stream EXCEPT !.open = FALSE, !.outcome = outcome] ELSE stream

At(p, stage) == pc[p] = stage
Go(p, stage) == pc' = [pc EXCEPT ![p] = stage]

----------------------------------------------------------------------------
(* Taking the lock: acquireLock. *)

\* A resume names a run whose directory it was told of, and only after it has
\* derived the run's status.
Arrives(p) == At(p, "idle")
              /\ (p # First => view[p].at = "answered" /\ body # "missing")

LockUncontended == flock = Nobody /\ shared = {}

TakeLock(p) ==
    /\ Arrives(p) /\ LockUncontended
    /\ flock' = p
    /\ body' = IF body = "missing" THEN "empty" ELSE body
    /\ Go(p, "locked")
    /\ UNCHANGED <<shared, stream, snapshot, verdict, unsaid, view,
                   forbidRemoteChanges>>

\* LockHeldError: LOCK_NB refuses beside a leg, and beside a probe.
Refused(p) ==
    /\ Arrives(p) /\ ~LockUncontended
    /\ Go(p, "refused")
    /\ UNCHANGED <<flock, shared, files, verdict, unsaid, view, forbidRemoteChanges>>

\* writeLockBody truncates, then writes both lines at once.
Truncate(p) ==
    /\ At(p, "locked")
    /\ body' = "empty" /\ Go(p, "rewriting")
    /\ UNCHANGED <<flock, shared, stream, snapshot, verdict, unsaid, view,
                   forbidRemoteChanges>>

WriteBody(p) ==
    /\ At(p, "rewriting")
    /\ body' = "marked" /\ Go(p, "held")
    /\ UNCHANGED <<flock, shared, stream, snapshot, verdict, unsaid, view,
                   forbidRemoteChanges>>

----------------------------------------------------------------------------
(* The launch: an auto run plans first; both write the first snapshot.     *)

\* beginPlanning; a failed emit gives the lock back with nothing said.
BeginPlanning(p) ==
    /\ At(p, "held") /\ p = First /\ Planned
    /\ \/ stream' = Opened(p, TRUE) /\ Go(p, "planning")
       \/ AllowEmitFault /\ UNCHANGED stream /\ Go(p, "releasing")
    /\ UNCHANGED <<flock, shared, body, snapshot, verdict, unsaid, view,
                   forbidRemoteChanges>>

WriteInitial(p) ==
    /\ p = First /\ At(p, IF Planned THEN "planning" ELSE "held")
    /\ snapshot' = "partial" /\ Go(p, "ready")
    /\ UNCHANGED <<flock, shared, body, stream, verdict, unsaid, view,
                   forbidRemoteChanges>>

\* What a leg that ends before its scheduler says: runLeg.Close emits its
\* run_finished only for a leg that announced itself.
AbortsSilently(p) == Go(p, "releasing") /\ UNCHANGED verdict
Aborts(p) ==
    IF p = First /\ stream.by = p
    THEN Go(p, "finishing") /\ verdict' = [verdict EXCEPT ![p] = "failed"]
    ELSE Go(p, "releasing") /\ UNCHANGED verdict

\* The plan is refused, a file cannot be written, or an interrupt comes before
\* the scheduler is entered.
Abort(p) ==
    /\ pc[p] \in {"held", "planning", "ready"}
    /\ Aborts(p)
    /\ UNCHANGED <<flock, shared, files, unsaid, view, forbidRemoteChanges>>

----------------------------------------------------------------------------
(* A resume: it loads the snapshot under the lock.                         *)

ProbeTrustingEmpty == IF flock = Nobody \/ body = "empty" THEN "free" ELSE "held"
\* ProbeLock: an unmarked lock file answers nothing, its flock is not asked.
ProbeLock == CASE body # "marked" -> "unknown"
               [] body = "marked" /\ flock = Nobody -> "free"
               [] body = "marked" /\ flock # Nobody -> "held"

\* runstatus.Derive, asked only of a run that has Spoken: a free lock answers
\* before the phase, the outcome before the nodes that passed.
OpenWord(leg, lock) ==
    IF lock = "free" THEN "ABANDONED" ELSE IF leg.planning THEN "PLANNING" ELSE "RUNNING"
ClosedWord(leg, snap) ==
    CASE leg.outcome = "paused" -> "PAUSED"
      [] leg.outcome = "failed" -> "FAIL"
      [] OTHER -> IF snap = "complete" THEN "PASS" ELSE "FAIL"
Spoken(leg, snap) == leg.started \/ snap # "missing"
Derive(leg, snap, lock) ==
    IF ~Spoken(leg, snap) THEN "-"
    ELSE IF leg.open THEN OpenWord(leg, lock) ELSE ClosedWord(leg, snap)

StatusNow == Derive(stream, snapshot, ProbeLock)

\* A run whose every node passed is taken up only to close a leg that an
\* interrupt ended failed, and not if it is guarded; otherwise what is left
\* decides (RunResume).
NeverReopens == FALSE
ReopensGuarded == StatusNow = "FAIL"
ClosesFailedLeg == ~forbidRemoteChanges /\ StatusNow = "FAIL"

\* The status is read, and may fail to be, only for an unguarded run.
LoadSnapshot(p) ==
    /\ At(p, "held") /\ p # First
    /\ \/ snapshot = "missing" /\ Go(p, "releasing")
       \/ snapshot = "partial" /\ (Go(p, "ready") \/ Go(p, "releasing"))
       \/ snapshot = "complete" /\ Go(p, IF ClosesFailedLeg THEN "ready" ELSE "noop")
       \/ snapshot = "complete" /\ ~forbidRemoteChanges /\ Go(p, "releasing")
    /\ UNCHANGED <<flock, shared, files, verdict, unsaid, view, forbidRemoteChanges>>

----------------------------------------------------------------------------
(* The leg proper. *)

\* Scheduler.Run's run_started; a lost one only warns.
StartScheduler(p) ==
    /\ At(p, "ready")
    /\ stream' = Opened(p, FALSE) \/ (AllowEmitFault /\ UNCHANGED stream)
    /\ Go(p, "running")
    /\ UNCHANGED <<flock, shared, body, snapshot, verdict, unsaid, view,
                   forbidRemoteChanges>>

\* The snapshot after the last node's PASS.
LastNodePasses(p) ==
    /\ At(p, "running") /\ snapshot = "partial"
    /\ snapshot' = "complete"
    /\ UNCHANGED <<flock, shared, body, stream, pc, verdict, unsaid, view,
                   forbidRemoteChanges>>

\* The scheduler returns, and what the leg ends as is settled by finish: a
\* first leg passes only on a full snapshot, a pause leaves one incomplete.
ReturnsUnlocked(p) == Go(p, "finishing") /\ flock' = Nobody
Returns(p) == Go(p, "finishing") /\ UNCHANGED flock
SchedulerReturns(p) ==
    /\ At(p, "running")
    /\ \E outcome \in Ended :
        /\ outcome = "passed" /\ p = First => snapshot = "complete"
        /\ outcome = "paused" => snapshot = "partial"
        /\ verdict' = [verdict EXCEPT ![p] = outcome]
    /\ Returns(p)
    /\ UNCHANGED <<shared, files, unsaid, view, forbidRemoteChanges>>

EmitFinished(p) ==
    /\ At(p, "finishing")
    /\ \/ stream' = Closed(verdict[p]) /\ UNCHANGED unsaid
       \/ AllowEmitFault /\ UNCHANGED stream /\ unsaid' = unsaid \cup {p}
    /\ Go(p, "releasing")
    /\ UNCHANGED <<flock, shared, body, snapshot, verdict, view, forbidRemoteChanges>>

Release(p) ==
    /\ pc[p] \in {"noop", "releasing"}
    /\ flock' = Nobody
    /\ Go(p, IF At(p, "noop") THEN "told nothing to do" ELSE "out")
    /\ UNCHANGED <<shared, files, verdict, unsaid, view, forbidRemoteChanges>>

\* The kernel gives the lock of a dead process back, however it died.
Crash(p) ==
    /\ AllowCrash /\ pc[p] \in Inside
    /\ flock' = IF flock = p THEN Nobody ELSE flock
    /\ Go(p, "dead")
    /\ UNCHANGED <<shared, files, verdict, unsaid, view, forbidRemoteChanges>>

----------------------------------------------------------------------------
(* A reader: Gather reads the stream, then the snapshot; Probe asks the    *)
(* lock, and only about an open leg.                                       *)

Reads(r) == r \in Leg => At(r, "idle")

ReadStream(r) ==
    /\ Reads(r) /\ view[r].at = "stream"
    /\ view' = [view EXCEPT ![r].leg = stream, ![r].at = "snapshot"]
    /\ UNCHANGED <<flock, shared, files, pc, verdict, unsaid, forbidRemoteChanges>>

\* A closed leg is derived without opening the lock.
Settle(r, snap) == [view[r] EXCEPT
    !.snap = snap, !.at = "answered", !.answer = Derive(view[r].leg, snap, "unknown")]
ReadSnapshot(r) ==
    /\ view[r].at = "snapshot"
    /\ view' = [view EXCEPT ![r] =
        IF view[r].leg.open THEN [view[r] EXCEPT !.snap = snapshot, !.at = "probe"]
        ELSE Settle(r, snapshot)]
    /\ UNCHANGED <<flock, shared, files, pc, verdict, unsaid, forbidRemoteChanges>>

\* The probe is a shared lock, taken if it can be and given back at once.
AskLock(r) ==
    /\ view[r].at = "probe"
    /\ LET lock == ProbeLock
       IN /\ view' = [view EXCEPT ![r] = [view[r] EXCEPT
                !.at = IF lock = "free" THEN "unlock" ELSE "answered",
                !.held = flock,
                !.answer = Derive(view[r].leg, view[r].snap, lock)]]
          /\ shared' = IF lock = "free" THEN shared \cup {r} ELSE shared
    /\ UNCHANGED <<flock, files, pc, verdict, unsaid, forbidRemoteChanges>>

Unlock(r) ==
    /\ view[r].at = "unlock"
    /\ shared' = shared \ {r}
    /\ view' = [view EXCEPT ![r].at = "answered"]
    /\ UNCHANGED <<flock, files, pc, verdict, unsaid, forbidRemoteChanges>>

\* A watcher polls; a resume asks once.
LookAgain(r) ==
    /\ r \in Watcher /\ view[r].at = "answered"
    /\ view' = [view EXCEPT ![r] = NoView]
    /\ UNCHANGED <<flock, shared, files, pc, verdict, unsaid, forbidRemoteChanges>>

----------------------------------------------------------------------------
LegStep(p) ==
    \/ TakeLock(p) \/ Refused(p) \/ Truncate(p) \/ WriteBody(p)
    \/ BeginPlanning(p) \/ WriteInitial(p) \/ Abort(p) \/ LoadSnapshot(p)
    \/ StartScheduler(p) \/ LastNodePasses(p) \/ SchedulerReturns(p)
    \/ EmitFinished(p) \/ Release(p) \/ Crash(p)

ReaderStep(r) ==
    ReadStream(r) \/ ReadSnapshot(r) \/ AskLock(r) \/ Unlock(r) \/ LookAgain(r)

Next == (\E p \in Leg : LegStep(p)) \/ (\E r \in Reader : ReaderStep(r))

Spec == Init /\ [][Next]_vars

----------------------------------------------------------------------------
(* Properties. *)

\* "two concurrent legs ... would double-run nodes": whatever a reader probes,
\* and whoever dies when, one process at a time is inside a leg, and the lock is
\* that process's from its first write to its last.
OneLegAtATime == \A p \in Leg : pc[p] \in Inside <=> flock = p

\* runLeg.Close: "no reader ever sees an open leg beside a lock nobody holds",
\* unless the leg's process died or its closing event could not be written.
OpenLegIsHeld == stream.open /\ flock = Nobody =>
    pc[stream.by] = "dead" \/ stream.by \in unsaid

\* "A false dead authorises a second scheduler to re-run paid nodes over a live
\* run": a reader that calls a run abandoned probed a lock no leg held, and the
\* leg it read about is over, however its reads and the legs interleaved.
NoFalseDeath == \A r \in Reader : view[r].answer = "ABANDONED" =>
    /\ view[r].held = Nobody
    /\ pc[view[r].leg.by] \notin Inside

\* interruptedAfterEveryNodePassed: "a no-op would exit 0 on a run that reads
\* FAIL".  A retry of an unguarded run has nothing to do on a full snapshot only
\* when the run does not read FAIL, nor ever comes to.  (A guarded run that reads
\* FAIL is told so all the same: docs/LIMITATIONS.md:703-707.)
NoOpNeverOverFail == ~forbidRemoteChanges => \A p \in Leg :
    At(p, "told nothing to do") => StatusNow # "FAIL"

\* Of a guarded run, "its failed close may be a forbidden remote change (exit 6)
\* that an empty leg must not paper over": once every node passed and the run
\* reads FAIL, no resume, death or lost event ever makes it read anything else.
GuardedFailStands ==
    forbidRemoteChanges /\ snapshot = "complete" /\ StatusNow = "FAIL" =>
        snapshot' = "complete" /\ StatusNow' = "FAIL"

\* How a run that failed after its last PASS is answered, in either case: no
\* retry exits 0 over an unguarded one's FAIL, and none undoes a guarded one's.
FailAnswered == [][NoOpNeverOverFail' /\ GuardedFailStands]_vars

(* A claim of the source that a run refutes. *)

\* Recovery: an abandoned run that has a snapshot is continued with
\* `resume --retry-failed`; that command does not leave it abandoned.
RecoveryContinues == \A p \in Leg :
    At(p, "told nothing to do") => StatusNow # "ABANDONED"
=============================================================================
