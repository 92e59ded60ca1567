------------------------------ MODULE RunResume ------------------------------
(***************************************************************************)
(* A run over several legs.  A leg is one process: it schedules the graph  *)
(* (module Scheduler), closes, or dies anywhere in between; what survives  *)
(* it is the snapshot (state.json) and the last run_finished of the event  *)
(* stream.  `resume` opens the next leg from them, in one of two modes: a  *)
(* decision for the gate the run is paused at, or --retry-failed.          *)
(***************************************************************************)
EXTENDS Scheduler

CONSTANTS
    MaxLegs,     \* bound: legs a behaviour may open
    AllowCrash,  \* whether the process of a leg may die
    ForbidRemoteChanges \* whether the run is guarded, as state.json says

ASSUME LegAssumption ==
    MaxLegs \in Nat \ {0} /\ {AllowCrash, ForbidRemoteChanges} \subseteq BOOLEAN

VARIABLES
    process,     \* "leg" while a leg's process lives, "gone" between legs
    finished,    \* the outcome the leg's run_finished carries, "none" before it
    autoApprove, \* snapshot: the gates --auto-approve named at launch
    legs,
    answered     \* history: the gates some resume --approve answered

runVars == <<process, finished, autoApprove, legs, answered>>
allVars == <<vars, runVars>>

RunTypeOK ==
    /\ TypeOK
    /\ process \in {"leg", "gone"}
    /\ finished \in {"none", "passed", "paused", "failed"}
    /\ autoApprove \subseteq Gates
    /\ legs \in 1..MaxLegs
    /\ answered \subseteq Gates

RunInit ==
    /\ Init
    /\ process = "leg"
    /\ finished = "none"
    /\ autoApprove = {g \in Gates : controller[g] = "approve"}
    /\ legs = 1
    /\ answered = {}

----------------------------------------------------------------------------
(* The end of a leg. *)

LegStep == process = "leg" /\ Next /\ UNCHANGED runVars

\* SnapshotRecorder.ClearPause
ClearPauseKeepingGate == limitPause' = {} /\ UNCHANGED <<gatePausedAt, decisions>>
ClearPause ==
    /\ limitPause' = {}
    /\ gatePausedAt' = Nobody
    /\ decisions' = [g \in Gates |->
        IF g = gatePausedAt /\ decisions[g] = "pause" THEN "none" ELSE decisions[g]]

\* remoteLeg.finish: the leg's closing snapshot is taken, and an interrupt that
\* came at any time until then turns a pause or a pass into a failure, as a
\* forbidden remote change does on a guarded run.
CloseLeg ==
    /\ process = "leg" /\ outcome # "open"
    /\ \E late \in {FALSE, AllowInterrupt}, forbidden \in {FALSE, ForbidRemoteChanges} :
        LET overridden == (cancelled \/ late \/ forbidden)
                          /\ outcome \in {"passed", "paused", "limited"}
        IN /\ finished' = IF overridden \/ outcome \in {"halted", "pruned"} THEN "failed"
                          ELSE IF outcome = "passed" THEN "passed" ELSE "paused"
           /\ IF overridden THEN ClearPause ELSE UNCHANGED gateSnap
    /\ process' = "gone"
    /\ UNCHANGED <<goroutines, loopVars, pauseVars, haltVars, prunedFailures, options,
                   records, outcome, autoApprove, legs, answered>>

\* The process dies; its goroutines go with it, the snapshot stays as written.
Crash ==
    /\ AllowCrash /\ process = "leg"
    /\ process' = "gone"
    /\ phase' = [n \in Node |-> "idle"]
    /\ queued' = [n \in Node |-> 0]
    /\ todo' = [n \in Node |-> {}]
    /\ UNCHANGED <<attempt, loopVars, pauseVars, haltVars, prunedFailures, options,
                   gateSnap, records, outcome, finished, autoApprove, legs, answered>>

----------------------------------------------------------------------------
(* Opening a leg (continueRun), from the records and decisions it carries. *)

Carried(recs) == {n \in Node : recs[n].verdict # "none"}
Passed(recs) == {n \in Node : recs[n].verdict = "PASS"}
Settled(recs) == {n \in Node : recs[n].verdict \in {"PASS", "FAIL"}}

\* The declarers whose marker says the run stopped in the middle of their loop.
MidLoop(recs) == {d \in Declarers : recs[d].verdict = "marker"}
SeedRounds(recs) == [n \in Node |->
    IF \E d \in MidLoop(recs) : n \in Body[d]
    THEN recs[CHOOSE d \in MidLoop(recs) : n \in Body[d]].round ELSE 0]
\* The body records an unfinished round has outrun.
SupersededNone(recs) == {}
Superseded(recs) == {n \in Carried(recs) : recs[n].round < SeedRounds(recs)[n]}

LegControllerApproving(ds) == [g \in Gates |->
    IF ds[g] # "none" THEN ds[g] ELSE "approve"]
LegControllerForgetting(ds) == [g \in Gates |->
    IF ds[g] = "approve" \/ g \in autoApprove THEN "approve" ELSE "pause"]
\* RecordedController over the recorded decisions, then the launch's approvals.
LegController(ds) == [g \in Gates |->
    IF ds[g] # "none" THEN ds[g] ELSE IF g \in autoApprove THEN "approve" ELSE "pause"]

LegSettledNone(recs) == {}
\* What the leg must not launch again, unless an arc re-arms it.
LegSettled(recs) == Settled(recs) \ Superseded(recs)

\* RecordLegGate clears the pause: the run is continuing.
LegPause == Nobody

OpenLeg(recs, ds) ==
    LET completed == Passed(recs) \ Superseded(recs)
    IN /\ process = "gone" /\ legs < MaxLegs
       /\ process' = "leg" /\ legs' = legs + 1 /\ finished' = "none"
       /\ settledNodes' = LegSettled(recs)
       /\ controller' = LegController(ds)
       /\ rounds' = SeedRounds(recs)
       /\ inDegree' = LegInDegree(completed)
       /\ queued' = LegQueued(completed, LegSettled(recs))
       /\ phase' = [n \in Node |-> "idle"]
       /\ attempt' = [n \in Node |-> 0]
       /\ todo' = [n \in Node |-> {}]
       /\ rearmed' = {} /\ limitedNodes' = {} /\ prunedFailures' = {}
       /\ pausedAt' = Nobody /\ haltCause' = Nobody /\ groupErr' = Nobody
       /\ cancelled' = FALSE /\ outcome' = "open"
       \* RecordLegGate: the snapshot this leg starts from, in one write.
       /\ nodes' = recs
       /\ decisions' = ds
       /\ gatePausedAt' = LegPause /\ limitPause' = {}
       \* The new ledger is seeded with the carried records' spend.
       /\ ledger' = [n \in Node |-> recs[n].rows]
       /\ UNCHANGED autoApprove

----------------------------------------------------------------------------
(* The two modes of resume. *)

\* resume --approve / --reject: every record is carried, one decision is new.
ResumeGate(g, decision) ==
    /\ gatePausedAt = g
    /\ OpenLeg(nodes, [decisions EXCEPT ![g] = decision])
    /\ answered' = IF decision = "approve" THEN answered \cup {g} ELSE answered

\* partitionForRetry: failed records are cleared, a rejection's is not, and a
\* declarer that failed after its arc fired takes its whole body with it.
FailedToRetry == {n \in Node : nodes[n].verdict = "FAIL"
                               /\ ~(n \in Gates /\ decisions[n] = "reject")}
Cleared == FailedToRetry \cup
    {n \in Carried(nodes) : \E d \in Declarers \cap FailedToRetry :
        nodes[d].round > 0 /\ n \in Body[d]}
Retained == [n \in Node |-> IF n \in Cleared THEN NoRecord ELSE nodes[n]]

\* hasUnfinishedWork: a retry leg would launch something.  The records are
\* taken as they are, before a marker supersedes any of them.
HasUnfinishedWorkUnrecorded(recs) ==
    \E n \in ReadyGiven(Passed(recs)) : recs[n].verdict = "none"
HasUnfinishedWork(recs) == ReadyGiven(Passed(recs)) \ Settled(recs) # {}

\* interruptedAfterEveryNodePassed: the last leg closed failed on a full pass of
\* an unguarded run.
FailedAfterEveryPass ==
    ~ForbidRemoteChanges /\ Passed(nodes) = Node /\ finished = "failed"

RetryOpensLeg ==
    \/ Cleared # {}
    \/ /\ gatePausedAt = Nobody
       /\ HasUnfinishedWork(Retained) \/ FailedAfterEveryPass

ResumeRetry == RetryOpensLeg /\ OpenLeg(Retained, decisions) /\ UNCHANGED answered

----------------------------------------------------------------------------
RunNext ==
    \/ LegStep
    \/ CloseLeg
    \/ Crash
    \/ \E g \in Gates, decision \in {"approve", "reject"} : ResumeGate(g, decision)
    \/ ResumeRetry

RunSpec == RunInit /\ [][RunNext]_allVars

----------------------------------------------------------------------------
(* Properties. *)

\* "a node the first leg already finished is never re-run (and re-paid for)",
\* nor is a failure a gate resume carries: what starts is new in this run, was
\* cleared by a retry, or belongs to a round its record has not reached.
SettledNeverRerun == [][\A n \in Node :
    phase[n] = "idle" /\ phase'[n] = "running" =>
        nodes[n].verdict \notin {"PASS", "FAIL"} \/ nodes[n].round < rounds[n]]_allVars

\* A rejection is a standing human decision: no later leg withdraws it, and
\* nothing behind the gate is ever executed.
RejectStands ==
    /\ [][\A g \in Gates : decisions[g] = "reject" => decisions'[g] = "reject"]_allVars
    /\ [](\A g \in Gates : decisions[g] = "reject" =>
            \A n \in Node : g \in Ancestors[n] =>
                phase[n] = "idle" /\ nodes[n].verdict = "none")

\* "neither a resume nor a pre-approved run can silently run past an approval
\* it was not given" (gate.RecordedController): whatever runs behind a gate, in
\* any leg, runs on an approval given at launch or by a resume --approve since.
NoUnapprovedGate == \A g \in Gates, n \in Node :
    g \in Ancestors[n] /\ (phase[n] # "idle" \/ nodes[n].verdict # "none") =>
        g \in autoApprove \cup answered

\* Whatever a leg left behind, and wherever it died, some resume carries the
\* run on, unless every node passed or what is left waits on a rejected gate.
Rejected(n) == n \in Gates /\ decisions[n] = "reject"
NoStuckRun == process = "gone" =>
    \/ gatePausedAt # Nobody
    \/ RetryOpensLeg
    \/ \A n \in Node : \/ nodes[n].verdict = "PASS"
                       \/ Rejected(n)
                       \/ \E g \in Ancestors[n] : Rejected(g)

\* "so the exit, the snapshot, the stream and the pause hint agree"
\* (remoteLeg.finish): a leg that closed says paused exactly when the snapshot
\* it left holds the pause a resume would find; and, wherever the process died,
\* a gate the snapshot is paused at has no verdict and parents that passed.
PauseAgrees ==
    /\ process = "gone" /\ finished # "none" =>
        (finished = "paused" <=> gatePausedAt # Nobody \/ limitPause # {})
    /\ gatePausedAt # Nobody =>
        /\ nodes[gatePausedAt].verdict = "none"
        /\ \A p \in Parents[gatePausedAt] : nodes[p].verdict = "PASS"

\* What a fresh leg keeps, every leg a resume opens keeps too, over whatever
\* snapshot it was opened: a loop half-way through a round, a cleared failure, a
\* rejected gate, the records of a leg that died.
EveryLegSafe == FreshInputs /\ OneExecution /\ NothingForgotten /\ RowsAccounted

(* A claim of the source that a run refutes. *)

\* Scheduler.Run: "It returns nil only when every node passed."
NilMeansPassed == outcome = "passed" => \A n \in Node : nodes[n].verdict = "PASS"
=============================================================================
