------------------------------ MODULE Scheduler ------------------------------
(***************************************************************************)
(* One leg of a run: internal/schedule.Scheduler.execute drives a          *)
(* validated graph to a stop.  Every node is launched as a goroutine that  *)
(* waits for one of Width slots, runs its node, and then does the          *)
(* bookkeeping of the result: releasing dependents, pausing the leg,       *)
(* re-arming a feedback loop, pruning a subtree or halting the run.        *)
(*                                                                         *)
(* What a node's subprocess says is abstracted to how the scheduler        *)
(* classifies it: it passed, it met the account's session limit, or it     *)
(* failed for one of the causes retry.on can name.                         *)
(***************************************************************************)
EXTENDS Integers, FiniteSets

CONSTANTS
    Node,            \* the graph's node ids
    Parents,         \* depends_on: Node -> set of its parents
    Gates,           \* the nodes of type gate
    Width,           \* effectiveConcurrency: slots of the semaphore
    ContinueOnFail,  \* --continue-on-fail or on_fail: continue
    RetryMax,        \* retry.max of each node
    RetryOn,         \* retry.on of each node
    Declarers,       \* the nodes that declare a feedback arc
    Rerun,           \* feedback.rerun of each declarer
    FeedbackMax,     \* feedback.max of each declarer
    AllowInterrupt,  \* whether a Ctrl-C may arrive
    AllowWriteFault, \* whether the write of a feedback marker may fail
    Nobody           \* the empty node id

\* The tokens retry.on may name; the first three judge the work.
JudgmentCause == {"verify_failed", "result_mismatch", "nonzero_exit"}
RetryToken == JudgmentCause \cup
    {"budget_exceeded", "output_error", "timeout", "run_error"}

\* How an attempt fails.  "verify_fault" is a verification that could not be
\* completed, "killed" the shared context's cancellation, and "broken" any
\* fault offered neither a retry nor the arc: the prompt did not interpolate,
\* the output or the arc's payload did not persist.
FailKind == RetryToken \cup {"verify_fault", "killed", "broken"}

----------------------------------------------------------------------------
(* The graph: ancestors, loop bodies and what load-time validation leaves. *)

\* Every transitive parent of n: the least set closed under Parents.
Ancestors == [n \in Node |->
    {m \in Node : \A S \in SUBSET Node :
        (Parents[n] \subseteq S /\ \A x \in S : Parents[x] \subseteq S) => m \in S}]

\* Every node on a depends_on path from the arc's target up to its declarer.
Body == [d \in Declarers |->
    {n \in Node : \/ n \in {d, Rerun[d]}
                  \/ n \in Ancestors[d] /\ Rerun[d] \in Ancestors[n]}]

DependentsOf(n) == {m \in Node : n \in Parents[m]}

\* The in-degree a fired arc re-seeds: parents inside the body only.
InBodyDegree(d, n) == Cardinality(Parents[n] \cap Body[d])

\* ReadyGiven: what a leg launches when done has already passed.
ReadyGiven(done) == {n \in Node \ done : Parents[n] \subseteq done}

ASSUME NobodyAssumption ==
    /\ Nobody \notin {"own", "cancelled"}
    /\ {Nobody, "own", "cancelled"} \cap Node = {}
ASSUME GraphAssumption ==
    /\ IsFiniteSet(Node)
    /\ Parents \in [Node -> SUBSET Node]
    /\ Gates \subseteq Node
    /\ \A n \in Node : n \notin Ancestors[n]
ASSUME PolicyAssumption ==
    /\ Width \in Nat \ {0}
    /\ {ContinueOnFail, AllowInterrupt, AllowWriteFault} \subseteq BOOLEAN
    /\ RetryMax \in [Node -> Nat]
    /\ RetryOn \in [Node -> SUBSET RetryToken]
\* validateFeedback: bounded arcs, pointing backward, over bodies that are
\* disjoint, hold no gate and have no side exit.
ASSUME FeedbackAssumption ==
    /\ Declarers \subseteq Node \ Gates
    /\ Rerun \in [Declarers -> Node]
    /\ FeedbackMax \in [Declarers -> Nat \ {0}]
    /\ \A d \in Declarers :
        /\ Rerun[d] \in Ancestors[d]
        /\ Body[d] \cap Gates = {}
        /\ \A n \in Body[d] \ {d} : DependentsOf(n) \subseteq Body[d]
        /\ \A e \in Declarers \ {d} : Body[d] \cap Body[e] = {}

----------------------------------------------------------------------------
VARIABLES
    \* The goroutines.
    phase,           \* where each node's goroutine is
    queued,          \* goroutines of each node waiting for a slot
    attempt,         \* attempts the running execution has already spent
    todo,            \* dependents a passed node has still to decrement
    \* The leg's shared state, each part behind its own mutex.
    inDegree, rearmed, pausedAt, limitedNodes, prunedFailures,
    haltCause, groupErr, cancelled, rounds,
    \* The leg's options.
    controller, settledNodes,
    \* The snapshot the recorder keeps (state.json) and the ledger's rows.
    nodes, decisions, gatePausedAt, limitPause, ledger,
    outcome          \* what Run returned, "open" until it does

goroutines == <<phase, queued, attempt, todo>>
loopVars   == <<inDegree, rearmed, rounds>>
pauseVars  == <<pausedAt, limitedNodes>>
haltVars   == <<haltCause, groupErr, cancelled>>
options    == <<controller, settledNodes>>
gateSnap   == <<decisions, gatePausedAt, limitPause>>
records    == <<nodes, ledger>>
vars == <<goroutines, loopVars, pauseVars, haltVars, prunedFailures, options,
          gateSnap, records, outcome>>

Phase == {"idle", "running", "approving", "rejecting", "passed", "releasing",
          "fired", "rearming", "failed", "halting"}
\* Goroutines inside the deferred <-sem: a halting one has already released.
Holding(n) == phase[n] \notin {"idle", "halting"}
SlotFree == Cardinality({n \in Node : Holding(n)}) < Width
Paused == pausedAt # Nobody \/ limitedNodes # {}

Verdict == {"none", "marker", "PASS", "FAIL"}
NoRecord == [verdict |-> "none", round |-> 0, rows |-> 0, detail |-> "own"]
Decision == {"none", "approve", "reject", "pause"}
Outcome == {"open", "passed", "halted", "paused", "limited", "pruned"}

TypeOK ==
    /\ phase \in [Node -> Phase]
    /\ queued \in [Node -> Nat]
    /\ attempt \in [Node -> Nat]
    /\ todo \in [Node -> SUBSET Node]
    /\ inDegree \in [Node -> Int]
    /\ rearmed \subseteq Node
    /\ pausedAt \in Gates \cup {Nobody}
    /\ limitedNodes \subseteq Node
    /\ prunedFailures \subseteq Node
    /\ haltCause \in Node \cup {Nobody}
    /\ groupErr \in Node \cup {Nobody, "cancelled"}
    /\ cancelled \in BOOLEAN
    /\ rounds \in [Node -> Nat]
    /\ controller \in [Gates -> Decision \ {"none"}]
    /\ settledNodes \subseteq Node
    /\ nodes \in [Node -> [verdict : Verdict, round : Nat, rows : Nat,
                           detail : Node \cup {Nobody, "own"}]]
    /\ decisions \in [Gates -> Decision]
    /\ gatePausedAt \in Gates \cup {Nobody}
    /\ limitPause \subseteq Node
    /\ ledger \in [Node -> Nat]
    /\ outcome \in Outcome

----------------------------------------------------------------------------
(* A leg opens with its options and launches what they leave ready.  A     *)
(* fresh run has completed nothing; its gates answer with the launch-time  *)
(* --auto-approve list.                                                    *)

LegInDegree(done) == [n \in Node |-> Cardinality(Parents[n] \ done)]
LegQueued(done, settled) ==
    [n \in Node |-> IF n \in ReadyGiven(done) \ settled THEN 1 ELSE 0]
AutoApprove(named) == [g \in Gates |-> IF g \in named THEN "approve" ELSE "pause"]

\* What every leg finds that has no record to carry.
NothingDone ==
    /\ phase = [n \in Node |-> "idle"]
    /\ queued = LegQueued({}, {})
    /\ attempt = [n \in Node |-> 0]
    /\ todo = [n \in Node |-> {}]
    /\ inDegree = LegInDegree({})
    /\ rearmed = {} /\ limitedNodes = {} /\ prunedFailures = {}
    /\ pausedAt = Nobody /\ haltCause = Nobody /\ groupErr = Nobody
    /\ cancelled = FALSE
    /\ rounds = [n \in Node |-> 0]
    /\ settledNodes = {}
    /\ nodes = [n \in Node |-> NoRecord]
    /\ gatePausedAt = Nobody /\ limitPause = {}
    /\ ledger = [n \in Node |-> 0]
    /\ outcome = "open"

Init ==
    /\ NothingDone
    /\ \E named \in SUBSET Gates : controller = AutoApprove(named)
    /\ decisions = [g \in Gates |-> "none"]

----------------------------------------------------------------------------
(* Launching: a goroutine waits for a slot, and gives up on a cancelled    *)
(* context.                                                                *)

\* launch(n), unless an earlier leg settled n and no arc re-armed it since.
Launch(waiting, n, armed) ==
    IF n \in settledNodes /\ n \notin armed THEN waiting
    ELSE [waiting EXCEPT ![n] = @ + 1]

\* A slot is acquired and the context checked again.  (phase[n] = "idle":
\* OneExecution says a second goroutine of n never waits beside a live one.)
Start(n) ==
    /\ queued[n] > 0
    /\ phase[n] = "idle"
    /\ ~cancelled
    /\ SlotFree
    /\ phase' = [phase EXCEPT ![n] = "running"]
    /\ queued' = [queued EXCEPT ![n] = @ - 1]
    /\ attempt' = [attempt EXCEPT ![n] = 0]
    /\ UNCHANGED <<todo, loopVars, pauseVars, haltVars, prunedFailures, options,
                   gateSnap, records, outcome>>

\* The context was cancelled first: the goroutine returns ctx.Err().
Skip(n) ==
    /\ queued[n] > 0
    /\ cancelled
    /\ queued' = [queued EXCEPT ![n] = @ - 1]
    /\ groupErr' = IF groupErr = Nobody THEN "cancelled" ELSE groupErr
    /\ UNCHANGED <<phase, attempt, todo, loopVars, pauseVars, haltCause, cancelled,
                   prunedFailures, options, gateSnap, records, outcome>>

----------------------------------------------------------------------------
(* The recorder: a record that closes or outruns an earlier round of its   *)
(* node keeps that round's priced rows.                                    *)

SupersedesRound(prior, rec) ==
    \/ rec.round > prior.round
    \/ rec.round = prior.round /\ prior.verdict = "marker" /\ rec.verdict # "marker"

RecordNodeDropping(snap, n, rec) == [snap EXCEPT ![n] = rec]
RecordNode(snap, n, rec) ==
    [snap EXCEPT ![n] = [rec EXCEPT !.rows =
        @ + (IF SupersedesRound(snap[n], rec) THEN snap[n].rows ELSE 0)]]

Row(verdict, round, detail) ==
    [verdict |-> verdict, round |-> round, rows |-> 1, detail |-> detail]

\* One ledger row and one record for what n's execution came to.
Record(n, verdict, round, detail) ==
    /\ nodes' = RecordNode(nodes, n, Row(verdict, round, detail))
    /\ ledger' = [ledger EXCEPT ![n] = @ + 1]

----------------------------------------------------------------------------
(* Running a node: attempts, verdicts and the session limit.               *)

Goto(n, p) == phase' = [phase EXCEPT ![n] = p]

\* causeFromRunError, causeFromCheck: a kill surfaces as a run error, and a
\* verification that never reached a verdict shares the failed one's token.
Token(kind) == CASE kind = "killed" -> "run_error"
                 [] kind = "verify_fault" -> "verify_failed"
                 [] OTHER -> kind
ShouldRetry(n, kind) == attempt[n] < RetryMax[n] /\ Token(kind) \in RetryOn[n]

\* judgeFeedback: the failure judged the work and the arc has rounds left.
ArcFiresOnceMore(n, kind) ==
    kind \in JudgmentCause /\ n \in Declarers /\ rounds[n] <= FeedbackMax[n]
ArcFires(n, kind) ==
    kind \in JudgmentCause /\ n \in Declarers /\ rounds[n] < FeedbackMax[n]

\* haltCause.explain: a cancelled sibling names the node that halted the run.
ExplainByGroup == groupErr
Explain == haltCause

Running(n) == phase[n] = "running" /\ n \notin Gates

RetryAttempt(n, kind) ==
    /\ Running(n)
    /\ kind = "killed" => cancelled
    /\ ShouldRetry(n, kind)
    /\ attempt' = [attempt EXCEPT ![n] = @ + 1]
    /\ UNCHANGED <<phase, queued, todo, loopVars, pauseVars, haltVars, prunedFailures,
                   options, gateSnap, records, outcome>>

Pass(n) ==
    /\ Running(n)
    /\ Record(n, "PASS", rounds[n], "own")
    /\ Goto(n, "passed")
    /\ UNCHANGED <<queued, attempt, todo, loopVars, pauseVars, haltVars, prunedFailures,
                   options, gateSnap, outcome>>

\* recordFail, for a failure that is final.
Fail(n, kind) ==
    /\ Running(n)
    /\ kind = "killed" => cancelled
    /\ ~ShouldRetry(n, kind)
    /\ ~ArcFires(n, kind)
    /\ Record(n, "FAIL", rounds[n], IF kind = "killed" THEN Explain ELSE "own")
    /\ Goto(n, "failed")
    /\ UNCHANGED <<queued, attempt, todo, loopVars, pauseVars, haltVars, prunedFailures,
                   options, gateSnap, outcome>>

\* The session limit is the account's state, not the node's failure: nothing
\* is recorded, and the leg pauses.
LimitedAsFailure(n) ==
    /\ Running(n)
    /\ Record(n, "FAIL", rounds[n], "own")
    /\ limitedNodes' = limitedNodes \cup {n}
    /\ Goto(n, "idle")
    /\ UNCHANGED <<queued, attempt, todo, loopVars, pausedAt, haltVars, prunedFailures,
                   options, gateSnap, outcome>>
LimitedRespawned(n) ==
    /\ Running(n)
    /\ queued' = [queued EXCEPT ![n] = @ + 1]
    /\ Goto(n, "idle")
    /\ UNCHANGED <<attempt, todo, loopVars, pauseVars, haltVars, prunedFailures,
                   options, gateSnap, records, outcome>>
Limited(n) ==
    /\ Running(n)
    /\ limitedNodes' = limitedNodes \cup {n}
    /\ Goto(n, "idle")
    /\ UNCHANGED <<queued, attempt, todo, loopVars, pausedAt, haltVars, prunedFailures,
                   options, gateSnap, records, outcome>>

----------------------------------------------------------------------------
(* Feedback arcs: fire, then re-arm the body unless the leg paused.        *)

\* feedbackState.fire: every node of the body enters the next round.
FireDeclarerOnly(d) == [rounds EXCEPT ![d] = @ + 1]
Fire(d) == [n \in Node |-> IF n \in Body[d] THEN rounds[d] + 1 ELSE rounds[n]]

FireArc(n, kind) ==
    /\ Running(n)
    /\ ~ShouldRetry(n, kind)
    /\ ArcFires(n, kind)
    /\ rounds' = Fire(n)
    /\ Record(n, "marker", rounds[n] + 1, "own")
    /\ Goto(n, "fired")
    /\ UNCHANGED <<queued, attempt, todo, inDegree, rearmed, pauseVars, haltVars,
                   prunedFailures, options, gateSnap, outcome>>

\* The marker's write fails.  The recorder keeps the marker in memory and the
\* terminal FAIL of the same execution lands on it.
MarkerUnwritten(n, kind) ==
    /\ AllowWriteFault
    /\ Running(n)
    /\ ~ShouldRetry(n, kind)
    /\ ArcFires(n, kind)
    /\ rounds' = Fire(n)
    /\ nodes' = RecordNode(RecordNode(nodes, n, Row("marker", rounds[n] + 1, "own")),
                           n, Row("FAIL", rounds[n] + 1, "own"))
    /\ ledger' = [ledger EXCEPT ![n] = @ + 1]
    /\ Goto(n, "failed")
    /\ UNCHANGED <<queued, attempt, todo, inDegree, rearmed, pauseVars, haltVars,
                   prunedFailures, options, gateSnap, outcome>>

\* The handler reads the pause state, and acts on what it read later.
ReadPauseFired(n) ==
    /\ phase[n] = "fired"
    /\ Goto(n, IF Paused THEN "idle" ELSE "rearming")
    /\ UNCHANGED <<queued, attempt, todo, loopVars, pauseVars, haltVars, prunedFailures,
                   options, gateSnap, records, outcome>>

\* Re-seed the body's in-degrees with its in-body parents and launch the target.
Rearmed(n) == [m \in Node |->
    IF m \in Body[n] THEN InBodyDegree(n, m) ELSE inDegree[m]]

RelaunchBody(waiting, n, armed) ==
    [m \in Node |-> waiting[m] + (IF m \in Body[n] THEN 1 ELSE 0)]
Relaunch(waiting, n, armed) == Launch(waiting, Rerun[n], armed)

Rearm(n) ==
    /\ phase[n] = "rearming"
    /\ inDegree' = Rearmed(n)
    /\ rearmed' = rearmed \cup Body[n]
    /\ queued' = Relaunch(queued, n, rearmed')
    /\ Goto(n, "idle")
    /\ UNCHANGED <<attempt, todo, rounds, pauseVars, haltVars, prunedFailures, options,
                   gateSnap, records, outcome>>

----------------------------------------------------------------------------
(* Gates answer from the leg's controller and spawn nothing.               *)

AtGate(n) == phase[n] = "running" /\ n \in Gates

GateApprove(n) ==
    /\ AtGate(n) /\ controller[n] = "approve"
    /\ Record(n, "PASS", 0, "own")
    /\ Goto(n, "approving")
    /\ UNCHANGED <<queued, attempt, todo, loopVars, pauseVars, haltVars, prunedFailures,
                   options, gateSnap, outcome>>

GateApproved(n) ==
    /\ phase[n] = "approving"
    /\ decisions' = [decisions EXCEPT ![n] = "approve"]
    /\ Goto(n, "passed")
    /\ UNCHANGED <<queued, attempt, todo, loopVars, pauseVars, haltVars, prunedFailures,
                   options, gatePausedAt, limitPause, records, outcome>>

GateReject(n) ==
    /\ AtGate(n) /\ controller[n] = "reject"
    /\ decisions' = [decisions EXCEPT ![n] = "reject"]
    /\ Goto(n, "rejecting")
    /\ UNCHANGED <<queued, attempt, todo, loopVars, pauseVars, haltVars, prunedFailures,
                   options, gatePausedAt, limitPause, records, outcome>>

\* A rejection prunes its own subtree whatever the failure policy.
GateRejected(n) ==
    /\ phase[n] = "rejecting"
    /\ Record(n, "FAIL", rounds[n], "own")
    /\ prunedFailures' = prunedFailures \cup {n}
    /\ Goto(n, "idle")
    /\ UNCHANGED <<queued, attempt, todo, loopVars, pauseVars, haltVars, options,
                   gateSnap, outcome>>

\* The first gate to pause is the run's resumable pause point.
GatePause(n) ==
    /\ AtGate(n) /\ controller[n] = "pause"
    /\ pausedAt' = IF pausedAt = Nobody THEN n ELSE pausedAt
    /\ Goto(n, "idle")
    /\ UNCHANGED <<queued, attempt, todo, loopVars, limitedNodes, haltVars,
                   prunedFailures, options, gateSnap, records, outcome>>

----------------------------------------------------------------------------
(* A success releases its dependents one at a time, unless the leg paused. *)

ReadPause(n) ==
    /\ phase[n] = "passed"
    /\ LET stop == Paused \/ DependentsOf(n) = {}
       IN /\ Goto(n, IF stop THEN "idle" ELSE "releasing")
          /\ todo' = [todo EXCEPT ![n] = IF stop THEN {} ELSE DependentsOf(n)]
    /\ UNCHANGED <<queued, attempt, loopVars, pauseVars, haltVars, prunedFailures,
                   options, gateSnap, records, outcome>>

\* Whether the decrement that leaves degree behind is the one that launches.
IsReadyEarly(degree) == degree <= 1
IsReady(degree) == degree = 0

Release(n, d) ==
    /\ phase[n] = "releasing" /\ d \in todo[n]
    /\ inDegree' = [inDegree EXCEPT ![d] = @ - 1]
    /\ queued' = IF IsReady(inDegree'[d]) THEN Launch(queued, d, rearmed) ELSE queued
    /\ todo' = [todo EXCEPT ![n] = @ \ {d}]
    /\ Goto(n, IF todo'[n] = {} THEN "idle" ELSE "releasing")
    /\ UNCHANGED <<attempt, rearmed, rounds, pauseVars, haltVars, prunedFailures,
                   options, gateSnap, records, outcome>>

----------------------------------------------------------------------------
(* A final failure prunes its subtree or halts the whole leg.              *)

Prune(n) ==
    /\ phase[n] = "failed" /\ ContinueOnFail
    /\ prunedFailures' = prunedFailures \cup {n}
    /\ Goto(n, "idle")
    /\ UNCHANGED <<queued, attempt, todo, loopVars, pauseVars, haltVars, options,
                   gateSnap, records, outcome>>

HaltUnnoted(n) ==
    /\ phase[n] = "failed" /\ ~ContinueOnFail
    /\ Goto(n, "halting")
    /\ UNCHANGED <<queued, attempt, todo, loopVars, pauseVars, haltVars,
                   prunedFailures, options, gateSnap, records, outcome>>
\* halt.note, first writer wins; returning then frees the slot.
HaltNote(n) ==
    /\ phase[n] = "failed" /\ ~ContinueOnFail
    /\ haltCause' = IF haltCause = Nobody THEN n ELSE haltCause
    /\ Goto(n, "halting")
    /\ UNCHANGED <<queued, attempt, todo, loopVars, pauseVars, groupErr, cancelled,
                   prunedFailures, options, gateSnap, records, outcome>>

\* The errgroup keeps its first error and cancels the shared context.
HaltReturn(n) ==
    /\ phase[n] = "halting"
    /\ groupErr' = IF groupErr = Nobody THEN n ELSE groupErr
    /\ cancelled' = TRUE
    /\ Goto(n, "idle")
    /\ UNCHANGED <<queued, attempt, todo, loopVars, pauseVars, haltCause,
                   prunedFailures, options, gateSnap, records, outcome>>

\* Ctrl-C cancels the context the leg was handed.
Interrupt ==
    /\ AllowInterrupt /\ outcome = "open" /\ ~cancelled
    /\ cancelled' = TRUE
    /\ UNCHANGED <<goroutines, loopVars, pauseVars, haltCause, groupErr,
                   prunedFailures, options, gateSnap, records, outcome>>

----------------------------------------------------------------------------
(* grp.Wait returned: the leg's pause is persisted and its outcome chosen. *)

AllReturned == \A n \in Node : phase[n] = "idle" /\ queued[n] = 0

OutcomeForgettingLimits ==
    IF groupErr # Nobody THEN "halted"
    ELSE IF pausedAt # Nobody THEN "paused"
    ELSE IF prunedFailures # {} THEN "pruned"
    ELSE "passed"
LegOutcome ==
    IF groupErr # Nobody THEN "halted"
    ELSE IF pausedAt # Nobody THEN "paused"
    ELSE IF limitedNodes # {} THEN "limited"
    ELSE IF prunedFailures # {} THEN "pruned"
    ELSE "passed"

Finish ==
    /\ outcome = "open" /\ AllReturned
    /\ outcome' = LegOutcome
    /\ limitPause' = IF groupErr = Nobody THEN limitedNodes ELSE limitPause
    /\ IF LegOutcome = "paused"
       THEN /\ gatePausedAt' = pausedAt
            /\ decisions' = [decisions EXCEPT ![pausedAt] = "pause"]
       ELSE UNCHANGED <<gatePausedAt, decisions>>
    /\ UNCHANGED <<goroutines, loopVars, pauseVars, haltVars, prunedFailures, options,
                   records>>

----------------------------------------------------------------------------
NodeStep(n) ==
    \/ Start(n) \/ Skip(n)
    \/ Pass(n) \/ Limited(n)
    \/ \E kind \in FailKind :
        RetryAttempt(n, kind) \/ Fail(n, kind) \/ FireArc(n, kind) \/ MarkerUnwritten(n, kind)
    \/ ReadPauseFired(n) \/ Rearm(n)
    \/ GateApprove(n) \/ GateApproved(n) \/ GateReject(n) \/ GateRejected(n)
    \/ GatePause(n)
    \/ ReadPause(n) \/ \E d \in Node : Release(n, d)
    \/ Prune(n) \/ HaltNote(n) \/ HaltReturn(n)

\* The leg is over; Run has returned.
Returned == outcome # "open" /\ UNCHANGED vars

Next == (\E n \in Node : NodeStep(n)) \/ Interrupt \/ Finish \/ Returned

\* Go schedules every runnable goroutine; a node's own step comes because its
\* subprocess is bounded by the node's timeout and its retries by retry.max.
Fairness == WF_vars(Finish) /\ \A n \in Node : WF_vars(NodeStep(n))

Spec == Init /\ [][Next]_vars
FairSpec == Spec /\ Fairness
----------------------------------------------------------------------------
(* Safety. *)

\* n has a goroutine whose inputs are the outputs of its parents.
Consuming(n) ==
    queued[n] > 0 \/ phase[n] \in {"running", "approving", "passed", "releasing"}

\* A node is launched, and works, only on parents whose latest record is a PASS
\* that no later round has outrun: no parent is re-run, failed or outdated under it.
\* The wavefront of execute() and the re-arming of judgeFeedback keep this.
FreshInputs == \A n \in Node : Consuming(n) =>
    \A p \in Parents[n] : nodes[p].verdict = "PASS" /\ nodes[p].round >= rounds[p]

\* A node never has two goroutines: in-degrees re-seeded while decrements are
\* pending, or a launch repeated, would run (and pay for) it twice.  "All body
\* nodes had settled before the declarer could fail, so no member is in flight
\* while this rewires it": nothing of a body moves while its arc is handled.
OneExecution ==
    /\ \A n \in Node : queued[n] + (IF phase[n] = "idle" THEN 0 ELSE 1) <= 1
    /\ \A d \in Declarers : phase[d] \in {"fired", "rearming"} =>
        \A n \in Body[d] : queued[n] = 0 /\ (n # d => phase[n] = "idle")

\* A leg that ends passed or pruned left no node behind that it could have run:
\* a node without a final record, or one its loop has outrun, has a parent
\* that did not pass, or a loop whose arc fired and could not write its marker.
NothingForgotten == outcome \in {"passed", "pruned"} =>
    \A n \in Node :
        nodes[n].verdict \in {"none", "marker"} \/ nodes[n].round < rounds[n] =>
            \/ \E p \in Parents[n] : nodes[p].verdict # "PASS" \/ nodes[p].round < rounds[p]
            \/ AllowWriteFault /\ \E d \in Declarers :
                n \in Body[d] /\ nodes[d].verdict = "FAIL" /\ nodes[d].round >= rounds[d]

\* The nodes of a loop move from round to round together, never past
\* feedback.max, and no record claims a round its node has not reached.
LoopCoherent ==
    /\ \A d \in Declarers : \A n \in Body[d] :
        rounds[n] = rounds[d] /\ rounds[d] <= FeedbackMax[d]
    /\ \A n \in Node : nodes[n].round <= rounds[n]

\* "Worst case, the body runs (1 + Max) times" (graph.Feedback.Max); any other
\* node is executed to a record at most once in a fresh leg.
SpendBounded == \A n \in Node :
    ledger[n] <= 1 + (IF \E d \in Declarers : n \in Body[d]
                      THEN FeedbackMax[CHOOSE d \in Declarers : n \in Body[d]] ELSE 0)

\* SnapshotRecorder.RecordNode: a node's recorded spend sums to what the
\* ledger's one-row-per-execution table shows for it.
RowsAccounted == \A n \in Node : nodes[n].rows = ledger[n]

\* A paused leg can be taken up where it stopped: what it names as the reason
\* has no final record of the current round, and nothing left to wait for.
PausedIsResumable ==
    /\ outcome = "paused" => gatePausedAt # Nobody /\ decisions[gatePausedAt] = "pause"
    /\ outcome = "limited" => limitPause # {}
    /\ outcome \in {"paused", "limited"} =>
        \A n \in limitPause \cup ({gatePausedAt} \ {Nobody}) :
            /\ nodes[n].verdict \in {"none", "marker"} \/ nodes[n].round < rounds[n]
            /\ \A p \in Parents[n] :
                nodes[p].verdict = "PASS" /\ nodes[p].round >= rounds[p]

\* haltCause: "any sibling that observes the cancellation is guaranteed to see
\* the cause set".  In a leg nobody interrupts, a killed node names another
\* node, one that failed of its own.
CausalStory == ~AllowInterrupt => \A n \in Node :
    LET cause == nodes[n].detail
    IN cause # "own" =>
        /\ cause \in Node \ {n}
        /\ nodes[cause].verdict = "FAIL"
        /\ nodes[cause].detail = "own"

(* Liveness. *)

\* Every leg returns: no goroutine waits for ever on a slot, a lock or a
\* dependency, whatever fails, pauses, loops or is cancelled.
Termination == <>(outcome # "open")

(* The leg as DagRun promises it. *)

StatusOf(n) ==
    IF phase[n] \in {"running", "rejecting"} THEN "running"
    ELSE IF nodes[n].verdict \notin {"PASS", "FAIL"} \/ nodes[n].round < rounds[n]
    THEN "pending"
    ELSE IF nodes[n].verdict = "PASS" THEN "passed" ELSE "failed"

ResultOf == CASE outcome \in {"paused", "limited"} -> "paused"
              [] outcome \in {"halted", "pruned"} -> "failed"
              [] OTHER -> outcome

Promise == INSTANCE DagRun WITH
    status <- [n \in Node |-> StatusOf(n)],
    result <- ResultOf

\* Every behaviour of a fresh leg is one DagRun allows: no verdict is taken back
\* but by a round of its loop, no loop runs oftener than its max, and the leg's
\* outcome is true of its nodes.
KeepsPromise == Promise!Spec
=============================================================================
