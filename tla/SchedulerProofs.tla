--------------------------- MODULE SchedulerProofs ---------------------------
(***************************************************************************)
(* What is proved of one leg, for every graph that load-time validation    *)
(* admits, every width, policy and round bound: the types, and the         *)
(* coherence of feedback loops.                                            *)
(***************************************************************************)
EXTENDS Scheduler, FiniteSetTheorems, TLAPS

NodeRecord == [verdict : Verdict, round : Nat, rows : Nat,
               detail : Node \cup {Nobody, "own"}]

\* A goroutine handles a fired arc only for a node that declares one.
LoopPhases == \A n \in Node : phase[n] \in {"fired", "rearming"} => n \in Declarers

IInv == TypeOK /\ LoopPhases

----------------------------------------------------------------------------
(* Lemmas. *)

\* A loop's body holds its declarer and consists of nodes of the graph.
LEMMA BodyType == \A d \in Declarers : Body[d] \subseteq Node /\ d \in Body[d]
BY FeedbackAssumption DEF Body

\* An in-degree counts a finite set of parents.
LEMMA DegreeType ==
    /\ \A done \in SUBSET Node : LegInDegree(done) \in [Node -> Nat]
    /\ \A d \in Declarers, n \in Node : InBodyDegree(d, n) \in Nat
<1>1. ASSUME NEW n \in Node, NEW S \in SUBSET Parents[n] PROVE Cardinality(S) \in Nat
  <2>1. IsFiniteSet(Node) /\ S \subseteq Node
    BY GraphAssumption
  <2>2. IsFiniteSet(S)
    BY <2>1, FS_Subset
  <2> QED
    BY <2>2, FS_CardinalityType
<1>2. QED
  BY <1>1 DEF LegInDegree, InBodyDegree

\* What RecordNode does to the snapshot: n's record takes the new round, and
\* every other record stays.
LEMMA RecordNodeEffect ==
    ASSUME NEW snap \in [Node -> NodeRecord], NEW n \in Node, NEW rec \in NodeRecord
    PROVE  /\ RecordNode(snap, n, rec) \in [Node -> NodeRecord]
           /\ RecordNode(snap, n, rec)[n].round = rec.round
           /\ RecordNode(snap, n, rec)[n].verdict = rec.verdict
           /\ RecordNode(snap, n, rec)[n].detail = rec.detail
           /\ \A m \in Node \ {n} : RecordNode(snap, n, rec)[m] = snap[m]
BY DEF RecordNode, NodeRecord

\* Recording an execution keeps the snapshot and the ledger well-typed.
LEMMA RecordEffect ==
    ASSUME TypeOK, NEW n \in Node, NEW verdict \in Verdict, NEW round \in Nat,
           NEW detail \in Node \cup {Nobody, "own"},
           Record(n, verdict, round, detail)
    PROVE  /\ nodes' \in [Node -> NodeRecord]
           /\ ledger' \in [Node -> Nat]
           /\ nodes'[n].round = round
           /\ nodes'[n].verdict = verdict /\ nodes'[n].detail = detail
           /\ \A m \in Node \ {n} : nodes'[m] = nodes[m]
<1> DEFINE row == Row(verdict, round, detail)
<1>1. nodes \in [Node -> NodeRecord]
  BY DEF TypeOK, NodeRecord
<1>2. /\ row \in NodeRecord /\ row.round = round
      /\ row.verdict = verdict /\ row.detail = detail
  BY DEF NodeRecord, Row
<1>3. nodes' = RecordNode(nodes, n, row)
  BY DEF Record
<1>4. ledger' \in [Node -> Nat]
  BY DEF Record, TypeOK
<1> HIDE DEF row
<1>5. /\ RecordNode(nodes, n, row) \in [Node -> NodeRecord]
      /\ RecordNode(nodes, n, row)[n].round = row.round
      /\ RecordNode(nodes, n, row)[n].verdict = row.verdict
      /\ RecordNode(nodes, n, row)[n].detail = row.detail
      /\ \A m \in Node \ {n} : RecordNode(nodes, n, row)[m] = nodes[m]
  BY <1>1, <1>2, RecordNodeEffect
<1> QED
  BY <1>2, <1>3, <1>4, <1>5

----------------------------------------------------------------------------
(* The types are inductive. *)

LEMMA InitTyped == Init => IInv
<1> SUFFICES ASSUME Init PROVE IInv
  OBVIOUS
<1>1. LegInDegree({}) \in [Node -> Int]
  BY DegreeType
<1>2. controller \in [Gates -> Decision \ {"none"}]
  BY DEF Init, NothingDone, AutoApprove, Decision
<1>3. nodes \in [Node -> [verdict : Verdict, round : Nat, rows : Nat,
                          detail : Node \cup {Nobody, "own"}]]
  BY DEF Init, NothingDone, NoRecord, Verdict
<1>4. queued \in [Node -> Nat]
  BY DEF Init, NothingDone, LegQueued
<1> QED
  BY <1>1, <1>2, <1>3, <1>4 DEF Init, NothingDone, IInv, TypeOK, LoopPhases, Phase, Decision, Outcome

USE DEF goroutines, loopVars, pauseVars, haltVars, options, gateSnap, records

\* A step that only moves n's goroutine, or settles what its result leaves to do.
LEMMA GotoTyped ==
    ASSUME IInv, NEW n \in Node, NEW p \in Phase, Goto(n, p),
           p \in {"fired", "rearming"} => n \in Declarers
    PROVE  phase' \in [Node -> Phase] /\ LoopPhases'
BY DEF IInv, TypeOK, Goto, LoopPhases

LEMMA LaunchTyped ==
    ASSUME NEW waiting \in [Node -> Nat], NEW n \in Node, NEW armed
    PROVE  Launch(waiting, n, armed) \in [Node -> Nat]
BY DEF Launch

LEMMA FireTyped ==
    ASSUME TypeOK, NEW d \in Declarers
    PROVE  Fire(d) \in [Node -> Nat]
BY FeedbackAssumption DEF TypeOK, Fire

LEMMA StepTyped == IInv /\ [Next]_vars => IInv'
<1> SUFFICES ASSUME IInv, [Next]_vars PROVE IInv'
  OBVIOUS
<1> USE FeedbackAssumption DEF IInv
<1>1. ASSUME NEW n \in Node, Start(n) PROVE IInv'
  BY <1>1 DEF Start, TypeOK, LoopPhases, Phase
<1>2. ASSUME NEW n \in Node, Skip(n) PROVE IInv'
  BY <1>2 DEF Skip, TypeOK, LoopPhases
<1>3. ASSUME NEW n \in Node, Pass(n) PROVE IInv'
  <2>1. nodes' \in [Node -> NodeRecord] /\ ledger' \in [Node -> Nat]
    BY <1>3, RecordEffect DEF Pass, Verdict, TypeOK
  <2> QED
    BY <1>3, <2>1, GotoTyped DEF Pass, TypeOK, NodeRecord, LoopPhases, Phase
<1>4. ASSUME NEW n \in Node, Limited(n) PROVE IInv'
  BY <1>4, GotoTyped DEF Limited, TypeOK, Phase
<1>5. ASSUME NEW n \in Node, NEW kind \in FailKind, RetryAttempt(n, kind) PROVE IInv'
  BY <1>5 DEF RetryAttempt, TypeOK, LoopPhases
<1>6. ASSUME NEW n \in Node, NEW kind \in FailKind, Fail(n, kind) PROVE IInv'
  <2>1. nodes' \in [Node -> NodeRecord] /\ ledger' \in [Node -> Nat]
    BY <1>6, RecordEffect DEF Fail, Verdict, TypeOK, Explain
  <2> QED
    BY <1>6, <2>1, GotoTyped DEF Fail, TypeOK, NodeRecord, Phase
<1>7. ASSUME NEW n \in Node, NEW kind \in FailKind, FireArc(n, kind) PROVE IInv'
  <2>1. n \in Declarers
    BY <1>7 DEF FireArc, ArcFires
  <2>2. rounds[n] + 1 \in Nat /\ "marker" \in Verdict
    BY DEF TypeOK, Verdict
  <2>3. Record(n, "marker", rounds[n] + 1, "own")
    BY <1>7 DEF FireArc
  <2>4. nodes' \in [Node -> NodeRecord] /\ ledger' \in [Node -> Nat]
    BY <2>2, <2>3, RecordEffect
  <2> QED
    BY <1>7, <2>1, <2>4, GotoTyped, FireTyped DEF FireArc, TypeOK, NodeRecord, Phase
<1>8. ASSUME NEW n \in Node, NEW kind \in FailKind, MarkerUnwritten(n, kind) PROVE IInv'
  <2>1. n \in Declarers
    BY <1>8 DEF MarkerUnwritten, ArcFires
  <2> DEFINE marker == Row("marker", rounds[n] + 1, "own")
             failure == Row("FAIL", rounds[n] + 1, "own")
  <2>2. nodes \in [Node -> NodeRecord] /\ marker \in NodeRecord /\ failure \in NodeRecord
    BY DEF TypeOK, NodeRecord, Row, Verdict
  <2>3. nodes' = RecordNode(RecordNode(nodes, n, marker), n, failure)
    BY <1>8 DEF MarkerUnwritten
  <2> HIDE DEF marker, failure
  <2>4. RecordNode(nodes, n, marker) \in [Node -> NodeRecord]
    BY <2>2, RecordNodeEffect
  <2>5. nodes' \in [Node -> NodeRecord]
    BY <2>2, <2>3, <2>4, RecordNodeEffect
  <2> QED
    BY <1>8, <2>1, <2>5, GotoTyped, FireTyped DEF MarkerUnwritten, TypeOK, NodeRecord, Phase
<1>9. ASSUME NEW n \in Node, ReadPauseFired(n) PROVE IInv'
  BY <1>9, GotoTyped DEF ReadPauseFired, TypeOK, LoopPhases, Phase
<1>10. ASSUME NEW n \in Node, Rearm(n) PROVE IInv'
  <2>1. n \in Declarers /\ Rerun[n] \in Node
    BY <1>10 DEF Rearm, LoopPhases
  <2>2. inDegree' \in [Node -> Int]
    BY <1>10, <2>1, DegreeType DEF Rearm, Rearmed, TypeOK
  <2>3. queued' \in [Node -> Nat]
    BY <1>10, <2>1, LaunchTyped DEF Rearm, Relaunch, TypeOK
  <2>4. rearmed' \subseteq Node
    BY <1>10, <2>1, BodyType DEF Rearm, TypeOK
  <2> QED
    BY <1>10, <2>2, <2>3, <2>4, GotoTyped DEF Rearm, TypeOK, Phase
<1>11. ASSUME NEW n \in Node, GateApprove(n) PROVE IInv'
  <2>1. nodes' \in [Node -> NodeRecord] /\ ledger' \in [Node -> Nat]
    BY <1>11, RecordEffect DEF GateApprove, Verdict, TypeOK
  <2> QED
    BY <1>11, <2>1, GotoTyped DEF GateApprove, TypeOK, NodeRecord, Phase
<1>12. ASSUME NEW n \in Node, GateApproved(n) PROVE IInv'
  BY <1>12, GotoTyped DEF GateApproved, TypeOK, Phase, Decision
<1>13. ASSUME NEW n \in Node, GateReject(n) PROVE IInv'
  BY <1>13, GotoTyped DEF GateReject, TypeOK, Phase, Decision
<1>14. ASSUME NEW n \in Node, GateRejected(n) PROVE IInv'
  <2>1. nodes' \in [Node -> NodeRecord] /\ ledger' \in [Node -> Nat]
    BY <1>14, RecordEffect DEF GateRejected, Verdict, TypeOK
  <2> QED
    BY <1>14, <2>1, GotoTyped DEF GateRejected, TypeOK, NodeRecord, Phase
<1>15. ASSUME NEW n \in Node, GatePause(n) PROVE IInv'
  BY <1>15, GotoTyped DEF GatePause, AtGate, TypeOK, Phase
<1>16. ASSUME NEW n \in Node, ReadPause(n) PROVE IInv'
  BY <1>16, GotoTyped DEF ReadPause, TypeOK, Phase, DependentsOf
<1>17. ASSUME NEW n \in Node, NEW d \in Node, Release(n, d) PROVE IInv'
  <2>1. queued' \in [Node -> Nat]
    BY <1>17, LaunchTyped DEF Release, TypeOK
  <2>2. inDegree' \in [Node -> Int] /\ todo' \in [Node -> SUBSET Node]
    BY <1>17 DEF Release, TypeOK
  <2> QED
    BY <1>17, <2>1, <2>2, GotoTyped DEF Release, TypeOK, Phase
<1>18. ASSUME NEW n \in Node, Prune(n) PROVE IInv'
  BY <1>18, GotoTyped DEF Prune, TypeOK, Phase
<1>19. ASSUME NEW n \in Node, HaltNote(n) PROVE IInv'
  BY <1>19, GotoTyped DEF HaltNote, TypeOK, Phase
<1>20. ASSUME NEW n \in Node, HaltReturn(n) PROVE IInv'
  BY <1>20, GotoTyped DEF HaltReturn, TypeOK, Phase
<1>21. CASE Interrupt
  BY <1>21 DEF Interrupt, TypeOK, LoopPhases
<1>22. CASE Finish
  BY <1>22 DEF Finish, LegOutcome, TypeOK, LoopPhases, Outcome, Decision
<1>23. CASE Returned
  BY <1>23 DEF Returned, vars, TypeOK, LoopPhases
<1>24. CASE UNCHANGED vars
  BY <1>24 DEF vars, TypeOK, LoopPhases
<1> QED
  BY <1>1, <1>2, <1>3, <1>4, <1>5, <1>6, <1>7, <1>8, <1>9, <1>10, <1>11, <1>12, <1>13,
     <1>14, <1>15, <1>16, <1>17, <1>18, <1>19, <1>20, <1>21, <1>22, <1>23, <1>24
  DEF Next, NodeStep

\* Every variable of a leg keeps its type, on every graph: in particular no
\* goroutine ever re-arms a loop its node does not declare.
THEOREM TypesKept == Spec => []TypeOK
<1>1. Spec => []IInv
  BY InitTyped, StepTyped, PTL DEF Spec
<1> QED
  BY <1>1, PTL DEF IInv

----------------------------------------------------------------------------
(* Loops stay coherent. *)

\* The records of the executions a round asks for never claim a later round.
LEMMA RecordedRounds ==
    ASSUME IInv, LoopCoherent, NEW n \in Node, NEW verdict \in Verdict,
           NEW round \in Nat, NEW detail \in Node \cup {Nobody, "own"},
           Record(n, verdict, round, detail), round <= rounds[n], UNCHANGED rounds
    PROVE  LoopCoherent'
<1>1. nodes'[n].round = round /\ \A m \in Node \ {n} : nodes'[m] = nodes[m]
  BY RecordEffect DEF IInv
<1> QED
  BY <1>1 DEF LoopCoherent

\* An arc that fires with rounds left moves its whole body on, and no other
\* body: the bodies are disjoint.
LEMMA FiredRounds ==
    ASSUME IInv, LoopCoherent, NEW d \in Declarers, rounds[d] < FeedbackMax[d],
           rounds' = Fire(d),
           nodes'[d].round = rounds[d] + 1,
           \A m \in Node \ {d} : nodes'[m] = nodes[m]
    PROVE  LoopCoherent'
<1>1. /\ d \in Node /\ d \in Body[d] /\ Body[d] \subseteq Node
      /\ rounds[d] \in Nat /\ FeedbackMax[d] \in Nat
  BY BodyType, FeedbackAssumption DEF IInv, TypeOK
<1>2. \A n \in Body[d] : rounds'[n] = rounds[d] + 1
  BY <1>1 DEF Fire
<1>3. \A n \in Node \ Body[d] : rounds'[n] = rounds[n]
  BY DEF Fire
<1>4. ASSUME NEW e \in Declarers, NEW n \in Body[e]
      PROVE  rounds'[n] = rounds'[e] /\ rounds'[e] <= FeedbackMax[e]
  <2>1. CASE e = d
    BY <1>1, <1>2, <2>1
  <2>2. CASE e # d
    <3>1. Body[d] \cap Body[e] = {}
      BY <2>2, FeedbackAssumption
    <3>2. e \in Body[e] /\ Body[e] \subseteq Node
      BY BodyType
    <3> QED
      BY <1>3, <3>1, <3>2 DEF LoopCoherent
  <2> QED
    BY <2>1, <2>2
<1>5. ASSUME NEW n \in Node PROVE nodes'[n].round <= rounds'[n]
  <2>1. nodes[n].round \in Nat /\ rounds[n] \in Nat /\ nodes[n].round <= rounds[n]
    BY DEF IInv, TypeOK, LoopCoherent
  <2>2. CASE n = d
    BY <1>1, <1>2, <2>2
  <2>3. CASE n # d /\ n \in Body[d]
    BY <1>1, <1>2, <2>1, <2>3 DEF LoopCoherent
  <2>4. CASE n \notin Body[d]
    BY <1>1, <1>3, <2>1, <2>4
  <2> QED
    BY <2>2, <2>3, <2>4
<1> QED
  BY <1>4, <1>5 DEF LoopCoherent

LEMMA LoopStep == IInv /\ LoopCoherent /\ [Next]_vars => LoopCoherent'
<1> SUFFICES ASSUME IInv, LoopCoherent, [Next]_vars PROVE LoopCoherent'
  OBVIOUS
<1>1. ASSUME NEW n \in Node PROVE rounds[n] \in Nat /\ rounds[n] <= rounds[n]
                                 /\ 0 <= rounds[n] /\ Explain \in Node \cup {Nobody}
  BY DEF IInv, TypeOK, Explain
<1>2. ASSUME NEW n \in Node, Pass(n) PROVE LoopCoherent'
  BY <1>1, <1>2, RecordedRounds DEF Pass, Verdict
<1>3. ASSUME NEW n \in Node, NEW kind \in FailKind, Fail(n, kind) PROVE LoopCoherent'
  BY <1>1, <1>3, RecordedRounds DEF Fail, Verdict
<1>4. ASSUME NEW n \in Node, GateApprove(n) PROVE LoopCoherent'
  BY <1>1, <1>4, RecordedRounds DEF GateApprove, Verdict
<1>5. ASSUME NEW n \in Node, GateRejected(n) PROVE LoopCoherent'
  BY <1>1, <1>5, RecordedRounds DEF GateRejected, Verdict
<1>6. ASSUME NEW n \in Node, NEW kind \in FailKind, FireArc(n, kind) PROVE LoopCoherent'
  <2>1. n \in Declarers /\ rounds[n] < FeedbackMax[n] /\ rounds' = Fire(n)
    BY <1>6 DEF FireArc, ArcFires
  <2>2. rounds[n] + 1 \in Nat /\ "marker" \in Verdict
    BY <1>1 DEF Verdict
  <2>3. Record(n, "marker", rounds[n] + 1, "own")
    BY <1>6 DEF FireArc
  <2>4. /\ nodes'[n].round = rounds[n] + 1
        /\ \A m \in Node \ {n} : nodes'[m] = nodes[m]
    BY <2>2, <2>3, RecordEffect DEF IInv
  <2> QED
    BY <2>1, <2>4, FiredRounds
<1>7. ASSUME NEW n \in Node, NEW kind \in FailKind, MarkerUnwritten(n, kind)
      PROVE  LoopCoherent'
  <2>1. n \in Declarers /\ rounds[n] < FeedbackMax[n] /\ rounds' = Fire(n)
    BY <1>7 DEF MarkerUnwritten, ArcFires
  <2> DEFINE marker == Row("marker", rounds[n] + 1, "own")
             failure == Row("FAIL", rounds[n] + 1, "own")
  <2>2. /\ nodes \in [Node -> NodeRecord] /\ marker \in NodeRecord
        /\ failure \in NodeRecord /\ failure.round = rounds[n] + 1
    BY <1>1 DEF IInv, TypeOK, NodeRecord, Row, Verdict
  <2>3. nodes' = RecordNode(RecordNode(nodes, n, marker), n, failure)
    BY <1>7 DEF MarkerUnwritten
  <2> HIDE DEF marker, failure
  <2>4. /\ RecordNode(nodes, n, marker) \in [Node -> NodeRecord]
        /\ \A m \in Node \ {n} : RecordNode(nodes, n, marker)[m] = nodes[m]
    BY <2>2, RecordNodeEffect
  <2>5. /\ nodes'[n].round = failure.round
        /\ \A m \in Node \ {n} : nodes'[m] = RecordNode(nodes, n, marker)[m]
    BY <2>2, <2>3, <2>4, RecordNodeEffect
  <2> QED
    BY <2>1, <2>2, <2>4, <2>5, FiredRounds
<1>8. ASSUME UNCHANGED <<nodes, rounds>> PROVE LoopCoherent'
  BY <1>8 DEF LoopCoherent
<1>9. ASSUME NEW n \in Node,
             \/ Start(n) \/ Skip(n) \/ Limited(n)
             \/ \E kind \in FailKind : RetryAttempt(n, kind)
             \/ ReadPauseFired(n) \/ Rearm(n) \/ GateApproved(n) \/ GateReject(n)
             \/ GatePause(n) \/ ReadPause(n) \/ (\E d \in Node : Release(n, d))
             \/ Prune(n) \/ HaltNote(n) \/ HaltReturn(n)
      PROVE  UNCHANGED <<nodes, rounds>>
  BY <1>9 DEF Start, Skip, Limited, RetryAttempt, ReadPauseFired, Rearm, GateApproved,
     GateReject, GatePause, ReadPause, Release, Prune, HaltNote, HaltReturn
<1>10. ASSUME Interrupt \/ Finish \/ Returned \/ UNCHANGED vars
       PROVE  UNCHANGED <<nodes, rounds>>
  BY <1>10 DEF Interrupt, Finish, Returned, vars
<1> QED
  BY <1>2, <1>3, <1>4, <1>5, <1>6, <1>7, <1>8, <1>9, <1>10 DEF Next, NodeStep

\* The nodes of a feedback loop share one round, that round never passes
\* feedback.max, and no record is ahead of it, whatever fails and interleaves.
THEOREM LoopsCoherent == Spec => []LoopCoherent
<1>1. Init => LoopCoherent
  BY BodyType, FeedbackAssumption DEF Init, NothingDone, LoopCoherent, NoRecord
<1>2. Spec => []IInv
  BY InitTyped, StepTyped, PTL DEF Spec
<1> QED
  BY <1>1, <1>2, LoopStep, PTL DEF Spec

----------------------------------------------------------------------------
(* The halt's story. *)

\* Strengthening of CausalStory.  The cause is noted before the context is
\* cancelled, and the node it names is over: it is halting, or has returned
\* under a context that starts nothing any more.
HaltInv ==
    /\ cancelled => haltCause # Nobody
    /\ \A n \in Node : phase[n] = "halting" => haltCause # Nobody
    /\ \A n \in Node : phase[n] = "failed" =>
        nodes[n].verdict = "FAIL" /\ (nodes[n].detail = "own" \/ haltCause # Nobody)
    /\ haltCause # Nobody =>
        /\ nodes[haltCause].verdict = "FAIL" /\ nodes[haltCause].detail = "own"
        /\ phase[haltCause] = "halting" \/ (phase[haltCause] = "idle" /\ cancelled)
    /\ \A n \in Node : nodes[n].detail # "own" =>
        nodes[n].detail = haltCause /\ haltCause \in Node \ {n}

\* A node that runs, or whose gate is rejecting, is not the halt's cause.
LEMMA CauseIsOver ==
    ASSUME HaltInv, NEW n \in Node, phase[n] \notin {"halting", "idle"}
    PROVE  haltCause # n
BY NobodyAssumption DEF HaltInv

\* Recording a node that is not the cause keeps the story, provided that a
\* record naming another node names the cause.
LEMMA RecordedStory ==
    ASSUME IInv, HaltInv, NEW n \in Node, NEW verdict \in Verdict, NEW p \in Phase,
           NEW detail \in Node \cup {Nobody, "own"},
           haltCause # n, UNCHANGED <<haltCause, cancelled>>,
           nodes' \in [Node -> NodeRecord],
           nodes'[n].verdict = verdict, nodes'[n].detail = detail,
           \A m \in Node \ {n} : nodes'[m] = nodes[m],
           Goto(n, p), p # "halting", p = "failed" => verdict = "FAIL",
           detail = "own" \/ (detail = haltCause /\ haltCause # Nobody)
    PROVE  HaltInv'
<1>1. phase \in [Node -> Phase] /\ haltCause \in Node \cup {Nobody}
  BY DEF IInv, TypeOK
<1>2. phase'[n] = p /\ \A m \in Node \ {n} : phase'[m] = phase[m]
  BY <1>1 DEF Goto
<1>3. haltCause # Nobody => haltCause \in Node \ {n}
  BY <1>1
<1> QED
  BY <1>1, <1>2, <1>3, NobodyAssumption DEF HaltInv

\* A step of n that leaves the records, the cause and the context alone.
LEMMA MovedStory ==
    ASSUME IInv, HaltInv, NEW n \in Node, NEW p \in Phase,
           haltCause # n, UNCHANGED <<nodes, haltCause, cancelled>>,
           Goto(n, p), p \notin {"halting", "failed"}
    PROVE  HaltInv'
<1>1. phase \in [Node -> Phase] /\ haltCause \in Node \cup {Nobody}
  BY DEF IInv, TypeOK
<1>2. phase'[n] = p /\ \A m \in Node \ {n} : phase'[m] = phase[m]
  BY <1>1 DEF Goto
<1> QED
  BY <1>1, <1>2 DEF HaltInv

LEMMA HaltStep ==
    ASSUME ~AllowInterrupt, IInv, HaltInv, [Next]_vars
    PROVE  HaltInv'
<1>1. phase \in [Node -> Phase] /\ haltCause \in Node \cup {Nobody}
  BY DEF IInv, TypeOK
<1>2. ASSUME NEW n \in Node, Pass(n) \/ GateApprove(n) \/ GateRejected(n)
      PROVE  HaltInv'
  <2>1. PICK v \in {"PASS", "FAIL"}, r \in Nat, p \in {"passed", "approving", "idle"} :
            Record(n, v, r, "own") /\ Goto(n, p)
    BY <1>2 DEF Pass, GateApprove, GateRejected, IInv, TypeOK
  <2>2. UNCHANGED <<haltCause, cancelled>> /\ phase[n] \notin {"halting", "idle"}
    BY <1>2 DEF Pass, GateApprove, GateRejected, Running, AtGate
  <2>3. /\ nodes' \in [Node -> NodeRecord] /\ nodes'[n].verdict = v
        /\ nodes'[n].detail = "own" /\ \A m \in Node \ {n} : nodes'[m] = nodes[m]
    BY <2>1, RecordEffect DEF IInv, Verdict
  <2> QED
    BY <2>1, <2>2, <2>3, CauseIsOver, RecordedStory DEF Phase, Verdict
<1>3. ASSUME NEW n \in Node, NEW kind \in FailKind, Fail(n, kind) PROVE HaltInv'
  <2> DEFINE detail == IF kind = "killed" THEN Explain ELSE "own"
  <2>1. /\ Record(n, "FAIL", rounds[n], detail) /\ Goto(n, "failed")
        /\ UNCHANGED <<haltCause, cancelled>> /\ phase[n] \notin {"halting", "idle"}
    BY <1>3 DEF Fail, Running
  <2>2. /\ detail \in Node \cup {Nobody, "own"} /\ rounds[n] \in Nat
        /\ detail = "own" \/ (detail = haltCause /\ haltCause # Nobody)
    BY <1>1, <1>3 DEF Explain, Fail, HaltInv, IInv, TypeOK
  <2> HIDE DEF detail
  <2>3. /\ nodes' \in [Node -> NodeRecord] /\ nodes'[n].verdict = "FAIL"
        /\ nodes'[n].detail = detail /\ \A m \in Node \ {n} : nodes'[m] = nodes[m]
    BY <2>1, <2>2, RecordEffect DEF IInv, Verdict
  <2> QED
    BY <2>1, <2>2, <2>3, CauseIsOver, RecordedStory DEF Phase, Verdict
<1>4. ASSUME NEW n \in Node, NEW kind \in FailKind, FireArc(n, kind) PROVE HaltInv'
  <2>1. /\ Record(n, "marker", rounds[n] + 1, "own") /\ Goto(n, "fired")
        /\ UNCHANGED <<haltCause, cancelled>> /\ phase[n] \notin {"halting", "idle"}
    BY <1>4 DEF FireArc, Running
  <2>2. rounds[n] + 1 \in Nat
    BY DEF IInv, TypeOK
  <2>3. /\ nodes' \in [Node -> NodeRecord] /\ nodes'[n].verdict = "marker"
        /\ nodes'[n].detail = "own" /\ \A m \in Node \ {n} : nodes'[m] = nodes[m]
    BY <2>1, <2>2, RecordEffect DEF IInv, Verdict
  <2> QED
    BY <2>1, <2>3, CauseIsOver, RecordedStory DEF Phase, Verdict
<1>5. ASSUME NEW n \in Node, NEW kind \in FailKind, MarkerUnwritten(n, kind)
      PROVE  HaltInv'
  <2> DEFINE marker == Row("marker", rounds[n] + 1, "own")
             failure == Row("FAIL", rounds[n] + 1, "own")
  <2>1. /\ Goto(n, "failed") /\ UNCHANGED <<haltCause, cancelled>>
        /\ phase[n] \notin {"halting", "idle"}
        /\ nodes' = RecordNode(RecordNode(nodes, n, marker), n, failure)
    BY <1>5 DEF MarkerUnwritten, Running
  <2>2. /\ nodes \in [Node -> NodeRecord] /\ marker \in NodeRecord
        /\ failure \in NodeRecord /\ failure.verdict = "FAIL" /\ failure.detail = "own"
    BY DEF IInv, TypeOK, NodeRecord, Row, Verdict
  <2> HIDE DEF marker, failure
  <2>3. /\ RecordNode(nodes, n, marker) \in [Node -> NodeRecord]
        /\ \A m \in Node \ {n} : RecordNode(nodes, n, marker)[m] = nodes[m]
    BY <2>2, RecordNodeEffect
  <2>4. /\ nodes' \in [Node -> NodeRecord] /\ nodes'[n].verdict = "FAIL"
        /\ nodes'[n].detail = "own" /\ \A m \in Node \ {n} : nodes'[m] = nodes[m]
    BY <2>1, <2>2, <2>3, RecordNodeEffect
  <2> QED
    BY <2>1, <2>4, CauseIsOver, RecordedStory DEF Phase, Verdict
<1>6. ASSUME NEW n \in Node, Start(n) PROVE HaltInv'
  <2>1. haltCause # n
    BY <1>6, NobodyAssumption DEF Start, HaltInv
  <2> QED
    BY <1>6, <2>1, MovedStory DEF Start, Goto, Phase
<1>7. ASSUME NEW n \in Node,
             \/ Limited(n) \/ ReadPauseFired(n) \/ Rearm(n) \/ GateApproved(n)
             \/ GateReject(n) \/ GatePause(n) \/ ReadPause(n)
             \/ (\E d \in Node : Release(n, d)) \/ Prune(n)
      PROVE  HaltInv'
  <2>1. PICK p \in Phase \ {"halting", "failed"} : Goto(n, p)
    BY <1>7 DEF Limited, ReadPauseFired, Rearm, GateApproved, GateReject, GatePause,
       ReadPause, Release, Prune, Phase
  <2>2. /\ UNCHANGED <<nodes, haltCause, cancelled>>
        /\ phase[n] \notin {"halting", "idle"}
    BY <1>7 DEF Limited, ReadPauseFired, Rearm, GateApproved, GateReject, GatePause,
       ReadPause, Release, Prune, Running, AtGate
  <2> QED
    BY <2>1, <2>2, CauseIsOver, MovedStory
<1>8. ASSUME NEW n \in Node, HaltNote(n) PROVE HaltInv'
  <2>1. phase' = [phase EXCEPT ![n] = "halting"] /\ phase[n] = "failed"
        /\ UNCHANGED <<nodes, cancelled>>
    BY <1>8 DEF HaltNote, Goto
  <2>2. CASE haltCause = Nobody
    BY <1>1, <1>8, <2>1, <2>2, NobodyAssumption DEF HaltNote, HaltInv
  <2>3. CASE haltCause # Nobody
    BY <1>1, <1>8, <2>1, <2>3, NobodyAssumption DEF HaltNote, HaltInv
  <2> QED
    BY <2>2, <2>3
<1>9. ASSUME NEW n \in Node, HaltReturn(n) PROVE HaltInv'
  BY <1>1, <1>9 DEF HaltReturn, Goto, HaltInv
<1>10. ASSUME UNCHANGED <<phase, nodes, haltCause, cancelled>> PROVE HaltInv'
  BY <1>10 DEF HaltInv
<1>11. ASSUME NEW n \in Node, Skip(n) \/ \E kind \in FailKind : RetryAttempt(n, kind)
       PROVE  UNCHANGED <<phase, nodes, haltCause, cancelled>>
  BY <1>11 DEF Skip, RetryAttempt
<1>12. ASSUME Interrupt \/ Finish \/ Returned \/ UNCHANGED vars
       PROVE  UNCHANGED <<phase, nodes, haltCause, cancelled>>
  BY <1>12 DEF Interrupt, Finish, Returned, vars
<1> QED
  BY <1>2, <1>3, <1>4, <1>5, <1>6, <1>7, <1>8, <1>9, <1>10, <1>11, <1>12
  DEF Next, NodeStep

\* In a leg nobody interrupts, every node the halt killed names another node,
\* one that failed of its own: the cause is on record before the cancellation.
THEOREM HaltsExplained == Spec => []CausalStory
<1>1. CASE AllowInterrupt
  <2>1. CausalStory
    BY <1>1 DEF CausalStory
  <2> QED
    BY <2>1, PTL
<1>2. CASE ~AllowInterrupt
  <2>1. Init => HaltInv
    BY DEF Init, NothingDone, HaltInv, NoRecord
  <2>2. HaltInv => CausalStory
    BY NobodyAssumption DEF HaltInv, CausalStory
  <2>3. IInv /\ HaltInv /\ [Next]_vars => HaltInv'
    BY <1>2, HaltStep
  <2>4. Spec => []IInv
    BY InitTyped, StepTyped, PTL DEF Spec
  <2> QED
    BY <2>1, <2>2, <2>3, <2>4, PTL DEF Spec
<1> QED
  BY <1>1, <1>2
=============================================================================
